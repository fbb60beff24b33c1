SPECIFICATION PartSpec
CONSTANTS
  Parts = {"drive"}
  CiaTimers = {c1}
  ViaTimers = {v1}
  Alarms = {c1, v1}
  ALARM_CONTEXT_MAX_PENDING_ALARMS = 3
  CLOCK_MAX = 48
  CLKGUARD_SUB_MIN = 12
  ClkMaxValue = 36
  ClkBase = 0
  Period = 3
  MaxCycles = 2
  FrameCycles = 1
  NEVER = NEVER
  Latches = {1}
  ControlsA <- CraValues
  ControlsB <- CrbValues
  MaxBehind = 2
  MaxAlarmLate = 1
  TimerLatches = {0, 1, 3}
  TimerControls <- CrValues
  MaxSkip = 9
  fifo_size = 6
  MaxNotify = 1
  FRAGSIZE = 2
  FRAGNR = 3
  SOUND_BUFSIZE = 4
  SuspendTime = TRUE
  Settings = {"warp", "sound", "speed", "device", "reset", "snapshot"}
  SidFails = TRUE
  MaxMade = 2
INVARIANTS CiaTimersAgree
