SPECIFICATION LiveSpec
CONSTANTS
  Parts = {"interrupt", "audio"}
  cia1 = cia1
  vic = vic
  cia2 = cia2
  cart = cart
  IrqLines = {cia1}
  NmiLines = {cia2}
  SavedLines = {cia1, cia2}
  CLOCK_MAX = 12
  MaxCycles = 2
  HandlerCycles = 2
  Traps = {}
  Events = {"reset", "jam"}
  CLKGUARD_SUB_MIN = 3
  ClkMaxValue = 9
  ClkBase = 1
  fifo_size = 6
  MaxNotify = 1
  FRAGSIZE = 2
  FRAGNR = 3
  SOUND_BUFSIZE = 4
  SuspendTime = FALSE
  Settings = {"pause", "sound"}
  SidFails = FALSE
  MaxMade = 2
PROPERTIES InterruptsServed EmulatorGoesOn
