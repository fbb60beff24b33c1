SPECIFICATION PartSpec
CONSTANTS
  Parts = {"drive", "datasette", "serial"}
  DRIVE_NUM = 1
  CLOCK_MAX = 23
  CLKGUARD_SUB_MIN = 5
  ClkMaxValue = 18
  ClkBase = 2
  SyncNum = 1
  SyncDen = 1
  FrameCycles = 2
  MaxCycles = 1
  SkipLag = 14
  SkipClk = 8
  Skippers = {0}
  Events = {"reset", "toggle", "monitor"}
  DueBound = 2
  Flux <- Pulses
  DATASETTE_MAX_GAP = 2
  MOTOR_DELAY = 3
  WindDelay = 1
  MaxLate = 2
  NOT = NOT
  BITS = 4
  Commands <- SerialCommands
  Channels = {0, 15}
  CommandChannel = 15
  Files <- SerialFiles
  NewNames <- SerialNames
  Units <- SerialUnits
  Programs <- SerialPrograms
  InitialUnits = {{8}, {8, 9}}
  MaxFaults = 1
INVARIANTS LastClkMirrorsMain DevicesTypeOK StatusIsTrue DataIsWhole BusComesFree
PROPERTIES TapeInStep
