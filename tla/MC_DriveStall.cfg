SPECIFICATION QuietSpec
CONSTANTS
  DRIVE_NUM = 1
  CLOCK_MAX = 31
  CLKGUARD_SUB_MIN = 5
  ClkMaxValue = 26
  ClkBase = 3
  SyncNum = 5
  SyncDen = 4
  FrameCycles = 3
  MaxCycles = 2
  SkipLag = 20
  SkipClk = 10
  Skippers = {}
  Events = {}
  DueBound = 16
INVARIANTS CaughtUp
