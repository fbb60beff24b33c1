SPECIFICATION Spec
CONSTANTS
  cia1 = cia1
  vic = vic
  cia2 = cia2
  cart = cart
  IrqLines = {cia1, vic}
  NmiLines = {cia2}
  SavedLines = {cia1, vic, cia2}
  CLOCK_MAX = 12
  MaxCycles = 2
  HandlerCycles = 2
  Traps = {"other"}
  Events = {"reset", "monitor"}
  CLKGUARD_SUB_MIN = 3
  ClkMaxValue = 9
  ClkBase = 1
INVARIANTS TypeOK LinesCounted NmiIsEdge RequestsSurvive
PROPERTIES EntriesJustified
