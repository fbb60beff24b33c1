SPECIFICATION Spec
CONSTANTS
  cia1 = cia1
  vic = vic
  cia2 = cia2
  cart = cart
  IrqLines = {cia1}
  NmiLines = {cia2}
  SavedLines = {cia1, cia2}
  CLOCK_MAX = 9
  MaxCycles = 1
  HandlerCycles = 1
  Traps = {"save", "load"}
  Events = {"menu", "jam"}
  CLKGUARD_SUB_MIN = 2
  ClkMaxValue = 7
  ClkBase = 1
INVARIANTS LoadedStateFits
PROPERTIES TrapSnapshotIsWhole
CONSTRAINT FewImages
