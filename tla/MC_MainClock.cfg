SPECIFICATION Spec
CONSTANTS
  Raster = r
  Timers = {t1, t2}
  OneShots = {k}
  Alarms = {r, t1, t2, k}
  ALARM_CONTEXT_MAX_PENDING_ALARMS = 4
  CLOCK_MAX = 57
  CLKGUARD_SUB_MIN = 14
  ClkMaxValue = 43
  ClkBase = 4
  LineCycles = 2
  Lines = 2
  Period = 3
  MaxCycles = 2
  Horizon = 3
  MaxStores = 3
INVARIANTS TypeOK TableConsistent AlarmsNearClock DevicesInStep
PROPERTIES ImplementsTimerQueue EventsArrive
