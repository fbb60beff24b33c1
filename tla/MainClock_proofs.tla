-------------------------- MODULE MainClock_proofs --------------------------
(***************************************************************************)
(* The main CPU's clock never overflows and never loses an alarm, for any  *)
(* number of alarms, any clock width and any timing that satisfies the     *)
(* assumptions of MainClock.                                               *)
(***************************************************************************)
EXTENDS MainClock, AlarmContext_proofs

\* The numbers involved, with products as atoms.
LEMMA Constants ==
  /\ CLOCK_MAX \in Nat /\ ClkMaxValue \in Nat /\ CLKGUARD_SUB_MIN \in Nat
  /\ LineCycles \in Nat /\ Lines \in Nat /\ Period \in Nat /\ MaxCycles \in Nat /\ Horizon \in Nat
  /\ LineCycles >= 1 /\ Lines >= 1 /\ MaxCycles >= 1 /\ Horizon >= 1 /\ Period >= 1
  /\ LineCycles <= Horizon /\ Period <= Horizon
  /\ ClkMaxValue >= 3 * CLKGUARD_SUB_MIN /\ CLOCK_MAX = ClkMaxValue + CLKGUARD_SUB_MIN
  /\ Lines * LineCycles \in Nat /\ Lines * LineCycles >= LineCycles
  /\ Lines * LineCycles + LineCycles + 2 * MaxCycles + Horizon < CLKGUARD_SUB_MIN
<1>1. /\ LineCycles \in Nat /\ Lines \in Nat /\ Period \in Nat /\ MaxCycles \in Nat /\ Horizon \in Nat
      /\ LineCycles >= 1 /\ Lines >= 1 /\ MaxCycles >= 1 /\ Horizon >= 1 /\ Period >= 1
      /\ LineCycles <= Horizon /\ Period <= Horizon
  BY TimingAssumption
<1>2. /\ CLOCK_MAX \in Nat /\ ClkMaxValue \in Nat /\ CLKGUARD_SUB_MIN \in Nat
      /\ ClkMaxValue >= 3 * CLKGUARD_SUB_MIN
  BY GuardAssumption, ClockAssumption
<1>3. CLOCK_MAX = ClkMaxValue + CLKGUARD_SUB_MIN
  BY <1>2, RoomAssumption
<1>4. Lines * LineCycles \in Nat /\ Lines * LineCycles >= LineCycles
  BY <1>1
<1>5. (Lines + 1) * LineCycles = Lines * LineCycles + LineCycles
  BY <1>1
<1> QED
  BY <1>1, <1>2, <1>3, <1>4, <1>5, RoomAssumption

\* How far the beam may be, by line.
LEMMA DrawLimits ==
  ASSUME NEW l \in 0 .. Lines - 1
  PROVE  /\ DrawLimit(l) \in Nat /\ DrawLimit(l) <= ClkMaxValue + Lines * LineCycles
         /\ DrawLimit(0) = ClkMaxValue + LineCycles
         /\ DrawLimit(l + 1) = DrawLimit(l) + LineCycles
<1>1. l \in Nat /\ l + 1 <= Lines /\ Lines \in Nat /\ LineCycles \in Nat
  BY Constants
<1>2. /\ (l + 1) * LineCycles \in Nat /\ (l + 1) * LineCycles <= Lines * LineCycles
      /\ (l + 1 + 1) * LineCycles = (l + 1) * LineCycles + LineCycles
  BY <1>1
<1> QED
  BY <1>1, <1>2, Constants DEF DrawLimit

\* Where the five stages of the hook stand.
LEMMA Stages ==
  /\ \A x : DoneIn(<<>>, x)
  /\ DoneIn(<<"rearm">>, "machine") /\ DoneIn(<<"rearm">>, "vicii") /\ DoneIn(<<"rearm">>, "cia")
  /\ ~ DoneIn(<<"machine", "rearm">>, "machine")
  /\ DoneIn(<<"machine", "rearm">>, "vicii") /\ DoneIn(<<"machine", "rearm">>, "cia")
  /\ ~ DoneIn(<<"vicii", "machine", "rearm">>, "machine")
  /\ ~ DoneIn(<<"vicii", "machine", "rearm">>, "vicii")
  /\ DoneIn(<<"vicii", "machine", "rearm">>, "cia")
  /\ ~ DoneIn(HookSteps, "machine") /\ ~ DoneIn(HookSteps, "vicii") /\ ~ DoneIn(HookSteps, "cia")
<1>1. \A x : DoneIn(<<>>, x)
  BY DEF DoneIn
<1>2. DoneIn(<<"rearm">>, "machine") /\ DoneIn(<<"rearm">>, "vicii") /\ DoneIn(<<"rearm">>, "cia")
  BY DEF DoneIn
<1>3. DoneIn(<<"machine", "rearm">>, "vicii") /\ DoneIn(<<"machine", "rearm">>, "cia")
  BY DEF DoneIn
<1>4. DoneIn(<<"vicii", "machine", "rearm">>, "cia")
  BY DEF DoneIn
<1>5. ~ DoneIn(<<"machine", "rearm">>, "machine")
  <2>1. 1 \in 1 .. Len(<<"machine", "rearm">>) /\ <<"machine", "rearm">>[1] = "machine"
    OBVIOUS
  <2> QED
    BY <2>1 DEF DoneIn
<1>6. ~ DoneIn(<<"vicii", "machine", "rearm">>, "machine") /\ ~ DoneIn(<<"vicii", "machine", "rearm">>, "vicii")
  <2> DEFINE q == <<"vicii", "machine", "rearm">>
  <2>1. {1, 2} \subseteq 1 .. Len(q) /\ q[1] = "vicii" /\ q[2] = "machine"
    OBVIOUS
  <2> QED
    BY <2>1 DEF DoneIn
<1>7. ~ DoneIn(HookSteps, "machine") /\ ~ DoneIn(HookSteps, "vicii") /\ ~ DoneIn(HookSteps, "cia")
  <2>1. /\ {1, 2, 3} \subseteq 1 .. Len(HookSteps)
        /\ HookSteps[1] = "cia" /\ HookSteps[2] = "vicii" /\ HookSteps[3] = "machine"
    BY DEF HookSteps
  <2> QED
    BY <2>1 DEF DoneIn
<1> QED
  BY <1>1, <1>2, <1>3, <1>4, <1>5, <1>6, <1>7

\* Arming and disarming, as the devices see them.
LEMMA Arm ==
  ASSUME NEW c, Consistent(c), NEW a \in Alarms, NEW t \in Nat, t < CLOCK_MAX,
         NEW d, d = alarm_set(c, a, t)
  PROVE  /\ Consistent(d) /\ IsPending(d, a) /\ DueClk(d, a) = t
         /\ OthersKept(c, d, a)
<1>1. t \in Clock
  BY Constants DEF Clock
<1> QED
  BY <1>1, SetConsistent, SetEffect, RoomForOneMore, SlotsSufficeAssumption DEF Consistent, Whole

\* A device disarms its alarm: nothing else moves.
LEMMA Disarm ==
  ASSUME NEW c, Consistent(c), NEW a \in Alarms, NEW d, d = alarm_unset(c, a)
  PROVE  /\ Consistent(d) /\ ~ IsPending(d, a)
         /\ OthersKept(c, d, a)
BY UnsetConsistent, UnsetEffect DEF Consistent, Whole

\* A pending alarm is due at a clock of the table.
LEMMA DueClkType ==
  ASSUME NEW c, Consistent(c), NEW a \in Alarms, IsPending(c, a)
  PROVE  DueClk(c, a) \in Nat /\ DueClk(c, a) <= CLOCK_MAX /\ c.num # 0 /\ c.next_clk <= DueClk(c, a)
<1>1. IsContext(c) /\ c.pending_idx[a] \in Slots(c) /\ CacheIsEarliest(c)
  BY DEF Consistent, SlotsMatch
<1> QED
  BY <1>1, ContextFacts DEF DueClk, CacheIsEarliest

\* The alarm that is dispatched is the earliest one, and it is due.
LEMMA DispatchedIsDue ==
  ASSUME NEW c, Consistent(c), c.num # 0, NEW now \in Nat, MustDispatch(c, now)
  PROVE  LET a == alarm_context_dispatch(c) IN
         a \in Alarms /\ IsPending(c, a) /\ DueClk(c, a) <= now
<1>1. IsContext(c) /\ SlotsMatch(c) /\ c.next_idx \in Slots(c) /\ c.next_clk = c.clk[c.next_idx]
  BY DEF Consistent, CacheIsEarliest
<1>2. c.alarm[c.next_idx] \in Alarms /\ c.pending_idx[c.alarm[c.next_idx]] = c.next_idx
  BY <1>1, ContextFacts DEF SlotsMatch
<1>3. c.next_idx # -1
  BY <1>1, ContextFacts
<1> QED
  BY <1>1, <1>2, <1>3 DEF alarm_context_dispatch, IsPending, DueClk, MustDispatch

\* The three kinds of alarms do not overlap.
LEMMA AlarmKinds ==
  Raster \in Alarms /\ Timers \subseteq Alarms /\ OneShots \subseteq Alarms
    /\ Raster \notin Timers /\ Raster \notin OneShots /\ \A t \in Timers : t \notin OneShots
BY AlarmsAssumption

-----------------------------------------------------------------------------
\* Outside the hook: everything is on one time scale, and the raster alarm,
\* which is never far behind, keeps the clock below its maximum.
LEMMA OutsideHook ==
  ASSUME MainClockInv, todo = <<>>
  PROVE  /\ clk \in Nat /\ sub = 0 /\ Consistent(ctx) /\ ctx.num # 0
         /\ ContextClk = clk /\ CiaClk = clk /\ ViciiClk = clk
         /\ line \in 0 .. Lines - 1 /\ draw_clk \in Nat /\ IsPending(ctx, Raster)
         /\ draw_clk = DueClk(ctx, Raster) /\ draw_clk >= clk - MaxCycles
         /\ draw_clk < DrawLimit(line)
         /\ draw_clk < ClkMaxValue + Lines * LineCycles
         /\ clk < ClkMaxValue + Lines * LineCycles + MaxCycles
         /\ \A a \in Alarms : IsPending(ctx, a) =>
              /\ DueClk(ctx, a) \in Nat /\ DueClk(ctx, a) >= clk - MaxCycles
              /\ DueClk(ctx, a) <= clk + Horizon
         /\ \A t \in Timers : alarmclk[t] = IF IsPending(ctx, t) THEN DueClk(ctx, t) ELSE CLOCK_MAX
<1>1. /\ clk \in Nat /\ Consistent(ctx) /\ line \in 0 .. Lines - 1 /\ draw_clk \in Nat
      /\ alarmclk \in [Timers -> Nat]
  BY Constants DEF MainClockInv, TypeOK, Clock, TableConsistent, Consistent
<1>2. ContextClk = clk /\ CiaClk = clk /\ ViciiClk = clk
  BY Stages DEF ContextClk, CiaClk, ViciiClk, Warped
<1>3. /\ sub = 0 /\ draw_clk < DrawLimit(line)
      /\ IsPending(ctx, Raster) /\ draw_clk = DueClk(ctx, Raster)
  BY DEF MainClockInv, ClockNearLimit, RasterMirrorsAlarm
<1>4. \A a \in Alarms : IsPending(ctx, a) =>
        /\ DueClk(ctx, a) \in Nat /\ DueClk(ctx, a) >= clk - MaxCycles
        /\ DueClk(ctx, a) <= clk + Horizon
  <2> TAKE a \in Alarms
  <2> HAVE IsPending(ctx, a)
  <2>1. DueClk(ctx, a) \in Nat
    BY <1>1, DueClkType
  <2>2. DueClk(ctx, a) - clk \in -MaxCycles .. Horizon
    BY <1>2 DEF MainClockInv, AlarmsNearClock, MaxLag
  <2> QED
    BY <1>1, <2>1, <2>2, Constants
<1>5. \A t \in Timers : alarmclk[t] = IF IsPending(ctx, t) THEN DueClk(ctx, t) ELSE CLOCK_MAX
  <2> TAKE t \in Timers
  <2>1. CASE IsPending(ctx, t)
    <3>1. alarmclk[t] - clk = DueClk(ctx, t) - clk
      BY <1>2, <2>1 DEF MainClockInv, TimersMirrorAlarms
    <3> QED
      BY <1>1, <1>4, <2>1, <3>1, AlarmKinds
  <2> QED
    BY <2>1 DEF MainClockInv, TimersMirrorAlarms
<1>6. ctx.num # 0
  BY <1>1, <1>3, DueClkType, AlarmKinds
<1>7. /\ DrawLimit(line) \in Nat /\ DrawLimit(line) <= ClkMaxValue + Lines * LineCycles
      /\ draw_clk >= clk - MaxCycles
  BY <1>1, <1>3, <1>4, DrawLimits, AlarmKinds
<1>8. /\ draw_clk < ClkMaxValue + Lines * LineCycles
      /\ clk < ClkMaxValue + Lines * LineCycles + MaxCycles
  BY <1>1, <1>3, <1>7, Constants
<1> QED
  BY <1>1, <1>2, <1>3, <1>4, <1>5, <1>6, <1>7, <1>8

\* The converse: what a state outside the hook must satisfy.  Stated for the
\* next state, which is where it is used.
LEMMA OutsideHookNext ==
  ASSUME todo' = <<>>, sub' = 0, clk' \in Nat, draw_clk' \in Nat, line' \in 0 .. Lines - 1,
         stores' \in 0 .. MaxStores, alarmclk' \in [Timers -> Nat],
         Consistent(ctx'), IsPending(ctx', Raster), draw_clk' = DueClk(ctx', Raster),
         draw_clk' < DrawLimit(line'),
         \A a \in Alarms : IsPending(ctx', a) =>
           DueClk(ctx', a) >= clk' - MaxCycles /\ DueClk(ctx', a) <= clk' + Horizon,
         \A t \in Timers : alarmclk'[t] = IF IsPending(ctx', t) THEN DueClk(ctx', t) ELSE CLOCK_MAX
  PROVE  MainClockInv'
<1>1. ContextClk' = clk' /\ CiaClk' = clk' /\ ViciiClk' = clk'
  BY Stages DEF ContextClk, CiaClk, ViciiClk, Warped
<1>2. \A a \in Alarms : IsPending(ctx', a) =>
         DueClk(ctx', a) \in Nat /\ DueClk(ctx', a) <= CLOCK_MAX
  BY DueClkType
<1>3. draw_clk' <= CLOCK_MAX /\ clk' - MaxCycles <= draw_clk' /\ Raster \in Alarms
  BY <1>2, AlarmKinds
<1>4. DrawLimit(line') \in Nat /\ DrawLimit(line') <= ClkMaxValue + Lines * LineCycles
  BY DrawLimits
<1>5. clk' <= CLOCK_MAX
  BY <1>3, <1>4, Constants
<1>6. \A t \in Timers : alarmclk'[t] <= CLOCK_MAX
  BY <1>2, AlarmKinds, Constants
<1>7. TypeOK'
  <2>1. clk' \in Clock /\ draw_clk' \in Clock /\ sub' \in Clock /\ IsContext(ctx')
    BY <1>3, <1>5, Constants DEF Clock, Consistent
  <2>2. alarmclk' \in [Timers -> Clock]
    BY <1>6, Constants DEF Clock
  <2> QED
    BY <2>1, <2>2 DEF TypeOK
<1>8. TableConsistent'
  BY DEF TableConsistent, Consistent
<1>9. AlarmsNearClock'
  <2> SUFFICES ASSUME NEW a \in Alarms, IsPending(ctx', a)
               PROVE  DueClk(ctx', a) - clk' \in -MaxCycles .. Horizon
    BY <1>1 DEF AlarmsNearClock, MaxLag
  <2> QED
    BY <1>2, Constants
<1>10. TimersMirrorAlarms'
  BY <1>1 DEF TimersMirrorAlarms
<1>11. RasterMirrorsAlarm' /\ ClockNearLimit'
  BY DEF RasterMirrorsAlarm, ClockNearLimit
<1> QED
  BY <1>7, <1>8, <1>9, <1>10, <1>11 DEF MainClockInv

\* The machine starts with the invariant: only the raster alarm is armed.
LEMMA InitInv ==
  ASSUME Init
  PROVE  MainClockInv
<1>1. PICK garbage \in -1 .. 1 : ctx = alarm_set(alarm_context_init(garbage), Raster, draw_clk)
  BY DEF Init
<1>2. /\ clk = 6 /\ line = 0 /\ draw_clk = 6 + LineCycles /\ todo = <<>> /\ sub = 0 /\ stores = 0
      /\ alarmclk = [t \in Timers |-> CLOCK_MAX]
  BY DEF Init
<1> DEFINE c == alarm_context_init(garbage)
<1>3. Consistent(c) /\ \A a \in Alarms : ~ IsPending(c, a)
  <2>1. garbage \in Int
    OBVIOUS
  <2> QED
    BY <2>1, InitConsistent DEF alarm_context_init, IsPending
<1> HIDE DEF c
<1>4. draw_clk \in Nat /\ draw_clk < CLOCK_MAX /\ 6 <= CLOCK_MAX
  BY <1>2, Constants, StartAssumption
<1>5. /\ Consistent(ctx) /\ IsPending(ctx, Raster) /\ DueClk(ctx, Raster) = draw_clk
      /\ \A a \in Alarms \ {Raster} : ~ IsPending(ctx, a)
  <2>1. Raster \in Alarms
    BY AlarmKinds
  <2> QED
    BY <1>1, <1>3, <1>4, <2>1, Arm DEF c, OthersKept
<1>6. ContextClk = clk /\ CiaClk = clk /\ ViciiClk = clk
  BY <1>2, Stages DEF ContextClk, CiaClk, ViciiClk, Warped
<1>7. TypeOK
  <2>1. clk \in Clock /\ draw_clk \in Clock /\ sub \in Clock /\ IsContext(ctx)
    BY <1>2, <1>4, <1>5, Constants DEF Clock, Consistent
  <2>2. alarmclk \in [Timers -> Clock] /\ line \in 0 .. Lines - 1 /\ stores \in 0 .. MaxStores
    BY <1>2, Constants, TimingAssumption DEF Clock
  <2> QED
    BY <1>2, <2>1, <2>2 DEF TypeOK
<1>8. TableConsistent
  BY <1>5 DEF TableConsistent, Consistent
<1>9. AlarmsNearClock
  BY <1>2, <1>5, <1>6, Constants DEF AlarmsNearClock, MaxLag
<1>10. TimersMirrorAlarms
  BY <1>2, <1>5, AlarmKinds DEF TimersMirrorAlarms
<1>11. RasterMirrorsAlarm
  BY <1>5 DEF RasterMirrorsAlarm
<1>12. ClockNearLimit
  <2>1. DrawLimit(0) = ClkMaxValue + LineCycles
    BY DrawLimits, Constants
  <2> QED
    BY <1>2, <2>1, Constants, StartAssumption DEF ClockNearLimit
<1> QED
  BY <1>7, <1>8, <1>9, <1>10, <1>11, <1>12 DEF MainClockInv

\* An instruction is not started with an alarm due, so it passes none by more
\* than its own length.
LEMMA InstructionInv ==
  ASSUME MainClockInv, NEW n \in 1 .. MaxCycles, Instruction(n)
  PROVE  MainClockInv'
<1>1. todo = <<>> /\ ~ MustDispatch(ctx, clk) /\ clk' = clk + n
  BY DEF Instruction
<1>2. UNCHANGED <<ctx, line, draw_clk, alarmclk, todo, sub, stores>>
  BY DEF Instruction
<1>3. n \in Nat /\ n >= 1 /\ n <= MaxCycles
  BY Constants
<1>4. \A a \in Alarms : IsPending(ctx, a) => DueClk(ctx, a) > clk
  <2>1. Consistent(ctx) /\ clk \in Nat /\ ctx.next_clk \in Nat
    BY <1>1, OutsideHook, ContextFacts DEF Consistent
  <2> QED
    BY <1>1, <2>1, DueClkType DEF MustDispatch
<1>5. \A a \in Alarms : IsPending(ctx, a) =>
        DueClk(ctx, a) >= clk' - MaxCycles /\ DueClk(ctx, a) <= clk' + Horizon
  BY <1>1, <1>3, <1>4, OutsideHook, Constants
<1>6. stores \in 0 .. MaxStores /\ alarmclk \in [Timers -> Nat]
  BY DEF MainClockInv, TypeOK, Clock
<1>7. clk' \in Nat
  BY <1>1, <1>3, OutsideHook
<1> QED
  BY <1>1, <1>2, <1>5, <1>6, <1>7, OutsideHook, OutsideHookNext

\* The table after one device's alarm, not the raster's, has changed.
LEMMA DeviceStep ==
  ASSUME MainClockInv, todo = <<>>, NEW a \in Alarms, a # Raster,
         UNCHANGED <<clk, line, draw_clk, todo, sub>>, stores' \in 0 .. MaxStores,
         alarmclk' \in [Timers -> Nat], Consistent(ctx'),
         OthersKept(ctx, ctx', a),
         IsPending(ctx', a) => /\ DueClk(ctx', a) >= clk - MaxCycles
                               /\ DueClk(ctx', a) <= clk + Horizon,
         \A t \in Timers \ {a} : alarmclk'[t] = alarmclk[t],
         a \in Timers => alarmclk'[a] = IF IsPending(ctx', a) THEN DueClk(ctx', a) ELSE CLOCK_MAX
  PROVE  MainClockInv'
<1>1. \A b \in Alarms : IsPending(ctx', b) =>
        DueClk(ctx', b) >= clk - MaxCycles /\ DueClk(ctx', b) <= clk + Horizon
  BY OutsideHook DEF OthersKept
<1>2. \A t \in Timers : alarmclk'[t] = IF IsPending(ctx', t) THEN DueClk(ctx', t) ELSE CLOCK_MAX
  BY OutsideHook, AlarmKinds DEF OthersKept
<1>3. IsPending(ctx', Raster) /\ draw_clk' = DueClk(ctx', Raster)
  BY OutsideHook, AlarmKinds DEF OthersKept
<1> QED
  BY <1>1, <1>2, <1>3, OutsideHook, OutsideHookNext

\* A device access leaves room above the clock for the alarm it arms.
LEMMA StoreFacts ==
  ASSUME MainClockInv, Store
  PROVE  /\ todo = <<>> /\ stores' \in 0 .. MaxStores
         /\ \A n \in 0 .. Horizon : clk + n \in Nat /\ clk + n < CLOCK_MAX
         /\ alarmclk \in [Timers -> Nat]
<1>1. todo = <<>> /\ stores' \in 0 .. MaxStores /\ alarmclk \in [Timers -> Nat]
  BY TimingAssumption DEF Store, MainClockInv, TypeOK, Clock
<1> QED
  BY <1>1, OutsideHook, Constants

\* Starting a timer keeps the invariant.
LEMMA SetAlarmInv ==
  ASSUME MainClockInv, NEW t \in Timers, NEW cycles \in 1 .. Period, ciat_set_alarm(t, cycles)
  PROVE  MainClockInv'
<1>1. /\ Store /\ alarmclk' = [alarmclk EXCEPT ![t] = clk + cycles]
      /\ ctx' = alarm_set(ctx, t, clk + cycles) /\ UNCHANGED <<clk, line, draw_clk, todo, sub>>
  BY DEF ciat_set_alarm
<1>2. cycles \in 0 .. Horizon
  BY Constants
<1>3. clk + cycles \in Nat /\ clk + cycles < CLOCK_MAX
  BY <1>1, <1>2, StoreFacts
<1>4. /\ Consistent(ctx') /\ IsPending(ctx', t) /\ DueClk(ctx', t) = clk + cycles
      /\ OthersKept(ctx, ctx', t)
  <2>1. Consistent(ctx) /\ t \in Alarms
    BY <1>1, StoreFacts, OutsideHook, AlarmKinds
  <2> QED
    BY <1>1, <1>3, <2>1, Arm
<1>5. /\ alarmclk' \in [Timers -> Nat] /\ alarmclk'[t] = clk + cycles
      /\ \A u \in Timers \ {t} : alarmclk'[u] = alarmclk[u]
  BY <1>1, <1>3, StoreFacts
<1>6. clk + cycles >= clk - MaxCycles /\ clk + cycles <= clk + Horizon
  <2>1. clk \in Nat
    BY <1>1, StoreFacts, OutsideHook
  <2> QED
    BY ONLY <1>2, <2>1, Constants
<1> QED
  BY <1>1, <1>4, <1>5, <1>6, StoreFacts, DeviceStep, AlarmKinds

\* Stopping a timer keeps the invariant.
LEMMA StopInv ==
  ASSUME MainClockInv, NEW t \in Timers, ciat_stop(t)
  PROVE  MainClockInv'
<1>1. /\ Store /\ alarmclk' = [alarmclk EXCEPT ![t] = CLOCK_MAX]
      /\ ctx' = alarm_unset(ctx, t) /\ UNCHANGED <<clk, line, draw_clk, todo, sub>>
  BY DEF ciat_stop
<1>2. /\ Consistent(ctx') /\ ~ IsPending(ctx', t)
      /\ OthersKept(ctx, ctx', t)
  <2>1. Consistent(ctx) /\ t \in Alarms
    BY <1>1, StoreFacts, OutsideHook, AlarmKinds
  <2> QED
    BY <1>1, <2>1, Disarm
<1>3. /\ alarmclk' \in [Timers -> Nat] /\ alarmclk'[t] = CLOCK_MAX
      /\ \A u \in Timers \ {t} : alarmclk'[u] = alarmclk[u]
  BY <1>1, StoreFacts, Constants
<1> QED
  BY <1>1, <1>2, <1>3, StoreFacts, DeviceStep, AlarmKinds

\* A key event keeps the invariant.
LEMMA KeyboardSetInv ==
  ASSUME MainClockInv, NEW o \in OneShots, NEW delay \in 1 .. Horizon, keyboard_set_keyarr(o, delay)
  PROVE  MainClockInv'
<1>1. /\ Store /\ alarmclk' = alarmclk
      /\ ctx' = alarm_set(ctx, o, clk + delay) /\ UNCHANGED <<clk, line, draw_clk, todo, sub>>
  BY DEF keyboard_set_keyarr
<1>2. clk + delay \in Nat /\ clk + delay < CLOCK_MAX
  <2>1. delay \in 0 .. Horizon
    BY Constants
  <2> QED
    BY <1>1, <2>1, StoreFacts
<1>3. /\ Consistent(ctx') /\ IsPending(ctx', o) /\ DueClk(ctx', o) = clk + delay
      /\ OthersKept(ctx, ctx', o)
  <2>1. Consistent(ctx) /\ o \in Alarms
    BY <1>1, StoreFacts, OutsideHook, AlarmKinds
  <2> QED
    BY <1>1, <1>2, <2>1, Arm
<1>4. clk + delay >= clk - MaxCycles /\ clk + delay <= clk + Horizon
  BY <1>1, StoreFacts, OutsideHook, Constants
<1> QED
  BY <1>1, <1>3, <1>4, StoreFacts, DeviceStep, AlarmKinds

\* What an underflow does: the next one is armed a period later, or none.
LEMMA UnderflowFacts ==
  ASSUME NEW t \in Timers, NEW needed \in BOOLEAN, Underflow(t, needed),
         Consistent(ctx), alarmclk \in [Timers -> Nat], alarmclk[t] + Period < CLOCK_MAX
  PROVE  /\ Consistent(ctx') /\ OthersKept(ctx, ctx', t)
         /\ alarmclk' \in [Timers -> Nat] /\ \A u \in Timers \ {t} : alarmclk'[u] = alarmclk[u]
         /\ alarmclk'[t] = IF IsPending(ctx', t) THEN DueClk(ctx', t) ELSE CLOCK_MAX
         /\ IsPending(ctx', t) => DueClk(ctx', t) = alarmclk[t] + Period
<1> DEFINE c == alarm_unset(ctx, t)
           n == alarmclk[t] + Period
<1>1. /\ alarmclk' = [alarmclk EXCEPT ![t] = IF needed THEN n ELSE CLOCK_MAX]
      /\ ctx' = IF needed THEN alarm_set(c, t, n) ELSE c
  BY DEF Underflow
<1>2. n \in Nat /\ n < CLOCK_MAX /\ t \in Alarms
  BY Constants, AlarmKinds
<1>3. Consistent(c) /\ ~ IsPending(c, t) /\ OthersKept(ctx, c, t)
  BY <1>2, Disarm
<1> HIDE DEF c, n
<1>4. /\ alarmclk' \in [Timers -> Nat] /\ \A u \in Timers \ {t} : alarmclk'[u] = alarmclk[u]
      /\ alarmclk'[t] = IF needed THEN n ELSE CLOCK_MAX
  BY <1>1, <1>2, Constants
<1>5. CASE needed
  <2>1. ctx' = alarm_set(c, t, n)
    BY <1>1, <1>5
  <2>2. Consistent(ctx') /\ IsPending(ctx', t) /\ DueClk(ctx', t) = n /\ OthersKept(c, ctx', t)
    BY <1>2, <1>3, <2>1, Arm
  <2>3. OthersKept(ctx, ctx', t)
    BY <1>3, <2>2 DEF OthersKept
  <2> QED
    BY <1>4, <1>5, <2>2, <2>3 DEF n
<1>6. CASE ~ needed
  <2>1. ctx' = c
    BY <1>1, <1>6
  <2> QED
    BY <1>3, <1>4, <1>6, <2>1
<1> QED
  BY <1>5, <1>6

\* The dispatched alarm, in the CPU loop.
LEMMA DispatchFacts ==
  ASSUME MainClockInv, NEW a, Dispatch(a)
  PROVE  todo = <<>> /\ a \in Alarms /\ IsPending(ctx, a) /\ DueClk(ctx, a) <= clk
<1>1. todo = <<>> /\ MustDispatch(ctx, clk) /\ alarm_context_dispatch(ctx) = a
  BY DEF Dispatch
<1> QED
  BY <1>1, OutsideHook, DispatchedIsDue

\* A timer's underflow, handled at most an instruction late, keeps the invariant.
LEMMA InttaInv ==
  ASSUME MainClockInv, NEW t \in Timers, ciacore_intta(t)
  PROVE  MainClockInv'
<1>1. PICK needed \in BOOLEAN : Underflow(t, needed)
  BY DEF ciacore_intta
<1>2. Dispatch(t) /\ UNCHANGED <<clk, line, draw_clk, todo, sub, stores>>
  BY DEF ciacore_intta
<1>3. todo = <<>> /\ t \in Alarms /\ IsPending(ctx, t) /\ DueClk(ctx, t) <= clk
  BY <1>2, DispatchFacts
<1>4. stores \in 0 .. MaxStores /\ alarmclk \in [Timers -> Nat]
  BY DEF MainClockInv, TypeOK, Clock
<1>5. alarmclk[t] = DueClk(ctx, t) /\ DueClk(ctx, t) \in Nat /\ DueClk(ctx, t) >= clk - MaxCycles
  BY <1>3, OutsideHook
<1>6. alarmclk[t] + Period < CLOCK_MAX
  BY <1>3, <1>5, OutsideHook, Constants
<1>7. alarmclk[t] + Period >= clk - MaxCycles /\ alarmclk[t] + Period <= clk + Horizon
  BY <1>3, <1>5, OutsideHook, Constants
<1>8. Consistent(ctx)
  BY <1>3, OutsideHook
<1>9. /\ Consistent(ctx') /\ OthersKept(ctx, ctx', t)
      /\ alarmclk' \in [Timers -> Nat] /\ \A u \in Timers \ {t} : alarmclk'[u] = alarmclk[u]
      /\ alarmclk'[t] = IF IsPending(ctx', t) THEN DueClk(ctx', t) ELSE CLOCK_MAX
      /\ IsPending(ctx', t) => DueClk(ctx', t) = alarmclk[t] + Period
  BY <1>1, <1>4, <1>6, <1>8, UnderflowFacts
<1> QED
  BY <1>2, <1>3, <1>4, <1>7, <1>9, DeviceStep, AlarmKinds

\* The keyboard handler, with its second scan, keeps the invariant.
LEMMA KeyboardHandlerInv ==
  ASSUME MainClockInv, NEW o \in OneShots, keyboard_latch_handler(o)
  PROVE  MainClockInv'
<1> DEFINE c == alarm_unset(ctx, o)
<1>1. /\ Dispatch(o) /\ ctx' = alarm_context_update_next_pending(c)
      /\ UNCHANGED <<clk, line, draw_clk, alarmclk, todo, sub, stores>>
  BY DEF keyboard_latch_handler
<1>2. todo = <<>> /\ o \in Alarms /\ Consistent(ctx)
  BY <1>1, DispatchFacts, OutsideHook
<1>3. Consistent(c) /\ ~ IsPending(c, o) /\ OthersKept(ctx, c, o)
  BY <1>2, Disarm
<1> HIDE DEF c
<1>4. Consistent(ctx') /\ ctx'.pending_idx = c.pending_idx /\ ctx'.clk = c.clk
  BY <1>1, <1>3, UpdateConsistent, UpdateEffect DEF Consistent
<1>5. ~ IsPending(ctx', o) /\ OthersKept(ctx, ctx', o)
  BY <1>3, <1>4 DEF OthersKept, IsPending, DueClk
<1>6. stores \in 0 .. MaxStores /\ alarmclk \in [Timers -> Nat]
  BY DEF MainClockInv, TypeOK, Clock
<1> QED
  BY <1>1, <1>2, <1>4, <1>5, <1>6, DeviceStep, AlarmKinds

\* The line alarm is armed again one line after it was due, not one line after
\* it was served: the beam does not drift.
LEMMA RasterInv ==
  ASSUME MainClockInv, vicii_raster_draw_alarm_handler
  PROVE  MainClockInv'
<1>1. /\ Dispatch(Raster) /\ ~ GuardActs /\ line' = NextLine
      /\ draw_clk' = draw_clk + LineCycles /\ ctx' = alarm_set(ctx, Raster, draw_clk')
      /\ UNCHANGED <<clk, alarmclk, todo, sub, stores>>
  BY DEF vicii_raster_draw_alarm_handler, RearmRaster
<1>2. todo = <<>> /\ Raster \in Alarms /\ DueClk(ctx, Raster) <= clk
  BY <1>1, DispatchFacts
<1>3. /\ Consistent(ctx) /\ clk \in Nat /\ draw_clk \in Nat /\ line \in 0 .. Lines - 1 /\ sub = 0
      /\ draw_clk <= clk /\ draw_clk >= clk - MaxCycles
      /\ draw_clk < DrawLimit(line) /\ draw_clk < ClkMaxValue + Lines * LineCycles
  BY <1>2, OutsideHook
<1>4. draw_clk' \in Nat /\ draw_clk' < CLOCK_MAX
  BY <1>1, <1>3, Constants
<1>5. /\ Consistent(ctx') /\ IsPending(ctx', Raster) /\ DueClk(ctx', Raster) = draw_clk'
      /\ OthersKept(ctx, ctx', Raster)
  BY <1>1, <1>2, <1>3, <1>4, Arm
<1>6. line' \in 0 .. Lines - 1 /\ draw_clk' < DrawLimit(line')
  <2>1. CASE line + 1 = Lines
    <3>1. line' = 0
      BY <1>1, <2>1, Constants DEF NextLine
    <3>2. clk < ClkMaxValue
      BY <1>1, <1>3, <3>1, Constants DEF GuardActs, NeedsSubtraction
    <3>3. DrawLimit(0) = ClkMaxValue + LineCycles
      BY <1>3, DrawLimits
    <3> QED
      BY <1>1, <1>3, <3>1, <3>2, <3>3, Constants
  <2>2. CASE line + 1 # Lines
    <3>1. line' = line + 1 /\ line + 1 \in 0 .. Lines - 1
      BY <1>1, <1>3, <2>2, Constants DEF NextLine
    <3>2. DrawLimit(line + 1) = DrawLimit(line) + LineCycles /\ DrawLimit(line) \in Nat
      BY <1>3, DrawLimits
    <3> QED
      BY <1>1, <1>3, <3>1, <3>2, Constants
  <2> QED
    BY <2>1, <2>2
<1>7. draw_clk' >= clk - MaxCycles /\ draw_clk' <= clk + Horizon
  BY <1>1, <1>3, Constants
<1>8. \A a \in Alarms : IsPending(ctx', a) =>
        DueClk(ctx', a) >= clk - MaxCycles /\ DueClk(ctx', a) <= clk + Horizon
  BY <1>2, <1>5, <1>7, OutsideHook DEF OthersKept
<1>9. \A t \in Timers : alarmclk[t] = IF IsPending(ctx', t) THEN DueClk(ctx', t) ELSE CLOCK_MAX
  BY <1>2, <1>5, OutsideHook, AlarmKinds DEF OthersKept
<1>10. stores \in 0 .. MaxStores /\ alarmclk \in [Timers -> Nat]
  BY DEF MainClockInv, TypeOK, Clock
<1> QED
  BY <1>1, <1>2, <1>3, <1>4, <1>5, <1>6, <1>8, <1>9, <1>10, OutsideHookNext

-----------------------------------------------------------------------------
\* Inside the hook: the clock, the table and the copies are on one of two time
\* scales, `sub' apart, and there is room for them on either.
LEMMA InHook ==
  ASSUME MainClockInv, todo # <<>>
  PROVE  /\ clk \in Nat /\ sub \in Nat /\ sub = clk_guard_clock_sub /\ line = 0
         /\ Consistent(ctx) /\ ctx.num # 0
         /\ clk + sub >= ClkMaxValue /\ clk + sub < ClkMaxValue + Lines * LineCycles + MaxCycles + 1
         /\ clk >= CLKGUARD_SUB_MIN /\ clk + LineCycles < ClkMaxValue
         /\ ContextClk \in {clk, clk + sub} /\ ViciiClk \in {clk, clk + sub} /\ CiaClk \in {clk, clk + sub}
         /\ IsPending(ctx, Raster) /\ DueClk(ctx, Raster) <= ContextClk
         /\ draw_clk \in Nat /\ draw_clk - ViciiClk = DueClk(ctx, Raster) - ContextClk
         /\ \A a \in Alarms : IsPending(ctx, a) =>
              /\ DueClk(ctx, a) \in Nat /\ DueClk(ctx, a) >= ContextClk - MaxCycles
              /\ DueClk(ctx, a) <= ContextClk + Horizon
         /\ alarmclk \in [Timers -> Nat] /\ stores \in 0 .. MaxStores
<1>1. /\ clk \in Nat /\ Consistent(ctx) /\ draw_clk \in Nat /\ sub \in Nat
      /\ alarmclk \in [Timers -> Nat] /\ stores \in 0 .. MaxStores
  BY Constants DEF MainClockInv, TypeOK, Clock, TableConsistent, Consistent
<1>2. /\ sub = clk_guard_clock_sub /\ line = 0 /\ clk + sub >= ClkMaxValue
      /\ clk + sub < ClkMaxValue + Lines * LineCycles + MaxCycles + 1
      /\ IsPending(ctx, Raster) /\ DueClk(ctx, Raster) <= ContextClk
      /\ draw_clk - ViciiClk = DueClk(ctx, Raster) - ContextClk
  BY DEF MainClockInv, ClockNearLimit, RasterMirrorsAlarm
<1>3. ContextClk \in {clk, clk + sub} /\ ViciiClk \in {clk, clk + sub} /\ CiaClk \in {clk, clk + sub}
  BY DEF ContextClk, ViciiClk, CiaClk
<1>4. \A a \in Alarms : IsPending(ctx, a) =>
        /\ DueClk(ctx, a) \in Nat /\ DueClk(ctx, a) >= ContextClk - MaxCycles
        /\ DueClk(ctx, a) <= ContextClk + Horizon
  <2> TAKE a \in Alarms
  <2> HAVE IsPending(ctx, a)
  <2>1. DueClk(ctx, a) \in Nat
    BY <1>1, DueClkType
  <2>2. DueClk(ctx, a) - ContextClk \in -MaxCycles .. Horizon
    BY DEF MainClockInv, AlarmsNearClock, MaxLag
  <2>3. ContextClk \in Nat
    BY <1>1, <1>3
  <2> QED
    BY <2>1, <2>2, <2>3, Constants
<1>5. ctx.num # 0
  BY <1>1, <1>2, DueClkType, AlarmKinds
<1>6. clk >= CLKGUARD_SUB_MIN /\ clk + LineCycles < ClkMaxValue
  BY <1>1, <1>2, SubBounds, Constants
<1> QED
  BY <1>1, <1>2, <1>3, <1>4, <1>5, <1>6

\* While the table is on the old time scale.
LEMMA InHookOld ==
  ASSUME MainClockInv, todo # <<>>, ContextClk = clk + sub
  PROVE  /\ \A a \in Alarms : IsPending(ctx, a) =>
              /\ DueClk(ctx, a) \in Nat /\ DueClk(ctx, a) >= clk + sub - MaxCycles
              /\ DueClk(ctx, a) <= clk + sub + Horizon
         /\ DueClk(ctx, Raster) <= clk + sub
<1>1. clk + sub \in Nat /\ DueClk(ctx, Raster) <= clk + sub
  BY InHook
<1>2. ASSUME NEW a \in Alarms, IsPending(ctx, a)
      PROVE  /\ DueClk(ctx, a) \in Nat /\ DueClk(ctx, a) >= clk + sub - MaxCycles
             /\ DueClk(ctx, a) <= clk + sub + Horizon
  <2>1. DueClk(ctx, a) \in Nat
    BY <1>2, InHook
  <2>2. DueClk(ctx, a) - (clk + sub) \in -MaxCycles .. Horizon
    BY <1>2 DEF MainClockInv, AlarmsNearClock, MaxLag
  <2>3. clk \in Nat /\ sub \in Nat /\ MaxCycles \in Nat /\ Horizon \in Nat
    BY InHook, Constants
  <2> QED
    BY <2>1, <2>2, <2>3
<1> QED
  BY <1>1, <1>2

\* The clock and the amount of a subtraction are clocks.
LEMMA HookRange ==
  /\ \A k \in Nat : k + clk_guard_clock_sub < ClkMaxValue + Lines * LineCycles + MaxCycles + 1
                   => k \in Clock /\ clk_guard_clock_sub \in Clock
  /\ \A q \in { <<"rearm">>, <<"machine", "rearm">>, <<"vicii", "machine", "rearm">>, HookSteps } :
       q # <<>>
<1>1. ASSUME NEW k \in Nat, k + clk_guard_clock_sub < ClkMaxValue + Lines * LineCycles + MaxCycles + 1
      PROVE  k \in Clock /\ clk_guard_clock_sub \in Clock
  BY <1>1, SubBounds, Constants DEF Clock
<1>2. /\ <<"rearm">> # <<>> /\ <<"machine", "rearm">> # <<>>
      /\ <<"vicii", "machine", "rearm">> # <<>> /\ HookSteps # <<>>
  BY DEF HookSteps
<1> QED
  BY <1>1, <1>2

\* The converse, for the next state.
LEMMA InHookNext ==
  ASSUME todo' \in { <<"rearm">>, <<"machine", "rearm">>, <<"vicii", "machine", "rearm">>, HookSteps },
         sub' = clk_guard_clock_sub, line' = 0, stores' \in 0 .. MaxStores, clk' \in Nat,
         clk' + sub' >= ClkMaxValue, clk' + sub' < ClkMaxValue + Lines * LineCycles + MaxCycles + 1,
         draw_clk' \in Clock, alarmclk' \in [Timers -> Clock],
         Consistent(ctx'), IsPending(ctx', Raster), DueClk(ctx', Raster) <= ContextClk',
         draw_clk' - ViciiClk' = DueClk(ctx', Raster) - ContextClk',
         AlarmsNearClock', TimersMirrorAlarms'
  PROVE  MainClockInv'
<1>1. sub' \in Clock /\ clk' \in Clock
  BY HookRange
<1>2. line' \in 0 .. Lines - 1
  BY Constants
<1>3. TypeOK'
  BY <1>1, <1>2 DEF TypeOK, Consistent
<1>4. todo' # <<>>
  BY HookRange
<1>5. ClockNearLimit' /\ RasterMirrorsAlarm'
  BY <1>4 DEF ClockNearLimit, RasterMirrorsAlarm
<1>6. TableConsistent'
  BY DEF TableConsistent, Consistent
<1> QED
  BY <1>3, <1>5, <1>6 DEF MainClockInv

\* The subtraction itself: the clock moves, nothing else does yet.
LEMMA PreventOverflowInv ==
  ASSUME MainClockInv, clk_guard_prevent_overflow
  PROVE  MainClockInv'
<1>1. /\ Dispatch(Raster) /\ GuardActs /\ line' = NextLine
      /\ clk' = clk - clk_guard_clock_sub /\ sub' = clk_guard_clock_sub /\ todo' = HookSteps
      /\ UNCHANGED <<ctx, draw_clk, alarmclk, stores>>
  BY DEF clk_guard_prevent_overflow
<1>2. todo = <<>> /\ Raster \in Alarms /\ IsPending(ctx, Raster) /\ DueClk(ctx, Raster) <= clk
  BY <1>1, DispatchFacts
<1>3. /\ clk \in Nat /\ clk < ClkMaxValue + Lines * LineCycles + MaxCycles
      /\ Consistent(ctx) /\ draw_clk = DueClk(ctx, Raster)
      /\ ContextClk = clk /\ CiaClk = clk
  BY <1>2, OutsideHook
<1>4. line' = 0 /\ clk >= ClkMaxValue
  BY <1>1 DEF GuardActs, NeedsSubtraction
<1>5. clk' \in Nat /\ clk' + sub' = clk
  BY <1>1, <1>3, <1>4, SubBounds, Constants
<1>6. ContextClk' = clk /\ CiaClk' = clk /\ ViciiClk' = clk
  BY <1>1, <1>5, Stages DEF ContextClk, CiaClk, ViciiClk, Warped
<1>7. AlarmsNearClock' /\ TimersMirrorAlarms'
  BY <1>1, <1>3, <1>6 DEF MainClockInv, AlarmsNearClock, TimersMirrorAlarms
<1>8. draw_clk \in Clock /\ alarmclk \in [Timers -> Clock] /\ stores \in 0 .. MaxStores
  BY DEF MainClockInv, TypeOK
<1>9. clk' + sub' >= ClkMaxValue /\ clk' + sub' < ClkMaxValue + Lines * LineCycles + MaxCycles + 1
  BY <1>3, <1>4, <1>5, Constants
<1>10. draw_clk' - ViciiClk' = DueClk(ctx', Raster) - ContextClk' /\ DueClk(ctx', Raster) <= ContextClk'
  BY <1>1, <1>2, <1>3, <1>6
<1> QED
  BY <1>1, <1>2, <1>3, <1>4, <1>5, <1>7, <1>8, <1>9, <1>10, InHookNext

\* Which callback runs at which stage.
LEMMA CallbackStage ==
  ASSUME MainClockInv
  PROVE  /\ Callback("cia") => todo = HookSteps /\ Tail(todo) = <<"vicii", "machine", "rearm">>
         /\ Callback("vicii") => /\ todo = <<"vicii", "machine", "rearm">>
                                 /\ Tail(todo) = <<"machine", "rearm">>
         /\ Callback("machine") => todo = <<"machine", "rearm">> /\ Tail(todo) = <<"rearm">>
         /\ Callback("rearm") => todo = <<"rearm">>
         /\ \A name : Callback(name) => todo # <<>>
<1>1. todo \in { <<>>, <<"rearm">>, <<"machine", "rearm">>, <<"vicii", "machine", "rearm">>, HookSteps }
  BY DEF MainClockInv, TypeOK
<1>2. /\ Head(<<"rearm">>) = "rearm" /\ Head(<<"machine", "rearm">>) = "machine"
      /\ Head(<<"vicii", "machine", "rearm">>) = "vicii" /\ Head(HookSteps) = "cia"
  BY DEF HookSteps
<1>3. /\ Tail(<<"machine", "rearm">>) = <<"rearm">>
      /\ Tail(<<"vicii", "machine", "rearm">>) = <<"machine", "rearm">>
      /\ Tail(HookSteps) = <<"vicii", "machine", "rearm">>
  BY DEF HookSteps
<1> QED
  BY <1>1, <1>2, <1>3 DEF Callback

\* CLOCK arithmetic without a wrap.
LEMMA NoWrap ==
  ASSUME NEW n \in Nat, n <= CLOCK_MAX
  PROVE  Wrap(n) = n
BY Constants DEF Wrap

\* The CIAs catch up on the old time scale, which they and the table are both
\* still on.
LEMMA UpdateTaInv ==
  ASSUME MainClockInv, NEW t \in Timers, cia_update_ta(t)
  PROVE  MainClockInv'
<1>1. PICK needed \in BOOLEAN : Underflow(t, needed)
  BY DEF cia_update_ta
<1>2. /\ Callback("cia") /\ CiaBehind(t) /\ UNCHANGED <<clk, line, draw_clk, todo, sub, stores>>
  BY DEF cia_update_ta
<1>3. todo = HookSteps /\ todo # <<>> /\ t \in Alarms /\ Raster \in Alarms /\ t # Raster
  BY <1>2, CallbackStage, AlarmKinds
<1>4. ContextClk = clk + sub /\ CiaClk = clk + sub
  BY <1>3, Stages DEF ContextClk, CiaClk, Warped
<1>5. ContextClk' = ContextClk /\ CiaClk' = CiaClk /\ ViciiClk' = ViciiClk
  BY <1>2 DEF ContextClk, CiaClk, ViciiClk, Warped
<1>6. /\ clk \in Nat /\ sub \in Nat /\ Consistent(ctx) /\ alarmclk \in [Timers -> Nat]
      /\ clk + sub < ClkMaxValue + Lines * LineCycles + MaxCycles + 1
  BY <1>3, InHook
<1>7. clk + sub + Period < CLOCK_MAX
  BY <1>6, Constants
<1>8. Wrap(clk + sub) = clk + sub
  BY <1>6, <1>7, NoWrap, Constants
<1>9. alarmclk[t] <= clk + sub
  BY <1>2, <1>8 DEF CiaBehind
<1>10. IsPending(ctx, t) /\ alarmclk[t] - (clk + sub) = DueClk(ctx, t) - (clk + sub)
  <2>1. alarmclk[t] # CLOCK_MAX
    BY <1>6, <1>7, <1>9, Constants
  <2> QED
    BY <1>4, <2>1 DEF MainClockInv, TimersMirrorAlarms
<1>11. DueClk(ctx, t) >= clk + sub - MaxCycles /\ DueClk(ctx, t) \in Nat
  BY <1>3, <1>4, <1>10, InHookOld
<1>12. /\ alarmclk[t] + Period < CLOCK_MAX
       /\ alarmclk[t] + Period >= clk + sub - MaxCycles /\ alarmclk[t] + Period <= clk + sub + Horizon
  BY <1>6, <1>7, <1>9, <1>10, <1>11, Constants
<1>13. /\ Consistent(ctx') /\ OthersKept(ctx, ctx', t)
       /\ alarmclk' \in [Timers -> Nat] /\ \A u \in Timers \ {t} : alarmclk'[u] = alarmclk[u]
       /\ alarmclk'[t] = IF IsPending(ctx', t) THEN DueClk(ctx', t) ELSE CLOCK_MAX
       /\ IsPending(ctx', t) => DueClk(ctx', t) = alarmclk[t] + Period
  BY <1>1, <1>6, <1>12, UnderflowFacts
<1>14. AlarmsNearClock'
  <2> SUFFICES ASSUME NEW a \in Alarms, IsPending(ctx', a)
               PROVE  DueClk(ctx', a) - (clk + sub) \in -MaxCycles .. Horizon
    BY <1>4, <1>5 DEF AlarmsNearClock, MaxLag
  <2>1. CASE a = t
    BY <1>6, <1>12, <1>13, <2>1, Constants
  <2>2. CASE a # t
    <3>1. IsPending(ctx, a) /\ DueClk(ctx', a) = DueClk(ctx, a)
      BY <1>13, <2>2 DEF OthersKept
    <3> QED
      BY <1>4, <3>1 DEF MainClockInv, AlarmsNearClock, MaxLag
  <2> QED
    BY <2>1, <2>2
<1>15. TimersMirrorAlarms'
  <2> SUFFICES ASSUME NEW u \in Timers
               PROVE  IF IsPending(ctx', u)
                      THEN alarmclk'[u] - (clk + sub) = DueClk(ctx', u) - (clk + sub)
                      ELSE alarmclk'[u] = CLOCK_MAX
    BY <1>4, <1>5 DEF TimersMirrorAlarms
  <2>1. CASE u = t
    BY <1>13, <2>1
  <2>2. CASE u # t
    <3>1. /\ IsPending(ctx', u) <=> IsPending(ctx, u)
          /\ IsPending(ctx, u) => DueClk(ctx', u) = DueClk(ctx, u)
          /\ alarmclk'[u] = alarmclk[u]
      BY <1>13, <2>2, AlarmKinds DEF OthersKept
    <3> QED
      BY <1>4, <3>1 DEF MainClockInv, TimersMirrorAlarms
  <2> QED
    BY <2>1, <2>2
<1>16. alarmclk' \in [Timers -> Clock]
  <2>1. \A u \in Timers : alarmclk'[u] <= CLOCK_MAX
    <3>1. \A u \in Timers : alarmclk[u] <= CLOCK_MAX
      BY DEF MainClockInv, TypeOK, Clock
    <3> QED
      BY <1>6, <1>12, <1>13, <3>1, Constants
  <2> QED
    BY <1>13, <2>1 DEF Clock
<1>17. IsPending(ctx', Raster) /\ DueClk(ctx', Raster) = DueClk(ctx, Raster)
  BY <1>3, <1>13, InHook DEF OthersKept
<1>18. draw_clk \in Clock
  BY DEF MainClockInv, TypeOK
<1>19. /\ DueClk(ctx', Raster) <= ContextClk'
       /\ draw_clk' - ViciiClk' = DueClk(ctx', Raster) - ContextClk'
  BY <1>2, <1>3, <1>5, <1>17, InHook
<1>20. /\ sub' = clk_guard_clock_sub /\ line' = 0 /\ stores' \in 0 .. MaxStores /\ clk' \in Nat
       /\ clk' + sub' >= ClkMaxValue
       /\ clk' + sub' < ClkMaxValue + Lines * LineCycles + MaxCycles + 1
  BY <1>2, <1>3, InHook
<1> QED
  BY <1>2, <1>3, <1>13, <1>14, <1>15, <1>16, <1>17, <1>18, <1>19, <1>20, InHookNext

\* What the callbacks of the hook that only move clocks leave alone.
LEMMA HookFrame ==
  ASSUME MainClockInv, todo # <<>>, UNCHANGED <<clk, line, sub, stores>>
  PROVE  /\ sub' = clk_guard_clock_sub /\ line' = 0 /\ stores' \in 0 .. MaxStores /\ clk' \in Nat
         /\ clk' + sub' >= ClkMaxValue
         /\ clk' + sub' < ClkMaxValue + Lines * LineCycles + MaxCycles + 1
BY InHook

\* Then their private copies move, and the table does not yet.
LEMMA CiaCallbackInv ==
  ASSUME MainClockInv, ciacore_clk_overflow_callback
  PROVE  MainClockInv'
<1>1. /\ Callback("cia") /\ todo' = Tail(todo) /\ UNCHANGED <<clk, ctx, line, draw_clk, sub, stores>>
      /\ alarmclk' = [t \in Timers |-> IF alarmclk[t] < CLOCK_MAX
                                       THEN Wrap(alarmclk[t] - sub) ELSE CLOCK_MAX]
  BY DEF ciacore_clk_overflow_callback
<1>2. todo = HookSteps /\ todo' = <<"vicii", "machine", "rearm">> /\ todo # <<>>
  BY <1>1, CallbackStage
<1>3. /\ ContextClk = clk + sub /\ CiaClk = clk + sub /\ ViciiClk = clk + sub
      /\ ContextClk' = clk + sub /\ CiaClk' = clk /\ ViciiClk' = clk + sub
  BY <1>1, <1>2, Stages DEF ContextClk, CiaClk, ViciiClk, Warped
<1>4. /\ clk \in Nat /\ sub \in Nat /\ Consistent(ctx) /\ alarmclk \in [Timers -> Nat]
      /\ clk + sub < ClkMaxValue + Lines * LineCycles + MaxCycles + 1 /\ clk >= CLKGUARD_SUB_MIN
  BY <1>2, InHook
<1>5. ASSUME NEW t \in Timers
      PROVE  /\ IF IsPending(ctx, t) THEN alarmclk'[t] - clk = DueClk(ctx, t) - (clk + sub)
                ELSE alarmclk'[t] = CLOCK_MAX
             /\ alarmclk'[t] \in Clock
  <2>1. CASE IsPending(ctx, t)
    <3>1. /\ alarmclk[t] - (clk + sub) = DueClk(ctx, t) - (clk + sub)
          /\ DueClk(ctx, t) \in Nat /\ DueClk(ctx, t) >= clk + sub - MaxCycles
          /\ DueClk(ctx, t) <= clk + sub + Horizon
      <4>1. alarmclk[t] - (clk + sub) = DueClk(ctx, t) - (clk + sub)
        BY <1>3, <2>1 DEF MainClockInv, TimersMirrorAlarms
      <4> QED
        BY <1>2, <1>3, <2>1, <4>1, InHookOld, AlarmKinds
    <3>2. alarmclk[t] < CLOCK_MAX /\ alarmclk[t] - sub \in Nat /\ alarmclk[t] - sub <= CLOCK_MAX
      BY <1>4, <3>1, Constants
    <3>3. alarmclk'[t] = alarmclk[t] - sub
      BY <1>1, <3>2, NoWrap
    <3> QED
      BY <1>4, <2>1, <3>1, <3>2, <3>3 DEF Clock
  <2>2. CASE ~ IsPending(ctx, t)
    <3>1. alarmclk[t] = CLOCK_MAX
      BY <2>2 DEF MainClockInv, TimersMirrorAlarms
    <3> QED
      BY <1>1, <2>2, <3>1, Constants DEF Clock
  <2> QED
    BY <2>1, <2>2
<1>6. TimersMirrorAlarms'
  BY <1>1, <1>3, <1>5 DEF TimersMirrorAlarms
<1>7. AlarmsNearClock'
  BY <1>1, <1>3 DEF MainClockInv, AlarmsNearClock
<1>8. alarmclk' \in [Timers -> Clock]
  BY <1>1, <1>5
<1>9. draw_clk \in Clock
  BY DEF MainClockInv, TypeOK
<1>10. /\ IsPending(ctx', Raster) /\ DueClk(ctx', Raster) <= ContextClk'
       /\ draw_clk' - ViciiClk' = DueClk(ctx', Raster) - ContextClk'
  BY <1>1, <1>2, <1>3, InHook
<1> QED
  BY <1>1, <1>2, <1>4, <1>6, <1>7, <1>8, <1>9, <1>10, HookFrame, InHookNext

\* Then the video chip's copy moves, still before the table.
LEMMA ViciiCallbackInv ==
  ASSUME MainClockInv, vicii_clk_overflow_callback
  PROVE  MainClockInv'
<1>1. /\ Callback("vicii") /\ todo' = Tail(todo) /\ UNCHANGED <<clk, ctx, line, alarmclk, sub, stores>>
      /\ draw_clk' = Wrap(draw_clk - sub)
  BY DEF vicii_clk_overflow_callback
<1>2. /\ todo = <<"vicii", "machine", "rearm">> /\ todo' = <<"machine", "rearm">> /\ todo # <<>>
  BY <1>1, CallbackStage
<1>3. /\ ContextClk = clk + sub /\ CiaClk = clk /\ ViciiClk = clk + sub
      /\ ContextClk' = clk + sub /\ CiaClk' = clk /\ ViciiClk' = clk
  BY <1>1, <1>2, Stages DEF ContextClk, CiaClk, ViciiClk, Warped
<1>4. /\ clk \in Nat /\ sub \in Nat /\ Consistent(ctx) /\ draw_clk \in Nat
      /\ clk >= CLKGUARD_SUB_MIN /\ IsPending(ctx, Raster)
      /\ DueClk(ctx, Raster) \in Nat /\ DueClk(ctx, Raster) >= clk + sub - MaxCycles
      /\ DueClk(ctx, Raster) <= clk + sub
      /\ draw_clk - (clk + sub) = DueClk(ctx, Raster) - (clk + sub)
  <2>1. /\ clk \in Nat /\ sub \in Nat /\ Consistent(ctx) /\ draw_clk \in Nat
        /\ clk >= CLKGUARD_SUB_MIN /\ IsPending(ctx, Raster)
        /\ draw_clk - ViciiClk = DueClk(ctx, Raster) - ContextClk
    BY <1>2, InHook
  <2>2. /\ DueClk(ctx, Raster) \in Nat /\ DueClk(ctx, Raster) >= clk + sub - MaxCycles
        /\ DueClk(ctx, Raster) <= clk + sub
    BY <1>2, <1>3, <2>1, InHookOld, AlarmKinds
  <2> QED
    BY <1>3, <2>1, <2>2
<1>5. draw_clk \in Clock /\ alarmclk \in [Timers -> Clock]
  BY DEF MainClockInv, TypeOK
<1>6. draw_clk - sub \in Nat /\ draw_clk - sub <= CLOCK_MAX
  BY <1>4, <1>5, Constants DEF Clock
<1>7. draw_clk' = draw_clk - sub
  BY <1>1, <1>6, NoWrap
<1>8. draw_clk' \in Clock /\ draw_clk' - clk = DueClk(ctx, Raster) - (clk + sub)
  BY <1>4, <1>6, <1>7 DEF Clock
<1>9. AlarmsNearClock' /\ TimersMirrorAlarms'
  BY <1>1, <1>3 DEF MainClockInv, AlarmsNearClock, TimersMirrorAlarms
<1>10. /\ IsPending(ctx', Raster) /\ DueClk(ctx', Raster) <= ContextClk'
       /\ draw_clk' - ViciiClk' = DueClk(ctx', Raster) - ContextClk'
  BY <1>1, <1>3, <1>4, <1>8
<1> QED
  BY <1>1, <1>2, <1>4, <1>5, <1>8, <1>9, <1>10, HookFrame, InHookNext

\* Last the table: no pending clock lies below the amount, so none wraps.
LEMMA MachineCallbackInv ==
  ASSUME MainClockInv, machine_maincpu_clk_overflow_callback
  PROVE  MainClockInv'
<1>1. /\ Callback("machine") /\ todo' = Tail(todo)
      /\ UNCHANGED <<clk, line, draw_clk, alarmclk, sub, stores>>
      /\ ctx' = alarm_context_time_warp(ctx, sub)
  BY DEF machine_maincpu_clk_overflow_callback
<1>2. todo = <<"machine", "rearm">> /\ todo' = <<"rearm">> /\ todo # <<>>
  BY <1>1, CallbackStage
<1>3. /\ ContextClk = clk + sub /\ CiaClk = clk /\ ViciiClk = clk
      /\ ContextClk' = clk /\ CiaClk' = clk /\ ViciiClk' = clk
  BY <1>1, <1>2, Stages DEF ContextClk, CiaClk, ViciiClk, Warped
<1>4. /\ clk \in Nat /\ sub \in Nat /\ Consistent(ctx) /\ ctx.num # 0 /\ draw_clk \in Nat
      /\ clk >= CLKGUARD_SUB_MIN /\ IsPending(ctx, Raster)
      /\ draw_clk - ViciiClk = DueClk(ctx, Raster) - ContextClk
  BY <1>2, InHook
<1>5. \A a \in Alarms : IsPending(ctx, a) => DueClk(ctx, a) \in Nat /\ sub <= DueClk(ctx, a)
  <2> SUFFICES ASSUME NEW a \in Alarms, IsPending(ctx, a)
               PROVE  DueClk(ctx, a) \in Nat /\ sub <= DueClk(ctx, a)
    OBVIOUS
  <2>1. DueClk(ctx, a) \in Nat /\ DueClk(ctx, a) >= clk + sub - MaxCycles
    BY <1>2, <1>3, InHookOld
  <2> QED
    BY <1>4, <2>1, Constants
<1>6. \A i \in Slots(ctx) : sub <= ctx.clk[i]
  <2> SUFFICES ASSUME NEW i \in Slots(ctx)
               PROVE  sub <= ctx.clk[i]
    OBVIOUS
  <2>1. ctx.alarm[i] \in Alarms /\ ctx.pending_idx[ctx.alarm[i]] = i /\ i # -1
    BY <1>4, ContextFacts DEF Consistent, SlotsMatch
  <2> QED
    BY <1>5, <2>1 DEF IsPending, DueClk
<1>7. /\ Consistent(ctx') /\ ctx'.pending_idx = ctx.pending_idx
      /\ \A i \in Slots(ctx) : ctx'.clk[i] = ctx.clk[i] - sub
  BY <1>1, <1>4, <1>6, WarpConsistent
<1>8. \A a \in Alarms : /\ IsPending(ctx', a) <=> IsPending(ctx, a)
                        /\ IsPending(ctx, a) => DueClk(ctx', a) = DueClk(ctx, a) - sub
  <2>1. \A a \in Alarms : IsPending(ctx, a) => ctx.pending_idx[a] \in Slots(ctx)
    BY <1>4 DEF Consistent, SlotsMatch
  <2> QED
    BY <1>7, <2>1 DEF IsPending, DueClk
<1>9. \A a \in Alarms : IsPending(ctx, a) => DueClk(ctx', a) - clk = DueClk(ctx, a) - (clk + sub)
  BY <1>4, <1>5, <1>8
<1>10. AlarmsNearClock'
  <2> SUFFICES ASSUME NEW a \in Alarms, IsPending(ctx', a)
               PROVE  DueClk(ctx', a) - clk \in -MaxCycles .. Horizon
    BY <1>3 DEF AlarmsNearClock, MaxLag
  <2>1. IsPending(ctx, a) /\ DueClk(ctx, a) - (clk + sub) \in -MaxCycles .. Horizon
    BY <1>3, <1>8 DEF MainClockInv, AlarmsNearClock, MaxLag
  <2> QED
    BY <1>9, <2>1
<1>11. TimersMirrorAlarms'
  <2> SUFFICES ASSUME NEW t \in Timers
               PROVE  IF IsPending(ctx', t) THEN alarmclk[t] - clk = DueClk(ctx', t) - clk
                      ELSE alarmclk[t] = CLOCK_MAX
    BY <1>1, <1>3 DEF TimersMirrorAlarms
  <2>1. IF IsPending(ctx, t) THEN alarmclk[t] - clk = DueClk(ctx, t) - (clk + sub)
        ELSE alarmclk[t] = CLOCK_MAX
    BY <1>3 DEF MainClockInv, TimersMirrorAlarms
  <2>2. /\ IsPending(ctx', t) <=> IsPending(ctx, t)
        /\ IsPending(ctx, t) => DueClk(ctx', t) - clk = DueClk(ctx, t) - (clk + sub)
    BY <1>8, <1>9, AlarmKinds
  <2> QED
    BY <2>1, <2>2
<1>12. /\ IsPending(ctx', Raster) /\ DueClk(ctx', Raster) - clk = DueClk(ctx, Raster) - (clk + sub)
  BY <1>4, <1>8, <1>9, AlarmKinds
<1>13. DueClk(ctx', Raster) <= clk
  <2>1. DueClk(ctx, Raster) \in Nat /\ DueClk(ctx, Raster) <= clk + sub
    BY <1>2, <1>3, <1>4, <1>5, InHookOld, AlarmKinds
  <2> QED
    BY <1>4, <1>8, <2>1, AlarmKinds
<1>14. draw_clk - clk = DueClk(ctx', Raster) - clk
  BY <1>3, <1>4, <1>12
<1>15. draw_clk \in Clock /\ alarmclk \in [Timers -> Clock]
  BY DEF MainClockInv, TypeOK
<1>16. /\ DueClk(ctx', Raster) <= ContextClk'
       /\ draw_clk' - ViciiClk' = DueClk(ctx', Raster) - ContextClk'
       /\ draw_clk' \in Clock /\ alarmclk' \in [Timers -> Clock]
  BY <1>1, <1>3, <1>13, <1>14, <1>15
<1> QED
  BY <1>1, <1>2, <1>7, <1>10, <1>11, <1>12, <1>16, HookFrame, InHookNext

\* The line handler resumes with everything on the new time scale.
LEMMA FinishLineInv ==
  ASSUME MainClockInv, FinishLine
  PROVE  MainClockInv'
<1>1. /\ Callback("rearm") /\ todo' = <<>> /\ sub' = 0 /\ UNCHANGED <<clk, line, alarmclk, stores>>
      /\ draw_clk' = draw_clk + LineCycles /\ ctx' = alarm_set(ctx, Raster, draw_clk')
  BY DEF FinishLine, RearmRaster
<1>2. todo = <<"rearm">> /\ todo # <<>> /\ Raster \in Alarms
  BY <1>1, CallbackStage, AlarmKinds
<1>3. ContextClk = clk /\ CiaClk = clk /\ ViciiClk = clk
  BY <1>2, Stages DEF ContextClk, CiaClk, ViciiClk, Warped
<1>4. /\ clk \in Nat /\ Consistent(ctx) /\ draw_clk \in Nat /\ clk + LineCycles < ClkMaxValue /\ line = 0
      /\ draw_clk - ViciiClk = DueClk(ctx, Raster) - ContextClk /\ IsPending(ctx, Raster)
      /\ DueClk(ctx, Raster) <= ContextClk
      /\ alarmclk \in [Timers -> Nat] /\ stores \in 0 .. MaxStores
      /\ \A a \in Alarms : IsPending(ctx, a) =>
           /\ DueClk(ctx, a) \in Nat /\ DueClk(ctx, a) >= ContextClk - MaxCycles
           /\ DueClk(ctx, a) <= ContextClk + Horizon
  BY <1>2, InHook
<1>5. draw_clk <= clk /\ draw_clk >= clk - MaxCycles
  BY <1>2, <1>3, <1>4, Constants
<1>6. draw_clk' \in Nat /\ draw_clk' < CLOCK_MAX
  BY <1>1, <1>4, <1>5, Constants
<1>7. /\ Consistent(ctx') /\ IsPending(ctx', Raster) /\ DueClk(ctx', Raster) = draw_clk'
      /\ OthersKept(ctx, ctx', Raster)
  BY <1>1, <1>2, <1>4, <1>6, Arm
<1>8. draw_clk' >= clk - MaxCycles /\ draw_clk' <= clk + Horizon
  BY <1>1, <1>4, <1>5, Constants
<1>9. \A a \in Alarms : IsPending(ctx', a) =>
        DueClk(ctx', a) >= clk - MaxCycles /\ DueClk(ctx', a) <= clk + Horizon
  BY <1>2, <1>3, <1>4, <1>7, <1>8 DEF OthersKept
<1>10. ASSUME NEW t \in Timers
       PROVE  alarmclk[t] = IF IsPending(ctx', t) THEN DueClk(ctx', t) ELSE CLOCK_MAX
  <2>1. /\ IsPending(ctx', t) <=> IsPending(ctx, t)
        /\ IsPending(ctx, t) => DueClk(ctx', t) = DueClk(ctx, t)
    BY <1>7, AlarmKinds DEF OthersKept
  <2>2. CASE IsPending(ctx, t)
    <3>1. alarmclk[t] - clk = DueClk(ctx, t) - clk /\ DueClk(ctx, t) \in Nat
      BY <1>3, <1>4, <2>2, AlarmKinds DEF MainClockInv, TimersMirrorAlarms
    <3> QED
      BY <1>4, <2>1, <2>2, <3>1
  <2>3. CASE ~ IsPending(ctx, t)
    BY <2>1, <2>3 DEF MainClockInv, TimersMirrorAlarms
  <2> QED
    BY <2>2, <2>3
<1>11. line' \in 0 .. Lines - 1 /\ draw_clk' < DrawLimit(line')
  <2>1. 0 \in 0 .. Lines - 1
    BY Constants
  <2>2. DrawLimit(0) = ClkMaxValue + LineCycles
    BY <2>1, DrawLimits
  <2> QED
    BY <1>1, <1>4, <1>5, <2>1, <2>2, Constants
<1> QED
  BY <1>1, <1>4, <1>6, <1>7, <1>9, <1>10, <1>11, OutsideHookNext

-----------------------------------------------------------------------------
\* The inductive invariant of the main clock, its alarms and the overflow
\* hook: it holds initially and every step of the CPU loop, of a device access,
\* of an alarm handler and of an overflow callback keeps it.
THEOREM MainClockInvariant == Spec => []MainClockInv
<1>1. Init => MainClockInv
  BY InitInv
<1>2. MainClockInv /\ [Next]_vars => MainClockInv'
  <2> SUFFICES ASSUME MainClockInv, [Next]_vars
               PROVE  MainClockInv'
    OBVIOUS
  <2>1. CASE Execute
    BY <2>1, InstructionInv DEF Execute
  <2>2. CASE Handlers
    BY <2>2, InttaInv, UpdateTaInv, KeyboardHandlerInv, RasterInv, PreventOverflowInv,
       MachineCallbackInv, ViciiCallbackInv, CiaCallbackInv, FinishLineInv DEF Handlers
  <2>3. CASE Accesses
    BY <2>3, StopInv, SetAlarmInv, KeyboardSetInv DEF Accesses
  <2>4. CASE UNCHANGED vars
    BY <2>4 DEF vars, MainClockInv, TypeOK, TableConsistent, AlarmsNearClock, TimersMirrorAlarms,
       RasterMirrorsAlarm, ClockNearLimit, ContextClk, CiaClk, ViciiClk, Warped
  <2> QED
    BY <2>1, <2>2, <2>3, <2>4 DEF Next
<1> QED
  BY <1>1, <1>2, PTL DEF Spec

\* No run of the emulator, however long, takes maincpu_clk or any clock kept in
\* the alarm table or by a device out of its 32 bits.
THEOREM ClocksStayInRange == Spec => []TypeOK
BY MainClockInvariant, PTL DEF MainClockInv

\* The pending-alarm table stays consistent through every mixture of arming,
\* disarming, dispatching and warping, nested calls from handlers included.
THEOREM TableStaysConsistent == Spec => []TableConsistent
BY MainClockInvariant, PTL DEF MainClockInv

\* No pending alarm is stranded or made overdue by a subtraction.
THEOREM AlarmsStayNear == Spec => []AlarmsNearClock
BY MainClockInvariant, PTL DEF MainClockInv

\* The CIA timers' own copies of their alarm clocks stay in step with the table although
\* the two are moved by different callbacks; the raster alarm is always pending and the
\* beam is where it will be drawn: the emulation cannot lose its frame clock.
THEOREM DevicesStayInStep == Spec => []DevicesInStep
<1>1. MainClockInv => DevicesInStep
  BY DEF MainClockInv, DevicesInStep
<1> QED
  BY <1>1, MainClockInvariant, PTL

-----------------------------------------------------------------------------
(***************************************************************************)
(* The clock, the table, the guard and its callbacks together implement    *)
(* TimerQueue: a device that looks only at the cycles left until its alarm *)
(* sees neither slots nor caches nor the subtraction, and is never called  *)
(* early.  (That it is called at all needs fairness: TLC checks that.)     *)
(***************************************************************************)

\* What the mapping says of one alarm, now and in the next state.
LEMMA Mapping ==
  /\ Pending \subseteq Alarms /\ DOMAIN CyclesLeft = Alarms
  /\ \A a \in Alarms :
       /\ a \in Pending <=> IsPending(ctx, a)
       /\ CyclesLeft[a] = IF IsPending(ctx, a) THEN DueClk(ctx, a) - ContextClk ELSE 0
BY DEF Pending, CyclesLeft

\* The same of the next state.
LEMMA MappingNext ==
  /\ Pending' \subseteq Alarms /\ DOMAIN CyclesLeft' = Alarms
  /\ \A a \in Alarms :
       /\ a \in Pending' <=> IsPending(ctx', a)
       /\ CyclesLeft'[a] = IF IsPending(ctx', a) THEN DueClk(ctx', a) - ContextClk' ELSE 0
BY DEF Pending, CyclesLeft

\* A step that leaves the other alarms and the table's clock alone arms one alarm ...
LEMMA ArmsOne ==
  ASSUME NEW a \in Alarms, NEW d, OthersKept(ctx, ctx', a), ContextClk' = ContextClk,
         IsPending(ctx', a), DueClk(ctx', a) - ContextClk = d
  PROVE  Queue!Arm(a, d)
<1>1. Pending' = Pending \cup {a}
  BY Mapping, MappingNext DEF OthersKept
<1>2. CyclesLeft' = [CyclesLeft EXCEPT ![a] = d]
  <2>1. CyclesLeft'[a] = d /\ \A b \in Alarms \ {a} : CyclesLeft'[b] = CyclesLeft[b]
    BY Mapping, MappingNext DEF OthersKept
  <2>2. CyclesLeft = [b \in Alarms |-> CyclesLeft[b]] /\ CyclesLeft' = [b \in Alarms |-> CyclesLeft'[b]]
    BY DEF CyclesLeft
  <2> QED
    BY <2>1, <2>2
<1> QED
  BY <1>1, <1>2 DEF Queue!Arm

\* ... or disarms it.
LEMMA DisarmsOne ==
  ASSUME NEW a \in Alarms, OthersKept(ctx, ctx', a), ContextClk' = ContextClk, ~ IsPending(ctx', a)
  PROVE  Queue!Disarm(a)
<1>1. Pending' = Pending \ {a}
  BY Mapping, MappingNext DEF OthersKept
<1>2. CyclesLeft' = [CyclesLeft EXCEPT ![a] = 0]
  <2>1. CyclesLeft'[a] = 0 /\ \A b \in Alarms \ {a} : CyclesLeft'[b] = CyclesLeft[b]
    BY Mapping, MappingNext DEF OthersKept
  <2>2. CyclesLeft = [b \in Alarms |-> CyclesLeft[b]] /\ CyclesLeft' = [b \in Alarms |-> CyclesLeft'[b]]
    BY DEF CyclesLeft
  <2> QED
    BY <2>1, <2>2
<1> QED
  BY <1>1, <1>2 DEF Queue!Disarm

\* A step that moves the table's clock and every pending alarm together is none at all.
LEMMA Stutters ==
  ASSUME \A a \in Alarms :
           /\ IsPending(ctx', a) <=> IsPending(ctx, a)
           /\ IsPending(ctx, a) => DueClk(ctx', a) - ContextClk' = DueClk(ctx, a) - ContextClk
  PROVE  UNCHANGED Queue!vars
<1>1. Pending' = Pending
  BY Mapping, MappingNext
<1>2. CyclesLeft' = CyclesLeft
  <2>1. \A b \in Alarms : CyclesLeft'[b] = CyclesLeft[b]
    BY Mapping, MappingNext
  <2>2. CyclesLeft = [b \in Alarms |-> CyclesLeft[b]] /\ CyclesLeft' = [b \in Alarms |-> CyclesLeft'[b]]
    BY DEF CyclesLeft
  <2> QED
    BY <2>1, <2>2
<1> QED
  BY <1>1, <1>2 DEF Queue!vars

\* The machine starts with the raster alarm alone, a line ahead.
LEMMA InitMaps ==
  ASSUME Init
  PROVE  Queue!Init
<1>1. PICK garbage \in -1 .. 1 : ctx = alarm_set(alarm_context_init(garbage), Raster, draw_clk)
  BY DEF Init
<1>2. clk = 6 /\ draw_clk = 6 + LineCycles /\ todo = <<>>
  BY DEF Init
<1> DEFINE c == alarm_context_init(garbage)
<1>3. Consistent(c) /\ \A a \in Alarms : ~ IsPending(c, a)
  <2>1. garbage \in Int
    OBVIOUS
  <2> QED
    BY <2>1, InitConsistent DEF alarm_context_init, IsPending
<1>4. draw_clk \in Nat /\ draw_clk < CLOCK_MAX /\ Raster \in Alarms
  BY <1>2, Constants, StartAssumption, AlarmKinds
<1>5. ctx = alarm_set(c, Raster, draw_clk)
  BY <1>1
<1> HIDE DEF c
<1>6. /\ IsPending(ctx, Raster) /\ DueClk(ctx, Raster) = draw_clk
      /\ \A a \in Alarms \ {Raster} : ~ IsPending(ctx, a)
  BY <1>3, <1>4, <1>5, Arm DEF OthersKept
<1>7. ContextClk = 6
  BY <1>2, Stages DEF ContextClk, Warped
<1>8. \A a \in Alarms : CyclesLeft[a] = IF a = Raster THEN LineCycles ELSE 0
  <2>1. DueClk(ctx, Raster) - ContextClk = LineCycles
    BY <1>2, <1>6, <1>7, Constants
  <2> QED
    BY <1>6, <2>1, Mapping
<1>9. CyclesLeft \in [Alarms -> 0 .. Horizon]
  <2>1. CyclesLeft = [b \in Alarms |-> CyclesLeft[b]]
    BY DEF CyclesLeft
  <2> QED
    BY <1>8, <2>1, Constants
<1>10. \A a \in Alarms : a \in Pending <=> CyclesLeft[a] > 0
  <2> TAKE a \in Alarms
  <2>1. a \in Pending <=> a = Raster
    BY <1>4, <1>6, Mapping
  <2>2. CASE a = Raster
    <3>1. CyclesLeft[a] = LineCycles
      BY <1>8, <2>2
    <3> QED
      BY <2>1, <2>2, <3>1, Constants
  <2>3. CASE a # Raster
    <3>1. CyclesLeft[a] = 0
      BY <1>8, <2>3
    <3> QED
      BY <2>1, <2>3, <3>1
  <2> QED
    BY <2>2, <2>3
<1> QED
  BY <1>9, <1>10, Mapping DEF Queue!Init

\* An instruction is so much time: nothing was due when it began.
LEMMA InstructionMaps ==
  ASSUME MainClockInv, NEW n \in 1 .. MaxCycles, Instruction(n)
  PROVE  Queue!Tick(n)
<1>1. todo = <<>> /\ ~ MustDispatch(ctx, clk) /\ clk' = clk + n /\ ctx' = ctx /\ todo' = todo /\ sub' = sub
  BY DEF Instruction
<1>2. n \in Nat /\ clk \in Nat
  BY <1>1, OutsideHook, Constants
<1>3. ContextClk = clk /\ ContextClk' = clk + n
  BY <1>1, Stages DEF ContextClk, Warped
<1>4. \A a \in Alarms : IsPending(ctx, a) => DueClk(ctx, a) \in Nat /\ DueClk(ctx, a) > clk
  <2>1. Consistent(ctx) /\ clk \in Nat /\ ctx.next_clk \in Nat
    BY <1>1, OutsideHook, ContextFacts DEF Consistent
  <2> QED
    BY <1>1, <2>1, DueClkType DEF MustDispatch
<1>5. \A a \in Pending : CyclesLeft[a] > 0
  BY <1>2, <1>3, <1>4, Mapping
<1>6. Pending' = Pending
  BY <1>1, Mapping, MappingNext
<1>7. CyclesLeft' = [a \in Alarms |-> IF a \in Pending THEN CyclesLeft[a] - n ELSE 0]
  <2>1. \A a \in Alarms : CyclesLeft'[a] = IF a \in Pending THEN CyclesLeft[a] - n ELSE 0
    BY <1>1, <1>2, <1>3, <1>4, Mapping, MappingNext
  <2>2. CyclesLeft' = [b \in Alarms |-> CyclesLeft'[b]]
    BY DEF CyclesLeft
  <2> QED
    BY <2>1, <2>2
<1> QED
  BY <1>5, <1>6, <1>7 DEF Queue!Tick

\* A device that arms its alarm n cycles ahead of the clock.
LEMMA ArmsAhead ==
  ASSUME MainClockInv, Store, NEW a \in Alarms, NEW n \in 1 .. Horizon,
         ctx' = alarm_set(ctx, a, clk + n), UNCHANGED <<clk, todo, sub>>
  PROVE  Queue!Arm(a, n)
<1>1. n \in 0 .. Horizon
  BY Constants
<1>2. clk + n \in Nat /\ clk + n < CLOCK_MAX /\ Consistent(ctx) /\ clk \in Nat /\ ContextClk = clk
  BY <1>1, StoreFacts, OutsideHook
<1>3. IsPending(ctx', a) /\ DueClk(ctx', a) = clk + n /\ OthersKept(ctx, ctx', a)
  BY <1>2, Arm
<1>4. ContextClk' = ContextClk
  BY DEF ContextClk, Warped
<1>5. DueClk(ctx', a) - ContextClk = n
  BY <1>2, <1>3
<1> QED
  BY <1>3, <1>4, <1>5, ArmsOne

\* The program's accesses are requests of the devices.
LEMMA AccessMaps ==
  ASSUME MainClockInv, Accesses
  PROVE  Queue!SomeRequest
<1>1. ASSUME NEW t \in Timers, ciat_stop(t)
      PROVE  Queue!Disarm(t)
  <2>1. Store /\ ctx' = alarm_unset(ctx, t) /\ UNCHANGED <<clk, todo, sub>>
    BY <1>1 DEF ciat_stop
  <2>2. t \in Alarms /\ Consistent(ctx)
    BY <2>1, StoreFacts, OutsideHook, AlarmKinds
  <2>3. ~ IsPending(ctx', t) /\ OthersKept(ctx, ctx', t)
    BY <2>1, <2>2, Disarm
  <2>4. ContextClk' = ContextClk
    BY <2>1 DEF ContextClk, Warped
  <2> QED
    BY <2>2, <2>3, <2>4, DisarmsOne
<1>2. ASSUME NEW t \in Timers, NEW cycles \in 1 .. Period, ciat_set_alarm(t, cycles)
      PROVE  t \in Alarms /\ cycles \in 1 .. Horizon /\ Queue!Arm(t, cycles)
  <2>1. Store /\ ctx' = alarm_set(ctx, t, clk + cycles) /\ UNCHANGED <<clk, todo, sub>>
    BY <1>2 DEF ciat_set_alarm
  <2>2. t \in Alarms /\ cycles \in 1 .. Horizon
    BY AlarmKinds, Constants
  <2> QED
    BY <2>1, <2>2, ArmsAhead
<1>3. ASSUME NEW o \in OneShots, NEW delay \in 1 .. Horizon, keyboard_set_keyarr(o, delay)
      PROVE  o \in Alarms /\ Queue!Arm(o, delay)
  <2>1. Store /\ ctx' = alarm_set(ctx, o, clk + delay) /\ UNCHANGED <<clk, todo, sub>>
    BY <1>3 DEF keyboard_set_keyarr
  <2>2. o \in Alarms
    BY AlarmKinds
  <2> QED
    BY <2>1, <2>2, ArmsAhead
<1> QED
  BY <1>1, <1>2, <1>3, AlarmKinds DEF Accesses, Queue!SomeRequest

\* A due alarm that is over, or armed again d cycles after it was due.
LEMMA Serves ==
  ASSUME NEW a \in Alarms, IsPending(ctx, a), DueClk(ctx, a) \in Int, ContextClk \in Int,
         DueClk(ctx, a) <= ContextClk, OthersKept(ctx, ctx', a), ContextClk' = ContextClk,
         NEW d \in 1 .. Horizon, IsPending(ctx', a) => DueClk(ctx', a) = DueClk(ctx, a) + d
  PROVE  Queue!SomeServe
<1>1. a \in Pending /\ CyclesLeft[a] = DueClk(ctx, a) - ContextClk /\ CyclesLeft[a] <= 0
  BY Mapping
<1>2. CASE IsPending(ctx', a)
  <2>1. DueClk(ctx', a) - ContextClk = CyclesLeft[a] + d
    BY <1>1, <1>2, Constants
  <2>2. Queue!Arm(a, CyclesLeft[a] + d)
    BY <1>2, <2>1, ArmsOne
  <2>3. Queue!Serve(a)
    BY <1>1, <2>2 DEF Queue!Serve
  <2> QED
    BY <2>3 DEF Queue!SomeServe
<1>3. CASE ~ IsPending(ctx', a)
  <2>1. Queue!Disarm(a)
    BY <1>3, DisarmsOne
  <2>2. Queue!Serve(a)
    BY <1>1, <2>1 DEF Queue!Serve
  <2> QED
    BY <2>2 DEF Queue!SomeServe
<1> QED
  BY <1>2, <1>3

\* The dispatched alarm is due, on the table's own clock.
LEMMA DispatchedDue ==
  ASSUME MainClockInv, NEW a, Dispatch(a), UNCHANGED <<clk, todo, sub>>
  PROVE  /\ a \in Alarms /\ IsPending(ctx, a) /\ DueClk(ctx, a) \in Int /\ ContextClk \in Int
         /\ DueClk(ctx, a) <= ContextClk /\ ContextClk' = ContextClk /\ Consistent(ctx)
<1>1. todo = <<>> /\ a \in Alarms /\ IsPending(ctx, a) /\ DueClk(ctx, a) <= clk
  BY DispatchFacts
<1>2. ContextClk = clk /\ clk \in Nat /\ DueClk(ctx, a) \in Nat /\ Consistent(ctx)
  BY <1>1, OutsideHook
<1>3. ContextClk' = ContextClk
  BY DEF ContextClk, Warped
<1> QED
  BY <1>1, <1>2, <1>3

\* A timer's underflow in the CPU loop.
LEMMA InttaMaps ==
  ASSUME MainClockInv, NEW t \in Timers, ciacore_intta(t)
  PROVE  Queue!SomeServe
<1>1. PICK needed \in BOOLEAN : Underflow(t, needed)
  BY DEF ciacore_intta
<1>2. Dispatch(t) /\ UNCHANGED <<clk, todo, sub>>
  BY DEF ciacore_intta
<1>3. /\ t \in Alarms /\ IsPending(ctx, t) /\ DueClk(ctx, t) \in Int /\ ContextClk \in Int
      /\ DueClk(ctx, t) <= ContextClk /\ ContextClk' = ContextClk /\ Consistent(ctx)
  BY <1>2, DispatchedDue
<1>4. todo = <<>> /\ DueClk(ctx, t) <= clk /\ clk \in Nat
  BY <1>2, DispatchFacts, OutsideHook
<1>5. alarmclk \in [Timers -> Nat]
  BY DEF MainClockInv, TypeOK, Clock
<1>6. alarmclk[t] = DueClk(ctx, t)
  BY <1>3, <1>4, OutsideHook
<1>7. alarmclk[t] + Period < CLOCK_MAX
  BY <1>4, <1>5, <1>6, OutsideHook, Constants
<1>8. OthersKept(ctx, ctx', t) /\ (IsPending(ctx', t) => DueClk(ctx', t) = alarmclk[t] + Period)
  BY <1>1, <1>3, <1>5, <1>7, UnderflowFacts
<1>9. Period \in 1 .. Horizon
  BY Constants
<1> QED
  BY <1>3, <1>6, <1>8, <1>9, Serves

\* The underflows a CIA catches up with inside the hook.
LEMMA UpdateTaMaps ==
  ASSUME MainClockInv, NEW t \in Timers, cia_update_ta(t)
  PROVE  Queue!SomeServe
<1>1. PICK needed \in BOOLEAN : Underflow(t, needed)
  BY DEF cia_update_ta
<1>2. Callback("cia") /\ CiaBehind(t) /\ UNCHANGED <<clk, todo, sub>>
  BY DEF cia_update_ta
<1>3. todo = HookSteps /\ todo # <<>> /\ t \in Alarms
  BY <1>2, CallbackStage, AlarmKinds
<1>4. ContextClk = clk + sub /\ CiaClk = clk + sub
  BY <1>3, Stages DEF ContextClk, CiaClk, Warped
<1>5. ContextClk' = ContextClk
  BY <1>2 DEF ContextClk, Warped
<1>6. /\ clk \in Nat /\ sub \in Nat /\ Consistent(ctx) /\ alarmclk \in [Timers -> Nat]
      /\ clk + sub < ClkMaxValue + Lines * LineCycles + MaxCycles + 1
  BY <1>3, InHook
<1>7. clk + sub + Period < CLOCK_MAX
  BY <1>6, Constants
<1>8. Wrap(clk + sub) = clk + sub
  BY <1>6, <1>7, NoWrap, Constants
<1>9. alarmclk[t] <= clk + sub
  BY <1>2, <1>8 DEF CiaBehind
<1>10. IsPending(ctx, t) /\ alarmclk[t] - (clk + sub) = DueClk(ctx, t) - (clk + sub)
  <2>1. alarmclk[t] # CLOCK_MAX
    BY <1>6, <1>7, <1>9, Constants
  <2> QED
    BY <1>4, <2>1 DEF MainClockInv, TimersMirrorAlarms
<1>11. DueClk(ctx, t) \in Nat
  BY <1>3, <1>4, <1>10, InHookOld
<1>12. alarmclk[t] = DueClk(ctx, t) /\ alarmclk[t] + Period < CLOCK_MAX
  BY <1>6, <1>7, <1>9, <1>10, <1>11, Constants
<1>13. OthersKept(ctx, ctx', t) /\ (IsPending(ctx', t) => DueClk(ctx', t) = alarmclk[t] + Period)
  BY <1>1, <1>6, <1>12, UnderflowFacts
<1>14. Period \in 1 .. Horizon /\ ContextClk \in Int /\ DueClk(ctx, t) <= ContextClk
  BY <1>4, <1>6, <1>9, <1>12, Constants
<1> QED
  BY <1>3, <1>5, <1>10, <1>11, <1>12, <1>13, <1>14, Serves

\* A key's alarm is served once.
LEMMA KeyboardHandlerMaps ==
  ASSUME MainClockInv, NEW o \in OneShots, keyboard_latch_handler(o)
  PROVE  Queue!SomeServe
<1> DEFINE c == alarm_unset(ctx, o)
<1>1. /\ Dispatch(o) /\ ctx' = alarm_context_update_next_pending(c) /\ UNCHANGED <<clk, todo, sub>>
  BY DEF keyboard_latch_handler
<1>2. /\ o \in Alarms /\ IsPending(ctx, o) /\ DueClk(ctx, o) \in Int /\ ContextClk \in Int
      /\ DueClk(ctx, o) <= ContextClk /\ ContextClk' = ContextClk /\ Consistent(ctx)
  BY <1>1, DispatchedDue
<1>3. Consistent(c) /\ ~ IsPending(c, o) /\ OthersKept(ctx, c, o)
  BY <1>2, Disarm
<1> HIDE DEF c
<1>4. ctx'.pending_idx = c.pending_idx /\ ctx'.clk = c.clk
  BY <1>1, <1>3, UpdateConsistent, UpdateEffect DEF Consistent
<1>5. ~ IsPending(ctx', o) /\ OthersKept(ctx, ctx', o)
  BY <1>3, <1>4 DEF OthersKept, IsPending, DueClk
<1>6. 1 \in 1 .. Horizon
  BY Constants
<1> QED
  BY <1>2, <1>5, <1>6, Serves

\* A line: due again a line later.
LEMMA RasterMaps ==
  ASSUME MainClockInv, vicii_raster_draw_alarm_handler
  PROVE  Queue!SomeServe
<1>1. /\ Dispatch(Raster) /\ draw_clk' = draw_clk + LineCycles
      /\ ctx' = alarm_set(ctx, Raster, draw_clk') /\ UNCHANGED <<clk, todo, sub>>
  BY DEF vicii_raster_draw_alarm_handler, RearmRaster
<1>2. /\ Raster \in Alarms /\ IsPending(ctx, Raster) /\ DueClk(ctx, Raster) \in Int /\ ContextClk \in Int
      /\ DueClk(ctx, Raster) <= ContextClk /\ ContextClk' = ContextClk /\ Consistent(ctx)
  BY <1>1, DispatchedDue
<1>3. /\ draw_clk = DueClk(ctx, Raster) /\ draw_clk \in Nat
      /\ draw_clk < ClkMaxValue + Lines * LineCycles
  BY <1>1, DispatchFacts, OutsideHook
<1>4. draw_clk' \in Nat /\ draw_clk' < CLOCK_MAX
  BY <1>1, <1>3, Constants
<1>5. IsPending(ctx', Raster) /\ DueClk(ctx', Raster) = draw_clk' /\ OthersKept(ctx, ctx', Raster)
  BY <1>1, <1>2, <1>4, Arm
<1>6. LineCycles \in 1 .. Horizon
  BY Constants
<1> QED
  BY <1>1, <1>2, <1>3, <1>5, <1>6, Serves

\* The line whose end took the clock back: its alarm is due on the new scale now.
LEMMA FinishLineMaps ==
  ASSUME MainClockInv, FinishLine
  PROVE  Queue!SomeServe
<1>1. /\ Callback("rearm") /\ todo' = <<>> /\ clk' = clk
      /\ draw_clk' = draw_clk + LineCycles /\ ctx' = alarm_set(ctx, Raster, draw_clk')
  BY DEF FinishLine, RearmRaster
<1>2. todo = <<"rearm">> /\ todo # <<>> /\ Raster \in Alarms
  BY <1>1, CallbackStage, AlarmKinds
<1>3. ContextClk = clk /\ ViciiClk = clk /\ ContextClk' = clk
  BY <1>1, <1>2, Stages DEF ContextClk, ViciiClk, Warped
<1>4. /\ clk \in Nat /\ Consistent(ctx) /\ draw_clk \in Nat /\ clk + LineCycles < ClkMaxValue
      /\ draw_clk - ViciiClk = DueClk(ctx, Raster) - ContextClk /\ IsPending(ctx, Raster)
      /\ DueClk(ctx, Raster) <= ContextClk /\ DueClk(ctx, Raster) \in Nat
  BY <1>2, InHook
<1>5. draw_clk = DueClk(ctx, Raster) /\ draw_clk <= clk
  BY <1>3, <1>4
<1>6. draw_clk' \in Nat /\ draw_clk' < CLOCK_MAX
  BY <1>1, <1>4, <1>5, Constants
<1>7. IsPending(ctx', Raster) /\ DueClk(ctx', Raster) = draw_clk' /\ OthersKept(ctx, ctx', Raster)
  BY <1>1, <1>2, <1>4, <1>6, Arm
<1>8. LineCycles \in 1 .. Horizon
  BY Constants
<1> QED
  BY <1>1, <1>2, <1>3, <1>4, <1>5, <1>7, <1>8, Serves

\* The subtraction itself moves the clock under a table that has not moved yet.
LEMMA PreventOverflowMaps ==
  ASSUME MainClockInv, clk_guard_prevent_overflow
  PROVE  UNCHANGED Queue!vars
<1>1. /\ Dispatch(Raster) /\ clk' = clk - clk_guard_clock_sub /\ sub' = clk_guard_clock_sub
      /\ todo' = HookSteps /\ ctx' = ctx
  BY DEF clk_guard_prevent_overflow
<1>2. ContextClk = clk /\ clk \in Nat
  BY <1>1, DispatchFacts, OutsideHook
<1>3. ContextClk' = ContextClk
  BY <1>1, <1>2, SubBounds, Stages DEF ContextClk, Warped
<1> QED
  BY <1>1, <1>3, Stutters

\* The CIAs' and the video chip's callbacks do not touch the table.
LEMMA PrivateCopiesMap ==
  ASSUME MainClockInv, ciacore_clk_overflow_callback \/ vicii_clk_overflow_callback
  PROVE  UNCHANGED Queue!vars
<1>1. ctx' = ctx /\ clk' = clk /\ sub' = sub /\ todo' = Tail(todo) /\ (Callback("cia") \/ Callback("vicii"))
  BY DEF ciacore_clk_overflow_callback, vicii_clk_overflow_callback
<1>2. /\ todo \in {HookSteps, <<"vicii", "machine", "rearm">>}
      /\ todo' \in {<<"vicii", "machine", "rearm">>, <<"machine", "rearm">>}
  BY <1>1, CallbackStage
<1>3. ContextClk' = ContextClk
  BY <1>1, <1>2, Stages DEF ContextClk, Warped
<1> QED
  BY <1>1, <1>3, Stutters

\* The table moves together with the clock it is measured against.
LEMMA MachineCallbackMaps ==
  ASSUME MainClockInv, machine_maincpu_clk_overflow_callback
  PROVE  UNCHANGED Queue!vars
<1>1. /\ Callback("machine") /\ todo' = Tail(todo) /\ UNCHANGED <<clk, sub>>
      /\ ctx' = alarm_context_time_warp(ctx, sub)
  BY DEF machine_maincpu_clk_overflow_callback
<1>2. todo = <<"machine", "rearm">> /\ todo' = <<"rearm">> /\ todo # <<>>
  BY <1>1, CallbackStage
<1>3. ContextClk = clk + sub /\ ContextClk' = clk
  BY <1>1, <1>2, Stages DEF ContextClk, Warped
<1>4. clk \in Nat /\ sub \in Nat /\ Consistent(ctx) /\ ctx.num # 0 /\ clk >= CLKGUARD_SUB_MIN
  BY <1>2, InHook
<1>5. \A a \in Alarms : IsPending(ctx, a) => DueClk(ctx, a) \in Nat /\ sub <= DueClk(ctx, a)
  <2> SUFFICES ASSUME NEW a \in Alarms, IsPending(ctx, a)
               PROVE  DueClk(ctx, a) \in Nat /\ sub <= DueClk(ctx, a)
    OBVIOUS
  <2>1. DueClk(ctx, a) \in Nat /\ DueClk(ctx, a) >= clk + sub - MaxCycles
    BY <1>2, <1>3, InHookOld
  <2> QED
    BY <1>4, <2>1, Constants
<1>6. \A i \in Slots(ctx) : sub <= ctx.clk[i]
  <2> SUFFICES ASSUME NEW i \in Slots(ctx)
               PROVE  sub <= ctx.clk[i]
    OBVIOUS
  <2>1. ctx.alarm[i] \in Alarms /\ ctx.pending_idx[ctx.alarm[i]] = i /\ i # -1
    BY <1>4, ContextFacts DEF Consistent, SlotsMatch
  <2> QED
    BY <1>5, <2>1 DEF IsPending, DueClk
<1>7. /\ ctx'.pending_idx = ctx.pending_idx
      /\ \A i \in Slots(ctx) : ctx'.clk[i] = ctx.clk[i] - sub
  BY <1>1, <1>4, <1>6, WarpConsistent
<1>8. \A a \in Alarms : /\ IsPending(ctx', a) <=> IsPending(ctx, a)
                        /\ IsPending(ctx, a) => DueClk(ctx', a) = DueClk(ctx, a) - sub
  <2>1. \A a \in Alarms : IsPending(ctx, a) => ctx.pending_idx[a] \in Slots(ctx)
    BY <1>4 DEF Consistent, SlotsMatch
  <2> QED
    BY <1>7, <2>1 DEF IsPending, DueClk
<1>9. \A a \in Alarms : IsPending(ctx, a) =>
        DueClk(ctx', a) - ContextClk' = DueClk(ctx, a) - ContextClk
  BY <1>3, <1>4, <1>5, <1>8
<1> QED
  BY <1>8, <1>9, Stutters

\* Every step of the emulator is a step of the queue or none of it.
LEMMA StepMaps ==
  ASSUME MainClockInv, [Next]_vars
  PROVE  [Queue!Next]_(Queue!vars)
<1>1. CASE Execute
  BY <1>1, InstructionMaps DEF Execute, Queue!Next, Queue!SomeTick
<1>2. CASE Handlers
  BY <1>2, InttaMaps, UpdateTaMaps, KeyboardHandlerMaps, RasterMaps, FinishLineMaps, PreventOverflowMaps,
     PrivateCopiesMap, MachineCallbackMaps DEF Handlers, Queue!Next
<1>3. CASE Accesses
  BY <1>3, AccessMaps DEF Queue!Next
<1>4. CASE UNCHANGED vars
  <2>1. ctx' = ctx /\ ContextClk' = ContextClk
    BY <1>4 DEF vars, ContextClk, Warped
  <2> QED
    BY <2>1, Stutters
<1> QED
  BY <1>1, <1>2, <1>3, <1>4 DEF Next

\* No device is ever called early, no armed alarm is lost or moved, and no instruction
\* starts with an alarm due, however often the clock has been set back in between: with
\* Pending and CyclesLeft for its variables, every behaviour of the clock, the alarm table,
\* the guard and the callbacks is one of the queue of TimerQueue (its fairness aside).
THEOREM RefinesTimerQueue == Spec => Queue!SafeSpec
<1>1. Init => Queue!Init
  BY InitMaps
<1>2. MainClockInv /\ [Next]_vars => [Queue!Next]_(Queue!vars)
  BY StepMaps
<1> QED
  BY <1>1, <1>2, MainClockInvariant, PTL DEF Spec, Queue!SafeSpec
=============================================================================
