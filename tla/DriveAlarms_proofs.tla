------------------------- MODULE DriveAlarms_proofs -------------------------
(***************************************************************************)
(* A drive's alarm table stays whole and its VIA timers in step with it,   *)
(* for any timers, clock width and timing that satisfy the assumptions of  *)
(* DriveAlarms.                                                            *)
(***************************************************************************)
EXTENDS DriveAlarms, AlarmContext_proofs

\* The clock of the table, and that of a chip's copies: as it was before the
\* subtraction while the callback that takes the amount away is still to run.
TableClk == IF todo = Callbacks THEN clk + sub ELSE clk
CopyClk(t) ==
  IF todo = Callbacks \/ todo = Tail(Callbacks) \/ (todo # <<>> /\ t \in ViaTimers)
  THEN clk + sub ELSE clk

\* The latest the CPU's clock can be, and the latest an alarm can be due.
LatestClk == ClkMaxValue + FrameCycles + MaxCycles
LatestDue == LatestClk + 2 * Period

\* The guard subtracts from a clock that reached the maximum, between instructions.
ClockInRange ==
  /\ clk \in Nat
  /\ IF todo = <<>> THEN clk <= LatestClk
     ELSE ~ serving /\ ClkMaxValue <= clk + sub /\ clk + sub <= LatestClk

\* What the table and a chip say of a timer, both on their own scale.  The table of a
\* chip that catches up may be late: it was given a clock from before the subtraction.
TimerFits(t) ==
  /\ IsPending(ctx, t) <=> alarmclk[t] # CLOCK_MAX
  /\ IsPending(ctx, t) =>
       /\ DueClk(ctx, t) <= LatestDue
       /\ alarmclk[t] <= CopyClk(t) + 2 * Period
       /\ alarmclk[t] + TableClk <= DueClk(ctx, t) + CopyClk(t)
       /\ t \in ViaTimers => alarmclk[t] + TableClk = DueClk(ctx, t) + CopyClk(t)

\* After an empty table was warped the cache names no slot until an alarm is dispatched;
\* until then every timer underflows within one period.
CacheFits ==
  \/ CacheIsEarliest(ctx)
  \/ \A t \in Alarms : IsPending(ctx, t) => alarmclk[t] <= CopyClk(t) + Period

\* Nothing is overdue by more than an instruction, but for what the loop is serving and
\* what a chip is catching up with.
NothingOverdue ==
  IF todo = Tail(Callbacks)
  THEN /\ CacheIsEarliest(ctx) \/ ctx.next_clk + MaxCycles > clk
       /\ \A t \in Alarms : IsPending(ctx, t) =>
            \/ DueClk(ctx, t) + MaxCycles > clk
            \/ t \in CiaTimers /\ alarmclk[t] <= clk + sub
  ELSE serving \/ ctx.next_clk + MaxCycles > TableClk

DriveInv ==
  /\ alarmclk \in [Alarms -> Clock] /\ serving \in BOOLEAN
  /\ todo \in {Callbacks, Tail(Callbacks), Tail(Tail(Callbacks)), <<>>}
  /\ ClockInRange
  /\ Whole(ctx) /\ NotLate(ctx)
  /\ \A t \in Alarms : TimerFits(t)
  /\ CacheFits
  /\ NothingOverdue

-----------------------------------------------------------------------------
\* The numbers involved.
LEMMA DriveNumbers ==
  /\ CLOCK_MAX \in Nat /\ ClkMaxValue \in Nat /\ sub \in Nat
  /\ Period \in Nat /\ MaxCycles \in Nat /\ FrameCycles \in Nat /\ Period >= 1 /\ MaxCycles >= 1
  /\ ClkMaxValue > 6 /\ sub >= 1 /\ sub + FrameCycles + 2 * MaxCycles + 2 * Period < ClkMaxValue
  /\ LatestClk \in Nat /\ LatestDue \in Nat /\ LatestDue = LatestClk + 2 * Period
  /\ LatestDue < CLOCK_MAX /\ LatestClk = ClkMaxValue + FrameCycles + MaxCycles
<1>1. /\ CLKGUARD_SUB_MIN \in Nat /\ CLKGUARD_SUB_MIN >= 1 /\ ClkMaxValue \in Nat
      /\ ClkMaxValue >= 3 * CLKGUARD_SUB_MIN
  BY GuardAssumption
<1>2. /\ Period \in Nat /\ MaxCycles \in Nat /\ FrameCycles \in Nat /\ Period >= 1 /\ MaxCycles >= 1
      /\ ClkMaxValue = CLOCK_MAX - CLKGUARD_SUB_MIN
      /\ 2 * Period + FrameCycles + 2 * MaxCycles < CLKGUARD_SUB_MIN
  BY DriveAlarmsAssumption
<1>3. CLOCK_MAX \in Nat
  BY ClockAssumption
<1>4. /\ sub \in Nat /\ sub <= ClkMaxValue - CLKGUARD_SUB_MIN
      /\ sub >= ClkMaxValue - 2 * CLKGUARD_SUB_MIN
  BY SubBounds DEF sub
<1> QED
  BY ONLY <1>1, <1>2, <1>3, <1>4 DEF LatestClk, LatestDue

\* A clock in range is not changed by the 32 bits.
LEMMA NoWrap ==
  ASSUME NEW x \in Nat, x <= CLOCK_MAX
  PROVE  Wrap(x) = x /\ x \in Clock
BY ClockAssumption DEF Wrap, Clock

\* The stages of the guard are different.
LEMMA GuardStages ==
  /\ Callbacks # <<>> /\ Tail(Callbacks) # <<>> /\ Tail(Tail(Callbacks)) # <<>>
  /\ Callbacks # Tail(Callbacks) /\ Callbacks # Tail(Tail(Callbacks))
  /\ Tail(Callbacks) # Tail(Tail(Callbacks)) /\ Tail(Tail(Tail(Callbacks))) = <<>>
  /\ Head(Callbacks) = "drive" /\ Head(Tail(Callbacks)) = "cia"
  /\ Head(Tail(Tail(Callbacks))) = "via"
<1>1. Tail(Callbacks) = <<"cia", "via">> /\ Tail(Tail(Callbacks)) = <<"via">>
  BY DEF Callbacks
<1> QED
  BY <1>1 DEF Callbacks

\* A pending alarm is due at a clock, and not before the cached one.
LEMMA DueFacts ==
  ASSUME NEW c, Whole(c), NotLate(c), NEW a \in Alarms, IsPending(c, a)
  PROVE  /\ DueClk(c, a) \in Nat /\ DueClk(c, a) <= CLOCK_MAX /\ c.next_clk <= DueClk(c, a)
         /\ c.num # 0
<1>1. c.pending_idx[a] \in Slots(c)
  BY DEF Whole, SlotsMatch
<1> QED
  BY <1>1, ContextFacts DEF Whole, NotLate, DueClk

\* A slot in use names a pending alarm and its clock.
LEMMA SlotFacts ==
  ASSUME NEW c, Whole(c), NEW i \in Slots(c)
  PROVE  /\ c.alarm[i] \in Alarms /\ IsPending(c, c.alarm[i]) /\ DueClk(c, c.alarm[i]) = c.clk[i]
         /\ c.pending_idx[c.alarm[i]] = i
<1>1. c.alarm[i] \in Alarms /\ c.pending_idx[c.alarm[i]] = i /\ i # -1
  BY ContextFacts DEF Whole, SlotsMatch
<1> QED
  BY <1>1 DEF IsPending, DueClk

\* A right cache names the alarm that is due first.
LEMMA EarliestIsDue ==
  ASSUME NEW c, Whole(c), CacheIsEarliest(c)
  PROVE  IF c.num = 0 THEN c.next_clk = CLOCK_MAX
         ELSE /\ c.next_idx \in Slots(c)
              /\ c.alarm[c.next_idx] \in Alarms /\ IsPending(c, c.alarm[c.next_idx])
              /\ DueClk(c, c.alarm[c.next_idx]) = c.next_clk
BY SlotFacts DEF CacheIsEarliest

\* What setting a timer's alarm does to the table.
LEMMA Arming ==
  ASSUME NEW c, Whole(c), NotLate(c), NEW a \in Alarms, NEW x \in Nat, x < CLOCK_MAX
  PROVE  LET d == alarm_set(c, a, x) IN
         Kept(c, d) /\ OthersKept(c, d, a) /\ IsPending(d, a) /\ DueClk(d, a) = x
<1>1. x \in Clock
  BY NoWrap, ClockAssumption
<1>2. IsPending(c, a) \/ c.num < ALARM_CONTEXT_MAX_PENDING_ALARMS
  BY RoomForOneMore, DriveSlotsAssumption
<1> QED
  BY <1>1, <1>2, SetKeeps, SetEffect

\* What the underflow of a timer does to it.
LEMMA Rearming ==
  ASSUME NEW c, Whole(c), NotLate(c), NEW a \in Alarms, NEW x \in Nat, x < CLOCK_MAX
  PROVE  LET d == alarm_set(alarm_unset(c, a), a, x) IN
         /\ Kept(c, d) /\ OthersKept(c, d, a) /\ IsPending(d, a) /\ DueClk(d, a) = x
         /\ IsPending(c, a) /\ c.next_idx = c.pending_idx[a] => CacheIsEarliest(d)
<1> DEFINE u == alarm_unset(c, a)
           d == alarm_set(u, a, x)
<1>1. /\ Kept(c, u) /\ OthersKept(c, u, a)
      /\ IsPending(c, a) /\ c.next_idx = c.pending_idx[a] => CacheIsEarliest(u)
  BY UnsetKeeps, UnsetEffect
<1>2. Whole(u) /\ NotLate(u)
  BY <1>1 DEF Kept
<1> HIDE DEF u
<1>3. Kept(u, d) /\ OthersKept(u, d, a) /\ IsPending(d, a) /\ DueClk(d, a) = x
  BY <1>2, Arming
<1> HIDE DEF d
<1>4. Kept(c, d) /\ (CacheIsEarliest(u) => CacheIsEarliest(d))
  BY <1>1, <1>3 DEF Kept
<1>5. OthersKept(c, d, a)
  BY <1>1, <1>3 DEF OthersKept
<1> QED
  BY <1>1, <1>3, <1>4, <1>5 DEF d, u

\* A call for one alarm leaves the cached clock as late as it was, if the alarm is.
LEMMA CacheStaysLate ==
  ASSUME NEW c, NEW d, NEW a \in Alarms, Whole(c), NotLate(c), Kept(c, d), OthersKept(c, d, a),
         NEW m \in Nat, NEW n \in Nat, n <= CLOCK_MAX, m >= 1, c.next_clk + m > n,
         IsPending(d, a) => DueClk(d, a) + m > n
  PROVE  d.next_clk + m > n
<1>1. Whole(d) /\ c.next_clk \in Nat /\ CLOCK_MAX \in Nat
  BY ContextFacts, ClockAssumption DEF Kept, Whole
<1>2. CASE d.next_clk = c.next_clk
  BY <1>2
<1>3. CASE CacheIsEarliest(d) /\ d.num = 0
  BY <1>1, <1>3 DEF CacheIsEarliest
<1>4. CASE CacheIsEarliest(d) /\ d.num # 0
  <2> DEFINE b == d.alarm[d.next_idx]
  <2>1. b \in Alarms /\ IsPending(d, b) /\ DueClk(d, b) = d.next_clk
    BY <1>1, <1>4, EarliestIsDue
  <2>2. CASE b = a
    BY <2>1, <2>2
  <2>3. CASE b # a
    <3>1. IsPending(c, b) /\ DueClk(c, b) = d.next_clk
      BY <2>1, <2>3 DEF OthersKept
    <3>2. c.next_clk <= DueClk(c, b) /\ DueClk(c, b) \in Nat
      BY <2>1, <3>1, DueFacts
    <3> QED
      BY ONLY <1>1, <3>1, <3>2, c.next_clk + m > n, m \in Nat, n \in Nat
  <2> QED
    BY <2>2, <2>3
<1> QED
  BY <1>2, <1>3, <1>4 DEF Kept

-----------------------------------------------------------------------------
\* What the invariant says outside the guard.
LEMMA OutsideGuard ==
  ASSUME DriveInv, todo = <<>>
  PROVE  /\ clk \in Nat /\ clk <= LatestClk /\ clk <= CLOCK_MAX
         /\ Whole(ctx) /\ NotLate(ctx) /\ alarmclk \in [Alarms -> Clock] /\ serving \in BOOLEAN
         /\ \A t \in Alarms :
              /\ alarmclk[t] \in Nat /\ alarmclk[t] <= CLOCK_MAX
              /\ IsPending(ctx, t) <=> alarmclk[t] # CLOCK_MAX
              /\ IsPending(ctx, t) =>
                   /\ DueClk(ctx, t) \in Nat /\ DueClk(ctx, t) <= LatestDue
                   /\ alarmclk[t] <= clk + 2 * Period /\ alarmclk[t] <= DueClk(ctx, t)
                   /\ t \in ViaTimers => alarmclk[t] = DueClk(ctx, t)
         /\ \/ CacheIsEarliest(ctx)
            \/ \A t \in Alarms : IsPending(ctx, t) => alarmclk[t] <= clk + Period
         /\ serving \/ ctx.next_clk + MaxCycles > clk
<1>1. TableClk = clk /\ \A t \in Alarms : CopyClk(t) = clk
  BY GuardStages DEF TableClk, CopyClk
<1>2. /\ clk \in Nat /\ clk <= LatestClk /\ Whole(ctx) /\ NotLate(ctx)
      /\ alarmclk \in [Alarms -> Clock] /\ serving \in BOOLEAN
  BY DEF DriveInv, ClockInRange
<1>3. \A t \in Alarms : alarmclk[t] \in Nat /\ alarmclk[t] <= CLOCK_MAX
  BY <1>2, ClockAssumption DEF Clock
<1>4. \A t \in Alarms : IsPending(ctx, t) => DueClk(ctx, t) \in Nat
  BY <1>2, DueFacts
<1>5. \A t \in Alarms :
        /\ IsPending(ctx, t) <=> alarmclk[t] # CLOCK_MAX
        /\ IsPending(ctx, t) =>
             /\ DueClk(ctx, t) <= LatestDue /\ alarmclk[t] <= clk + 2 * Period
             /\ alarmclk[t] + clk <= DueClk(ctx, t) + clk
             /\ t \in ViaTimers => alarmclk[t] + clk = DueClk(ctx, t) + clk
  BY <1>1 DEF DriveInv, TimerFits
<1>6. \A t \in Alarms : IsPending(ctx, t) =>
        /\ alarmclk[t] <= DueClk(ctx, t)
        /\ t \in ViaTimers => alarmclk[t] = DueClk(ctx, t)
  BY <1>2, <1>3, <1>4, <1>5
<1>7. \/ CacheIsEarliest(ctx)
      \/ \A t \in Alarms : IsPending(ctx, t) => alarmclk[t] <= clk + Period
  BY <1>1 DEF DriveInv, CacheFits
<1>8. serving \/ ctx.next_clk + MaxCycles > clk
  BY <1>1, GuardStages DEF DriveInv, NothingOverdue
<1>9. clk <= CLOCK_MAX
  BY <1>2, DriveNumbers
<1> QED
  BY <1>2, <1>3, <1>4, <1>5, <1>6, <1>7, <1>8, <1>9

\* What a step that ends outside the guard must leave.
LEMMA OutsideGuardNext ==
  ASSUME todo' = <<>>, clk' \in Nat, clk' <= LatestClk, serving' \in BOOLEAN,
         alarmclk' \in [Alarms -> Clock], Whole(ctx'), NotLate(ctx'),
         \A t \in Alarms :
           /\ IsPending(ctx', t) <=> alarmclk'[t] # CLOCK_MAX
           /\ IsPending(ctx', t) =>
                /\ DueClk(ctx', t) <= LatestDue
                /\ alarmclk'[t] <= clk' + 2 * Period /\ alarmclk'[t] <= DueClk(ctx', t)
                /\ t \in ViaTimers => alarmclk'[t] = DueClk(ctx', t),
         \/ CacheIsEarliest(ctx')
         \/ \A t \in Alarms : IsPending(ctx', t) => alarmclk'[t] <= clk' + Period,
         serving' \/ ctx'.next_clk + MaxCycles > clk'
  PROVE  DriveInv'
<1>1. TableClk' = clk' /\ \A t \in Alarms : CopyClk(t)' = clk'
  BY GuardStages DEF TableClk, CopyClk
<1>2. \A t \in Alarms : alarmclk'[t] \in Nat
  BY ClockAssumption DEF Clock
<1>3. \A t \in Alarms : IsPending(ctx', t) => DueClk(ctx', t) \in Nat
  BY DueFacts
<1>4. \A t \in Alarms : IsPending(ctx', t) =>
        /\ alarmclk'[t] + clk' <= DueClk(ctx', t) + clk'
        /\ t \in ViaTimers => alarmclk'[t] + clk' = DueClk(ctx', t) + clk'
  BY <1>2, <1>3
<1>5. \A t \in Alarms : TimerFits(t)'
  BY <1>1, <1>4 DEF TimerFits
<1>6. CacheFits'
  BY <1>1 DEF CacheFits
<1>7. NothingOverdue'
  BY <1>1, GuardStages DEF NothingOverdue
<1>8. ClockInRange'
  BY DEF ClockInRange
<1> QED
  BY <1>5, <1>6, <1>7, <1>8 DEF DriveInv

\* A call for one timer, made by the loop or by the drive's program.
LEMMA TimerStep ==
  ASSUME DriveInv, todo = <<>>, todo' = <<>>, clk' = clk, serving' \in BOOLEAN,
         NEW t \in Alarms, Kept(ctx, ctx'), OthersKept(ctx, ctx', t),
         alarmclk' \in [Alarms -> Clock],
         \A u \in Alarms \ {t} : alarmclk'[u] = alarmclk[u],
         IsPending(ctx', t) <=> alarmclk'[t] # CLOCK_MAX,
         IsPending(ctx', t) => /\ DueClk(ctx', t) = alarmclk'[t]
                               /\ alarmclk'[t] <= clk + 2 * Period,
         CacheIsEarliest(ctx') \/ (IsPending(ctx', t) => alarmclk'[t] <= clk + Period),
         serving' \/ (~ serving /\ (IsPending(ctx', t) => alarmclk'[t] >= clk))
  PROVE  DriveInv'
<1>1. /\ clk \in Nat /\ clk <= LatestClk /\ clk <= CLOCK_MAX /\ Whole(ctx) /\ NotLate(ctx)
      /\ Whole(ctx') /\ NotLate(ctx')
  BY OutsideGuard DEF Kept
<1>2. alarmclk'[t] \in Nat
  BY ClockAssumption DEF Clock
<1>3. \A u \in Alarms \ {t} :
        /\ IsPending(ctx', u) <=> alarmclk'[u] # CLOCK_MAX
        /\ IsPending(ctx', u) =>
             /\ IsPending(ctx, u) /\ DueClk(ctx', u) <= LatestDue
             /\ alarmclk'[u] <= clk + 2 * Period /\ alarmclk'[u] <= DueClk(ctx', u)
             /\ u \in ViaTimers => alarmclk'[u] = DueClk(ctx', u)
  BY OutsideGuard DEF OthersKept
<1>4. IsPending(ctx', t) => DueClk(ctx', t) <= LatestDue /\ alarmclk'[t] <= DueClk(ctx', t)
  BY <1>1, <1>2, DriveNumbers
<1>5. \/ CacheIsEarliest(ctx')
      \/ \A u \in Alarms : IsPending(ctx', u) => alarmclk'[u] <= clk + Period
  <2>1. CASE CacheIsEarliest(ctx)
    BY <2>1 DEF Kept
  <2>2. CASE ~ CacheIsEarliest(ctx)
    <3>1. \A u \in Alarms \ {t} : IsPending(ctx', u) => alarmclk'[u] <= clk + Period
      BY <2>2, <1>3, OutsideGuard
    <3> QED
      BY <3>1
  <2> QED
    BY <2>1, <2>2
<1>6. serving' \/ ctx'.next_clk + MaxCycles > clk
  <2> SUFFICES ASSUME ~ serving'
               PROVE  ctx'.next_clk + MaxCycles > clk
    OBVIOUS
  <2>1. ctx.next_clk + MaxCycles > clk
    BY OutsideGuard
  <2>2. IsPending(ctx', t) => DueClk(ctx', t) + MaxCycles > clk
    BY <1>1, <1>2, DriveNumbers
  <2> QED
    BY <1>1, <2>1, <2>2, DriveNumbers, CacheStaysLate
<1>7. \A u \in Alarms :
        /\ IsPending(ctx', u) <=> alarmclk'[u] # CLOCK_MAX
        /\ IsPending(ctx', u) =>
             /\ DueClk(ctx', u) <= LatestDue
             /\ alarmclk'[u] <= clk' + 2 * Period /\ alarmclk'[u] <= DueClk(ctx', u)
             /\ u \in ViaTimers => alarmclk'[u] = DueClk(ctx', u)
  BY <1>3, <1>4
<1> QED
  BY <1>1, <1>5, <1>6, <1>7, OutsideGuardNext

-----------------------------------------------------------------------------
\* The first state: no alarm, and a cached clock that never comes.
LEMMA DriveInit ==
  ASSUME Init
  PROVE  DriveInv
<1>1. PICK g \in -1 .. 1 : ctx = alarm_context_init(g)
  BY DEF Init
<1>2. Whole(ctx) /\ CacheIsEarliest(ctx) /\ NotLate(ctx)
  BY <1>1, InitConsistent, RightIsNotLate DEF Consistent, Whole
<1>3. ctx.num = 0 /\ ctx.next_clk = CLOCK_MAX /\ \A t \in Alarms : ~ IsPending(ctx, t)
  BY <1>1 DEF alarm_context_init, IsPending
<1>4. alarmclk \in [Alarms -> Clock] /\ \A t \in Alarms : alarmclk[t] = CLOCK_MAX
  BY ClockAssumption DEF Init, Clock
<1>5. todo = <<>> /\ TableClk = clk /\ serving = FALSE /\ clk = 6
  BY GuardStages DEF Init, TableClk
<1>6. ClockInRange
  BY <1>5, DriveNumbers DEF ClockInRange
<1>7. NothingOverdue
  BY <1>3, <1>5, DriveNumbers, GuardStages DEF NothingOverdue
<1> QED
  BY <1>2, <1>3, <1>4, <1>5, <1>6, <1>7 DEF DriveInv, TimerFits, CacheFits

\* An instruction moves the clock to less than its length past the cached clock.
LEMMA InstructionInv ==
  ASSUME DriveInv, NEW n \in 1 .. MaxCycles, Instruction(n)
  PROVE  DriveInv'
<1>1. /\ todo = <<>> /\ clk' = clk + n /\ serving' = FALSE
      /\ UNCHANGED <<ctx, alarmclk, todo>> /\ ~ MustDispatch(ctx, clk)
      /\ ~ NeedsSubtraction(clk - FrameCycles)
  BY DEF Instruction, Continues
<1>2. clk \in Nat /\ n \in Nat /\ n <= MaxCycles /\ ctx.next_clk \in Nat
  BY <1>1, OutsideGuard, DriveNumbers, ContextFacts DEF Whole
<1>3. clk < ctx.next_clk /\ clk - FrameCycles < ClkMaxValue
  BY <1>1, <1>2, DriveNumbers DEF MustDispatch, NeedsSubtraction
<1>4. clk' \in Nat /\ clk' <= LatestClk /\ clk <= clk' /\ ctx.next_clk + MaxCycles > clk'
  BY ONLY <1>1, <1>2, <1>3, DriveNumbers
<1>5. \A t \in Alarms : IsPending(ctx, t) => alarmclk[t] <= clk' + 2 * Period
  <2> SUFFICES ASSUME NEW t \in Alarms, IsPending(ctx, t)
               PROVE  alarmclk[t] <= clk' + 2 * Period
    OBVIOUS
  <2>1. alarmclk[t] \in Nat /\ alarmclk[t] <= clk + 2 * Period
    BY <1>1, OutsideGuard
  <2> QED
    BY ONLY <2>1, <1>2, <1>4, DriveNumbers
<1>6. \/ CacheIsEarliest(ctx)
      \/ \A t \in Alarms : IsPending(ctx, t) => alarmclk[t] <= clk' + Period
  <2>1. CASE CacheIsEarliest(ctx)
    BY <2>1
  <2>2. ASSUME ~ CacheIsEarliest(ctx), NEW t \in Alarms, IsPending(ctx, t)
        PROVE  alarmclk[t] <= clk' + Period
    <3>1. alarmclk[t] \in Nat /\ alarmclk[t] <= clk + Period
      BY <1>1, <2>2, OutsideGuard
    <3> QED
      BY ONLY <3>1, <1>2, <1>4, DriveNumbers
  <2> QED
    BY <2>1, <2>2
<1>7. /\ todo' = <<>> /\ serving' \in BOOLEAN /\ alarmclk' \in [Alarms -> Clock]
      /\ Whole(ctx') /\ NotLate(ctx')
  BY <1>1, OutsideGuard
<1>8. \A t \in Alarms :
        /\ IsPending(ctx', t) <=> alarmclk'[t] # CLOCK_MAX
        /\ IsPending(ctx', t) =>
             /\ DueClk(ctx', t) <= LatestDue
             /\ alarmclk'[t] <= clk' + 2 * Period /\ alarmclk'[t] <= DueClk(ctx', t)
             /\ t \in ViaTimers => alarmclk'[t] = DueClk(ctx', t)
  BY <1>1, <1>5, OutsideGuard
<1> QED
  BY <1>1, <1>4, <1>6, <1>7, <1>8, OutsideGuardNext

\* The drive's program starts a timer.
LEMMA StartTimerInv ==
  ASSUME DriveInv, NEW t \in Alarms, NEW cycles \in 1 .. Period, StartTimer(t, cycles)
  PROVE  DriveInv'
<1>1. /\ todo = <<>> /\ ~ serving /\ alarmclk' = [alarmclk EXCEPT ![t] = clk + cycles]
      /\ ctx' = alarm_set(ctx, t, clk + cycles) /\ UNCHANGED <<clk, serving, todo>>
  BY DEF StartTimer
<1>2. /\ clk \in Nat /\ clk <= LatestClk /\ Whole(ctx) /\ NotLate(ctx)
      /\ alarmclk \in [Alarms -> Clock] /\ serving \in BOOLEAN
  BY <1>1, OutsideGuard
<1>3. /\ clk + cycles \in Nat /\ clk + cycles < CLOCK_MAX /\ clk + cycles >= clk
      /\ clk + cycles <= clk + Period /\ clk + cycles <= clk + 2 * Period
  BY ONLY <1>2, DriveNumbers, cycles \in 1 .. Period
<1>4. /\ Kept(ctx, ctx') /\ OthersKept(ctx, ctx', t) /\ IsPending(ctx', t)
      /\ DueClk(ctx', t) = clk + cycles
  BY <1>1, <1>2, <1>3, Arming
<1>5. clk + cycles \in Clock
  BY <1>3, NoWrap, ClockAssumption
<1>6. /\ alarmclk' \in [Alarms -> Clock] /\ alarmclk'[t] = clk + cycles
      /\ \A u \in Alarms \ {t} : alarmclk'[u] = alarmclk[u]
  BY <1>1, <1>2, <1>5
<1>7. alarmclk'[t] # CLOCK_MAX
  BY ONLY <1>3, <1>6, DriveNumbers
<1> QED
  BY <1>1, <1>2, <1>3, <1>4, <1>6, <1>7, TimerStep

\* It stops one.
LEMMA StopTimerInv ==
  ASSUME DriveInv, NEW t \in Alarms, StopTimer(t)
  PROVE  DriveInv'
<1>1. /\ todo = <<>> /\ ~ serving /\ alarmclk' = [alarmclk EXCEPT ![t] = CLOCK_MAX]
      /\ ctx' = alarm_unset(ctx, t) /\ UNCHANGED <<clk, serving, todo>>
  BY DEF StopTimer
<1>2. Whole(ctx) /\ NotLate(ctx) /\ alarmclk \in [Alarms -> Clock] /\ serving \in BOOLEAN
  BY <1>1, OutsideGuard
<1>3. Kept(ctx, ctx') /\ OthersKept(ctx, ctx', t) /\ ~ IsPending(ctx', t)
  BY <1>1, <1>2, UnsetKeeps, UnsetEffect
<1>4. CLOCK_MAX \in Clock
  BY NoWrap, ClockAssumption
<1>5. /\ alarmclk' \in [Alarms -> Clock] /\ alarmclk'[t] = CLOCK_MAX
      /\ \A u \in Alarms \ {t} : alarmclk'[u] = alarmclk[u]
  BY <1>1, <1>2, <1>4
<1> QED
  BY <1>1, <1>2, <1>3, <1>5, TimerStep

\* The loop serves the cached slot, the earliest one or, once after an empty table was
\* warped, another; from then on the cache is right.
LEMMA DispatchInv ==
  ASSUME DriveInv, Dispatch
  PROVE  DriveInv'
<1> DEFINE t == ctx.alarm[ctx.next_idx]
           x == alarmclk[t] + Period
<1>1. /\ todo = <<>> /\ MustDispatch(ctx, clk) /\ ctx.next_idx \in Slots(ctx)
      /\ Underflow(t) /\ serving' = TRUE /\ UNCHANGED <<clk, todo>>
  BY DEF Dispatch, Continues, alarm_context_dispatch
<1>2. /\ clk \in Nat /\ clk <= LatestClk /\ Whole(ctx) /\ NotLate(ctx)
      /\ alarmclk \in [Alarms -> Clock] /\ ctx.next_clk \in Nat
  BY <1>1, OutsideGuard, ContextFacts DEF Whole
<1>3. /\ t \in Alarms /\ IsPending(ctx, t) /\ ctx.pending_idx[t] = ctx.next_idx
      /\ DueClk(ctx, t) = ctx.clk[ctx.next_idx]
  BY <1>1, <1>2, SlotFacts
<1>4. alarmclk[t] \in Nat /\ alarmclk[t] <= DueClk(ctx, t) /\ DueClk(ctx, t) \in Nat
  BY <1>1, <1>3, OutsideGuard
<1>5. alarmclk[t] <= clk + Period
  <2>1. CASE CacheIsEarliest(ctx)
    <3>1. DueClk(ctx, t) = ctx.next_clk /\ ctx.next_clk <= clk
      BY <1>1, <1>3, <2>1 DEF CacheIsEarliest, MustDispatch, Slots
    <3> QED
      BY ONLY <1>2, <1>4, <3>1, DriveNumbers
  <2>2. CASE ~ CacheIsEarliest(ctx)
    BY <1>1, <1>3, <2>2, OutsideGuard
  <2> QED
    BY <2>1, <2>2
<1> HIDE DEF t
<1>6. x \in Nat /\ x < CLOCK_MAX /\ x <= clk + 2 * Period /\ Wrap(x) = x /\ x \in Clock
  <2>1. x \in Nat /\ x < CLOCK_MAX /\ x <= clk + 2 * Period
    BY ONLY <1>2, <1>4, <1>5, DriveNumbers
  <2> QED
    BY <2>1, NoWrap, ClockAssumption
<1> HIDE DEF x
<1>7. alarmclk' = [alarmclk EXCEPT ![t] = x] /\ ctx' = alarm_set(alarm_unset(ctx, t), t, x)
  BY <1>1, <1>6 DEF Underflow, x
<1>8. /\ Kept(ctx, ctx') /\ OthersKept(ctx, ctx', t) /\ IsPending(ctx', t)
      /\ DueClk(ctx', t) = x /\ CacheIsEarliest(ctx')
  BY <1>2, <1>3, <1>6, <1>7, Rearming
<1>9. /\ alarmclk' \in [Alarms -> Clock] /\ alarmclk'[t] = x /\ x # CLOCK_MAX
      /\ \A u \in Alarms \ {t} : alarmclk'[u] = alarmclk[u]
  BY <1>2, <1>3, <1>6, <1>7, DriveNumbers
<1> QED
  BY <1>1, <1>3, <1>6, <1>8, <1>9, TimerStep

-----------------------------------------------------------------------------
\* The guard: the clock goes back; table and chips are still on the old scale.
LEMMA GuardInv ==
  ASSUME DriveInv, clk_guard_prevent_overflow
  PROVE  DriveInv'
<1>1. /\ todo = <<>> /\ ~ serving /\ clk >= ClkMaxValue /\ clk' = clk - sub /\ todo' = Callbacks
      /\ UNCHANGED <<ctx, alarmclk, serving>>
  BY DEF clk_guard_prevent_overflow, NeedsSubtraction
<1>2. clk \in Nat /\ clk <= LatestClk
  BY <1>1, OutsideGuard
<1>3. clk' \in Nat /\ clk' + sub = clk
  BY ONLY <1>1, <1>2, DriveNumbers
<1>4. /\ TableClk = clk /\ TableClk' = clk
      /\ \A t \in Alarms : CopyClk(t) = clk /\ CopyClk(t)' = clk
  BY <1>1, <1>3, GuardStages DEF TableClk, CopyClk, sub
<1>5. ClockInRange'
  BY <1>1, <1>2, <1>3, GuardStages DEF ClockInRange, sub
<1>6. \A t \in Alarms : TimerFits(t)'
  BY <1>1, <1>4 DEF DriveInv, TimerFits
<1>7. CacheFits'
  BY <1>1, <1>4 DEF DriveInv, CacheFits
<1>8. NothingOverdue'
  BY <1>1, <1>4, GuardStages DEF DriveInv, NothingOverdue
<1> QED
  BY <1>1, <1>5, <1>6, <1>7, <1>8 DEF DriveInv

\* What the invariant says inside the guard of the clocks and of what a chip keeps.
LEMMA InsideGuard ==
  ASSUME DriveInv, todo # <<>>
  PROVE  /\ clk \in Nat /\ clk + sub <= LatestClk /\ ClkMaxValue <= clk + sub /\ ~ serving
         /\ clk <= CLOCK_MAX /\ Wrap(clk + sub) = clk + sub
         /\ Whole(ctx) /\ NotLate(ctx) /\ ctx.next_clk \in Nat
         /\ alarmclk \in [Alarms -> Clock] /\ serving \in BOOLEAN
         /\ \A t \in Alarms :
              /\ alarmclk[t] \in Nat /\ alarmclk[t] <= CLOCK_MAX
              /\ IsPending(ctx, t) => DueClk(ctx, t) \in Nat /\ ctx.next_clk <= DueClk(ctx, t)
<1>1. /\ clk \in Nat /\ clk + sub <= LatestClk /\ ClkMaxValue <= clk + sub /\ ~ serving
      /\ Whole(ctx) /\ NotLate(ctx) /\ alarmclk \in [Alarms -> Clock] /\ serving \in BOOLEAN
  BY DEF DriveInv, ClockInRange
<1>2. ctx.next_clk \in Nat
  BY <1>1, ContextFacts DEF Whole
<1>3. clk <= CLOCK_MAX /\ clk + sub \in Nat /\ clk + sub <= CLOCK_MAX
  BY ONLY <1>1, DriveNumbers
<1>4. Wrap(clk + sub) = clk + sub
  BY <1>3, NoWrap
<1>5. \A t \in Alarms : alarmclk[t] \in Nat /\ alarmclk[t] <= CLOCK_MAX
  BY <1>1, ClockAssumption DEF Clock
<1>6. \A t \in Alarms :
        IsPending(ctx, t) => DueClk(ctx, t) \in Nat /\ ctx.next_clk <= DueClk(ctx, t)
  BY <1>1, DueFacts
<1> QED
  BY <1>1, <1>2, <1>3, <1>4, <1>5, <1>6

\* The table's callback: every due clock and the cached one go back, none below zero.
LEMMA WarpInv ==
  ASSUME DriveInv, drive_clk_overflow_callback
  PROVE  DriveInv'
<1>1. /\ todo = Callbacks /\ todo' = Tail(Callbacks)
      /\ ctx' = alarm_context_time_warp(ctx, sub) /\ UNCHANGED <<clk, alarmclk, serving>>
  BY GuardStages DEF drive_clk_overflow_callback, Callback, DriveInv
<1>2. /\ clk \in Nat /\ clk + sub <= LatestClk /\ ClkMaxValue <= clk + sub /\ ~ serving
      /\ Whole(ctx) /\ NotLate(ctx) /\ ctx.next_clk \in Nat
      /\ alarmclk \in [Alarms -> Clock] /\ serving \in BOOLEAN
  BY <1>1, InsideGuard, GuardStages
<1>3. /\ TableClk = clk + sub /\ TableClk' = clk
      /\ \A t \in Alarms : CopyClk(t) = clk + sub /\ CopyClk(t)' = clk + sub
  BY <1>1, GuardStages DEF TableClk, CopyClk, sub
<1>4. ctx.next_clk + MaxCycles > clk + sub
  BY <1>1, <1>2, <1>3, GuardStages DEF DriveInv, NothingOverdue
<1>5. sub \in Nat /\ sub <= ctx.next_clk
  BY ONLY <1>2, <1>4, DriveNumbers
<1>6. /\ Whole(ctx') /\ NotLate(ctx') /\ ctx'.num = ctx.num
      /\ ctx'.pending_idx = ctx.pending_idx /\ ctx'.next_clk = ctx.next_clk - sub
      /\ \A i \in Slots(ctx) : ctx'.clk[i] = ctx.clk[i] - sub
      /\ CacheIsEarliest(ctx) /\ ctx.num # 0 => CacheIsEarliest(ctx')
  BY <1>1, <1>2, <1>5, WarpKeeps
<1>7. \A t \in Alarms :
        /\ IsPending(ctx', t) <=> IsPending(ctx, t)
        /\ IsPending(ctx, t) => DueClk(ctx', t) = DueClk(ctx, t) - sub
  BY <1>2, <1>6 DEF IsPending, DueClk, Whole, SlotsMatch
<1>8. \A t \in Alarms : IsPending(ctx, t) =>
        /\ DueClk(ctx, t) - sub <= LatestDue
        /\ alarmclk[t] + clk <= (DueClk(ctx, t) - sub) + (clk + sub)
        /\ t \in ViaTimers => alarmclk[t] + clk = (DueClk(ctx, t) - sub) + (clk + sub)
        /\ (DueClk(ctx, t) - sub) + MaxCycles > clk
  <2> SUFFICES ASSUME NEW t \in Alarms, IsPending(ctx, t)
               PROVE  /\ DueClk(ctx, t) - sub <= LatestDue
                      /\ alarmclk[t] + clk <= (DueClk(ctx, t) - sub) + (clk + sub)
                      /\ t \in ViaTimers => alarmclk[t] + clk = (DueClk(ctx, t) - sub) + (clk + sub)
                      /\ (DueClk(ctx, t) - sub) + MaxCycles > clk
    OBVIOUS
  <2>1. /\ DueClk(ctx, t) \in Nat /\ ctx.next_clk <= DueClk(ctx, t) /\ alarmclk[t] \in Nat
    BY <1>1, InsideGuard, GuardStages
  <2>2. /\ DueClk(ctx, t) <= LatestDue
        /\ alarmclk[t] + (clk + sub) <= DueClk(ctx, t) + (clk + sub)
        /\ t \in ViaTimers => alarmclk[t] + (clk + sub) = DueClk(ctx, t) + (clk + sub)
    BY <1>3 DEF DriveInv, TimerFits
  <2> QED
    BY ONLY <1>2, <1>4, <2>1, <2>2, DriveNumbers
<1>9. \A t \in Alarms : TimerFits(t)'
  BY <1>1, <1>3, <1>7, <1>8 DEF DriveInv, TimerFits
<1>10. CacheFits'
  <2>1. CASE ctx.num = 0
    BY <1>2, <1>7, <2>1, DueFacts DEF CacheFits
  <2>2. CASE ctx.num # 0
    BY <1>1, <1>3, <1>6, <1>7, <2>2 DEF DriveInv, CacheFits
  <2> QED
    BY <2>1, <2>2
<1>11. NothingOverdue'
  <2>1. ctx'.next_clk + MaxCycles > clk
    BY ONLY <1>2, <1>4, <1>6, DriveNumbers
  <2> QED
    BY <1>1, <1>7, <1>8, <2>1 DEF NothingOverdue
<1>12. ClockInRange'
  BY <1>1, <1>2, GuardStages DEF ClockInRange, sub
<1> QED
  BY <1>1, <1>2, <1>6, <1>9, <1>10, <1>11, <1>12 DEF DriveInv

\* While the chips that catch up are still to subtract.
LEMMA CiaStage ==
  ASSUME DriveInv, todo = Tail(Callbacks)
  PROVE  /\ TableClk = clk /\ \A t \in Alarms : CopyClk(t) = clk + sub
         /\ CacheIsEarliest(ctx) \/ ctx.next_clk + MaxCycles > clk
         /\ \A t \in Alarms : IsPending(ctx, t) =>
              \/ DueClk(ctx, t) + MaxCycles > clk
              \/ t \in CiaTimers /\ alarmclk[t] <= clk + sub
<1>1. TableClk = clk /\ \A t \in Alarms : CopyClk(t) = clk + sub
  BY GuardStages DEF TableClk, CopyClk
<1> QED
  BY <1>1 DEF DriveInv, NothingOverdue

\* A chip catches up with the clock as it was: the table is given a clock from before
\* the subtraction, later than it should be.
LEMMA CatchUpInv ==
  ASSUME DriveInv, NEW t \in CiaTimers, CatchUp(t)
  PROVE  DriveInv'
<1> DEFINE x == alarmclk[t] + Period
<1>1. /\ todo = Tail(Callbacks) /\ todo # <<>> /\ t \in Alarms /\ alarmclk[t] <= Wrap(clk + sub)
      /\ Underflow(t) /\ UNCHANGED <<clk, serving, todo>>
  BY GuardStages, DriveAlarmsAssumption DEF CatchUp, Callback, DriveInv
<1>2. /\ clk \in Nat /\ clk + sub <= LatestClk /\ Whole(ctx) /\ NotLate(ctx)
      /\ ctx.next_clk \in Nat /\ alarmclk \in [Alarms -> Clock] /\ serving \in BOOLEAN
      /\ alarmclk[t] \in Nat /\ alarmclk[t] <= clk + sub
  BY <1>1, InsideGuard
<1>3. /\ x \in Nat /\ x < CLOCK_MAX /\ x <= LatestDue /\ x <= (clk + sub) + Period
      /\ x <= (clk + sub) + 2 * Period /\ x + clk <= x + (clk + sub)
      /\ x > clk + sub => x + MaxCycles > clk
  BY ONLY <1>2, DriveNumbers
<1>4. Wrap(x) = x /\ x \in Clock
  BY <1>3, NoWrap, ClockAssumption
<1> HIDE DEF x
<1>5. alarmclk' = [alarmclk EXCEPT ![t] = x] /\ ctx' = alarm_set(alarm_unset(ctx, t), t, x)
  BY <1>1, <1>4 DEF Underflow, x
<1>6. Kept(ctx, ctx') /\ OthersKept(ctx, ctx', t) /\ IsPending(ctx', t) /\ DueClk(ctx', t) = x
  BY <1>1, <1>2, <1>3, <1>5, Rearming
<1>7. /\ alarmclk' \in [Alarms -> Clock] /\ alarmclk'[t] = x /\ x # CLOCK_MAX
      /\ \A u \in Alarms \ {t} : alarmclk'[u] = alarmclk[u]
  BY <1>1, <1>2, <1>3, <1>4, <1>5, DriveNumbers
<1>8. /\ TableClk' = clk /\ \A u \in Alarms : CopyClk(u)' = clk + sub
  BY <1>1, GuardStages DEF TableClk, CopyClk, sub
<1>9. t \notin ViaTimers
  BY DriveAlarmsAssumption
<1>10. \A u \in Alarms : TimerFits(u)'
  <2>1. TimerFits(t)'
    BY <1>1, <1>3, <1>6, <1>7, <1>8, <1>9 DEF TimerFits
  <2>2. ASSUME NEW u \in Alarms \ {t}
        PROVE  TimerFits(u)'
    <3>1. TimerFits(u) /\ TableClk = clk /\ CopyClk(u) = clk + sub
      BY <1>1, CiaStage DEF DriveInv
    <3> QED
      BY <1>6, <1>7, <1>8, <3>1 DEF TimerFits, OthersKept
  <2> QED
    BY <2>1, <2>2
<1>11. CacheFits'
  <2>1. CASE CacheIsEarliest(ctx)
    BY <1>6, <2>1 DEF Kept, CacheFits
  <2>2. CASE ~ CacheIsEarliest(ctx)
    <3>1. \A u \in Alarms : IsPending(ctx, u) => alarmclk[u] <= (clk + sub) + Period
      BY <1>1, <2>2, CiaStage DEF DriveInv, CacheFits
    <3>2. \A u \in Alarms : IsPending(ctx', u) => alarmclk'[u] <= (clk + sub) + Period
      BY <1>3, <1>6, <1>7, <3>1 DEF OthersKept
    <3> QED
      BY <1>8, <3>2 DEF CacheFits
  <2> QED
    BY <2>1, <2>2
<1>12. NothingOverdue'
  <2>1. CacheIsEarliest(ctx') \/ ctx'.next_clk + MaxCycles > clk
    BY <1>1, <1>6, CiaStage DEF Kept
  <2>2. x + MaxCycles > clk \/ x <= clk + sub
    BY ONLY <1>2, <1>3, DriveNumbers
  <2>3. \A u \in Alarms : IsPending(ctx', u) =>
          \/ DueClk(ctx', u) + MaxCycles > clk
          \/ u \in CiaTimers /\ alarmclk'[u] <= clk + sub
    BY <1>1, <1>6, <1>7, <2>2, CiaStage DEF OthersKept
  <2> QED
    BY <1>1, <2>1, <2>3 DEF NothingOverdue, sub
<1>13. ClockInRange'
  BY <1>1 DEF DriveInv, ClockInRange, sub
<1> QED
  BY <1>1, <1>2, <1>6, <1>7, <1>10, <1>11, <1>12, <1>13 DEF DriveInv, Kept

\* Subtracting from the copies of some chips' timers, none of which lies below the amount.
LEMMA SubtractedFrom ==
  ASSUME alarmclk \in [Alarms -> Clock], NEW T, T \subseteq Alarms,
         \A t \in T : alarmclk[t] = CLOCK_MAX \/ sub <= alarmclk[t]
  PROVE  /\ Subtracted(T) \in [Alarms -> Clock]
         /\ \A t \in T : alarmclk[t] # CLOCK_MAX => Subtracted(T)[t] = alarmclk[t] - sub
         /\ \A t \in Alarms \ T : Subtracted(T)[t] = alarmclk[t]
         /\ \A t \in Alarms : Subtracted(T)[t] = CLOCK_MAX <=> alarmclk[t] = CLOCK_MAX
<1>1. \A t \in Alarms : alarmclk[t] \in Nat /\ alarmclk[t] <= CLOCK_MAX
  BY ClockAssumption DEF Clock
<1>2. \A t \in T : alarmclk[t] # CLOCK_MAX =>
        /\ alarmclk[t] < CLOCK_MAX
        /\ Wrap(alarmclk[t] - sub) = alarmclk[t] - sub /\ alarmclk[t] - sub \in Clock
        /\ alarmclk[t] - sub # CLOCK_MAX
  <2> SUFFICES ASSUME NEW t \in T, alarmclk[t] # CLOCK_MAX
               PROVE  /\ alarmclk[t] < CLOCK_MAX
                      /\ Wrap(alarmclk[t] - sub) = alarmclk[t] - sub
                      /\ alarmclk[t] - sub \in Clock /\ alarmclk[t] - sub # CLOCK_MAX
    OBVIOUS
  <2>1. alarmclk[t] \in Nat /\ alarmclk[t] <= CLOCK_MAX /\ sub <= alarmclk[t]
    BY <1>1
  <2>2. /\ alarmclk[t] < CLOCK_MAX /\ alarmclk[t] - sub \in Nat
        /\ alarmclk[t] - sub <= CLOCK_MAX /\ alarmclk[t] - sub # CLOCK_MAX
    BY ONLY <2>1, alarmclk[t] # CLOCK_MAX, DriveNumbers
  <2> QED
    BY <2>2, NoWrap
<1>3. \A t \in Alarms :
        /\ t \in T /\ alarmclk[t] < CLOCK_MAX => Subtracted(T)[t] = Wrap(alarmclk[t] - sub)
        /\ ~ (t \in T /\ alarmclk[t] < CLOCK_MAX) => Subtracted(T)[t] = alarmclk[t]
  BY Zenon DEF Subtracted
<1>4. \A t \in T : alarmclk[t] # CLOCK_MAX => Subtracted(T)[t] = alarmclk[t] - sub
  BY <1>2, <1>3
<1>5. \A t \in Alarms : t \notin T \/ alarmclk[t] = CLOCK_MAX => Subtracted(T)[t] = alarmclk[t]
  <2> SUFFICES ASSUME NEW t \in Alarms, t \notin T \/ alarmclk[t] = CLOCK_MAX
               PROVE  ~ (t \in T /\ alarmclk[t] < CLOCK_MAX)
    BY <1>3
  <2> QED
    BY ClockAssumption
<1>6. Subtracted(T) = [t \in Alarms |-> Subtracted(T)[t]]
  BY DEF Subtracted
<1>7. \A t \in Alarms : Subtracted(T)[t] \in Clock
  <2> SUFFICES ASSUME NEW t \in Alarms
               PROVE  Subtracted(T)[t] \in Clock
    OBVIOUS
  <2>1. CASE t \in T /\ alarmclk[t] # CLOCK_MAX
    BY <1>2, <1>4, <2>1
  <2>2. CASE t \notin T \/ alarmclk[t] = CLOCK_MAX
    BY <1>5, <2>2
  <2> QED
    BY <2>1, <2>2
<1>8. \A t \in Alarms : Subtracted(T)[t] = CLOCK_MAX <=> alarmclk[t] = CLOCK_MAX
  <2> SUFFICES ASSUME NEW t \in Alarms
               PROVE  Subtracted(T)[t] = CLOCK_MAX <=> alarmclk[t] = CLOCK_MAX
    OBVIOUS
  <2>1. CASE t \in T /\ alarmclk[t] # CLOCK_MAX
    BY <1>2, <1>4, <2>1
  <2>2. CASE t \notin T \/ alarmclk[t] = CLOCK_MAX
    BY <1>5, <2>2
  <2> QED
    BY <2>1, <2>2
<1> QED
  BY <1>4, <1>5, <1>6, <1>7, <1>8

\* Chips that catch up subtract once nothing of theirs is due any more.
LEMMA CiaInv ==
  ASSUME DriveInv, ciacore_clk_overflow_callback
  PROVE  DriveInv'
<1>1. /\ todo = Tail(Callbacks) /\ todo' = Tail(Tail(Callbacks)) /\ todo # <<>>
      /\ \A t \in CiaTimers : alarmclk[t] > Wrap(clk + sub)
      /\ alarmclk' = Subtracted(CiaTimers) /\ UNCHANGED <<clk, ctx, serving>>
  BY GuardStages DEF ciacore_clk_overflow_callback, Callback, DriveInv
<1>2. /\ clk \in Nat /\ clk + sub <= LatestClk /\ ClkMaxValue <= clk + sub /\ ~ serving
      /\ clk <= CLOCK_MAX /\ Whole(ctx) /\ NotLate(ctx) /\ ctx.next_clk \in Nat
      /\ alarmclk \in [Alarms -> Clock] /\ serving \in BOOLEAN
      /\ \A t \in Alarms : alarmclk[t] \in Nat
  BY <1>1, InsideGuard
<1>3. \A t \in CiaTimers : alarmclk[t] > clk + sub /\ alarmclk[t] \in Nat /\ sub <= alarmclk[t]
  <2>1. \A t \in CiaTimers : alarmclk[t] > clk + sub /\ alarmclk[t] \in Nat
    BY <1>1, InsideGuard, DriveAlarmsAssumption
  <2>2. \A n \in Nat : n > clk + sub => sub <= n
    BY ONLY <1>2, DriveNumbers
  <2> QED
    BY <2>1, <2>2
<1>4. /\ alarmclk' \in [Alarms -> Clock]
      /\ \A t \in CiaTimers : alarmclk[t] # CLOCK_MAX => alarmclk'[t] = alarmclk[t] - sub
      /\ \A t \in ViaTimers : alarmclk'[t] = alarmclk[t]
      /\ \A t \in Alarms : alarmclk'[t] = CLOCK_MAX <=> alarmclk[t] = CLOCK_MAX
  <2>1. CiaTimers \subseteq Alarms /\ Alarms = CiaTimers \cup ViaTimers /\ CiaTimers \cap ViaTimers = {}
    BY DriveAlarmsAssumption
  <2>2. \A t \in CiaTimers : alarmclk[t] = CLOCK_MAX \/ sub <= alarmclk[t]
    BY <1>3, <2>1
  <2> QED
    BY <1>1, <1>2, <2>1, <2>2, SubtractedFrom
<1>5. /\ TableClk' = clk /\ \A t \in CiaTimers : CopyClk(t)' = clk
      /\ \A t \in ViaTimers : CopyClk(t)' = clk + sub
  BY <1>1, GuardStages, DriveAlarmsAssumption DEF TableClk, CopyClk, sub
<1>6. \A t \in Alarms :
        /\ IsPending(ctx, t) <=> alarmclk[t] # CLOCK_MAX
        /\ IsPending(ctx, t) =>
             /\ DueClk(ctx, t) \in Nat /\ DueClk(ctx, t) <= LatestDue
             /\ alarmclk[t] <= (clk + sub) + 2 * Period
             /\ alarmclk[t] + clk <= DueClk(ctx, t) + (clk + sub)
             /\ t \in ViaTimers => alarmclk[t] + clk = DueClk(ctx, t) + (clk + sub)
  BY <1>1, CiaStage, InsideGuard DEF DriveInv, TimerFits
<1>7. \A t \in Alarms : TimerFits(t)'
  <2>1. ASSUME NEW t \in ViaTimers
        PROVE  TimerFits(t)'
    BY <1>1, <1>4, <1>5, <1>6, DriveAlarmsAssumption DEF TimerFits
  <2>2. ASSUME NEW t \in CiaTimers
        PROVE  TimerFits(t)'
    <3>1. t \in Alarms /\ t \notin ViaTimers
      BY DriveAlarmsAssumption
    <3>2. IsPending(ctx, t) =>
            alarmclk'[t] <= clk + 2 * Period /\ alarmclk'[t] + clk <= DueClk(ctx, t) + clk
      <4> SUFFICES ASSUME IsPending(ctx, t)
                   PROVE  /\ alarmclk'[t] <= clk + 2 * Period
                          /\ alarmclk'[t] + clk <= DueClk(ctx, t) + clk
        OBVIOUS
      <4>1. alarmclk'[t] = alarmclk[t] - sub
        BY <1>4, <1>6, <3>1
      <4>2. /\ DueClk(ctx, t) \in Nat /\ alarmclk[t] <= (clk + sub) + 2 * Period
            /\ alarmclk[t] + clk <= DueClk(ctx, t) + (clk + sub) /\ alarmclk[t] \in Nat
        BY <1>2, <1>6, <3>1
      <4> QED
        BY ONLY <1>2, <4>1, <4>2, DriveNumbers
    <3> QED
      BY <1>1, <1>4, <1>5, <1>6, <3>1, <3>2 DEF TimerFits
  <2> QED
    BY <2>1, <2>2, DriveAlarmsAssumption
<1>8. CacheFits'
  <2>1. CASE CacheIsEarliest(ctx)
    BY <1>1, <2>1 DEF CacheFits
  <2>2. CASE ~ CacheIsEarliest(ctx)
    <3>1. \A t \in Alarms : IsPending(ctx, t) => alarmclk[t] <= (clk + sub) + Period
      BY <1>1, <2>2, CiaStage DEF DriveInv, CacheFits
    <3>2. ASSUME NEW t \in CiaTimers, IsPending(ctx, t)
          PROVE  alarmclk'[t] <= clk + Period
      <4>1. t \in Alarms
        BY DriveAlarmsAssumption
      <4>2. alarmclk'[t] = alarmclk[t] - sub /\ alarmclk[t] <= (clk + sub) + Period
        BY <1>4, <1>6, <3>1, <3>2, <4>1
      <4>3. alarmclk[t] \in Nat
        BY <1>2, <4>1
      <4> QED
        BY ONLY <1>2, <4>2, <4>3, DriveNumbers
    <3>3. \A t \in Alarms : IsPending(ctx, t) => alarmclk'[t] <= CopyClk(t)' + Period
      BY <1>4, <1>5, <3>1, <3>2, DriveAlarmsAssumption
    <3> QED
      BY <1>1, <3>3 DEF CacheFits
  <2> QED
    BY <2>1, <2>2
<1>9. NothingOverdue'
  <2>1. \A t \in Alarms : IsPending(ctx, t) => DueClk(ctx, t) + MaxCycles > clk
    <3> SUFFICES ASSUME NEW t \in Alarms, IsPending(ctx, t)
                 PROVE  DueClk(ctx, t) + MaxCycles > clk
      OBVIOUS
    <3>1. \/ DueClk(ctx, t) + MaxCycles > clk
          \/ t \in CiaTimers /\ alarmclk[t] <= clk + sub
      BY <1>1, CiaStage
    <3>2. t \in CiaTimers => alarmclk[t] > clk + sub /\ alarmclk[t] \in Nat
      BY <1>3
    <3> QED
      BY ONLY <1>2, <3>1, <3>2, DriveNumbers
  <2>2. ctx.next_clk + MaxCycles > clk
    <3>1. CASE ctx.next_clk + MaxCycles > clk
      BY <3>1
    <3>2. CASE CacheIsEarliest(ctx) /\ ctx.num = 0
      <4>1. ctx.next_clk = CLOCK_MAX
        BY <3>2 DEF CacheIsEarliest
      <4> QED
        BY ONLY <1>2, <4>1, DriveNumbers
    <3>3. CASE CacheIsEarliest(ctx) /\ ctx.num # 0
      BY <1>2, <2>1, <3>3, EarliestIsDue
    <3> QED
      BY <1>1, <3>1, <3>2, <3>3, CiaStage
  <2> QED
    BY <1>1, <1>5, <2>2, GuardStages DEF NothingOverdue
<1>10. ClockInRange'
  BY <1>1, <1>2, GuardStages DEF ClockInRange, sub
<1> QED
  BY <1>1, <1>2, <1>4, <1>7, <1>8, <1>9, <1>10 DEF DriveInv

\* Chips that only subtract: their timers and the table agree again.
LEMMA ViaInv ==
  ASSUME DriveInv, viacore_clk_overflow_callback
  PROVE  DriveInv'
<1>1. /\ todo = Tail(Tail(Callbacks)) /\ todo' = <<>> /\ todo # <<>>
      /\ alarmclk' = Subtracted(ViaTimers) /\ UNCHANGED <<clk, ctx, serving>>
  BY GuardStages DEF viacore_clk_overflow_callback, Callback, DriveInv
<1>2. /\ clk \in Nat /\ clk + sub <= LatestClk /\ Whole(ctx) /\ NotLate(ctx)
      /\ alarmclk \in [Alarms -> Clock] /\ serving \in BOOLEAN
      /\ \A t \in Alarms : alarmclk[t] \in Nat
  BY <1>1, InsideGuard
<1>3. /\ TableClk = clk /\ \A t \in CiaTimers : CopyClk(t) = clk
      /\ \A t \in ViaTimers : CopyClk(t) = clk + sub
  BY <1>1, GuardStages, DriveAlarmsAssumption DEF TableClk, CopyClk
<1>4. \A t \in Alarms :
        /\ IsPending(ctx, t) <=> alarmclk[t] # CLOCK_MAX
        /\ IsPending(ctx, t) =>
             /\ DueClk(ctx, t) \in Nat /\ DueClk(ctx, t) <= LatestDue
             /\ alarmclk[t] <= CopyClk(t) + 2 * Period
             /\ alarmclk[t] + clk <= DueClk(ctx, t) + CopyClk(t)
             /\ t \in ViaTimers => alarmclk[t] + clk = DueClk(ctx, t) + CopyClk(t)
  BY <1>1, <1>3, InsideGuard DEF DriveInv, TimerFits
<1>5. \A t \in ViaTimers : IsPending(ctx, t) =>
        alarmclk[t] = DueClk(ctx, t) + sub /\ sub <= alarmclk[t]
  <2> SUFFICES ASSUME NEW t \in ViaTimers, IsPending(ctx, t)
               PROVE  alarmclk[t] = DueClk(ctx, t) + sub /\ sub <= alarmclk[t]
    OBVIOUS
  <2>1. /\ alarmclk[t] + clk = DueClk(ctx, t) + (clk + sub) /\ DueClk(ctx, t) \in Nat
        /\ alarmclk[t] \in Nat
    BY <1>2, <1>3, <1>4, DriveAlarmsAssumption
  <2> QED
    BY ONLY <1>2, <2>1, DriveNumbers
<1>6. /\ alarmclk' \in [Alarms -> Clock]
      /\ \A t \in ViaTimers : alarmclk[t] # CLOCK_MAX => alarmclk'[t] = alarmclk[t] - sub
      /\ \A t \in CiaTimers : alarmclk'[t] = alarmclk[t]
      /\ \A t \in Alarms : alarmclk'[t] = CLOCK_MAX <=> alarmclk[t] = CLOCK_MAX
  <2>1. ViaTimers \subseteq Alarms /\ Alarms = CiaTimers \cup ViaTimers /\ CiaTimers \cap ViaTimers = {}
    BY DriveAlarmsAssumption
  <2>2. \A t \in ViaTimers : alarmclk[t] = CLOCK_MAX \/ sub <= alarmclk[t]
    BY <1>4, <1>5, <2>1
  <2> QED
    BY <1>1, <1>2, <2>1, <2>2, SubtractedFrom
<1>7. \A t \in ViaTimers : IsPending(ctx, t) =>
        alarmclk'[t] = DueClk(ctx, t) /\ alarmclk'[t] <= clk + 2 * Period
  <2> SUFFICES ASSUME NEW t \in ViaTimers, IsPending(ctx, t)
               PROVE  alarmclk'[t] = DueClk(ctx, t) /\ alarmclk'[t] <= clk + 2 * Period
    OBVIOUS
  <2>1. /\ alarmclk'[t] = alarmclk[t] - sub /\ alarmclk[t] = DueClk(ctx, t) + sub
        /\ DueClk(ctx, t) \in Nat /\ alarmclk[t] <= (clk + sub) + 2 * Period
    BY <1>3, <1>4, <1>5, <1>6, DriveAlarmsAssumption
  <2> QED
    BY ONLY <1>2, <2>1, DriveNumbers
<1>8. \A t \in CiaTimers : IsPending(ctx, t) =>
        alarmclk'[t] <= DueClk(ctx, t) /\ alarmclk'[t] <= clk + 2 * Period
  <2> SUFFICES ASSUME NEW t \in CiaTimers, IsPending(ctx, t)
               PROVE  alarmclk'[t] <= DueClk(ctx, t) /\ alarmclk'[t] <= clk + 2 * Period
    OBVIOUS
  <2>1. /\ alarmclk'[t] = alarmclk[t] /\ DueClk(ctx, t) \in Nat /\ alarmclk[t] \in Nat
        /\ alarmclk[t] + clk <= DueClk(ctx, t) + clk /\ alarmclk[t] <= clk + 2 * Period
    BY <1>2, <1>3, <1>4, <1>6, DriveAlarmsAssumption
  <2> QED
    BY ONLY <1>2, <2>1, DriveNumbers
<1>9. \A t \in Alarms :
        /\ IsPending(ctx', t) <=> alarmclk'[t] # CLOCK_MAX
        /\ IsPending(ctx', t) =>
             /\ DueClk(ctx', t) <= LatestDue
             /\ alarmclk'[t] <= clk' + 2 * Period /\ alarmclk'[t] <= DueClk(ctx', t)
             /\ t \in ViaTimers => alarmclk'[t] = DueClk(ctx', t)
  <2>1. ASSUME NEW t \in ViaTimers, IsPending(ctx', t)
        PROVE  alarmclk'[t] <= DueClk(ctx', t) /\ alarmclk'[t] <= clk' + 2 * Period
               /\ alarmclk'[t] = DueClk(ctx', t)
    BY <1>1, <1>4, <1>7, <2>1, DriveAlarmsAssumption
  <2>2. ASSUME NEW t \in CiaTimers, IsPending(ctx', t)
        PROVE  alarmclk'[t] <= DueClk(ctx', t) /\ alarmclk'[t] <= clk' + 2 * Period
               /\ t \notin ViaTimers
    BY <1>1, <1>8, <2>2, DriveAlarmsAssumption
  <2> QED
    BY <1>1, <1>4, <1>6, <2>1, <2>2, DriveAlarmsAssumption
<1>10. \/ CacheIsEarliest(ctx')
       \/ \A t \in Alarms : IsPending(ctx', t) => alarmclk'[t] <= clk' + Period
  <2>1. CASE CacheIsEarliest(ctx)
    BY <1>1, <2>1
  <2>2. ASSUME ~ CacheIsEarliest(ctx), NEW t \in Alarms, IsPending(ctx, t)
        PROVE  alarmclk'[t] <= clk + Period
    <3>1. alarmclk[t] <= CopyClk(t) + Period
      BY <2>2 DEF DriveInv, CacheFits
    <3>2. CASE t \in CiaTimers
      BY <1>3, <1>6, <3>1, <3>2
    <3>3. CASE t \in ViaTimers
      <4>1. /\ alarmclk'[t] = alarmclk[t] - sub /\ alarmclk[t] <= (clk + sub) + Period
            /\ alarmclk[t] \in Nat
        BY <1>2, <1>3, <1>4, <1>6, <2>2, <3>1, <3>3
      <4> QED
        BY ONLY <1>2, <4>1, DriveNumbers
    <3> QED
      BY <3>2, <3>3, DriveAlarmsAssumption
  <2> QED
    BY <1>1, <2>1, <2>2
<1>11. ctx.next_clk + MaxCycles > clk
  BY <1>1, <1>3, GuardStages, InsideGuard DEF DriveInv, NothingOverdue
<1>12. clk <= LatestClk
  BY ONLY <1>2, DriveNumbers
<1> QED
  BY <1>1, <1>2, <1>6, <1>9, <1>10, <1>11, <1>12, OutsideGuardNext

-----------------------------------------------------------------------------
\* Every step keeps the invariant.
LEMMA DriveNext ==
  ASSUME DriveInv, [Next]_vars
  PROVE  DriveInv'
<1>1. ASSUME NEW n \in 1 .. MaxCycles, Instruction(n)
      PROVE  DriveInv'
  BY <1>1, InstructionInv
<1>2. ASSUME NEW t \in Alarms, StopTimer(t)
      PROVE  DriveInv'
  BY <1>2, StopTimerInv
<1>3. ASSUME NEW t \in Alarms, NEW cycles \in 1 .. Period, StartTimer(t, cycles)
      PROVE  DriveInv'
  BY <1>3, StartTimerInv
<1>4. CASE Dispatch
  BY <1>4, DispatchInv
<1>5. CASE clk_guard_prevent_overflow
  BY <1>5, GuardInv
<1>6. CASE drive_clk_overflow_callback
  BY <1>6, WarpInv
<1>7. ASSUME NEW t \in CiaTimers, CatchUp(t)
      PROVE  DriveInv'
  BY <1>7, CatchUpInv
<1>8. CASE ciacore_clk_overflow_callback
  BY <1>8, CiaInv
<1>9. CASE viacore_clk_overflow_callback
  BY <1>9, ViaInv
<1>10. CASE UNCHANGED vars
  <2>1. UNCHANGED <<clk, ctx, alarmclk, serving, todo>>
    BY <1>10 DEF vars
  <2>2. TableClk' = TableClk /\ \A t \in Alarms : CopyClk(t)' = CopyClk(t)
    BY <2>1 DEF TableClk, CopyClk, sub
  <2>3. /\ ClockInRange' <=> ClockInRange
        /\ CacheFits' <=> CacheFits
        /\ NothingOverdue' <=> NothingOverdue
        /\ \A t \in Alarms : TimerFits(t)' <=> TimerFits(t)
    BY <2>1, <2>2 DEF ClockInRange, CacheFits, NothingOverdue, TimerFits, sub
  <2> QED
    BY <2>1, <2>3 DEF DriveInv
<1> QED
  BY <1>1, <1>2, <1>3, <1>4, <1>5, <1>6, <1>7, <1>8, <1>9, <1>10 DEF Next

LEMMA DriveAlways == Spec => []DriveInv
BY DriveInit, DriveNext, PTL DEF Spec

\* The drive's clock never leaves its 32 bits, nor does a chip's copy, and the table is
\* always well formed.
THEOREM DriveTypes == Spec => []TypeOK
<1>1. ASSUME DriveInv
      PROVE  TypeOK
  <2>1. clk \in Nat /\ clk <= CLOCK_MAX
    BY <1>1, OutsideGuard, InsideGuard
  <2>2. clk \in Clock
    BY <2>1, NoWrap
  <2> QED
    BY <1>1, <2>2 DEF DriveInv, TypeOK, Whole
<1> QED
  BY <1>1, DriveAlways, PTL

\* Whatever timers the drive's program starts and stops, and whatever was due when the
\* guard came: the table stays whole, also when it was empty, and after all callbacks a
\* chip that only subtracts knows when its timer underflows.
THEOREM DriveChipsStayInStep == Spec => []DriveChipsInStep
<1>1. ASSUME DriveInv
      PROVE  DriveChipsInStep
  <2>1. TableMatches
    BY <1>1 DEF DriveInv, Whole, TableMatches
  <2>2. ASSUME todo = <<>>, NEW t \in ViaTimers
        PROVE  Agrees(t)
    BY <1>1, <2>2, OutsideGuard, DriveAlarmsAssumption DEF Agrees
  <2> QED
    BY <2>1, <2>2 DEF DriveChipsInStep, ViaTimersAgree
<1> QED
  BY <1>1, DriveAlways, PTL
=============================================================================
