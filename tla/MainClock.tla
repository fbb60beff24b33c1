----------------------------- MODULE MainClock ------------------------------
(***************************************************************************)
(* The main CPU's clock, its alarms and the subtraction that keeps both    *)
(* from overflowing, composed: the CPU loop (6510core.c), the alarm table  *)
(* (AlarmContext), the clock guard (ClkGuard) and three kinds of device:   *)
(*                                                                         *)
(*   Raster    the video chip's line alarm.  At the end of a frame its     *)
(*             handler calls the vsync hook, and with it the guard, while  *)
(*             the alarm itself is still pending.                          *)
(*   Timers    CIA timers.  They keep their own copy of the clock of their *)
(*             alarm, and their overflow callback first catches up with    *)
(*             the clock as it was, arming alarms on the old time scale.   *)
(*   OneShots  alarms that fire once, such as the keyboard's.              *)
(*                                                                         *)
(* The guard has subtracted from the clock before the first callback runs, *)
(* so between its callbacks the clock, the table and the private copies    *)
(* are on different time scales; `todo' holds the callbacks still to run.  *)
(***************************************************************************)
EXTENDS AlarmContext, ClkGuard, Sequences, FiniteSets

CONSTANTS
  Raster, Timers, OneShots,
  LineCycles,      \* cycles of a raster line
  Lines,           \* lines of a frame
  Period,          \* underflow period of a timer
  MaxCycles,       \* cycles of the longest instruction, stolen ones included
  Horizon,         \* how far ahead a device may arm an alarm
  MaxStores        \* bound: device accesses of the program in one behaviour

ASSUME AlarmsAssumption ==
  /\ Alarms = {Raster} \cup Timers \cup OneShots
  /\ Raster \notin Timers \cup OneShots /\ Timers \cap OneShots = {}

\* A machine creates some thirty alarms; the table has 256 slots.
ASSUME SlotsSufficeAssumption ==
  IsFiniteSet(Alarms) /\ Cardinality(Alarms) <= ALARM_CONTEXT_MAX_PENDING_ALARMS

ASSUME TimingAssumption ==
  /\ {LineCycles, Lines, Period, MaxCycles, Horizon} \subseteq Nat \ {0}
  /\ LineCycles <= Horizon /\ Period <= Horizon /\ MaxStores \in Nat

\* What lies between two visits of the guard must fit below and above the
\* subtracted amount; 0xfffff cycles against a frame of about 20000.
ASSUME RoomAssumption ==
  /\ ClkMaxValue = CLOCK_MAX - CLKGUARD_SUB_MIN
  /\ (Lines + 1) * LineCycles + 2 * MaxCycles + Horizon < CLKGUARD_SUB_MIN

\* The clock a reset starts from is far below the guard's limit.
ASSUME StartAssumption == 6 < ClkMaxValue

VARIABLES
  clk,        \* maincpu_clk
  ctx,        \* maincpu_alarm_context
  line,       \* vicii.raster.current_line
  draw_clk,   \* vicii.draw_clk
  alarmclk,   \* ciat_t.alarmclk of every timer, CLOCK_MAX when it has no alarm
  todo,       \* what is left of HookSteps; <<>> outside the hook
  sub,        \* the amount the callbacks subtract
  stores      \* device accesses so far (bound)

vars == <<clk, ctx, line, draw_clk, alarmclk, todo, sub, stores>>

\* Mutant: the table is warped first, as the drives' is.
HookSteps_TableFirst == <<"machine", "cia", "vicii", "rearm">>

\* clk_guard_add_callback inserts at the head of the list, and
\* machine_early_init registers its callback before any device does: the alarm
\* table is warped last.  Then the line handler that called the hook goes on.
HookSteps == <<"cia", "vicii", "machine", "rearm">>

Init ==
  /\ clk = 6                                    \* maincpu_reset
  /\ line = 0
  /\ draw_clk = clk + LineCycles
  /\ \E garbage \in -1 .. 1 : ctx = alarm_set(alarm_context_init(garbage), Raster, draw_clk)
  /\ alarmclk = [t \in Timers |-> CLOCK_MAX]
  /\ todo = <<>> /\ sub = 0 /\ stores = 0

-----------------------------------------------------------------------------
\* An instruction runs only when no alarm is due.
Instruction(n) ==
  /\ todo = <<>> /\ ~ MustDispatch(ctx, clk)
  /\ clk' = clk + n
  /\ UNCHANGED <<ctx, line, draw_clk, alarmclk, todo, sub, stores>>

\* The program's accesses to the devices, at the end of an instruction and
\* before the alarms that became due in it are dispatched.
Store == todo = <<>> /\ stores < MaxStores /\ stores' = stores + 1

\* Starting a timer or writing its latch: ciat_set_ctrl, ciat_set_latchhi and
\* ciat_set_latchlo end in ciat_set_alarm.  The timer has been brought up to
\* date first, so its next underflow lies ahead; a due alarm is replaced.
ciat_set_alarm(t, cycles) ==
  /\ Store
  /\ alarmclk' = [alarmclk EXCEPT ![t] = clk + cycles]
  /\ ctx' = alarm_set(ctx, t, clk + cycles)
  /\ UNCHANGED <<clk, line, draw_clk, todo, sub>>

\* Stopping it: no underflow is to come, the alarm is unset.
ciat_stop(t) ==
  /\ Store
  /\ alarmclk' = [alarmclk EXCEPT ![t] = CLOCK_MAX]
  /\ ctx' = alarm_unset(ctx, t)
  /\ UNCHANGED <<clk, line, draw_clk, todo, sub>>

\* A key event arms the keyboard alarm a random part of a frame ahead.
keyboard_set_keyarr(o, delay) ==
  /\ Store
  /\ ctx' = alarm_set(ctx, o, clk + delay)
  /\ UNCHANGED <<clk, line, draw_clk, alarmclk, todo, sub>>

-----------------------------------------------------------------------------
Dispatch(a) ==
  /\ todo = <<>> /\ MustDispatch(ctx, clk)
  /\ alarm_context_dispatch(ctx) = a

\* ciacore_intta: acknowledge, then arm the next underflow unless nobody would
\* notice it (interrupt masked or already raised, no serial output, no timer B
\* counting this one), which is the choice `needed'.
Underflow(t, needed) ==
  LET c == alarm_unset(ctx, t)
      n == alarmclk[t] + Period
  IN  /\ alarmclk' = [alarmclk EXCEPT ![t] = IF needed THEN n ELSE CLOCK_MAX]
      /\ ctx' = IF needed THEN alarm_set(c, t, n) ELSE c

ciacore_intta(t) ==
  /\ Dispatch(t)
  /\ \E needed \in BOOLEAN : Underflow(t, needed)
  /\ UNCHANGED <<clk, line, draw_clk, todo, sub, stores>>

\* The keyboard handler rescans once more after unsetting its alarm.
keyboard_latch_handler(o) ==
  /\ Dispatch(o)
  /\ ctx' = alarm_context_update_next_pending(alarm_unset(ctx, o))
  /\ UNCHANGED <<clk, line, draw_clk, alarmclk, todo, sub, stores>>

\* Mutant: the alarm is set for the line just drawn.
RearmRaster_SameClk == draw_clk' = draw_clk /\ ctx' = alarm_set(ctx, Raster, draw_clk)

\* The end of the line handler.
RearmRaster ==
  /\ draw_clk' = draw_clk + LineCycles
  /\ ctx' = alarm_set(ctx, Raster, draw_clk')

\* Mutant: the line counter is not reset at the end of the frame.
NextLine_NoReset == line + 1

NextLine == (line + 1) % Lines
GuardActs == NextLine = 0 /\ NeedsSubtraction(clk)

\* A line without a subtraction.
vicii_raster_draw_alarm_handler ==
  /\ Dispatch(Raster) /\ ~ GuardActs
  /\ line' = NextLine
  /\ RearmRaster
  /\ UNCHANGED <<clk, alarmclk, todo, sub, stores>>

\* End of frame with the clock at its limit: the clock goes back at once, the
\* callbacks are called one by one.
clk_guard_prevent_overflow ==
  /\ Dispatch(Raster) /\ GuardActs
  /\ line' = NextLine
  /\ clk' = clk - clk_guard_clock_sub
  /\ sub' = clk_guard_clock_sub
  /\ todo' = HookSteps
  /\ UNCHANGED <<ctx, draw_clk, alarmclk, stores>>

-----------------------------------------------------------------------------
Callback(name) == todo # <<>> /\ Head(todo) = name

machine_maincpu_clk_overflow_callback ==
  /\ Callback("machine")
  /\ ctx' = alarm_context_time_warp(ctx, sub)
  /\ todo' = Tail(todo)
  /\ UNCHANGED <<clk, line, draw_clk, alarmclk, sub, stores>>

\* Mutant: the video chip's copy is left on the old time scale.
vicii_clk_overflow_callback_NoSub ==
  /\ Callback("vicii")
  /\ todo' = Tail(todo)
  /\ UNCHANGED <<clk, ctx, line, draw_clk, alarmclk, sub, stores>>

vicii_clk_overflow_callback ==
  /\ Callback("vicii")
  /\ draw_clk' = Wrap(draw_clk - sub)
  /\ todo' = Tail(todo)
  /\ UNCHANGED <<clk, ctx, line, alarmclk, sub, stores>>

\* cia_update_ta/tb with the clock as it was: the underflows that are due are
\* processed, and armed again, one by one on the old time scale ...
CiaBehind(t) == alarmclk[t] <= Wrap(clk + sub)

cia_update_ta(t) ==
  /\ Callback("cia") /\ CiaBehind(t)
  /\ \E needed \in BOOLEAN : Underflow(t, needed)
  /\ UNCHANGED <<clk, line, draw_clk, todo, sub, stores>>

\* Mutant: timers without an alarm have the amount taken away too.
ciacore_clk_overflow_callback_Always ==
  /\ Callback("cia") /\ \A t \in Timers : ~ CiaBehind(t)
  /\ alarmclk' = [t \in Timers |-> Wrap(alarmclk[t] - sub)]
  /\ todo' = Tail(todo)
  /\ UNCHANGED <<clk, ctx, line, draw_clk, sub, stores>>

\* ... and only then do the private copies move (ciat_prevent_clock_overflow).
ciacore_clk_overflow_callback ==
  /\ Callback("cia") /\ \A t \in Timers : ~ CiaBehind(t)
  /\ alarmclk' = [t \in Timers |-> IF alarmclk[t] < CLOCK_MAX
                                   THEN Wrap(alarmclk[t] - sub) ELSE CLOCK_MAX]
  /\ todo' = Tail(todo)
  /\ UNCHANGED <<clk, ctx, line, draw_clk, sub, stores>>

\* Back in the line handler that called the hook.
FinishLine ==
  /\ Callback("rearm")
  /\ RearmRaster
  /\ todo' = <<>> /\ sub' = 0
  /\ UNCHANGED <<clk, line, alarmclk, stores>>

Execute == \E n \in 1 .. MaxCycles : Instruction(n)

Handlers ==
  \/ \E t \in Timers : ciacore_intta(t) \/ cia_update_ta(t)
  \/ \E o \in OneShots : keyboard_latch_handler(o)
  \/ vicii_raster_draw_alarm_handler
  \/ clk_guard_prevent_overflow
  \/ machine_maincpu_clk_overflow_callback
  \/ vicii_clk_overflow_callback
  \/ ciacore_clk_overflow_callback
  \/ FinishLine

Accesses ==
  \/ \E t \in Timers : ciat_stop(t) \/ \E cycles \in 1 .. Period : ciat_set_alarm(t, cycles)
  \/ \E o \in OneShots, delay \in 1 .. Horizon : keyboard_set_keyarr(o, delay)

Next == Execute \/ Handlers \/ Accesses

\* The emulation loop never stops: it executes instructions and dispatches
\* alarms for ever.  The program is free never to touch a device.
Fairness == WF_vars(Execute) /\ WF_vars(Handlers)

Spec == Init /\ [][Next]_vars /\ Fairness

-----------------------------------------------------------------------------
\* Properties

\* Every variable stays in its range.  The clock itself never leaves its 32
\* bits, whatever the length of the run.
TypeOK ==
  /\ clk \in Clock /\ IsContext(ctx) /\ line \in 0 .. Lines - 1
  /\ draw_clk \in Clock /\ alarmclk \in [Timers -> Clock]
  /\ todo \in { <<>>, <<"rearm">>, <<"machine", "rearm">>, <<"vicii", "machine", "rearm">>,
               HookSteps }
  /\ sub \in Clock /\ stores \in 0 .. MaxStores

\* The table stays consistent under every mixture of arming, re-arming,
\* disarming and dispatching from handlers: see AlarmContext.
TableConsistent == SlotsMatch(ctx) /\ CacheIsEarliest(ctx)

\* The clock the table is on: the one before the subtraction until the table
\* itself has been warped.
DoneIn(steps, name) == \A i \in 1 .. Len(steps) : steps[i] # name
Warped(name) == DoneIn(todo, name)
ContextClk == IF Warped("machine") THEN clk ELSE clk + sub

\* No pending alarm is ever further behind the clock than the instruction and
\* the handlers before it took, nor further ahead than a device asked for: a
\* subtraction neither strands an alarm 2^32 cycles ahead nor makes it overdue.
MaxLag == MaxCycles
AlarmsNearClock ==
  \A a \in Alarms : IsPending(ctx, a) => DueClk(ctx, a) - ContextClk \in -MaxLag .. Horizon

\* A timer's private copy of its alarm clock is the clock of its pending alarm,
\* on the time scale it is on.
CiaClk == IF Warped("cia") THEN clk ELSE clk + sub
TimersMirrorAlarms ==
  \A t \in Timers :
    IF IsPending(ctx, t)
    THEN alarmclk[t] - CiaClk = DueClk(ctx, t) - ContextClk
    ELSE alarmclk[t] = CLOCK_MAX

\* The beam never runs away from the alarm that moves it.
RasterMirrorsAlarm ==
  /\ IsPending(ctx, Raster)
  /\ todo = <<>> => draw_clk = DueClk(ctx, Raster)

\* What the devices remember of their alarms and what the table holds are one, between two
\* callbacks of the guard too.
DevicesInStep == TimersMirrorAlarms /\ RasterMirrorsAlarm

\* What makes the three invariants above inductive: how far the clock can be
\* past the guard's limit.  Within a frame that is what the lines drawn since
\* the last visit took; while the callbacks run, a whole frame.
ViciiClk == IF Warped("vicii") THEN clk ELSE clk + sub
DrawLimit(l) == ClkMaxValue + (l + 1) * LineCycles
ClockNearLimit ==
  IF todo = <<>>
  THEN sub = 0 /\ draw_clk < DrawLimit(line)
  ELSE /\ sub = clk_guard_clock_sub /\ line = 0
       /\ clk + sub >= ClkMaxValue
       /\ clk + sub < ClkMaxValue + Lines * LineCycles + MaxCycles + 1
       /\ DueClk(ctx, Raster) <= ContextClk
       /\ draw_clk - ViciiClk = DueClk(ctx, Raster) - ContextClk

MainClockInv ==
  /\ TypeOK /\ TableConsistent /\ AlarmsNearClock /\ TimersMirrorAlarms
  /\ RasterMirrorsAlarm /\ ClockNearLimit

\* A key event reaches the machine: an armed keyboard alarm fires, also when
\* the clock is set back in between.
KeyEventsArrive ==
  \A o \in OneShots : IsPending(ctx, o) ~> ~ IsPending(ctx, o)

\* A device sees none of this: what it sees is the cycles left until its alarm,
\* and those the clock and the table implement as TimerQueue specifies.  The
\* subtraction and its callbacks are stuttering steps.
Pending == {a \in Alarms : IsPending(ctx, a)}
CyclesLeft == [a \in Alarms |-> IF a \in Pending THEN DueClk(ctx, a) - ContextClk ELSE 0]
Queue == INSTANCE TimerQueue WITH armed <- Pending, left <- CyclesLeft
ImplementsTimerQueue == Queue!Spec

\* Frames keep coming, and the program runs meanwhile.
FramesKeepComing == []<>(line = 0) /\ []<>(line # 0) /\ []<><<clk' > clk>>_vars

\* Neither a key nor the video chip ever waits for ever for its alarm.
EventsArrive == KeyEventsArrive /\ FramesKeepComing
=============================================================================
