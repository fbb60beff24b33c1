---------------------------- MODULE DriveAlarms -----------------------------
(***************************************************************************)
(* The alarms of a disk drive's CPU and the subtraction that keeps its     *)
(* clock from overflowing: what MainClock is for the main CPU.  Three      *)
(* things differ.                                                          *)
(*                                                                         *)
(*   The CPU is stopped and continued by drivecpu_execute, so the guard    *)
(*   (drivecpu_prevent_clk_overflow) finds it at the end of an             *)
(*   instruction, with the alarms that became due in it not yet served;    *)
(*   once the loop serves them, it serves all and goes on to the next.     *)
(*                                                                         *)
(*   The callback that warps the alarm table is registered by drive_init,  *)
(*   after the drive's chips have registered theirs (init.c calls          *)
(*   drivecpu_early_init_all first), and the list is called in reverse: it *)
(*   comes first, where the main CPU's comes last.                         *)
(*                                                                         *)
(*   No alarm is always pending: a drive program can stop every timer.     *)
(***************************************************************************)
EXTENDS AlarmContext, ClkGuard, FiniteSets, Sequences

CONSTANTS
  CiaTimers,     \* timers of chips that catch up in their callback (1571, 1581)
  ViaTimers,     \* timers of chips that only subtract
  Period,        \* underflow period of a timer
  MaxCycles,     \* cycles of the longest instruction
  FrameCycles    \* cycles between two visits of the guard

ASSUME DriveAlarmsAssumption ==
  /\ Alarms = CiaTimers \cup ViaTimers /\ CiaTimers \cap ViaTimers = {}
  /\ {Period, MaxCycles} \subseteq Nat \ {0} /\ FrameCycles \in Nat
  /\ ClkMaxValue = CLOCK_MAX - CLKGUARD_SUB_MIN
  /\ 2 * Period + FrameCycles + 2 * MaxCycles < CLKGUARD_SUB_MIN

\* A drive's chips have a dozen alarms; the table has 256 slots.
ASSUME DriveSlotsAssumption ==
  IsFiniteSet(Alarms) /\ Cardinality(Alarms) <= ALARM_CONTEXT_MAX_PENDING_ALARMS

VARIABLES
  clk,        \* drive_clk
  ctx,        \* the drive CPU's alarm context
  alarmclk,   \* the chips' own copies: ciat_t.alarmclk, via tai; CLOCK_MAX when off
  serving,    \* the loop has served an alarm and not yet executed an instruction
  todo        \* callbacks still to run; <<>> outside the guard

vars == <<clk, ctx, alarmclk, serving, todo>>

sub == clk_guard_clock_sub

\* The order of the guard's list.
Callbacks == <<"drive", "cia", "via">>

Init ==
  /\ clk = 6 /\ serving = FALSE /\ todo = <<>>
  /\ \E garbage \in -1 .. 1 : ctx = alarm_context_init(garbage)
  /\ alarmclk = [t \in Alarms |-> CLOCK_MAX]

-----------------------------------------------------------------------------
\* The loop goes on, until a visit of the guard that has work is overdue.
Continues == todo = <<>> /\ ~ NeedsSubtraction(clk - FrameCycles)

Instruction(n) ==
  /\ Continues /\ ~ MustDispatch(ctx, clk)
  /\ clk' = clk + n /\ serving' = FALSE
  /\ UNCHANGED <<ctx, alarmclk, todo>>

\* The drive's program starts or stops a timer.  (A VIA's tai is 0, not CLOCK_MAX, when
\* its timer is off; either value only says so.)
StartTimer(t, cycles) ==
  /\ todo = <<>> /\ ~ serving
  /\ alarmclk' = [alarmclk EXCEPT ![t] = clk + cycles]
  /\ ctx' = alarm_set(ctx, t, clk + cycles)
  /\ UNCHANGED <<clk, serving, todo>>

StopTimer(t) ==
  /\ todo = <<>> /\ ~ serving
  /\ alarmclk' = [alarmclk EXCEPT ![t] = CLOCK_MAX]
  /\ ctx' = alarm_unset(ctx, t)
  /\ UNCHANGED <<clk, serving, todo>>

Underflow(t) ==
  /\ alarmclk' = [alarmclk EXCEPT ![t] = Wrap(alarmclk[t] + Period)]
  /\ ctx' = alarm_set(alarm_unset(ctx, t), t, Wrap(alarmclk[t] + Period))

\* The CPU loop calls the handler of the cached slot, whatever it holds.
Dispatch ==
  /\ Continues /\ MustDispatch(ctx, clk) /\ ctx.next_idx \in Slots(ctx)
  /\ Underflow(alarm_context_dispatch(ctx)) /\ serving' = TRUE
  /\ UNCHANGED <<clk, todo>>

clk_guard_prevent_overflow ==
  /\ todo = <<>> /\ ~ serving /\ NeedsSubtraction(clk)
  /\ clk' = clk - sub /\ todo' = Callbacks
  /\ UNCHANGED <<ctx, alarmclk, serving>>

Callback(name) == todo # <<>> /\ Head(todo) = name

drive_clk_overflow_callback ==
  /\ Callback("drive")
  /\ ctx' = alarm_context_time_warp(ctx, sub) /\ todo' = Tail(todo)
  /\ UNCHANGED <<clk, alarmclk, serving>>

\* ciacore_clk_overflow_callback: cia_update_ta with the clock as it was, ...
CatchUp(t) ==
  /\ Callback("cia") /\ alarmclk[t] <= Wrap(clk + sub)
  /\ Underflow(t)
  /\ UNCHANGED <<clk, serving, todo>>

\* Mutant: timers without an alarm have the amount taken away too.
Subtracted_OffToo(T) ==
  [t \in Alarms |-> IF t \in T THEN Wrap(alarmclk[t] - sub) ELSE alarmclk[t]]

Subtracted(T) ==
  [t \in Alarms |-> IF t \in T /\ alarmclk[t] < CLOCK_MAX THEN Wrap(alarmclk[t] - sub)
                    ELSE alarmclk[t]]

\* ... then ciat_prevent_clock_overflow.
ciacore_clk_overflow_callback ==
  /\ Callback("cia") /\ \A t \in CiaTimers : alarmclk[t] > Wrap(clk + sub)
  /\ alarmclk' = Subtracted(CiaTimers) /\ todo' = Tail(todo)
  /\ UNCHANGED <<clk, ctx, serving>>

viacore_clk_overflow_callback ==
  /\ Callback("via")
  /\ alarmclk' = Subtracted(ViaTimers) /\ todo' = Tail(todo)
  /\ UNCHANGED <<clk, ctx, serving>>

Next ==
  \/ \E n \in 1 .. MaxCycles : Instruction(n)
  \/ \E t \in Alarms : StopTimer(t) \/ \E cycles \in 1 .. Period : StartTimer(t, cycles)
  \/ Dispatch
  \/ clk_guard_prevent_overflow
  \/ drive_clk_overflow_callback
  \/ \E t \in CiaTimers : CatchUp(t)
  \/ ciacore_clk_overflow_callback
  \/ viacore_clk_overflow_callback

Spec == Init /\ [][Next]_vars

-----------------------------------------------------------------------------
\* Properties

\* The table and the copies stay in range and the guard's list is one of its
\* suffixes.
TypeOK ==
  /\ clk \in Clock /\ IsContext(ctx) /\ alarmclk \in [Alarms -> Clock] /\ serving \in BOOLEAN
  /\ todo \in {Callbacks, Tail(Callbacks), Tail(Tail(Callbacks)), <<>>}

\* Slots and alarms point at each other, also in a table that is empty when the
\* clock is set back.
TableMatches == SlotsMatch(ctx)

\* The table and a chip's copy of the clock of its timer.
Agrees(t) ==
  IF IsPending(ctx, t) THEN alarmclk[t] = DueClk(ctx, t) ELSE alarmclk[t] = CLOCK_MAX

\* Once all callbacks have run, the table and a chip that only subtracts agree on when
\* its timer underflows: neither the order of the callbacks nor what was due when the
\* guard came shows.
ViaTimersAgree == todo = <<>> => \A t \in ViaTimers : Agrees(t)

\* After the guard the drive's table is whole and its chips know their alarms.
DriveChipsInStep == TableMatches /\ ViaTimersAgree

\* And so should one that catches up first (clkguard.c: "Order is supposed not to matter
\* at all for this purpose").
CiaTimersAgree == todo = <<>> => \A t \in CiaTimers : Agrees(t)

\* Whenever the CPU loop is told to dispatch there is an alarm to dispatch: the
\* cached clock is the "Clock tick for the next pending alarm" (alarm.h).
SomethingToDispatch ==
  todo = <<>> /\ MustDispatch(ctx, clk) => ctx.next_idx \in Slots(ctx)
=============================================================================
