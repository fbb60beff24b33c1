--------------------------- MODULE CiaTimerTurns ---------------------------
(***************************************************************************)
(* One timer of a CIA as its registers drive it, cycle by cycle; in every  *)
(* state it can be in, what ciat_update computes for many cycles at once   *)
(* and what ciat_set_alarm foretells are compared with the chip's cycles.  *)
(***************************************************************************)
EXTENDS CiaTimer

CONSTANTS
  TimerLatches,   \* values written to the low byte
  TimerControls,  \* values of the control register: sets of CR_ bits and CNT
  MaxSkip         \* bound: the cycles skipped at once

ASSUME TimerAssumption == TimerLatches \subseteq Nat /\ MaxSkip \in Nat

VARIABLES timer, written  \* in this cycle a register was written
timerVars == <<timer, written>>

TimerInit ==
  /\ written = FALSE
  /\ \E l \in TimerLatches :
       timer = [state |-> {}, latch |-> l, cnt |-> l, behind |-> 0, alarm |-> NEVER, n |-> 0]

AfterCycles(t, k) == FoldLeft(LAMBDA u, i : Inc([u EXCEPT !.behind = 1]), t, [i \in 1 .. k |-> i])

TimerCycle == timer' = [AfterCycles(timer, 1) EXCEPT !.n = 0] /\ written' = FALSE
TimerWritten ==
  /\ ~written /\ written' = TRUE
  /\ \/ \E v \in TimerLatches : timer' = ciat_set_latchlo(timer, v)
     \/ timer' = ciat_set_latchhi(timer)
     \/ \E bits \in TimerControls : timer' = ciat_set_ctrl(timer, bits)
\* Stepped by timer A's underflows, with CNT as its input (CRB with INMODE).
TimerStepped ==
  /\ "PHI2IN" \notin timer.state /\ ~written /\ UNCHANGED written
  /\ timer' = [ciat_single_step(timer) EXCEPT !.alarm = NEVER]
TimerNext == TimerCycle \/ TimerWritten \/ TimerStepped

TimerSpec == TimerInit /\ [][TimerNext]_timerVars

-----------------------------------------------------------------------------
(* Properties *)

\* ciat_update, whatever it skips, leaves the timer as the chip's cycles do, with as many
\* underflows counted: long counts, reloads, one shot, forced loads, the shortest period.
\* COUNT, from which nothing follows in the chip, may differ, and a timer that is stopped
\* or switched to another input in the very cycle of a step keeps the step.
SkipsAsCycles ==
  LET seen(t) == [t EXCEPT !.state = @ \ {"COUNT", "OUT"}, !.behind = 0]
  IN  ("STEP" \in timer.state => timer.state \cap {"CR_START", "PHI2IN"} = {"CR_START"})
      => \A k \in 1 .. MaxSkip :
        seen(ciat_update([timer EXCEPT !.behind = k], 0)) = seen(AfterCycles(timer, k))

\* ciat_set_alarm tells of the first underflow to come, and if it says never there is none.
AlarmAtUnderflow ==
  LET at == ciat_set_alarm(timer).alarm
      n(k) == AfterCycles(timer, k).n
  IN  \A k \in 1 .. MaxSkip : n(k) > 0 <=> at # NEVER /\ at <= k

\* What the timer skips and what it foretells is what its cycles would have done.
LazyAsChip == SkipsAsCycles /\ AlarmAtUnderflow
=============================================================================
