----------------------------- MODULE TimerQueue -----------------------------
(***************************************************************************)
(* What the alarm system promises a device, without clocks, tables or      *)
(* overflow: a device asks to be called after a number of cycles, and is   *)
(* called once that many cycles have been executed, never before, and      *)
(* before the CPU executes another instruction.                            *)
(*                                                                         *)
(* armed is the set of alarms that are armed; left[a] is the number of     *)
(* cycles until an armed alarm a is due, zero or negative when it is       *)
(* overdue (and 0 when a is not armed).                                    *)
(***************************************************************************)
EXTENDS Integers

CONSTANTS Alarms, MaxCycles, Horizon

VARIABLES armed, left

vars == <<armed, left>>

Init ==
  /\ armed \in SUBSET Alarms
  /\ left \in [Alarms -> 0 .. Horizon]
  /\ \A a \in Alarms : a \in armed <=> left[a] > 0

\* Time passes only when nothing is due, one instruction at a time.
Tick(n) ==
  /\ \A a \in armed : left[a] > 0
  /\ left' = [a \in Alarms |-> IF a \in armed THEN left[a] - n ELSE 0]
  /\ UNCHANGED armed

\* A device arms or disarms its own alarm.
Arm(a, d) == armed' = armed \cup {a} /\ left' = [left EXCEPT ![a] = d]
Disarm(a) == armed' = armed \ {a} /\ left' = [left EXCEPT ![a] = 0]

\* A due alarm is served: it is over, or due again strictly later than it was.
Serve(a) ==
  /\ a \in armed /\ left[a] <= 0
  /\ Disarm(a) \/ \E d \in 1 .. Horizon : Arm(a, left[a] + d)

SomeTick == \E n \in 1 .. MaxCycles : Tick(n)
SomeServe == \E a \in Alarms : Serve(a)
SomeRequest == \E a \in Alarms : Disarm(a) \/ \E d \in 1 .. Horizon : Arm(a, d)

Next == SomeTick \/ SomeServe \/ SomeRequest

\* What may happen, without the promise that anything does.
SafeSpec == Init /\ [][Next]_vars

\* Time passes and due alarms are served.
Spec == SafeSpec /\ WF_vars(SomeTick) /\ WF_vars(SomeServe)
=============================================================================
