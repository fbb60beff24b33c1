---------------------------- MODULE AlarmContext ----------------------------
(***************************************************************************)
(* The pending-alarm table of one emulated CPU (src/src/alarm.c, alarm.h). *)
(*                                                                         *)
(* A device that wants to be called at a given CPU clock owns an alarm.    *)
(* The alarms that are armed sit, in no order, in the first                *)
(* num_pending_alarms slots of an array; the slot that fires first is      *)
(* cached (next_pending_alarm_idx, next_pending_alarm_clk) because the CPU *)
(* loop compares its clock with it before every instruction; and every     *)
(* alarm knows its own slot (pending_idx).  The table is a record `c':     *)
(*                                                                         *)
(*   num          num_pending_alarms                                       *)
(*   alarm, clk   pending_alarms[i].alarm / .clk for the slots in use      *)
(*   pending_idx  alarm_t.pending_idx of every alarm, -1 when not armed    *)
(*   next_clk     next_pending_alarm_clk                                   *)
(*   next_idx     next_pending_alarm_idx                                   *)
(*                                                                         *)
(* The operations are functions from a table to a table, so that a module  *)
(* can compose the several calls one device handler makes.                 *)
(***************************************************************************)
EXTENDS Integers

CONSTANTS
  Alarms,                            \* the alarms created in the context
  ALARM_CONTEXT_MAX_PENDING_ALARMS,  \* capacity of the array (256)
  CLOCK_MAX                          \* the largest CLOCK, 2^32 - 1

ASSUME CapacityAssumption == ALARM_CONTEXT_MAX_PENDING_ALARMS \in Nat \ {0}
ASSUME ClockAssumption == CLOCK_MAX \in Nat \ {0}

Clock == 0 .. CLOCK_MAX
Wrap(n) == n % (CLOCK_MAX + 1)       \* CLOCK arithmetic is modulo 2^32

Slots(c) == 0 .. c.num - 1
IsPending(c, a) == c.pending_idx[a] # -1
DueClk(c, a) == c.clk[c.pending_idx[a]]

IsContext(c) ==
  /\ DOMAIN c = {"num", "alarm", "clk", "pending_idx", "next_clk", "next_idx"}
  /\ c.num \in 0 .. ALARM_CONTEXT_MAX_PENDING_ALARMS
  /\ c.alarm \in [Slots(c) -> Alarms]
  /\ c.clk \in [Slots(c) -> Clock]
  /\ c.pending_idx \in [Alarms -> Slots(c) \cup {-1}]
  /\ c.next_clk \in Clock
  /\ c.next_idx \in Int

-----------------------------------------------------------------------------
\* The new context comes from malloc and next_pending_alarm_idx is not
\* assigned: `garbage' is whatever the memory held.
alarm_context_init(garbage) ==
  [ num |-> 0, alarm |-> [i \in {} |-> i], clk |-> [i \in {} |-> i],
    pending_idx |-> [a \in Alarms |-> -1],
    next_clk |-> CLOCK_MAX, next_idx |-> garbage ]

\* The scan compares with <=, so among equal clocks the last slot wins.
EarliestSlot(c) ==
  CHOOSE i \in Slots(c) :
    \A j \in Slots(c) : c.clk[i] < c.clk[j] \/ (c.clk[i] = c.clk[j] /\ j <= i)

alarm_context_update_next_pending(c) ==
  IF c.num = 0
  THEN [c EXCEPT !.next_clk = CLOCK_MAX]
  ELSE [c EXCEPT !.next_clk = c.clk[EarliestSlot(c)], !.next_idx = EarliestSlot(c)]

\* An alarm that is not pending takes the next free slot.  When the array is
\* full the request is dropped: the log call that reported it is commented out.
AddPending(c, a, cpu_clk) ==
  LET n     == c.num
      first == cpu_clk < c.next_clk
  IN  IF n >= ALARM_CONTEXT_MAX_PENDING_ALARMS THEN c
      ELSE [ num         |-> n + 1,
             alarm       |-> [i \in 0 .. n |-> IF i = n THEN a ELSE c.alarm[i]],
             clk         |-> [i \in 0 .. n |-> IF i = n THEN cpu_clk ELSE c.clk[i]],
             pending_idx |-> [c.pending_idx EXCEPT ![a] = n],
             next_clk    |-> IF first THEN cpu_clk ELSE c.next_clk,
             next_idx    |-> IF first THEN n ELSE c.next_idx ]

\* A pending alarm keeps its slot; the cache is rescanned when the alarm
\* becomes the first one or was the first one.
ModifyPending(c, a, cpu_clk) ==
  LET idx == c.pending_idx[a]
      m   == [c EXCEPT !.clk[idx] = cpu_clk]
  IN  IF c.next_clk > cpu_clk \/ idx = c.next_idx
      THEN alarm_context_update_next_pending(m)
      ELSE m

alarm_set(c, a, cpu_clk) ==
  IF IsPending(c, a) THEN ModifyPending(c, a, cpu_clk) ELSE AddPending(c, a, cpu_clk)

\* The last slot moves into the hole.  The cached index follows it, unless the
\* hole was the cached slot: then the rest is rescanned.
RemovePending(c, a) ==
  LET idx  == c.pending_idx[a]
      last == c.num - 1
      moved == IF last # idx THEN [c.pending_idx EXCEPT ![c.alarm[last]] = idx]
               ELSE c.pending_idx
      m == [ num         |-> last,
             alarm       |-> [i \in 0 .. last - 1 |-> IF i = idx THEN c.alarm[last] ELSE c.alarm[i]],
             clk         |-> [i \in 0 .. last - 1 |-> IF i = idx THEN c.clk[last] ELSE c.clk[i]],
             pending_idx |-> [moved EXCEPT ![a] = -1],
             next_clk    |-> c.next_clk,
             next_idx    |-> c.next_idx ]
  IN  IF c.next_idx = idx THEN alarm_context_update_next_pending(m)
      ELSE IF c.next_idx = last THEN [m EXCEPT !.next_idx = idx]
      ELSE m

RemoveOnly(c, a) ==
  [ num |-> 0, alarm |-> [i \in {} |-> i], clk |-> [i \in {} |-> i],
    pending_idx |-> [c.pending_idx EXCEPT ![a] = -1],
    next_clk |-> CLOCK_MAX, next_idx |-> -1 ]

\* Mutant: the cached index does not follow the slot that is moved.
alarm_unset_CacheStays(c, a) ==
  IF ~ IsPending(c, a) THEN c
  ELSE IF c.num > 1
       THEN IF c.next_idx = c.pending_idx[a] THEN RemovePending(c, a)
            ELSE [RemovePending(c, a) EXCEPT !.next_idx = c.next_idx]
  ELSE RemoveOnly(c, a)

alarm_unset(c, a) ==
  IF ~ IsPending(c, a) THEN c
  ELSE IF c.num > 1 THEN RemovePending(c, a)
  ELSE RemoveOnly(c, a)

\* All pending clocks, and the cached one, move back together.
alarm_context_time_warp(c, warp_amount) ==
  [c EXCEPT !.clk      = [i \in Slots(c) |-> Wrap(c.clk[i] - warp_amount)],
            !.next_clk = Wrap(c.next_clk - warp_amount)]

\* The CPU loop's test, and the alarm whose callback is then called.
MustDispatch(c, cpu_clk) == cpu_clk >= c.next_clk
alarm_context_dispatch(c) == c.alarm[c.next_idx]

-----------------------------------------------------------------------------
\* What the operations must keep true of a table.

\* Slots and alarms point at each other: no alarm sits in two slots, none is
\* lost when the last slot is moved into a hole.
SlotsMatch(c) ==
  /\ \A i \in Slots(c) : c.pending_idx[c.alarm[i]] = i
  /\ \A a \in Alarms : IsPending(c, a) =>
       c.pending_idx[a] \in Slots(c) /\ c.alarm[c.pending_idx[a]] = a

\* The cache names a slot that holds the earliest clock.
CacheIsEarliest(c) ==
  IF c.num = 0 THEN c.next_clk = CLOCK_MAX
  ELSE /\ c.next_idx \in Slots(c)
       /\ c.next_clk = c.clk[c.next_idx]
       /\ \A i \in Slots(c) : c.next_clk <= c.clk[i]
=============================================================================
