------------------------------ MODULE CiaTimer ------------------------------
(***************************************************************************)
(* core/ciatimer.h and ciatimer.c: one timer of a CIA.  The chip is        *)
(* described cycle by cycle (Inc); the program computes many cycles at     *)
(* once, and only when somebody looks (ciat_update), and tells ahead when  *)
(* the counter will underflow (ciat_set_alarm).                            *)
(*                                                                         *)
(* No variables: a timer is a record t = [state, latch, cnt, behind,       *)
(* alarm, n].  behind is how far state->clk lags behind the CPU's clock,   *)
(* alarm is alarmclk from now, or NEVER, and n counts underflows.          *)
(***************************************************************************)
EXTENDS Integers, Sequences, FiniteSetsExt, SequencesExt

CONSTANT NEVER

Bits == {"CR_START", "CR_ONESHOT", "CR_FLOAD", "PHI2IN", "STEP", "COUNT2", "COUNT3", "COUNT",
         "LOAD1", "LOAD", "ONESHOT0", "ONESHOT", "OUT"}
CR_MASK == {"CR_START", "CR_ONESHOT", "CR_FLOAD", "PHI2IN"}

\* ciat_init_table: how the bits move through the chip in a cycle.
ciat_table(s) ==
  {b \in Bits :
     \/ b \in {"CR_START", "CR_ONESHOT", "PHI2IN"} \cap s
     \/ b = "COUNT2" /\ {"CR_START", "PHI2IN"} \subseteq s
     \/ b = "COUNT3" /\ ("COUNT2" \in s \/ {"STEP", "CR_START"} \subseteq s)
     \/ b = "COUNT" /\ "COUNT3" \in s
     \/ b = "LOAD1" /\ "CR_FLOAD" \in s
     \/ b = "LOAD" /\ "LOAD1" \in s
     \/ b = "ONESHOT0" /\ "CR_ONESHOT" \in s
     \/ b = "ONESHOT" /\ "ONESHOT0" \in s}

\* What the end of a cycle does: underflow, load, the end of one shot.
Underflows(t) == t.cnt = 0 /\ "COUNT3" \in t.state
EndOfCycle(t) ==
  LET out  == IF Underflows(t) THEN t.state \cup {"LOAD", "OUT"} ELSE t.state
      in   == IF "LOAD" \in out THEN out \ {"COUNT3"} ELSE out
      over == "OUT" \in in /\ in \cap {"ONESHOT", "ONESHOT0"} # {}
  IN  [t EXCEPT !.state = IF over THEN in \ {"CR_START", "COUNT2"} ELSE in,
                !.cnt = IF "LOAD" \in out THEN t.latch ELSE @,
                !.n = IF Underflows(t) THEN @ + 1 ELSE @]

Counted(t) ==
  [t EXCEPT !.cnt = IF @ # 0 /\ "COUNT3" \in t.state THEN @ - 1 ELSE @,
            !.state = ciat_table(@), !.behind = @ - 1]
Inc(t) == EndOfCycle(Counted(t))

Settled(s) ==
  \/ {"CR_ONESHOT", "ONESHOT0", "ONESHOT"} \subseteq s
  \/ s \cap {"CR_ONESHOT", "ONESHOT0", "ONESHOT"} = {}
Counting(s) ==
  /\ s \cap {"CR_START", "CR_FLOAD", "LOAD1", "PHI2IN", "COUNT2", "COUNT3", "COUNT", "LOAD"}
       = {"CR_START", "PHI2IN", "COUNT2", "COUNT3", "COUNT"}
  /\ Settled(s)
Stopped(s) ==
  /\ s \cap {"COUNT2", "COUNT3", "COUNT"} = {} /\ Settled(s)
  /\ "CR_START" \notin s \/ s \cap {"PHI2IN", "STEP"} = {}

-----------------------------------------------------------------------------

\* One turn of ciat_set_alarm's loop.
Ahead(t, aclk) ==
  IF Counting(t.state) THEN [at |-> aclk + t.cnt, found |-> TRUE, t |-> t, clk |-> aclk]
  ELSE IF Stopped(t.state) THEN [at |-> NEVER, found |-> TRUE, t |-> t, clk |-> aclk]
  ELSE LET next == Inc(t) IN [at |-> aclk + 1, found |-> next.n > t.n, t |-> next, clk |-> aclk + 1]

\* The loop ends when the bits have moved through, a load included.
Turns(t) == t.cnt + t.latch + 8

ciat_set_alarm(t) ==
  LET turn(acc, i) == IF acc.found THEN acc ELSE Ahead(acc.t, acc.clk)
  IN  [t EXCEPT !.alarm = FoldLeft(turn, Ahead(t, -t.behind), [i \in 1 .. Turns(t) |-> i]).at]
ciat_ack_alarm(t) == [t EXCEPT !.alarm = NEVER]

\* Mutant: the cycle in which the latch is loaded is forgotten.
Warped_NoReload(t, left) ==
  IF t.cnt > left THEN [t EXCEPT !.cnt = @ - left, !.behind = @ - left]
  ELSE IF t.state \cap {"CR_ONESHOT", "ONESHOT0"} # {} \/ t.latch = 0
  THEN [t EXCEPT !.cnt = 0, !.behind = @ - t.cnt]
  ELSE LET m == (left - t.cnt) \div t.latch
       IN  [t EXCEPT !.cnt = 0, !.behind = @ - t.cnt - m * t.latch, !.n = @ + m]

\* left cycles at once, or to the underflow, or over as many underflows as there are.
Warped(t, left) ==
  IF t.cnt > left THEN [t EXCEPT !.cnt = @ - left, !.behind = @ - left]
  ELSE IF t.state \cap {"CR_ONESHOT", "ONESHOT0"} # {}
  THEN [t EXCEPT !.cnt = 0, !.behind = @ - t.cnt]
  ELSE LET m == (left - t.cnt) \div (t.latch + 1)
       IN  [t EXCEPT !.cnt = 0, !.behind = @ - t.cnt - m * (t.latch + 1), !.n = @ + m]

\* The shortest period, two cycles at a time.
Pairs(t, left) ==
  IF left < 2 THEN Counted(t)
  ELSE [t EXCEPT !.behind = @ - 2 * (left \div 2), !.n = @ + left \div 2]

\* Up to the clock that is `to` cycles ago.
ciat_update(t, to) ==
  LET turn(acc, i) ==
        LET left == acc.behind - to
            s == acc.state
        IN  IF left <= 0 THEN acc
            ELSE EndOfCycle(
              CASE Counting(s) -> Warped(acc, left)
                [] Stopped(s) /\ s \cap {"CR_FLOAD", "LOAD1", "LOAD"} = {} -> [acc EXCEPT !.behind = to]
                [] s = {"COUNT", "OUT", "LOAD", "PHI2IN", "COUNT2", "CR_START"} /\ acc.cnt = 1 /\ acc.latch = 1
                     -> Pairs(acc, left)
                [] OTHER -> Counted(acc))
  IN  FoldLeft(turn, t, [i \in 1 .. (t.behind - to) |-> i])

-----------------------------------------------------------------------------
(* Needs update before. *)

\* The low byte is the whole of the small counts; the high one is written as 0.
ciat_set_latchlo(t, byte) ==
  [t EXCEPT !.latch = byte, !.cnt = IF "LOAD" \in t.state THEN byte ELSE @]
ciat_set_latchhi(t) ==
  [t EXCEPT !.cnt = IF "LOAD" \in t.state \/ "CR_START" \notin t.state THEN t.latch ELSE @]
\* bits: CR_START, CR_ONESHOT, CR_FLOAD, and CNT instead of PHI2IN.
ciat_set_ctrl(t, bits) ==
  [t EXCEPT !.state = (@ \ CR_MASK) \cup (bits \cap CR_MASK) \cup (IF "CNT" \in bits THEN {} ELSE {"PHI2IN"})]
ciat_single_step(t) ==
  IF "CR_START" \in t.state THEN ciat_set_alarm([t EXCEPT !.state = @ \cup {"STEP"}]) ELSE t
ciat_is_running(t) == "CR_START" \in t.state
=============================================================================
