-------------------------------- MODULE Cia --------------------------------
(***************************************************************************)
(* core/ciacore.c: the two timers of a CIA and its interrupt.  The alarms  *)
(* of a timer are asked for only when somebody waits for an underflow,     *)
(* and are served late; registers may be read and written in between.      *)
(* Beside it runs the chip cycle by cycle, the reference: whatever is      *)
(* skipped, the program must not be able to tell.                          *)
(*                                                                         *)
(* The old 6526 (interrupts a cycle late).  Ports, the flag line, the shift *)
(* register, the time of day and PB6/PB7 are left out.  Clocks are relative *)
(* to the CPU's.  A register is read at most once in a cycle, and not in   *)
(* the cycle in which alarms are served: they are between two instructions, *)
(* of which the second takes cycles to fetch.                              *)
(***************************************************************************)
EXTENDS CiaTimer, FiniteSets

CONSTANTS
  Latches,    \* values written to a timer's low byte
  ControlsA,  \* values of CRA, CRB: subsets of CR_START, CR_ONESHOT, CR_FLOAD, CNT, INMODE
  ControlsB,
  MaxBehind,  \* bound: cycles a timer may lag behind
  MaxAlarmLate \* bound: cycles an alarm may be late

ASSUME CiaAssumption == Latches \subseteq Nat /\ MaxAlarmLate \in Nat /\ MaxBehind \in Nat

VARIABLES
  cia,   \* ta, tb, cra, crb, icr (the mask), irqflags (0x80 is "IR"), irq, rdi (when ICR was read),
         \* and whether the CPU may read in this cycle
  chip   \* reference: the same, its timers never behind and without alarms
ciaVars == <<cia, chip>>

TA == "TA"
TB == "TB"

\* irq is the clock the line was pulled at, from now; all that is long past is Past, or LongAgo,
\* before every clock an alarm may be served for.
Past == -MaxAlarmLate - 1
LongAgo == -MaxAlarmLate - MaxBehind - 1
my_set_int(c, at) == [c EXCEPT !.irq = IF @ = NEVER THEN at ELSE @, !.irqflags = @ \cup {"IR"}]

\* Interrupts are a cycle late, and do not come if ICR is read in that cycle.
cia_do_set_int(c, at) ==
  IF c.irqflags \cap c.icr = {} \/ c.rdi = at THEN c ELSE my_set_int(c, at + 1)

-----------------------------------------------------------------------------
(* to, off: how long ago. *)

\* Underflows raise the flag.
NoteA(c, ta) ==
  LET n == ta.n IN
  [c EXCEPT !.ta = [ta EXCEPT !.n = 0], !.irqflags = IF n > 0 THEN @ \cup {TA} ELSE @]
NoteB(c, tb) ==
  LET n == tb.n IN
  [c EXCEPT !.tb = [tb EXCEPT !.n = 0], !.irqflags = IF n > 0 THEN @ \cup {TB} ELSE @]
cia_do_update_ta(c, to) == NoteA(c, ciat_update(c.ta, to))
cia_do_update_tb(c, to) == NoteB(c, ciat_update(c.tb, to))

Cascaded(c) == {"CR_START", "INMODE"} \subseteq c.crb

\* Running and continuous: the next alarm, if an underflow is to interrupt.
AskedB(c) ==
  IF c.crb \cap {"CR_START", "CR_ONESHOT", "CNT", "INMODE"} = {"CR_START"} /\ TB \in c.icr
  THEN [c EXCEPT !.tb = ciat_set_alarm(@)] ELSE c
AckedB(c) == [c EXCEPT !.tb = ciat_ack_alarm(@)]
ciacore_inttb(c, off) == cia_do_set_int(AskedB(AckedB(cia_do_update_tb(c, off))), -off)

\* The alarms that became due are served first (an underflow may come every cycle).
TbAlarms(c, to) ==
  FoldLeft(LAMBDA acc, i : IF acc.tb.alarm # NEVER /\ acc.tb.alarm <= -to
                           THEN ciacore_inttb(acc, -acc.tb.alarm) ELSE acc,
           c, [i \in 1 .. MaxBehind + 2 |-> i])

\* cia_update_tb; by ciacore_intta itself timer A is up to date.
UpdateTb(c, to) == cia_do_update_tb(TbAlarms(c, to), to)

\* Mutant: no alarm while the interrupt is not enabled, whoever counts the underflows.
NeedsAlarmA_NotCascaded(c) == TA \in c.icr /\ "IR" \notin c.irqflags

NeedsAlarmA(c) == (TA \in c.icr /\ "IR" \notin c.irqflags) \/ "INMODE" \in c.crb

AskedA(c) ==
  IF c.cra \cap {"CR_START", "CR_ONESHOT", "CNT"} = {"CR_START"} /\ NeedsAlarmA(c)
  THEN [c EXCEPT !.ta = ciat_set_alarm(@)] ELSE c
AckedA(c) == [c EXCEPT !.ta = ciat_ack_alarm(@)]
\* An underflow of timer A is a step of timer B.
Stepped(c, off) ==
  IF Cascaded(c) THEN [UpdateTb(c, off) EXCEPT !.tb = ciat_single_step(@)] ELSE c
ciacore_intta(c, off) == cia_do_set_int(Stepped(AskedA(AckedA(cia_do_update_ta(c, off))), off), -off)

TaAlarms(c, to) ==
  FoldLeft(LAMBDA acc, i : IF acc.ta.alarm # NEVER /\ acc.ta.alarm <= -to
                           THEN ciacore_intta(acc, -acc.ta.alarm) ELSE acc,
           c, [i \in 1 .. MaxBehind + 2 |-> i])

cia_update_ta(c, to) == cia_do_update_ta(TaAlarms(c, to), to)
cia_update_tb(c, to) == UpdateTb(IF Cascaded(c) THEN cia_update_ta(c, to) ELSE c, to)

-----------------------------------------------------------------------------
(* The registers.  Each reads and writes now, the chip as well as the program. *)

\* What a write does to the chip, and what the program does beside it.
StoreTAL(c, v) == [c EXCEPT !.ta = ciat_set_latchlo(@, v)]
StoreTAH(c) == [c EXCEPT !.ta = ciat_set_latchhi(@)]
StoreTBL(c, v) == [c EXCEPT !.tb = ciat_set_latchlo(@, v)]
StoreTBH(c) == [c EXCEPT !.tb = ciat_set_latchhi(@)]
StoreCRA(c, bits) == [c EXCEPT !.ta = ciat_set_ctrl(@, bits), !.cra = bits \ {"CR_FLOAD"}]
StoreCRB(c, bits) ==
  [c EXCEPT !.tb = ciat_set_ctrl(@, IF "INMODE" \in bits THEN bits \cup {"CNT"} ELSE bits),
            !.crb = bits \ {"CR_FLOAD"}]

AlarmA(c) == [c EXCEPT !.ta = ciat_set_alarm(@)]
AlarmB(c) == [c EXCEPT !.tb = ciat_set_alarm(@)]

StoreICR(c, icr) ==
  LET m == [c EXCEPT !.icr = icr]
  IN  IF m.irqflags \cap icr # {} THEN cia_do_set_int(m, 1) ELSE m

\* Mutant: the flags are read and the line stays.
ClearICR_FlagsOnly(c) == [c EXCEPT !.irqflags = {}]

ClearICR(c) == [c EXCEPT !.irqflags = {}, !.irq = NEVER]

-----------------------------------------------------------------------------
CiaInit ==
  /\ \E l \in Latches :
       LET t == [state |-> {}, latch |-> l, cnt |-> l, behind |-> 0, alarm |-> NEVER, n |-> 0]
       IN  cia = [ ta |-> t, tb |-> t, cra |-> {}, crb |-> {}, icr |-> {}, irqflags |-> {},
                   irq |-> NEVER, rdi |-> LongAgo, free |-> TRUE ]
  /\ chip = cia

Aged(t) == [t EXCEPT !.behind = @ + 1, !.alarm = IF @ = NEVER THEN @ ELSE @ - 1]
Older(c) ==
  [c EXCEPT !.irq = IF @ = NEVER \/ @ = Past THEN @ ELSE @ - 1,
            !.rdi = IF @ = LongAgo THEN @ ELSE @ - 1, !.free = TRUE]
InTime(t) == t.behind < MaxBehind /\ (t.alarm # NEVER => t.alarm > -MaxAlarmLate)

\* The chip: both timers count; where A underflows B is stepped; a flag that is enabled
\* pulls the line in the next cycle, and bit 7 is set when it does.
Pulled(c) == IF c.irq = 0 THEN [c EXCEPT !.irqflags = @ \cup {"IR"}] ELSE c
ChipCycle(c) ==
  LET a == NoteA(Pulled(c), Inc(Aged(c.ta)))
      b == NoteB(a, Inc(Aged(a.tb)))
      s == IF Inc(Aged(c.ta)).n > 0 /\ Cascaded(c) /\ "CR_START" \in b.tb.state
           THEN [b EXCEPT !.tb.state = @ \cup {"STEP"}] ELSE b
  IN  IF s.irqflags \cap s.icr = {} \/ s.irq # NEVER THEN s ELSE [s EXCEPT !.irq = 1]

CiaCycle ==
  /\ InTime(cia.ta) /\ InTime(cia.tb)
  /\ cia' = [Older(cia) EXCEPT !.ta = Aged(@), !.tb = Aged(@)]
  /\ chip' = ChipCycle(Older(chip))

Busy(c) == [c EXCEPT !.free = FALSE]
DueFirst(t, other) == t.alarm # NEVER /\ t.alarm <= 0 /\ (other.alarm # NEVER => t.alarm <= other.alarm)
AlarmTa ==
  /\ DueFirst(cia.ta, cia.tb)
  /\ cia' = Busy(ciacore_intta(cia, -cia.ta.alarm)) /\ UNCHANGED chip
AlarmTb ==
  /\ DueFirst(cia.tb, cia.ta)
  /\ cia' = Busy(ciacore_inttb(cia, -cia.tb.alarm)) /\ UNCHANGED chip

CiaStore ==
  LET a == cia_update_ta(Busy(cia), 0)
      b == cia_update_tb(Busy(cia), 0)
      ab == cia_update_tb(a, 0)
  IN  \/ \E v \in Latches : cia' = AlarmA(StoreTAL(a, v)) /\ chip' = StoreTAL(chip, v)
      \/ cia' = AlarmA(StoreTAH(a)) /\ chip' = StoreTAH(chip)
      \/ \E v \in Latches : cia' = AlarmB(StoreTBL(b, v)) /\ chip' = StoreTBL(chip, v)
      \/ cia' = AlarmB(StoreTBH(b)) /\ chip' = StoreTBH(chip)
      \/ \E bits \in ControlsA :
           cia' = AlarmA(StoreCRA(a, bits)) /\ chip' = StoreCRA(chip, bits)
      \/ \E bits \in ControlsB :
           /\ cia' = AlarmB(StoreCRB(IF "INMODE" \in bits THEN AlarmA(ab) ELSE ab, bits))
           /\ chip' = StoreCRB(chip, bits)
      \/ \E icr \in SUBSET {TA, TB} :
           LET s == StoreICR(ab, icr)
               sa == IF TA \in icr THEN AlarmA(s) ELSE s
           IN  cia' = (IF TB \in icr THEN AlarmB(sa) ELSE sa) /\ chip' = StoreICR(chip, icr)

\* What the flags are when they are read now, and reading clears them.
LookedAt(c) == cia_update_tb(cia_update_ta([c EXCEPT !.rdi = 0], 0), 0)
ReadICR ==
  /\ cia.free
  /\ cia' = ClearICR(AlarmB(AlarmA(LookedAt(Busy(cia)))))
  /\ chip' = ClearICR(chip)

\* The other registers that are read bring the timers up to date.
ReadTimers ==
  /\ cia.free
  /\ \/ cia' = cia_update_ta(Busy(cia), 0)
     \/ cia' = cia_update_tb(Busy(cia), 0)
  /\ UNCHANGED chip

CiaNext == CiaCycle \/ AlarmTa \/ AlarmTb \/ CiaStore \/ ReadICR \/ ReadTimers

CiaSpec == CiaInit /\ [][CiaNext]_ciaVars

-----------------------------------------------------------------------------
(* Properties *)

Timers(c) == {c.ta, c.tb}

\* Types; a timer is never ahead of the CPU and never further behind than is allowed for.
CiaTypeOK ==
  /\ \A t \in Timers(cia) : t.state \subseteq Bits /\ t.cnt \in Nat /\ t.n = 0 /\ t.behind \in 0 .. MaxBehind
  /\ cia.icr \subseteq {TA, TB} /\ cia.irqflags \subseteq {TA, TB, "IR"}
  /\ cia.irq = NEVER <=> "IR" \notin cia.irqflags

\* The one case in which bit 7 shows early: timer A underflows now and is served, but B has
\* an alarm from an earlier cycle still to come, and sees A's flag when it is served after it.
Overtaken(c) == c.ta.alarm = 0 /\ c.tb.alarm # NEVER /\ c.tb.alarm < 0

\* What the program would see if it looked now is what the chip shows: both counters,
\* whether they run, and, in a cycle in which it may look, the flags with bit 7.
SeenAsOnChip ==
  LET seen == LookedAt(cia)
  IN  /\ seen.ta.cnt = chip.ta.cnt /\ seen.tb.cnt = chip.tb.cnt
      /\ ciat_is_running(seen.ta) = ciat_is_running(chip.ta)
      /\ ciat_is_running(seen.tb) = ciat_is_running(chip.tb)
      /\ cia.free =>
           \/ seen.irqflags = chip.irqflags
           \/ Overtaken(cia) /\ seen.irqflags = chip.irqflags \cup {"IR"}

\* When no alarm is due the line is pulled if and only if the chip pulls it, and since the
\* same cycle but for the cycles an alarm may be late.
InterruptAsOnChip ==
  (\A t \in Timers(cia) : t.alarm # NEVER => t.alarm > 0) =>
    /\ cia.irq = NEVER <=> chip.irq = NEVER
    /\ chip.irq # NEVER => cia.irq - chip.irq \in -MaxAlarmLate .. MaxAlarmLate

\* The program cannot tell the lazy chip from the chip.
AsOnChip == SeenAsOnChip /\ InterruptAsOnChip
=============================================================================
