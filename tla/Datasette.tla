----------------------------- MODULE Datasette -----------------------------
(***************************************************************************)
(* datasette.c: the tape recorder.  A tape is a sequence of flux changes   *)
(* with gaps between them.  One alarm plays it, winds it and, some time after the    *)
(* computer switched it off, stops the motor.  A long gap is passed in     *)
(* chunks, and the direction may change in the middle of it.               *)
(*                                                                         *)
(* Clocks are relative to maincpu_clk.  C16 half waves and the file's      *)
(* buffer are left out: a gap is read or there is none.                    *)
(***************************************************************************)
EXTENDS Integers, Sequences

CONSTANTS
  Flux,               \* where on the tape its flux changes are
  DATASETTE_MAX_GAP,  \* longest chunk
  MOTOR_DELAY,        \* from switching the motor on or off to its effect
  WindDelay,          \* from pressing a winding key to its effect
  MaxLate,            \* bound: an alarm is served so late at most (an instruction and stolen cycles)
  NOT                 \* no alarm, no motor stop

\* Where the nth change is; before the first comes the start of the tape.
Place(n) == IF n = 0 THEN 0 ELSE Flux[n]

ASSUME DatasetteAssumption ==
  /\ Flux \in Seq(Nat) /\ \A n \in DOMAIN Flux : Place(n - 1) < Place(n)
  /\ {DATASETTE_MAX_GAP, MOTOR_DELAY, WindDelay} \subseteq Nat \ {0} /\ MaxLate \in Nat /\ NOT \notin Int

VARIABLES
  ds,         \* datasette.c's variables and the image's mode and position
  motor_line, \* the computer's motor output
  seen        \* history: cycles since motor_line was switched off (MOTOR_DELAY at most), the
              \* time to the next flux change had no alarm been late, where the tape was when
              \* its counter was set back
dsVars == <<ds, motor_line, seen>>

Winding == {"FORWARD", "REWIND"}

-----------------------------------------------------------------------------
SetAlarm(d, in) == [d EXCEPT !.alarm = in, !.alarm_pending = TRUE]

UnsetAlarm(d) == [d EXCEPT !.alarm = NOT, !.alarm_pending = FALSE]

\* The gap ahead of the head or behind it, and the head moved past it; 0 at either end.
datasette_read_gap(d, direction) ==
  LET n == IF direction > 0 THEN d.pos + 1 ELSE d.pos
  IN  IF n \in DOMAIN Flux THEN [gap |-> Place(n) - Place(n - 1), d |-> [d EXCEPT !.pos = @ + direction]]
      ELSE [gap |-> 0, d |-> d]

datasette_start_motor(d) == IF d.alarm_pending THEN d ELSE SetAlarm(d, MOTOR_DELAY)

Stop(d) == [d EXCEPT !.mode = "STOP"]

datasette_internal_reset(d, ignore) ==
  LET quiet == IF d.mode \in {"START"} \cup Winding THEN UnsetAlarm(d) ELSE d
  IN  IF d.mode = "NO_IMAGE" THEN d
      ELSE [Stop(quiet) EXCEPT !.pos = IF ignore THEN @ ELSE 0, !.counter = 0, !.long_gap_pending = 0,
              !.long_gap_elapsed = 0, !.last_direction = 0, !.motor_stop = NOT]

\* datasette_forward and datasette_rewind: whatever was due is now due after WindDelay.
datasette_control_internal(d, command) ==
  LET to == [d EXCEPT !.mode = command]
      wound == IF command \in Winding THEN SetAlarm(to, WindDelay) ELSE to
  IN  CASE command = "STOP" -> to
        [] command = "RESET" -> datasette_internal_reset(d, FALSE)
        [] command = "RECORD" -> to
        [] command \in {"START"} \cup Winding -> IF d.motor THEN datasette_start_motor(wound) ELSE wound

\* Mutant: switching the motor on leaves the stop to come.
datasette_set_motor_NoAbort(d, flag) ==
  IF d.mode = "NO_IMAGE" THEN d
  ELSE IF flag THEN IF d.motor THEN d ELSE [datasette_start_motor(d) EXCEPT !.motor = TRUE]
  ELSE IF ~d.motor \/ d.motor_stop # NOT THEN d
  ELSE LET off == [d EXCEPT !.motor_stop = MOTOR_DELAY]
       IN  IF d.alarm_pending THEN off ELSE SetAlarm(off, MOTOR_DELAY)

datasette_set_motor(d, flag) ==
  IF d.mode = "NO_IMAGE" THEN d
  ELSE IF flag
  THEN LET on == [d EXCEPT !.motor_stop = NOT]
       IN  IF d.motor THEN on ELSE [datasette_start_motor(on) EXCEPT !.motor = TRUE]
  ELSE IF ~d.motor \/ d.motor_stop # NOT THEN d
  ELSE LET off == [d EXCEPT !.motor_stop = MOTOR_DELAY]
       IN  IF d.alarm_pending THEN off ELSE SetAlarm(off, MOTOR_DELAY)

\* In the new direction the gap is as long as what had elapsed of it in the old one.
Turned(d, direction) ==
  LET r == datasette_read_gap(d, direction)
  IN  IF direction + d.last_direction # 0 THEN d
      ELSE [r.d EXCEPT !.long_gap_pending = d.long_gap_elapsed,
                       !.long_gap_elapsed = r.gap - d.long_gap_elapsed]

\* The next chunk, [gap, d]; 0 at the end of the tape.
NextChunk(d, direction) ==
  LET t == Turned(d, direction)
      r == datasette_read_gap(t, direction)
      whole == IF t.long_gap_pending # 0
               THEN [gap |-> t.long_gap_pending, d |-> t]
               ELSE [r EXCEPT !.d.long_gap_elapsed = IF r.gap = 0 THEN @ ELSE 0]
      gap == IF whole.gap > DATASETTE_MAX_GAP THEN DATASETTE_MAX_GAP ELSE whole.gap
  IN  [ gap |-> gap,
        d |-> IF gap = 0 THEN whole.d
              ELSE [whole.d EXCEPT !.long_gap_pending = whole.gap - gap, !.long_gap_elapsed = @ + gap,
                                   !.last_direction = direction, !.counter = @ + direction * gap] ]

\* Wound, the tape takes a fraction of the time.
Due(gap, offset, fast) ==
  IF gap <= offset THEN 0 ELSE IF fast THEN (gap - offset) \div 2 ELSE gap - offset

\* The motor's delayed stop, once it is due.
MotorStopped(d) ==
  IF d.motor_stop = 0 THEN [d EXCEPT !.motor_stop = NOT, !.motor = FALSE] ELSE d

datasette_read_bit(d) ==
  LET s == MotorStopped(UnsetAlarm(d))
      direction == IF d.mode = "REWIND" THEN -1 ELSE 1
      c == NextChunk(s, direction)
  IN  CASE d.mode = "NO_IMAGE" -> UnsetAlarm(d)
        [] d.mode # "NO_IMAGE" /\ (~s.motor \/ d.mode \in {"STOP", "RECORD"}) -> s
        [] OTHER -> IF c.gap = 0 THEN Stop(c.d)
                    ELSE SetAlarm(c.d, Due(c.gap, -d.alarm, d.mode # "START"))

-----------------------------------------------------------------------------
DsInit ==
  /\ ds = [ mode |-> "STOP", pos |-> 0, counter |-> 0, motor |-> FALSE, motor_stop |-> NOT, alarm |-> NOT,
            alarm_pending |-> FALSE, long_gap_pending |-> 0, long_gap_elapsed |-> 0,
            last_direction |-> 0 ]
  /\ motor_line = FALSE
  /\ seen = [off_for |-> MOTOR_DELAY, due |-> NOT, zero |-> 0]

\* A cycle passes: an alarm is served late by as many cycles as could be.
Cycle ==
  /\ ds.alarm # NOT => ds.alarm > -MaxLate
  /\ ds' = [ds EXCEPT !.alarm = IF @ = NOT THEN @ ELSE @ - 1,
                      !.motor_stop = IF @ \in {NOT, 0} THEN @ ELSE @ - 1]
  /\ seen' = [seen EXCEPT !.off_for = IF motor_line \/ @ = MOTOR_DELAY THEN @ ELSE @ + 1,
                          !.due = IF @ = NOT THEN @ ELSE @ - 1]
  /\ UNCHANGED motor_line

\* While it plays, the next flux change is due a chunk after this one was; only one that was
\* over before it could begin is made up for by none.
ReadBit ==
  /\ ds.alarm # NOT /\ ds.alarm <= 0
  /\ ds' = datasette_read_bit(ds)
  /\ LET chunk == NextChunk(ds, 1).gap
         since == IF seen.due = NOT THEN ds.alarm ELSE seen.due
     IN  seen' = [seen EXCEPT !.due = IF ds.mode # "START" \/ ~ds'.alarm_pending THEN NOT
                                       ELSE IF since + chunk > 0 THEN since + chunk ELSE 0]
  /\ UNCHANGED motor_line

Control(command) ==
  /\ ds.mode # "NO_IMAGE"
  /\ ds' = datasette_control_internal(ds, command)
  /\ seen' = [seen EXCEPT !.zero = IF command = "RESET" THEN 0 ELSE @,
                          !.due = IF command = "START" THEN @ ELSE NOT]
  /\ UNCHANGED motor_line

\* c64pla.c: the port tells of a change only.
MotorLine(on) ==
  /\ motor_line # on /\ motor_line' = on
  /\ ds' = datasette_set_motor(ds, on)
  /\ seen' = [seen EXCEPT !.off_for = 0]

\* machine_reset, of an autostart that has wound the tape to its program, or not.
datasette_reset(ignore) ==
  /\ ds' = datasette_internal_reset(ds, ignore)
  /\ seen' = [seen EXCEPT !.zero = IF ds.mode = "NO_IMAGE" THEN @ ELSE Place(ds'.pos), !.due = NOT]
  /\ UNCHANGED motor_line

\* Another image, the same tape at its start, or none.
datasette_set_tape_image(image) ==
  /\ ds' = IF image
           THEN datasette_internal_reset([ds EXCEPT !.mode = "STOP", !.pos = 0, !.counter = 0], FALSE)
           ELSE [ds EXCEPT !.mode = "NO_IMAGE"]
  /\ seen' = [seen EXCEPT !.zero = IF image THEN 0 ELSE @, !.due = NOT]
  /\ UNCHANGED motor_line

DsNext ==
  \/ Cycle \/ ReadBit
  \/ \E command \in {"STOP", "RESET", "RECORD", "START"} \cup Winding : Control(command)
  \/ \E on \in BOOLEAN : MotorLine(on)
  \/ \E ignore \in BOOLEAN : datasette_reset(ignore)
  \/ \E image \in BOOLEAN : datasette_set_tape_image(image)

DsSpec == DsInit /\ [][DsNext]_dsVars

-----------------------------------------------------------------------------
(* Properties *)

\* Types; and the flag the snapshot relies on tells whether the alarm is set.
DsTypeOK ==
  /\ ds.mode \in {"NO_IMAGE", "STOP", "RECORD", "START"} \cup Winding
  /\ ds.pos \in 0 .. Len(Flux) /\ ds.last_direction \in {-1, 0, 1}
  /\ ds.long_gap_pending \in Nat /\ ds.long_gap_elapsed \in Nat
  /\ ds.alarm_pending <=> ds.alarm # NOT

\* However often the direction changes, and wherever in a gap, what the counter says and
\* what is left of the gap add up to where the head is.
TapeKnowsWhere ==
  ds.mode # "NO_IMAGE" =>
    ds.counter + seen.zero =
      Place(ds.pos) - (IF ds.last_direction < 0 THEN -ds.long_gap_pending ELSE ds.long_gap_pending)

\* While a tape plays, alarms that are late do not add up: the next flux change is due when
\* the tape says.
FluxOnTime == ds.mode = "START" /\ seen.due # NOT /\ ds.alarm # NOT => ds.alarm = seen.due

\* The motor runs on for MOTOR_DELAY, and on if it is switched on again by then.
MotorKeepsDelay ==
  [][ds.motor /\ ~ds'.motor => ~motor_line /\ seen.off_for = MOTOR_DELAY]_dsVars

\* The tape keeps its place and its time, and the motor its delay.
TapeInStep == [](TapeKnowsWhere /\ FluxOnTime) /\ MotorKeepsDelay

\* A motor that was told to stop will: datasette_read_bit is still going to be called.
MotorWillStop == ds.motor_stop # NOT => ds.alarm # NOT
=============================================================================
