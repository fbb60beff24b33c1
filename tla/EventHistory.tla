---------------------------- MODULE EventHistory ----------------------------
(***************************************************************************)
(* event.c: what the user does to the machine is recorded with the clock   *)
(* at which it was done, and played back later from the same snapshot: the *)
(* machine must be given each input at the very cycle it was given then,   *)
(* although the guard takes cycles off the clock on the way and a reset    *)
(* sets it back.                                                           *)
(***************************************************************************)
EXTENDS ClkGuard, Sequences, SequencesExt

CONSTANTS
  Second,       \* machine_get_cycles_per_second()
  Frame,        \* cycles between two checks of the guard
  ResetClk,     \* the clock after a reset
  StartClks,    \* the clock when recording starts
  StartModes,   \* EventStartMode: "FILE_SAVE", "RESET"
  MaxInputs,    \* bound: inputs of a recording
  MaxTime       \* bound: cycles of a recording

\* A second is less than what the guard leaves on the clock.
ASSUME EventAssumption ==
  /\ Second \in Nat \ {0} /\ Frame \in Nat \ {0} /\ ResetClk \in Nat
  /\ Second <= CLKGUARD_SUB_MIN /\ ClkMaxValue > 2 * CLKGUARD_SUB_MIN + Second + Frame
  /\ MaxInputs \in Nat /\ MaxTime \in Nat

VARIABLES
  phase,               \* record_active, playback_active: idle, recording, playing, ended
  clk,                 \* maincpu_clk
  list, current,       \* event_list: the events, and the next to play (0: at the end)
  alarm,               \* event_alarm: the clocks it is set to, none or one
  next_timestamp_clk,
  reset_asked,         \* a reset was asked for
  line,                \* the alarm at the end of the frame is due
  saved,               \* the snapshots, start and milestone (the last end snapshot)
  history              \* history: cycles since the start; the inputs the recorded machine
                       \* was given and those the playing one was, with their times; has
                       \* anything come between asking for a reset and the reset, two inputs
                       \* just before a subtraction, or a reset while a second was due
evVars == <<phase, clk, list, current, alarm, next_timestamp_clk, reset_asked, line, saved, history>>

Event(type, c) == [type |-> type, clk |-> c]
Recorded(type) == IF phase = "recording" THEN Append(list, Event(type, clk)) ELSE list
Given(log, type) == Append(log, [type |-> type, time |-> history.time])
\* Nothing is due.  A muddled recording is not followed any further.
Settled == ~history.muddled /\ ~line /\ ~reset_asked /\ \A a \in alarm : a > clk

-----------------------------------------------------------------------------
(* event_snapshot_read_module: what was written, with a timestamp each second. *)

Bound(e) ==
  IF e.type = "OVERFLOW" /\ e.clk < ClkMaxValue THEN ClkMaxValue ELSE e.clk

AddEvent(acc, e) ==
  LET first == IF e.type = "INITIAL" THEN e.clk ELSE acc.next
      n     == IF first >= Bound(e) \/ e.type = "INITIAL" THEN 0
               ELSE (Bound(e) - first + Second - 1) \div Second
      next  == first + n * Second
  IN  [ next |-> CASE e.type = "OVERFLOW" -> next - clk_guard_clock_sub
                   [] e.type = "RESETCPU" -> next - e.clk
                   [] OTHER -> next,
        list |-> acc.list \o [i \in 1 .. n |-> Event("TIMESTAMP", first + (i - 1) * Second)] \o <<e>> ]

\* In the mode "RESET" seconds are counted from clock 0.
event_snapshot_read_module(written, mode) ==
  LET ends == {i \in DOMAIN written : written[i].type = "LIST_END"}
      end  == CHOOSE i \in ends : \A j \in ends : i <= j
      body == SelectSeq(SubSeq(written, 2, end), LAMBDA e : e.type # "TIMESTAMP")
  IN  FoldLeft(AddEvent,
        [next |-> IF mode = "RESET" THEN 0 ELSE written[1].clk, list |-> <<written[1]>>], body)

\* Mutant: the guard's subtraction is not foreseen.
AlarmFor_AsIs(e, now) == {e.clk}

\* next_alarm_set: an event that seems to be long past is one of after the next subtraction.
AlarmFor(e, now) ==
  {IF now > CLKGUARD_SUB_MIN /\ e.clk < now - CLKGUARD_SUB_MIN
   THEN e.clk + clk_guard_clock_sub ELSE e.clk}

-----------------------------------------------------------------------------
EvInit ==
  /\ phase = "idle" /\ clk \in StartClks
  /\ list = <<>> /\ current = 0 /\ alarm = {} /\ next_timestamp_clk = 0
  /\ reset_asked = FALSE /\ line = FALSE
  /\ \E m \in StartModes : saved = [mode |-> m, clk |-> 0, milestone |-> {}]
  /\ history = [time |-> 0, log |-> <<>>, played |-> <<>>, muddled |-> FALSE]

\* A reset asked for in a trap is done at once (6510core.h: the reset follows the trap).
event_record_start_trap ==
  /\ phase = "idle"
  /\ phase' = "recording"
  /\ list' = <<Event("INITIAL", clk)>>
  /\ IF saved.mode = "RESET" THEN next_timestamp_clk' = 0 /\ clk' = ResetClk
     ELSE next_timestamp_clk' = clk /\ UNCHANGED clk
  /\ alarm' = {next_timestamp_clk'}
  /\ saved' = [saved EXCEPT !.clk = clk]
  /\ UNCHANGED <<current, reset_asked, line, history>>

Recordings == phase = "recording" /\ Len(history.log) < MaxInputs

\* The second event of one boundary, just before the guard subtracts there.
SecondAtTheGuard == line /\ NeedsSubtraction(clk) /\ Last(list).clk = clk

\* A key, a joystick, the datasette: recorded where the machine is given it.
Input ==
  /\ Recordings
  /\ list' = Recorded("INPUT")
  /\ history' = [history EXCEPT !.log = Given(@, "INPUT"), !.muddled = @ \/ reset_asked \/ SecondAtTheGuard]
  /\ UNCHANGED <<phase, clk, current, alarm, next_timestamp_clk, reset_asked, line, saved>>

machine_trigger_reset ==
  /\ Recordings /\ ~reset_asked
  /\ list' = Recorded("RESETCPU")
  /\ next_timestamp_clk' = next_timestamp_clk - clk
  /\ reset_asked' = TRUE
  /\ history' = [history EXCEPT !.log = Given(@, "RESETCPU"),
                            !.muddled = @ \/ SecondAtTheGuard \/ next_timestamp_clk < clk]
  /\ UNCHANGED <<phase, clk, current, alarm, line, saved>>

\* event_reset_ack: the reset that was to be played has been.
AfterAck(events, i) == IF events[i].type = "RESETCPU" THEN i + 1 ELSE i

\* cpu_reset and machine_reset, at the next boundary.
machine_reset_clock ==
  /\ reset_asked /\ ~line
  /\ reset_asked' = FALSE /\ clk' = ResetClk
  /\ IF phase = "playing"
     THEN current' = AfterAck(list, current) /\ alarm' = AlarmFor(list[current'], clk')
     ELSE /\ alarm' = IF phase = "recording" THEN {next_timestamp_clk} ELSE alarm
          /\ UNCHANGED current
  /\ UNCHANGED <<phase, list, next_timestamp_clk, line, saved, history>>

\* In a trap: the end snapshot is written, and recording goes on.
event_record_set_milestone_trap ==
  /\ phase = "recording" /\ Settled /\ saved.milestone = {}
  /\ saved' = [saved EXCEPT !.milestone =
       {[clk |-> clk, list |-> Append(list, Event("LIST_END", 0)), next |-> next_timestamp_clk, history |-> history]}]
  /\ UNCHANGED <<phase, clk, list, current, alarm, next_timestamp_clk, reset_asked, line, history>>

\* Recording goes on where the history read ends.
warp_end_list(events) == SubSeq(events, 1, Len(events) - 1)

\* Back to the milestone.
event_record_reset_milestone_trap ==
  /\ phase = "recording" /\ Settled
  /\ \E m \in saved.milestone :
       /\ m.history.time < history.time
       /\ clk' = m.clk /\ next_timestamp_clk' = m.next /\ alarm' = {m.next} /\ history' = m.history
       /\ list' = warp_end_list(event_snapshot_read_module(m.list, saved.mode).list)
  /\ saved' = [saved EXCEPT !.milestone = {}]
  /\ UNCHANGED <<phase, current, reset_asked, line>>

\* event_record_stop with its trap, then event_playback_start with its: the start snapshot
\* is loaded, or the machine reset.
StopAndPlayBack ==
  /\ phase = "recording" /\ Settled
  /\ phase' = "playing"
  /\ LET read == event_snapshot_read_module(Append(list, Event("LIST_END", clk)), saved.mode)
     IN  /\ list' = read.list /\ next_timestamp_clk' = read.next
         /\ IF saved.mode = "RESET" THEN clk' = ResetClk /\ current' = AfterAck(read.list, 2)
            ELSE clk' = saved.clk /\ current' = 2
         /\ alarm' = AlarmFor(read.list[current'], clk')
  /\ history' = [history EXCEPT !.time = 0]
  /\ saved' = [saved EXCEPT !.milestone = {}]
  /\ UNCHANGED <<reset_asked, line>>

\* EventStartMode PLAYBACK: playing stops here and recording goes on.
TakeOver ==
  /\ phase = "playing" /\ Settled
  /\ phase' = "recording"
  /\ list' = SubSeq(list, 1, current - 1) /\ current' = 0
  /\ next_timestamp_clk' = clk /\ alarm' = {clk}
  /\ history' = [history EXCEPT !.log = history.played, !.played = <<>>]
  /\ saved' = [saved EXCEPT !.milestone = {}]
  /\ UNCHANGED <<clk, reset_asked, line>>

event_alarm_handler ==
  /\ \E a \in alarm : a <= clk
  /\ IF phase = "recording"
     THEN /\ next_timestamp_clk' = next_timestamp_clk + Second
          /\ alarm' = {next_timestamp_clk'}
          /\ history' = [history EXCEPT !.muddled = @ \/ reset_asked]
          /\ UNCHANGED <<phase, current, reset_asked>>
     ELSE LET type == list[current].type
          IN  /\ history' = IF type \in {"INPUT", "RESETCPU"}
                         THEN [history EXCEPT !.played = Given(@, type)] ELSE history
              /\ reset_asked' = (reset_asked \/ type = "RESETCPU")
              /\ phase' = IF type = "LIST_END" THEN "ended" ELSE phase
              /\ IF type \in {"LIST_END", "RESETCPU"}
                 THEN alarm' = {} /\ UNCHANGED current
                 ELSE current' = current + 1 /\ alarm' = AlarmFor(list[current'], clk)
              /\ UNCHANGED next_timestamp_clk
  /\ UNCHANGED <<clk, list, line, saved>>

TimestampWarped(next) == IF next # 0 THEN next - clk_guard_clock_sub ELSE 0

\* The end of a frame: the guard, with event.c's callback and the alarms'.
EndOfFrame ==
  /\ line /\ line' = FALSE
  /\ IF NeedsSubtraction(clk)
     THEN /\ clk' = clk - clk_guard_clock_sub
          /\ list' = IF phase = "recording" THEN Append(list, Event("OVERFLOW", clk')) ELSE list
          /\ next_timestamp_clk' = TimestampWarped(next_timestamp_clk)
          /\ alarm' = {a - clk_guard_clock_sub : a \in alarm}
          /\ history' = [history EXCEPT !.muddled = @ \/ reset_asked]
     ELSE UNCHANGED <<clk, list, next_timestamp_clk, alarm, history>>
  /\ UNCHANGED <<phase, current, reset_asked, saved>>

Tick ==
  /\ Settled /\ phase \in {"recording", "playing"} /\ history.time < MaxTime
  /\ clk' = clk + 1
  /\ history' = [history EXCEPT !.time = @ + 1]
  /\ line' = (history.time' % Frame = 0)
  /\ UNCHANGED <<phase, list, current, alarm, next_timestamp_clk, reset_asked, saved>>

EvNext ==
  \/ event_record_start_trap \/ Input \/ machine_trigger_reset \/ machine_reset_clock
  \/ event_record_set_milestone_trap \/ event_record_reset_milestone_trap
  \/ StopAndPlayBack \/ TakeOver \/ event_alarm_handler \/ EndOfFrame \/ Tick

EvSpec == EvInit /\ [][EvNext]_evVars

-----------------------------------------------------------------------------
(* Properties *)

EvTypeOK ==
  /\ clk \in Nat /\ (phase = "recording" /\ ~history.muddled => next_timestamp_clk \in Nat) /\ current \in 0 .. Len(list)
  /\ \A i \in DOMAIN list : list[i].clk \in Nat
  /\ alarm = {} \/ \E a \in alarm : alarm = {a}

\* The playing machine is given what the recorded one was, each input at the same cycle.
PlayedAsRecorded ==
  phase \in {"playing", "ended"} /\ ~history.muddled => IsPrefix(history.played, history.log)

\* No input is late: when time goes on, all that were given by now have been, and at the end
\* of the history all.
NothingLate ==
  /\ ~history.muddled
  /\ phase = "ended" \/ (phase = "playing" /\ Settled)
  => \A i \in DOMAIN history.log :
       history.log[i].time <= history.time \/ phase = "ended" => i <= Len(history.played)

\* While recording the seconds are counted: the alarm is never further off than one, also
\* after a subtraction, a reset or a return to the milestone.
SecondsCounted ==
  phase = "recording" /\ ~reset_asked /\ ~history.muddled =>
    alarm = {next_timestamp_clk} /\ next_timestamp_clk <= clk + Second

\* The replay is the recording: the same inputs at the same cycles, none late, and the seconds
\* in the history are seconds.
ReplayIsExact == PlayedAsRecorded /\ NothingLate /\ SecondsCounted
=============================================================================
