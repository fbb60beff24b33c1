------------------------------ MODULE MC_Chips ------------------------------
(***************************************************************************)
(* Chips: a drive CPU's alarms, a CIA with its two timers, one CIA timer   *)
(* alone, the SID's samples on their way to the host. They share no state  *)
(* and are checked side by side: the first choice is which of them runs,   *)
(* the others stay as they start.                                          *)
(***************************************************************************)
EXTENDS DriveAlarms, Cia, CiaTimerTurns, Sound

CONSTANT Parts
VARIABLE part

CraValues == {{"CR_START"}}
CrbValues == {{"CR_START", "INMODE"}, {"CR_START"}}
CrValues ==
  {{}, {"CR_START"}, {"CR_START", "CR_FLOAD"}, {"CR_START", "CR_ONESHOT"}, {"CR_START", "CNT"}}

PartInit ==
  /\ part \in Parts
  /\ Init /\ CiaInit /\ TimerInit /\ SndInit
  /\ part # "drive" => ctx = alarm_context_init(0)
  /\ part # "timer" => timer.latch = 1

PartNext ==
  \/ part = "drive" /\ Next /\ UNCHANGED <<ciaVars, timerVars, sndVars, part>>
  \/ part = "cia" /\ CiaNext /\ UNCHANGED <<vars, timerVars, sndVars, part>>
  \/ part = "timer" /\ TimerNext /\ UNCHANGED <<vars, ciaVars, sndVars, part>>
  \/ part = "audio" /\ SndNext /\ UNCHANGED <<vars, ciaVars, timerVars, part>>

PartSpec == PartInit /\ [][PartNext]_<<vars, ciaVars, timerVars, sndVars, part>>

\* LazyAsChip of the CIA timer alone (ciatimer.h), where it is the part that runs.
TimerAsChip == part = "timer" => LazyAsChip

\* The types of the parts.
ChipsTypeOK == TypeOK /\ CiaTypeOK /\ SndTypeOK
=============================================================================
