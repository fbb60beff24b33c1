------------------------------ MODULE MC_Live -------------------------------
(***************************************************************************)
(* What must eventually happen, where the threads or the CPU are fair: the *)
(* interrupts are served, and the emulator is not held up by the sound     *)
(* device.  The two share no state; the first choice is which one runs.    *)
(***************************************************************************)
EXTENDS MC_Interrupt, Sound

CONSTANT Parts
VARIABLE part

LiveInit == part \in Parts /\ Init /\ SndInit
LiveNext ==
  \/ part = "interrupt" /\ Next /\ UNCHANGED <<sndVars, part>>
  \/ part = "audio" /\ SndNext /\ UNCHANGED <<vars, part>>
\* The fairness of Interrupt and of Sound, each for the part that runs.
LiveFairness ==
  /\ WF_vars(part = "interrupt" /\ DO_INTERRUPT)
  /\ WF_vars(part = "interrupt" /\ Instruction)
  /\ WF_vars(part = "interrupt" /\ End)
  /\ WF_vars(part = "interrupt" /\ clk_guard_prevent_overflow)
  /\ WF_sndVars(part = "audio" /\ Emulator)
  /\ WF_sndVars(part = "audio" /\ WriterStep)
  /\ WF_sndVars(part = "audio" /\ ThreadStep)
  /\ WF_sndVars(part = "audio" /\ HardwareStep)
LiveSpec == LiveInit /\ [][LiveNext]_<<vars, sndVars, part>> /\ LiveFairness
=============================================================================
