---------------------------- MODULE MC_MainClock ----------------------------
(***************************************************************************)
(* MainClock with a clock of 58 values, frames of two lines of two cycles, *)
(* one or two timers and one key.                                          *)
(***************************************************************************)
EXTENDS MainClock
=============================================================================
