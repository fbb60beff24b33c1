--------------------------- MODULE MC_DriveClock ----------------------------
(***************************************************************************)
(* DriveClock on small clocks: 32 or 24 values instead of 2^32, with the ratios *)
(* of the code's constants to each other kept where a guard compares them. *)
(***************************************************************************)
EXTENDS DriveClock

\* Nobody resets or switches anything: what is left must go on for ever.
QuietNext == Advance \/ BusAccess
QuietSpec == Init /\ [][QuietNext]_vars /\ WF_vars(Advance)
=============================================================================
