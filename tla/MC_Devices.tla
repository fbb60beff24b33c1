----------------------------- MODULE MC_Devices -----------------------------
(***************************************************************************)
(* What runs beside the main CPU: a drive that the user switches on and    *)
(* off and that skips cycles when it idles, the datasette, devices on the  *)
(* serial bus.  They share no state and are checked side by side: the      *)
(* first choice is which of them runs, the others stay as they start.      *)
(***************************************************************************)
EXTENDS MC_DriveClock, Datasette, MC_Serial

CONSTANT Parts
VARIABLE part

\* Short and long pulses, gaps longer than the longest alarm.
Pulses == <<2, 7, 8, 12>>

PartInit ==
  /\ part \in Parts
  /\ Init /\ DsInit
  /\ IF part = "serial" THEN TransferInit ELSE TransferAtRest

PartNext ==
  \/ part = "drive" /\ Next /\ UNCHANGED <<dsVars, transferVars, part>>
  \/ part = "datasette" /\ DsNext /\ UNCHANGED <<vars, transferVars, part>>
  \/ part = "serial" /\ TransferNext /\ UNCHANGED <<vars, dsVars, part>>

PartSpec == PartInit /\ [][PartNext]_<<vars, dsVars, transferVars, part>>

\* The types of the parts.
DevicesTypeOK == DsTypeOK /\ SerTypeOK
=============================================================================
