---------------------------- MODULE MC_Interrupt ----------------------------
(* Interrupt on small sets of lines. *)
EXTENDS Interrupt
CONSTANTS cia1, vic, cia2, cart

\* Bound of the snapshot run: what is in a snapshot multiplies the states, so it is
\* followed only from snapshots taken at clock 8, with the IRQ line just pulled, I set, no
\* NMI ever, and not from one taken while a reset is still to repair the counts.
FewImages ==
  \A i \in image :
    /\ i.cpu.clk = 8 /\ i.cpu.info = "plain" /\ i.cs.irq_clk = 7 /\ i.cs.nmi_clk = 0
    /\ ~i.edge /\ i.cs.nmi = {} /\ i.cs.irq # {} /\ Counted(i.cs)
    /\ i.cpu.I /\ i.masked /\ i.seen
=============================================================================
