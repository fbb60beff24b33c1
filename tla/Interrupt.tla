----------------------------- MODULE Interrupt ------------------------------
(***************************************************************************)
(* The interrupt status of a CPU (src/src/interrupt.c, interrupt.h) and    *)
(* the CPU's loop around it (src/src/6510core.c, maincpu.c).               *)
(*                                                                         *)
(* Devices pull the IRQ and NMI lines, the user asks for resets, traps and *)
(* breakpoints; the CPU looks once per instruction, at the DO_INTERRUPT    *)
(* boundary.  `phase' is the place in the loop: "alarms" before the        *)
(* boundary, "fetch" after it, "access" in the middle of an instruction    *)
(* that reads or writes a device.                                          *)
(*                                                                         *)
(* The history variable h keeps what the lines and the user really did:    *)
(*   edge     the NMI line rose and the CPU has not answered yet           *)
(*   seen     the IRQ line was low at some moment since the last boundary  *)
(*   masked   the I flag the last instruction was polled with              *)
(*   wanted   the traps triggered and not called yet                       *)
(*   monitor  a breakpoint is set                                          *)
(*   took     what the CPU did at the last boundary                        *)
(* Cycles stolen by the video chip (dma.c) are not modelled: no DMA, so    *)
(* last_stolen_cycles_clk <= cpu_clk.                                      *)
(***************************************************************************)
EXTENDS ClkGuard, FiniteSets

CONSTANTS
  IrqLines, NmiLines,  \* the interrupt numbers that pull IRQ and NMI
  SavedLines,          \* those whose device restores its line from a snapshot
  CLOCK_MAX,
  MaxCycles,           \* cycles of the longest instruction
  HandlerCycles,       \* NMI_CYCLES and IRQ_CYCLES
  Traps,               \* trap functions: "save", "load", "other"
  Events               \* what the user does: "reset", "trap" (a second trap while one
                       \* waits), "monitor", "jam", "menu" (the in-game menu)

INTERRUPT_DELAY == 2
Lines == IrqLines \cup NmiLines
Clock == 0 .. CLOCK_MAX
NULL == "NULL"

ASSUME InterruptAssumption ==
  /\ IsFiniteSet(IrqLines) /\ IsFiniteSet(NmiLines) /\ SavedLines \subseteq Lines
  /\ {MaxCycles, HandlerCycles} \subseteq Nat \ {0}
  /\ CLOCK_MAX \in Nat /\ 6 < ClkMaxValue
  /\ ClkMaxValue + MaxCycles <= CLOCK_MAX /\ ClkMaxValue + HandlerCycles <= CLOCK_MAX
  /\ Traps \subseteq {"save", "load", "other"}
  /\ Events \subseteq {"reset", "trap", "monitor", "jam", "menu"}

\* IK_NMI, IK_IRQ, ... and what a CPU remembers of its last opcode.
IK == {"NMI", "IRQ", "IRQPEND", "RESET", "TRAP", "MONITOR"}
OpInfo == {"plain", "delays", "disables", "enables"}

VARIABLES
  cs,      \* interrupt_cpu_status_t
  cpu,     \* the clock, the registers (the I flag stands for them), maincpu_regs
           \* (their copy, `exported'), last_opcode_info
  phase,
  image,   \* the snapshot on disk: a set of at most one
  h        \* history

vars == <<cs, cpu, phase, image, h>>

-----------------------------------------------------------------------------
(* interrupt.h, interrupt.c *)

\* Mutant: a line that is released is not looked at first.
interrupt_set_irq_Unchecked(c, l, value, clk) ==
  IF value /\ l \notin c.irq THEN
    [c EXCEPT !.nirq = @ + 1, !.global = @ \cup {"IRQ", "IRQPEND"},
              !.irq = @ \cup {l}, !.irq_clk = clk]
  ELSE IF ~value THEN
    [c EXCEPT !.irq = @ \ {l}, !.nirq = @ - 1,
              !.global = IF c.nirq = 1 THEN @ \ {"IRQ"} ELSE @]
  ELSE c

\* Mutant: the CPU is told the IRQ is over with the first line released.
interrupt_set_irq_FirstRelease(c, l, value, clk) ==
  IF value /\ l \notin c.irq THEN
    [c EXCEPT !.nirq = @ + 1, !.global = @ \cup {"IRQ", "IRQPEND"},
              !.irq = @ \cup {l}, !.irq_clk = clk]
  ELSE IF ~value /\ l \in c.irq THEN
    [c EXCEPT !.irq = @ \ {l}, !.nirq = @ - 1, !.global = @ \ {"IRQ"}]
  ELSE c

interrupt_set_irq(c, l, value, clk) ==
  IF value /\ l \notin c.irq THEN
    [c EXCEPT !.nirq = @ + 1, !.global = @ \cup {"IRQ", "IRQPEND"},
              !.irq = @ \cup {l}, !.irq_clk = clk]
  ELSE IF ~value /\ l \in c.irq /\ c.nirq > 0 THEN
    [c EXCEPT !.irq = @ \ {l}, !.nirq = @ - 1,
              !.global = IF c.nirq = 1 THEN @ \ {"IRQ"} ELSE @]
  ELSE c

\* Mutant: the NMI is taken back when its line is released (the code's "#if 0").
interrupt_set_nmi_TakenBack(c, l, value, clk) ==
  IF value /\ l \notin c.nmi THEN
    [c EXCEPT !.nnmi = @ + 1, !.nmi = @ \cup {l}, !.global = @ \cup {"NMI"}, !.nmi_clk = clk]
  ELSE IF ~value /\ l \in c.nmi /\ c.nnmi > 0 THEN
    [c EXCEPT !.nnmi = @ - 1, !.nmi = @ \ {l},
              !.global = IF clk = c.nmi_clk THEN @ \ {"NMI"} ELSE @]
  ELSE c

\* An edge is remembered until the CPU has answered it, whatever the line does.
interrupt_set_nmi(c, l, value, clk) ==
  IF value /\ l \notin c.nmi THEN
    LET edge == c.nnmi = 0 /\ "NMI" \notin c.global
    IN  [c EXCEPT !.nnmi = @ + 1, !.nmi = @ \cup {l},
                  !.global = IF edge THEN @ \cup {"NMI"} ELSE @,
                  !.nmi_clk = IF edge THEN clk ELSE @]
  ELSE IF ~value /\ l \in c.nmi /\ c.nnmi > 0 THEN
    [c EXCEPT !.nnmi = @ - 1, !.nmi = @ \ {l}]
  ELSE c

Earlier(n, amount) == IF n > amount THEN n - amount ELSE 0
interrupt_cpu_status_time_warp(c, amount) ==
  [c EXCEPT !.irq_clk = Earlier(@, amount), !.nmi_clk = Earlier(@, amount)]

NoInterrupts ==
  [ irq |-> {}, nmi |-> {}, nirq |-> 0, nnmi |-> 0, irq_clk |-> 0, nmi_clk |-> 0,
    global |-> {}, trap_func |-> NULL ]

interrupt_maincpu_trigger_trap(c, f) ==
  [c EXCEPT !.global = @ \cup {"TRAP"}, !.trap_func = f]

\* A reset forgets everything except that the monitor wants to be asked.
cpu_reset(c) == [NoInterrupts EXCEPT !.global = c.global \cap {"MONITOR"}]

\* What a snapshot holds: the CPU's module the counts, each device its own line.
interrupt_write_snapshot(c) == [c EXCEPT !.irq = @ \cap SavedLines, !.nmi = @ \cap SavedLines]
\* Mutant: what was pending before the load stays pending.
interrupt_read_snapshot_Merged(c, from) ==
  [from EXCEPT !.trap_func = c.trap_func, !.global = @ \cup (c.global \cap {"NMI"})]

interrupt_read_snapshot(c, from) == [from EXCEPT !.trap_func = c.trap_func]

-----------------------------------------------------------------------------
(* The CPU at an instruction boundary *)

DelayOver(clk, since, info) ==
  clk >= since + INTERRUPT_DELAY + (IF info = "delays" THEN 1 ELSE 0)

\* Mutant: an IRQ goes before an NMI.
NmiDue_Second(ik, c, p) ==
  "NMI" \in ik /\ "IRQ" \notin ik /\ DelayOver(p.clk, c.nmi_clk, p.info)

NmiDue(ik, c, p) == "NMI" \in ik /\ DelayOver(p.clk, c.nmi_clk, p.info)
IrqAsked(ik, c, p) ==
  /\ ik \cap {"IRQ", "IRQPEND"} # {}
  /\ ~p.I \/ p.info = "disables"
  /\ DelayOver(p.clk, c.irq_clk, p.info)

\* NMI first; an opcode that cleared the I flag puts the IRQ off by one.
Serve(c, p, hh) ==
  LET ik == c.global
      entered == [p EXCEPT !.I = TRUE, !.info = "plain", !.clk = @ + HandlerCycles]
      after(what) == [hh EXCEPT !.took = what, !.masked = TRUE]
  IN  IF NmiDue(ik, c, p)
      THEN [ cs |-> [c EXCEPT !.global = @ \ {"NMI"}], cpu |-> entered,
             h |-> [after("NMI") EXCEPT !.edge = FALSE] ]
      ELSE IF IrqAsked(ik, c, p)
      THEN IF p.info = "enables"
           THEN [ cs |-> [c EXCEPT !.global = @ \cup {"IRQPEND"}], cpu |-> p,
                  h |-> [hh EXCEPT !.took = "none"] ]
           ELSE [ cs |-> [c EXCEPT !.global = @ \ {"IRQPEND"}], cpu |-> entered,
                  h |-> after("IRQ") ]
      ELSE [cs |-> c, cpu |-> p, h |-> [hh EXCEPT !.took = "none"]]

\* machine_write_snapshot and machine_read_snapshot know maincpu_regs, not the CPU's own
\* registers.  A read may fail: at once, or after the CPU's module, with a reset.
Image(s) ==
  [ cs |-> interrupt_write_snapshot(s.cs), cpu |-> [s.cpu EXCEPT !.I = s.cpu.exported],
    edge |-> s.h.edge, seen |-> s.h.seen, masked |-> s.h.masked ]
Loaded(s, i) ==
  [ cs |-> interrupt_read_snapshot(s.cs, i.cs),
    cpu |-> [i.cpu EXCEPT !.exported = i.cpu.I, !.I = s.cpu.I],
    h |-> [s.h EXCEPT !.edge = i.edge, !.seen = i.seen, !.masked = i.masked] ]

ReadFailed(s, i) ==
  LET t == Loaded(s, i)
  IN  [ cs |-> [t.cs EXCEPT !.irq = {}, !.nmi = {}, !.global = @ \cup {"RESET"}],
        cpu |-> t.cpu, h |-> t.h ]
Reads(s, im) == {s} \cup UNION {{Loaded(s, i), ReadFailed(s, i)} : i \in im}

\* Mutant: the registers are not exported.
EXPORT_REGISTERS_Not(p) == p

EXPORT_REGISTERS(p) == [p EXCEPT !.exported = p.I]
IMPORT_REGISTERS(p) == [p EXCEPT !.I = p.exported]

\* interrupt_do_trap and the states the trap function may leave behind, with the
\* snapshots: a record for each.
Called(s) ==
  [ cs |-> [s.cs EXCEPT !.global = @ \ {"TRAP"}], cpu |-> EXPORT_REGISTERS(s.cpu),
    h |-> [s.h EXCEPT !.wanted = @ \ {s.cs.trap_func}] ]
Back(s) == [cs |-> s.cs, cpu |-> IMPORT_REGISTERS(s.cpu), h |-> s.h]
TriggerReset(s) == [cs |-> [s.cs EXCEPT !.global = @ \cup {"RESET"}], cpu |-> s.cpu, h |-> s.h]
CallTrap(s, im) ==
  CASE s.cs.trap_func = "save" -> {[s |-> Back(Called(s)), image |-> {Image(Called(s))}]}
    [] s.cs.trap_func = "load" -> {[s |-> Back(t), image |-> im] : t \in Reads(Called(s), im)}
    [] OTHER -> {[s |-> Back(t), image |-> im] :
                   t \in {Called(s)} \cup (IF "reset" \in Events THEN {TriggerReset(Called(s))} ELSE {})}

Reset(s) ==
  [ cs |-> cpu_reset(s.cs), cpu |-> [s.cpu EXCEPT !.clk = 6],
    h |-> [s.h EXCEPT !.edge = FALSE, !.seen = FALSE, !.took = "RESET"] ]

\* The end of the boundary: the monitor, if it was asked and has something to look for, gets
\* the registers; a pulse on the IRQ line that was not served is over.
Settle(ik, s) ==
  [ cs |-> [s.cs EXCEPT !.global = IF "IRQ" \in @ THEN @ ELSE @ \ {"IRQPEND"}],
    cpu |-> IF "MONITOR" \in ik /\ s.h.monitor THEN EXPORT_REGISTERS(s.cpu) ELSE s.cpu,
    h |-> [s.h EXCEPT !.seen = s.cs.irq # {}] ]

Becomes(s) == cs' = s.cs /\ cpu' = s.cpu /\ h' = s.h

\* The clock has room: the guard acts within a frame.
Room(n) == cpu.clk + n <= CLOCK_MAX

\* Mutant: a reset goes before the trap.
DO_INTERRUPT_ResetFirst ==
  /\ phase = "alarms" /\ phase' = "fetch" /\ Room(HandlerCycles)
  /\ LET ik == cs.global
         served == Serve(cs, cpu, h)
     IN  IF "RESET" \in ik \/ "TRAP" \notin ik
         THEN /\ UNCHANGED image
              /\ Becomes(Settle(ik, IF "RESET" \in ik THEN Reset(served) ELSE served))
         ELSE \E out \in CallTrap(served, image) :
                image' = out.image /\ Becomes(Settle(ik, out.s))

DO_INTERRUPT ==
  /\ phase = "alarms" /\ phase' = "fetch" /\ Room(HandlerCycles)
  /\ LET ik == cs.global
         served == Serve(cs, cpu, h)
     IN  IF "TRAP" \in ik
         THEN \E out \in CallTrap(served, image) :
                /\ image' = out.image
                /\ Becomes(Settle(ik, IF "RESET" \in ik \cup out.s.cs.global
                                      THEN Reset(out.s) ELSE out.s))
         ELSE /\ UNCHANGED image
              /\ Becomes(Settle(ik, IF "RESET" \in ik THEN Reset(served) ELSE served))

-----------------------------------------------------------------------------
(* The rest of the loop *)

Init ==
  /\ cs = NoInterrupts
  /\ cpu = [clk |-> 6, I |-> FALSE, exported |-> FALSE, info |-> "plain"]
  /\ phase = "alarms"
  /\ image = {}
  /\ h = [ edge |-> FALSE, seen |-> FALSE, masked |-> FALSE, wanted |-> {},
           monitor |-> FALSE, took |-> "none" ]

\* A device pulls or releases its line, in an alarm that was due up to a whole
\* instruction ago or at the CPU's access.
Moments == IF phase = "access" THEN {cpu.clk}
           ELSE {t \in cpu.clk - MaxCycles .. cpu.clk : t >= 0}

set_irq(l, value) ==
  /\ \E clk \in Moments : cs' = interrupt_set_irq(cs, l, value, clk)
  /\ h' = [h EXCEPT !.seen = @ \/ value]
  /\ UNCHANGED <<cpu, phase, image>>

set_nmi(l, value) ==
  /\ \E clk \in Moments : cs' = interrupt_set_nmi(cs, l, value, clk)
  /\ h' = [h EXCEPT !.edge = @ \/ (value /\ cs.nmi = {})]
  /\ UNCHANGED <<cpu, phase, image>>

\* The restore key is a pulse.
c64keyboard_restore_key(l) ==
  /\ phase # "access" /\ l \notin cs.nmi
  /\ cs' = interrupt_set_nmi(interrupt_set_nmi(cs, l, TRUE, cpu.clk), l, FALSE, cpu.clk)
  /\ h' = [h EXCEPT !.edge = @ \/ cs.nmi = {}]
  /\ UNCHANGED <<cpu, phase, image>>

clk_guard_prevent_overflow ==
  /\ phase # "access" /\ NeedsSubtraction(cpu.clk)
  /\ cpu' = [cpu EXCEPT !.clk = @ - clk_guard_clock_sub]
  /\ cs' = interrupt_cpu_status_time_warp(cs, clk_guard_clock_sub)
  /\ UNCHANGED <<phase, image, h>>

\* An instruction of n cycles; CLI, SEI and PLP change I after the poll.
Executes(I, info, masked, n) ==
  /\ phase = "fetch" /\ phase' = "alarms" /\ Room(n)
  /\ cpu' = [cpu EXCEPT !.clk = @ + n, !.I = I, !.info = info]
  /\ h' = [h EXCEPT !.masked = masked, !.took = "none"]
  /\ UNCHANGED <<cs, image>>

\* Mutant: CLI does not put the IRQ off by one instruction.
CLI_AtOnce(n) == Executes(FALSE, "plain", cpu.I, n)

CLI(n) == Executes(FALSE, IF cpu.I THEN "enables" ELSE "plain", cpu.I, n)

SEI(n) == Executes(TRUE, IF cpu.I THEN "plain" ELSE "disables", cpu.I, n)
PLP(s, n) ==
  Executes(s, IF ~s /\ cpu.I THEN "enables" ELSE IF s /\ ~cpu.I THEN "disables" ELSE "plain",
           cpu.I, n)
RTI(s, n) == Executes(s, "plain", s, n)
\* BRK exports the registers first, for the trace.
BRK(n) ==
  /\ phase = "fetch" /\ phase' = "alarms" /\ Room(n)
  /\ cpu' = [EXPORT_REGISTERS(cpu) EXCEPT !.clk = @ + n, !.I = TRUE, !.info = "plain"]
  /\ h' = [h EXCEPT !.masked = TRUE, !.took = "none"]
  /\ UNCHANGED <<cs, image>>
BRANCH(n) == Executes(cpu.I, "delays", cpu.I, n)
Other(n) == Executes(cpu.I, "plain", cpu.I, n)

\* An instruction that reads or writes a device, and its last cycles.
Access(n) ==
  /\ phase = "fetch" /\ phase' = "access" /\ Room(n + 1)
  /\ cpu' = [cpu EXCEPT !.clk = @ + n, !.info = "plain"]
  /\ h' = [h EXCEPT !.masked = cpu.I, !.took = "none"]
  /\ UNCHANGED <<cs, image>>
Complete(n) ==
  /\ phase = "access" /\ phase' = "alarms"
  /\ cpu' = [cpu EXCEPT !.clk = @ + n]
  /\ UNCHANGED <<cs, image, h>>

\* An illegal opcode, answered by a reset on the spot.
JAM ==
  /\ "jam" \in Events /\ phase = "fetch" /\ phase' = "alarms"
  /\ Becomes(Reset([ cs |-> cs, cpu |-> [EXPORT_REGISTERS(cpu) EXCEPT !.info = "plain"],
                     h |-> [h EXCEPT !.masked = cpu.I] ]))
  /\ UNCHANGED image

\* The user, whose input is looked at in the video chip's alarm.
interrupt_trigger_reset ==
  /\ "reset" \in Events /\ phase # "access"
  /\ cs' = [cs EXCEPT !.global = @ \cup {"RESET"}]
  /\ UNCHANGED <<cpu, phase, image, h>>
trigger_trap(f) ==
  /\ phase # "access" /\ f \notin h.wanted /\ ("trap" \in Events \/ h.wanted = {})
  /\ cs' = interrupt_maincpu_trigger_trap(cs, f)
  /\ h' = [h EXCEPT !.wanted = @ \cup {f}]
  /\ UNCHANGED <<cpu, phase, image>>
interrupt_monitor_trap(on) ==
  /\ "monitor" \in Events /\ phase # "access" /\ on # h.monitor
  /\ cs' = [cs EXCEPT !.global = IF on THEN @ \cup {"MONITOR"} ELSE @ \ {"MONITOR"}]
  /\ h' = [h EXCEPT !.monitor = on]
  /\ UNCHANGED <<cpu, phase, image>>

\* Snapshots from the in-game menu, which the joystick's polling opens: in the middle of
\* the alarm, not in a trap.  It is polled once per frame: a reset was taken long ago.
InGameMenuLoop ==
  /\ "menu" \in Events /\ phase # "access" /\ "RESET" \notin cs.global
  /\ LET s == [cs |-> cs, cpu |-> cpu, h |-> h]
     IN  \/ image' = {Image(s)} /\ UNCHANGED <<cs, cpu, h>>
         \/ image' = image /\ \E t \in Reads(s, image) : Becomes(t)
  /\ UNCHANGED phase

Instruction ==
  \E n \in 1 .. MaxCycles :
    \/ CLI(n) \/ SEI(n) \/ BRK(n) \/ BRANCH(n) \/ Other(n) \/ Access(n)
    \/ \E s \in BOOLEAN : PLP(s, n) \/ RTI(s, n)
End == \E n \in 0 .. 1 : Complete(n)

Next ==
  \/ DO_INTERRUPT \/ Instruction \/ End \/ JAM \/ clk_guard_prevent_overflow
  \/ \E value \in BOOLEAN :
       \/ \E l \in IrqLines : set_irq(l, value)
       \/ \E l \in NmiLines : set_nmi(l, value)
       \/ interrupt_monitor_trap(value)
  \/ \E l \in NmiLines : c64keyboard_restore_key(l)
  \/ interrupt_trigger_reset \/ InGameMenuLoop
  \/ \E f \in Traps : trigger_trap(f)

Spec == Init /\ [][Next]_vars

\* The loop goes round for ever.
Fairness ==
  /\ WF_vars(DO_INTERRUPT) /\ WF_vars(Instruction) /\ WF_vars(End)
  /\ WF_vars(clk_guard_prevent_overflow)
FairSpec == Spec /\ Fairness

-----------------------------------------------------------------------------
(* Properties *)

Status ==
  [ irq : SUBSET IrqLines, nmi : SUBSET NmiLines, nirq : Nat, nnmi : Nat,
    irq_clk : Clock, nmi_clk : Clock, global : SUBSET IK, trap_func : Traps \cup {NULL} ]
Cpu == [clk : Clock, I : BOOLEAN, exported : BOOLEAN, info : OpInfo]

Images == [cs : Status, cpu : Cpu, edge : BOOLEAN, seen : BOOLEAN, masked : BOOLEAN]
History == [ edge : BOOLEAN, seen : BOOLEAN, masked : BOOLEAN, wanted : SUBSET Traps,
             monitor : BOOLEAN, took : {"none", "NMI", "IRQ", "RESET"} ]

\* Every variable has its type; the clock of the CPU stays below CLOCK_MAX.
TypeOK ==
  /\ cs \in Status /\ cpu \in Cpu /\ phase \in {"alarms", "fetch", "access"}
  /\ image \subseteq Images /\ h \in History

\* nirq and nnmi, kept by every device that pulls or releases its line, by resets and
\* by snapshots, are the numbers of lines pulled; the CPU is asked iff one is.
Counted(c) ==
  /\ c.nirq = Cardinality(c.irq) /\ c.nnmi = Cardinality(c.nmi)
  /\ "IRQ" \in c.global <=> c.irq # {}
LinesCounted == Counted(cs)

\* An NMI is remembered exactly while the wired-or of the lines has risen and the CPU
\* has not answered: no edge is lost, none is made up, none counted twice.
NmiIsEdge == "NMI" \in cs.global <=> h.edge

\* The clocks the two delays are counted from are never in the CPU's future, where
\* they would put an interrupt off for the whole range of the clock.
IntClksPast == cs.irq_clk <= cpu.clk /\ cs.nmi_clk <= cpu.clk

\* The CPU enters the IRQ handler only if the line was low since the last boundary and
\* interrupts were on when the last instruction polled, and the NMI handler only for
\* an edge.
EntriesJustified ==
  [][phase = "alarms" =>
       /\ h'.took = "IRQ" => ~h.masked /\ h.seen
       /\ h'.took = "NMI" => h.edge]_vars

\* A snapshot holds the registers the program had when it was taken (the I flag is set
\* if the CPU has just entered a handler, which took cycles), and the program goes on
\* with them.
Whole(before, after, i) == i.cpu.I = (before.I \/ i.cpu.clk # before.clk) /\ after.I = i.cpu.I
SnapshotIsWhole == [][image' # image => \A i \in image' : Whole(cpu, cpu', i)]_vars

\* The snapshots that traps take are whole, whatever the in-game menu saved or loaded
\* between them.
TrapSnapshotIsWhole ==
  [][image' # image /\ phase' # phase => \A i \in image' : Whole(cpu, cpu', i)]_vars

\* As long as there is a breakpoint the CPU asks the monitor at every instruction.
MonitorStays == h.monitor => "MONITOR" \in cs.global

\* A trap that was triggered is still going to be called, also if a reset is asked for
\* before the next boundary.  (A second trap, or a jam, may still replace or drop it.)
TrapNotForgotten == \A f \in h.wanted : "TRAP" \in cs.global /\ cs.trap_func = f

\* After a snapshot was loaded, wholly or in part, the counts fit the lines and the pending
\* NMI is an edge that is unanswered, or else it waits for a reset, which is asked for.
LoadedStateFits == "RESET" \in cs.global \/ (Counted(cs) /\ NmiIsEdge)

\* What was asked for stays asked for until the CPU looks, and what a delay is counted from
\* stays in the past: nothing that moves the clock or clears the status in between, the
\* guard, a reset, a snapshot, may make an interrupt, a trap or the monitor wait for ever.
RequestsSurvive == MonitorStays /\ TrapNotForgotten /\ IntClksPast

\* An NMI edge is answered, unless a reset makes it void.
NmiServed == "NMI" \in cs.global ~> h.took \in {"NMI", "RESET"}

\* A device that keeps its line low is served again and again, as long as the program
\* leaves interrupts on now and then and nothing else (an NMI, a new IRQ that starts
\* the delay again) comes between.
IrqServed ==
  /\ <>[](cs.irq # {} /\ cs.global \cap {"NMI", "RESET"} = {})
  /\ <>[][cs'.irq = cs.irq]_vars
  /\ []<>(phase = "alarms" /\ ~h.masked)
  => []<>(h.took = "IRQ")

\* Both kinds of interrupt are answered in the end.
InterruptsServed == NmiServed /\ IrqServed
=============================================================================
