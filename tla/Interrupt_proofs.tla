-------------------------- MODULE Interrupt_proofs --------------------------
(***************************************************************************)
(* Types and clocks for all constants; and if every device saves its line  *)
(* in the snapshots, the counts of the interrupt lines stay right and no   *)
(* NMI edge is lost or made up, for any number of lines: at all times if   *)
(* snapshots are taken in traps, and but for the moment before the reset   *)
(* that a failed read asks for with the in-game menu.                      *)
(***************************************************************************)
EXTENDS Interrupt, FiniteSetTheorems, TLAPS

\* The counts and the NMI's bit are right.
Consistent(c, edge) == Counted(c) /\ ("NMI" \in c.global <=> edge)

\* What can be said of a status: nothing of the lines if some device does not save its own,
\* and with the in-game menu nothing while a reset is due.
Fits(c, edge) ==
  \/ SavedLines # Lines
  \/ "menu" \in Events /\ "RESET" \in c.global
  \/ Consistent(c, edge)

\* The delays are counted from the past.
Past(c, p) == c.irq_clk <= p.clk /\ c.nmi_clk <= p.clk

\* A state of the CPU as the traps see it, by its types.
States == [cs : Status, cpu : Cpu, h : History]

\* Such a state, and a set of snapshots, that fit and have their delays in the past.
GoodState(s) == s \in States /\ Fits(s.cs, s.h.edge) /\ Past(s.cs, s.cpu)
GoodImages(im) == im \subseteq Images /\ \A i \in im : Fits(i.cs, i.edge) /\ Past(i.cs, i.cpu)

\* The inductive invariant: what is in a snapshot is as good as what is in the machine.
IInv ==
  /\ TypeOK
  /\ phase = "access" => cpu.clk < CLOCK_MAX
  /\ Fits(cs, h.edge) /\ Past(cs, cpu)
  /\ \A i \in image : Fits(i.cs, i.edge) /\ Past(i.cs, i.cpu)

\* A step that keeps what is consistent so, and does not forget a reset.
LEMMA FitsKept ==
  ASSUME NEW c, NEW e, NEW d, NEW f, Fits(c, e),
         "RESET" \in c.global => "RESET" \in d.global,
         Consistent(c, e) => Consistent(d, f)
  PROVE  Fits(d, f)
BY DEF Fits

\* The same where the NMI's bit and the edge stay.
LEMMA FitsSame ==
  ASSUME NEW c, NEW e, NEW d, NEW f, Fits(c, e), f = e,
         "RESET" \in c.global => "RESET" \in d.global,
         "NMI" \in d.global <=> "NMI" \in c.global,
         Counted(c) => Counted(d)
  PROVE  Fits(d, f)
<1>1. Fits(d, e)
  BY Zenon DEF Fits, Consistent
<1> QED
  BY <1>1

\* Sets of lines are finite; adding and removing a line counts one.
LEMMA LineCount ==
  ASSUME NEW L, IsFiniteSet(L), NEW S \in SUBSET L, NEW l \in L
  PROVE  /\ Cardinality(S) \in Nat /\ (Cardinality(S) = 0 <=> S = {})
         /\ l \notin S => Cardinality(S \cup {l}) = Cardinality(S) + 1
         /\ l \in S => Cardinality(S \ {l}) = Cardinality(S) - 1
<1>1. IsFiniteSet(S)
  BY FS_Subset
<1> QED
  BY <1>1, FS_CardinalityType, FS_EmptySet, FS_AddElement, FS_RemoveElement

\* interrupt_set_irq keeps the counts and leaves all bits but the IRQ's alone.
LEMMA SetIrq ==
  ASSUME NEW c \in Status, NEW l \in IrqLines, NEW value \in BOOLEAN, NEW clk \in Clock
  PROVE  LET d == interrupt_set_irq(c, l, value, clk)
         IN  /\ d \in Status /\ (Counted(c) => Counted(d))
             /\ d.global \ {"IRQ", "IRQPEND"} = c.global \ {"IRQ", "IRQPEND"}
             /\ {"IRQ", "IRQPEND"} \cap d.global \subseteq c.global \/ value
             /\ d.irq_clk \in {c.irq_clk, clk} /\ d.nmi_clk = c.nmi_clk /\ d.trap_func = c.trap_func
<1>0. c.irq \in SUBSET IrqLines /\ IsFiniteSet(IrqLines)
  BY InterruptAssumption DEF Status
<1>1. /\ Cardinality(c.irq) \in Nat /\ (Cardinality(c.irq) = 0 <=> c.irq = {})
      /\ l \notin c.irq => Cardinality(c.irq \cup {l}) = Cardinality(c.irq) + 1
      /\ l \in c.irq => Cardinality(c.irq \ {l}) = Cardinality(c.irq) - 1
  BY <1>0, LineCount, ZenonT(60)
<1>2. CASE value /\ l \notin c.irq
  <2> DEFINE n == c.nirq + 1  g == c.global \cup {"IRQ", "IRQPEND"}  s == c.irq \cup {l}
             d == [c EXCEPT !.nirq = n, !.global = g, !.irq = s, !.irq_clk = clk]
  <2>1. interrupt_set_irq(c, l, value, clk) = d
    BY <1>2 DEF interrupt_set_irq
  <2>2. n \in Nat /\ g \in SUBSET IK /\ s \in SUBSET IrqLines
    BY DEF Status, IK
  <2>3. /\ Counted(c) => n = Cardinality(s)
        /\ s # {} /\ "IRQ" \in g /\ g \ {"IRQ", "IRQPEND"} = c.global \ {"IRQ", "IRQPEND"}
    BY <1>1, <1>2 DEF Counted
  <2> HIDE DEF n, g, s
  <2>4. d \in Status
    BY <2>2 DEF Status
  <2>5. /\ d.irq = s /\ d.nirq = n /\ d.nmi = c.nmi /\ d.nnmi = c.nnmi /\ d.global = g
        /\ d.irq_clk = clk /\ d.nmi_clk = c.nmi_clk /\ d.trap_func = c.trap_func
    BY DEF Status
  <2> QED
    BY <1>2, <2>1, <2>3, <2>4, <2>5 DEF Counted
<1>3. CASE ~value /\ l \in c.irq /\ c.nirq > 0
  <2> DEFINE n == c.nirq - 1  g == IF c.nirq = 1 THEN c.global \ {"IRQ"} ELSE c.global
             s == c.irq \ {l}
             d == [c EXCEPT !.irq = s, !.nirq = n, !.global = g]
  <2>1. c.nirq \in Nat
    BY DEF Status
  <2>2. interrupt_set_irq(c, l, value, clk) = d
    BY <1>3 DEF interrupt_set_irq
  <2>3. n \in Nat /\ g \in SUBSET IK /\ s \in SUBSET IrqLines
    BY <1>3, <2>1 DEF Status
  <2>4. Cardinality(s) = 0 <=> s = {}
    BY <1>0, <2>3, LineCount, ZenonT(60)
  <2>5. /\ Counted(c) => n = Cardinality(s) /\ ("IRQ" \in g <=> s # {})
        /\ g \ {"IRQ", "IRQPEND"} = c.global \ {"IRQ", "IRQPEND"} /\ g \subseteq c.global
    BY <1>1, <1>3, <2>1, <2>4 DEF Counted
  <2> HIDE DEF n, g, s
  <2>6. d \in Status
    BY <2>3 DEF Status
  <2>7. /\ d.irq = s /\ d.nirq = n /\ d.nmi = c.nmi /\ d.nnmi = c.nnmi /\ d.global = g
        /\ d.irq_clk = c.irq_clk /\ d.nmi_clk = c.nmi_clk /\ d.trap_func = c.trap_func
    BY DEF Status
  <2> QED
    BY <2>2, <2>5, <2>6, <2>7 DEF Counted
<1>4. CASE ~(value /\ l \notin c.irq) /\ ~(~value /\ l \in c.irq /\ c.nirq > 0)
  <2>1. interrupt_set_irq(c, l, value, clk) = c
    BY <1>4 DEF interrupt_set_irq
  <2> QED
    BY <2>1
<1> QED
  BY <1>2, <1>3, <1>4

\* interrupt_set_nmi keeps the counts and remembers exactly the rises of the wired-or.
LEMMA SetNmi ==
  ASSUME NEW c \in Status, NEW l \in NmiLines, NEW value \in BOOLEAN, NEW clk \in Clock
  PROVE  LET d == interrupt_set_nmi(c, l, value, clk)
         IN  /\ d \in Status /\ d.global \ {"NMI"} = c.global \ {"NMI"}
             /\ Counted(c) => Counted(d)
             /\ Counted(c) /\ value => ("NMI" \in d.global <=> "NMI" \in c.global \/ c.nmi = {})
             /\ Counted(c) /\ ~value => ("NMI" \in d.global <=> "NMI" \in c.global)
             /\ d.irq_clk = c.irq_clk /\ d.nmi_clk \in {c.nmi_clk, clk} /\ d.trap_func = c.trap_func
<1>0. c.nmi \in SUBSET NmiLines /\ IsFiniteSet(NmiLines)
  BY InterruptAssumption DEF Status
<1>1. /\ Cardinality(c.nmi) \in Nat /\ (Cardinality(c.nmi) = 0 <=> c.nmi = {})
      /\ l \notin c.nmi => Cardinality(c.nmi \cup {l}) = Cardinality(c.nmi) + 1
      /\ l \in c.nmi => Cardinality(c.nmi \ {l}) = Cardinality(c.nmi) - 1
  BY <1>0, LineCount, ZenonT(60)
<1>2. CASE value /\ l \notin c.nmi
  <2> DEFINE edge == c.nnmi = 0 /\ "NMI" \notin c.global
             n == c.nnmi + 1  g == IF edge THEN c.global \cup {"NMI"} ELSE c.global
             s == c.nmi \cup {l}  t == IF edge THEN clk ELSE c.nmi_clk
             d == [c EXCEPT !.nnmi = n, !.nmi = s, !.global = g, !.nmi_clk = t]
  <2>1. interrupt_set_nmi(c, l, value, clk) = d
    BY <1>2 DEF interrupt_set_nmi
  <2>2. n \in Nat /\ g \in SUBSET IK /\ s \in SUBSET NmiLines /\ t \in Clock
    BY DEF Status, IK
  <2>3. /\ Counted(c) => /\ n = Cardinality(s)
                         /\ "NMI" \in g <=> "NMI" \in c.global \/ c.nmi = {}
        /\ g \ {"NMI"} = c.global \ {"NMI"} /\ ("IRQ" \in g <=> "IRQ" \in c.global)
        /\ t \in {c.nmi_clk, clk}
    BY <1>1, <1>2 DEF Counted
  <2> HIDE DEF n, g, s, t
  <2>5. d \in Status
    BY <2>2 DEF Status
  <2>6. /\ d.irq = c.irq /\ d.nirq = c.nirq /\ d.nmi = s /\ d.nnmi = n /\ d.global = g
        /\ d.irq_clk = c.irq_clk /\ d.nmi_clk = t /\ d.trap_func = c.trap_func
    BY DEF Status
  <2> QED
    BY <1>2, <2>1, <2>3, <2>5, <2>6 DEF Counted
<1>3. CASE ~value /\ l \in c.nmi /\ c.nnmi > 0
  <2> DEFINE n == c.nnmi - 1  s == c.nmi \ {l}  d == [c EXCEPT !.nnmi = n, !.nmi = s]
  <2>1. c.nnmi \in Nat
    BY DEF Status
  <2>2. interrupt_set_nmi(c, l, value, clk) = d
    BY <1>3 DEF interrupt_set_nmi
  <2>3. n \in Nat /\ s \in SUBSET NmiLines
    BY <1>3, <2>1 DEF Status
  <2>4. Counted(c) => n = Cardinality(s)
    BY <1>1, <1>3 DEF Counted
  <2> HIDE DEF n, s
  <2>5. d \in Status
    BY <2>3 DEF Status
  <2>6. /\ d.irq = c.irq /\ d.nirq = c.nirq /\ d.nmi = s /\ d.nnmi = n /\ d.global = c.global
        /\ d.irq_clk = c.irq_clk /\ d.nmi_clk = c.nmi_clk /\ d.trap_func = c.trap_func
    BY DEF Status
  <2> QED
    BY <1>3, <2>2, <2>4, <2>5, <2>6 DEF Counted
<1>4. CASE ~(value /\ l \notin c.nmi) /\ ~(~value /\ l \in c.nmi /\ c.nnmi > 0)
  <2>1. interrupt_set_nmi(c, l, value, clk) = c
    BY <1>4 DEF interrupt_set_nmi
  <2>2. value => c.nmi # {}
    BY <1>4
  <2> QED
    BY <2>1, <2>2
<1> QED
  BY <1>2, <1>3, <1>4

\* Both halves of a pulse.
Raised(c, l, clk) == interrupt_set_nmi(c, l, TRUE, clk)

\* The second half.
Lowered(c, l, clk) == interrupt_set_nmi(c, l, FALSE, clk)

\* The line rises.
LEMMA Rise ==
  ASSUME NEW c \in Status, NEW l \in NmiLines, NEW clk \in Clock,
         NEW d, d = Raised(c, l, clk)
  PROVE  /\ d \in Status /\ d.global \ {"NMI"} = c.global \ {"NMI"}
         /\ Counted(c) => Counted(d) /\ ("NMI" \in d.global <=> "NMI" \in c.global \/ c.nmi = {})
         /\ d.irq_clk = c.irq_clk /\ d.nmi_clk \in {c.nmi_clk, clk} /\ d.trap_func = c.trap_func
BY SetNmi, ZenonT(60) DEF Raised

\* The line falls.
LEMMA Fall ==
  ASSUME NEW c \in Status, NEW l \in NmiLines, NEW clk \in Clock,
         NEW d, d = Lowered(c, l, clk)
  PROVE  /\ d \in Status /\ d.global \ {"NMI"} = c.global \ {"NMI"}
         /\ Counted(c) => Counted(d) /\ ("NMI" \in d.global <=> "NMI" \in c.global)
         /\ d.irq_clk = c.irq_clk /\ d.nmi_clk \in {c.nmi_clk, clk} /\ d.trap_func = c.trap_func
BY SetNmi, ZenonT(60) DEF Lowered

\* Writing the bits alone.
LEMMA GlobalUpdate ==
  ASSUME NEW c \in Status, NEW g \in SUBSET IK, NEW d, d = [c EXCEPT !.global = g]
  PROVE  /\ d \in Status /\ d.global = g /\ d.irq = c.irq /\ d.nmi = c.nmi
         /\ d.nirq = c.nirq /\ d.nnmi = c.nnmi
         /\ d.irq_clk = c.irq_clk /\ d.nmi_clk = c.nmi_clk /\ d.trap_func = c.trap_func
         /\ Counted(c) /\ ("IRQ" \in g <=> "IRQ" \in c.global) => Counted(d)
<1>1. d \in Status
  BY DEF Status
<1>2. /\ d.global = g /\ d.irq = c.irq /\ d.nmi = c.nmi
      /\ d.nirq = c.nirq /\ d.nnmi = c.nnmi
      /\ d.irq_clk = c.irq_clk /\ d.nmi_clk = c.nmi_clk /\ d.trap_func = c.trap_func
  BY DEF Status
<1> QED
  BY <1>1, <1>2 DEF Counted

\* The numbers of the clock.
LEMMA ClockFacts ==
  /\ CLOCK_MAX \in Nat /\ HandlerCycles \in Nat /\ MaxCycles \in Nat /\ 6 \in Clock /\ 0 \in Clock
  /\ ClkMaxValue \in Nat /\ ClkMaxValue + MaxCycles <= CLOCK_MAX
  /\ \A t \in Clock : t \in Nat /\ t <= CLOCK_MAX
  /\ \A t \in Nat : t <= CLOCK_MAX => t \in Clock
<1>1. CLOCK_MAX \in Nat /\ 6 < ClkMaxValue /\ ClkMaxValue + MaxCycles <= CLOCK_MAX
      /\ MaxCycles \in Nat \ {0} /\ HandlerCycles \in Nat
  BY InterruptAssumption
<1>2. ClkMaxValue \in Nat
  BY GuardAssumption
<1> QED
  BY <1>1, <1>2 DEF Clock

\* The CPU's record after entering a handler.
LEMMA EnteredType ==
  ASSUME NEW p \in Cpu, p.clk + HandlerCycles <= CLOCK_MAX
  PROVE  LET e == [p EXCEPT !.I = TRUE, !.info = "plain", !.clk = @ + HandlerCycles]
         IN  e \in Cpu /\ e.clk = p.clk + HandlerCycles /\ e.clk >= p.clk /\ e.I = TRUE
<1> DEFINE t == p.clk + HandlerCycles  o == "plain"
<1>1. t \in Clock /\ o \in OpInfo /\ t >= p.clk
  BY ClockFacts DEF Cpu, OpInfo
<1> HIDE DEF t, o
<1> DEFINE e == [p EXCEPT !.I = TRUE, !.info = o, !.clk = t]
<1>2. e \in Cpu /\ e.clk = t /\ e.I = TRUE
  BY <1>1 DEF Cpu
<1> QED
  BY <1>1, <1>2 DEF t, o

\* Entering a handler, or not, keeps the status consistent: the NMI's bit goes with the
\* edge it stands for.
LEMMA ServeGood ==
  ASSUME NEW c \in Status, NEW p \in Cpu, NEW hh \in History, Fits(c, hh.edge),
         Past(c, p), p.clk + HandlerCycles <= CLOCK_MAX
  PROVE  GoodState(Serve(c, p, hh))
<1> DEFINE entered == [p EXCEPT !.I = TRUE, !.info = "plain", !.clk = @ + HandlerCycles]
<1>1. entered \in Cpu /\ entered.clk >= p.clk
  BY EnteredType
<1>0. /\ c.irq_clk \in Nat /\ c.nmi_clk \in Nat /\ p.clk \in Nat /\ entered.clk \in Nat
      /\ c.irq_clk <= p.clk /\ c.nmi_clk <= p.clk
  BY <1>1, ClockFacts DEF Status, Cpu, Past
<1> HIDE DEF entered
<1>2. CASE NmiDue(c.global, c, p)
  <2> DEFINE g == c.global \ {"NMI"}
             d == [c EXCEPT !.global = g]
             k == [[hh EXCEPT !.took = "NMI", !.masked = TRUE] EXCEPT !.edge = FALSE]
  <2>1. Serve(c, p, hh) = [cs |-> d, cpu |-> entered, h |-> k]
    BY <1>2 DEF Serve, entered
  <2>2. g \in SUBSET IK /\ ("IRQ" \in g <=> "IRQ" \in c.global)
        /\ ("RESET" \in g <=> "RESET" \in c.global) /\ "NMI" \notin g
    BY DEF Status, IK
  <2> HIDE DEF g
  <2>3. /\ d \in Status /\ d.global = g /\ (Counted(c) => Counted(d))
        /\ d.irq_clk = c.irq_clk /\ d.nmi_clk = c.nmi_clk
    BY <2>2, GlobalUpdate
  <2>4. k \in History /\ k.edge = FALSE
    BY DEF History
  <2>5. Fits(d, k.edge)
    BY <2>2, <2>3, <2>4, FitsKept, ZenonT(60) DEF Consistent
  <2> HIDE DEF d, k
  <2> QED
    BY <1>0, <1>1, <2>1, <2>3, <2>4, <2>5 DEF GoodState, States, Past
<1>3. CASE ~NmiDue(c.global, c, p) /\ IrqAsked(c.global, c, p) /\ p.info = "enables"
  <2> DEFINE g == c.global \cup {"IRQPEND"}
             d == [c EXCEPT !.global = g]
             k == [hh EXCEPT !.took = "none"]
  <2>1. Serve(c, p, hh) = [cs |-> d, cpu |-> p, h |-> k]
    BY <1>3 DEF Serve
  <2>2. g \in SUBSET IK /\ ("IRQ" \in g <=> "IRQ" \in c.global)
        /\ ("RESET" \in g <=> "RESET" \in c.global) /\ ("NMI" \in g <=> "NMI" \in c.global)
    BY DEF Status, IK
  <2> HIDE DEF g
  <2>3. /\ d \in Status /\ d.global = g /\ (Counted(c) => Counted(d))
        /\ d.irq_clk = c.irq_clk /\ d.nmi_clk = c.nmi_clk
    BY <2>2, GlobalUpdate
  <2>4. k \in History /\ k.edge = hh.edge
    BY DEF History
  <2>5. Fits(d, k.edge)
    BY <2>2, <2>3, <2>4, FitsSame
  <2> HIDE DEF d, k
  <2> QED
    BY <1>0, <2>1, <2>3, <2>4, <2>5 DEF GoodState, States, Past
<1>4. CASE ~NmiDue(c.global, c, p) /\ IrqAsked(c.global, c, p) /\ p.info # "enables"
  <2> DEFINE g == c.global \ {"IRQPEND"}
             d == [c EXCEPT !.global = g]
             k == [hh EXCEPT !.took = "IRQ", !.masked = TRUE]
  <2>1. Serve(c, p, hh) = [cs |-> d, cpu |-> entered, h |-> k]
    BY <1>4 DEF Serve, entered
  <2>2. g \in SUBSET IK /\ ("IRQ" \in g <=> "IRQ" \in c.global)
        /\ ("RESET" \in g <=> "RESET" \in c.global) /\ ("NMI" \in g <=> "NMI" \in c.global)
    BY DEF Status, IK
  <2> HIDE DEF g
  <2>3. /\ d \in Status /\ d.global = g /\ (Counted(c) => Counted(d))
        /\ d.irq_clk = c.irq_clk /\ d.nmi_clk = c.nmi_clk
    BY <2>2, GlobalUpdate
  <2>4. k \in History /\ k.edge = hh.edge
    BY DEF History
  <2>5. Fits(d, k.edge)
    BY <2>2, <2>3, <2>4, FitsSame
  <2> HIDE DEF d, k
  <2> QED
    BY <1>0, <1>1, <2>1, <2>3, <2>4, <2>5 DEF GoodState, States, Past
<1>5. CASE ~NmiDue(c.global, c, p) /\ ~IrqAsked(c.global, c, p)
  <2> DEFINE k == [hh EXCEPT !.took = "none"]
  <2>1. Serve(c, p, hh) = [cs |-> c, cpu |-> p, h |-> k]
    BY <1>5 DEF Serve
  <2>2. k \in History /\ k.edge = hh.edge
    BY DEF History
  <2> HIDE DEF k
  <2> QED
    BY <2>1, <2>2 DEF GoodState, States
<1> QED
  BY <1>2, <1>3, <1>4, <1>5

\* A reset makes any status consistent.
LEMMA ResetGood ==
  ASSUME NEW s \in States
  PROVE  GoodState(Reset(s))
<1> DEFINE g == s.cs.global \cap {"MONITOR"}
           d == [NoInterrupts EXCEPT !.global = g]
           p == [s.cpu EXCEPT !.clk = 6]
           k == [s.h EXCEPT !.edge = FALSE, !.seen = FALSE, !.took = "RESET"]
<1>1. Reset(s) = [cs |-> d, cpu |-> p, h |-> k]
  BY DEF Reset, cpu_reset, States
<1>2. g \in SUBSET IK /\ "NMI" \notin g /\ "IRQ" \notin g
  BY DEF States, Status
<1>3. NoInterrupts \in Status
  BY ClockFacts DEF NoInterrupts, Status
<1>4. /\ NoInterrupts.irq = {} /\ NoInterrupts.nmi = {}
      /\ NoInterrupts.nirq = 0 /\ NoInterrupts.nnmi = 0 /\ NoInterrupts.global = {}
  BY DEF NoInterrupts
<1>5. Counted(NoInterrupts)
  BY <1>4, FS_EmptySet DEF Counted
<1> HIDE DEF g
<1>6. d \in Status /\ d.global = g /\ Counted(d) /\ d.irq_clk = 0 /\ d.nmi_clk = 0
  <2>1. NoInterrupts.irq_clk = 0 /\ NoInterrupts.nmi_clk = 0
    BY DEF NoInterrupts
  <2> QED
    BY <1>2, <1>3, <1>4, <1>5, <2>1, GlobalUpdate
<1>7. p \in Cpu /\ p.clk = 6
  BY ClockFacts DEF States, Cpu
<1>8. k \in History /\ k.edge = FALSE
  BY DEF States, History
<1> HIDE DEF d, p, k
<1> QED
  BY <1>1, <1>2, <1>6, <1>7, <1>8 DEF GoodState, States, Fits, Consistent, Past

\* The end of the boundary touches IRQPEND and the exported registers only.
LEMMA SettleGood ==
  ASSUME NEW ik, NEW s, GoodState(s)
  PROVE  GoodState(Settle(ik, s))
<1> DEFINE g == IF "IRQ" \in s.cs.global THEN s.cs.global ELSE s.cs.global \ {"IRQPEND"}
           d == [s.cs EXCEPT !.global = g]
           x == s.cs.irq # {}
           k == [s.h EXCEPT !.seen = x]
           p == IF "MONITOR" \in ik /\ s.h.monitor THEN EXPORT_REGISTERS(s.cpu) ELSE s.cpu
<1>1. s \in States /\ s.cs \in Status /\ s.h \in History /\ s.cpu \in Cpu /\ Fits(s.cs, s.h.edge)
  BY DEF GoodState, States
<1>2. Settle(ik, s) = [cs |-> d, cpu |-> p, h |-> k]
  BY <1>1 DEF Settle, States
<1>7. p \in Cpu /\ p.clk = s.cpu.clk
  BY <1>1 DEF EXPORT_REGISTERS, Cpu
<1> HIDE DEF p
<1>3. g \in SUBSET IK /\ ("NMI" \in g <=> "NMI" \in s.cs.global)
      /\ ("IRQ" \in g <=> "IRQ" \in s.cs.global) /\ ("RESET" \in g <=> "RESET" \in s.cs.global)
  BY <1>1 DEF Status
<1> HIDE DEF g
<1>4. /\ d \in Status /\ d.global = g /\ (Counted(s.cs) => Counted(d))
      /\ d.irq_clk = s.cs.irq_clk /\ d.nmi_clk = s.cs.nmi_clk
  BY <1>1, <1>3, GlobalUpdate
<1>5. x \in BOOLEAN
  OBVIOUS
<1> HIDE DEF x
<1>6. k \in History /\ k.edge = s.h.edge
  BY <1>1, <1>5 DEF History
<1>8. Fits(d, k.edge)
  <2>1. /\ "RESET" \in s.cs.global => "RESET" \in d.global
        /\ "NMI" \in d.global <=> "NMI" \in s.cs.global
        /\ Counted(s.cs) => Counted(d)
    BY <1>3, <1>4
  <2> QED
    <3> DEFINE c == s.cs  e == s.h.edge  f == k.edge
    <3>1. /\ Fits(c, e) /\ f = e /\ ("RESET" \in c.global => "RESET" \in d.global)
          /\ "NMI" \in d.global <=> "NMI" \in c.global
          /\ Counted(c) => Counted(d)
      BY <1>1, <1>6, <2>1
    <3> HIDE DEF c, e, f
    <3>2. Fits(d, f)
      BY <3>1, FitsSame
    <3> QED
      BY <3>2 DEF f
<1> HIDE DEF d, k
<1> QED
  BY <1>1, <1>2, <1>4, <1>6, <1>7, <1>8 DEF GoodState, States, Past

\* A snapshot of a good state is good.
LEMMA ImageGood ==
  ASSUME NEW s, GoodState(s)
  PROVE  GoodImages({Image(s)})
<1>1. s.cs \in Status /\ s.h \in History /\ s.cpu \in Cpu /\ s \in States
  BY DEF GoodState, States
<1> DEFINE c == interrupt_write_snapshot(s.cs)  p == [s.cpu EXCEPT !.I = s.cpu.exported]
<1>2. c \in Status /\ c.global = s.cs.global /\ c.irq_clk = s.cs.irq_clk /\ c.nmi_clk = s.cs.nmi_clk
  BY <1>1 DEF interrupt_write_snapshot, Status
<1>3. SavedLines = Lines => c = s.cs
  <2> SUFFICES ASSUME SavedLines = Lines PROVE c = s.cs
    OBVIOUS
  <2>1. s.cs.irq \cap SavedLines = s.cs.irq /\ s.cs.nmi \cap SavedLines = s.cs.nmi
    BY <1>1 DEF Status, Lines
  <2>2. c = [s.cs EXCEPT !.irq = s.cs.irq, !.nmi = s.cs.nmi]
    BY <2>1 DEF interrupt_write_snapshot
  <2> QED
    BY <1>1, <2>2 DEF Status
<1>4. p \in Cpu /\ p.clk = s.cpu.clk
  BY <1>1 DEF Cpu
<1>5. s.h.edge \in BOOLEAN /\ s.h.seen \in BOOLEAN /\ s.h.masked \in BOOLEAN
  BY <1>1 DEF History
<1> HIDE DEF c, p
<1>6. /\ Image(s) \in Images /\ Image(s).cs = c /\ Image(s).edge = s.h.edge /\ Image(s).cpu = p
  BY <1>1, <1>2, <1>4, <1>5 DEF Image, Images, c, p
<1>7. Fits(c, s.h.edge) /\ Past(c, p)
  BY <1>2, <1>3, <1>4 DEF GoodState, Fits, Past
<1> QED
  BY <1>6, <1>7 DEF GoodImages

\* What reading a snapshot gives: its status and clock, the I flag of the CPU.
LEMMA LoadedParts ==
  ASSUME NEW s \in States, NEW i \in Images
  PROVE  LET t == Loaded(s, i) IN
         /\ t \in States /\ t.cpu.clk = i.cpu.clk /\ t.h.edge = i.edge
         /\ t.cs.global = i.cs.global /\ (Counted(t.cs) <=> Counted(i.cs))
         /\ t.cs.irq_clk = i.cs.irq_clk /\ t.cs.nmi_clk = i.cs.nmi_clk
         /\ t.h.wanted = s.h.wanted /\ t.h.monitor = s.h.monitor /\ t.h.took = s.h.took
<1>1. /\ s.cs \in Status /\ s.h \in History /\ s.cpu \in Cpu
      /\ i.cs \in Status /\ i.cpu \in Cpu
      /\ i.edge \in BOOLEAN /\ i.seen \in BOOLEAN /\ i.masked \in BOOLEAN
  BY DEF States, Images
<1> DEFINE d == [i.cs EXCEPT !.trap_func = s.cs.trap_func]
           p == [i.cpu EXCEPT !.exported = i.cpu.I, !.I = s.cpu.I]
           k == [s.h EXCEPT !.edge = i.edge, !.seen = i.seen, !.masked = i.masked]
<1>2. Loaded(s, i) = [cs |-> d, cpu |-> p, h |-> k]
  BY DEF Loaded, interrupt_read_snapshot
<1>3. /\ d \in Status /\ d.global = i.cs.global /\ d.irq = i.cs.irq /\ d.nmi = i.cs.nmi
      /\ d.nirq = i.cs.nirq /\ d.nnmi = i.cs.nnmi
      /\ d.irq_clk = i.cs.irq_clk /\ d.nmi_clk = i.cs.nmi_clk
  BY <1>1 DEF Status
<1>4. p \in Cpu /\ p.clk = i.cpu.clk
  BY <1>1 DEF Cpu
<1>5. /\ k \in History /\ k.edge = i.edge
      /\ k.wanted = s.h.wanted /\ k.monitor = s.h.monitor /\ k.took = s.h.took
  BY <1>1 DEF History
<1> HIDE DEF d, p, k
<1> QED
  BY <1>2, <1>3, <1>4, <1>5 DEF States, Counted

\* Reading a good snapshot gives a good state.
LEMMA LoadedGood ==
  ASSUME NEW s \in States, NEW i \in Images, Fits(i.cs, i.edge), Past(i.cs, i.cpu)
  PROVE  GoodState(Loaded(s, i))
<1> DEFINE t == Loaded(s, i)
<1>1. /\ t \in States /\ t.cpu.clk = i.cpu.clk /\ t.h.edge = i.edge
      /\ t.cs.global = i.cs.global /\ (Counted(t.cs) <=> Counted(i.cs))
      /\ t.cs.irq_clk = i.cs.irq_clk /\ t.cs.nmi_clk = i.cs.nmi_clk
  BY LoadedParts
<1> HIDE DEF t
<1>2. Fits(t.cs, t.h.edge) /\ Past(t.cs, t.cpu)
  BY <1>1 DEF Fits, Consistent, Past
<1> QED
  BY <1>1, <1>2 DEF GoodState, t

\* A read that failed asks for a reset.
LEMMA ReadFailedAsks ==
  ASSUME NEW s \in States, NEW i \in Images, Fits(i.cs, i.edge), Past(i.cs, i.cpu)
  PROVE  LET f == ReadFailed(s, i) IN
         /\ f \in States /\ "RESET" \in f.cs.global
         /\ "menu" \in Events => GoodState(f)
<1> DEFINE t == Loaded(s, i)
           g == t.cs.global \cup {"RESET"}
           d == [t.cs EXCEPT !.irq = {}, !.nmi = {}, !.global = g]
<1>1. t \in States /\ t.cs \in Status /\ t.cpu \in Cpu /\ t.h \in History /\ Past(t.cs, t.cpu)
  BY LoadedGood DEF GoodState, States
<1>2. ReadFailed(s, i) = [cs |-> d, cpu |-> t.cpu, h |-> t.h]
  BY DEF ReadFailed
<1>3. g \in SUBSET IK /\ "RESET" \in g
  BY <1>1 DEF Status, IK
<1> HIDE DEF g, t
<1>4. d \in Status /\ d.global = g /\ d.irq_clk = t.cs.irq_clk /\ d.nmi_clk = t.cs.nmi_clk
  BY <1>1, <1>3 DEF Status
<1> HIDE DEF d
<1> QED
  BY <1>1, <1>2, <1>3, <1>4 DEF States, GoodState, Fits, Past

\* Calling a trap function, coming back from it, and asking for a reset.
LEMMA CalledGood ==
  ASSUME NEW s, GoodState(s)
  PROVE  /\ GoodState(Called(s))
         /\ TriggerReset(s) \in States /\ "RESET" \in TriggerReset(s).cs.global
<1>1. s.cs \in Status /\ s.h \in History /\ s.cpu \in Cpu /\ Fits(s.cs, s.h.edge)
  BY DEF GoodState, States
<1>2. GoodState(Called(s))
  <2> DEFINE g == s.cs.global \ {"TRAP"}
             w == s.h.wanted \ {s.cs.trap_func}
             d == [s.cs EXCEPT !.global = g]
             k == [s.h EXCEPT !.wanted = w]
  <2>1. Called(s) = [cs |-> d, cpu |-> EXPORT_REGISTERS(s.cpu), h |-> k]
    BY DEF Called
  <2>2. EXPORT_REGISTERS(s.cpu) \in Cpu
    BY <1>1 DEF EXPORT_REGISTERS, Cpu
  <2>7. EXPORT_REGISTERS(s.cpu).clk = s.cpu.clk
    BY <1>1 DEF EXPORT_REGISTERS, Cpu
  <2>3. /\ g \in SUBSET IK /\ ("IRQ" \in g <=> "IRQ" \in s.cs.global)
        /\ "NMI" \in g <=> "NMI" \in s.cs.global
        /\ "RESET" \in g <=> "RESET" \in s.cs.global
    BY <1>1 DEF Status
  <2>4. w \in SUBSET Traps
    BY <1>1 DEF History
  <2> HIDE DEF g, w
  <2>5. /\ d \in Status /\ d.global = g /\ (Counted(s.cs) => Counted(d))
        /\ d.irq_clk = s.cs.irq_clk /\ d.nmi_clk = s.cs.nmi_clk
    BY <1>1, <2>3, GlobalUpdate
  <2>6. k \in History /\ k.edge = s.h.edge
    BY <1>1, <2>4 DEF History
  <2>8. Fits(d, k.edge)
    <3>1. /\ "RESET" \in s.cs.global => "RESET" \in d.global
          /\ "NMI" \in d.global <=> "NMI" \in s.cs.global
          /\ Counted(s.cs) => Counted(d)
      BY <2>3, <2>5
    <3> QED
      <4> DEFINE c == s.cs  e == s.h.edge  f == k.edge
      <4>1. /\ Fits(c, e) /\ f = e /\ ("RESET" \in c.global => "RESET" \in d.global)
            /\ "NMI" \in d.global <=> "NMI" \in c.global
            /\ Counted(c) => Counted(d)
        BY <1>1, <2>6, <3>1
      <4> HIDE DEF c, e, f
      <4>2. Fits(d, f)
        BY <4>1, FitsSame
      <4> QED
        BY <4>2 DEF f
  <2> HIDE DEF d, k
  <2> QED
    BY <2>1, <2>2, <2>5, <2>6, <2>7, <2>8 DEF GoodState, States, Past
<1>3. TriggerReset(s) \in States /\ "RESET" \in TriggerReset(s).cs.global
  <2> DEFINE g == s.cs.global \cup {"RESET"}
             d == [s.cs EXCEPT !.global = g]
  <2>1. TriggerReset(s) = [cs |-> d, cpu |-> s.cpu, h |-> s.h]
    BY DEF TriggerReset
  <2>2. g \in SUBSET IK /\ "RESET" \in g
    BY <1>1 DEF Status, IK
  <2> HIDE DEF g
  <2>3. d \in Status /\ d.global = g
    BY <1>1, <2>2, GlobalUpdate
  <2> HIDE DEF d
  <2> QED
    BY <1>1, <2>1, <2>2, <2>3 DEF States
<1> QED
  BY <1>2, <1>3

\* The registers are none of the status's business.
LEMMA BackGood ==
  ASSUME NEW s \in States
  PROVE  /\ Back(s) \in States /\ Back(s).cs = s.cs /\ Back(s).h = s.h
         /\ GoodState(s) => GoodState(Back(s))
<1>1. IMPORT_REGISTERS(s.cpu) \in Cpu /\ IMPORT_REGISTERS(s.cpu).clk = s.cpu.clk
  BY DEF IMPORT_REGISTERS, States, Cpu
<1>2. Back(s) \in States /\ Back(s).cs = s.cs /\ Back(s).h = s.h /\ Back(s).cpu.clk = s.cpu.clk
  BY <1>1 DEF Back, States
<1> QED
  BY <1>2 DEF GoodState, Past

\* A trap leaves a good state or a state in which a reset is due, and good snapshots.
LEMMA TrapGood ==
  ASSUME NEW s, GoodState(s), NEW im, GoodImages(im), NEW out \in CallTrap(s, im)
  PROVE  /\ out.s \in States /\ GoodImages(out.image)
         /\ GoodState(out.s) \/ "RESET" \in out.s.cs.global
<1>1. GoodState(Called(s)) /\ Called(s) \in States
  BY CalledGood DEF GoodState
<1>2. CASE s.cs.trap_func = "save"
  <2>1. out = [s |-> Back(Called(s)), image |-> {Image(Called(s))}]
    BY <1>2 DEF CallTrap
  <2> QED
    BY <1>1, <2>1, ImageGood, BackGood
<1>3. CASE s.cs.trap_func = "load"
  <2>1. PICK t \in Reads(Called(s), im) : out = [s |-> Back(t), image |-> im]
    BY <1>3 DEF CallTrap
  <2>2. CASE t = Called(s)
    BY <1>1, <2>1, <2>2, BackGood
  <2>3. CASE t # Called(s)
    <3>1. PICK i \in im : t = Loaded(Called(s), i) \/ t = ReadFailed(Called(s), i)
      BY <2>3 DEF Reads
    <3>2. i \in Images /\ Fits(i.cs, i.edge) /\ Past(i.cs, i.cpu)
      BY DEF GoodImages
    <3>3. t \in States /\ (GoodState(t) \/ "RESET" \in t.cs.global)
      BY <1>1, <3>1, <3>2, LoadedGood, ReadFailedAsks DEF GoodState
    <3> QED
      BY <2>1, <3>3, BackGood
  <2> QED
    BY <2>2, <2>3
<1>4. CASE s.cs.trap_func # "save" /\ s.cs.trap_func # "load"
  <2>1. PICK t \in {Called(s), TriggerReset(Called(s))} : out = [s |-> Back(t), image |-> im]
    BY <1>4 DEF CallTrap
  <2>2. t \in States /\ (GoodState(t) \/ "RESET" \in t.cs.global)
    BY <1>1, CalledGood
  <2> QED
    BY <2>1, <2>2, BackGood
<1> QED
  BY <1>2, <1>3, <1>4

\* The invariant in terms of the pair of records.
LEMMA Parts ==
  /\ IInv => /\ GoodState([cs |-> cs, cpu |-> cpu, h |-> h]) /\ GoodImages(image)
             /\ phase \in {"alarms", "fetch", "access"} /\ (phase = "access" => cpu.clk < CLOCK_MAX)
             /\ cs \in Status /\ cpu \in Cpu /\ h \in History
             /\ Fits(cs, h.edge) /\ Past(cs, cpu)
  /\ \A s : /\ GoodState(s) /\ Becomes(s) /\ GoodImages(image')
            /\ phase' \in {"alarms", "fetch"}
           => IInv'
<1>1. IInv => /\ GoodState([cs |-> cs, cpu |-> cpu, h |-> h]) /\ GoodImages(image)
             /\ phase \in {"alarms", "fetch", "access"} /\ (phase = "access" => cpu.clk < CLOCK_MAX)
             /\ cs \in Status /\ cpu \in Cpu /\ h \in History
             /\ Fits(cs, h.edge) /\ Past(cs, cpu)
  BY DEF IInv, TypeOK, GoodState, GoodImages, States
<1>2. ASSUME NEW s, GoodState(s), Becomes(s), GoodImages(image'), phase' \in {"alarms", "fetch"}
      PROVE  IInv'
  <2>1. cs' = s.cs /\ cpu' = s.cpu /\ h' = s.h
    BY <1>2 DEF Becomes
  <2>2. s.cs \in Status /\ s.cpu \in Cpu /\ s.h \in History /\ Fits(s.cs, s.h.edge) /\ Past(s.cs, s.cpu)
    BY <1>2 DEF GoodState, States
  <2> QED
    BY <1>2, <2>1, <2>2 DEF IInv, TypeOK, GoodImages
<1> QED
  BY <1>1, <1>2

\* Steps that leave the CPU alone.
LEMMA StatusStep ==
  ASSUME IInv, cs' \in Status, h' \in History, Fits(cs', h'.edge), Past(cs', cpu),
         UNCHANGED <<cpu, phase, image>>
  PROVE  IInv'
BY DEF IInv, TypeOK, GoodImages

\* The boundary, with everything it may call.
LEMMA BoundaryKeeps ==
  ASSUME IInv, DO_INTERRUPT
  PROVE  IInv'
<1> DEFINE served == Serve(cs, cpu, h)
<1>1. /\ cs \in Status /\ cpu \in Cpu /\ h \in History /\ Fits(cs, h.edge) /\ Past(cs, cpu)
      /\ GoodImages(image) /\ cpu.clk + HandlerCycles <= CLOCK_MAX /\ phase' = "fetch"
  BY Parts DEF DO_INTERRUPT, Room
<1>2. GoodState(served) /\ served \in States
  BY <1>1, ServeGood DEF GoodState
<1> HIDE DEF served
<1>3. CASE "TRAP" \in cs.global
  <2>1. PICK out \in CallTrap(served, image) :
          /\ image' = out.image
          /\ Becomes(Settle(cs.global, IF "RESET" \in cs.global \cup out.s.cs.global
                                        THEN Reset(out.s) ELSE out.s))
    BY <1>3 DEF DO_INTERRUPT, served
  <2>2. /\ out.s \in States /\ GoodImages(out.image)
        /\ GoodState(out.s) \/ "RESET" \in out.s.cs.global
    BY <1>1, <1>2, TrapGood
  <2>3. GoodState(IF "RESET" \in cs.global \cup out.s.cs.global THEN Reset(out.s) ELSE out.s)
    BY <2>2, ResetGood
  <2> QED
    BY <1>1, <2>1, <2>2, <2>3, SettleGood, Parts
<1>4. CASE "TRAP" \notin cs.global
  <2>1. /\ image' = image
        /\ Becomes(Settle(cs.global, IF "RESET" \in cs.global THEN Reset(served) ELSE served))
    BY <1>4 DEF DO_INTERRUPT, served
  <2>2. GoodState(IF "RESET" \in cs.global THEN Reset(served) ELSE served)
    BY <1>2, ResetGood
  <2> QED
    BY <1>1, <2>1, <2>2, SettleGood, Parts
<1> QED
  BY <1>3, <1>4

\* The moments a device may give are clock values.
LEMMA MomentsType ==
  ASSUME cpu \in Cpu
  PROVE  \A t \in Moments : t \in Clock /\ t <= cpu.clk
BY ClockFacts DEF Moments, Cpu, Clock

\* Devices and the restore key.
LEMMA LinesKeep ==
  ASSUME IInv, NEW value \in BOOLEAN
  PROVE  /\ \A l \in IrqLines : set_irq(l, value) => IInv'
         /\ \A l \in NmiLines : set_nmi(l, value) => IInv'
         /\ \A l \in NmiLines : c64keyboard_restore_key(l) => IInv'
<1>1. /\ cs \in Status /\ cpu \in Cpu /\ h \in History /\ Fits(cs, h.edge) /\ Past(cs, cpu)
  BY Parts
<1>2. cpu.clk \in Clock /\ cpu.clk \in Nat /\ cs.irq_clk \in Nat /\ cs.nmi_clk \in Nat
  BY <1>1, ClockFacts DEF Cpu, Status
<1>3. ASSUME NEW l \in IrqLines, set_irq(l, value)
      PROVE  IInv'
  <2>1. PICK clk \in Moments : cs' = interrupt_set_irq(cs, l, value, clk)
    BY <1>3 DEF set_irq
  <2>2. h' = [h EXCEPT !.seen = @ \/ value] /\ UNCHANGED <<cpu, phase, image>>
    BY <1>3 DEF set_irq
  <2>3. clk \in Clock /\ clk \in Nat /\ clk <= cpu.clk
    BY <1>1, MomentsType, ClockFacts
  <2>4. /\ cs' \in Status /\ (Counted(cs) => Counted(cs'))
        /\ cs'.global \ {"IRQ", "IRQPEND"} = cs.global \ {"IRQ", "IRQPEND"}
        /\ cs'.irq_clk \in {cs.irq_clk, clk} /\ cs'.nmi_clk = cs.nmi_clk
    BY <1>1, <2>1, <2>3, SetIrq
  <2>5. h' \in History /\ h'.edge = h.edge
    BY <1>1, <2>2 DEF History
  <2>6. ("RESET" \in cs'.global <=> "RESET" \in cs.global) /\ ("NMI" \in cs'.global <=> "NMI" \in cs.global)
    BY <2>4
  <2>7. Fits(cs', h'.edge)
    BY <1>1, <2>4, <2>5, <2>6, FitsSame
  <2>8. Past(cs', cpu)
    BY <1>1, <2>3, <2>4 DEF Past
  <2> QED
    BY <2>2, <2>4, <2>5, <2>7, <2>8, StatusStep
<1>4. ASSUME NEW l \in NmiLines, set_nmi(l, value)
      PROVE  IInv'
  <2>1. PICK clk \in Moments : cs' = interrupt_set_nmi(cs, l, value, clk)
    BY <1>4 DEF set_nmi
  <2> DEFINE e == h.edge \/ (value /\ cs.nmi = {})
  <2>2. h' = [h EXCEPT !.edge = e] /\ UNCHANGED <<cpu, phase, image>>
    BY <1>4 DEF set_nmi
  <2>3. clk \in Clock /\ clk \in Nat /\ clk <= cpu.clk
    BY <1>1, MomentsType, ClockFacts
  <2>4. /\ cs' \in Status /\ cs'.global \ {"NMI"} = cs.global \ {"NMI"}
        /\ Counted(cs) => Counted(cs')
        /\ Counted(cs) /\ value => ("NMI" \in cs'.global <=> "NMI" \in cs.global \/ cs.nmi = {})
        /\ Counted(cs) /\ ~value => ("NMI" \in cs'.global <=> "NMI" \in cs.global)
        /\ cs'.irq_clk = cs.irq_clk /\ cs'.nmi_clk \in {cs.nmi_clk, clk}
    BY <1>1, <2>1, <2>3, SetNmi
  <2>5. e \in BOOLEAN
    BY <1>1 DEF History
  <2>6. Consistent(cs, h.edge) => Counted(cs') /\ ("NMI" \in cs'.global <=> e)
    BY <2>4 DEF Consistent
  <2> HIDE DEF e
  <2>7. h' \in History /\ h'.edge = e
    BY <1>1, <2>2, <2>5 DEF History
  <2>8. "RESET" \in cs.global => "RESET" \in cs'.global
    BY <2>4
  <2>9. Fits(cs', h'.edge)
    BY <1>1, <2>6, <2>7, <2>8, FitsKept DEF Consistent
  <2>10. Past(cs', cpu)
    BY <1>1, <2>3, <2>4 DEF Past
  <2> QED
    BY <2>2, <2>4, <2>7, <2>9, <2>10, StatusStep
<1>5. ASSUME NEW l \in NmiLines, c64keyboard_restore_key(l)
      PROVE  IInv'
  <2> DEFINE c == interrupt_set_nmi(cs, l, TRUE, cpu.clk)
             e == h.edge \/ cs.nmi = {}
  <2>1. cs' = Lowered(c, l, cpu.clk)
    BY <1>5 DEF c64keyboard_restore_key, Lowered
  <2>2. h' = [h EXCEPT !.edge = e] /\ UNCHANGED <<cpu, phase, image>>
    BY <1>5 DEF c64keyboard_restore_key
  <2> HIDE DEF c
  <2>0. c = Raised(cs, l, cpu.clk)
    BY DEF c, Raised
  <2>3. /\ c \in Status /\ c.global \ {"NMI"} = cs.global \ {"NMI"}
        /\ Counted(cs) => Counted(c) /\ ("NMI" \in c.global <=> "NMI" \in cs.global \/ cs.nmi = {})
        /\ c.irq_clk = cs.irq_clk /\ c.nmi_clk \in {cs.nmi_clk, cpu.clk}
    BY <1>1, <1>2, <2>0, Rise
  <2>4. /\ cs' \in Status /\ cs'.global \ {"NMI"} = c.global \ {"NMI"}
        /\ Counted(c) => Counted(cs') /\ ("NMI" \in cs'.global <=> "NMI" \in c.global)
        /\ cs'.irq_clk = c.irq_clk /\ cs'.nmi_clk \in {c.nmi_clk, cpu.clk}
    BY <1>2, <2>1, <2>3, Fall
  <2>5. e \in BOOLEAN
    BY <1>1 DEF History
  <2>6. Consistent(cs, h.edge) => Counted(cs') /\ ("NMI" \in cs'.global <=> e)
    BY <2>3, <2>4 DEF Consistent
  <2> HIDE DEF e
  <2>7. h' \in History /\ h'.edge = e
    BY <1>1, <2>2, <2>5 DEF History
  <2>8. "RESET" \in cs.global => "RESET" \in cs'.global
    BY <2>3, <2>4
  <2>9. Fits(cs', h'.edge)
    BY <1>1, <2>6, <2>7, <2>8, FitsKept DEF Consistent
  <2>10. Past(cs', cpu)
    BY <1>1, <1>2, <2>3, <2>4 DEF Past
  <2> QED
    BY <2>2, <2>4, <2>7, <2>9, <2>10, StatusStep
<1> QED
  BY <1>3, <1>4, <1>5

\* The clock guard changes the clocks only.
LEMMA GuardKeeps ==
  ASSUME IInv, clk_guard_prevent_overflow
  PROVE  IInv'
<1>1. /\ cs \in Status /\ cpu \in Cpu /\ h \in History /\ Fits(cs, h.edge) /\ Past(cs, cpu)
      /\ GoodImages(image)
      /\ phase \in {"alarms", "fetch", "access"} /\ phase # "access"
  BY Parts DEF clk_guard_prevent_overflow
<1>2. /\ clk_guard_clock_sub \in Nat /\ clk_guard_clock_sub <= ClkMaxValue
  <2> DEFINE m == ClkMaxValue - CLKGUARD_SUB_MIN
  <2>1. m \in Nat /\ m <= ClkMaxValue
    BY GuardAssumption
  <2>2. CASE ClkBase = 0
    BY <2>1, <2>2 DEF clk_guard_clock_sub
  <2>3. CASE ClkBase # 0
    <3>1. ClkBase \in Nat \ {0}
      BY <2>3, GuardAssumption
    <3>2. clk_guard_clock_sub = (m \div ClkBase) * ClkBase
      BY <2>3 DEF clk_guard_clock_sub
    <3>3. /\ m = (m \div ClkBase) * ClkBase + (m % ClkBase)
          /\ m % ClkBase \in Nat /\ m \div ClkBase \in Nat
      BY <2>1, <3>1
    <3>4. (m \div ClkBase) * ClkBase \in Nat
      BY <3>1, <3>3
    <3> HIDE DEF m
    <3>5. (m \div ClkBase) * ClkBase <= m
      BY <2>1, <3>3, <3>4
    <3> QED
      BY <2>1, <3>2, <3>4, <3>5, GuardAssumption
  <2> QED
    BY <2>2, <2>3
<1> DEFINE sub == clk_guard_clock_sub
<1>3. /\ cpu' = [cpu EXCEPT !.clk = @ - sub] /\ cs' = interrupt_cpu_status_time_warp(cs, sub)
      /\ cpu.clk >= ClkMaxValue /\ UNCHANGED <<phase, image, h>>
  BY DEF clk_guard_prevent_overflow, NeedsSubtraction
<1> HIDE DEF sub
<1>4. sub \in Nat /\ sub <= ClkMaxValue
  BY <1>2 DEF sub
<1>5. cpu.clk - sub \in Clock /\ cpu.clk \in Nat
  BY <1>1, <1>3, <1>4, ClockFacts DEF Cpu
<1> DEFINE p == cpu.clk - sub
<1>6. cpu' \in Cpu /\ cpu'.clk = p
  BY <1>1, <1>3, <1>5 DEF Cpu
<1>7. \A t \in Clock : /\ Earlier(t, sub) \in Clock
                       /\ t <= cpu.clk => Earlier(t, sub) <= p
  BY <1>3, <1>4, <1>5, ClockFacts DEF Earlier, Clock
<1> HIDE DEF p
<1>8. /\ cs' \in Status /\ (Counted(cs) => Counted(cs')) /\ cs'.global = cs.global
      /\ cs'.irq_clk <= p /\ cs'.nmi_clk <= p
  <2> DEFINE a == Earlier(cs.irq_clk, sub)  b == Earlier(cs.nmi_clk, sub)
  <2>1. a \in Clock /\ b \in Clock /\ a <= p /\ b <= p
    BY <1>1, <1>7 DEF Status, Past
  <2>2. cs' = [cs EXCEPT !.irq_clk = a, !.nmi_clk = b]
    BY <1>3 DEF interrupt_cpu_status_time_warp
  <2> HIDE DEF a, b
  <2>3. /\ cs' \in Status /\ cs'.global = cs.global /\ cs'.irq = cs.irq /\ cs'.nmi = cs.nmi
        /\ cs'.nirq = cs.nirq /\ cs'.nnmi = cs.nnmi /\ cs'.irq_clk = a /\ cs'.nmi_clk = b
    BY <1>1, <2>1, <2>2 DEF Status
  <2> QED
    BY <2>1, <2>3 DEF Counted
<1>9. Fits(cs', h.edge)
  BY <1>1, <1>8, FitsKept DEF Consistent
<1>10. Past(cs', cpu')
  BY <1>6, <1>8 DEF Past
<1> QED
  BY <1>1, <1>3, <1>6, <1>8, <1>9, <1>10 DEF IInv, TypeOK, GoodImages

\* Instructions leave the status alone.
LEMMA InstructionKeeps ==
  ASSUME IInv, Instruction \/ End
  PROVE  IInv'
<1>1. /\ cs \in Status /\ cpu \in Cpu /\ h \in History /\ Fits(cs, h.edge) /\ Past(cs, cpu)
      /\ GoodImages(image)
      /\ phase \in {"alarms", "fetch", "access"} /\ (phase = "access" => cpu.clk < CLOCK_MAX)
  BY Parts
<1>2. /\ cpu.I \in BOOLEAN /\ cpu.clk \in Clock /\ cpu.clk \in Nat
      /\ cs.irq_clk \in Nat /\ cs.nmi_clk \in Nat
  BY <1>1, ClockFacts DEF Cpu, Status
<1>3. ASSUME cpu' \in Cpu, h' \in History, h'.edge = h.edge, UNCHANGED <<cs, image>>,
             cpu.clk <= cpu'.clk,
             phase' \in {"alarms", "access"}, phase' = "access" => cpu'.clk < CLOCK_MAX
      PROVE  IInv'
  <2>1. cpu'.clk \in Nat
    BY <1>3, ClockFacts DEF Cpu
  <2>2. Past(cs', cpu')
    BY <1>1, <1>2, <1>3, <2>1 DEF Past
  <2> QED
    BY <1>1, <1>3, <2>2 DEF IInv, TypeOK, GoodImages
<1>4. ASSUME NEW n \in Nat, NEW I \in BOOLEAN, NEW info \in OpInfo, NEW masked \in BOOLEAN,
             Executes(I, info, masked, n)
      PROVE  IInv'
  <2> DEFINE t == cpu.clk + n
  <2>1. /\ cpu' = [cpu EXCEPT !.clk = t, !.I = I, !.info = info] /\ t <= CLOCK_MAX
        /\ h' = [h EXCEPT !.masked = masked, !.took = "none"]
        /\ UNCHANGED <<cs, image>> /\ phase' = "alarms"
    BY <1>4 DEF Executes, Room
  <2>2. t \in Clock /\ cpu.clk <= t
    BY <1>2, <1>4, <2>1, ClockFacts
  <2> HIDE DEF t
  <2>3. cpu' \in Cpu /\ cpu'.clk = t
    BY <1>1, <2>1, <2>2 DEF Cpu
  <2>4. h' \in History /\ h'.edge = h.edge
    BY <1>1, <2>1 DEF History
  <2> QED
    BY <1>3, <2>1, <2>2, <2>3, <2>4
<1>5. ASSUME NEW n \in Nat, BRK(n)
      PROVE  IInv'
  <2> DEFINE t == cpu.clk + n
  <2>1. /\ cpu' = [[cpu EXCEPT !.exported = cpu.I] EXCEPT !.clk = t, !.I = TRUE, !.info = "plain"]
        /\ h' = [h EXCEPT !.masked = TRUE, !.took = "none"] /\ t <= CLOCK_MAX
        /\ UNCHANGED <<cs, image>> /\ phase' = "alarms"
    BY <1>1, <1>5 DEF BRK, Room, EXPORT_REGISTERS, Cpu
  <2>2. t \in Clock /\ cpu.clk <= t
    BY <1>2, <1>5, <2>1, ClockFacts
  <2> HIDE DEF t
  <2>3. cpu' \in Cpu /\ cpu'.clk = t
    BY <1>1, <2>1, <2>2 DEF Cpu, OpInfo
  <2>4. h' \in History /\ h'.edge = h.edge
    BY <1>1, <2>1 DEF History
  <2> QED
    BY <1>3, <2>1, <2>2, <2>3, <2>4
<1>6. ASSUME NEW n \in Nat, Access(n)
      PROVE  IInv'
  <2> DEFINE t == cpu.clk + n
  <2>1. /\ cpu' = [cpu EXCEPT !.clk = t, !.info = "plain"]
        /\ h' = [h EXCEPT !.masked = cpu.I, !.took = "none"] /\ cpu.clk + (n + 1) <= CLOCK_MAX
        /\ UNCHANGED <<cs, image>> /\ phase' = "access"
    BY <1>6 DEF Access, Room
  <2>2. t \in Clock /\ t < CLOCK_MAX /\ cpu.clk <= t
    BY <1>2, <1>6, <2>1, ClockFacts
  <2> HIDE DEF t
  <2>3. cpu' \in Cpu /\ cpu'.clk = t
    BY <1>1, <2>1, <2>2 DEF Cpu, OpInfo
  <2>4. h' \in History /\ h'.edge = h.edge
    BY <1>1, <1>2, <2>1 DEF History
  <2> QED
    BY <1>3, <2>1, <2>2, <2>3, <2>4
<1>7. ASSUME NEW n \in 0 .. 1, Complete(n)
      PROVE  IInv'
  <2> DEFINE t == cpu.clk + n
  <2>1. /\ cpu' = [cpu EXCEPT !.clk = t] /\ UNCHANGED <<cs, image, h>>
        /\ phase = "access" /\ phase' = "alarms"
    BY <1>7 DEF Complete
  <2>2. t \in Clock /\ cpu.clk <= t
    BY <1>1, <1>2, <2>1, ClockFacts
  <2> HIDE DEF t
  <2>3. cpu' \in Cpu /\ cpu'.clk = t
    BY <1>1, <2>1, <2>2 DEF Cpu
  <2> QED
    BY <1>1, <1>3, <2>1, <2>2, <2>3
<1>8. ASSUME Instruction
      PROVE  IInv'
  <2>1. PICK n \in 1 .. MaxCycles :
          \/ CLI(n) \/ SEI(n) \/ BRK(n) \/ BRANCH(n) \/ Other(n) \/ Access(n)
          \/ \E s \in BOOLEAN : PLP(s, n) \/ RTI(s, n)
    BY <1>8 DEF Instruction
  <2>2. n \in Nat
    BY <2>1, ClockFacts
  <2>3. ASSUME CLI(n) \/ SEI(n) \/ BRANCH(n) \/ Other(n)
        PROVE  IInv'
    BY <1>2, <1>4, <2>2, <2>3 DEF CLI, SEI, BRANCH, Other, OpInfo
  <2>4. ASSUME NEW s \in BOOLEAN, PLP(s, n) \/ RTI(s, n)
        PROVE  IInv'
    BY <1>2, <1>4, <2>2, <2>4 DEF PLP, RTI, OpInfo
  <2> QED
    BY <1>5, <1>6, <2>1, <2>2, <2>3, <2>4
<1>9. ASSUME End
      PROVE  IInv'
  BY <1>7, <1>9 DEF End
<1> QED
  BY <1>8, <1>9

\* What the user does, the in-game menu apart.
LEMMA UserKeeps ==
  ASSUME IInv
  PROVE  /\ JAM => IInv'
         /\ interrupt_trigger_reset => IInv'
         /\ \A f \in Traps : trigger_trap(f) => IInv'
         /\ \A on \in BOOLEAN : interrupt_monitor_trap(on) => IInv'
<1>1. /\ cs \in Status /\ cpu \in Cpu /\ h \in History /\ Fits(cs, h.edge) /\ Past(cs, cpu)
      /\ GoodImages(image)
      /\ phase \in {"alarms", "fetch", "access"} /\ (phase = "access" => cpu.clk < CLOCK_MAX)
  BY Parts
<1>2. ASSUME NEW g \in SUBSET IK, "IRQ" \in g <=> "IRQ" \in cs.global,
             "NMI" \in g <=> "NMI" \in cs.global, "RESET" \in cs.global => "RESET" \in g,
             cs' = [cs EXCEPT !.global = g],
             h' \in History, h'.edge = h.edge, UNCHANGED <<cpu, phase, image>>
      PROVE  IInv'
  <2>1. /\ cs' \in Status /\ cs'.global = g /\ (Counted(cs) => Counted(cs'))
        /\ cs'.irq_clk = cs.irq_clk /\ cs'.nmi_clk = cs.nmi_clk
    BY <1>1, <1>2, GlobalUpdate
  <2>2. Fits(cs', h'.edge)
    BY <1>1, <1>2, <2>1, FitsSame
  <2>3. Past(cs', cpu)
    BY <1>1, <2>1 DEF Past
  <2> QED
    BY <1>2, <2>1, <2>2, <2>3, StatusStep
<1>3. ASSUME JAM
      PROVE  IInv'
  <2> DEFINE p == [EXPORT_REGISTERS(cpu) EXCEPT !.info = "plain"]
             k == [h EXCEPT !.masked = cpu.I]
             s == [cs |-> cs, cpu |-> p, h |-> k]
  <2>1. Becomes(Reset(s)) /\ image' = image /\ phase' = "alarms"
    BY <1>3 DEF JAM
  <2>2. p \in Cpu
    BY <1>1 DEF EXPORT_REGISTERS, Cpu, OpInfo
  <2>3. k \in History
    BY <1>1 DEF Cpu, History
  <2> HIDE DEF p, k
  <2>4. s \in States
    BY <1>1, <2>2, <2>3 DEF States
  <2> HIDE DEF s
  <2> QED
    BY <1>1, <2>1, <2>4, ResetGood, Parts
<1>4. ASSUME interrupt_trigger_reset
      PROVE  IInv'
  <2> DEFINE g == cs.global \cup {"RESET"}
  <2>1. cs' = [cs EXCEPT !.global = g] /\ UNCHANGED <<cpu, phase, image, h>>
    BY <1>4 DEF interrupt_trigger_reset
  <2>2. /\ g \in SUBSET IK /\ ("IRQ" \in g <=> "IRQ" \in cs.global)
        /\ "NMI" \in g <=> "NMI" \in cs.global
        /\ "RESET" \in cs.global => "RESET" \in g
    BY <1>1 DEF Status, IK
  <2> HIDE DEF g
  <2> QED
    BY <1>1, <1>2, <2>1, <2>2
<1>5. ASSUME NEW f \in Traps, trigger_trap(f)
      PROVE  IInv'
  <2> DEFINE g == cs.global \cup {"TRAP"}
             w == h.wanted \cup {f}
  <2>1. /\ cs' = [cs EXCEPT !.global = g, !.trap_func = f] /\ h' = [h EXCEPT !.wanted = w]
        /\ UNCHANGED <<cpu, phase, image>>
    BY <1>5 DEF trigger_trap, interrupt_maincpu_trigger_trap
  <2>2. /\ g \in SUBSET IK /\ ("IRQ" \in g <=> "IRQ" \in cs.global)
        /\ "NMI" \in g <=> "NMI" \in cs.global
        /\ "RESET" \in cs.global => "RESET" \in g
    BY <1>1 DEF Status, IK
  <2>3. w \in SUBSET Traps
    BY <1>1 DEF History
  <2> HIDE DEF g, w
  <2>4. /\ cs' \in Status /\ cs'.global = g /\ cs'.irq = cs.irq /\ cs'.nmi = cs.nmi
        /\ cs'.nirq = cs.nirq /\ cs'.nnmi = cs.nnmi
        /\ cs'.irq_clk = cs.irq_clk /\ cs'.nmi_clk = cs.nmi_clk
    BY <1>1, <2>1, <2>2 DEF Status
  <2>5. h' \in History /\ h'.edge = h.edge
    BY <1>1, <2>1, <2>3 DEF History
  <2>6. Counted(cs) => Counted(cs')
    BY <2>2, <2>4 DEF Counted
  <2>7. Fits(cs', h'.edge)
    BY <1>1, <2>2, <2>4, <2>5, <2>6, FitsKept DEF Consistent
  <2>8. Past(cs', cpu)
    BY <1>1, <2>4 DEF Past
  <2> QED
    BY <2>1, <2>4, <2>5, <2>7, <2>8, StatusStep
<1>6. ASSUME NEW on \in BOOLEAN, interrupt_monitor_trap(on)
      PROVE  IInv'
  <2> DEFINE g == IF on THEN cs.global \cup {"MONITOR"} ELSE cs.global \ {"MONITOR"}
  <2>1. /\ cs' = [cs EXCEPT !.global = g] /\ h' = [h EXCEPT !.monitor = on]
        /\ UNCHANGED <<cpu, phase, image>>
    BY <1>6 DEF interrupt_monitor_trap
  <2>2. /\ g \in SUBSET IK /\ ("IRQ" \in g <=> "IRQ" \in cs.global)
        /\ "NMI" \in g <=> "NMI" \in cs.global
        /\ "RESET" \in cs.global => "RESET" \in g
    BY <1>1 DEF Status, IK
  <2> HIDE DEF g
  <2>3. h' \in History /\ h'.edge = h.edge
    BY <1>1, <2>1 DEF History
  <2> QED
    BY <1>1, <1>2, <2>1, <2>2, <2>3
<1> QED
  BY <1>3, <1>4, <1>5, <1>6

\* The in-game menu, which saves and loads between two instructions.
LEMMA MenuKeeps ==
  ASSUME IInv, InGameMenuLoop
  PROVE  IInv'
<1> DEFINE s == [cs |-> cs, cpu |-> cpu, h |-> h]
<1>1. /\ GoodState(s) /\ s \in States /\ GoodImages(image)
      /\ phase' = phase /\ phase \in {"alarms", "fetch"} /\ "menu" \in Events
  BY Parts DEF InGameMenuLoop, GoodState
<1>2. \/ image' = {Image(s)} /\ UNCHANGED <<cs, cpu, h>>
      \/ image' = image /\ \E t \in Reads(s, image) : Becomes(t)
  BY DEF InGameMenuLoop
<1>3. s.cs = cs /\ s.cpu = cpu /\ s.h = h
  OBVIOUS
<1> HIDE DEF s
<1>4. CASE image' = {Image(s)} /\ UNCHANGED <<cs, cpu, h>>
  <2>1. GoodImages(image')
    BY <1>1, <1>4, ImageGood
  <2>2. Becomes(s)
    BY <1>3, <1>4 DEF Becomes
  <2> QED
    BY <1>1, <2>1, <2>2, Parts
<1>5. CASE image' = image /\ \E t \in Reads(s, image) : Becomes(t)
  <2>1. PICK t \in Reads(s, image) : Becomes(t)
    BY <1>5
  <2>2. GoodState(t)
    <3>1. CASE t = s
      BY <1>1, <3>1
    <3>2. CASE t # s
      <4>1. PICK i \in image : t = Loaded(s, i) \/ t = ReadFailed(s, i)
        BY <3>2 DEF Reads
      <4>2. i \in Images /\ Fits(i.cs, i.edge) /\ Past(i.cs, i.cpu)
        BY <1>1 DEF GoodImages
      <4> QED
        BY <1>1, <4>1, <4>2, LoadedGood, ReadFailedAsks
    <3> QED
      BY <3>1, <3>2
  <2> QED
    BY <1>1, <1>5, <2>1, <2>2, Parts
<1> QED
  BY <1>2, <1>4, <1>5

\* The machine starts in a good state.
LEMMA InitGood == Init => IInv
<1> SUFFICES ASSUME Init PROVE IInv
  OBVIOUS
<1>1. /\ cs \in Status /\ cs.irq = {} /\ cs.nmi = {} /\ cs.nirq = 0 /\ cs.nnmi = 0 /\ cs.global = {}
      /\ cs.irq_clk = 0 /\ cs.nmi_clk = 0
  BY ClockFacts DEF Init, NoInterrupts, Status
<1>2. cpu \in Cpu /\ cpu.clk = 6 /\ h \in History /\ h.edge = FALSE
  BY ClockFacts DEF Init, Cpu, OpInfo, History
<1>3. image = {} /\ phase = "alarms"
  BY DEF Init
<1>4. Counted(cs)
  BY <1>1, FS_EmptySet DEF Counted
<1>5. Fits(cs, h.edge) /\ Past(cs, cpu)
  BY <1>1, <1>2, <1>4 DEF Fits, Consistent, Past
<1> QED
  BY <1>1, <1>2, <1>3, <1>5 DEF IInv, TypeOK

\* Every step keeps the invariant.
LEMMA NextKeeps ==
  ASSUME IInv, [Next]_vars
  PROVE  IInv'
<1>1. CASE UNCHANGED vars
  BY <1>1 DEF vars, IInv, TypeOK
<1>2. CASE DO_INTERRUPT
  BY <1>2, BoundaryKeeps
<1>3. CASE Instruction \/ End
  BY <1>3, InstructionKeeps
<1>4. CASE JAM \/ interrupt_trigger_reset \/ \E f \in Traps : trigger_trap(f)
  BY <1>4, UserKeeps
<1>5. CASE clk_guard_prevent_overflow
  BY <1>5, GuardKeeps
<1>6. CASE \E value \in BOOLEAN :
             \/ \E l \in IrqLines : set_irq(l, value)
             \/ \E l \in NmiLines : set_nmi(l, value)
  BY <1>6, LinesKeep
<1>7. CASE \E value \in BOOLEAN : interrupt_monitor_trap(value)
  BY <1>7, UserKeeps
<1>8. CASE \E l \in NmiLines : c64keyboard_restore_key(l)
  BY <1>8, LinesKeep
<1>9. CASE InGameMenuLoop
  BY <1>9, MenuKeeps
<1> QED
  BY <1>1, <1>2, <1>3, <1>4, <1>5, <1>6, <1>7, <1>8, <1>9 DEF Next

\* For any devices, and whatever the user does, the invariant holds at all times.
THEOREM InterruptInvariant == Spec => []IInv
<1> QED
  BY InitGood, NextKeeps, PTL DEF Spec

\* The types, for any lines, traps and events.
THEOREM InterruptTypes == Spec => []TypeOK
<1>1. IInv => TypeOK
  BY DEF IInv
<1> QED
  BY <1>1, InterruptInvariant, PTL

\* irq_clk and nmi_clk stay in the CPU's past whatever moves its clock: the guard, a reset,
\* a snapshot taken long ago.
THEOREM DelaysFromPast == Spec => []IntClksPast
<1>1. IInv => IntClksPast
  BY DEF IInv, Past, IntClksPast
<1> QED
  BY <1>1, InterruptInvariant, PTL

\* nirq and nnmi are the numbers of lines pulled, through resets and snapshots, if every
\* device saves its line and snapshots are taken in traps.
THEOREM LinesStayCounted ==
  ASSUME SavedLines = Lines, "menu" \notin Events
  PROVE  Spec => []LinesCounted
<1>1. IInv => LinesCounted
  BY DEF IInv, Fits, Consistent, LinesCounted
<1> QED
  BY <1>1, InterruptInvariant, PTL

\* Every NMI edge is remembered until it is answered, and nothing else is, under the same
\* hypotheses.
THEOREM NmiStaysEdge ==
  ASSUME SavedLines = Lines, "menu" \notin Events
  PROVE  Spec => []NmiIsEdge
<1>1. IInv => NmiIsEdge
  BY DEF IInv, Fits, Consistent, NmiIsEdge
<1> QED
  BY <1>1, InterruptInvariant, PTL

\* With snapshots from the in-game menu too, what a load leaves behind fits or waits for the
\* reset that a failed read asked for, if every device saves its line.
THEOREM LoadedStaysFit ==
  ASSUME SavedLines = Lines
  PROVE  Spec => []LoadedStateFits
<1>1. IInv => LoadedStateFits
  BY DEF IInv, Fits, Consistent, LoadedStateFits, NmiIsEdge
<1> QED
  BY <1>1, InterruptInvariant, PTL

-----------------------------------------------------------------------------
(***************************************************************************)
(* What the user asked for stays asked for, the CPU enters its handlers    *)
(* only with a reason, and a snapshot that a trap takes holds the          *)
(* registers the program goes on with: for any lines, traps and cycles.    *)
(***************************************************************************)

\* What entering a handler, or not, does to the requests, the history and the registers.
Served(c, p, hh, s) ==
  /\ s.cs.global \ {"NMI", "IRQPEND"} = c.global \ {"NMI", "IRQPEND"}
  /\ s.cs.trap_func = c.trap_func
  /\ s.h.wanted = hh.wanted /\ s.h.monitor = hh.monitor
  /\ s.h.took = "NMI" => "NMI" \in c.global
  /\ s.h.took = "IRQ" => IrqAsked(c.global, c, p) /\ p.info # "enables"
  /\ \/ s.cpu = p
     \/ s.cpu.I = TRUE /\ s.cpu.clk = p.clk + HandlerCycles

\* Serve does that.
LEMMA ServeParts ==
  ASSUME NEW c \in Status, NEW p \in Cpu, NEW hh \in History
  PROVE  Served(c, p, hh, Serve(c, p, hh))
<1> DEFINE s == Serve(c, p, hh)
<1> SUFFICES Served(c, p, hh, s)
  OBVIOUS
<1> HIDE DEF s
<1> DEFINE entered == [p EXCEPT !.I = TRUE, !.info = "plain", !.clk = @ + HandlerCycles]
<1>1. entered.I = TRUE /\ entered.clk = p.clk + HandlerCycles
  BY DEF Cpu
<1> HIDE DEF entered
<1>2. CASE NmiDue(c.global, c, p)
  <2> DEFINE g == c.global \ {"NMI"}
             d == [c EXCEPT !.global = g]
             k == [[hh EXCEPT !.took = "NMI", !.masked = TRUE] EXCEPT !.edge = FALSE]
  <2>1. s = [cs |-> d, cpu |-> entered, h |-> k]
    BY <1>2 DEF Serve, entered, s
  <2>2. g \ {"NMI", "IRQPEND"} = c.global \ {"NMI", "IRQPEND"} /\ "NMI" \in c.global
    BY <1>2 DEF NmiDue
  <2> HIDE DEF g
  <2>3. d.global = g /\ d.trap_func = c.trap_func
    BY DEF Status
  <2>4. k.wanted = hh.wanted /\ k.monitor = hh.monitor /\ k.took = "NMI"
    BY DEF History
  <2> HIDE DEF d, k
  <2> QED
    BY <1>1, <2>1, <2>2, <2>3, <2>4 DEF Served
<1>3. CASE ~NmiDue(c.global, c, p) /\ IrqAsked(c.global, c, p) /\ p.info = "enables"
  <2> DEFINE g == c.global \cup {"IRQPEND"}
             d == [c EXCEPT !.global = g]
             k == [hh EXCEPT !.took = "none"]
  <2>1. s = [cs |-> d, cpu |-> p, h |-> k]
    BY <1>3 DEF Serve, s
  <2>2. g \ {"NMI", "IRQPEND"} = c.global \ {"NMI", "IRQPEND"}
    OBVIOUS
  <2> HIDE DEF g
  <2>3. d.global = g /\ d.trap_func = c.trap_func
    BY DEF Status
  <2>4. k.wanted = hh.wanted /\ k.monitor = hh.monitor /\ k.took = "none"
    BY DEF History
  <2> HIDE DEF d, k
  <2> QED
    BY <2>1, <2>2, <2>3, <2>4 DEF Served
<1>4. CASE ~NmiDue(c.global, c, p) /\ IrqAsked(c.global, c, p) /\ p.info # "enables"
  <2> DEFINE g == c.global \ {"IRQPEND"}
             d == [c EXCEPT !.global = g]
             k == [hh EXCEPT !.took = "IRQ", !.masked = TRUE]
  <2>1. s = [cs |-> d, cpu |-> entered, h |-> k]
    BY <1>4 DEF Serve, entered, s
  <2>2. g \ {"NMI", "IRQPEND"} = c.global \ {"NMI", "IRQPEND"}
    OBVIOUS
  <2> HIDE DEF g
  <2>3. d.global = g /\ d.trap_func = c.trap_func
    BY DEF Status
  <2>4. k.wanted = hh.wanted /\ k.monitor = hh.monitor /\ k.took = "IRQ"
    BY DEF History
  <2> HIDE DEF d, k
  <2> QED
    BY <1>1, <1>4, <2>1, <2>2, <2>3, <2>4 DEF Served
<1>5. CASE ~NmiDue(c.global, c, p) /\ ~IrqAsked(c.global, c, p)
  <2> DEFINE k == [hh EXCEPT !.took = "none"]
  <2>1. s = [cs |-> c, cpu |-> p, h |-> k]
    BY <1>5 DEF Serve, s
  <2>2. k.wanted = hh.wanted /\ k.monitor = hh.monitor /\ k.took = "none"
    BY DEF History
  <2> HIDE DEF k
  <2> QED
    BY <2>1, <2>2 DEF Served
<1> QED
  BY <1>2, <1>3, <1>4, <1>5

\* What a reset does to them.
LEMMA ResetParts ==
  ASSUME NEW s \in States, NEW r, r = Reset(s)
  PROVE  /\ r \in States /\ r.cs.global = s.cs.global \cap {"MONITOR"}
         /\ r.h.wanted = s.h.wanted /\ r.h.monitor = s.h.monitor /\ r.h.took = "RESET"
         /\ r.cpu.I = s.cpu.I
<1>1. r \in States
  BY ResetGood DEF GoodState
<1> DEFINE g == s.cs.global \cap {"MONITOR"}
           d == [NoInterrupts EXCEPT !.global = g]
           p == [s.cpu EXCEPT !.clk = 6]
           k == [s.h EXCEPT !.edge = FALSE, !.seen = FALSE, !.took = "RESET"]
<1>2. r = [cs |-> d, cpu |-> p, h |-> k]
  BY DEF Reset, cpu_reset, States
<1> HIDE DEF g
<1>3. d.global = g
  BY DEF NoInterrupts
<1>4. p.I = s.cpu.I
  BY DEF States, Cpu
<1>5. k.wanted = s.h.wanted /\ k.monitor = s.h.monitor /\ k.took = "RESET"
  BY DEF States, History
<1> HIDE DEF d, p, k
<1> QED
  BY <1>1, <1>2, <1>3, <1>4, <1>5 DEF g

\* What the end of the boundary does to them.
LEMMA SettleParts ==
  ASSUME NEW ik, NEW s \in States, NEW t, t = Settle(ik, s)
  PROVE  /\ t.cs.global \ {"IRQPEND"} = s.cs.global \ {"IRQPEND"}
         /\ "IRQPEND" \in t.cs.global => "IRQ" \in t.cs.global
         /\ t.cs.irq = s.cs.irq /\ t.cs.trap_func = s.cs.trap_func
         /\ t.cs.irq # {} => t.h.seen
         /\ t.h.wanted = s.h.wanted /\ t.h.monitor = s.h.monitor /\ t.h.took = s.h.took
         /\ t.cpu.I = s.cpu.I
<1> DEFINE g == IF "IRQ" \in s.cs.global THEN s.cs.global ELSE s.cs.global \ {"IRQPEND"}
           d == [s.cs EXCEPT !.global = g]
           x == s.cs.irq # {}
           k == [s.h EXCEPT !.seen = x]
           p == IF "MONITOR" \in ik /\ s.h.monitor THEN EXPORT_REGISTERS(s.cpu) ELSE s.cpu
<1>1. s.cs \in Status /\ s.h \in History /\ s.cpu \in Cpu
  BY DEF States
<1>2. t = [cs |-> d, cpu |-> p, h |-> k]
  BY <1>1 DEF Settle, States
<1>3. p.I = s.cpu.I
  BY <1>1 DEF EXPORT_REGISTERS, Cpu
<1> HIDE DEF p
<1>4. /\ g \ {"IRQPEND"} = s.cs.global \ {"IRQPEND"}
      /\ "IRQPEND" \in g => "IRQ" \in g
  BY <1>1 DEF Status
<1> HIDE DEF g
<1>5. d.global = g /\ d.irq = s.cs.irq /\ d.trap_func = s.cs.trap_func
  BY <1>1 DEF Status
<1>6. s.cs.irq # {} => x
  OBVIOUS
<1> HIDE DEF x
<1>7. k.seen = x /\ k.wanted = s.h.wanted /\ k.monitor = s.h.monitor /\ k.took = s.h.took
  BY <1>1 DEF History
<1> HIDE DEF d, k
<1> QED
  BY <1>2, <1>3, <1>4, <1>5, <1>6, <1>7

\* What calling the trap's function does: the function is called once and no longer wanted,
\* the monitor's request outlives all but a loaded snapshot, and a snapshot it writes holds
\* the registers.
LEMMA TrapParts ==
  ASSUME NEW s, GoodState(s), NEW im, GoodImages(im), NEW out \in CallTrap(s, im)
  PROVE  /\ out.s.h.wanted = s.h.wanted \ {s.cs.trap_func}
         /\ out.s.h.monitor = s.h.monitor /\ out.s.h.took = s.h.took
         /\ s.cs.trap_func # "load" /\ "MONITOR" \in s.cs.global => "MONITOR" \in out.s.cs.global
         /\ \/ out.image = im
            \/ \E i : /\ out.image = {i} /\ i.cpu.I = s.cpu.I /\ i.cpu.clk = s.cpu.clk
                      /\ out.s.cpu.I = s.cpu.I
<1>1. s \in States /\ s.cs \in Status /\ s.h \in History /\ s.cpu \in Cpu
  BY DEF GoodState, States
<1> DEFINE c == Called(s)
<1>2. /\ GoodState(c) /\ c \in States /\ c.cs \in Status /\ c.cpu \in Cpu /\ c.h \in History
      /\ TriggerReset(c) \in States
  BY CalledGood DEF GoodState, States
<1>3. /\ c.h.wanted = s.h.wanted \ {s.cs.trap_func} /\ c.h.monitor = s.h.monitor
      /\ c.h.took = s.h.took
      /\ c.cs.global = s.cs.global \ {"TRAP"} /\ c.cpu = [s.cpu EXCEPT !.exported = s.cpu.I]
  <2> DEFINE g == s.cs.global \ {"TRAP"}
             w == s.h.wanted \ {s.cs.trap_func}
             d == [s.cs EXCEPT !.global = g]
             k == [s.h EXCEPT !.wanted = w]
  <2>1. c = [cs |-> d, cpu |-> EXPORT_REGISTERS(s.cpu), h |-> k]
    BY DEF Called
  <2> HIDE DEF g, w
  <2>2. d.global = g
    BY <1>1 DEF Status
  <2>3. k.wanted = w /\ k.monitor = s.h.monitor /\ k.took = s.h.took
    BY <1>1 DEF History
  <2> HIDE DEF d, k
  <2> QED
    BY <2>1, <2>2, <2>3 DEF g, w, EXPORT_REGISTERS
<1>4. c.cpu.I = s.cpu.I /\ c.cpu.exported = s.cpu.I /\ c.cpu.clk = s.cpu.clk
  BY <1>1, <1>3 DEF Cpu
<1> HIDE DEF c
<1>5. CASE s.cs.trap_func = "save"
  <2>1. out = [s |-> Back(c), image |-> {Image(c)}]
    BY <1>5 DEF CallTrap, c
  <2>2. Back(c) \in States /\ Back(c).cs = c.cs /\ Back(c).h = c.h /\ Back(c).cpu.I = c.cpu.exported
    BY <1>2, BackGood DEF Back, IMPORT_REGISTERS, Cpu
  <2> DEFINE i == Image(c)
  <2>3. i.cpu.I = c.cpu.exported /\ i.cpu.clk = c.cpu.clk
    BY <1>2 DEF Image, Cpu
  <2> HIDE DEF i
  <2>4. out.s = Back(c) /\ out.image = {i}
    BY <2>1 DEF i
  <2> QED
    BY <1>3, <1>4, <2>2, <2>3, <2>4
<1>6. CASE s.cs.trap_func = "load"
  <2>1. PICK t \in Reads(c, im) : out = [s |-> Back(t), image |-> im]
    BY <1>6 DEF CallTrap, c
  <2>2. t \in States /\ t.h.wanted = c.h.wanted /\ t.h.monitor = c.h.monitor /\ t.h.took = c.h.took
    <3>1. CASE t = c
      BY <1>2, <3>1
    <3>2. CASE t # c
      <4>1. PICK i \in im : t = Loaded(c, i) \/ t = ReadFailed(c, i)
        BY <3>2 DEF Reads
      <4>2. i \in Images /\ Fits(i.cs, i.edge) /\ Past(i.cs, i.cpu)
        BY DEF GoodImages
      <4>3. t \in States
        BY <1>2, <4>1, <4>2, LoadedGood, ReadFailedAsks DEF GoodState
      <4>4. t.h = Loaded(c, i).h
        BY <4>1 DEF ReadFailed
      <4> QED
        BY <1>2, <4>2, <4>3, <4>4, LoadedParts
    <3> QED
      BY <3>1, <3>2
  <2>3. out.s.h = t.h /\ out.image = im
    BY <2>1, <2>2, BackGood
  <2> QED
    BY <1>3, <1>6, <2>2, <2>3
<1>7. CASE s.cs.trap_func # "save" /\ s.cs.trap_func # "load"
  <2>1. PICK t \in {c, TriggerReset(c)} : out = [s |-> Back(t), image |-> im]
    BY <1>7 DEF CallTrap, c
  <2>2. t \in States /\ t.h = c.h /\ c.cs.global \subseteq t.cs.global
    <3>1. CASE t = c
      BY <1>2, <3>1
    <3>2. CASE t = TriggerReset(c)
      <4> DEFINE g == c.cs.global \cup {"RESET"}
      <4>1. t = [cs |-> [c.cs EXCEPT !.global = g], cpu |-> c.cpu, h |-> c.h]
        BY <3>2 DEF TriggerReset
      <4> HIDE DEF g
      <4>2. t.h = c.h /\ t.cs.global = g
        BY <1>2, <4>1 DEF Status
      <4> QED
        BY <1>2, <3>2, <4>2 DEF g
    <3> QED
      BY <2>1, <3>1, <3>2
  <2>3. out.s.h = t.h /\ out.s.cs = t.cs /\ out.image = im
    BY <2>1, <2>2, BackGood
  <2> QED
    BY <1>3, <2>2, <2>3
<1> QED
  BY <1>5, <1>6, <1>7

\* The boundary as a whole: out is what the trap left, or what was served if there was none,
\* s what a reset then made of it.
LEMMA BoundaryParts ==
  ASSUME IInv, DO_INTERRUPT
  PROVE  LET served == Serve(cs, cpu, h)
         IN  \E o \in States, s \in States :
               /\ s = Reset(o) \/ s = o
               /\ Becomes(Settle(cs.global, s))
               /\ \/ "TRAP" \notin cs.global /\ o = served /\ image' = image
                  \/ /\ "TRAP" \in cs.global
                     /\ GoodState(served) /\ GoodImages(image)
                     /\ [s |-> o, image |-> image'] \in CallTrap(served, image)
<1> DEFINE served == Serve(cs, cpu, h)
<1>1. /\ cs \in Status /\ cpu \in Cpu /\ h \in History /\ Fits(cs, h.edge) /\ Past(cs, cpu)
      /\ GoodImages(image) /\ cpu.clk + HandlerCycles <= CLOCK_MAX
  BY Parts DEF DO_INTERRUPT, Room
<1>2. GoodState(served) /\ served \in States
  BY <1>1, ServeGood DEF GoodState
<1> HIDE DEF served
<1>3. CASE "TRAP" \in cs.global
  <2>1. PICK out \in CallTrap(served, image) :
          /\ image' = out.image
          /\ Becomes(Settle(cs.global, IF "RESET" \in cs.global \cup out.s.cs.global
                                        THEN Reset(out.s) ELSE out.s))
    BY <1>3 DEF DO_INTERRUPT, served
  <2>2. out.s \in States
    BY <1>1, <1>2, TrapGood
  <2>3. out = [s |-> out.s, image |-> out.image]
    BY DEF CallTrap
  <2>4. Reset(out.s) \in States
    BY <2>2, ResetGood DEF GoodState
  <2>5. [s |-> out.s, image |-> image'] \in CallTrap(served, image)
    BY <2>1, <2>3
  <2> DEFINE s == IF "RESET" \in cs.global \cup out.s.cs.global THEN Reset(out.s) ELSE out.s
  <2>6. s \in States /\ (s = Reset(out.s) \/ s = out.s) /\ Becomes(Settle(cs.global, s))
    BY <2>1, <2>2, <2>4
  <2> HIDE DEF s
  <2> QED
    BY <1>1, <1>2, <1>3, <2>2, <2>5, <2>6 DEF served
<1>4. CASE "TRAP" \notin cs.global
  <2> DEFINE s == IF "RESET" \in cs.global THEN Reset(served) ELSE served
  <2>1. image' = image /\ Becomes(Settle(cs.global, s))
    BY <1>4 DEF DO_INTERRUPT, served
  <2>2. s \in States /\ (s = Reset(served) \/ s = served)
    BY <1>2, ResetGood DEF GoodState
  <2> HIDE DEF s
  <2> QED
    BY <1>2, <1>4, <2>1, <2>2 DEF served
<1> QED
  BY <1>3, <1>4

-----------------------------------------------------------------------------
(* Snapshots *)

\* Only the boundary and the in-game menu write snapshots.
LEMMA WhoWrites ==
  ASSUME [Next]_vars, image' # image
  PROVE  (DO_INTERRUPT /\ phase' # phase) \/ (InGameMenuLoop /\ phase' = phase)
BY Zenon DEF Next, vars, DO_INTERRUPT, Instruction, End, JAM, clk_guard_prevent_overflow, set_irq, set_nmi,
     interrupt_monitor_trap, c64keyboard_restore_key, interrupt_trigger_reset, trigger_trap,
     InGameMenuLoop, CLI, SEI, BRK, BRANCH, Other, Access, PLP, RTI, Executes, Complete

\* A snapshot written at the boundary is whole.
LEMMA BoundaryWhole ==
  ASSUME IInv, DO_INTERRUPT, image' # image
  PROVE  \A i \in image' : Whole(cpu, cpu', i)
<1> DEFINE served == Serve(cs, cpu, h)
<1>2. /\ cs \in Status /\ cpu \in Cpu /\ h \in History
  BY Parts
<1>0. \E o \in States, s \in States :
        /\ s = Reset(o) \/ s = o
        /\ Becomes(Settle(cs.global, s))
        /\ \/ "TRAP" \notin cs.global /\ o = served /\ image' = image
           \/ /\ "TRAP" \in cs.global
              /\ GoodState(served) /\ GoodImages(image)
              /\ [s |-> o, image |-> image'] \in CallTrap(served, image)
  BY BoundaryParts
<1>9. Served(cs, cpu, h, served)
  BY <1>2, ServeParts
<1> HIDE DEF served
<1>3. \/ served.cpu = cpu
      \/ served.cpu.I = TRUE /\ served.cpu.clk = cpu.clk + HandlerCycles
  BY <1>9 DEF Served
<1>1. PICK o \in States, s \in States :
        /\ s = Reset(o) \/ s = o
        /\ Becomes(Settle(cs.global, s))
        /\ GoodState(served) /\ GoodImages(image)
        /\ [s |-> o, image |-> image'] \in CallTrap(served, image)
  BY <1>0, Zenon
<1> DEFINE out == [s |-> o, image |-> image']
<1>4. PICK i : /\ image' = {i} /\ i.cpu.I = served.cpu.I /\ i.cpu.clk = served.cpu.clk
               /\ o.cpu.I = served.cpu.I
  <2>1. out \in CallTrap(served, image) /\ out.s = o /\ out.image = image'
    BY <1>1
  <2> HIDE DEF out
  <2> QED
    BY <1>1, <2>1, TrapParts
<1>5. s.cpu.I = o.cpu.I
  BY <1>1, ResetParts
<1>6. cpu'.I = s.cpu.I
  BY <1>1, SettleParts DEF Becomes
<1>7. i.cpu.I = (cpu.I \/ i.cpu.clk # cpu.clk)
  <2>1. cpu.I \in BOOLEAN /\ cpu.clk \in Nat
    BY <1>2, ClockFacts DEF Cpu
  <2>2. CASE served.cpu = cpu
    BY <1>4, <2>1, <2>2
  <2>3. CASE served.cpu.I = TRUE /\ served.cpu.clk = cpu.clk + HandlerCycles
    <3>1. cpu.clk + HandlerCycles # cpu.clk
      BY <2>1, InterruptAssumption
    <3> QED
      BY <1>4, <2>1, <2>3, <3>1
  <2> QED
    BY <1>3, <2>2, <2>3
<1> QED
  BY <1>4, <1>5, <1>6, <1>7 DEF Whole

\* A snapshot that a trap takes holds the registers the program has at that boundary and
\* goes on with, whatever the in-game menu saved or loaded before.
THEOREM TrapSnapshotsWhole == Spec => TrapSnapshotIsWhole
<1>1. IInv /\ [Next]_vars =>
        [image' # image /\ phase' # phase => \A i \in image' : Whole(cpu, cpu', i)]_vars
  BY WhoWrites, BoundaryWhole
<1> QED
  BY <1>1, InterruptInvariant, PTL DEF Spec, TrapSnapshotIsWhole

\* Without the in-game menu every snapshot is whole.
THEOREM SnapshotsWhole ==
  ASSUME "menu" \notin Events
  PROVE  Spec => SnapshotIsWhole
<1>1. IInv /\ [Next]_vars => [image' # image => \A i \in image' : Whole(cpu, cpu', i)]_vars
  <2>1. ~InGameMenuLoop
    BY DEF InGameMenuLoop
  <2> QED
    BY <2>1, WhoWrites, BoundaryWhole
<1> QED
  BY <1>1, InterruptInvariant, PTL DEF Spec, SnapshotIsWhole

-----------------------------------------------------------------------------
(* Requests *)

\* What the invariant says of the user's requests: no breakpoint if the user sets none.
Requests ==
  /\ MonitorStays /\ TrapNotForgotten
  /\ h.monitor => "monitor" \in Events

\* The boundary keeps the monitor's request and drops no trap but the one it calls.
LEMMA BoundaryRequests ==
  ASSUME "monitor" \notin Events \/ "load" \notin Traps, IInv, Requests, DO_INTERRUPT
  PROVE  Requests'
<1> DEFINE served == Serve(cs, cpu, h)
<1>1. /\ cs \in Status /\ cpu \in Cpu /\ h \in History
  BY Parts
<1>0. \E o \in States, s \in States :
        /\ s = Reset(o) \/ s = o
        /\ Becomes(Settle(cs.global, s))
        /\ \/ "TRAP" \notin cs.global /\ o = served /\ image' = image
           \/ /\ "TRAP" \in cs.global
              /\ GoodState(served) /\ GoodImages(image)
              /\ [s |-> o, image |-> image'] \in CallTrap(served, image)
  BY BoundaryParts
<1>9. Served(cs, cpu, h, served)
  BY <1>1, ServeParts
<1> HIDE DEF served
<1>2. /\ served.cs.global \ {"NMI", "IRQPEND"} = cs.global \ {"NMI", "IRQPEND"}
      /\ served.cs.trap_func = cs.trap_func
      /\ served.h.wanted = h.wanted /\ served.h.monitor = h.monitor
  BY <1>9 DEF Served
<1>3. PICK o \in States, s \in States :
        /\ s = Reset(o) \/ s = o
        /\ Becomes(Settle(cs.global, s))
        /\ \/ "TRAP" \notin cs.global /\ o = served /\ image' = image
           \/ /\ "TRAP" \in cs.global
              /\ GoodState(served) /\ GoodImages(image)
              /\ [s |-> o, image |-> image'] \in CallTrap(served, image)
  BY <1>0, Zenon
<1>4. h.wanted \subseteq {cs.trap_func} /\ ("TRAP" \notin cs.global => h.wanted = {})
  BY DEF Requests, TrapNotForgotten
<1>5. o.h.wanted = {} /\ o.h.monitor = h.monitor /\ (h.monitor => "MONITOR" \in o.cs.global)
  <2>1. h.monitor => "MONITOR" \in served.cs.global
    BY <1>2 DEF Requests, MonitorStays
  <2>2. CASE "TRAP" \notin cs.global
    BY <1>2, <1>3, <1>4, <2>1, <2>2
  <2>3. CASE "TRAP" \in cs.global
    <3> DEFINE out == [s |-> o, image |-> image']
    <3>1. out \in CallTrap(served, image) /\ out.s = o
      BY <1>3, <2>3
    <3> HIDE DEF out
    <3>2. /\ o.h.wanted = served.h.wanted \ {served.cs.trap_func}
          /\ o.h.monitor = served.h.monitor
          /\ served.cs.trap_func # "load" /\ "MONITOR" \in served.cs.global => "MONITOR" \in o.cs.global
      BY <1>3, <2>3, <3>1, TrapParts
    <3>3. h.monitor => cs.trap_func # "load"
      <4>1. cs.trap_func \in Traps \cup {"NULL"}
        BY <1>1 DEF Status, NULL
      <4> QED
        BY <4>1 DEF Requests
    <3> QED
      BY <1>2, <1>4, <2>1, <3>2, <3>3
  <2> QED
    BY <2>2, <2>3
<1>6. s.h.wanted = {} /\ s.h.monitor = h.monitor /\ (h.monitor => "MONITOR" \in s.cs.global)
  BY <1>3, <1>5, ResetParts
<1>7. h'.wanted = {} /\ h'.monitor = h.monitor /\ (h.monitor => "MONITOR" \in cs'.global)
  BY <1>3, <1>6, SettleParts DEF Becomes
<1> QED
  BY <1>7 DEF Requests, MonitorStays, TrapNotForgotten

\* Instructions write only two fields of the history.
LEMMA InstructionHistory ==
  ASSUME Instruction \/ End
  PROVE  cs' = cs /\ (h' = h \/ \E x : h' = [h EXCEPT !.masked = x, !.took = "none"])
<1>1. ASSUME NEW I, NEW info, NEW m, NEW n, Executes(I, info, m, n)
      PROVE  cs' = cs /\ \E x : h' = [h EXCEPT !.masked = x, !.took = "none"]
  BY <1>1, Zenon DEF Executes
<1>2. ASSUME NEW n, BRK(n) \/ Access(n)
      PROVE  cs' = cs /\ \E x : h' = [h EXCEPT !.masked = x, !.took = "none"]
  BY <1>2, Zenon DEF BRK, Access
<1>3. ASSUME NEW n, Complete(n)
      PROVE  cs' = cs /\ h' = h
  BY <1>3 DEF Complete
<1>4. CASE Instruction
  <2>1. PICK n \in 1 .. MaxCycles :
          \/ CLI(n) \/ SEI(n) \/ BRK(n) \/ BRANCH(n) \/ Other(n) \/ Access(n)
          \/ \E s \in BOOLEAN : PLP(s, n) \/ RTI(s, n)
    BY <1>4 DEF Instruction
  <2>2. CASE CLI(n) \/ SEI(n) \/ BRANCH(n) \/ Other(n)
    BY <1>1, <2>2, Zenon DEF CLI, SEI, BRANCH, Other
  <2>3. CASE BRK(n) \/ Access(n)
    BY <1>2, <2>3, Zenon
  <2>4. ASSUME NEW s, PLP(s, n) \/ RTI(s, n)
        PROVE  cs' = cs /\ \E x : h' = [h EXCEPT !.masked = x, !.took = "none"]
    BY <1>1, <2>4, Zenon DEF PLP, RTI
  <2> QED
    BY <2>1, <2>2, <2>3, <2>4, Zenon
<1> QED
  BY <1>3, <1>4, Zenon DEF End

\* The other steps: what they do to the requests.
LEMMA OthersRequests ==
  ASSUME {"menu", "trap", "jam"} \cap Events = {}, IInv, Requests, [Next]_vars, ~DO_INTERRUPT
  PROVE  Requests'
<1>1. /\ cs \in Status /\ cpu \in Cpu /\ h \in History
  BY Parts
<1>2. ASSUME cs'.global \cap {"TRAP", "MONITOR"} = cs.global \cap {"TRAP", "MONITOR"},
             cs'.trap_func = cs.trap_func, h'.wanted = h.wanted, h'.monitor = h.monitor
      PROVE  Requests'
  BY <1>2 DEF Requests, MonitorStays, TrapNotForgotten
<1>3. CASE UNCHANGED vars
  BY <1>3, <1>2 DEF vars
<1>4. CASE Instruction \/ End
  <2>1. cs' = cs /\ (h' = h \/ \E x : h' = [h EXCEPT !.masked = x, !.took = "none"])
    BY <1>4, InstructionHistory
  <2>2. h'.wanted = h.wanted /\ h'.monitor = h.monitor
    BY <1>1, <2>1 DEF History
  <2> QED
    BY <1>2, <2>1, <2>2
<1>5. CASE clk_guard_prevent_overflow
  <2>1. h' = h /\ cs' = interrupt_cpu_status_time_warp(cs, clk_guard_clock_sub)
    BY <1>5 DEF clk_guard_prevent_overflow
  <2>2. cs'.global = cs.global /\ cs'.trap_func = cs.trap_func
    BY <1>1, <2>1 DEF interrupt_cpu_status_time_warp, Status
  <2> QED
    BY <1>2, <2>1, <2>2
<1>6. ASSUME NEW value \in BOOLEAN, NEW l \in IrqLines, set_irq(l, value)
      PROVE  Requests'
  <2>1. PICK clk \in Moments : cs' = interrupt_set_irq(cs, l, value, clk)
    BY <1>6 DEF set_irq
  <2>2. clk \in Clock
    BY <1>1, MomentsType
  <2>3. h'.wanted = h.wanted /\ h'.monitor = h.monitor
    BY <1>1, <1>6 DEF set_irq, History
  <2>4. cs'.global \ {"IRQ", "IRQPEND"} = cs.global \ {"IRQ", "IRQPEND"} /\ cs'.trap_func = cs.trap_func
    BY <1>1, <2>1, <2>2, SetIrq
  <2> QED
    BY <1>2, <2>3, <2>4
<1>7. ASSUME NEW value \in BOOLEAN, NEW l \in NmiLines, set_nmi(l, value)
      PROVE  Requests'
  <2>1. PICK clk \in Moments : cs' = interrupt_set_nmi(cs, l, value, clk)
    BY <1>7 DEF set_nmi
  <2>2. clk \in Clock
    BY <1>1, MomentsType
  <2>3. h'.wanted = h.wanted /\ h'.monitor = h.monitor
    BY <1>1, <1>7 DEF set_nmi, History
  <2>4. cs'.global \ {"NMI"} = cs.global \ {"NMI"} /\ cs'.trap_func = cs.trap_func
    BY <1>1, <2>1, <2>2, SetNmi
  <2> QED
    BY <1>2, <2>3, <2>4
<1>8. ASSUME NEW l \in NmiLines, c64keyboard_restore_key(l)
      PROVE  Requests'
  <2> DEFINE c == Raised(cs, l, cpu.clk)
  <2>1. cs' = Lowered(c, l, cpu.clk)
    BY <1>8 DEF c64keyboard_restore_key, Lowered, Raised
  <2>2. cpu.clk \in Clock
    BY <1>1 DEF Cpu
  <2>3. h'.wanted = h.wanted /\ h'.monitor = h.monitor
    BY <1>1, <1>8 DEF c64keyboard_restore_key, History
  <2> HIDE DEF c
  <2>4. c \in Status /\ c.global \ {"NMI"} = cs.global \ {"NMI"} /\ c.trap_func = cs.trap_func
    BY <1>1, <2>2, Rise DEF c
  <2>5. cs'.global \ {"NMI"} = c.global \ {"NMI"} /\ cs'.trap_func = c.trap_func
    BY <2>1, <2>2, <2>4, Fall
  <2> QED
    BY <1>2, <2>3, <2>4, <2>5
<1>9. CASE interrupt_trigger_reset
  <2>1. cs' = [cs EXCEPT !.global = cs.global \cup {"RESET"}] /\ h' = h
    BY <1>9 DEF interrupt_trigger_reset
  <2>2. cs'.global = cs.global \cup {"RESET"} /\ cs'.trap_func = cs.trap_func
    BY <1>1, <2>1 DEF Status
  <2> QED
    BY <1>2, <2>1, <2>2
<1>10. ASSUME NEW f \in Traps, trigger_trap(f)
       PROVE  Requests'
  <2>1. /\ cs' = [cs EXCEPT !.global = cs.global \cup {"TRAP"}, !.trap_func = f]
        /\ h' = [h EXCEPT !.wanted = h.wanted \cup {f}] /\ h.wanted = {}
    BY <1>10 DEF trigger_trap, interrupt_maincpu_trigger_trap
  <2>2. cs'.global = cs.global \cup {"TRAP"} /\ cs'.trap_func = f
    BY <1>1, <2>1 DEF Status
  <2>3. h'.wanted = {f} /\ h'.monitor = h.monitor
    BY <1>1, <2>1 DEF History
  <2> QED
    BY <2>2, <2>3 DEF Requests, MonitorStays, TrapNotForgotten
<1>11. ASSUME NEW on \in BOOLEAN, interrupt_monitor_trap(on)
       PROVE  Requests'
  <2> DEFINE g == IF on THEN cs.global \cup {"MONITOR"} ELSE cs.global \ {"MONITOR"}
  <2>1. cs' = [cs EXCEPT !.global = g] /\ h' = [h EXCEPT !.monitor = on] /\ "monitor" \in Events
    BY <1>11 DEF interrupt_monitor_trap
  <2>2. (on => "MONITOR" \in g) /\ ("TRAP" \in g <=> "TRAP" \in cs.global)
    OBVIOUS
  <2> HIDE DEF g
  <2>3. cs'.global = g /\ cs'.trap_func = cs.trap_func
    BY <1>1, <2>1 DEF Status
  <2>4. h'.wanted = h.wanted /\ h'.monitor = on
    BY <1>1, <2>1 DEF History
  <2> QED
    BY <2>1, <2>2, <2>3, <2>4 DEF Requests, MonitorStays, TrapNotForgotten
<1>12. ~JAM /\ ~InGameMenuLoop
  BY DEF JAM, InGameMenuLoop
<1> QED
  BY <1>3, <1>4, <1>5, <1>6, <1>7, <1>8, <1>9, <1>10, <1>11, <1>12, Zenon DEF Next

\* What the user asked for is still asked for when the CPU looks, and what a delay is counted
\* from lies in the past, if traps are triggered one at a time, no jam drops them and the
\* user sets no breakpoints where he loads snapshots, which know nothing of them.
THEOREM RequestsStay ==
  ASSUME {"menu", "trap", "jam"} \cap Events = {}, "monitor" \notin Events \/ "load" \notin Traps
  PROVE  Spec => []RequestsSurvive
<1>1. Init => Requests
  BY DEF Init, NoInterrupts, Requests, MonitorStays, TrapNotForgotten
<1>2. IInv /\ Requests /\ [Next]_vars => Requests'
  BY BoundaryRequests, OthersRequests
<1>3. Requests /\ IntClksPast => RequestsSurvive
  BY DEF Requests, RequestsSurvive
<1> QED
  BY <1>1, <1>2, <1>3, InterruptInvariant, DelaysFromPast, PTL DEF Spec

-----------------------------------------------------------------------------
(* Entries *)

\* Between instructions: no handler was just entered; if the CPU will serve an IRQ, the last
\* instruction was polled with the I flag clear; and an IRQ asked for was on the line since
\* the last boundary.
Reasons ==
  /\ phase # "fetch" => h.took \notin {"IRQ", "NMI"}
  /\ phase # "fetch" /\ ~cpu.I /\ cpu.info # "enables" => ~h.masked
  /\ phase # "fetch" /\ cpu.info = "disables" => ~h.masked
  /\ cs.global \cap {"IRQ", "IRQPEND"} # {} => h.seen

\* What the CPU did at the boundary: what it served, unless a reset made it void; and a pulse
\* that was not served is over.
LEMMA BoundaryTook ==
  ASSUME IInv, DO_INTERRUPT
  PROVE  /\ h'.took = Serve(cs, cpu, h).h.took \/ h'.took = "RESET"
         /\ "IRQPEND" \in cs'.global => "IRQ" \in cs'.global
         /\ cs'.irq # {} => h'.seen
<1> DEFINE served == Serve(cs, cpu, h)
<1>0. \E o \in States, s \in States :
        /\ s = Reset(o) \/ s = o
        /\ Becomes(Settle(cs.global, s))
        /\ \/ "TRAP" \notin cs.global /\ o = served /\ image' = image
           \/ /\ "TRAP" \in cs.global
              /\ GoodState(served) /\ GoodImages(image)
              /\ [s |-> o, image |-> image'] \in CallTrap(served, image)
  BY BoundaryParts
<1> HIDE DEF served
<1>1. PICK o \in States, s \in States :
        /\ s = Reset(o) \/ s = o
        /\ Becomes(Settle(cs.global, s))
        /\ \/ "TRAP" \notin cs.global /\ o = served /\ image' = image
           \/ /\ "TRAP" \in cs.global
              /\ GoodState(served) /\ GoodImages(image)
              /\ [s |-> o, image |-> image'] \in CallTrap(served, image)
  BY <1>0, Zenon
<1>2. o.h.took = served.h.took
  <2>1. CASE "TRAP" \notin cs.global
    BY <1>1, <2>1
  <2>2. CASE "TRAP" \in cs.global
    <3> DEFINE out == [s |-> o, image |-> image']
    <3>1. out \in CallTrap(served, image) /\ out.s = o
      BY <1>1, <2>2
    <3> HIDE DEF out
    <3> QED
      BY <1>1, <2>2, <3>1, TrapParts
  <2> QED
    BY <2>1, <2>2
<1>3. s.h.took = served.h.took \/ s.h.took = "RESET"
  BY <1>1, <1>2, ResetParts
<1>4. /\ h'.took = s.h.took
      /\ "IRQPEND" \in cs'.global => "IRQ" \in cs'.global
      /\ cs'.irq # {} => h'.seen
  BY <1>1, SettleParts DEF Becomes
<1> QED
  BY <1>3, <1>4 DEF served

\* Instructions leave a reason for what comes at the next boundary.
LEMMA InstructionReasons ==
  ASSUME IInv, Reasons, Instruction \/ End
  PROVE  Reasons'
<1>1. /\ cs \in Status /\ cpu \in Cpu /\ h \in History /\ cpu.I \in BOOLEAN
  BY Parts DEF Cpu
<1>2. ASSUME NEW I \in BOOLEAN, NEW info \in OpInfo, NEW masked \in BOOLEAN,
             cpu'.I = I, cpu'.info = info, cs' = cs,
             h'.masked = masked, h'.took = "none", h'.seen = h.seen,
             ~I /\ info # "enables" => ~masked, info = "disables" => ~masked
      PROVE  Reasons'
  BY <1>2 DEF Reasons
<1>3. ASSUME NEW n, NEW I \in BOOLEAN, NEW info \in OpInfo, NEW masked \in BOOLEAN,
             Executes(I, info, masked, n),
             ~I /\ info # "enables" => ~masked, info = "disables" => ~masked
      PROVE  Reasons'
  <2>1. /\ cpu' = [cpu EXCEPT !.clk = cpu.clk + n, !.I = I, !.info = info]
        /\ h' = [h EXCEPT !.masked = masked, !.took = "none"] /\ cs' = cs
    BY <1>3 DEF Executes
  <2>2. cpu'.I = I /\ cpu'.info = info
    BY <1>1, <2>1 DEF Cpu
  <2>3. h'.masked = masked /\ h'.took = "none" /\ h'.seen = h.seen
    BY <1>1, <2>1 DEF History
  <2> QED
    BY <1>2, <1>3, <2>1, <2>2, <2>3
<1>4. ASSUME NEW n, BRK(n)
      PROVE  Reasons'
  <2>1. /\ cpu' = [[cpu EXCEPT !.exported = cpu.I] EXCEPT !.clk = cpu.clk + n, !.I = TRUE, !.info = "plain"]
        /\ h' = [h EXCEPT !.masked = TRUE, !.took = "none"] /\ cs' = cs
    BY <1>1, <1>4 DEF BRK, EXPORT_REGISTERS, Cpu
  <2>2. cpu'.I = TRUE /\ cpu'.info = "plain"
    BY <1>1, <2>1 DEF Cpu
  <2>3. h'.took = "none" /\ h'.seen = h.seen
    BY <1>1, <2>1 DEF History
  <2> QED
    BY <2>1, <2>2, <2>3 DEF Reasons
<1>5. ASSUME NEW n, Access(n)
      PROVE  Reasons'
  <2>1. /\ cpu' = [cpu EXCEPT !.clk = cpu.clk + n, !.info = "plain"]
        /\ h' = [h EXCEPT !.masked = cpu.I, !.took = "none"] /\ cs' = cs
    BY <1>5 DEF Access
  <2>2. cpu'.I = cpu.I /\ cpu'.info = "plain"
    BY <1>1, <2>1 DEF Cpu
  <2>3. h'.masked = cpu.I /\ h'.took = "none" /\ h'.seen = h.seen
    BY <1>1, <2>1 DEF History
  <2> QED
    BY <1>1, <2>1, <2>2, <2>3 DEF Reasons
<1>6. ASSUME NEW n, Complete(n)
      PROVE  Reasons'
  <2>1. cpu' = [cpu EXCEPT !.clk = cpu.clk + n] /\ cs' = cs /\ h' = h /\ phase = "access"
    BY <1>6 DEF Complete
  <2>2. cpu'.I = cpu.I /\ cpu'.info = cpu.info
    BY <1>1, <2>1 DEF Cpu
  <2> QED
    BY <2>1, <2>2 DEF Reasons
<1>7. CASE Instruction
  <2>1. PICK n \in 1 .. MaxCycles :
          \/ CLI(n) \/ SEI(n) \/ BRK(n) \/ BRANCH(n) \/ Other(n) \/ Access(n)
          \/ \E s \in BOOLEAN : PLP(s, n) \/ RTI(s, n)
    BY <1>7 DEF Instruction
  <2>2. CASE CLI(n)
    BY <1>1, <1>3, <2>2 DEF CLI, OpInfo
  <2>3. CASE SEI(n)
    BY <1>1, <1>3, <2>3 DEF SEI, OpInfo
  <2>4. CASE BRANCH(n) \/ Other(n)
    BY <1>1, <1>3, <2>4 DEF BRANCH, Other, OpInfo
  <2>5. ASSUME NEW s \in BOOLEAN, PLP(s, n)
        PROVE  Reasons'
    BY <1>1, <1>3, <2>5 DEF PLP, OpInfo
  <2>6. ASSUME NEW s \in BOOLEAN, RTI(s, n)
        PROVE  Reasons'
    BY <1>1, <1>3, <2>6 DEF RTI, OpInfo
  <2> QED
    BY <1>4, <1>5, <2>1, <2>2, <2>3, <2>4, <2>5, <2>6
<1> QED
  BY <1>6, <1>7 DEF End

\* Every step keeps the reasons.
LEMMA ReasonsKept ==
  ASSUME SavedLines = Lines, "menu" \notin Events, IInv, IInv', Reasons, [Next]_vars
  PROVE  Reasons'
<1>1. /\ cs \in Status /\ cpu \in Cpu /\ h \in History
  BY Parts
<1>2. ASSUME cs'.global \cap {"IRQ", "IRQPEND"} # {} => cs.global \cap {"IRQ", "IRQPEND"} # {} \/ h'.seen,
             h.seen => h'.seen, h'.masked = h.masked, h'.took = h.took,
             cpu'.I = cpu.I, cpu'.info = cpu.info, phase' = phase
      PROVE  Reasons'
  BY <1>2 DEF Reasons
<1>3. CASE UNCHANGED vars
  BY <1>3, <1>2 DEF vars
<1>4. CASE DO_INTERRUPT
  <2>1. phase' = "fetch"
    BY <1>4 DEF DO_INTERRUPT
  <2>2. "IRQ" \in cs'.global => cs'.irq # {}
    BY DEF IInv, Fits, Consistent, Counted
  <2> QED
    BY <1>4, <2>1, <2>2, BoundaryTook DEF Reasons
<1>5. CASE Instruction \/ End
  BY <1>5, InstructionReasons
<1>6. CASE JAM
  <2> DEFINE p == [EXPORT_REGISTERS(cpu) EXCEPT !.info = "plain"]
             k == [h EXCEPT !.masked = cpu.I]
             s == [cs |-> cs, cpu |-> p, h |-> k]
  <2>1. Becomes(Reset(s))
    BY <1>6 DEF JAM
  <2>2. p \in Cpu /\ p.I = cpu.I /\ p.info = "plain"
    BY <1>1 DEF EXPORT_REGISTERS, Cpu, OpInfo
  <2>3. k \in History /\ k.masked = cpu.I
    BY <1>1 DEF Cpu, History
  <2> HIDE DEF p, k
  <2>4. s \in States /\ s.cpu = p /\ s.h = k
    BY <1>1, <2>2, <2>3 DEF States
  <2> HIDE DEF s
  <2>5. cs'.global \subseteq {"MONITOR"} /\ h'.took = "RESET" /\ cpu'.I = cpu.I
    BY <2>1, <2>2, <2>4, ResetParts DEF Becomes
  <2>6. h' = [s.h EXCEPT !.edge = FALSE, !.seen = FALSE, !.took = "RESET"] /\ cpu' = [s.cpu EXCEPT !.clk = 6]
    BY <2>1 DEF Becomes, Reset
  <2>7. h'.masked = cpu.I
    BY <2>3, <2>4, <2>6 DEF History
  <2>8. cpu'.info = "plain"
    BY <2>2, <2>4, <2>6 DEF Cpu
  <2> QED
    BY <1>1, <2>5, <2>7, <2>8 DEF Reasons, Cpu
<1>7. CASE clk_guard_prevent_overflow
  <2>1. /\ h' = h /\ cs' = interrupt_cpu_status_time_warp(cs, clk_guard_clock_sub) /\ phase' = phase
        /\ cpu' = [cpu EXCEPT !.clk = cpu.clk - clk_guard_clock_sub]
    BY <1>7 DEF clk_guard_prevent_overflow
  <2>2. cs'.global = cs.global
    BY <1>1, <2>1 DEF interrupt_cpu_status_time_warp, Status
  <2>3. cpu'.I = cpu.I /\ cpu'.info = cpu.info
    BY <1>1, <2>1 DEF Cpu
  <2> QED
    BY <1>2, <2>1, <2>2, <2>3
<1>8. ASSUME NEW value \in BOOLEAN, NEW l \in IrqLines, set_irq(l, value)
      PROVE  Reasons'
  <2>1. PICK clk \in Moments : cs' = interrupt_set_irq(cs, l, value, clk)
    BY <1>8 DEF set_irq
  <2>2. clk \in Clock
    BY <1>1, MomentsType
  <2> DEFINE x == h.seen \/ value
  <2>3. h' = [h EXCEPT !.seen = x] /\ UNCHANGED <<cpu, phase>>
    BY <1>8 DEF set_irq
  <2>4. {"IRQ", "IRQPEND"} \cap cs'.global \subseteq cs.global \/ value
    BY <1>1, <2>1, <2>2, SetIrq
  <2>5. (h.seen => x) /\ (value => x)
    OBVIOUS
  <2> HIDE DEF x
  <2>6. h'.seen = x /\ h'.masked = h.masked /\ h'.took = h.took
    BY <1>1, <2>3 DEF History
  <2> QED
    BY <1>2, <2>3, <2>4, <2>5, <2>6
<1>9. ASSUME NEW value \in BOOLEAN, NEW l \in NmiLines, set_nmi(l, value)
      PROVE  Reasons'
  <2>1. PICK clk \in Moments : cs' = interrupt_set_nmi(cs, l, value, clk)
    BY <1>9 DEF set_nmi
  <2>2. clk \in Clock
    BY <1>1, MomentsType
  <2>3. h'.seen = h.seen /\ h'.masked = h.masked /\ h'.took = h.took /\ UNCHANGED <<cpu, phase>>
    BY <1>1, <1>9 DEF set_nmi, History
  <2>4. cs'.global \ {"NMI"} = cs.global \ {"NMI"}
    BY <1>1, <2>1, <2>2, SetNmi
  <2> QED
    BY <1>2, <2>3, <2>4
<1>10. ASSUME NEW l \in NmiLines, c64keyboard_restore_key(l)
       PROVE  Reasons'
  <2> DEFINE c == Raised(cs, l, cpu.clk)
  <2>1. cs' = Lowered(c, l, cpu.clk)
    BY <1>10 DEF c64keyboard_restore_key, Lowered, Raised
  <2>2. cpu.clk \in Clock
    BY <1>1 DEF Cpu
  <2>3. h'.seen = h.seen /\ h'.masked = h.masked /\ h'.took = h.took /\ UNCHANGED <<cpu, phase>>
    BY <1>1, <1>10 DEF c64keyboard_restore_key, History
  <2> HIDE DEF c
  <2>4. c \in Status /\ c.global \ {"NMI"} = cs.global \ {"NMI"}
    BY <1>1, <2>2, Rise DEF c
  <2>5. cs'.global \ {"NMI"} = c.global \ {"NMI"}
    BY <2>1, <2>2, <2>4, Fall
  <2> QED
    BY <1>2, <2>3, <2>4, <2>5
<1>11. ASSUME NEW g, g \cap {"IRQ", "IRQPEND"} = cs.global \cap {"IRQ", "IRQPEND"}, cs'.global = g,
              h'.seen = h.seen, h'.masked = h.masked, h'.took = h.took, UNCHANGED <<cpu, phase>>
       PROVE  Reasons'
  BY <1>2, <1>11
<1>12. CASE interrupt_trigger_reset
  <2>1. cs' = [cs EXCEPT !.global = cs.global \cup {"RESET"}] /\ h' = h /\ UNCHANGED <<cpu, phase>>
    BY <1>12 DEF interrupt_trigger_reset
  <2>2. cs'.global = cs.global \cup {"RESET"}
    BY <1>1, <2>1 DEF Status
  <2> QED
    BY <1>11, <2>1, <2>2
<1>13. ASSUME NEW f \in Traps, trigger_trap(f)
       PROVE  Reasons'
  <2>1. /\ cs' = [cs EXCEPT !.global = cs.global \cup {"TRAP"}, !.trap_func = f]
        /\ h' = [h EXCEPT !.wanted = h.wanted \cup {f}] /\ UNCHANGED <<cpu, phase>>
    BY <1>13 DEF trigger_trap, interrupt_maincpu_trigger_trap
  <2>2. cs'.global = cs.global \cup {"TRAP"}
    BY <1>1, <2>1 DEF Status
  <2>3. h'.seen = h.seen /\ h'.masked = h.masked /\ h'.took = h.took
    BY <1>1, <2>1 DEF History
  <2> QED
    BY <1>11, <2>1, <2>2, <2>3
<1>14. ASSUME NEW on \in BOOLEAN, interrupt_monitor_trap(on)
       PROVE  Reasons'
  <2> DEFINE g == IF on THEN cs.global \cup {"MONITOR"} ELSE cs.global \ {"MONITOR"}
  <2>1. cs' = [cs EXCEPT !.global = g] /\ h' = [h EXCEPT !.monitor = on] /\ UNCHANGED <<cpu, phase>>
    BY <1>14 DEF interrupt_monitor_trap
  <2>2. g \cap {"IRQ", "IRQPEND"} = cs.global \cap {"IRQ", "IRQPEND"}
    OBVIOUS
  <2> HIDE DEF g
  <2>3. cs'.global = g
    BY <1>1, <2>1 DEF Status
  <2>4. h'.seen = h.seen /\ h'.masked = h.masked /\ h'.took = h.took
    BY <1>1, <2>1 DEF History
  <2> QED
    BY <1>11, <2>1, <2>2, <2>3, <2>4
<1>15. ~InGameMenuLoop
  BY DEF InGameMenuLoop
<1> QED
  BY <1>3, <1>4, <1>5, <1>6, <1>7, <1>8, <1>9, <1>10, <1>12, <1>13, <1>14, <1>15, Zenon DEF Next

\* The boundary is the only way from the alarms to the next instruction.
LEMMA OnlyBoundary ==
  ASSUME [Next]_vars, ~DO_INTERRUPT, phase = "alarms"
  PROVE  phase' = "alarms"
<1>1. Instruction => phase = "fetch"
  BY Zenon DEF Instruction, CLI, SEI, BRK, BRANCH, Other, Access, PLP, RTI, Executes
<1>2. End \/ JAM => phase # "alarms"
  BY DEF End, JAM, Complete
<1> QED
  BY <1>1, <1>2, Zenon DEF Next, vars, clk_guard_prevent_overflow, set_irq, set_nmi, interrupt_monitor_trap,
     c64keyboard_restore_key, interrupt_trigger_reset, trigger_trap, InGameMenuLoop

\* The CPU enters the IRQ handler only if the line was low since the last boundary and the
\* last instruction was polled with interrupts on, the NMI handler only for an edge, if every
\* device saves its line and snapshots are taken in traps.
THEOREM EntriesStayJustified ==
  ASSUME SavedLines = Lines, "menu" \notin Events
  PROVE  Spec => EntriesJustified
<1>1. Init => Reasons
  BY DEF Init, NoInterrupts, Reasons
<1>2. IInv /\ IInv' /\ Reasons /\ [Next]_vars => Reasons'
  BY ReasonsKept
<1>3. IInv /\ Reasons /\ Reasons' /\ [Next]_vars =>
        [phase = "alarms" =>
           /\ h'.took = "IRQ" => ~h.masked /\ h.seen
           /\ h'.took = "NMI" => h.edge]_vars
  <2> SUFFICES ASSUME IInv, Reasons, Reasons', [Next]_vars, phase = "alarms"
               PROVE  /\ h'.took = "IRQ" => ~h.masked /\ h.seen
                      /\ h'.took = "NMI" => h.edge
    OBVIOUS
  <2>1. CASE DO_INTERRUPT
    <3> DEFINE served == Serve(cs, cpu, h)
    <3>1. cs \in Status /\ cpu \in Cpu /\ h \in History /\ Fits(cs, h.edge)
      BY Parts
    <3>2. Served(cs, cpu, h, served)
      BY <3>1, ServeParts
    <3>3. h'.took = served.h.took \/ h'.took = "RESET"
      BY <2>1, BoundaryTook
    <3> HIDE DEF served
    <3>4. "NMI" \in cs.global => h.edge
      BY <3>1 DEF Fits, Consistent
    <3>5. IrqAsked(cs.global, cs, cpu) /\ cpu.info # "enables" => ~h.masked /\ h.seen
      BY DEF IrqAsked, Reasons
    <3> QED
      BY <3>2, <3>3, <3>4, <3>5 DEF Served
  <2>2. CASE ~DO_INTERRUPT
    BY <2>2, OnlyBoundary DEF Reasons
  <2> QED
    BY <2>1, <2>2
<1> QED
  BY <1>1, <1>2, <1>3, InterruptInvariant, PTL DEF Spec, EntriesJustified
=============================================================================
