------------------------ MODULE AlarmContext_proofs -------------------------
(***************************************************************************)
(* The operations of an alarm table keep it consistent, for any number of  *)
(* alarms, any capacity and any clock width; and how much the clock guard  *)
(* subtracts.                                                              *)
(***************************************************************************)
EXTENDS AlarmContext, ClkGuard, FiniteSets, FiniteSetTheorems, TLAPS, WellFoundedInduction

\* A table as the operations may find it: well formed, slots and alarms naming each other,
\* and the cache holding the earliest clock.
Consistent(c) == IsContext(c) /\ SlotsMatch(c) /\ CacheIsEarliest(c)

\* Less than that: the cache may belong to no alarm, as after the warp of an empty table,
\* but it is not late.
Whole(c) == IsContext(c) /\ SlotsMatch(c)
NotLate(c) == \A i \in Slots(c) : c.next_clk <= c.clk[i]

\* A call leaves such a table and either the right cache or the clock that was in it; a
\* right one stays right.
Kept(c, d) ==
  /\ Whole(d) /\ NotLate(d)
  /\ CacheIsEarliest(c) => CacheIsEarliest(d)
  /\ CacheIsEarliest(d) \/ d.next_clk = c.next_clk

\* A non-empty set of naturals has a least element.
LEMMA LeastNatural ==
  ASSUME NEW T, T \subseteq Nat, T # {}
  PROVE  \E x \in T : \A y \in T : x <= y
<1>1. PICK x \in T : \A y \in T : ~ (<<y, x>> \in OpToRel(<, Nat))
  BY NatLessThanWellFounded, WFMin
<1>2. \A y \in T : ~ (y < x)
  BY <1>1 DEF OpToRel
<1> QED
  BY <1>2

\* The types of a table's fields, with the slots as an interval of naturals.
LEMMA ContextFacts ==
  ASSUME NEW c, IsContext(c)
  PROVE  /\ c.num \in Nat /\ c.num <= ALARM_CONTEXT_MAX_PENDING_ALARMS
         /\ \A i : i \in Slots(c) <=> (i \in Nat /\ i < c.num)
         /\ c.alarm \in [Slots(c) -> Alarms]
         /\ c.clk \in [Slots(c) -> Clock]
         /\ \A i \in Slots(c) : c.clk[i] \in Nat /\ c.clk[i] <= CLOCK_MAX
         /\ c.pending_idx \in [Alarms -> Slots(c) \cup {-1}]
         /\ c.next_clk \in Nat /\ c.next_clk <= CLOCK_MAX
         /\ c.next_idx \in Int
<1>1. c.num \in Nat /\ c.num <= ALARM_CONTEXT_MAX_PENDING_ALARMS
  BY CapacityAssumption DEF IsContext
<1>2. \A i : i \in Slots(c) <=> (i \in Nat /\ i < c.num)
  BY <1>1 DEF Slots
<1>3. \A x \in Clock : x \in Nat /\ x <= CLOCK_MAX
  BY ClockAssumption DEF Clock
<1> QED
  BY <1>1, <1>2, <1>3 DEF IsContext

\* A right cache is not late.
LEMMA RightIsNotLate ==
  ASSUME NEW c, CacheIsEarliest(c), Whole(c)
  PROVE  NotLate(c)
BY ContextFacts DEF CacheIsEarliest, NotLate, Whole

\* The scan of alarm_context_update_next_pending finds a slot whenever the
\* table is not empty, and the slot holds the earliest clock.
LEMMA EarliestSlotIsEarliest ==
  ASSUME NEW c, IsContext(c), c.num # 0
  PROVE  /\ EarliestSlot(c) \in Slots(c)
         /\ \A j \in Slots(c) : c.clk[EarliestSlot(c)] <= c.clk[j]
<1> DEFINE V == {c.clk[i] : i \in Slots(c)}
<1>1. V \subseteq Nat /\ V # {}
  <2>1. 0 \in Slots(c)
    BY ContextFacts
  <2> QED
    BY <2>1, ContextFacts
<1>2. PICK v \in V : \A w \in V : v <= w
  BY <1>1, LeastNatural
<1> DEFINE L == {c.num - i : i \in {i \in Slots(c) : c.clk[i] = v}}
<1>3. c.num \in Nat /\ Slots(c) \subseteq Nat /\ \A i \in Slots(c) : i < c.num /\ c.clk[i] \in Nat
  BY ContextFacts
<1>4. L \subseteq Nat /\ L # {}
  BY <1>2, <1>3
<1>5. PICK m \in L : \A k \in L : m <= k
  BY <1>4, LeastNatural
<1>6. PICK i \in Slots(c) : c.clk[i] = v /\ m = c.num - i
  BY <1>5
<1>7. \A j \in Slots(c) : c.clk[i] < c.clk[j] \/ (c.clk[i] = c.clk[j] /\ j <= i)
  <2> SUFFICES ASSUME NEW j \in Slots(c), c.clk[i] = c.clk[j]
               PROVE  j <= i
    <3>1. \A j \in Slots(c) : c.clk[j] \in V /\ c.clk[i] <= c.clk[j]
      BY <1>2, <1>6
    <3> QED
      BY <3>1, <1>3
  <2>1. c.num - j \in L
    BY <1>6
  <2>2. c.num - i <= c.num - j
    BY <2>1, <1>5, <1>6
  <2> QED
    BY <2>2, <1>3
<1>8. EarliestSlot(c) \in Slots(c) /\
      \A j \in Slots(c) : \/ c.clk[EarliestSlot(c)] < c.clk[j]
                          \/ (c.clk[EarliestSlot(c)] = c.clk[j] /\ j <= EarliestSlot(c))
  BY <1>7, Zenon DEF EarliestSlot
<1> QED
  BY <1>3, <1>8

\* Rescanning a table whose slots match yields a consistent one.
LEMMA UpdateConsistent ==
  ASSUME NEW c, IsContext(c), SlotsMatch(c)
  PROVE  Consistent(alarm_context_update_next_pending(c))
<1> DEFINE u == alarm_context_update_next_pending(c)
<1>1. CASE c.num = 0
  <2>1. u = [c EXCEPT !.next_clk = CLOCK_MAX]
    BY <1>1 DEF alarm_context_update_next_pending
  <2>2. /\ DOMAIN u = DOMAIN c
        /\ u.num = c.num /\ u.alarm = c.alarm /\ u.clk = c.clk
        /\ u.pending_idx = c.pending_idx /\ u.next_idx = c.next_idx
        /\ u.next_clk = CLOCK_MAX
    BY <2>1 DEF IsContext
  <2>3. CLOCK_MAX \in Clock
    BY ClockAssumption DEF Clock
  <2> QED
    BY <1>1, <2>2, <2>3 DEF Consistent, IsContext, SlotsMatch, CacheIsEarliest, Slots, IsPending
<1>2. CASE c.num # 0
  <2> DEFINE e == EarliestSlot(c)
  <2>1. u = [c EXCEPT !.next_clk = c.clk[e], !.next_idx = e]
    BY <1>2 DEF alarm_context_update_next_pending
  <2>2. /\ DOMAIN u = DOMAIN c
        /\ u.num = c.num /\ u.alarm = c.alarm /\ u.clk = c.clk
        /\ u.pending_idx = c.pending_idx /\ u.next_idx = e
        /\ u.next_clk = c.clk[e]
    BY <2>1 DEF IsContext
  <2>3. e \in Slots(c) /\ \A j \in Slots(c) : c.clk[e] <= c.clk[j]
    BY <1>2, EarliestSlotIsEarliest
  <2>4. e \in Int /\ c.clk[e] \in Clock
    BY <2>3, ContextFacts
  <2>5. Slots(u) = Slots(c)
    BY <2>2 DEF Slots
  <2>6. IsContext(u)
    BY <2>2, <2>4, <2>5 DEF IsContext
  <2>7. SlotsMatch(u)
    BY <2>2, <2>5 DEF SlotsMatch, IsPending
  <2>8. CacheIsEarliest(u)
    BY <1>2, <2>2, <2>3, <2>5 DEF CacheIsEarliest
  <2> QED
    BY <2>6, <2>7, <2>8 DEF Consistent
<1> QED
  BY <1>1, <1>2

\* A new context is consistent, whatever its uninitialised index holds.
LEMMA InitConsistent ==
  ASSUME NEW garbage \in Int
  PROVE  Consistent(alarm_context_init(garbage))
<1> DEFINE c == alarm_context_init(garbage)
<1>1. /\ DOMAIN c = {"num", "alarm", "clk", "pending_idx", "next_clk", "next_idx"}
      /\ c.num = 0 /\ c.alarm = [i \in {} |-> i] /\ c.clk = [i \in {} |-> i]
      /\ c.pending_idx = [a \in Alarms |-> -1]
      /\ c.next_clk = CLOCK_MAX /\ c.next_idx = garbage
  BY DEF alarm_context_init
<1>2. Slots(c) = {}
  BY <1>1 DEF Slots
<1>3. CLOCK_MAX \in Clock /\ 0 \in 0 .. ALARM_CONTEXT_MAX_PENDING_ALARMS
  BY ClockAssumption, CapacityAssumption DEF Clock
<1>4. IsContext(c)
  BY <1>1, <1>2, <1>3 DEF IsContext
<1> QED
  BY <1>1, <1>2, <1>4 DEF Consistent, SlotsMatch, CacheIsEarliest, IsPending

\* Arming an alarm that is not pending.  The clock must be below CLOCK_MAX: the
\* idle table's cached clock is CLOCK_MAX and the comparison is strict.
LEMMA AddKeeps ==
  ASSUME NEW c, Whole(c), NotLate(c), NEW a \in Alarms, NEW t \in Clock, t < CLOCK_MAX,
         ~ IsPending(c, a)
  PROVE  Kept(c, AddPending(c, a, t))
<1> DEFINE d == AddPending(c, a, t)
           n == c.num
<1>0. IsContext(c) /\ SlotsMatch(c) /\ NotLate(c)
  BY DEF Whole
<1>1. CASE n >= ALARM_CONTEXT_MAX_PENDING_ALARMS
  BY <1>1 DEF AddPending, Kept
<1>2. CASE ~ (n >= ALARM_CONTEXT_MAX_PENDING_ALARMS)
  <2>1. /\ DOMAIN d = {"num", "alarm", "clk", "pending_idx", "next_clk", "next_idx"}
        /\ d.num = n + 1
        /\ d.alarm = [i \in 0 .. n |-> IF i = n THEN a ELSE c.alarm[i]]
        /\ d.clk = [i \in 0 .. n |-> IF i = n THEN t ELSE c.clk[i]]
        /\ d.pending_idx = [c.pending_idx EXCEPT ![a] = n]
        /\ d.next_clk = IF t < c.next_clk THEN t ELSE c.next_clk
        /\ d.next_idx = IF t < c.next_clk THEN n ELSE c.next_idx
    BY <1>2 DEF AddPending
  <2>2. n \in Nat /\ Slots(d) = 0 .. n /\ \A i : i \in Slots(d) <=> i \in Slots(c) \/ i = n
    <3>1. n \in Nat
      BY <1>0, ContextFacts
    <3>2. Slots(d) = 0 .. n /\ Slots(c) = 0 .. n - 1
      BY <2>1, <3>1 DEF Slots
    <3> QED
      BY <3>1, <3>2
  <2>3. n \notin Slots(c) /\ n + 1 \in 0 .. ALARM_CONTEXT_MAX_PENDING_ALARMS
    BY <1>0, <1>2, ContextFacts, CapacityAssumption
  <2>4. t \in Nat
    BY ClockAssumption DEF Clock
  <2>5. IsContext(d)
    <3>1. d.alarm \in [Slots(d) -> Alarms] /\ d.clk \in [Slots(d) -> Clock]
      BY <1>0, <2>1, <2>2, ContextFacts
    <3>2. d.pending_idx \in [Alarms -> Slots(d) \cup {-1}]
      BY <1>0, <2>1, <2>2, ContextFacts
    <3>3. d.next_clk \in Clock /\ d.next_idx \in Int
      BY <1>0, <2>1, <2>2 DEF IsContext
    <3> QED
      BY <2>1, <2>3, <3>1, <3>2, <3>3 DEF IsContext
  <2>6. SlotsMatch(d)
    <3>1. \A i \in Slots(c) : c.alarm[i] # a
      BY <1>0, <2>3, ContextFacts DEF SlotsMatch, IsPending
    <3>2. \A i \in Slots(d) : d.pending_idx[d.alarm[i]] = i
      BY <1>0, <2>1, <2>2, <2>3, <3>1, ContextFacts DEF SlotsMatch
    <3>3. ASSUME NEW b \in Alarms, IsPending(d, b)
          PROVE  d.pending_idx[b] \in Slots(d) /\ d.alarm[d.pending_idx[b]] = b
      <4>1. CASE b = a
        BY <1>0, <2>1, <2>2, <4>1, ContextFacts
      <4>2. CASE b # a
        <5>1. d.pending_idx[b] = c.pending_idx[b] /\ IsPending(c, b)
          BY <1>0, <2>1, <3>3, <4>2, ContextFacts DEF IsPending
        <5>2. c.pending_idx[b] \in Slots(c) /\ c.alarm[c.pending_idx[b]] = b
          BY <1>0, <5>1 DEF SlotsMatch
        <5> QED
          BY <2>1, <2>2, <2>3, <5>1, <5>2
      <4> QED
        BY <4>1, <4>2
    <3> QED
      BY <3>2, <3>3 DEF SlotsMatch
  <2>7. \A i \in Slots(c) : d.clk[i] = c.clk[i] /\ c.clk[i] \in Nat
    BY <1>0, <2>1, <2>2, <2>3, ContextFacts
  <2>8. d.clk[n] = t /\ c.next_clk \in Nat /\ d.num # 0
    BY <1>0, <2>1, <2>2, ContextFacts
  <2>9. NotLate(d)
    <3>1. d.next_clk <= t /\ d.next_clk <= c.next_clk /\ d.next_clk \in Nat
      BY <2>1, <2>4, <2>8
    <3>2. ASSUME NEW i \in Slots(c) PROVE d.next_clk <= d.clk[i]
      BY <1>0, <2>7, <2>8, <3>1 DEF NotLate
    <3> QED
      BY <2>2, <2>8, <3>1, <3>2 DEF NotLate
  <2>10. CacheIsEarliest(d) \/ d.next_clk = c.next_clk
    BY <2>1, <2>2, <2>8, <2>9 DEF CacheIsEarliest, NotLate
  <2>11. ASSUME CacheIsEarliest(c) PROVE CacheIsEarliest(d)
    <3>1. d.next_idx \in Slots(d) /\ d.next_clk = d.clk[d.next_idx]
      <4>1. CASE t < c.next_clk
        BY <2>1, <2>2, <2>8, <4>1
      <4>2. CASE ~ (t < c.next_clk)
        <5>1. n # 0
          BY <2>11, <4>2, <2>4, ClockAssumption DEF CacheIsEarliest
        <5>2. c.next_idx \in Slots(c) /\ c.next_clk = c.clk[c.next_idx]
          BY <2>11, <5>1 DEF CacheIsEarliest
        <5> QED
          BY <2>1, <2>2, <2>7, <4>2, <5>2
      <4> QED
        BY <4>1, <4>2
    <3> QED
      BY <2>8, <2>9, <3>1 DEF CacheIsEarliest, NotLate
  <2> QED
    BY <2>5, <2>6, <2>9, <2>10, <2>11 DEF Kept, Whole
<1> QED
  BY <1>1, <1>2

\* Re-arming a pending alarm: it keeps its slot, and the cache is rescanned
\* exactly when it could have become wrong.
LEMMA ModifyKeeps ==
  ASSUME NEW c, Whole(c), NotLate(c), NEW a \in Alarms, NEW t \in Clock, IsPending(c, a)
  PROVE  Kept(c, ModifyPending(c, a, t))
<1> DEFINE k == c.pending_idx[a]
           m == [c EXCEPT !.clk[k] = t]
<1>0. IsContext(c) /\ SlotsMatch(c) /\ NotLate(c)
  BY DEF Whole
<1>1. k \in Slots(c) /\ c.alarm[k] = a
  BY <1>0 DEF SlotsMatch
<1>2. /\ DOMAIN m = {"num", "alarm", "clk", "pending_idx", "next_clk", "next_idx"}
      /\ m.num = c.num /\ m.alarm = c.alarm /\ m.pending_idx = c.pending_idx
      /\ m.next_clk = c.next_clk /\ m.next_idx = c.next_idx
      /\ m.clk = [c.clk EXCEPT ![k] = t]
  BY <1>0 DEF IsContext
<1>3. Slots(m) = Slots(c)
  BY <1>2 DEF Slots
<1>4. IsContext(m)
  BY <1>0, <1>1, <1>2, <1>3 DEF IsContext
<1>5. SlotsMatch(m)
  BY <1>0, <1>2, <1>3 DEF SlotsMatch, IsPending
<1>6. CASE c.next_clk > t \/ k = c.next_idx
  <2>1. ModifyPending(c, a, t) = alarm_context_update_next_pending(m)
    BY <1>6 DEF ModifyPending
  <2>2. Consistent(ModifyPending(c, a, t))
    BY <1>4, <1>5, <2>1, UpdateConsistent
  <2> QED
    BY <2>2, RightIsNotLate DEF Consistent, Kept, Whole
<1>7. CASE ~ (c.next_clk > t \/ k = c.next_idx)
  <2>1. ModifyPending(c, a, t) = m
    BY <1>7 DEF ModifyPending
  <2>2. c.next_clk <= t /\ c.clk \in [Slots(c) -> Clock] /\ c.num # 0
    BY <1>0, <1>1, <1>7, ContextFacts, ClockAssumption DEF Clock
  <2> HIDE DEF m
  <2>3. NotLate(m)
    BY <1>0, <1>2, <1>3, <2>2 DEF NotLate
  <2>4. ASSUME CacheIsEarliest(c) PROVE CacheIsEarliest(m)
    <3>1. c.next_idx \in Slots(c) /\ c.next_clk = c.clk[c.next_idx]
      BY <2>2, <2>4 DEF CacheIsEarliest
    <3>2. m.clk[m.next_idx] = c.clk[c.next_idx]
      BY <1>2, <1>7, <2>2, <3>1
    <3> QED
      BY <1>2, <1>3, <2>2, <2>3, <3>1, <3>2 DEF CacheIsEarliest, NotLate
  <2> QED
    BY <1>2, <1>4, <1>5, <2>1, <2>3, <2>4 DEF Kept, Whole
<1> QED
  BY <1>6, <1>7

\* alarm_set keeps what there is of order in a table, however its cache came to be.
THEOREM SetKeeps ==
  ASSUME NEW c, Whole(c), NotLate(c), NEW a \in Alarms, NEW t \in Clock, t < CLOCK_MAX
  PROVE  Kept(c, alarm_set(c, a, t))
BY AddKeeps, ModifyKeeps DEF alarm_set

\* alarm_set, whether it adds or modifies, keeps slots, alarms and cache in agreement:
\* the order of the writes in alarm.h loses nothing.
THEOREM SetConsistent ==
  ASSUME NEW c, Consistent(c), NEW a \in Alarms, NEW t \in Clock, t < CLOCK_MAX
  PROVE  Consistent(alarm_set(c, a, t))
<1>1. Whole(c) /\ NotLate(c)
  BY RightIsNotLate DEF Consistent, Whole
<1>2. Kept(c, alarm_set(c, a, t))
  BY <1>1, SetKeeps
<1> QED
  BY <1>2 DEF Consistent, Kept, Whole

\* Removing one of several pending alarms: the last slot moves into the hole,
\* and the cached index follows it.
LEMMA RemoveKeeps ==
  ASSUME NEW c, Whole(c), NotLate(c), NEW a \in Alarms, IsPending(c, a), c.num > 1
  PROVE  /\ Kept(c, RemovePending(c, a))
         /\ c.next_idx = c.pending_idx[a] => CacheIsEarliest(RemovePending(c, a))
<1> DEFINE k == c.pending_idx[a]
           last == c.num - 1
           moved == IF last # k THEN [c.pending_idx EXCEPT ![c.alarm[last]] = k]
                    ELSE c.pending_idx
           m == [ num         |-> last,
                  alarm       |-> [i \in 0 .. last - 1 |-> IF i = k THEN c.alarm[last] ELSE c.alarm[i]],
                  clk         |-> [i \in 0 .. last - 1 |-> IF i = k THEN c.clk[last] ELSE c.clk[i]],
                  pending_idx |-> [moved EXCEPT ![a] = -1],
                  next_clk    |-> c.next_clk,
                  next_idx    |-> c.next_idx ]
<1>0. IsContext(c) /\ SlotsMatch(c) /\ NotLate(c)
  BY DEF Whole
<1>1. k \in Slots(c) /\ c.alarm[k] = a
  BY <1>0 DEF SlotsMatch
<1>2. last \in Nat /\ last # 0 /\ last \in Slots(c) /\ k \in Nat /\ k <= last
  BY <1>0, <1>1, ContextFacts
<1>a. /\ DOMAIN m = {"num", "alarm", "clk", "pending_idx", "next_clk", "next_idx"}
      /\ m.num = last
      /\ m.alarm = [i \in 0 .. last - 1 |-> IF i = k THEN c.alarm[last] ELSE c.alarm[i]]
      /\ m.clk = [i \in 0 .. last - 1 |-> IF i = k THEN c.clk[last] ELSE c.clk[i]]
      /\ m.pending_idx = [moved EXCEPT ![a] = -1]
      /\ m.next_clk = c.next_clk /\ m.next_idx = c.next_idx
  OBVIOUS
<1> HIDE DEF m
<1>3. Slots(m) = 0 .. last - 1 /\ \A i : i \in Slots(m) <=> i \in Slots(c) /\ i # last
  <2>1. Slots(m) = 0 .. last - 1 /\ Slots(c) = 0 .. last
    BY <1>2, <1>a DEF Slots
  <2> QED
    BY <1>2, <2>1
<1> DEFINE z == c.alarm[last]
<1>4. z \in Alarms /\ c.pending_idx[z] = last /\ (last # k => z # a)
  BY <1>0, <1>1, <1>2, ContextFacts DEF SlotsMatch
<1>5. \A b \in Alarms : m.pending_idx[b] = IF b = a THEN -1
                                          ELSE IF b = z THEN k
                                          ELSE c.pending_idx[b]
  BY <1>0, <1>1, <1>4, <1>a, ContextFacts
<1>6. \A i \in Slots(m) : /\ m.alarm[i] = IF i = k THEN z ELSE c.alarm[i]
                          /\ m.clk[i] = IF i = k THEN c.clk[last] ELSE c.clk[i]
  BY <1>3, <1>a
<1>7. \A i, j \in Slots(c) : c.alarm[i] = c.alarm[j] => i = j
  BY <1>0 DEF SlotsMatch
<1>8. IsContext(m)
  <2>1. m.num \in 0 .. ALARM_CONTEXT_MAX_PENDING_ALARMS
    BY <1>0, <1>2, <1>a, ContextFacts, CapacityAssumption
  <2>2. m.alarm \in [Slots(m) -> Alarms] /\ m.clk \in [Slots(m) -> Clock]
    BY <1>0, <1>2, <1>3, <1>a, ContextFacts, SMTT(30)
  <2>3. \A b \in Alarms : b # a /\ b # z => c.pending_idx[b] \in Slots(m) \cup {-1}
    BY <1>0, <1>2, <1>3, ContextFacts DEF SlotsMatch, IsPending
  <2>4. z # a => k \in Slots(m)
    BY <1>1, <1>3, <1>4
  <2>5. \A b \in Alarms : m.pending_idx[b] \in Slots(m) \cup {-1}
    BY <1>5, <2>3, <2>4
  <2>6. m.pending_idx \in [Alarms -> Slots(m) \cup {-1}]
    <3>1. DOMAIN m.pending_idx = Alarms /\ m.pending_idx = [b \in Alarms |-> m.pending_idx[b]]
      BY <1>0, <1>a, ContextFacts
    <3> QED
      BY <3>1, <2>5
  <2> QED
    BY <1>0, <1>a, <2>1, <2>2, <2>6 DEF IsContext
<1>9. SlotsMatch(m)
  <2>1. ASSUME NEW i \in Slots(m) PROVE m.pending_idx[m.alarm[i]] = i
    <3>1. CASE i = k
      BY <1>3, <1>4, <1>5, <1>6, <2>1, <3>1
    <3>2. CASE i # k
      <4>1. c.alarm[i] \in Alarms /\ c.alarm[i] # a /\ c.alarm[i] # z
        BY <1>0, <1>1, <1>2, <1>3, <1>7, <2>1, <3>2, ContextFacts
      <4> QED
        BY <1>0, <1>3, <1>5, <1>6, <2>1, <3>2, <4>1 DEF SlotsMatch
    <3> QED
      BY <3>1, <3>2
  <2>2. ASSUME NEW b \in Alarms, IsPending(m, b)
        PROVE  m.pending_idx[b] \in Slots(m) /\ m.alarm[m.pending_idx[b]] = b
    <3>1. b # a /\ k # -1
      BY <1>2, <1>5, <2>2 DEF IsPending
    <3>2. CASE b = z
      BY <1>1, <1>3, <1>4, <1>5, <1>6, <3>1, <3>2
    <3>3. CASE b # z
      <4>1. m.pending_idx[b] = c.pending_idx[b] /\ IsPending(c, b)
        BY <1>5, <2>2, <3>1, <3>3 DEF IsPending
      <4>2. c.pending_idx[b] \in Slots(c) /\ c.alarm[c.pending_idx[b]] = b
        BY <1>0, <4>1 DEF SlotsMatch
      <4>3. c.pending_idx[b] # last /\ c.pending_idx[b] # k
        BY <1>1, <3>1, <3>3, <4>2
      <4> QED
        BY <1>3, <1>6, <4>1, <4>2, <4>3
    <3> QED
      BY <3>2, <3>3
  <2> QED
    BY <2>1, <2>2 DEF SlotsMatch
<1>10. CacheIsEarliest(c) => c.next_idx \in Slots(c) /\ c.next_clk = c.clk[c.next_idx]
  BY <1>0, <1>2 DEF CacheIsEarliest
<1>11. \A i \in Slots(m) : c.next_clk <= m.clk[i]
  BY <1>0, <1>2, <1>3, <1>6 DEF NotLate
<1>12. CASE c.next_idx = k
  <2>1. RemovePending(c, a) = alarm_context_update_next_pending(m)
    BY <1>12 DEF RemovePending, m
  <2>2. Consistent(RemovePending(c, a))
    BY <1>8, <1>9, <2>1, UpdateConsistent
  <2> QED
    BY <2>2, RightIsNotLate DEF Consistent, Kept, Whole
<1>13. CASE c.next_idx # k /\ c.next_idx = last
  <2> DEFINE d == [m EXCEPT !.next_idx = k]
  <2>1. RemovePending(c, a) = d
    BY <1>13 DEF RemovePending, m
  <2>2. /\ DOMAIN d = DOMAIN m /\ d.num = m.num /\ d.alarm = m.alarm /\ d.clk = m.clk
        /\ d.pending_idx = m.pending_idx /\ d.next_clk = m.next_clk /\ d.next_idx = k
    BY <1>a
  <2> HIDE DEF d
  <2>3. Slots(d) = Slots(m) /\ k \in Slots(m)
    BY <1>1, <1>3, <1>13, <2>2 DEF Slots
  <2>4. IsContext(d)
    BY <1>2, <1>8, <2>2, <2>3 DEF IsContext
  <2>5. SlotsMatch(d)
    BY <1>9, <2>2, <2>3 DEF SlotsMatch, IsPending
  <2>6. m.clk[k] = c.clk[last]
    BY <1>6, <2>3
  <2>7. NotLate(d)
    BY <1>11, <1>a, <2>2, <2>3 DEF NotLate
  <2>8. ASSUME CacheIsEarliest(c) PROVE CacheIsEarliest(d)
    BY <1>2, <1>10, <1>11, <1>13, <1>a, <2>2, <2>3, <2>6, <2>8 DEF CacheIsEarliest
  <2> QED
    BY <1>13, <1>a, <2>1, <2>2, <2>4, <2>5, <2>7, <2>8 DEF Kept, Whole
<1>14. CASE c.next_idx # k /\ c.next_idx # last
  <2>1. RemovePending(c, a) = m
    BY <1>14 DEF RemovePending, m
  <2>2. NotLate(m)
    BY <1>11, <1>a DEF NotLate
  <2>3. ASSUME CacheIsEarliest(c) PROVE CacheIsEarliest(m)
    BY <1>2, <1>3, <1>6, <1>10, <1>11, <1>14, <1>a, <2>3 DEF CacheIsEarliest
  <2> QED
    BY <1>8, <1>9, <1>14, <1>a, <2>1, <2>2, <2>3 DEF Kept, Whole
<1> QED
  BY <1>12, <1>13, <1>14

\* Removing the only pending alarm leaves an idle table.
LEMMA RemoveOnlyConsistent ==
  ASSUME NEW c, Whole(c), NEW a \in Alarms, IsPending(c, a), ~ (c.num > 1)
  PROVE  Consistent(RemoveOnly(c, a))
<1> DEFINE d == RemoveOnly(c, a)
<1>0. IsContext(c) /\ SlotsMatch(c)
  BY DEF Whole
<1>1. c.pending_idx[a] \in Slots(c) /\ c.alarm[c.pending_idx[a]] = a
  BY <1>0 DEF SlotsMatch
<1>2. c.num = 1 /\ \A i \in Slots(c) : i = 0
  BY <1>0, <1>1, ContextFacts
<1>3. \A b \in Alarms : IsPending(c, b) => b = a
  BY <1>0, <1>1, <1>2 DEF SlotsMatch
<1>4. /\ DOMAIN d = {"num", "alarm", "clk", "pending_idx", "next_clk", "next_idx"}
      /\ d.num = 0 /\ d.alarm = [i \in {} |-> i] /\ d.clk = [i \in {} |-> i]
      /\ d.pending_idx = [c.pending_idx EXCEPT ![a] = -1]
      /\ d.next_clk = CLOCK_MAX /\ d.next_idx = -1
  BY DEF RemoveOnly
<1> HIDE DEF d
<1>5. Slots(d) = {}
  BY <1>4 DEF Slots
<1>6. d.pending_idx = [b \in Alarms |-> -1]
  BY <1>0, <1>3, <1>4, ContextFacts DEF IsPending
<1>7. CLOCK_MAX \in Clock /\ 0 \in 0 .. ALARM_CONTEXT_MAX_PENDING_ALARMS
  BY ClockAssumption, CapacityAssumption DEF Clock
<1>8. IsContext(d)
  <2>1. d.alarm \in [Slots(d) -> Alarms] /\ d.clk \in [Slots(d) -> Clock]
    BY <1>4, <1>5
  <2>2. d.pending_idx \in [Alarms -> Slots(d) \cup {-1}]
    BY <1>6
  <2> QED
    BY <1>4, <1>7, <2>1, <2>2 DEF IsContext
<1>9. SlotsMatch(d) /\ CacheIsEarliest(d)
  BY <1>4, <1>5, <1>6 DEF SlotsMatch, CacheIsEarliest, IsPending
<1> QED
  BY <1>8, <1>9 DEF d, Consistent

\* alarm_unset keeps what there is of order, and puts the cache right if it named the alarm.
THEOREM UnsetKeeps ==
  ASSUME NEW c, Whole(c), NotLate(c), NEW a \in Alarms
  PROVE  /\ Kept(c, alarm_unset(c, a))
         /\ IsPending(c, a) /\ c.next_idx = c.pending_idx[a] => CacheIsEarliest(alarm_unset(c, a))
<1>1. CASE ~ IsPending(c, a)
  BY <1>1 DEF alarm_unset, Kept
<1>2. CASE IsPending(c, a) /\ c.num > 1
  BY <1>2, RemoveKeeps DEF alarm_unset
<1>3. CASE IsPending(c, a) /\ ~ (c.num > 1)
  <2>1. Consistent(alarm_unset(c, a))
    BY <1>3, RemoveOnlyConsistent DEF alarm_unset
  <2> QED
    BY <2>1, RightIsNotLate DEF Consistent, Kept, Whole
<1> QED
  BY <1>1, <1>2, <1>3

\* alarm_unset does too, whichever slot is emptied, the cached one included.
THEOREM UnsetConsistent ==
  ASSUME NEW c, Consistent(c), NEW a \in Alarms
  PROVE  Consistent(alarm_unset(c, a))
<1>1. Whole(c) /\ NotLate(c)
  BY RightIsNotLate DEF Consistent, Whole
<1>2. Kept(c, alarm_unset(c, a))
  BY <1>1, UnsetKeeps
<1> QED
  BY <1>2 DEF Consistent, Kept, Whole

\* The subtraction moves every pending clock, and the cached one, by the same amount as
\* long as the cached one does not lie below it; the cache of an empty table is then wrong.
THEOREM WarpKeeps ==
  ASSUME NEW c, Whole(c), NotLate(c), NEW amount \in Nat, amount <= c.next_clk
  PROVE  LET d == alarm_context_time_warp(c, amount) IN
         /\ Whole(d) /\ NotLate(d)
         /\ d.num = c.num /\ d.pending_idx = c.pending_idx
         /\ d.next_clk = c.next_clk - amount
         /\ \A i \in Slots(c) : d.clk[i] = c.clk[i] - amount
         /\ CacheIsEarliest(c) /\ c.num # 0 => CacheIsEarliest(d)
<1> DEFINE d == alarm_context_time_warp(c, amount)
<1>0. IsContext(c) /\ SlotsMatch(c) /\ NotLate(c)
  BY DEF Whole
<1>1. /\ DOMAIN d = {"num", "alarm", "clk", "pending_idx", "next_clk", "next_idx"}
      /\ d.num = c.num /\ d.alarm = c.alarm /\ d.pending_idx = c.pending_idx
      /\ d.next_idx = c.next_idx
      /\ d.clk = [i \in Slots(c) |-> Wrap(c.clk[i] - amount)]
      /\ d.next_clk = Wrap(c.next_clk - amount)
  BY <1>0 DEF alarm_context_time_warp, IsContext
<1> HIDE DEF d
<1>2. /\ c.next_clk \in Nat /\ c.next_clk <= CLOCK_MAX /\ CLOCK_MAX \in Nat
      /\ \A i \in Slots(c) : c.clk[i] \in Nat /\ c.clk[i] <= CLOCK_MAX /\ c.next_clk <= c.clk[i]
  BY <1>0, ContextFacts, ClockAssumption DEF NotLate
<1>3. \A x \in Nat : x <= CLOCK_MAX => Wrap(x) = x
  BY ClockAssumption DEF Wrap
<1>4. /\ c.next_clk - amount \in Nat /\ c.next_clk - amount <= CLOCK_MAX
      /\ \A i \in Slots(c) : c.clk[i] - amount \in Nat /\ c.clk[i] - amount <= CLOCK_MAX
  BY <1>2
<1>5. d.next_clk = c.next_clk - amount /\ \A i \in Slots(c) : d.clk[i] = c.clk[i] - amount
  BY <1>1, <1>3, <1>4
<1>6. Slots(d) = Slots(c)
  BY <1>1 DEF Slots
<1>7. \A x : x \in Nat /\ x <= CLOCK_MAX => x \in Clock
  BY ClockAssumption DEF Clock
<1>8. IsContext(d)
  <2>1. d.clk \in [Slots(d) -> Clock] /\ d.next_clk \in Clock
    BY <1>1, <1>4, <1>5, <1>6, <1>7
  <2> QED
    BY <1>0, <1>1, <1>6, <2>1 DEF IsContext
<1>9. SlotsMatch(d)
  BY <1>0, <1>1, <1>6 DEF SlotsMatch, IsPending
<1>10. NotLate(d)
  <2>1. \A i \in Slots(c) : d.next_clk <= d.clk[i]
    BY <1>2, <1>5
  <2> QED
    BY <1>6, <2>1 DEF NotLate
<1>11. ASSUME CacheIsEarliest(c), c.num # 0
       PROVE  CacheIsEarliest(d)
  <2>1. d.next_idx \in Slots(d) /\ d.next_clk = d.clk[d.next_idx]
    BY <1>1, <1>5, <1>6, <1>11 DEF CacheIsEarliest
  <2> QED
    BY <1>1, <1>10, <1>11, <2>1 DEF CacheIsEarliest, NotLate
<1> QED
  BY <1>1, <1>5, <1>8, <1>9, <1>10, <1>11 DEF d, Whole

\* The subtraction keeps the table consistent and moves every pending clock by
\* the same amount, provided that something is pending and that no pending
\* clock lies below the amount.  Neither condition can be dropped.
THEOREM WarpConsistent ==
  ASSUME NEW c, Consistent(c), c.num # 0, NEW amount \in Nat,
         \A i \in Slots(c) : amount <= c.clk[i]
  PROVE  LET d == alarm_context_time_warp(c, amount) IN
         /\ Consistent(d)
         /\ d.num = c.num /\ d.pending_idx = c.pending_idx
         /\ \A i \in Slots(c) : d.clk[i] = c.clk[i] - amount
<1>1. Whole(c) /\ NotLate(c) /\ CacheIsEarliest(c)
  BY RightIsNotLate DEF Consistent, Whole
<1>2. amount <= c.next_clk
  BY <1>1 DEF CacheIsEarliest
<1> QED
  BY <1>1, <1>2, WarpKeeps DEF Consistent, Whole

\* Rescanning changes nothing but the cache.
LEMMA UpdateEffect ==
  ASSUME NEW c, IsContext(c)
  PROVE  LET d == alarm_context_update_next_pending(c) IN
         d.num = c.num /\ d.alarm = c.alarm /\ d.clk = c.clk /\ d.pending_idx = c.pending_idx
BY DEF alarm_context_update_next_pending, IsContext

\* What a device's call does to the alarms of the other devices: nothing.
OthersKept(c, d, a) ==
  \A b \in Alarms \ {a} : /\ IsPending(d, b) <=> IsPending(c, b)
                          /\ IsPending(c, b) => DueClk(d, b) = DueClk(c, b)

\* What arming an alarm does to the alarms: the one named is due when asked,
\* unless the table was full; every other one is as it was.
THEOREM SetEffect ==
  ASSUME NEW c, Whole(c), NEW a \in Alarms, NEW t \in Clock
  PROVE  LET d == alarm_set(c, a, t) IN
         /\ OthersKept(c, d, a)
         /\ IsPending(d, a) => DueClk(d, a) = t
         /\ IsPending(c, a) \/ c.num < ALARM_CONTEXT_MAX_PENDING_ALARMS => IsPending(d, a)
<1> DEFINE d == alarm_set(c, a, t)
           n == c.num
           k == c.pending_idx[a]
<1>0. IsContext(c) /\ SlotsMatch(c)
  BY DEF Whole
<1>1. CASE ~ IsPending(c, a) /\ n >= ALARM_CONTEXT_MAX_PENDING_ALARMS
  <2>1. d = c
    BY <1>1 DEF alarm_set, AddPending
  <2> QED
    BY <1>0, <1>1, <2>1, ContextFacts, CapacityAssumption DEF OthersKept
<1>2. CASE ~ IsPending(c, a) /\ ~ (n >= ALARM_CONTEXT_MAX_PENDING_ALARMS)
  <2>1. /\ d.clk = [i \in 0 .. n |-> IF i = n THEN t ELSE c.clk[i]]
        /\ d.pending_idx = [c.pending_idx EXCEPT ![a] = n]
    BY <1>2 DEF alarm_set, AddPending
  <2> HIDE DEF d
  <2>2. d.pending_idx[a] = n /\ \A b \in Alarms \ {a} : d.pending_idx[b] = c.pending_idx[b]
    BY <1>0, <2>1, ContextFacts
  <2>3. n \in Nat /\ n # -1 /\ d.clk[n] = t
    BY <1>0, <2>1, ContextFacts
  <2>4. \A i \in Slots(c) : d.clk[i] = c.clk[i]
    BY <1>0, <2>1, <2>3, ContextFacts
  <2>5. \A b \in Alarms : IsPending(c, b) => c.pending_idx[b] \in Slots(c)
    BY <1>0 DEF SlotsMatch
  <2>6. \A b \in Alarms \ {a} : IsPending(d, b) <=> IsPending(c, b)
    BY <2>2 DEF IsPending
  <2>7. \A b \in Alarms \ {a} : IsPending(c, b) => DueClk(d, b) = DueClk(c, b)
    BY <2>2, <2>4, <2>5 DEF DueClk
  <2>8. IsPending(d, a) /\ DueClk(d, a) = t
    BY <2>2, <2>3 DEF DueClk, IsPending
  <2> QED
    BY <2>6, <2>7, <2>8 DEF d, OthersKept
<1>3. CASE IsPending(c, a)
  <2> DEFINE m == [c EXCEPT !.clk[k] = t]
  <2>0. k \in Slots(c) /\ c.alarm[k] = a
    BY <1>0, <1>3 DEF SlotsMatch
  <2>1. /\ DOMAIN m = {"num", "alarm", "clk", "pending_idx", "next_clk", "next_idx"}
        /\ m.num = c.num /\ m.alarm = c.alarm /\ m.pending_idx = c.pending_idx
        /\ m.next_clk = c.next_clk /\ m.next_idx = c.next_idx
        /\ m.clk = [c.clk EXCEPT ![k] = t]
    BY <1>0 DEF IsContext
  <2>2. d = m \/ d = alarm_context_update_next_pending(m)
    BY <1>3 DEF alarm_set, ModifyPending
  <2> HIDE DEF d, m
  <2>3. Slots(m) = Slots(c)
    BY <2>1 DEF Slots
  <2>4. IsContext(m)
    BY <1>0, <2>0, <2>1, <2>3 DEF IsContext
  <2>5. d.clk = [c.clk EXCEPT ![k] = t] /\ d.pending_idx = c.pending_idx
    BY <2>1, <2>2, <2>4, UpdateEffect
  <2>6. d.clk[k] = t /\ \A i \in Slots(c) : i # k => d.clk[i] = c.clk[i]
    BY <1>0, <2>0, <2>5, ContextFacts
  <2>7. \A b \in Alarms \ {a} : IsPending(c, b) => c.pending_idx[b] \in Slots(c) /\ c.pending_idx[b] # k
    BY <1>0, <2>0 DEF SlotsMatch
  <2>8. \A b \in Alarms : IsPending(d, b) <=> IsPending(c, b)
    BY <2>5 DEF IsPending
  <2>9. \A b \in Alarms \ {a} : IsPending(c, b) => DueClk(d, b) = DueClk(c, b)
    BY <2>5, <2>6, <2>7 DEF DueClk
  <2>10. DueClk(d, a) = t
    BY <2>5, <2>6 DEF DueClk
  <2> QED
    BY <1>3, <2>8, <2>9, <2>10 DEF d, OthersKept
<1> QED
  BY <1>1, <1>2, <1>3

\* What disarming does to the alarms: the one named is no longer pending, every
\* other one is as it was, also the one whose slot moved.
THEOREM UnsetEffect ==
  ASSUME NEW c, Whole(c), NEW a \in Alarms
  PROVE  LET d == alarm_unset(c, a) IN
         /\ OthersKept(c, d, a)
         /\ ~ IsPending(d, a)
         /\ d.num = IF IsPending(c, a) THEN c.num - 1 ELSE c.num
<1> DEFINE d == alarm_unset(c, a)
           k == c.pending_idx[a]
           last == c.num - 1
           z == c.alarm[last]
<1>0. IsContext(c) /\ SlotsMatch(c)
  BY DEF Whole
<1>1. CASE ~ IsPending(c, a)
  BY <1>1 DEF alarm_unset, OthersKept
<1>2. CASE IsPending(c, a) /\ ~ (c.num > 1)
  <2>1. d.num = 0 /\ d.pending_idx = [c.pending_idx EXCEPT ![a] = -1]
    BY <1>2 DEF alarm_unset, RemoveOnly
  <2> HIDE DEF d
  <2>2. k \in Slots(c) /\ c.alarm[k] = a
    BY <1>0, <1>2 DEF SlotsMatch
  <2>3. c.num = 1 /\ \A i \in Slots(c) : i = 0
    BY <1>0, <1>2, <2>2, ContextFacts
  <2>4. \A b \in Alarms : IsPending(c, b) => b = a
    BY <1>0, <2>2, <2>3 DEF SlotsMatch
  <2>5. d.pending_idx[a] = -1 /\ \A b \in Alarms \ {a} : d.pending_idx[b] = c.pending_idx[b]
    BY <1>0, <2>1, ContextFacts
  <2>6. ~ IsPending(d, a) /\ \A b \in Alarms \ {a} : ~ IsPending(d, b) /\ ~ IsPending(c, b)
    BY <2>4, <2>5 DEF IsPending
  <2> QED
    BY <1>2, <2>1, <2>3, <2>6 DEF d, OthersKept
<1>3. CASE IsPending(c, a) /\ c.num > 1
  <2> DEFINE moved == IF last # k THEN [c.pending_idx EXCEPT ![c.alarm[last]] = k]
                      ELSE c.pending_idx
             m == [ num         |-> last,
                    alarm       |-> [i \in 0 .. last - 1 |-> IF i = k THEN c.alarm[last] ELSE c.alarm[i]],
                    clk         |-> [i \in 0 .. last - 1 |-> IF i = k THEN c.clk[last] ELSE c.clk[i]],
                    pending_idx |-> [moved EXCEPT ![a] = -1],
                    next_clk    |-> c.next_clk,
                    next_idx    |-> c.next_idx ]
  <2>1. /\ m.num = last
        /\ m.clk = [i \in 0 .. last - 1 |-> IF i = k THEN c.clk[last] ELSE c.clk[i]]
        /\ m.pending_idx = [moved EXCEPT ![a] = -1]
    OBVIOUS
  <2>2. d.num = m.num /\ d.clk = m.clk /\ d.pending_idx = m.pending_idx
    <3>1. CASE c.next_idx = k
      <4>1. d = alarm_context_update_next_pending(m)
        BY <1>3, <3>1 DEF alarm_unset, RemovePending
      <4>2. \/ alarm_context_update_next_pending(m) = [m EXCEPT !.next_clk = CLOCK_MAX]
            \/ alarm_context_update_next_pending(m)
                 = [m EXCEPT !.next_clk = m.clk[EarliestSlot(m)], !.next_idx = EarliestSlot(m)]
        BY DEF alarm_context_update_next_pending
      <4> HIDE DEF d
      <4> QED
        BY <4>1, <4>2, ZenonT(60)
    <3>2. CASE c.next_idx # k /\ c.next_idx = last
      <4>1. d = [m EXCEPT !.next_idx = k]
        BY <1>3, <3>2 DEF alarm_unset, RemovePending
      <4> HIDE DEF d
      <4> QED
        BY <4>1
    <3>3. CASE c.next_idx # k /\ c.next_idx # last
      <4>1. d = m
        BY <1>3, <3>3 DEF alarm_unset, RemovePending
      <4> QED
        BY <4>1
    <3> QED
      BY <3>1, <3>2, <3>3
  <2> HIDE DEF d, m
  <2>3. k \in Slots(c) /\ c.alarm[k] = a
    BY <1>0, <1>3 DEF SlotsMatch
  <2>4. last \in Nat /\ last \in Slots(c) /\ k \in Nat /\ k <= last
    BY <1>0, <1>3, <2>3, ContextFacts
  <2>5. z \in Alarms /\ c.pending_idx[z] = last /\ (last # k => z # a)
    BY <1>0, <2>3, <2>4, ContextFacts DEF SlotsMatch
  <2>6. \A b \in Alarms : d.pending_idx[b] = IF b = a THEN -1
                                            ELSE IF b = z THEN k
                                            ELSE c.pending_idx[b]
    BY <1>0, <2>1, <2>2, <2>3, <2>5, ContextFacts
  <2>7. ~ IsPending(d, a) /\ \A b \in Alarms \ {a} : IsPending(d, b) <=> IsPending(c, b)
    BY <2>4, <2>5, <2>6 DEF IsPending
  <2>8. ASSUME NEW b \in Alarms \ {a}, IsPending(c, b)
        PROVE  DueClk(d, b) = DueClk(c, b)
    <3>1. c.pending_idx[b] \in Slots(c) /\ c.alarm[c.pending_idx[b]] = b
      BY <1>0, <2>8 DEF SlotsMatch
    <3>2. c.pending_idx[b] # k
      BY <2>3, <3>1
    <3>3. CASE b = z
      <4>1. k \in 0 .. last - 1 /\ d.pending_idx[b] = k
        BY <2>4, <2>5, <2>6, <3>2, <3>3
      <4>2. d.clk[k] = c.clk[last]
        BY <2>1, <2>2, <4>1
      <4> QED
        BY <2>5, <3>3, <4>1, <4>2 DEF DueClk
    <3>4. CASE b # z
      <4>1. c.pending_idx[b] # last /\ d.pending_idx[b] = c.pending_idx[b]
        BY <2>6, <3>1, <3>4
      <4>2. c.pending_idx[b] \in 0 .. last - 1
        BY <1>0, <2>4, <3>1, <4>1, ContextFacts
      <4> QED
        BY <2>1, <2>2, <3>2, <4>1, <4>2 DEF DueClk
    <3> QED
      BY <3>3, <3>4
  <2> QED
    BY <1>3, <2>1, <2>2, <2>7, <2>8 DEF d, OthersKept
<1> QED
  BY <1>1, <1>2, <1>3

\* A table with a slot for every alarm has room for one that is not in it.
LEMMA RoomForOneMore ==
  ASSUME NEW c, Whole(c), NEW a \in Alarms, ~ IsPending(c, a),
         IsFiniteSet(Alarms), Cardinality(Alarms) <= ALARM_CONTEXT_MAX_PENDING_ALARMS
  PROVE  c.num < ALARM_CONTEXT_MAX_PENDING_ALARMS
<1>0. IsContext(c) /\ SlotsMatch(c)
  BY DEF Whole
<1>1. \A i \in Slots(c) : c.alarm[i] \in Alarms \ {a}
  BY <1>0, ContextFacts DEF SlotsMatch, IsPending
<1>2. c.alarm \in Injection(Slots(c), Alarms \ {a})
  <2>1. c.alarm \in [Slots(c) -> Alarms \ {a}]
    BY <1>0, <1>1, ContextFacts
  <2>2. \A i, j \in Slots(c) : c.alarm[i] = c.alarm[j] => i = j
    BY <1>0 DEF SlotsMatch
  <2> QED
    BY <2>1, <2>2 DEF Injection, IsInjective
<1>3. /\ IsFiniteSet(Alarms \ {a})
      /\ Cardinality(Alarms \ {a}) = Cardinality(Alarms) - 1
      /\ Cardinality(Alarms) \in Nat
  BY FS_RemoveElement, FS_CardinalityType
<1>4. Cardinality(Slots(c)) <= Cardinality(Alarms \ {a})
  BY <1>2, <1>3, FS_Injection
<1>5. Cardinality(Slots(c)) = c.num
  <2>1. c.num \in Nat
    BY <1>0, ContextFacts
  <2> DEFINE first == 0
             last == c.num - 1
  <2>2. first \in Int /\ last \in Int
    BY <2>1
  <2> HIDE DEF first, last
  <2>3. Cardinality(first .. last) = IF first > last THEN 0 ELSE last - first + 1
    BY ONLY <2>2, FS_Interval
  <2>4. Cardinality(first .. last) = c.num
    BY ONLY <2>1, <2>3 DEF first, last
  <2> QED
    BY <2>4 DEF Slots, first, last
<1> QED
  BY <1>3, <1>4, <1>5, CapacityAssumption, ContextFacts, <1>0

\* How much is subtracted: at least two of the three SUB_MIN less.
LEMMA SubBounds ==
  /\ clk_guard_clock_sub \in Nat
  /\ clk_guard_clock_sub <= ClkMaxValue - CLKGUARD_SUB_MIN
  /\ clk_guard_clock_sub >= ClkMaxValue - 2 * CLKGUARD_SUB_MIN
<1> DEFINE s == ClkMaxValue - CLKGUARD_SUB_MIN
<1>1. s \in Nat /\ CLKGUARD_SUB_MIN \in Nat /\ ClkMaxValue \in Nat
  BY GuardAssumption
<1>2. CASE ClkBase = 0
  BY <1>1, <1>2 DEF clk_guard_clock_sub
<1>3. CASE ClkBase # 0
  <2>1. ClkBase \in Nat \ {0} /\ ClkBase <= CLKGUARD_SUB_MIN
    BY <1>1, <1>3, GuardAssumption
  <2>2. clk_guard_clock_sub = (s \div ClkBase) * ClkBase
    BY <1>3 DEF clk_guard_clock_sub
  <2>3. /\ s = (s \div ClkBase) * ClkBase + (s % ClkBase)
        /\ s % ClkBase \in Nat /\ s % ClkBase < ClkBase /\ s \div ClkBase \in Nat
    BY <1>1, <2>1
  <2>4. (s \div ClkBase) * ClkBase \in Nat
    BY <2>1, <2>3
  <2> QED
    BY <1>1, <2>1, <2>2, <2>3, <2>4
<1> QED
  BY <1>2, <1>3
=============================================================================
