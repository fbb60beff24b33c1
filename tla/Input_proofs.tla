---------------------------- MODULE Input_proofs ----------------------------
(***************************************************************************)
(* Proofs about the key buffer and autostart: for every size of the two    *)
(* buffers and every pair of commands, what is fed arrives (TypedWhole)    *)
(* and autostart leaves nothing behind (SettingsGivenBack).                *)
(***************************************************************************)
EXTENDS Autostart, Integers, SequenceTheorems, TLAPS

-----------------------------------------------------------------------------
(* The ring. *)

Queues == [ queue : [0 .. QUEUE_SIZE - 1 -> Chars], head_idx : 0 .. QUEUE_SIZE - 1,
            num_pending : 0 .. QUEUE_SIZE, buffer : {b \in Seq(Chars) : Len(b) <= buffer_size} ]

\* All that a queue holds, oldest first.
Held(k) == k.buffer \o Pending(k)

Slot(n) == n % QUEUE_SIZE

\* An index one round too far is set back by one round.
LEMMA SlotIs ==
  \A n \in 0 .. 2 * QUEUE_SIZE - 1 :
    Slot(n) = IF n < QUEUE_SIZE THEN n ELSE n - QUEUE_SIZE
<1> DEFINE m == QUEUE_SIZE
<1>1. m \in Nat \ {0}
  BY KbdBufAssumption
<1> HIDE DEF m
<1>2. ASSUME NEW n \in 0 .. 2 * m - 1
      PROVE  n % m = IF n < m THEN n ELSE n - m
  <2> DEFINE q == n \div m  r == n % m
  <2>1. q \in Int /\ r \in Int /\ 0 <= r /\ r < m /\ n = m * q + r
    BY <1>1
  <2> HIDE DEF q, r
  <2>2. q <= -1 => m * q <= -m
    BY <1>1, <2>1
  <2>3. q >= 2 => m * q >= 2 * m
    BY <1>1, <2>1
  <2>4. q = 0 \/ q = 1
    BY <1>1, <2>1, <2>2, <2>3
  <2>5. m * q = IF q = 0 THEN 0 ELSE m
    BY <1>1, <2>4
  <2>6. r = IF n < m THEN n ELSE n - m
    BY <1>1, <2>1, <2>4, <2>5
  <2> QED
    BY <2>6 DEF r
<1> QED
  BY <1>2 DEF Slot, m

\* The pending characters of a ring.
LEMMA PendingIs ==
  ASSUME NEW k \in Queues
  PROVE  /\ Pending(k) \in Seq(Chars) /\ Len(Pending(k)) = k.num_pending
         /\ \A i \in 1 .. k.num_pending : Pending(k)[i] = k.queue[Slot(k.head_idx + i - 1)]
<1>1. /\ k.queue \in [0 .. QUEUE_SIZE - 1 -> Chars] /\ k.head_idx \in 0 .. QUEUE_SIZE - 1
      /\ k.num_pending \in 0 .. QUEUE_SIZE
  BY DEF Queues
<1>2. \A i \in 1 .. k.num_pending : Slot(k.head_idx + i - 1) \in 0 .. QUEUE_SIZE - 1
  <2> SUFFICES ASSUME NEW i \in 1 .. k.num_pending
               PROVE  Slot(k.head_idx + i - 1) \in 0 .. QUEUE_SIZE - 1
    OBVIOUS
  <2>1. k.head_idx + i - 1 \in 0 .. 2 * QUEUE_SIZE - 1
    BY <1>1, KbdBufAssumption
  <2> QED
    BY <1>1, <2>1, SlotIs, KbdBufAssumption
<1>3. Pending(k) = [i \in 1 .. k.num_pending |-> k.queue[Slot(k.head_idx + i - 1)]]
  BY DEF Pending, Slot
<1>4. \A i \in 1 .. k.num_pending : k.queue[Slot(k.head_idx + i - 1)] \in Chars
  BY <1>1, <1>2
<1> DEFINE p == [i \in 1 .. k.num_pending |-> k.queue[Slot(k.head_idx + i - 1)]]
<1>5. p \in [1 .. k.num_pending -> Chars] /\ k.num_pending \in Nat
  BY <1>1, <1>4, KbdBufAssumption
<1>6. p \in Seq(Chars)
  <2> HIDE DEF p
  <2> QED
    BY <1>5, SeqDef
<1>7. DOMAIN p = 1 .. k.num_pending /\ \A i \in 1 .. k.num_pending : p[i] = k.queue[Slot(k.head_idx + i - 1)]
  OBVIOUS
<1> HIDE DEF p
<1>8. Len(p) = k.num_pending
  BY <1>5, <1>6, <1>7, LenProperties
<1> QED
  BY <1>3, <1>6, <1>7, <1>8 DEF p

\* Handing a chunk to the Kernal changes nothing about what the queue holds; the buffer is
\* written only when it is empty.
LEMMA FlushKeeps ==
  ASSUME NEW k \in Queues, NEW initialised \in BOOLEAN
  PROVE  LET e == kbdbuf_flush(k, initialised) IN
         /\ e \in Queues /\ Held(e) = Held(k)
         /\ e.num_pending <= k.num_pending
         /\ k.buffer # <<>> \/ ~initialised => e.buffer = k.buffer
         /\ initialised => e.buffer # <<>> \/ e.num_pending = 0
<1> DEFINE n == IF k.num_pending > buffer_size THEN buffer_size ELSE k.num_pending
           e == [k EXCEPT !.head_idx = (@ + n) % QUEUE_SIZE, !.num_pending = @ - n,
                          !.buffer = SubSeq(Pending(k), 1, n)]
<1>1. /\ k.queue \in [0 .. QUEUE_SIZE - 1 -> Chars] /\ k.head_idx \in 0 .. QUEUE_SIZE - 1
      /\ k.num_pending \in 0 .. QUEUE_SIZE /\ k.buffer \in Seq(Chars) /\ Len(k.buffer) <= buffer_size
  BY DEF Queues
<1>2. QUEUE_SIZE \in Nat \ {0} /\ buffer_size \in Nat \ {0}
  BY KbdBufAssumption
<1>3. CASE k.num_pending = 0 \/ ~initialised \/ k.buffer # <<>>
  BY <1>1, <1>3 DEF kbdbuf_flush, kbdbuf_is_empty
<1>4. CASE ~(k.num_pending = 0 \/ ~initialised \/ k.buffer # <<>>)
  <2>1. kbdbuf_flush(k, initialised) = e
    BY <1>4 DEF kbdbuf_flush, kbdbuf_is_empty
  <2>2. n \in 1 .. k.num_pending /\ n <= buffer_size
    BY <1>1, <1>2, <1>4
  <2> DEFINE h == Slot(k.head_idx + n)
  <2> DEFINE c == SubSeq(Pending(k), 1, n)
  <2>a. e = [k EXCEPT !.head_idx = h, !.num_pending = k.num_pending - n, !.buffer = c]
    BY DEF Slot
  <2> HIDE DEF c, n, h, e
  <2>3. /\ e.queue = k.queue /\ e.head_idx = h /\ e.num_pending = k.num_pending - n
        /\ e.buffer = c
        /\ e = [ queue |-> k.queue, head_idx |-> h, num_pending |-> k.num_pending - n,
                 buffer |-> c ]
    BY <2>a DEF Queues
  <2>4. k.head_idx + n \in 0 .. 2 * QUEUE_SIZE - 1
    BY <1>1, <1>2, <2>2
  <2>5. h = (IF k.head_idx + n < QUEUE_SIZE THEN k.head_idx + n ELSE k.head_idx + n - QUEUE_SIZE)
        /\ h \in 0 .. QUEUE_SIZE - 1
    BY <1>1, <1>2, <2>2, <2>4, SlotIs, SMTT(30) DEF h
  <2>6. /\ Pending(k) \in Seq(Chars) /\ Len(Pending(k)) = k.num_pending
        /\ \A i \in 1 .. k.num_pending : Pending(k)[i] = k.queue[Slot(k.head_idx + i - 1)]
    BY PendingIs
  <2>7. c \in Seq(Chars) /\ Len(c) = n /\ \A i \in 1 .. n : c[i] = Pending(k)[i]
    BY <1>1, <2>2, <2>6 DEF c
  <2>8. e \in Queues
    BY <1>1, <1>2, <2>2, <2>3, <2>5, <2>7 DEF Queues
  <2> DEFINE np == k.num_pending  hd == k.head_idx
  <2>n. /\ np \in Int /\ hd \in Int /\ n \in Int /\ QUEUE_SIZE \in Int /\ h \in Int
        /\ 0 <= hd /\ hd < QUEUE_SIZE /\ np <= QUEUE_SIZE /\ 1 <= n /\ n <= np
        /\ 0 <= h /\ h < QUEUE_SIZE /\ (h = hd + n \/ h = hd + n - QUEUE_SIZE)
    BY <1>1, <1>2, <2>2, <2>5
  <2> HIDE DEF np, hd
  <2>9. /\ Pending(e) \in Seq(Chars) /\ Len(Pending(e)) = k.num_pending - n
        /\ \A i \in 1 .. k.num_pending - n : Pending(e)[i] = k.queue[Slot(h + i - 1)]
    BY <2>3, <2>8, PendingIs
  <2>10. \A i \in 1 .. np - n : Pending(e)[i] = Pending(k)[n + i]
    <3> SUFFICES ASSUME NEW i \in 1 .. np - n PROVE Pending(e)[i] = Pending(k)[n + i]
      OBVIOUS
    <3>1. i \in Int /\ 1 <= i /\ i <= np - n /\ n + i \in 1 .. np
      BY <2>n
    <3>2. h + i - 1 \in 0 .. 2 * QUEUE_SIZE - 1 /\ hd + (n + i) - 1 \in 0 .. 2 * QUEUE_SIZE - 1
      BY <2>n, <3>1
    <3> DEFINE x == h + i - 1  y == hd + (n + i) - 1
    <3>3. x \in 0 .. 2 * QUEUE_SIZE - 1 /\ y \in 0 .. 2 * QUEUE_SIZE - 1
      BY <3>2
    <3>5. x \in Int /\ y \in Int /\ (y = x \/ y = x + QUEUE_SIZE)
      BY <2>n, <3>1
    <3> HIDE DEF x, y
    <3>6. Slot(x) = (IF x < QUEUE_SIZE THEN x ELSE x - QUEUE_SIZE)
      BY <3>3, SlotIs
    <3>7. Slot(y) = (IF y < QUEUE_SIZE THEN y ELSE y - QUEUE_SIZE)
      BY <3>3, SlotIs
    <3>9. 0 <= x /\ y < 2 * QUEUE_SIZE
      BY <2>n, <3>3, <3>5
    <3>8. Slot(x) = Slot(y)
      BY <2>n, <3>5, <3>6, <3>7, <3>9
    <3>4. Slot(h + i - 1) = Slot(hd + (n + i) - 1)
      BY <3>8 DEF x, y
    <3> QED
      BY <2>6, <2>9, <3>1, <3>4 DEF np, hd
  <2>11. Held(e) = Held(k)
    <3>1. Held(k) = Pending(k)
      BY <1>4, <2>6 DEF Held
    <3> DEFINE s == Pending(k)  p == Pending(e)  r == SubSeq(s, n + 1, np)
    <3>2. /\ p \in Seq(Chars) /\ Len(p) = np - n /\ s \in Seq(Chars) /\ Len(s) = np
          /\ \A i \in 1 .. np - n : p[i] = s[n + i]
      BY <2>6, <2>9, <2>10 DEF np
    <3> HIDE DEF s, p
    <3>3. r \in Seq(Chars) /\ Len(r) = np - n /\ \A i \in 1 .. np - n : r[i] = s[n + i]
      BY <2>n, <3>2
    <3> HIDE DEF r
    <3>4. p = r
      BY <3>2, <3>3, SeqEqual
    <3>5. SubSeq(s, 1, n) \o SubSeq(s, n + 1, np) = SubSeq(s, 1, np)
      <4>1. 1 \in 1 .. Len(s) + 1 /\ n \in 1 - 1 .. Len(s) /\ np \in n .. Len(s)
        BY <2>n, <3>2
      <4> QED
        BY <3>2, <4>1, ConcatAdjacentSubSeq
    <3>6. SubSeq(s, 1, np) = s
      BY <3>2, SubSeqFull
    <3>7. c \o p = s
      BY <3>4, <3>5, <3>6 DEF r, c, s
    <3> QED
      BY <2>3, <3>1, <3>7 DEF Held, s, p
  <2>12. e.buffer # <<>>
    BY <2>2, <2>3, <2>7
  <2> QED
    BY <2>n, <1>1, <1>4, <2>1, <2>2, <2>3, <2>8, <2>11, <2>12
<1> QED
  BY <1>3, <1>4

\* How far the slot of the j-th character is from that of the first free one.
LEMMA SlotDistance ==
  ASSUME NEW h \in 0 .. QUEUE_SIZE - 1, NEW a \in 0 .. QUEUE_SIZE, NEW j \in 1 .. QUEUE_SIZE
  PROVE  /\ Slot(h + j - 1) \in 0 .. QUEUE_SIZE - 1 /\ Slot(h + a) \in 0 .. QUEUE_SIZE - 1
         /\ Slot(Slot(h + j - 1) + QUEUE_SIZE - Slot(h + a))
              = IF j > a THEN j - 1 - a ELSE QUEUE_SIZE + j - 1 - a
<1> DEFINE x == h + j - 1  y == h + a
<1>1. QUEUE_SIZE \in Int /\ h \in Int /\ a \in Int /\ j \in Int /\ 1 <= QUEUE_SIZE
      /\ 0 <= h /\ h < QUEUE_SIZE /\ 0 <= a /\ a <= QUEUE_SIZE /\ 1 <= j /\ j <= QUEUE_SIZE
  BY KbdBufAssumption
<1>2. x \in 0 .. 2 * QUEUE_SIZE - 1 /\ y \in 0 .. 2 * QUEUE_SIZE - 1 /\ x \in Int /\ y \in Int
  BY <1>1
<1>3. y = x + 1 + a - j
  BY <1>1
<1> HIDE DEF x, y
<1> DEFINE u == Slot(x)  v == Slot(y)
<1>4. u = (IF x < QUEUE_SIZE THEN x ELSE x - QUEUE_SIZE)
  BY <1>2, SlotIs
<1>5. v = (IF y < QUEUE_SIZE THEN y ELSE y - QUEUE_SIZE)
  BY <1>2, SlotIs
<1> HIDE DEF u, v
<1>6. u \in Int /\ v \in Int /\ 0 <= u /\ u < QUEUE_SIZE /\ 0 <= v /\ v < QUEUE_SIZE
  BY <1>1, <1>2, <1>4, <1>5
<1> DEFINE w == u + QUEUE_SIZE - v
<1>7. w \in 0 .. 2 * QUEUE_SIZE - 1 /\ w \in Int
  BY <1>1, <1>6
<1>8. w = u + QUEUE_SIZE - v
  OBVIOUS
<1> HIDE DEF w
<1>9. Slot(w) = (IF w < QUEUE_SIZE THEN w ELSE w - QUEUE_SIZE)
  BY <1>7, SlotIs
<1>10. Slot(w) = IF j > a THEN j - 1 - a ELSE QUEUE_SIZE + j - 1 - a
  <2>1. CASE x < QUEUE_SIZE /\ y < QUEUE_SIZE
    BY <1>1, <1>2, <1>3, <1>4, <1>5, <1>6, <1>7, <1>8, <1>9, <2>1
  <2>2. CASE x >= QUEUE_SIZE /\ y < QUEUE_SIZE
    BY <1>1, <1>2, <1>3, <1>4, <1>5, <1>6, <1>7, <1>8, <1>9, <2>2
  <2>3. CASE x < QUEUE_SIZE /\ y >= QUEUE_SIZE
    BY <1>1, <1>2, <1>3, <1>4, <1>5, <1>6, <1>7, <1>8, <1>9, <2>3
  <2>4. CASE x >= QUEUE_SIZE /\ y >= QUEUE_SIZE
    BY <1>1, <1>2, <1>3, <1>4, <1>5, <1>6, <1>7, <1>8, <1>9, <2>4
  <2> QED
    BY <1>1, <1>2, <2>1, <2>2, <2>3, <2>4
<1> QED
  BY <1>1, <1>6, <1>10, <1>8 DEF u, v, x, y

\* The queue with a string put behind what it holds, not handed on yet.
Put(k, string) ==
  LET p == (k.head_idx + k.num_pending) % QUEUE_SIZE
      at(i) == ((i + QUEUE_SIZE - p) % QUEUE_SIZE) + 1
  IN  [k EXCEPT
        !.queue = [i \in DOMAIN @ |-> IF at(i) <= Len(string) THEN string[at(i)] ELSE @[i]],
        !.num_pending = @ + Len(string)]

\* A string that fits follows what the queue holds; the Kernal's buffer is not touched.
LEMMA PutAdds ==
  ASSUME NEW k \in Queues, NEW string \in Seq(Chars), CanFeed(k, string)
  PROVE  LET g == Put(k, string) IN
         g \in Queues /\ Held(g) = Held(k) \o string /\ g.buffer = k.buffer
<1> DEFINE L == Len(string)  h == k.head_idx  np == k.num_pending  Q == QUEUE_SIZE
           at(i) == Slot(i + Q - Slot(h + np)) + 1
           q == [i \in 0 .. Q - 1 |-> IF at(i) <= L THEN string[at(i)] ELSE k.queue[i]]
           g == Put(k, string)
<1>1. /\ k.queue \in [0 .. Q - 1 -> Chars] /\ h \in 0 .. Q - 1
      /\ np \in 0 .. Q /\ k.buffer \in Seq(Chars) /\ Len(k.buffer) <= buffer_size
  BY DEF Queues
<1>2. /\ Q \in Int /\ Q >= 1 /\ L \in Int /\ L >= 0 /\ np \in Int /\ np >= 0 /\ h \in Int /\ h >= 0 /\ h < Q
      /\ np + L <= Q
  BY <1>1, KbdBufAssumption DEF CanFeed
<1>3. g = [k EXCEPT !.queue = q, !.num_pending = np + L]
  BY <1>1 DEF Put, Slot
<1>4. \A i \in 1 .. L : string[i] \in Chars
  BY ElementOfSeq
<1>5. \A i \in 0 .. Q - 1 : at(i) \in Int /\ at(i) >= 1
  <2> SUFFICES ASSUME NEW i \in 0 .. Q - 1 PROVE at(i) \in Int /\ at(i) >= 1
    OBVIOUS
  <2> DEFINE v == Slot(h + np)
  <2>1. h + np \in 0 .. 2 * Q - 1
    BY <1>1, <1>2
  <2>2. v \in Int /\ 0 <= v /\ v < Q
    BY <1>2, <2>1, SlotIs
  <2> HIDE DEF v
  <2> DEFINE w == i + Q - v
  <2>3. w \in 0 .. 2 * Q - 1 /\ w \in Int
    BY <1>2, <2>2
  <2> HIDE DEF w
  <2>4. Slot(w) \in Int /\ Slot(w) >= 0
    BY <1>2, <2>3, SlotIs
  <2> QED
    BY <2>4 DEF w, v
<1>6. q \in [0 .. Q - 1 -> Chars]
  <2> SUFFICES ASSUME NEW i \in 0 .. Q - 1
               PROVE  (IF at(i) <= L THEN string[at(i)] ELSE k.queue[i]) \in Chars
    OBVIOUS
  <2>1. at(i) \in Int /\ at(i) >= 1
    BY <1>5
  <2>2. k.queue[i] \in Chars
    BY <1>1
  <2> HIDE DEF at
  <2> QED
    BY <1>2, <1>4, <2>1, <2>2
<1>7. \A i \in 0 .. Q - 1 : q[i] = IF at(i) <= L THEN string[at(i)] ELSE k.queue[i]
  OBVIOUS
<1> HIDE DEF q, g
<1>8. g \in Queues /\ g.queue = q /\ g.num_pending = np + L /\ g.head_idx = h /\ g.buffer = k.buffer
  <2>1. g = [queue |-> q, head_idx |-> h, num_pending |-> np + L, buffer |-> k.buffer]
    BY <1>3 DEF Queues
  <2>2. np + L \in 0 .. Q
    BY <1>2
  <2> HIDE DEF np, L, h, Q
  <2> QED
    BY <1>1, <1>6, <2>1, <2>2 DEF Queues, Q
<1> HIDE DEF L, h, np, at
<1>9. /\ Pending(g) \in Seq(Chars) /\ Len(Pending(g)) = np + L
      /\ \A j \in 1 .. np + L : Pending(g)[j] = q[Slot(h + j - 1)]
  BY <1>8, PendingIs
<1>10. /\ Pending(k) \in Seq(Chars) /\ Len(Pending(k)) = np
       /\ \A j \in 1 .. np : Pending(k)[j] = k.queue[Slot(h + j - 1)]
  BY PendingIs DEF np, h
<1>11. \A j \in 1 .. np + L : Pending(g)[j] = IF j <= np THEN Pending(k)[j] ELSE string[j - np]
  <2> SUFFICES ASSUME NEW j \in 1 .. np + L
               PROVE  Pending(g)[j] = IF j <= np THEN Pending(k)[j] ELSE string[j - np]
    OBVIOUS
  <2>1. j \in 1 .. Q /\ j \in Int /\ np \in 0 .. Q /\ h \in 0 .. Q - 1
    BY <1>2
  <2> DEFINE i == Slot(h + j - 1)
  <2>2. i \in 0 .. Q - 1 /\ at(i) = (IF j > np THEN j - 1 - np ELSE Q + j - 1 - np) + 1
    BY <2>1, SlotDistance DEF at
  <2> HIDE DEF i
  <2>3. Pending(g)[j] = IF at(i) <= L THEN string[at(i)] ELSE k.queue[i]
    BY <1>7, <1>9, <2>2 DEF i
  <2>4. CASE j <= np
    <3>1. at(i) > L /\ at(i) \in Int
      BY <1>2, <2>1, <2>2, <2>4
    <3>2. Pending(g)[j] = k.queue[i]
      BY <1>2, <2>3, <3>1
    <3>3. j \in 1 .. np
      BY <1>2, <2>1, <2>4
    <3> QED
      BY <1>10, <2>4, <3>2, <3>3 DEF i
  <2>5. CASE j > np
    <3>1. at(i) = j - np /\ at(i) <= L
      BY <1>2, <2>1, <2>2, <2>5
    <3>2. Pending(g)[j] = string[j - np]
      BY <2>3, <3>1
    <3>3. ~ (j <= np)
      BY <1>2, <2>1, <2>5
    <3> QED
      BY <3>2, <3>3
  <2> QED
    BY <1>2, <2>1, <2>4, <2>5
<1>12. Pending(g) = Pending(k) \o string
  <2> DEFINE s == Pending(g)  t == Pending(k) \o string
  <2>1. Len(string) = L
    BY DEF L
  <2>2. /\ t \in Seq(Chars) /\ Len(t) = np + L
        /\ \A j \in 1 .. np + L : t[j] = IF j <= np THEN Pending(k)[j] ELSE string[j - np]
    <3>1. /\ t \in Seq(Chars) /\ Len(t) = Len(Pending(k)) + Len(string)
          /\ \A j \in 1 .. Len(Pending(k)) + Len(string) :
               t[j] = IF j <= Len(Pending(k)) THEN Pending(k)[j] ELSE string[j - Len(Pending(k))]
      BY <1>10, ConcatProperties
    <3> HIDE DEF t
    <3> QED
      BY <1>10, <2>1, <3>1
  <2> HIDE DEF s, t
  <2>3. s \in Seq(Chars) /\ Len(s) = np + L
    BY <1>9 DEF s
  <2>4. \A j \in 1 .. np + L : s[j] = t[j]
    BY <1>11, <2>2 DEF s
  <2>5. s = t
    BY <2>2, <2>3, <2>4, SeqEqual
  <2> QED
    BY <2>5 DEF s, t
<1>13. Held(g) = Held(k) \o string
  <2>1. k.buffer \in Seq(Chars) /\ Pending(k) \in Seq(Chars) /\ string \in Seq(Chars)
    BY <1>1, <1>10
  <2>2. (k.buffer \o Pending(k)) \o string = k.buffer \o (Pending(k) \o string)
    <3> DEFINE a == k.buffer  b == Pending(k)
    <3>1. a \in Seq(Chars) /\ b \in Seq(Chars) /\ string \in Seq(Chars)
      BY <2>1
    <3> HIDE DEF a, b
    <3>2. (a \o b) \o string = a \o (b \o string)
      BY ONLY <3>1, ConcatAssociative
    <3> QED
      BY <3>2 DEF a, b
  <2> QED
    BY <1>8, <1>12, <2>2 DEF Held
<1> QED
  BY <1>8, <1>13 DEF g

\* A string that fits is put behind what the queue holds, another is dropped; the Kernal's
\* buffer is written only when it is empty, and then it is.
LEMMA FeedAdds ==
  ASSUME NEW k \in Queues, NEW string \in Seq(Chars), NEW initialised \in BOOLEAN
  PROVE  LET e == kbdbuf_feed(k, string, initialised) IN
         /\ e \in Queues
         /\ CanFeed(k, string) => Held(e) = Held(k) \o string
         /\ ~CanFeed(k, string) => e = k
         /\ k.buffer # <<>> \/ ~initialised => e.buffer = k.buffer
         /\ CanFeed(k, string) /\ initialised => e.buffer # <<>> \/ e.num_pending = 0
<1>1. CASE ~CanFeed(k, string)
  BY <1>1 DEF kbdbuf_feed
<1>2. CASE CanFeed(k, string)
  <2> DEFINE g == Put(k, string)  e == kbdbuf_flush(g, initialised)
  <2>1. kbdbuf_feed(k, string, initialised) = e
    BY <1>2 DEF kbdbuf_feed, Put
  <2>2. g \in Queues /\ Held(g) = Held(k) \o string /\ g.buffer = k.buffer
    BY <1>2, PutAdds
  <2> HIDE DEF g
  <2>3. /\ e \in Queues /\ Held(e) = Held(g)
        /\ g.buffer # <<>> \/ ~initialised => e.buffer = g.buffer
        /\ initialised => e.buffer # <<>> \/ e.num_pending = 0
    BY <2>2, FlushKeeps
  <2> HIDE DEF e
  <2> QED
    BY <1>2, <2>1, <2>2, <2>3
<1> QED
  BY <1>1, <1>2

-----------------------------------------------------------------------------
(* Types. *)

Booting == {"HASTAPE", "HASDISK", "HASSNAPSHOT", "INJECT"}
Waiting == {"PRESSPLAYONTAPE", "LOADINGTAPE", "WAITSEARCHINGFOR", "WAITLOADING", "WAITLOADREADY"}
Modes == Ended \cup Booting \cup Waiting \cup {"LOADINGDISK"}

Autos == [ mode : Modes, run_mode : {"RUN", "LOAD"}, orig_tde : SUBSET BOOLEAN, orig_warp : BOOLEAN,
           wait_for_reset : BOOLEAN, ignore_reset : BOOLEAN, entered_rom : BOOLEAN,
           attention : BOOLEAN, eof : BOOLEAN, play : BOOLEAN ]
Ress == [ WarpMode : BOOLEAN, DriveTrueEmulation : BOOLEAN, AutostartWarp : BOOLEAN, held : BOOLEAN,
          HandleTde : BOOLEAN, VirtualDevices : BOOLEAN ]
Pasts == [ kind : Kinds \cup {"none"}, noted : BOOLEAN, tde : BOOLEAN, warp : BOOLEAN,
           fed : Seq(Chars), lines : Seq(Seq(Chars)), disturbed : BOOLEAN, starts : Nat ]
States == [auto : Autos, res : Ress, kbuf : Queues, resetting : BOOLEAN, past : Pasts]
Places == {"ramtas", "boot", "ready", "program", "press play", "searching", "loading"}
Kernals == [at : Places, line : Seq(Chars)]

\* What was fed and not read is what the two buffers hold.
Kept(s) == Held(s.kbuf) = s.past.fed

\* A state whose parts are these.
LEMMA StateOf ==
  ASSUME NEW s \in States
  PROVE  /\ s.auto \in Autos /\ s.res \in Ress /\ s.kbuf \in Queues /\ s.resetting \in BOOLEAN
         /\ s.past \in Pasts
         /\ s = [auto |-> s.auto, res |-> s.res, kbuf |-> s.kbuf, resetting |-> s.resetting, past |-> s.past]
BY DEF States

\* Feeding changes the queue and the history of what was fed, and nothing else.
LEMMA FeedState ==
  ASSUME NEW s \in States, Kept(s), NEW string \in Seq(Chars) \ {<<>>}
  PROVE  LET f == Feed(s, string) IN
         /\ f \in States /\ Kept(f)
         /\ f.auto = s.auto /\ f.res = s.res /\ f.resetting = s.resetting
         /\ f.past = [s.past EXCEPT !.fed = f.past.fed]
         /\ f.past.fed \in {s.past.fed, s.past.fed \o string}
         /\ s.kbuf.buffer # <<>> \/ ~Initialised => f.kbuf.buffer = s.kbuf.buffer
         /\ f.past.fed # s.past.fed /\ Initialised => f.kbuf.buffer # <<>>
<1> DEFINE k == s.kbuf  e == kbdbuf_feed(k, string, Initialised)
           x == IF CanFeed(k, string) THEN s.past.fed \o string ELSE s.past.fed
           f == Feed(s, string)
<1>1. k \in Queues /\ s.past \in Pasts /\ s.past.fed \in Seq(Chars) /\ Initialised \in BOOLEAN
  BY DEF States, Pasts, Initialised
<1>2. /\ e \in Queues
      /\ CanFeed(k, string) => Held(e) = Held(k) \o string
      /\ ~CanFeed(k, string) => e = k
      /\ k.buffer # <<>> \/ ~Initialised => e.buffer = k.buffer
      /\ CanFeed(k, string) /\ Initialised => e.buffer # <<>> \/ e.num_pending = 0
  BY <1>1, FeedAdds
<1>3. f = [s EXCEPT !.kbuf = e, !.past.fed = x]
  BY DEF Feed
<1> HIDE DEF e, f
<1>4. x \in {s.past.fed, s.past.fed \o string} /\ x \in Seq(Chars)
  BY <1>1
<1>5. Held(e) = x
  BY <1>2 DEF Kept
<1>6. x # s.past.fed /\ Initialised => e.buffer # <<>>
  <2> SUFFICES ASSUME CanFeed(k, string), Initialised, e.buffer = <<>>, e.num_pending = 0 PROVE FALSE
    BY <1>2
  <2>1. Pending(e) \in Seq(Chars) /\ Len(Pending(e)) = 0
    BY <1>2, PendingIs
  <2>2. Pending(e) = <<>>
    BY <2>1, EmptySeq
  <2>3. Held(e) = <<>>
    BY <2>2 DEF Held
  <2>4. s.past.fed \o string # <<>>
    BY <1>1, ConcatEqualIffEmpty
  <2> QED
    BY <1>5, <2>3, <2>4
<1> HIDE DEF x
<1>7. f = [auto |-> s.auto, res |-> s.res, kbuf |-> e, resetting |-> s.resetting,
           past |-> [s.past EXCEPT !.fed = x]]
  BY <1>3 DEF States
<1>8. [s.past EXCEPT !.fed = x] \in Pasts
  BY <1>1, <1>4 DEF Pasts
<1>9. f \in States
  BY <1>2, <1>7, <1>8, StateOf DEF States
<1>10. [s.past EXCEPT !.fed = x].fed = x
  BY <1>1 DEF Pasts
<1>11. /\ f.auto = s.auto /\ f.res = s.res /\ f.resetting = s.resetting /\ f.kbuf = e
       /\ f.past = [s.past EXCEPT !.fed = x] /\ f.past.fed = x
  BY <1>7, <1>10
<1> QED
  BY <1>2, <1>4, <1>5, <1>6, <1>9, <1>11 DEF Kept, f

-----------------------------------------------------------------------------
(* The invariant. *)

\* What the settings are on the way to being given back.  While a disk is loaded with the
\* serial traps, true drive emulation is off and the user's choice is remembered.
Settings(s) ==
  LET mode == s.auto.mode IN
  /\ s.past.kind # "snapshot" =>
       IF mode \in Ended \/ ~s.res.AutostartWarp THEN s.res.WarpMode = s.past.warp
       ELSE s.res.WarpMode /\ s.auto.orig_warp = s.past.warp
  /\ s.past.kind = "snapshot" => mode \in Ended \cup {"HASSNAPSHOT"}
  /\ mode = "HASSNAPSHOT" => s.past.kind = "snapshot"
  /\ ~s.res.HandleTde => s.res.DriveTrueEmulation = s.past.tde
  /\ mode = "HASDISK" =>
       s.past.kind = "disk" /\ s.res.DriveTrueEmulation = s.past.tde /\ ~s.past.noted
  /\ s.res.HandleTde /\ s.res.VirtualDevices /\ s.past.noted =>
       mode = "LOADINGDISK" \/ (mode \in Ended /\ s.res.DriveTrueEmulation = s.past.tde)
  /\ s.res.HandleTde /\ s.res.VirtualDevices /\ mode = "LOADINGDISK" => s.auto.orig_tde = {s.past.tde}

\* The lines BASIC was given, the one being typed and the characters to come are LOAD and
\* perhaps RUN, or RUN.
Script(lines, line, fed) ==
  \/ lines = <<>> /\ line \o fed = <<>>
  \/ lines = <<>> /\ line \o fed \in {Load, Load \o Run} /\ Len(line) < Len(Load)
  \/ lines \in {<<>>, <<Load>>} /\ line \o fed = Run /\ Len(line) < Len(Run)
  \/ lines \in {<<Load>>, <<Run>>, <<Load, Run>>} /\ line \o fed = <<>>

Nothing(line, fed) == line = <<>> /\ fed = <<>>

\* LOAD is being typed, and the Kernal has read of it or has something to read.
TypingLoad(s, k) ==
  /\ s.past.lines = <<>> /\ k.line \o s.past.fed = Load /\ Len(k.line) < Len(Load)
  /\ k.line = <<>> => s.kbuf.buffer # <<>>

\* The traps were asked to call back: LOAD is not through yet, or nobody will ever call.
Attended(s, k) ==
  \/ /\ k.at = "ready" /\ s.past.lines = <<>>
     /\ \/ Nothing(k.line, s.past.fed)
        \/ k.line \o s.past.fed = Load /\ Len(k.line) < Len(Load)
  \/ /\ ~s.res.VirtualDevices /\ k.at \in {"ready", "searching"} /\ Nothing(k.line, s.past.fed)
     /\ s.past.lines = <<Load>>

Text(s, k) ==
  LET mode == s.auto.mode IN
  /\ Script(s.past.lines, k.line, s.past.fed)
  /\ mode \in Booting =>
       s.resetting \/ (s.past.lines = <<>> /\ Nothing(k.line, s.past.fed))
  /\ mode \in Waiting =>
       TypingLoad(s, k) \/ (s.past.lines \in {<<>>, <<Load>>} /\ Nothing(k.line, s.past.fed))
  /\ s.auto.attention =>
       /\ mode = "LOADINGDISK" /\ s.past.kind = "disk" /\ ~s.res.DriveTrueEmulation
       /\ ~s.resetting /\ Attended(s, k)
  /\ s.auto.eof => mode = "LOADINGDISK" /\ ~s.auto.attention
  /\ s.resetting => s.kbuf.num_pending = 0
  /\ s.auto.ignore_reset => s.resetting /\ mode \in Booting

Good(s, k) == s \in States /\ Kept(s) /\ (~s.past.disturbed => Settings(s) /\ Text(s, k))

AutoInv ==
  /\ Good(AutoState, kernal) /\ kernal \in Kernals /\ age \in 0 .. 2
  /\ kernal.at = "ramtas" => age = 0 /\ kbuf.buffer = <<>>

-----------------------------------------------------------------------------
(* Text. *)

\* The two commands are not empty and differ.
LEMMA Commands ==
  /\ Load \in Seq(Chars) \ {<<>>} /\ Run \in Seq(Chars) \ {<<>>} /\ Load # Run
  /\ Len(Load) \in Nat \ {0} /\ Len(Run) \in Nat \ {0}
<1>1. Load \in Seq(Chars) \ {<<>>} /\ Run \in Seq(Chars) \ {<<>>} /\ Load # Run
  BY CommandAssumption
<1> QED
  BY <1>1, EmptySeq

\* Of a line that is the beginning of a command c, and of rest behind it, one more character
\* is read: the whole command, or a longer beginning.
Reads(line, fed, c, rest) ==
  LET l == Append(line, Head(fed)) IN
  /\ l \in Seq(Chars) /\ l # <<>> /\ l \o Tail(fed) = c \o rest
  /\ Len(l) = Len(c) => l = c /\ Tail(fed) = rest
  /\ Len(l) # Len(c) => /\ Len(l) < Len(c)
                        /\ l[Len(l)] \notin {Load[Len(Load)], Run[Len(Run)]}

\* A character of a line that begins as a command does is one of the command.
LEMMA ReadOne ==
  ASSUME NEW line \in Seq(Chars), NEW fed \in Seq(Chars), fed # <<>>,
         NEW c \in {Load, Run}, NEW rest \in Seq(Chars),
         line \o fed = c \o rest, Len(line) < Len(c)
  PROVE  Reads(line, fed, c, rest)
<1> DEFINE l == Append(line, Head(fed))  r == Tail(fed)  w == c \o rest
<1>1. /\ c \in Seq(Chars) /\ Len(c) \in Nat
      /\ \A i \in 1 .. Len(c) - 1 : c[i] \notin {Load[Len(Load)], Run[Len(Run)]}
  BY CommandAssumption
<1>2. Head(fed) \in Chars /\ r \in Seq(Chars) /\ fed = <<Head(fed)>> \o r
  <2>1. Head(fed) \in Chars /\ r \in Seq(Chars)
    BY HeadTailProperties
  <2>2. fed = <<Head(fed)>> \o r
    OBVIOUS
  <2> QED
    BY <2>1, <2>2
<1>3. l \in Seq(Chars) /\ l # <<>> /\ Len(l) = Len(line) + 1 /\ l = line \o <<Head(fed)>>
  BY <1>2, AppendProperties, AppendIsConcat
<1>4. <<Head(fed)>> \in Seq(Chars)
  BY <1>2
<1> DEFINE h == <<Head(fed)>>
<1> HIDE DEF l, r, h
<1>5. l \o r = w
  <2>1. (line \o h) \o r = line \o (h \o r)
    BY <1>2, <1>4, ConcatAssociative, SMTT(30) DEF h
  <2> QED
    BY <1>2, <1>3, <2>1 DEF h
<1>6. /\ Len(l) \in Nat /\ \A i \in 1 .. Len(l) : (l \o r)[i] = l[i]
  BY <1>2, <1>3, ConcatProperties, LenProperties
<1>7. \A i \in 1 .. Len(c) : w[i] = c[i]
  BY <1>1, ConcatProperties, LenProperties
<1> HIDE DEF w
<1>8. Len(line) \in Nat /\ Len(l) <= Len(c) /\ Len(l) >= 1
  BY <1>1, <1>3, LenProperties
<1>9. \A i \in 1 .. Len(l) : l[i] = c[i]
  BY <1>1, <1>5, <1>6, <1>7, <1>8
<1>10. ASSUME Len(l) = Len(c) PROVE l = c /\ r = rest
  <2>1. l = c
    BY <1>1, <1>3, <1>9, <1>10, SeqEqual
  <2>2. c \o r = c \o rest
    BY <1>5, <2>1 DEF w
  <2>3. r = rest
    BY ONLY <1>1, <1>2, <2>2, rest \in Seq(Chars), ConcatSimplifications
  <2> QED
    BY <2>1, <2>3
<1>11. ASSUME Len(l) # Len(c)
       PROVE  Len(l) < Len(c) /\ l[Len(l)] \notin {Load[Len(Load)], Run[Len(Run)]}
  <2>1. Len(l) < Len(c) /\ Len(l) \in 1 .. Len(c) - 1
    BY <1>1, <1>6, <1>8, <1>11
  <2>2. l[Len(l)] = c[Len(l)]
    BY <1>6, <1>8, <1>9
  <2> QED
    BY <1>1, <2>1, <2>2
<1> QED
  BY <1>3, <1>5, <1>10, <1>11 DEF Reads, l, r, w

\* A step that types nothing: what was typed stays, and autostart goes on waiting or is over.
LEMMA TextSame ==
  ASSUME NEW s \in States, NEW t \in States, NEW k, Text(s, k),
         t.past.lines = s.past.lines, t.past.fed = s.past.fed, t.past.kind = s.past.kind,
         s.kbuf.buffer # <<>> => t.kbuf.buffer # <<>>,
         s.kbuf.num_pending = 0 => t.kbuf.num_pending = 0,
         t.resetting = s.resetting, t.auto.ignore_reset = s.auto.ignore_reset,
         t.auto.attention = s.auto.attention, t.auto.eof = s.auto.eof,
         t.res.VirtualDevices = s.res.VirtualDevices,
         s.auto.attention => t.res.DriveTrueEmulation = s.res.DriveTrueEmulation,
         \/ t.auto.mode = s.auto.mode
         \/ /\ s.auto.mode # "LOADINGDISK" /\ ~s.resetting
            /\ \/ t.auto.mode \in Ended
               \/ t.auto.mode \in Waiting /\ s.auto.mode \in Waiting \cup Booting
  PROVE  Text(t, k)
<1>1. TypingLoad(s, k) => TypingLoad(t, k)
  BY DEF TypingLoad
<1>2. Attended(s, k) => Attended(t, k)
  BY DEF Attended
<1>3. t.auto.mode \in Booting => t.auto.mode = s.auto.mode
  BY DEF Booting, Waiting, Ended
<1>4. t.auto.mode \in Waiting =>
        s.auto.mode \in Waiting \/ (s.auto.mode \in Booting /\ ~s.resetting)
  BY DEF Booting, Waiting, Ended
<1>5. "LOADINGDISK" \notin Waiting \cup Booting
  BY DEF Booting, Waiting
<1>6. /\ t.auto.attention => /\ t.auto.mode = "LOADINGDISK" /\ t.past.kind = "disk"
                             /\ ~t.res.DriveTrueEmulation /\ ~t.resetting /\ Attended(t, k)
      /\ t.auto.eof => t.auto.mode = "LOADINGDISK" /\ ~t.auto.attention
  BY <1>2, <1>5 DEF Text
<1>7. t.auto.mode \in Waiting =>
        TypingLoad(t, k) \/ (t.past.lines \in {<<>>, <<Load>>} /\ Nothing(k.line, t.past.fed))
  BY <1>1, <1>4 DEF Text
<1> QED
  BY <1>3, <1>6, <1>7 DEF Text

\* LOAD is typed by an autostart that waited for READY., perhaps with RUN after it.
LEMMA TextLoads ==
  ASSUME NEW s \in States, NEW t \in States, NEW k \in Kernals, Text(s, k),
         s.auto.mode \in Booting, ~s.resetting, k.at = "ready",
         t.past.lines = s.past.lines,
         \/ t.past.fed = s.past.fed
         \/ t.past.fed = s.past.fed \o Load /\ t.kbuf.buffer # <<>>
         \/ t.auto.mode = "DONE" /\ t.past.fed \in {s.past.fed \o Run, (s.past.fed \o Load) \o Run,
                                                    s.past.fed \o Load},
         t.resetting = s.resetting, t.auto.ignore_reset = s.auto.ignore_reset,
         \/ t.auto.mode \in Waiting \cup {"DONE"} /\ t.auto.attention = s.auto.attention
         \/ /\ t.auto.mode = "LOADINGDISK" /\ t.auto.attention
            /\ t.past.kind = "disk" /\ ~t.res.DriveTrueEmulation,
         t.auto.eof = s.auto.eof
  PROVE  Text(t, k)
<1>1. s.past.lines = <<>> /\ k.line = <<>> /\ s.past.fed = <<>>
  BY DEF Text, Nothing
<1>2. ~s.auto.attention /\ ~s.auto.eof /\ ~s.auto.ignore_reset
  BY DEF Text, Booting
<1>3. /\ Load \in Seq(Chars) /\ Run \in Seq(Chars) /\ Load # <<>> /\ Run # <<>>
      /\ Len(Load) \in Nat \ {0} /\ Len(Run) \in Nat \ {0} /\ Len(<<>>) = 0
  BY Commands
<1>4. <<>> \o Load = Load /\ <<>> \o Run = Run /\ <<>> \o (Load \o Run) = Load \o Run
  <2>1. Load \o Run \in Seq(Chars)
    BY <1>3, ConcatProperties
  <2> QED
    BY <1>3, <2>1, ConcatEmptySeq
<1>5. t.past.fed \in {<<>>, Load, Run, Load \o Run}
  BY <1>1, <1>4
<1>6. Script(t.past.lines, k.line, t.past.fed)
  <2>1. <<>> \o <<>> = <<>>
    <3>1. <<>> \in Seq(Chars)
      BY ONLY EmptySeq
    <3> QED
      BY ONLY <3>1, ConcatEmptySeq
  <2> QED
    BY <1>1, <1>3, <1>4, <1>5, <2>1 DEF Script
<1>7. t.auto.mode # "DONE" =>
        TypingLoad(t, k) \/ (t.past.lines = <<>> /\ Nothing(k.line, t.past.fed))
  BY <1>1, <1>3, <1>4 DEF TypingLoad, Nothing
<1>8. t.auto.mode \notin Booting
  BY DEF Booting, Waiting
<1>9. t.auto.attention => /\ t.auto.mode = "LOADINGDISK" /\ t.past.kind = "disk"
                          /\ ~t.res.DriveTrueEmulation /\ ~t.resetting /\ Attended(t, k)
  <2>1. t.auto.attention => /\ t.auto.mode = "LOADINGDISK" /\ t.past.kind = "disk"
                            /\ ~t.res.DriveTrueEmulation /\ ~t.resetting
    BY <1>2
  <2>2. t.auto.attention => Attended(t, k)
    BY <1>1, <1>3, <1>4, <1>7, <2>1 DEF Attended, TypingLoad, Nothing
  <2> QED
    BY <2>1, <2>2
<1> QED
  BY <1>2, <1>6, <1>7, <1>8, <1>9 DEF Text, Waiting

\* RUN is typed when LOAD is through, by an autostart that is over with it or that a trap
\* has called back.
LEMMA TextRuns ==
  ASSUME NEW s \in States, NEW t \in States, NEW k \in Kernals,
         s.past.lines \in {<<>>, <<Load>>}, Nothing(k.line, s.past.fed),
         t.past.lines = s.past.lines, t.past.fed \in {s.past.fed, s.past.fed \o Run},
         ~t.resetting, ~t.auto.ignore_reset, ~t.auto.attention,
         t.auto.mode = "LOADINGDISK" \/ (t.auto.mode = "DONE" /\ ~t.auto.eof)
  PROVE  Text(t, k)
<1>1. k.line = <<>> /\ s.past.fed = <<>>
  BY DEF Nothing
<1>3. /\ Load \in Seq(Chars) /\ Run \in Seq(Chars) /\ Load # <<>> /\ Run # <<>>
      /\ Len(Load) \in Nat \ {0} /\ Len(Run) \in Nat \ {0} /\ Len(<<>>) = 0
  BY Commands
<1>4. <<>> \o Run = Run /\ <<>> \o <<>> = <<>>
  BY <1>3, ConcatEmptySeq
<1>5. Script(t.past.lines, k.line, t.past.fed)
  BY <1>1, <1>3, <1>4 DEF Script
<1>6. t.auto.mode \notin Booting \cup Waiting
  BY DEF Booting, Waiting
<1> QED
  BY <1>5, <1>6 DEF Text

\* RUN is put behind what there is, if it is to be and fits.
LEMMA TypeRunState ==
  ASSUME NEW s \in States, Kept(s)
  PROVE  LET t == TypeRun(s) IN
         /\ t \in States /\ Kept(t) /\ t.auto = s.auto /\ t.res = s.res /\ t.resetting = s.resetting
         /\ t.past = [s.past EXCEPT !.fed = t.past.fed] /\ t.past.fed \in {s.past.fed, s.past.fed \o Run}
<1> DEFINE t == TypeRun(s)
<1>1. CASE s.auto.run_mode = "RUN"
  <2>1. t = Feed(s, Run)
    BY <1>1 DEF TypeRun
  <2>2. Run \in Seq(Chars) \ {<<>>}
    BY Commands
  <2> HIDE DEF t
  <2>3. /\ t \in States /\ Kept(t) /\ t.auto = s.auto /\ t.res = s.res /\ t.resetting = s.resetting
        /\ t.past = [s.past EXCEPT !.fed = t.past.fed] /\ t.past.fed \in {s.past.fed, s.past.fed \o Run}
    BY <2>1, <2>2, FeedState
  <2> QED
    BY <2>3 DEF t
<1>2. CASE s.auto.run_mode # "RUN"
  <2>1. t = s
    BY <1>2 DEF TypeRun
  <2>2. s.past = [s.past EXCEPT !.fed = s.past.fed]
    BY StateOf DEF Pasts
  <2> HIDE DEF t
  <2>3. /\ t \in States /\ Kept(t) /\ t.auto = s.auto /\ t.res = s.res /\ t.resetting = s.resetting
        /\ t.past = [s.past EXCEPT !.fed = t.past.fed] /\ t.past.fed \in {s.past.fed, s.past.fed \o Run}
    BY <2>1, <2>2
  <2> QED
    BY <2>3 DEF t
<1> QED
  BY <1>1, <1>2

-----------------------------------------------------------------------------
(* The settings. *)

Unwarped(s) ==
  IF s.res.AutostartWarp /\ ~s.auto.orig_warp THEN [s.res EXCEPT !.WarpMode = FALSE] ELSE s.res

\* Autostart ends: warp mode is given back, and so is true drive emulation, if it was changed.
LEMMA SettingsEnd ==
  ASSUME NEW s \in States, NEW t \in States, Settings(s),
         s.auto.mode \notin Ended, t.auto.mode \in Ended,
         t.past.kind = s.past.kind, t.past.warp = s.past.warp, t.past.tde = s.past.tde,
         t.res.HandleTde = s.res.HandleTde, t.res.VirtualDevices = s.res.VirtualDevices,
         s.past.kind # "snapshot" => t.res.WarpMode = Unwarped(s).WarpMode,
         ~s.res.HandleTde => t.res.DriveTrueEmulation = s.res.DriveTrueEmulation,
         s.res.HandleTde /\ s.res.VirtualDevices /\ t.past.noted =>
           t.res.DriveTrueEmulation = s.past.tde
  PROVE  Settings(t)
<1>1. s.res \in Ress /\ s.auto.orig_warp \in BOOLEAN /\ s.past.warp \in BOOLEAN /\ s.res.WarpMode \in BOOLEAN
  BY DEF States, Ress, Autos, Pasts
<1>2. /\ s.res.AutostartWarp /\ ~s.auto.orig_warp => Unwarped(s).WarpMode = FALSE
      /\ ~(s.res.AutostartWarp /\ ~s.auto.orig_warp) => Unwarped(s).WarpMode = s.res.WarpMode
  BY <1>1 DEF Unwarped, Ress
<1>3. s.past.kind # "snapshot" => t.res.WarpMode = t.past.warp
  <2> SUFFICES ASSUME s.past.kind # "snapshot" PROVE t.res.WarpMode = t.past.warp
    OBVIOUS
  <2>1. CASE s.res.AutostartWarp
    <3>1. s.res.WarpMode /\ s.auto.orig_warp = s.past.warp
      BY <2>1 DEF Settings
    <3>2. CASE s.auto.orig_warp
      BY <1>1, <1>2, <3>1, <3>2
    <3>3. CASE ~s.auto.orig_warp
      BY <1>1, <1>2, <2>1, <3>1, <3>3
    <3> QED
      BY <3>2, <3>3
  <2>2. CASE ~s.res.AutostartWarp
    BY <1>2, <2>2 DEF Settings
  <2> QED
    BY <2>1, <2>2
<1>4. t.auto.mode \notin {"HASSNAPSHOT", "HASDISK", "LOADINGDISK"}
  BY DEF Ended
<1>5. ~t.res.HandleTde => t.res.DriveTrueEmulation = t.past.tde
  BY DEF Settings
<1> QED
  BY <1>3, <1>4, <1>5 DEF Settings

\* Autostart waits for something else, or is over and stays so, and touches no setting.
LEMMA SettingsSame ==
  ASSUME NEW s \in States, NEW t \in States, Settings(s),
         \/ t.auto.mode = s.auto.mode
         \/ t.auto.mode \in Waiting /\ s.auto.mode \in Waiting \cup {"HASTAPE", "INJECT"}
         \/ t.auto.mode \in Ended /\ s.auto.mode \in Ended,
         t.auto.orig_warp = s.auto.orig_warp,
         s.auto.mode = "LOADINGDISK" /\ s.res.HandleTde /\ s.res.VirtualDevices =>
           t.auto.orig_tde = s.auto.orig_tde,
         t.past.kind = s.past.kind, t.past.warp = s.past.warp, t.past.tde = s.past.tde,
         t.past.noted = s.past.noted,
         t.res.AutostartWarp = s.res.AutostartWarp, t.res.WarpMode = s.res.WarpMode,
         t.res.HandleTde = s.res.HandleTde, t.res.VirtualDevices = s.res.VirtualDevices,
         t.res.DriveTrueEmulation = s.res.DriveTrueEmulation
  PROVE  Settings(t)
<1>1. CASE t.auto.mode = s.auto.mode
  BY <1>1 DEF Settings
<1>2. CASE t.auto.mode \in Waiting /\ s.auto.mode \in Waiting \cup {"HASTAPE", "INJECT"}
  BY <1>2 DEF Settings, Waiting, Ended
<1>3. CASE t.auto.mode \in Ended /\ s.auto.mode \in Ended
  BY <1>3 DEF Settings, Ended
<1> QED
  BY <1>1, <1>2, <1>3

\* The two ways autostart is over: the mode, and warp mode given back.
LEMMA EndState ==
  ASSUME NEW s \in States
  PROVE  /\ Off(s) = [auto |-> [s.auto EXCEPT !.mode = "ERROR"], res |-> Unwarped(s), kbuf |-> s.kbuf,
                      resetting |-> s.resetting, past |-> s.past]
         /\ Done(s) = [auto |-> [s.auto EXCEPT !.mode = "DONE"], res |-> Unwarped(s), kbuf |-> s.kbuf,
                       resetting |-> s.resetting, past |-> s.past]
         /\ Off(s) \in States /\ Done(s) \in States
<1> DEFINE d == disable_warp_if_was_requested(s)
<1>1. d = [auto |-> s.auto, res |-> Unwarped(s), kbuf |-> s.kbuf, resetting |-> s.resetting, past |-> s.past]
  BY DEF disable_warp_if_was_requested, Unwarped, States
<1>2. Unwarped(s) \in Ress
  BY DEF Unwarped, States, Ress
<1>3. /\ Off(s) = [d EXCEPT !.auto = [d.auto EXCEPT !.mode = "ERROR"]]
      /\ Done(s) = [d EXCEPT !.auto = [d.auto EXCEPT !.mode = "DONE"]]
  BY DEF Off, Done
<1> HIDE DEF d
<1>4. /\ Off(s) = [auto |-> [s.auto EXCEPT !.mode = "ERROR"], res |-> Unwarped(s), kbuf |-> s.kbuf,
                   resetting |-> s.resetting, past |-> s.past]
      /\ Done(s) = [auto |-> [s.auto EXCEPT !.mode = "DONE"], res |-> Unwarped(s), kbuf |-> s.kbuf,
                    resetting |-> s.resetting, past |-> s.past]
  BY <1>1, <1>3
<1>5. \A m \in {"ERROR", "DONE"} : [s.auto EXCEPT !.mode = m] \in Autos
  BY DEF States, Autos, Modes, Ended
<1> QED
  BY <1>2, <1>4, <1>5, StateOf DEF States

-----------------------------------------------------------------------------
(* autostart_advance. *)

Whole(s) == ~s.past.disturbed => Settings(s) /\ Text(s, kernal)

\* When the Kernal shows READY. it has read what was typed for the autostart that waits.
Seen(s) ==
  ~s.past.disturbed /\ s.auto.mode \in Waiting /\ kernal.line = <<>> /\ kbuf.buffer = <<>> =>
    s.past.fed = <<>>

\* A state autostart looks at, and one it leaves; if it leaves it with an error, what it gives
\* back as true drive emulation is the user's.
Looking(s) ==
  s \in States /\ Kept(s) /\ Whole(s) /\ Seen(s) /\ ~s.resetting /\ age = 2 /\ kernal \in Kernals

Advanced(s, t) ==
  /\ t \in States /\ Kept(t) /\ Whole(t) /\ t.resetting = s.resetting
  /\ t.past.disturbed = s.past.disturbed /\ t.res.HandleTde = s.res.HandleTde
  /\ ~t.past.disturbed /\ t.auto.mode = "ERROR" /\ t.res.HandleTde /\ t.res.VirtualDevices /\ t.past.noted =>
       t.auto.orig_tde = {t.past.tde}

\* READY. is shown with nothing typed and an empty buffer.
LEMMA ReadyIs ==
  ASSUME "YES" \in SeesReady
  PROVE  kbuf.buffer = <<>> /\ kernal.at = "ready" /\ kernal.line = <<>>
BY DEF SeesReady, kbdbuf_is_empty

\* Nothing is done.
LEMMA AdvanceNone ==
  ASSUME NEW s, Looking(s), s.auto.mode \in Waiting \cup {"HASTAPE", "HASDISK", "HASSNAPSHOT", "INJECT"}
  PROVE  Advanced(s, s)
<1>1. s.auto.mode # "ERROR"
  BY DEF Waiting
<1> QED
  BY <1>1 DEF Looking, Advanced

\* The settings of an autostart that is over for an error, before the disk was looked at.
LEMMA AdvanceOff ==
  ASSUME NEW s, Looking(s), s.auto.mode \in Waiting \cup {"HASTAPE", "INJECT"}
  PROVE  Advanced(s, Off(s)) /\ Advanced(s, Done(s))
<1> SUFFICES ASSUME NEW m \in {"ERROR", "DONE"}, NEW t \in States,
                    t = [auto |-> [s.auto EXCEPT !.mode = m], res |-> Unwarped(s), kbuf |-> s.kbuf,
                         resetting |-> s.resetting, past |-> s.past]
             PROVE  Advanced(s, t)
  BY EndState DEF Looking
<1>1. s \in States /\ s.auto \in Autos /\ s.res \in Ress /\ s.past \in Pasts
  BY StateOf DEF Looking
<1>2. /\ t.auto.mode = m /\ t.auto.attention = s.auto.attention /\ t.auto.eof = s.auto.eof
      /\ t.auto.ignore_reset = s.auto.ignore_reset /\ t.auto.orig_tde = s.auto.orig_tde
      /\ t.kbuf = s.kbuf /\ t.resetting = s.resetting /\ t.past = s.past /\ t.res = Unwarped(s)
  BY <1>1 DEF Autos
<1>3. /\ t.res.HandleTde = s.res.HandleTde /\ t.res.VirtualDevices = s.res.VirtualDevices
      /\ t.res.DriveTrueEmulation = s.res.DriveTrueEmulation /\ t.res.WarpMode = Unwarped(s).WarpMode
  BY <1>1, <1>2 DEF Unwarped, Ress
<1>4. s.auto.mode \notin Ended \cup {"LOADINGDISK", "HASDISK"} /\ m \in Ended
  BY DEF Waiting, Ended
<1>5. ASSUME ~s.past.disturbed
      PROVE  /\ Settings(t) /\ Text(t, kernal)
             /\ ~(s.res.HandleTde /\ s.res.VirtualDevices /\ s.past.noted)
  <2>1. Settings(s) /\ Text(s, kernal)
    BY <1>5 DEF Looking, Whole
  <2>2. ~(s.res.HandleTde /\ s.res.VirtualDevices /\ s.past.noted)
    BY <1>4, <2>1 DEF Settings
  <2>3. Settings(t)
    BY <1>1, <1>2, <1>3, <1>4, <2>1, <2>2, SettingsEnd
  <2>4. Text(t, kernal)
    BY <1>1, <1>2, <1>3, <1>4, <2>1, TextSame DEF Looking
  <2> QED
    BY <2>2, <2>3, <2>4
<1> QED
  BY <1>2, <1>3, <1>5 DEF Advanced, Looking, Kept, Whole

\* Autostart waits for what comes next.
LEMMA AdvanceWaits ==
  ASSUME NEW s, Looking(s), NEW t \in States,
         t.auto.mode \in Waiting, s.auto.mode \in Waiting \cup {"INJECT"},
         t.auto.orig_warp = s.auto.orig_warp, t.auto.attention = s.auto.attention,
         t.auto.eof = s.auto.eof, t.auto.ignore_reset = s.auto.ignore_reset,
         t.res = s.res, t.kbuf = s.kbuf, t.past = s.past, t.resetting = s.resetting
  PROVE  Advanced(s, t)
<1>1. s.auto.mode # "LOADINGDISK" /\ t.auto.mode # "ERROR"
  BY DEF Waiting
<1>2. ASSUME ~s.past.disturbed PROVE Settings(t) /\ Text(t, kernal)
  <2>1. Settings(s) /\ Text(s, kernal) /\ s \in States /\ ~s.resetting
    BY <1>2 DEF Looking, Whole
  <2>2. Settings(t)
    BY <1>1, <2>1, SettingsSame
  <2>3. s.auto.mode \in Waiting \cup Booting
    BY DEF Booting
  <2>4. Text(t, kernal)
    BY <1>1, <2>1, <2>3, TextSame
  <2> QED
    BY <2>2, <2>4
<1> QED
  BY <1>1, <1>2 DEF Advanced, Looking, Kept, Whole

\* The program is through: RUN is typed, if it is to be.
LEMMA AdvanceRuns ==
  ASSUME NEW s, Looking(s), s.auto.mode \in Waiting, "YES" \in SeesReady
  PROVE  Advanced(s, TypeRun(Done(s)))
<1> DEFINE d == Done(s)  t == TypeRun(d)
<1>1. s \in States /\ s.auto \in Autos /\ s.res \in Ress /\ s.past \in Pasts /\ Kept(s)
  BY StateOf DEF Looking
<1>2. /\ d = [auto |-> [s.auto EXCEPT !.mode = "DONE"], res |-> Unwarped(s), kbuf |-> s.kbuf,
              resetting |-> s.resetting, past |-> s.past]
      /\ d \in States
  BY <1>1, EndState
<1>3. d.past = s.past /\ d.kbuf = s.kbuf /\ Kept(d) /\ d.resetting = s.resetting
  BY <1>1, <1>2 DEF Kept
<1>4. /\ t \in States /\ Kept(t) /\ t.auto = d.auto /\ t.res = d.res /\ t.resetting = d.resetting
      /\ t.past = [d.past EXCEPT !.fed = t.past.fed] /\ t.past.fed \in {d.past.fed, d.past.fed \o Run}
  <2> HIDE DEF d
  <2> QED
    BY <1>2, <1>3, TypeRunState
<1> HIDE DEF t
<1>5. /\ t.auto.mode = "DONE" /\ t.auto.attention = s.auto.attention /\ t.auto.eof = s.auto.eof
      /\ t.auto.ignore_reset = s.auto.ignore_reset /\ t.res = Unwarped(s)
  BY <1>1, <1>2, <1>4 DEF Autos
<1>6. /\ t.past.kind = s.past.kind /\ t.past.warp = s.past.warp /\ t.past.tde = s.past.tde
      /\ t.past.noted = s.past.noted /\ t.past.lines = s.past.lines
      /\ t.past.disturbed = s.past.disturbed
  BY <1>1, <1>3, <1>4 DEF Pasts
<1>7. /\ t.res.HandleTde = s.res.HandleTde /\ t.res.VirtualDevices = s.res.VirtualDevices
      /\ t.res.DriveTrueEmulation = s.res.DriveTrueEmulation /\ t.res.WarpMode = Unwarped(s).WarpMode
  BY <1>1, <1>5 DEF Unwarped, Ress
<1>8. s.auto.mode \notin Ended \cup Booting \cup {"LOADINGDISK", "HASDISK"} /\ "DONE" \in Ended
  BY DEF Waiting, Ended, Booting
<1>9. ASSUME ~s.past.disturbed PROVE Settings(t) /\ Text(t, kernal)
  <2>1. Settings(s) /\ Text(s, kernal) /\ ~s.resetting /\ kernal \in Kernals
    BY <1>9 DEF Looking, Whole
  <2>2. ~(s.res.HandleTde /\ s.res.VirtualDevices /\ s.past.noted)
    BY <1>8, <2>1 DEF Settings
  <2>3. Settings(t)
    BY <1>1, <1>4, <1>5, <1>6, <1>7, <1>8, <2>1, <2>2, SettingsEnd
  <2>4. kernal.line = <<>> /\ s.past.fed = <<>>
    BY <1>9, ReadyIs DEF Looking, Seen
  <2>5. ~TypingLoad(s, kernal)
    <3>1. <<>> \o <<>> = <<>>
      BY ONLY EmptySeq, ConcatEmptySeq
    <3> QED
      BY <2>4, <3>1, Commands DEF TypingLoad
  <2>6. s.past.lines \in {<<>>, <<Load>>} /\ Nothing(kernal.line, s.past.fed)
    BY <2>1, <2>5 DEF Text
  <2>7. ~s.auto.attention /\ ~s.auto.eof /\ ~s.auto.ignore_reset
    BY <1>8, <2>1 DEF Text
  <2>8. t.past.fed \in {s.past.fed, s.past.fed \o Run}
    BY <1>3, <1>4
  <2>9. ~t.resetting /\ ~t.auto.ignore_reset /\ ~t.auto.attention /\ ~t.auto.eof
    BY <1>3, <1>4, <1>5, <2>1, <2>7
  <2>10. Text(t, kernal)
    BY <1>1, <1>4, <1>5, <1>6, <2>1, <2>6, <2>8, <2>9, TextRuns
  <2> QED
    BY <2>3, <2>10
<1>10. Advanced(s, t)
  BY <1>3, <1>4, <1>5, <1>6, <1>7, <1>9 DEF Advanced, Whole
<1> QED
  BY <1>10 DEF t

\* While the program loads: RUN is typed, or it has started itself, or it failed.
LEMMA AdvanceLoadReady ==
  ASSUME NEW s, Looking(s), s.auto.mode \in {"LOADINGTAPE", "WAITLOADREADY"},
         NEW t \in advance_waitloadready(s)
  PROVE  Advanced(s, t)
<1>1. s.auto.mode \in Waiting /\ s \in States /\ s.auto \in Autos
  BY StateOf DEF Waiting, Looking
<1>2. PICK c \in SeesReady, b \in InRam :
        t = (CASE c = "YES" -> TypeRun(Done(s))
               [] c = "NO" -> Off(s)
               [] OTHER -> check_rom_area(s, b))
  BY DEF advance_waitloadready
<1>3. CASE c = "YES"
  BY <1>1, <1>2, <1>3, AdvanceRuns
<1>4. CASE c = "NO"
  BY <1>1, <1>2, <1>4, AdvanceOff
<1>5. CASE c \notin {"YES", "NO"}
  <2>1. t = check_rom_area(s, b) /\ b \in BOOLEAN
    BY <1>2, <1>5 DEF InRam
  <2>2. CASE s.auto.entered_rom /\ b
    BY <1>1, <2>1, <2>2, AdvanceOff DEF check_rom_area
  <2>3. CASE s.auto.entered_rom /\ ~b
    <3>1. t = s
      BY <2>1, <2>3 DEF check_rom_area
    <3> QED
      BY <1>1, <3>1, AdvanceNone
  <2>4. CASE ~s.auto.entered_rom
    <3> DEFINE a == [s.auto EXCEPT !.entered_rom = ~b]
    <3>1. t = [s EXCEPT !.auto = a]
      BY <2>1, <2>4 DEF check_rom_area
    <3>2. /\ a \in Autos /\ a.mode = s.auto.mode /\ a.orig_warp = s.auto.orig_warp
          /\ a.attention = s.auto.attention /\ a.eof = s.auto.eof /\ a.ignore_reset = s.auto.ignore_reset
      BY <1>1, <2>1 DEF Autos
    <3> HIDE DEF a
    <3>3. /\ t \in States /\ t.auto = a /\ t.res = s.res /\ t.kbuf = s.kbuf /\ t.past = s.past
          /\ t.resetting = s.resetting
      BY <1>1, <3>1, <3>2 DEF States
    <3> QED
      BY <1>1, <3>2, <3>3, AdvanceWaits
  <2> QED
    BY <2>2, <2>3, <2>4
<1> QED
  BY <1>3, <1>4, <1>5

\* A step that moves on to another mode of waiting, and may press play.
LEMMA AdvanceMoves ==
  ASSUME NEW s, Looking(s), s.auto.mode \in Waiting \cup {"INJECT"}, NEW m \in Waiting
  PROVE  /\ Advanced(s, [s EXCEPT !.auto.mode = m])
         /\ Advanced(s, [s EXCEPT !.auto.mode = m, !.auto.play = TRUE])
         /\ Advanced(s, [s EXCEPT !.auto.mode = m, !.auto.entered_rom = FALSE])
<1>1. s \in States /\ s.auto \in Autos
  BY StateOf DEF Looking
<1> SUFFICES ASSUME NEW a, a \in {[s.auto EXCEPT !.mode = m], [s.auto EXCEPT !.mode = m, !.play = TRUE],
                                  [s.auto EXCEPT !.mode = m, !.entered_rom = FALSE]}
             PROVE  Advanced(s, [s EXCEPT !.auto = a])
  BY <1>1 DEF States, Autos
<1> DEFINE t == [s EXCEPT !.auto = a]
<1>2. /\ a \in Autos /\ a.mode = m /\ a.orig_warp = s.auto.orig_warp
      /\ a.attention = s.auto.attention /\ a.eof = s.auto.eof /\ a.ignore_reset = s.auto.ignore_reset
  BY <1>1, ZenonT(120) DEF Autos, Modes
<1> HIDE DEF t
<1>3. /\ t \in States /\ t.auto = a /\ t.res = s.res /\ t.kbuf = s.kbuf /\ t.past = s.past
      /\ t.resetting = s.resetting
  BY <1>1, <1>2 DEF States, t
<1>4. Advanced(s, t)
  BY <1>2, <1>3, AdvanceWaits
<1> QED
  BY <1>4 DEF t

\* The modes that only wait for a text on the screen, and the one that injects.
LEMMA AdvanceWaiting ==
  ASSUME NEW s, Looking(s), NEW t,
         \/ s.auto.mode = "PRESSPLAYONTAPE" /\ t \in advance_pressplayontape(s)
         \/ s.auto.mode = "WAITSEARCHINGFOR" /\ t \in advance_waitsearchingfor(s)
         \/ s.auto.mode = "WAITLOADING" /\ t \in advance_waitloading(s)
         \/ s.auto.mode = "INJECT" /\ t \in advance_inject(s)
  PROVE  Advanced(s, t)
<1>1. CASE s.auto.mode = "PRESSPLAYONTAPE" /\ t \in advance_pressplayontape(s)
  <2>1. PICK c \in SeesLine("press play") :
          t = (CASE c = "YES" -> [s EXCEPT !.auto.mode = "LOADINGTAPE", !.auto.play = TRUE]
                 [] c = "NO" -> Off(s)
                 [] OTHER -> s)
    BY <1>1 DEF advance_pressplayontape
  <2>2. "LOADINGTAPE" \in Waiting /\ s.auto.mode \in Waiting
    BY <1>1 DEF Waiting
  <2>3. Advanced(s, s) /\ Advanced(s, Off(s))
        /\ Advanced(s, [s EXCEPT !.auto.mode = "LOADINGTAPE", !.auto.play = TRUE])
    BY <2>2, AdvanceNone, AdvanceOff, AdvanceMoves
  <2> QED
    BY <2>1, <2>3
<1>2. CASE s.auto.mode = "WAITSEARCHINGFOR" /\ t \in advance_waitsearchingfor(s)
  <2>1. PICK c \in SeesLine("searching") :
          t = (CASE c = "YES" -> [s EXCEPT !.auto.mode = "WAITLOADING"]
                 [] c = "NO" -> Off(s)
                 [] OTHER -> s)
    BY <1>2 DEF advance_waitsearchingfor
  <2>2. "WAITLOADING" \in Waiting /\ s.auto.mode \in Waiting
    BY <1>2 DEF Waiting
  <2>3. Advanced(s, s) /\ Advanced(s, Off(s)) /\ Advanced(s, [s EXCEPT !.auto.mode = "WAITLOADING"])
    BY <2>2, AdvanceNone, AdvanceOff, AdvanceMoves
  <2> QED
    BY <2>1, <2>3
<1>3. CASE s.auto.mode = "WAITLOADING" /\ t \in advance_waitloading(s)
  <2>1. PICK c \in SeesLine("loading") :
          t = (CASE c = "YES" -> [s EXCEPT !.auto.mode = "WAITLOADREADY", !.auto.entered_rom = FALSE]
                 [] c = "NO" -> IF kernal.at = "searching" THEN s ELSE Off(s)
                 [] OTHER -> s)
    BY <1>3 DEF advance_waitloading
  <2>2. "WAITLOADREADY" \in Waiting /\ s.auto.mode \in Waiting
    BY <1>3 DEF Waiting
  <2>3. Advanced(s, s) /\ Advanced(s, Off(s))
        /\ Advanced(s, [s EXCEPT !.auto.mode = "WAITLOADREADY", !.auto.entered_rom = FALSE])
    BY <2>2, AdvanceNone, AdvanceOff, AdvanceMoves
  <2> QED
    BY <2>1, <2>3
<1>4. CASE s.auto.mode = "INJECT" /\ t \in advance_inject(s)
  <2>1. "WAITLOADREADY" \in Waiting
    BY DEF Waiting
  <2>2. Advanced(s, Off(s)) /\ Advanced(s, [s EXCEPT !.auto.mode = "WAITLOADREADY"])
    BY <1>4, <2>1, AdvanceOff, AdvanceMoves
  <2> QED
    BY <1>4, <2>2 DEF advance_inject
<1> QED
  BY <1>1, <1>2, <1>3, <1>4

\* A snapshot is loaded when the machine is ready.
LEMMA AdvanceSnapshot ==
  ASSUME NEW s, Looking(s), s.auto.mode = "HASSNAPSHOT", NEW t \in advance_hassnapshot(s)
  PROVE  Advanced(s, t)
<1>1. s \in States /\ s.auto \in Autos
  BY StateOf DEF Looking
<1>2. ASSUME NEW m \in {"DONE", "ERROR"} PROVE Advanced(s, [s EXCEPT !.auto.mode = m])
  <2> DEFINE a == [s.auto EXCEPT !.mode = m]  u == [s EXCEPT !.auto = a]
  <2>1. /\ a \in Autos /\ a.mode = m /\ a.orig_tde = s.auto.orig_tde
        /\ a.attention = s.auto.attention /\ a.eof = s.auto.eof /\ a.ignore_reset = s.auto.ignore_reset
    BY <1>1 DEF Autos, Modes, Ended
  <2> HIDE DEF a
  <2>2. /\ u \in States /\ u.auto = a /\ u.res = s.res /\ u.kbuf = s.kbuf /\ u.past = s.past
        /\ u.resetting = s.resetting
    BY <1>1, <2>1 DEF States
  <2>3. [s EXCEPT !.auto.mode = m] = u
    BY <1>1 DEF a
  <2> HIDE DEF u
  <2>4. m \in Ended /\ s.auto.mode \notin Ended
    BY DEF Ended
  <2>5. ASSUME ~s.past.disturbed
        PROVE  Settings(u) /\ Text(u, kernal) /\ ~(s.res.HandleTde /\ s.res.VirtualDevices /\ s.past.noted)
    <3>1. Settings(s) /\ Text(s, kernal) /\ ~s.resetting
      BY <2>5 DEF Looking, Whole
    <3>2. s.past.kind = "snapshot" /\ ~(s.res.HandleTde /\ s.res.VirtualDevices /\ s.past.noted)
      BY <2>4, <3>1 DEF Settings
    <3>3. Settings(u)
      BY <1>1, <2>1, <2>2, <2>4, <3>1, <3>2, SettingsEnd
    <3>4. Text(u, kernal)
      BY <1>1, <2>1, <2>2, <2>4, <3>1, TextSame
    <3> QED
      BY <3>2, <3>3, <3>4
  <2>6. Advanced(s, u)
    BY <2>1, <2>2, <2>5 DEF Advanced, Looking, Kept, Whole
  <2> QED
    BY <2>3, <2>6
<1>3. PICK c \in SeesReady :
        t = (CASE c = "YES" -> [s EXCEPT !.auto.mode = "DONE"]
               [] c = "NO" -> [s EXCEPT !.auto.mode = "ERROR"]
               [] OTHER -> s)
  BY DEF advance_hassnapshot
<1>4. Advanced(s, s)
  BY AdvanceNone
<1> QED
  BY <1>2, <1>3, <1>4

\* LOAD for a tape.
LEMMA AdvanceTape ==
  ASSUME NEW s, Looking(s), s.auto.mode = "HASTAPE", NEW t \in advance_hastape(s)
  PROVE  Advanced(s, t)
<1>1. s \in States /\ Kept(s) /\ age = 2
  BY DEF Looking
<1> DEFINE f == Feed(s, Load)
<1>2. PICK c \in SeesReady :
        t = (CASE c = "YES" -> [f EXCEPT !.auto.mode = IF s.past.kind = "tap" THEN "PRESSPLAYONTAPE"
                                                       ELSE "LOADINGTAPE",
                                         !.auto.entered_rom = FALSE]
               [] c = "NO" -> Off(s)
               [] OTHER -> s)
  BY DEF advance_hastape
<1>3. Advanced(s, s) /\ Advanced(s, Off(s))
  BY AdvanceNone, AdvanceOff
<1>4. CASE c = "YES"
  <2>1. /\ f \in States /\ Kept(f) /\ f.auto = s.auto /\ f.res = s.res /\ f.resetting = s.resetting
        /\ f.past = [s.past EXCEPT !.fed = f.past.fed]
        /\ f.past.fed \in {s.past.fed, s.past.fed \o Load}
        /\ f.past.fed # s.past.fed /\ Initialised => f.kbuf.buffer # <<>>
    BY <1>1, Commands, FeedState
  <2> HIDE DEF f
  <2> DEFINE m == IF s.past.kind = "tap" THEN "PRESSPLAYONTAPE" ELSE "LOADINGTAPE"
             a == [f.auto EXCEPT !.mode = m, !.entered_rom = FALSE]
  <2>2. m \in Waiting
    BY DEF Waiting
  <2>3. t = [f EXCEPT !.auto.mode = m, !.auto.entered_rom = FALSE]
    BY <1>2, <1>4
  <2> HIDE DEF m
  <2>4. f.auto \in Autos /\ f.past \in Pasts /\ s.past \in Pasts
    BY <1>1, <2>1, StateOf
  <2>5. /\ a \in Autos /\ a.mode = m /\ a.orig_warp = s.auto.orig_warp /\ a.orig_tde = s.auto.orig_tde
        /\ a.attention = s.auto.attention /\ a.eof = s.auto.eof /\ a.ignore_reset = s.auto.ignore_reset
    BY <2>1, <2>2, <2>4 DEF Autos, Modes
  <2>6. t = [f EXCEPT !.auto = a]
    BY <2>1, <2>3 DEF States
  <2> HIDE DEF a
  <2>7. /\ t \in States /\ t.auto = a /\ t.res = s.res /\ t.kbuf = f.kbuf /\ t.past = f.past
        /\ t.resetting = s.resetting
    BY <2>1, <2>5, <2>6 DEF States
  <2>8. /\ t.past.kind = s.past.kind /\ t.past.warp = s.past.warp /\ t.past.tde = s.past.tde
        /\ t.past.noted = s.past.noted /\ t.past.lines = s.past.lines
        /\ t.past.disturbed = s.past.disturbed
    BY <2>1, <2>4, <2>7 DEF Pasts
  <2>9. Initialised
    BY <1>1 DEF Initialised
  <2>10. "HASTAPE" \in Booting /\ "LOADINGDISK" \notin Waiting /\ "ERROR" \notin Waiting
    BY DEF Booting, Waiting
  <2>11. ASSUME ~s.past.disturbed PROVE Settings(t) /\ Text(t, kernal)
    <3>1. Settings(s) /\ Text(s, kernal) /\ ~s.resetting /\ kernal \in Kernals
      BY <2>11 DEF Looking, Whole
    <3>2. Settings(t)
      BY <1>1, <2>2, <2>5, <2>7, <2>8, <3>1, SettingsSame
    <3>3. kernal.at = "ready"
      BY <1>4, ReadyIs
    <3>4. t.past.fed = s.past.fed \/ (t.past.fed = s.past.fed \o Load /\ t.kbuf.buffer # <<>>)
      BY <2>1, <2>7, <2>9
    <3>5. Text(t, kernal)
      BY <1>1, <2>2, <2>5, <2>7, <2>8, <2>10, <3>1, <3>3, <3>4, TextLoads
    <3> QED
      BY <3>2, <3>5
  <2>12. Kept(t)
    BY <2>1, <2>7 DEF Kept
  <2> QED
    BY <2>2, <2>5, <2>7, <2>8, <2>10, <2>11, <2>12 DEF Advanced, Whole
<1> QED
  BY <1>2, <1>3, <1>4

\* LOAD for a disk: the user's choice of true drive emulation is remembered, and changed.
LEMMA AdvanceDisk ==
  ASSUME NEW s, Looking(s), s.auto.mode = "HASDISK", NEW t \in advance_hasdisk(s)
  PROVE  Advanced(s, t)
<1> DEFINE tde   == IF s.res.HandleTde THEN ~s.res.VirtualDevices ELSE s.res.DriveTrueEmulation
           traps == IF s.res.HandleTde THEN s.res.VirtualDevices ELSE ~s.res.DriveTrueEmulation
           noted == [s EXCEPT !.auto.orig_tde = {s.res.DriveTrueEmulation}, !.past.noted = TRUE]
           begun == [noted EXCEPT !.res.DriveTrueEmulation = tde]
           typed == Feed(begun, Load)
<1>1. /\ s \in States /\ Kept(s) /\ age = 2 /\ Initialised /\ s.auto \in Autos /\ s.res \in Ress
      /\ s.past \in Pasts /\ kernal \in Kernals /\ ~s.resetting
  BY StateOf DEF Looking, Initialised
<1>2. PICK c \in SeesReady :
        t = (CASE c = "YES" /\ traps -> [typed EXCEPT !.auto.mode = "LOADINGDISK", !.auto.attention = TRUE]
               [] c = "YES" /\ ~traps /\ s.res.AutostartWarp -> [typed EXCEPT !.auto.mode = "WAITSEARCHINGFOR"]
               [] c = "YES" /\ ~traps /\ ~s.res.AutostartWarp -> [TypeRun(typed) EXCEPT !.auto.mode = "DONE"]
               [] c = "NO" -> Off(noted)
               [] OTHER -> s)
  BY DEF advance_hasdisk
<1>3. tde \in BOOLEAN /\ traps \in BOOLEAN /\ (s.res.HandleTde /\ s.res.VirtualDevices => traps)
      /\ (~s.res.HandleTde => tde = s.res.DriveTrueEmulation) /\ (traps => ~tde)
  BY <1>1 DEF Ress
<1> HIDE DEF traps, tde
<1> DEFINE a == [s.auto EXCEPT !.orig_tde = {s.res.DriveTrueEmulation}]
           p == [s.past EXCEPT !.noted = TRUE]
           r == [s.res EXCEPT !.DriveTrueEmulation = tde]
<1>4. /\ a \in Autos /\ a.mode = s.auto.mode /\ a.orig_warp = s.auto.orig_warp
      /\ a.orig_tde = {s.res.DriveTrueEmulation}
      /\ a.attention = s.auto.attention /\ a.eof = s.auto.eof /\ a.ignore_reset = s.auto.ignore_reset
  BY <1>1 DEF Autos, Ress
<1>5. /\ p \in Pasts /\ p.noted /\ p.kind = s.past.kind /\ p.warp = s.past.warp /\ p.tde = s.past.tde
      /\ p.lines = s.past.lines /\ p.fed = s.past.fed /\ p.disturbed = s.past.disturbed
  BY <1>1 DEF Pasts
<1>6. /\ r \in Ress /\ r.DriveTrueEmulation = tde /\ r.HandleTde = s.res.HandleTde
      /\ r.VirtualDevices = s.res.VirtualDevices /\ r.WarpMode = s.res.WarpMode
      /\ r.AutostartWarp = s.res.AutostartWarp
  BY <1>1, <1>3 DEF Ress
<1>7. noted = [auto |-> a, res |-> s.res, kbuf |-> s.kbuf, resetting |-> s.resetting, past |-> p]
  <2>1. noted = [s EXCEPT !.auto = a, !.past = p]
    OBVIOUS
  <2> HIDE DEF noted, a, p
  <2> QED
    BY <1>1, <2>1 DEF States
<1>8. begun = [auto |-> a, res |-> r, kbuf |-> s.kbuf, resetting |-> s.resetting, past |-> p]
  <2> HIDE DEF noted, a, p
  <2> QED
    BY <1>7
<1> HIDE DEF a, p, r
<1>9. noted \in States /\ begun \in States /\ Kept(noted) /\ Kept(begun)
  BY <1>1, <1>4, <1>5, <1>6, <1>7, <1>8, StateOf DEF States, Kept
<1> HIDE DEF noted, begun
<1>10. Advanced(s, s)
  BY AdvanceNone
<1>11. "HASDISK" \in Booting /\ "HASDISK" \notin Ended
  BY DEF Booting, Ended
<1>12. CASE c = "NO"
  <2>1. t = Off(noted)
    BY <1>2, <1>12
  <2>2. /\ t = [auto |-> [a EXCEPT !.mode = "ERROR"], res |-> Unwarped(noted), kbuf |-> s.kbuf,
                resetting |-> s.resetting, past |-> p]
        /\ t \in States
    BY <1>7, <1>9, <2>1, EndState
  <2>3. /\ t.auto.mode = "ERROR" /\ t.auto.orig_tde = {s.res.DriveTrueEmulation}
        /\ t.auto.attention = s.auto.attention /\ t.auto.eof = s.auto.eof
        /\ t.auto.ignore_reset = s.auto.ignore_reset /\ t.past = p /\ t.kbuf = s.kbuf
        /\ t.resetting = s.resetting /\ t.res = Unwarped(s)
    BY <1>4, <1>7, <2>2 DEF Autos, Unwarped
  <2>4. /\ t.res.HandleTde = s.res.HandleTde /\ t.res.VirtualDevices = s.res.VirtualDevices
        /\ t.res.DriveTrueEmulation = s.res.DriveTrueEmulation /\ t.res.WarpMode = Unwarped(s).WarpMode
    BY <1>1, <2>3 DEF Unwarped, Ress
  <2>5. "ERROR" \in Ended
    BY DEF Ended
  <2>6. ASSUME ~s.past.disturbed
        PROVE  Settings(t) /\ Text(t, kernal) /\ s.res.DriveTrueEmulation = s.past.tde
    <3>1. Settings(s) /\ Text(s, kernal)
      BY <2>6 DEF Looking, Whole
    <3>2. s.res.DriveTrueEmulation = s.past.tde
      BY <3>1 DEF Settings
    <3>3. Settings(t)
      BY <1>1, <1>5, <1>11, <2>2, <2>3, <2>4, <2>5, <3>1, <3>2, SettingsEnd
    <3>4. Text(t, kernal)
      BY <1>1, <1>5, <2>2, <2>3, <2>4, <2>5, <3>1, TextSame
    <3> QED
      BY <3>2, <3>3, <3>4
  <2>7. Kept(t)
    BY <1>1, <1>5, <2>3 DEF Kept
  <2> QED
    BY <1>5, <2>2, <2>3, <2>4, <2>6, <2>7 DEF Advanced, Whole
<1>13. CASE c = "YES"
  <2>1. /\ typed \in States /\ Kept(typed) /\ typed.auto = a /\ typed.res = r
        /\ typed.resetting = s.resetting
        /\ typed.past = [p EXCEPT !.fed = typed.past.fed]
        /\ typed.past.fed \in {s.past.fed, s.past.fed \o Load}
        /\ typed.past.fed # s.past.fed => typed.kbuf.buffer # <<>>
    BY <1>1, <1>5, <1>8, <1>9, Commands, FeedState, ZenonT(60)
  <2> HIDE DEF typed
  <2>2. kernal.at = "ready"
    BY <1>13, ReadyIs
  <2>3. ASSUME NEW q \in States, Kept(q), q.auto = a, q.res = r, q.resetting = s.resetting,
               q.past = [p EXCEPT !.fed = q.past.fed],
               NEW m, NEW att, t = [q EXCEPT !.auto.mode = m, !.auto.attention = att],
               \/ m = "DONE" /\ att = s.auto.attention /\ ~traps /\ ~s.res.AutostartWarp
               \/ m = "WAITSEARCHINGFOR" /\ att = s.auto.attention /\ ~traps /\ s.res.AutostartWarp
               \/ m = "LOADINGDISK" /\ att = TRUE /\ traps,
               \/ q.past.fed = s.past.fed
               \/ q.past.fed = s.past.fed \o Load /\ q.kbuf.buffer # <<>>
               \/ m = "DONE" /\ q.past.fed \in {s.past.fed \o Run, (s.past.fed \o Load) \o Run,
                                                 s.past.fed \o Load}
        PROVE  Advanced(s, t)
    <3> DEFINE b == [a EXCEPT !.mode = m, !.attention = att]
    <3>1. m \in Modes /\ att \in BOOLEAN /\ m \notin Booting /\ m # "ERROR"
      BY <1>1, <2>3 DEF Modes, Ended, Waiting, Booting, Autos
    <3>2. /\ b \in Autos /\ b.mode = m /\ b.attention = att /\ b.orig_warp = s.auto.orig_warp
          /\ b.orig_tde = {s.res.DriveTrueEmulation} /\ b.eof = s.auto.eof
          /\ b.ignore_reset = s.auto.ignore_reset
      BY <1>4, <3>1 DEF Autos
    <3>3. t = [q EXCEPT !.auto = b]
      BY <2>3 DEF States
    <3> HIDE DEF b
    <3>4. /\ t \in States /\ t.auto = b /\ t.res = r /\ t.kbuf = q.kbuf /\ t.past = q.past
          /\ t.resetting = s.resetting
      BY <2>3, <3>2, <3>3 DEF States
    <3>5. /\ t.past.kind = s.past.kind /\ t.past.warp = s.past.warp /\ t.past.tde = s.past.tde
          /\ t.past.noted /\ t.past.lines = s.past.lines /\ t.past.disturbed = s.past.disturbed
      BY <1>5, <2>3, <3>4, ZenonT(120) DEF Pasts
    <3>6. Kept(t)
      BY <2>3, <3>4 DEF Kept
    <3>7. ASSUME ~s.past.disturbed PROVE Settings(t) /\ Text(t, kernal)
      <4>1. Settings(s) /\ Text(s, kernal)
        BY <3>7 DEF Looking, Whole
      <4>2. s.past.kind = "disk" /\ s.res.DriveTrueEmulation = s.past.tde
        BY <4>1 DEF Settings
      <4>3. IF ~s.res.AutostartWarp THEN s.res.WarpMode = s.past.warp
            ELSE s.res.WarpMode /\ s.auto.orig_warp = s.past.warp
        BY <1>11, <4>1, <4>2 DEF Settings
      <4>4. m \in Ended <=> m = "DONE"
        BY <2>3, <3>1 DEF Ended
      <4>5. IF t.auto.mode \in Ended \/ ~t.res.AutostartWarp THEN t.res.WarpMode = t.past.warp
            ELSE t.res.WarpMode /\ t.auto.orig_warp = t.past.warp
        BY <1>6, <2>3, <3>2, <3>4, <3>5, <4>3, <4>4, ZenonT(120)
      <4>6. ~t.res.HandleTde => t.res.DriveTrueEmulation = t.past.tde
        BY <1>3, <1>6, <3>4, <3>5, <4>2
      <4>7. t.res.HandleTde /\ t.res.VirtualDevices => m = "LOADINGDISK"
        BY <1>3, <1>6, <2>3, <3>4
      <4>8. m \notin {"HASDISK", "HASSNAPSHOT"} /\ t.past.kind # "snapshot"
        BY <2>3, <3>5, <4>2
      <4>9. Settings(t)
        BY <3>2, <3>4, <3>5, <4>2, <4>5, <4>6, <4>7, <4>8 DEF Settings
      <4>10. \/ t.past.fed = s.past.fed
             \/ t.past.fed = s.past.fed \o Load /\ t.kbuf.buffer # <<>>
             \/ t.auto.mode = "DONE" /\ t.past.fed \in {s.past.fed \o Run, (s.past.fed \o Load) \o Run,
                                                        s.past.fed \o Load}
        BY <2>3, <3>2, <3>4
      <4>11. \/ t.auto.mode \in Waiting \cup {"DONE"} /\ t.auto.attention = s.auto.attention
             \/ /\ t.auto.mode = "LOADINGDISK" /\ t.auto.attention
                /\ t.past.kind = "disk" /\ ~t.res.DriveTrueEmulation
        BY <1>3, <1>6, <2>3, <3>2, <3>4, <3>5, <4>2 DEF Waiting
      <4>12. Text(t, kernal)
        BY <1>1, <1>11, <2>2, <3>2, <3>4, <3>5, <4>1, <4>10, <4>11, TextLoads
      <4> QED
        BY <4>9, <4>12
    <3> QED
      BY <1>6, <3>1, <3>2, <3>4, <3>5, <3>6, <3>7 DEF Advanced, Whole
  <2>4. typed.auto \in Autos /\ typed.auto.attention = s.auto.attention
    BY <1>4, <2>1
  <2>5. CASE traps
    <3>1. t = [typed EXCEPT !.auto.mode = "LOADINGDISK", !.auto.attention = TRUE]
      BY <1>2, <1>13, <2>5
    <3> QED
      BY <2>1, <2>3, <2>5, <3>1
  <2>6. CASE ~traps /\ s.res.AutostartWarp
    <3>1. t = [typed EXCEPT !.auto.mode = "WAITSEARCHINGFOR"]
      BY <1>2, <1>13, <2>6
    <3>2. t = [typed EXCEPT !.auto.mode = "WAITSEARCHINGFOR", !.auto.attention = s.auto.attention]
      BY <2>1, <2>4, <3>1 DEF States, Autos
    <3> QED
      BY <2>1, <2>3, <2>6, <3>2
  <2>7. CASE ~traps /\ ~s.res.AutostartWarp
    <3> DEFINE q == TypeRun(typed)
    <3>1. t = [q EXCEPT !.auto.mode = "DONE"]
      BY <1>2, <1>13, <2>7
    <3>2. /\ q \in States /\ Kept(q) /\ q.auto = a /\ q.res = r /\ q.resetting = s.resetting
          /\ q.past = [p EXCEPT !.fed = q.past.fed]
          /\ q.past.fed \in {typed.past.fed, typed.past.fed \o Run}
      <4>1. CASE typed.auto.run_mode = "RUN"
        <5>1. q = Feed(typed, Run)
          BY <4>1 DEF TypeRun
        <5> HIDE DEF q
        <5>2. /\ q \in States /\ Kept(q) /\ q.auto = typed.auto /\ q.res = typed.res
              /\ q.resetting = typed.resetting /\ q.past = [typed.past EXCEPT !.fed = q.past.fed]
              /\ q.past.fed \in {typed.past.fed, typed.past.fed \o Run}
          BY <2>1, <5>1, Commands, FeedState
        <5>3. q.past = [p EXCEPT !.fed = q.past.fed]
          BY <1>5, <2>1, <5>2 DEF Pasts
        <5> QED
          BY <2>1, <5>2, <5>3
      <4>2. CASE typed.auto.run_mode # "RUN"
        BY <2>1, <4>2 DEF TypeRun
      <4> QED
        BY <4>1, <4>2
    <3> HIDE DEF q
    <3>3. t = [q EXCEPT !.auto.mode = "DONE", !.auto.attention = s.auto.attention]
      BY <1>4, <3>1, <3>2 DEF States, Autos
    <3>4. q.past.fed \in {s.past.fed, s.past.fed \o Load, s.past.fed \o Run, (s.past.fed \o Load) \o Run}
      BY <2>1, <3>2
    <3> QED
      BY <2>3, <2>7, <3>2, <3>3, <3>4
  <2> QED
    BY <2>5, <2>6, <2>7
<1>14. CASE c \notin {"YES", "NO"}
  BY <1>2, <1>10, <1>14
<1> QED
  BY <1>12, <1>13, <1>14

\* One look of autostart at the screen.
LEMMA AdvanceKeeps ==
  ASSUME NEW s \in States, Kept(s), Whole(s), Seen(s), kernal \in Kernals, age \in 0 .. 2,
         s.res.HandleTde = res.HandleTde,
         ~s.resetting \/ s.auto.mode \in Ended \/ s.auto.wait_for_reset,
         NEW u \in autostart_advance(s)
  PROVE  /\ u \in States /\ Kept(u) /\ Whole(u)
         /\ age < 2 => u.kbuf = s.kbuf
<1> DEFINE known == IF s.auto.orig_tde = {}
                    THEN [s EXCEPT !.auto.orig_tde = {s.res.DriveTrueEmulation}] ELSE s
           after == CASE known.auto.mode = "HASTAPE" -> advance_hastape(known)
                      [] known.auto.mode = "PRESSPLAYONTAPE" -> advance_pressplayontape(known)
                      [] known.auto.mode \in {"LOADINGTAPE", "WAITLOADREADY"} -> advance_waitloadready(known)
                      [] known.auto.mode = "HASDISK" -> advance_hasdisk(known)
                      [] known.auto.mode = "HASSNAPSHOT" -> advance_hassnapshot(known)
                      [] known.auto.mode = "WAITLOADING" -> advance_waitloading(known)
                      [] known.auto.mode = "WAITSEARCHINGFOR" -> advance_waitsearchingfor(known)
                      [] known.auto.mode = "INJECT" -> advance_inject(known)
                      [] OTHER -> {known}
<1>1. s.auto \in Autos /\ s.res \in Ress /\ s.past \in Pasts
  BY StateOf
<1>2. u \in (IF age < 2 THEN {[known EXCEPT !.auto.wait_for_reset = FALSE]}
             ELSE IF known.auto.wait_for_reset THEN {known}
             ELSE {IF t.auto.mode = "ERROR" /\ res.HandleTde
                      /\ known.auto.mode \notin Ended \cup {"LOADINGDISK"}
                   THEN [t EXCEPT !.res.DriveTrueEmulation = TRUE \in t.auto.orig_tde] ELSE t : t \in after})
  BY DEF autostart_advance
<1> DEFINE o == IF s.auto.orig_tde = {} THEN {s.res.DriveTrueEmulation} ELSE s.auto.orig_tde
           a == [s.auto EXCEPT !.orig_tde = o]
<1>3. /\ a \in Autos /\ a.orig_tde = o /\ a.mode = s.auto.mode /\ a.orig_warp = s.auto.orig_warp
      /\ a.attention = s.auto.attention /\ a.eof = s.auto.eof /\ a.ignore_reset = s.auto.ignore_reset
      /\ a.wait_for_reset = s.auto.wait_for_reset
  BY <1>1 DEF Autos, Ress
<1>4. known = [s EXCEPT !.auto = a]
  <2>1. CASE s.auto.orig_tde = {}
    BY <2>1
  <2>2. CASE s.auto.orig_tde # {}
    <3>1. a = s.auto
      BY <1>1, <2>2 DEF Autos
    <3> HIDE DEF a
    <3> QED
      BY <2>2, <3>1 DEF States
  <2> QED
    BY <2>1, <2>2
<1> HIDE DEF known, after, a
<1>5. /\ known \in States /\ known.auto = a /\ known.res = s.res /\ known.kbuf = s.kbuf
      /\ known.resetting = s.resetting /\ known.past = s.past
  BY <1>3, <1>4 DEF States
\* Whatever changes of the modes' variables but these two, nothing that was said changes.
<1>6. ASSUME NEW b \in Autos, b.mode = s.auto.mode, b.orig_warp = s.auto.orig_warp, b.orig_tde = o,
             b.attention = s.auto.attention, b.eof = s.auto.eof, b.ignore_reset = s.auto.ignore_reset,
             NEW v \in States, v.auto = b, v.res = s.res, v.kbuf = s.kbuf, v.resetting = s.resetting,
             v.past = s.past
      PROVE  Kept(v) /\ Whole(v)
  <2>1. Kept(v)
    BY <1>6 DEF Kept
  <2>2. ASSUME ~s.past.disturbed PROVE Settings(v) /\ Text(v, kernal)
    <3>1. Settings(s) /\ Text(s, kernal)
      BY <2>2 DEF Whole
    <3>2. s.auto.mode = "LOADINGDISK" /\ s.res.HandleTde /\ s.res.VirtualDevices =>
            v.auto.orig_tde = s.auto.orig_tde
      BY <1>6, <3>1 DEF Settings
    <3>3. Settings(v)
      BY <1>6, <3>1, <3>2, SettingsSame
    <3>4. Text(v, kernal)
      BY <1>6, <3>1, TextSame
    <3> QED
      BY <3>3, <3>4
  <2> QED
    BY <1>6, <2>1, <2>2 DEF Whole
<1> HIDE DEF o
<1>7. Kept(known) /\ Whole(known)
  BY <1>3, <1>5, <1>6
<1>8. CASE age < 2
  <2> DEFINE b == [a EXCEPT !.wait_for_reset = FALSE]
  <2>1. u = [known EXCEPT !.auto.wait_for_reset = FALSE]
    BY <1>2, <1>8
  <2>2. /\ b \in Autos /\ b.orig_tde = o /\ b.mode = s.auto.mode /\ b.orig_warp = s.auto.orig_warp
        /\ b.attention = s.auto.attention /\ b.eof = s.auto.eof /\ b.ignore_reset = s.auto.ignore_reset
    BY <1>3 DEF Autos
  <2>3. u = [known EXCEPT !.auto = b]
    BY <1>5, <2>1 DEF States
  <2> HIDE DEF b
  <2>4. /\ u \in States /\ u.auto = b /\ u.res = s.res /\ u.kbuf = s.kbuf
        /\ u.resetting = s.resetting /\ u.past = s.past
    BY <1>5, <2>2, <2>3 DEF States
  <2>5. Kept(u) /\ Whole(u)
    BY <1>6, <2>2, <2>4
  <2> QED
    BY <2>4, <2>5
<1>9. CASE age = 2 /\ known.auto.wait_for_reset
  BY <1>2, <1>5, <1>7, <1>9
<1>10. CASE age = 2 /\ ~known.auto.wait_for_reset
  <2>1. PICK t \in after :
          u = IF t.auto.mode = "ERROR" /\ res.HandleTde /\ known.auto.mode \notin Ended \cup {"LOADINGDISK"}
              THEN [t EXCEPT !.res.DriveTrueEmulation = TRUE \in t.auto.orig_tde] ELSE t
    <3>1. u \in {IF t.auto.mode = "ERROR" /\ res.HandleTde
                     /\ known.auto.mode \notin Ended \cup {"LOADINGDISK"}
                  THEN [t EXCEPT !.res.DriveTrueEmulation = TRUE \in t.auto.orig_tde] ELSE t : t \in after}
      <4>1. ~(age < 2) /\ ~known.auto.wait_for_reset
        BY <1>10
      <4> QED
        BY <1>2, <4>1, Zenon
    <3> QED
      BY <3>1
  <2>2. CASE known.auto.mode \in Ended \cup {"LOADINGDISK"}
    <3>1. after = {known}
      BY <2>2 DEF after, Ended
    <3>2. u = known
      BY <2>1, <2>2, <3>1
    <3> QED
      BY <1>5, <1>7, <1>10, <3>2
  <2>3. CASE known.auto.mode \notin Ended \cup {"LOADINGDISK"}
    <3>1. Seen(known)
      BY <1>3, <1>5 DEF Seen
    <3>2. Looking(known)
      BY <1>3, <1>5, <1>7, <1>10, <2>3, <3>1 DEF Looking
    <3>3. known.auto.mode \in Booting \cup Waiting
      BY <1>3, <1>5, <2>3 DEF Autos, Modes
    <3>4. Advanced(known, t)
      <4>1. CASE known.auto.mode = "HASTAPE"
        BY <2>1, <3>2, <4>1, AdvanceTape DEF after
      <4>2. CASE known.auto.mode = "HASDISK"
        BY <2>1, <3>2, <4>2, AdvanceDisk DEF after
      <4>3. CASE known.auto.mode = "HASSNAPSHOT"
        BY <2>1, <3>2, <4>3, AdvanceSnapshot DEF after
      <4>4. CASE known.auto.mode \in {"LOADINGTAPE", "WAITLOADREADY"}
        BY <2>1, <3>2, <4>4, AdvanceLoadReady DEF after
      <4>5. CASE known.auto.mode = "INJECT"
        BY <2>1, <3>2, <4>5, AdvanceWaiting DEF after
      <4>6. CASE known.auto.mode = "PRESSPLAYONTAPE"
        BY <2>1, <3>2, <4>6, AdvanceWaiting DEF after
      <4>7. CASE known.auto.mode = "WAITLOADING"
        BY <2>1, <3>2, <4>7, AdvanceWaiting DEF after
      <4>8. CASE known.auto.mode = "WAITSEARCHINGFOR"
        BY <2>1, <3>2, <4>8, AdvanceWaiting DEF after
      <4> QED
        BY <3>3, <4>1, <4>2, <4>3, <4>4, <4>5, <4>6, <4>7, <4>8 DEF Booting, Waiting
    <3>5. t \in States /\ Kept(t) /\ Whole(t) /\ t.res.HandleTde = s.res.HandleTde
      BY <1>5, <3>4 DEF Advanced
    <3>6. CASE ~(t.auto.mode = "ERROR" /\ res.HandleTde)
      BY <1>10, <2>1, <3>5, <3>6
    <3>7. CASE t.auto.mode = "ERROR" /\ res.HandleTde
      <4> DEFINE e == TRUE \in t.auto.orig_tde  r == [t.res EXCEPT !.DriveTrueEmulation = e]
      <4>1. u = [t EXCEPT !.res = r]
        BY <2>1, <2>3, <3>7
      <4>2. t.auto \in Autos /\ t.res \in Ress /\ t.past \in Pasts
        BY <3>5, StateOf
      <4>3. /\ r \in Ress /\ r.DriveTrueEmulation = e /\ r.HandleTde = t.res.HandleTde
            /\ r.VirtualDevices = t.res.VirtualDevices /\ r.WarpMode = t.res.WarpMode
            /\ r.AutostartWarp = t.res.AutostartWarp
        <5>1. e \in BOOLEAN
          OBVIOUS
        <5> HIDE DEF e
        <5> QED
          BY <4>2, <5>1 DEF Ress
      <4> HIDE DEF r
      <4>4. /\ u \in States /\ u.auto = t.auto /\ u.res = r /\ u.kbuf = t.kbuf /\ u.past = t.past
            /\ u.resetting = t.resetting
        BY <3>5, <4>1, <4>3 DEF States
      <4>5. ASSUME ~t.past.disturbed PROVE Settings(u) /\ Text(u, kernal)
        <5>1. Settings(t) /\ Text(t, kernal)
          BY <3>5, <4>5 DEF Whole
        <5>2. t.res.HandleTde /\ t.res.VirtualDevices /\ t.past.noted => e = t.past.tde
          <6>1. t.res.HandleTde /\ t.res.VirtualDevices /\ t.past.noted =>
                  t.auto.orig_tde = {t.past.tde}
            BY <3>4, <3>7, <4>5 DEF Advanced
          <6>2. t.past.tde \in BOOLEAN
            BY <4>2 DEF Pasts
          <6>3. t.res.HandleTde /\ t.res.VirtualDevices /\ t.past.noted => (e <=> t.past.tde)
            BY <6>1, <6>2
          <6>4. e \in BOOLEAN
            OBVIOUS
          <6> HIDE DEF e
          <6> QED
            BY <6>2, <6>3, <6>4
        <5>3. "ERROR" \in Ended
          BY DEF Ended
        <5>4. Settings(u)
          BY <3>5, <3>7, <4>3, <4>4, <5>1, <5>2, <5>3 DEF Settings
        <5>5. ~t.auto.attention
          BY <3>7, <5>1 DEF Text
        <5>6. Text(u, kernal)
          BY <3>5, <4>3, <4>4, <5>1, <5>5, TextSame
        <5> QED
          BY <5>4, <5>6
      <4>6. Kept(u)
        BY <3>5, <4>4 DEF Kept
      <4> QED
        BY <1>10, <4>4, <4>5, <4>6 DEF Whole
    <3> QED
      BY <3>6, <3>7
  <2> QED
    BY <2>2, <2>3
<1> QED
  BY <1>8, <1>9, <1>10

-----------------------------------------------------------------------------
(* The Kernal's buffer. *)

\* A queue whose Kernal's buffer holds something else.
LEMMA WithBuffer ==
  ASSUME NEW k \in Queues, NEW b \in Seq(Chars), Len(b) <= buffer_size
  PROVE  LET e == [k EXCEPT !.buffer = b] IN
         /\ e \in Queues /\ e.queue = k.queue /\ e.head_idx = k.head_idx
         /\ e.num_pending = k.num_pending /\ e.buffer = b
<1> DEFINE e == [k EXCEPT !.buffer = b]
<1>1. /\ k.queue \in [0 .. QUEUE_SIZE - 1 -> Chars] /\ k.head_idx \in 0 .. QUEUE_SIZE - 1
      /\ k.num_pending \in 0 .. QUEUE_SIZE
  BY DEF Queues
<1>2. e = [queue |-> k.queue, head_idx |-> k.head_idx, num_pending |-> k.num_pending, buffer |-> b]
  BY DEF Queues
<1> HIDE DEF e
<1>3. b \in {c \in Seq(Chars) : Len(c) <= buffer_size}
  OBVIOUS
<1>4. e \in Queues
  BY <1>1, <1>2, <1>3 DEF Queues
<1> QED
  BY <1>2, <1>4 DEF e

\* The Kernal takes the first character of its buffer: the oldest of what is held.
LEMMA TakeOne ==
  ASSUME NEW k \in Queues, k.buffer # <<>>
  PROVE  LET e == [k EXCEPT !.buffer = Tail(k.buffer)] IN
         /\ e \in Queues /\ Held(k) # <<>> /\ Head(k.buffer) = Head(Held(k)) /\ Head(k.buffer) \in Chars
         /\ Held(e) = Tail(Held(k)) /\ Without(Held(k), 1) = Tail(Held(k))
         /\ e.num_pending = k.num_pending /\ e.buffer = Tail(k.buffer)
<1> DEFINE b == k.buffer  p == Pending(k)  h == Held(k)  e == [k EXCEPT !.buffer = Tail(k.buffer)]
<1>1. b \in Seq(Chars) /\ Len(b) <= buffer_size /\ p \in Seq(Chars)
  BY PendingIs DEF Queues
<1>2. Tail(b) \in Seq(Chars) /\ Len(Tail(b)) = Len(b) - 1 /\ Len(b) \in Nat \ {0} /\ Head(b) \in Chars
  BY <1>1, HeadTailProperties, EmptySeq
<1>3. /\ e \in Queues /\ e.queue = k.queue /\ e.head_idx = k.head_idx /\ e.num_pending = k.num_pending
      /\ e.buffer = Tail(b)
  <2>1. Len(Tail(b)) <= buffer_size
    BY <1>1, <1>2, KbdBufAssumption
  <2> QED
    BY <1>2, <2>1, WithBuffer
<1> HIDE DEF e
<1>4. Pending(e) = p
  BY <1>3 DEF Pending
<1>5. h = b \o p
  BY DEF Held
<1> HIDE DEF b, p, h
<1>6. /\ h \in Seq(Chars) /\ Len(h) = Len(b) + Len(p)
      /\ \A i \in 1 .. Len(b) + Len(p) : h[i] = IF i <= Len(b) THEN b[i] ELSE p[i - Len(b)]
  BY <1>1, <1>5, ConcatProperties
<1>7. Len(p) \in Nat /\ Len(b) \in Nat /\ Len(b) >= 1 /\ Len(h) \in Nat /\ h # <<>>
  BY <1>1, <1>2, <1>6, LenProperties, EmptySeq
<1>8. Head(b) = b[1] /\ Head(h) = h[1]
  BY <1>1, <1>6
<1>9. h[1] = b[1]
  BY <1>6, <1>7
<1>10. Tail(h) \in Seq(Chars) /\ Len(Tail(h)) = Len(h) - 1 /\ \A i \in 1 .. Len(h) - 1 : Tail(h)[i] = h[i + 1]
  BY <1>6, <1>7, HeadTailProperties
<1>11. \A i \in 1 .. Len(b) - 1 : Tail(b)[i] = b[i + 1]
  BY <1>1, <1>2, <1>7, HeadTailProperties
<1> DEFINE w == Tail(b) \o p
<1>12. /\ w \in Seq(Chars) /\ Len(w) = Len(b) - 1 + Len(p)
       /\ \A i \in 1 .. Len(b) - 1 + Len(p) :
            w[i] = IF i <= Len(b) - 1 THEN Tail(b)[i] ELSE p[i - (Len(b) - 1)]
  BY <1>1, <1>2, ConcatProperties
<1> HIDE DEF w
<1>13. \A i \in 1 .. Len(w) : w[i] = Tail(h)[i]
  <2> SUFFICES ASSUME NEW i \in 1 .. Len(w) PROVE w[i] = Tail(h)[i]
    OBVIOUS
  <2>1. i \in Int /\ 1 <= i /\ i <= Len(b) - 1 + Len(p)
    BY <1>7, <1>12
  <2>2. Tail(h)[i] = h[i + 1]
    BY <1>6, <1>7, <1>10, <2>1
  <2>3. CASE i <= Len(b) - 1
    BY <1>6, <1>7, <1>11, <1>12, <2>1, <2>2, <2>3
  <2>4. CASE i > Len(b) - 1
    <3>1. w[i] = p[i - (Len(b) - 1)]
      BY <1>7, <1>12, <2>1, <2>4
    <3>2. h[i + 1] = p[(i + 1) - Len(b)]
      BY <1>6, <1>7, <2>1, <2>4
    <3>3. i - (Len(b) - 1) = (i + 1) - Len(b)
      BY <1>7, <2>1
    <3> QED
      BY <2>2, <3>1, <3>2, <3>3
  <2>5. i <= Len(b) - 1 \/ i > Len(b) - 1
    BY <1>7, <2>1
  <2> QED
    BY <2>3, <2>4, <2>5
<1>14. w = Tail(h)
  BY <1>6, <1>7, <1>10, <1>12, <1>13, SeqEqual
<1>15. Held(e) = Tail(h)
  BY <1>3, <1>4, <1>14 DEF Held, w
<1>16. Without(h, 1) = Tail(h)
  BY <1>6, <1>7, TailIsSubSeq DEF Without
<1> QED
  BY <1>2, <1>3, <1>7, <1>8, <1>9, <1>15, <1>16 DEF e, h, b

\* The Kernal's buffer is cleared: what is left of what is held is the ring's.
LEMMA TakeAll ==
  ASSUME NEW k \in Queues
  PROVE  LET e == [k EXCEPT !.buffer = <<>>] IN
         /\ e \in Queues /\ Held(e) = Without(Held(k), Len(k.buffer)) /\ Held(e) \in Seq(Chars)
         /\ k.num_pending = 0 => Held(e) = <<>>
         /\ e.num_pending = k.num_pending /\ e.buffer = <<>>
<1> DEFINE b == k.buffer  p == Pending(k)  h == Held(k)  e == [k EXCEPT !.buffer = <<>>]
<1>1. b \in Seq(Chars) /\ Len(b) \in Nat /\ p \in Seq(Chars) /\ Len(p) = k.num_pending
      /\ k.num_pending \in Nat
  BY PendingIs, LenProperties, KbdBufAssumption DEF Queues
<1>2. <<>> \in Seq(Chars) /\ Len(<<>>) = 0
  BY ONLY EmptySeq
<1>3. /\ e \in Queues /\ e.queue = k.queue /\ e.head_idx = k.head_idx /\ e.num_pending = k.num_pending
      /\ e.buffer = <<>>
  <2>1. Len(<<>>) <= buffer_size
    BY <1>2, KbdBufAssumption
  <2> QED
    BY <1>2, <2>1, WithBuffer
<1> HIDE DEF e
<1>4. Pending(e) = p
  BY <1>3 DEF Pending
<1> HIDE DEF p
<1>5. Held(e) = p
  BY <1>1, <1>3, <1>4, ConcatEmptySeq DEF Held
<1>6. h = b \o p
  BY DEF Held, p
<1> HIDE DEF b, h
<1>7. h \in Seq(Chars) /\ Len(h) = Len(b) + Len(p)
  BY <1>1, <1>6, ConcatProperties
<1>8. Without(h, Len(b)) = p
  <2>1. CASE Len(p) = 0
    <3>1. p = <<>>
      BY <1>1, <2>1, EmptySeq
    <3>2. Len(h) \in Int /\ Len(b) + 1 \in Int /\ Len(h) < Len(b) + 1
      BY <1>1, <1>7, <2>1
    <3>3. SubSeq(h, Len(b) + 1, Len(h)) = <<>>
      BY <3>2, SubSeqEmpty
    <3> QED
      BY <3>1, <3>3 DEF Without
  <2>2. CASE Len(p) > 0
    <3> DEFINE m == Len(b) + 1  n == Len(h)
    <3>1. m \in Len(b) + 1 .. Len(b) + Len(p) /\ n \in Len(b) + 1 .. Len(b) + Len(p)
          /\ m - Len(b) = 1 /\ n - Len(b) = Len(p)
      BY <1>1, <1>7, <2>2
    <3>2. Without(h, Len(b)) = SubSeq(b \o p, m, n)
      BY <1>6 DEF Without
    <3> HIDE DEF m, n
    <3>3. SubSeq(b \o p, m, n) = SubSeq(p, m - Len(b), n - Len(b))
      BY <1>1, <3>1, SubSeqOfConcat2
    <3>4. SubSeq(p, 1, Len(p)) = p
      BY <1>1, SubSeqFull
    <3> QED
      BY <3>1, <3>2, <3>3, <3>4
  <2> QED
    BY <1>1, <2>1, <2>2
<1>9. k.num_pending = 0 => p = <<>>
  BY <1>1, EmptySeq
<1> QED
  BY <1>1, <1>3, <1>5, <1>8, <1>9 DEF e, h, b

-----------------------------------------------------------------------------
(* The callback at the end of a file. *)

\* The file is through: the two settings are given back, if autostart was not over yet.
LEMMA EofState ==
  ASSUME NEW s \in States
  PROVE  LET e == disk_eof_callback(s) IN
         /\ e \in States /\ e.auto = [s.auto EXCEPT !.mode = "DONE", !.eof = FALSE]
         /\ e.kbuf = s.kbuf /\ e.past = s.past /\ e.resetting = s.resetting
         /\ e.res.VirtualDevices = s.res.VirtualDevices
         /\ Settings(s) /\ s.auto.mode \notin Ended => Settings(e)
<1> DEFINE o == TRUE \in s.auto.orig_tde
           r == IF s.res.HandleTde THEN [s.res EXCEPT !.DriveTrueEmulation = o] ELSE s.res
           n == IF s.res.HandleTde THEN [s EXCEPT !.res.DriveTrueEmulation = o] ELSE s
           d == Done(n)
           e == disk_eof_callback(s)
<1>1. s.auto \in Autos /\ s.res \in Ress /\ s.past \in Pasts
  BY StateOf
<1>2. o \in BOOLEAN
  OBVIOUS
<1>3. s.auto.orig_tde = {s.past.tde} => o = s.past.tde
  <2>1. s.past.tde \in BOOLEAN
    BY <1>1 DEF Pasts
  <2>2. s.auto.orig_tde = {s.past.tde} => (o <=> s.past.tde)
    BY <2>1
  <2> HIDE DEF o
  <2> QED
    BY <1>2, <2>1, <2>2
<1>4. e = [d EXCEPT !.auto.eof = FALSE]
  BY DEF disk_eof_callback
<1> HIDE DEF o
<1>5. /\ r \in Ress /\ r.HandleTde = s.res.HandleTde /\ r.VirtualDevices = s.res.VirtualDevices
      /\ r.WarpMode = s.res.WarpMode /\ r.AutostartWarp = s.res.AutostartWarp
      /\ r.DriveTrueEmulation = IF s.res.HandleTde THEN o ELSE s.res.DriveTrueEmulation
  BY <1>1, <1>2 DEF Ress
<1>6. n = [s EXCEPT !.res = r]
  <2>1. CASE s.res.HandleTde
    BY <2>1
  <2>2. CASE ~s.res.HandleTde
    BY <2>2 DEF States
  <2> QED
    BY <2>1, <2>2
<1> HIDE DEF r, n, e
<1>7. /\ n \in States /\ n.auto = s.auto /\ n.res = r /\ n.kbuf = s.kbuf /\ n.past = s.past
      /\ n.resetting = s.resetting
  BY <1>5, <1>6 DEF States
<1>8. /\ d = [auto |-> [s.auto EXCEPT !.mode = "DONE"], res |-> Unwarped(n), kbuf |-> s.kbuf,
              resetting |-> s.resetting, past |-> s.past]
      /\ d \in States
  BY <1>7, EndState
<1> DEFINE a == [s.auto EXCEPT !.mode = "DONE", !.eof = FALSE]
<1>9. /\ a \in Autos /\ a.mode = "DONE"
  BY <1>1 DEF Autos, Modes, Ended
<1>10. e = [d EXCEPT !.auto = a]
  <2>1. [d.auto EXCEPT !.eof = FALSE] = a
    BY <1>1, <1>8 DEF Autos
  <2> HIDE DEF d, a
  <2> QED
    BY <1>4, <2>1
<1>11. d \in States /\ d.res = Unwarped(n) /\ d.kbuf = s.kbuf /\ d.resetting = s.resetting /\ d.past = s.past
  BY <1>8
<1> HIDE DEF d, a
<1>12. /\ e \in States /\ e.auto = a /\ e.res = Unwarped(n) /\ e.kbuf = s.kbuf /\ e.past = s.past
       /\ e.resetting = s.resetting
  BY <1>9, <1>10, <1>11 DEF States
<1>13. /\ Unwarped(n).HandleTde = s.res.HandleTde /\ Unwarped(n).VirtualDevices = s.res.VirtualDevices
       /\ Unwarped(n).DriveTrueEmulation = r.DriveTrueEmulation
       /\ Unwarped(n).WarpMode = Unwarped(s).WarpMode
  BY <1>1, <1>5, <1>7 DEF Unwarped, Ress
<1>14. ASSUME Settings(s), s.auto.mode \notin Ended PROVE Settings(e)
  <2>1. s.res.HandleTde /\ s.res.VirtualDevices /\ s.past.noted => s.auto.orig_tde = {s.past.tde}
    BY <1>14 DEF Settings
  <2>2. /\ ~s.res.HandleTde => e.res.DriveTrueEmulation = s.res.DriveTrueEmulation
        /\ s.res.HandleTde /\ s.res.VirtualDevices /\ e.past.noted =>
             e.res.DriveTrueEmulation = s.past.tde
    BY <1>3, <1>5, <1>12, <1>13, <2>1
  <2>3. e.auto.mode \in Ended
    BY <1>9, <1>12 DEF Ended
  <2> QED
    BY <1>12, <1>13, <1>14, <2>2, <2>3, SettingsEnd
<1> QED
  BY <1>12, <1>13, <1>14 DEF e, a

-----------------------------------------------------------------------------
(* The initial state and the actions. *)

\* Before anything was fed the two buffers are empty and the settings are the user's.
LEMMA InitGood == AutoInit => AutoInv
<1> SUFFICES ASSUME AutoInit PROVE AutoInv
  OBVIOUS
<1> DEFINE s == AutoState
<1>1. PICK h \in HandleTde, v \in VirtualDevices :
        res = [ WarpMode |-> FALSE, DriveTrueEmulation |-> TRUE, AutostartWarp |-> TRUE, held |-> FALSE,
                HandleTde |-> h, VirtualDevices |-> v ]
  BY DEF AutoInit
<1>2. res \in Ress
  BY <1>1, AutostartAssumption DEF Ress
<1>3. auto \in Autos
  BY DEF AutoInit, Autos, Modes, Ended
<1>4. <<>> \in Seq(Chars) /\ <<>> \in Seq(Seq(Chars)) /\ Len(<<>>) = 0 /\ <<>> \o <<>> = <<>>
  <2>1. <<>> \in Seq(Chars) /\ <<>> \in Seq(Seq(Chars)) /\ Len(<<>>) = 0
    BY ONLY EmptySeq
  <2> QED
    BY <2>1, ConcatEmptySeq
<1>5. past \in Pasts /\ past.fed = <<>> /\ past.lines = <<>>
  BY <1>4 DEF AutoInit, Pasts
<1>6. kbuf \in Queues /\ kbuf.buffer = <<>> /\ kbuf.num_pending = 0
  <2> DEFINE q == [i \in 0 .. QUEUE_SIZE - 1 |-> NoChar]
  <2>1. q \in [0 .. QUEUE_SIZE - 1 -> Chars]
    BY DEF Chars
  <2> HIDE DEF q
  <2>2. kbuf = [queue |-> q, head_idx |-> 0, num_pending |-> 0, buffer |-> <<>>]
    BY DEF AutoInit, q
  <2>3. 0 \in 0 .. QUEUE_SIZE - 1 /\ 0 \in 0 .. QUEUE_SIZE /\ Len(<<>>) <= buffer_size
    BY <1>4, KbdBufAssumption
  <2> QED
    BY <1>4, <2>1, <2>2, <2>3 DEF Queues
<1>7. Pending(kbuf) = <<>>
  <2>1. Pending(kbuf) \in Seq(Chars) /\ Len(Pending(kbuf)) = 0
    BY <1>6, PendingIs
  <2> QED
    BY <2>1, EmptySeq
<1>8. /\ s \in States /\ s.auto = auto /\ s.res = res /\ s.kbuf = kbuf /\ s.past = past
      /\ s.resetting = FALSE
  BY <1>2, <1>3, <1>5, <1>6 DEF AutoInit, AutoState, States
<1>9. Kept(s)
  BY <1>4, <1>5, <1>6, <1>7, <1>8 DEF Kept, Held
<1>10. /\ auto.mode = "NONE" /\ auto.attention = FALSE /\ auto.eof = FALSE /\ auto.ignore_reset = FALSE
       /\ past.kind = "none" /\ past.noted = FALSE /\ past.warp = FALSE /\ past.tde = TRUE
       /\ res.WarpMode = FALSE /\ res.DriveTrueEmulation = TRUE
       /\ kernal.line = <<>> /\ kernal.at = "ramtas" /\ kernal \in Kernals /\ age = 0
  BY <1>1, <1>4 DEF AutoInit, Kernals, Places
<1> HIDE DEF s
<1>11. Settings(s)
  BY <1>8, <1>10 DEF Settings, Ended
<1>12. Text(s, kernal)
  BY <1>4, <1>5, <1>6, <1>8, <1>10 DEF Text, Script, Booting, Waiting
<1> QED
  BY <1>6, <1>8, <1>9, <1>10, <1>11, <1>12 DEF AutoInv, Good, s

\* The variables, as one state.
LEMMA StateIs ==
  /\ AutoState.auto = auto /\ AutoState.res = res /\ AutoState.kbuf = kbuf
  /\ AutoState.resetting = resetting /\ AutoState.past = past
  /\ AutoState' = [auto |-> auto', res |-> res', kbuf |-> kbuf', resetting |-> resetting', past |-> past']
BY DEF AutoState

\* What the invariant says of the variables.
LEMMA InvTypes ==
  ASSUME AutoInv
  PROVE  /\ AutoState \in States /\ auto \in Autos /\ res \in Ress /\ kbuf \in Queues
         /\ resetting \in BOOLEAN /\ past \in Pasts /\ kernal \in Kernals
         /\ Kept(AutoState) /\ past.fed = Held(kbuf)
         /\ ~past.disturbed => Settings(AutoState) /\ Text(AutoState, kernal)
<1>1. Good(AutoState, kernal) /\ kernal \in Kernals
  BY DEF AutoInv
<1>2. AutoState \in States
  BY <1>1 DEF Good
<1> QED
  BY <1>1, <1>2, StateOf, StateIs DEF Good, Kept

\* The Kernal goes on to something else; what is said of the text depends on its line only,
\* and on where it is while the traps are to call back.
LEMMA TextElsewhere ==
  ASSUME NEW s, NEW k, NEW l, Text(s, k), l.line = k.line, s.auto.attention => Attended(s, l)
  PROVE  Text(s, l)
BY DEF Text, TypingLoad

\* Time says nothing about text or settings.
LEMMA TimeKeeps == AutoInv /\ TimePasses => AutoInv'
<1> SUFFICES ASSUME AutoInv, TimePasses PROVE AutoInv'
  OBVIOUS
<1>1. AutoState' = AutoState /\ kernal' = kernal /\ kbuf' = kbuf
  BY DEF TimePasses, AutoState
<1>2. age' \in 0 .. 2 /\ kernal.at # "ramtas"
  BY DEF TimePasses, AutoInv
<1> QED
  BY <1>1, <1>2 DEF AutoInv, Good

\* The Kernal clears a buffer nothing was typed into.
LEMMA BootKeeps == AutoInv /\ KernalBoots => AutoInv'
<1> SUFFICES ASSUME AutoInv, KernalBoots PROVE AutoInv'
  OBVIOUS
<1>1. /\ kernal \in Kernals /\ kbuf \in Queues /\ past \in Pasts /\ past.fed \in Seq(Chars)
      /\ kbuf.buffer \in Seq(Chars)
  BY InvTypes DEF Pasts, Queues
<1>2. kernal.at \in {"ramtas", "boot"} /\ kernal' \in Kernals /\ kernal'.at # "ramtas"
      /\ kernal'.line = kernal.line /\ age' = age
  BY <1>1 DEF KernalBoots, Kernals, Places
<1>3. kbuf' = kbuf /\ past' = past
  <2>1. CASE kernal.at = "ramtas"
    <3>1. kbuf.buffer = <<>> /\ Len(<<>>) = 0
      BY <2>1, EmptySeq DEF AutoInv
    <3>2. kbuf' = kbuf
      BY <1>1, <2>1, <3>1 DEF KernalBoots, Queues
    <3>3. Without(past.fed, 0) = past.fed
      <4>1. SubSeq(past.fed, 1, Len(past.fed)) = past.fed
        BY <1>1, SubSeqFull
      <4> QED
        BY <4>1 DEF Without
    <3>4. past' = [past EXCEPT !.fed = past.fed]
      BY <2>1, <3>1, <3>3 DEF KernalBoots
    <3> QED
      BY <1>1, <3>2, <3>4 DEF Pasts
  <2>2. CASE kernal.at = "boot"
    BY <2>2 DEF KernalBoots
  <2> QED
    BY <1>2, <2>1, <2>2
<1>4. AutoState' = AutoState
  BY <1>3 DEF KernalBoots, AutoState
<1>5. ASSUME ~AutoState.past.disturbed
      PROVE  Settings(AutoState) /\ Text(AutoState, kernal')
  <2>1. Settings(AutoState) /\ Text(AutoState, kernal)
    BY <1>5, InvTypes, StateIs
  <2>2. ~AutoState.auto.attention
    BY <1>2, <2>1 DEF Text, Attended
  <2> QED
    BY <1>2, <2>1, <2>2, TextElsewhere
<1>6. Good(AutoState', kernal')
  BY <1>4, <1>5, InvTypes DEF Good
<1>7. age' \in 0 .. 2
  BY <1>2 DEF AutoInv
<1> QED
  BY <1>2, <1>6, <1>7 DEF AutoInv

\* A reset that is asked for disturbs autostart, or finds nothing that is still to be typed.
LEMMA AskState ==
  ASSUME NEW s \in States
  PROVE  LET t == AskReset(s) IN
         /\ t \in States /\ t.auto = s.auto /\ t.res = s.res /\ t.kbuf = s.kbuf /\ t.resetting = TRUE
         /\ t.past = [s.past EXCEPT !.disturbed = s.past.disturbed \/ s.kbuf.num_pending # 0]
         /\ ~t.past.disturbed => ~s.past.disturbed /\ s.kbuf.num_pending = 0
         /\ t.past.fed = s.past.fed /\ t.past.lines = s.past.lines /\ t.past.kind = s.past.kind
         /\ t.past.warp = s.past.warp /\ t.past.tde = s.past.tde /\ t.past.noted = s.past.noted
         /\ t.past.starts = s.past.starts
<1> DEFINE b == s.past.disturbed \/ s.kbuf.num_pending # 0
           p == [s.past EXCEPT !.disturbed = b]
           t == AskReset(s)
<1>1. s.past \in Pasts /\ s.past.disturbed \in BOOLEAN
  BY StateOf DEF Pasts
<1>2. t = [auto |-> s.auto, res |-> s.res, kbuf |-> s.kbuf, resetting |-> TRUE, past |-> p]
  <2>1. t = [s EXCEPT !.resetting = TRUE, !.past = p]
    BY DEF AskReset
  <2> HIDE DEF p, t
  <2> QED
    BY <2>1 DEF States
<1>3. b \in BOOLEAN
  OBVIOUS
<1>4. ~b => ~s.past.disturbed /\ s.kbuf.num_pending = 0
  OBVIOUS
<1> HIDE DEF b
<1>5. /\ p \in Pasts /\ p.disturbed = b /\ p.fed = s.past.fed /\ p.lines = s.past.lines
      /\ p.kind = s.past.kind /\ p.warp = s.past.warp /\ p.tde = s.past.tde
      /\ p.noted = s.past.noted /\ p.starts = s.past.starts
  BY <1>1, <1>3 DEF Pasts
<1> HIDE DEF p, t
<1>6. t \in States
  BY <1>2, <1>5, StateOf DEF States
<1>7. t.past = [s.past EXCEPT !.disturbed = s.past.disturbed \/ s.kbuf.num_pending # 0]
  <2>1. t.past = p
    BY <1>2
  <2> QED
    BY <2>1 DEF p, b
<1>8. /\ t.auto = s.auto /\ t.res = s.res /\ t.kbuf = s.kbuf /\ t.resetting = TRUE
      /\ t.past.disturbed = b /\ t.past.fed = s.past.fed /\ t.past.lines = s.past.lines
      /\ t.past.kind = s.past.kind /\ t.past.warp = s.past.warp /\ t.past.tde = s.past.tde
      /\ t.past.noted = s.past.noted /\ t.past.starts = s.past.starts
  BY <1>2, <1>5
<1> QED
  BY <1>4, <1>6, <1>7, <1>8 DEF t

\* What is asked for while nobody waits for a callback.
LEMMA TextAsked ==
  ASSUME NEW s \in States, NEW t \in States, NEW k, Text(s, k), ~s.auto.attention,
         t.auto = s.auto, t.kbuf = s.kbuf, t.resetting, s.kbuf.num_pending = 0,
         t.past.fed = s.past.fed, t.past.lines = s.past.lines
  PROVE  Text(t, k)
BY DEF Text, TypingLoad

\* A program ends or jams while no callback is waited for.
LEMMA EndsKeeps == AutoInv /\ ProgramEnds => AutoInv'
<1> SUFFICES ASSUME AutoInv, ProgramEnds PROVE AutoInv'
  OBVIOUS
<1> DEFINE s == AutoState
<1>1. s \in States /\ Kept(s) /\ kernal \in Kernals /\ past \in Pasts /\ ~s.resetting
  BY InvTypes, StateIs DEF ProgramEnds
<1>2. kernal.at = "program" /\ age' = age /\ age \in 0 .. 2
  BY DEF ProgramEnds, AutoInv
<1>3. ~s.past.disturbed => Settings(s) /\ Text(s, kernal) /\ ~s.auto.attention
  <2>1. ~s.past.disturbed => Settings(s) /\ Text(s, kernal)
    BY InvTypes, StateIs
  <2> QED
    BY <1>2, <2>1 DEF Text, Attended
<1>4. CASE kernal' = [kernal EXCEPT !.at = "ready"] /\ resetting' = resetting /\ past' = past
  <2>1. AutoState' = s
    BY <1>4 DEF ProgramEnds, AutoState
  <2>2. kernal' \in Kernals /\ kernal'.line = kernal.line /\ kernal'.at = "ready"
    BY <1>1, <1>4 DEF Kernals, Places
  <2>3. ~s.past.disturbed => Settings(s) /\ Text(s, kernal')
    BY <1>3, <2>2, TextElsewhere
  <2>4. Good(AutoState', kernal')
    BY <1>1, <2>1, <2>3 DEF Good
  <2> QED
    BY <1>2, <2>2, <2>4 DEF AutoInv
<1>5. CASE /\ past' = [AskReset(s).past EXCEPT !.starts = past.starts + 1]
           /\ resetting' = AskReset(s).resetting /\ kernal' = kernal
  <2> DEFINE a == AskReset(s)  p == [a.past EXCEPT !.starts = past.starts + 1]  t == AutoState'
  <2>1. /\ a \in States /\ a.resetting = TRUE
        /\ ~a.past.disturbed => ~s.past.disturbed /\ s.kbuf.num_pending = 0
        /\ a.past.fed = s.past.fed /\ a.past.lines = s.past.lines /\ a.past.kind = s.past.kind
        /\ a.past.warp = s.past.warp /\ a.past.tde = s.past.tde /\ a.past.noted = s.past.noted
    BY <1>1, AskState
  <2> HIDE DEF a
  <2>2. a.past \in Pasts /\ past.starts + 1 \in Nat
    BY <1>1, <2>1, StateOf DEF Pasts
  <2>3. /\ p \in Pasts /\ p.fed = a.past.fed /\ p.lines = a.past.lines /\ p.kind = a.past.kind
        /\ p.warp = a.past.warp /\ p.tde = a.past.tde /\ p.noted = a.past.noted
        /\ p.disturbed = a.past.disturbed
    BY <2>2 DEF Pasts
  <2> HIDE DEF p
  <2>4. t = [auto |-> s.auto, res |-> s.res, kbuf |-> s.kbuf, resetting |-> TRUE, past |-> p]
    BY <1>5, <2>1, StateIs DEF ProgramEnds, p, a
  <2> HIDE DEF t, s
  <2>5. /\ t \in States /\ t.auto = s.auto /\ t.res = s.res /\ t.kbuf = s.kbuf /\ t.resetting /\ t.past = p
    BY <1>1, <2>3, <2>4, StateOf DEF States
  <2>6. Kept(t)
    BY <1>1, <2>1, <2>3, <2>5 DEF Kept
  <2>7. ASSUME ~t.past.disturbed PROVE Settings(t) /\ Text(t, kernal)
    <3>1. Settings(s) /\ Text(s, kernal) /\ ~s.auto.attention /\ s.kbuf.num_pending = 0
      BY <1>3, <2>1, <2>3, <2>5, <2>7
    <3>2. Settings(t)
      BY <1>1, <2>1, <2>3, <2>5, <3>1, SettingsSame
    <3>3. Text(t, kernal)
      BY <1>1, <2>1, <2>3, <2>5, <3>1, TextAsked
    <3> QED
      BY <3>2, <3>3
  <2>8. Good(AutoState', kernal')
    BY <1>5, <2>5, <2>6, <2>7 DEF Good, t
  <2> QED
    BY <1>1, <1>2, <1>5, <2>8 DEF AutoInv
<1>6. AskReset(s).past.starts = past.starts
  BY <1>1, AskState, StateIs
<1> QED
  BY <1>4, <1>5, <1>6 DEF ProgramEnds

\* LOAD goes on, and calls back at the end of the file.
LEMMA LoadsKeeps == AutoInv /\ KernalLoads => AutoInv'
<1> SUFFICES ASSUME AutoInv, KernalLoads PROVE AutoInv'
  OBVIOUS
<1> DEFINE s == AutoState
<1>1. s \in States /\ Kept(s) /\ kernal \in Kernals /\ ~s.resetting
  BY InvTypes, StateIs DEF KernalLoads
<1>2. /\ kernal' \in Kernals /\ kernal'.line = kernal.line /\ kernal'.at # "ramtas" /\ age' = age
      /\ age \in 0 .. 2
  BY <1>1 DEF KernalLoads, Kernals, Places, AutoInv
<1>3. ~s.past.disturbed => Settings(s) /\ Text(s, kernal)
  BY InvTypes, StateIs
<1>4. SUFFICES Good(AutoState', kernal')
  BY <1>2 DEF AutoInv
<1>5. CASE auto' = auto /\ res' = res /\ (kernal.at = "searching" => kernal'.at = "ready" \/ DriveAnswers)
  <2>1. AutoState' = s
    BY <1>5 DEF KernalLoads, AutoState
  <2>2. ASSUME ~s.past.disturbed PROVE Text(s, kernal')
    <3>1. Text(s, kernal)
      BY <1>3, <2>2
    <3>2. ASSUME s.auto.attention PROVE Attended(s, kernal')
      <4>1. Attended(s, kernal) /\ s.past.kind = "disk" /\ ~s.res.DriveTrueEmulation
        BY <3>1, <3>2 DEF Text
      <4>2. kernal.at # "ready"
        BY DEF KernalLoads
      <4>3. kernal.at = "searching" /\ ~s.res.VirtualDevices
        BY <4>1, <4>2 DEF Attended
      <4>4. ~DriveAnswers
        BY <4>1, <4>3, StateIs DEF DriveAnswers
      <4> QED
        BY <1>2, <1>5, <4>1, <4>3, <4>4 DEF Attended
    <3> QED
      BY <1>2, <3>1, <3>2, TextElsewhere
  <2> QED
    BY <1>1, <1>3, <2>1, <2>2 DEF Good
<1>6. CASE /\ kernal.at = "loading" /\ auto.eof
           /\ auto' = disk_eof_callback(s).auto /\ res' = disk_eof_callback(s).res
  <2> DEFINE e == disk_eof_callback(s)
  <2>1. /\ e \in States /\ e.auto = [s.auto EXCEPT !.mode = "DONE", !.eof = FALSE]
        /\ e.kbuf = s.kbuf /\ e.past = s.past /\ e.resetting = s.resetting
        /\ Settings(s) /\ s.auto.mode \notin Ended => Settings(e)
    BY <1>1, EofState
  <2> HIDE DEF e
  <2>2. AutoState' = e
    <3>1. /\ kbuf' = e.kbuf /\ past' = e.past /\ resetting' = e.resetting
          /\ auto' = e.auto /\ res' = e.res
      BY <1>6, <2>1, StateIs DEF KernalLoads, e
    <3> QED
      BY <2>1, <3>1, StateIs, StateOf
  <2>3. s.auto \in Autos
    BY <1>1, StateOf
  <2>4. /\ e.auto.mode = "DONE" /\ e.auto.eof = FALSE /\ e.auto.attention = s.auto.attention
        /\ e.auto.ignore_reset = s.auto.ignore_reset
    BY <2>1, <2>3 DEF Autos
  <2>5. Kept(e)
    BY <1>1, <2>1 DEF Kept
  <2>6. ASSUME ~e.past.disturbed PROVE Settings(e) /\ Text(e, kernal')
    <3>1. Settings(s) /\ Text(s, kernal) /\ s.auto.eof
      BY <1>3, <1>6, <2>1, <2>6, StateIs
    <3>2. s.auto.mode = "LOADINGDISK" /\ ~s.auto.attention /\ ~s.auto.ignore_reset
      BY <3>1 DEF Text, Booting
    <3>3. Settings(e)
      BY <2>1, <3>1, <3>2 DEF Ended
    <3>4. "DONE" \notin Booting \cup Waiting
      BY DEF Booting, Waiting
    <3>5. Text(e, kernal')
      BY <1>1, <1>2, <2>1, <2>4, <3>1, <3>2, <3>4 DEF Text
    <3> QED
      BY <3>3, <3>5
  <2> QED
    BY <2>1, <2>2, <2>5, <2>6 DEF Good
<1>7. kernal' = [kernal EXCEPT !.at = kernal'.at]
  BY <1>1 DEF KernalLoads, Kernals
<1>8. (kernal.at = "searching" => kernal'.at = "ready" \/ DriveAnswers)
  BY <1>1 DEF KernalLoads, Kernals
<1>9. \/ auto' = auto /\ res' = res
      \/ /\ kernal.at = "loading" /\ auto.eof
         /\ auto' = disk_eof_callback(s).auto /\ res' = disk_eof_callback(s).res
  BY StateIs DEF KernalLoads
<1> QED
  BY <1>5, <1>6, <1>8, <1>9

-----------------------------------------------------------------------------
(* The Kernal reads. *)

\* The lines BASIC has been given after RUN.
LEMMA TwoLines == Append(<<>>, Run) = <<Run>> /\ Append(<<Load>>, Run) = <<Load, Run>>
<1> DEFINE s == Append(<<Load>>, Run)  t == <<Load, Run>>
<1>1. Load \in Seq(Chars) /\ Run \in Seq(Chars)
  BY Commands
<1>2. <<Load>> \in Seq(Seq(Chars)) /\ Len(<<Load>>) = 1 /\ <<Load>>[1] = Load
  BY <1>1
<1>3. s \in Seq(Seq(Chars)) /\ Len(s) = 2 /\ s[1] = Load /\ s[2] = Run
  BY <1>1, <1>2, AppendProperties
<1>4. t \in Seq(Seq(Chars)) /\ Len(t) = 2 /\ t[1] = Load /\ t[2] = Run
  BY <1>1
<1> HIDE DEF s, t
<1>5. \A i \in 1 .. 2 : s[i] = t[i]
  BY <1>3, <1>4
<1>6. s = t
  BY <1>3, <1>4, <1>5, SeqEqual
<1>7. Append(<<>>, Run) = <<Run>>
  OBVIOUS
<1> QED
  BY <1>6, <1>7 DEF s, t

\* The next character of a script ends a line or does not, and a script remains.
Continues(lines, line, fed) ==
  LET l == Append(line, Head(fed))
      r == Tail(fed)
      ends == l[Len(l)] \in {Load[Len(Load)], Run[Len(Run)]}
  IN  /\ ~ends => Script(lines, l, r)
      /\ ends => l \in {Load, Run} /\ Script(Append(lines, l), <<>>, r)
      /\ lines = <<>> /\ line \o fed = Load /\ Len(line) < Len(Load) =>
           /\ ends => l = Load /\ r = <<>> /\ Append(lines, l) = <<Load>>
           /\ ~ends => l \o r = Load /\ Len(l) < Len(Load)

\* A script goes on as it should whichever of its lines the character is in.
LEMMA ReadScript ==
  ASSUME NEW lines, NEW line \in Seq(Chars), NEW fed \in Seq(Chars), fed # <<>>,
         Script(lines, line, fed)
  PROVE  Continues(lines, line, fed)
<1> DEFINE l == Append(line, Head(fed))
           r == Tail(fed)
           ends == l[Len(l)] \in {Load[Len(Load)], Run[Len(Run)]}
<1>1. /\ Load \in Seq(Chars) /\ Run \in Seq(Chars) /\ Load # <<>> /\ Run # <<>>
      /\ Len(Load) \in Nat \ {0} /\ Len(Run) \in Nat \ {0}
  BY Commands
<1>2. r \in Seq(Chars) /\ <<>> \in Seq(Chars) /\ Len(<<>>) = 0
  BY HeadTailProperties, EmptySeq
<1>3. \A c \in Seq(Chars) : c \o <<>> = c /\ <<>> \o c = c
  BY ConcatEmptySeq
<1>4. ASSUME NEW c \in {Load, Run}, NEW rest \in Seq(Chars), line \o fed = c \o rest, Len(line) < Len(c)
      PROVE  /\ l # <<>> /\ l \o r = c \o rest
             /\ ends => l = c /\ r = rest
             /\ ~ends => Len(l) < Len(c)
  <2>0. /\ l # <<>> /\ l \o r = c \o rest
        /\ Len(l) = Len(c) => l = c /\ r = rest
        /\ Len(l) # Len(c) => /\ Len(l) < Len(c)
                              /\ l[Len(l)] \notin {Load[Len(Load)], Run[Len(Run)]}
    <3>1. Reads(line, fed, c, rest)
      BY <1>4, ReadOne
    <3> QED
      BY <3>1 DEF Reads
  <2> HIDE DEF l, r
  <2>1. /\ l # <<>> /\ l \o r = c \o rest
        /\ Len(l) = Len(c) => l = c /\ r = rest
        /\ Len(l) # Len(c) => Len(l) < Len(c) /\ ~ends
    BY <2>0
  <2>2. Len(l) = Len(c) => ends
    BY <2>1
  <2> QED
    BY <2>1, <2>2
<1> HIDE DEF l, r, ends
<1>5. ASSUME lines = <<>>, line \o fed = Load, Len(line) < Len(Load)
      PROVE  /\ ends => l = Load /\ r = <<>> /\ Append(lines, l) = <<Load>>
             /\ ~ends => l \o r = Load /\ Len(l) < Len(Load)
  <2>1. line \o fed = Load \o <<>>
    BY <1>1, <1>3, <1>5
  <2>2. /\ ends => l = Load /\ r = <<>>
        /\ ~ends => l \o r = Load \o <<>> /\ Len(l) < Len(Load)
    BY <1>2, <1>4, <1>5, <2>1
  <2>3. Append(<<>>, Load) = <<Load>>
    OBVIOUS
  <2> QED
    BY <1>1, <1>3, <1>5, <2>2, <2>3
<1> SUFFICES /\ ~ends => Script(lines, l, r)
             /\ ends => l \in {Load, Run} /\ Script(Append(lines, l), <<>>, r)
             /\ lines = <<>> /\ line \o fed = Load /\ Len(line) < Len(Load) =>
                  /\ ends => l = Load /\ r = <<>> /\ Append(lines, l) = <<Load>>
                  /\ ~ends => l \o r = Load /\ Len(l) < Len(Load)
  BY DEF Continues, l, r, ends
<1>6. line \o fed # <<>>
  BY ConcatEqualIffEmpty
<1>7. CASE lines = <<>> /\ line \o fed = Load /\ Len(line) < Len(Load)
  <2>1. CASE ends
    <3>1. l = Load /\ r = <<>> /\ Append(lines, l) = <<Load>>
      BY <1>5, <1>7, <2>1
    <3>2. <<>> \o r = <<>>
      BY <1>2, <1>3, <3>1
    <3>3. Script(Append(lines, l), <<>>, r)
      BY <3>1, <3>2 DEF Script
    <3> QED
      BY <1>5, <2>1, <3>1, <3>3
  <2>2. CASE ~ends
    <3>1. Script(lines, l, r)
      BY <1>5, <1>7, <2>2 DEF Script
    <3> QED
      BY <1>5, <2>2, <3>1
  <2> QED
    BY <2>1, <2>2
<1>8. CASE lines = <<>> /\ line \o fed = Load \o Run /\ Len(line) < Len(Load)
  <2>0. Load \o Run # Load
    <3>1. Len(Load \o Run) = Len(Load) + Len(Run)
      BY <1>1, ConcatProperties
    <3> QED
      BY <1>1, <3>1
  <2>1. /\ l \o r = Load \o Run
        /\ ends => l = Load /\ r = Run
        /\ ~ends => Len(l) < Len(Load)
    BY <1>1, <1>4, <1>8
  <2>2. CASE ends
    <3>1. Append(lines, l) = <<Load>>
      BY <1>8, <2>1, <2>2
    <3>2. <<>> \o r = Run
      BY <1>1, <1>3, <2>1, <2>2
    <3>3. Script(Append(lines, l), <<>>, r)
      BY <1>1, <1>2, <3>1, <3>2 DEF Script
    <3> QED
      BY <1>8, <2>0, <2>1, <2>2, <3>3
  <2>3. CASE ~ends
    <3>1. Script(lines, l, r)
      BY <1>8, <2>1, <2>3 DEF Script
    <3> QED
      BY <1>8, <2>0, <2>3, <3>1
  <2> QED
    BY <2>2, <2>3
<1>9. CASE lines \in {<<>>, <<Load>>} /\ line \o fed = Run /\ Len(line) < Len(Run)
  <2>0. Run # Load
    BY Commands
  <2>1. line \o fed = Run \o <<>>
    BY <1>1, <1>3, <1>9
  <2>2. /\ l \o r = Run \o <<>>
        /\ ends => l = Run /\ r = <<>>
        /\ ~ends => Len(l) < Len(Run)
    BY <1>2, <1>4, <1>9, <2>1
  <2>3. CASE ends
    <3>1. Append(lines, l) \in {<<Run>>, <<Load, Run>>}
      <4>1. Append(<<>>, Run) = <<Run>> /\ Append(<<Load>>, Run) = <<Load, Run>>
        BY TwoLines
      <4> QED
        BY <1>9, <2>2, <2>3, <4>1
    <3>2. <<>> \o r = <<>>
      BY <1>2, <1>3, <2>2, <2>3
    <3>3. Script(Append(lines, l), <<>>, r)
      BY <3>1, <3>2 DEF Script
    <3> QED
      BY <1>9, <2>0, <2>2, <2>3, <3>3
  <2>4. CASE ~ends
    <3>1. l \o r = Run
      BY <1>1, <1>3, <2>2
    <3>2. Script(lines, l, r)
      BY <1>9, <2>2, <2>4, <3>1 DEF Script
    <3> QED
      BY <1>9, <2>0, <2>4, <3>2
  <2> QED
    BY <2>3, <2>4
<1> QED
  BY <1>6, <1>7, <1>8, <1>9 DEF Script

\* What the Kernal leaves when it has read a character, and whether the line is one of BASIC's.
LEMMA ReadState ==
  ASSUME NEW s \in States, Kept(s), s.kbuf.buffer # <<>>, NEW line \in Seq(Chars)
  PROVE  LET read == [s EXCEPT !.kbuf.buffer = Tail(@), !.past.fed = Without(@, 1)]
             executed == [read EXCEPT !.past.lines = Append(@, line)]
         IN  /\ \A t \in {read, executed} :
                  /\ t \in States /\ Kept(t) /\ t.auto = s.auto /\ t.res = s.res
                  /\ t.resetting = s.resetting /\ t.past.fed = Tail(s.past.fed)
                  /\ t.past.kind = s.past.kind /\ t.past.warp = s.past.warp
                  /\ t.past.tde = s.past.tde /\ t.past.noted = s.past.noted
                  /\ t.past.disturbed = s.past.disturbed
             /\ read.past.lines = s.past.lines /\ executed.past.lines = Append(s.past.lines, line)
             /\ s.past.fed # <<>> /\ Head(s.kbuf.buffer) = Head(s.past.fed) /\ Head(s.kbuf.buffer) \in Chars
<1> DEFINE e == [s.kbuf EXCEPT !.buffer = Tail(s.kbuf.buffer)]
           f == Without(s.past.fed, 1)
           p == [s.past EXCEPT !.fed = f]
           q == [p EXCEPT !.lines = Append(s.past.lines, line)]
           read == [s EXCEPT !.kbuf.buffer = Tail(@), !.past.fed = Without(@, 1)]
           executed == [read EXCEPT !.past.lines = Append(@, line)]
<1>1. s.past \in Pasts /\ s.kbuf \in Queues /\ s.past.fed = Held(s.kbuf) /\ s.past.lines \in Seq(Seq(Chars))
      /\ s.past.fed \in Seq(Chars)
  BY StateOf DEF Kept, Pasts
<1>2. /\ e \in Queues /\ s.past.fed # <<>> /\ Head(s.kbuf.buffer) = Head(s.past.fed)
      /\ Head(s.kbuf.buffer) \in Chars /\ Held(e) = Tail(s.past.fed) /\ f = Tail(s.past.fed)
  BY <1>1, TakeOne
<1>3. read = [s EXCEPT !.kbuf = e, !.past = p]
  OBVIOUS
<1>4. f \in Seq(Chars) /\ Append(s.past.lines, line) \in Seq(Seq(Chars))
  BY <1>1, <1>2, HeadTailProperties, AppendProperties
<1> HIDE DEF f, e
<1>5. /\ p \in Pasts /\ p.fed = f /\ p.lines = s.past.lines /\ p.kind = s.past.kind
      /\ p.warp = s.past.warp /\ p.tde = s.past.tde /\ p.noted = s.past.noted
      /\ p.disturbed = s.past.disturbed
  BY <1>1, <1>4 DEF Pasts
<1> HIDE DEF p, read
<1>6. /\ q \in Pasts /\ q.fed = f /\ q.lines = Append(s.past.lines, line) /\ q.kind = s.past.kind
      /\ q.warp = s.past.warp /\ q.tde = s.past.tde /\ q.noted = s.past.noted
      /\ q.disturbed = s.past.disturbed
  BY <1>1, <1>4, <1>5 DEF Pasts
<1>7. /\ read \in States /\ read.auto = s.auto /\ read.res = s.res /\ read.kbuf = e
      /\ read.resetting = s.resetting /\ read.past = p
  BY <1>2, <1>3, <1>5 DEF States
<1>8. executed = [read EXCEPT !.past = q]
  BY <1>5, <1>7
<1> HIDE DEF q, executed
<1>9. /\ executed \in States /\ executed.auto = s.auto /\ executed.res = s.res /\ executed.kbuf = e
      /\ executed.resetting = s.resetting /\ executed.past = q
  BY <1>6, <1>7, <1>8 DEF States
<1>10. Kept(read) /\ Kept(executed)
  BY <1>2, <1>5, <1>6, <1>7, <1>9 DEF Kept
<1> QED
  BY <1>2, <1>5, <1>6, <1>7, <1>9, <1>10 DEF read, executed

\* The Kernal reads a character, and LOAD calls back.
LEMMA ReadsKeeps == AutoInv /\ KernalReads => AutoInv'
<1> SUFFICES ASSUME AutoInv, KernalReads PROVE AutoInv'
  OBVIOUS
<1> DEFINE a == AutoState
           line == Append(kernal.line, Head(kbuf.buffer))
           read == [a EXCEPT !.kbuf.buffer = Tail(@), !.past.fed = Without(@, 1)]
           executed == [read EXCEPT !.past.lines = Append(@, line)]
           disk == past.kind = "disk" /\ ~res.DriveTrueEmulation /\ res.VirtualDevices
           ends == line[Len(line)] \in {Load[Len(Load)], Run[Len(Run)]}
           call == line = Load /\ disk /\ auto.attention
           t == AutoState'
           fed == past.fed
<1>1. /\ a \in States /\ Kept(a) /\ kernal \in Kernals /\ ~a.resetting /\ a.kbuf.buffer # <<>>
      /\ kernal.at = "ready" /\ fed \in Seq(Chars) /\ kernal.line \in Seq(Chars)
  BY InvTypes, StateIs DEF KernalReads, kbdbuf_is_empty, Pasts, Kernals
<1>2. age' = age /\ age \in 0 .. 2 /\ ~resetting'
  BY DEF KernalReads, AutoInv
<1>3. ~a.past.disturbed => Settings(a) /\ Text(a, kernal)
  BY InvTypes, StateIs
<1>4. kbuf.buffer \in Seq(Chars) /\ kbuf.buffer # <<>>
  BY <1>1, StateIs, InvTypes DEF Queues
<1>5. Head(kbuf.buffer) \in Chars /\ line \in Seq(Chars)
  <2>1. Head(kbuf.buffer) \in Chars
    BY <1>4, HeadTailProperties
  <2> QED
    BY <1>1, <2>1, AppendProperties
<1>6. /\ \A u \in {read, executed} :
           /\ u \in States /\ Kept(u) /\ u.auto = auto /\ u.res = res
           /\ u.resetting = resetting /\ u.past.fed = Tail(fed)
           /\ u.past.kind = past.kind /\ u.past.warp = past.warp
           /\ u.past.tde = past.tde /\ u.past.noted = past.noted
           /\ u.past.disturbed = past.disturbed
      /\ read.past.lines = past.lines /\ executed.past.lines = Append(past.lines, line)
      /\ fed # <<>> /\ Head(kbuf.buffer) = Head(fed)
  <2> HIDE DEF a, line, fed
  <2>1. /\ \A u \in {read, executed} :
             /\ u \in States /\ Kept(u) /\ u.auto = a.auto /\ u.res = a.res
             /\ u.resetting = a.resetting /\ u.past.fed = Tail(a.past.fed)
             /\ u.past.kind = a.past.kind /\ u.past.warp = a.past.warp
             /\ u.past.tde = a.past.tde /\ u.past.noted = a.past.noted
             /\ u.past.disturbed = a.past.disturbed
        /\ read.past.lines = a.past.lines /\ executed.past.lines = Append(a.past.lines, line)
        /\ a.past.fed # <<>> /\ Head(a.kbuf.buffer) = Head(a.past.fed)
    BY ONLY <1>1, <1>5, ReadState
  <2> HIDE DEF read, executed
  <2>2. /\ a.auto = auto /\ a.res = res /\ a.kbuf = kbuf /\ a.resetting = resetting /\ a.past = past
    BY StateIs DEF a
  <2> QED
    BY <2>1, <2>2 DEF fed
<1> HIDE DEF read, executed
<1>7. /\ auto' = (IF call THEN disk_attention_callback(executed) ELSE IF ends THEN executed ELSE read).auto
      /\ res' = (IF call THEN disk_attention_callback(executed) ELSE IF ends THEN executed ELSE read).res
      /\ kbuf' = (IF call THEN disk_attention_callback(executed) ELSE IF ends THEN executed ELSE read).kbuf
      /\ past' = (IF call THEN disk_attention_callback(executed) ELSE IF ends THEN executed ELSE read).past
      /\ resetting' = resetting
      /\ kernal' = CASE line = Load /\ past.kind = "tap" -> [at |-> "press play", line |-> <<>>]
                     [] line = Load /\ past.kind # "tap" -> [at |-> "searching", line |-> <<>>]
                     [] line = Run -> [at |-> "program", line |-> <<>>]
                     [] ~ends -> [kernal EXCEPT !.line = line]
                     [] OTHER -> [kernal EXCEPT !.line = <<>>]
  BY DEF KernalReads, read, executed
<1>8. line \in {Load, Run} => ends
  OBVIOUS
<1>9. Load # Run
  BY Commands
<1> HIDE DEF line, ends
<1>10. /\ ends => kernal'.line = <<>>
       /\ ~ends => kernal' = [kernal EXCEPT !.line = line]
       /\ line = Load /\ past.kind # "tap" => kernal'.at = "searching"
       /\ kernal' \in Kernals /\ kernal'.at # "ramtas"
  <2>1. <<>> \in Seq(Chars)
    BY EmptySeq
  <2>2. CASE line = Load
    BY <1>1, <1>7, <1>8, <1>9, <2>1, <2>2 DEF Kernals, Places
  <2>3. CASE line = Run
    BY <1>1, <1>7, <1>8, <1>9, <2>1, <2>3 DEF Kernals, Places
  <2>4. CASE line \notin {Load, Run}
    BY <1>1, <1>5, <1>7, <2>1, <2>4 DEF Kernals, Places
  <2> QED
    BY <2>2, <2>3, <2>4
<1>11. SUFFICES Good(t, kernal')
  BY <1>2, <1>10 DEF AutoInv
<1>12. ASSUME ~past.disturbed
       PROVE  /\ Settings(a) /\ Text(a, kernal) /\ Script(past.lines, kernal.line, fed)
              /\ ~ends => Script(past.lines, line, Tail(fed)) /\ line # <<>>
              /\ ends => line \in {Load, Run} /\ Script(Append(past.lines, line), <<>>, Tail(fed))
              /\ past.lines = <<>> /\ kernal.line \o fed = Load /\ Len(kernal.line) < Len(Load) =>
                   /\ ends => line = Load /\ Tail(fed) = <<>> /\ Append(past.lines, line) = <<Load>>
                   /\ ~ends => line \o Tail(fed) = Load /\ Len(line) < Len(Load)
              /\ auto.mode \notin Booting /\ ~auto.ignore_reset
              /\ auto.mode \in Waiting \/ auto.attention =>
                   past.lines = <<>> /\ kernal.line \o fed = Load /\ Len(kernal.line) < Len(Load)
              /\ auto.attention => /\ auto.mode = "LOADINGDISK" /\ past.kind = "disk"
                                   /\ ~res.DriveTrueEmulation
              /\ auto.eof => auto.mode = "LOADINGDISK" /\ ~auto.attention
  <2>1. /\ Settings(a) /\ Text(a, kernal)
        /\ a.auto = auto /\ a.res = res /\ a.kbuf = kbuf /\ a.resetting = resetting /\ a.past = past
    BY <1>3, <1>12, StateIs
  <2>2. Script(past.lines, kernal.line, fed)
    BY <2>1 DEF Text
  <2>3. line = Append(kernal.line, Head(fed))
    BY <1>6 DEF line
  <2>4. /\ ~ends => Script(past.lines, line, Tail(fed))
        /\ ends => line \in {Load, Run} /\ Script(Append(past.lines, line), <<>>, Tail(fed))
        /\ past.lines = <<>> /\ kernal.line \o fed = Load /\ Len(kernal.line) < Len(Load) =>
             /\ ends => line = Load /\ Tail(fed) = <<>> /\ Append(past.lines, line) = <<Load>>
             /\ ~ends => line \o Tail(fed) = Load /\ Len(line) < Len(Load)
    <3> DEFINE k == kernal.line  ls == past.lines
    <3>1. k \in Seq(Chars) /\ fed \in Seq(Chars) /\ fed # <<>> /\ Script(ls, k, fed)
      BY <1>1, <1>6, <2>2
    <3> HIDE DEF k, ls, fed
    <3>2. line = Append(k, Head(fed)) /\ (ends <=> line[Len(line)] \in {Load[Len(Load)], Run[Len(Run)]})
      BY <2>3 DEF ends, k
    <3>3. /\ ~ends => Script(ls, line, Tail(fed))
          /\ ends => line \in {Load, Run} /\ Script(Append(ls, line), <<>>, Tail(fed))
          /\ ls = <<>> /\ k \o fed = Load /\ Len(k) < Len(Load) =>
               /\ ends => line = Load /\ Tail(fed) = <<>> /\ Append(ls, line) = <<Load>>
               /\ ~ends => line \o Tail(fed) = Load /\ Len(line) < Len(Load)
      <4>1. Continues(ls, k, fed)
        BY ONLY <3>1, ReadScript
      <4> HIDE DEF line, ends
      <4> QED
        BY <3>2, <4>1 DEF Continues
    <3> QED
      BY <3>3 DEF k, ls
  <2>5. ~Nothing(kernal.line, fed)
    BY <1>6 DEF Nothing
  <2>6. line # <<>>
    BY <1>1, <1>5, AppendProperties DEF line
  <2>7. auto.mode \notin Booting /\ ~auto.ignore_reset
    BY <1>1, <2>1, <2>5 DEF Text
  <2>8. /\ auto.mode \in Waiting => TypingLoad(a, kernal)
        /\ auto.attention => Attended(a, kernal) /\ auto.mode = "LOADINGDISK" /\ past.kind = "disk"
                             /\ ~res.DriveTrueEmulation
        /\ auto.eof => auto.mode = "LOADINGDISK" /\ ~auto.attention
    BY <2>1, <2>5 DEF Text
  <2>9. auto.mode \in Waiting \/ auto.attention =>
          past.lines = <<>> /\ kernal.line \o fed = Load /\ Len(kernal.line) < Len(Load)
    BY <2>1, <2>5, <2>8 DEF TypingLoad, Attended
  <2> QED
    BY <2>1, <2>2, <2>4, <2>6, <2>7, <2>8, <2>9
<1>13. \A u \in {read, executed} : ~past.disturbed => Settings(u)
  <2> SUFFICES ASSUME NEW u \in {read, executed}, ~past.disturbed PROVE Settings(u)
    OBVIOUS
  <2>1. /\ u \in States /\ u.auto = a.auto /\ u.res = a.res /\ u.past.kind = a.past.kind
        /\ u.past.warp = a.past.warp /\ u.past.tde = a.past.tde /\ u.past.noted = a.past.noted
    BY <1>6, StateIs
  <2>2. Settings(a)
    BY <1>12
  <2> QED
    BY <1>1, <2>1, <2>2, SettingsSame
<1>14. CASE ~call /\ ~ends
  <2>1. t = read
    <3>1. auto' = read.auto /\ res' = read.res /\ kbuf' = read.kbuf /\ past' = read.past
          /\ resetting' = read.resetting
      BY <1>6, <1>7, <1>14
    <3> QED
      BY <1>6, <3>1, StateIs, StateOf
  <2>2. ASSUME ~past.disturbed PROVE Text(read, kernal')
    <3>1. kernal'.line = line /\ kernal'.at = "ready"
      BY <1>1, <1>10, <1>14 DEF Kernals
    <3>2. auto.mode \in Waiting => TypingLoad(read, kernal')
      BY <1>6, <1>12, <1>14, <2>2, <3>1 DEF TypingLoad
    <3>3. auto.attention => Attended(read, kernal')
      BY <1>6, <1>12, <1>14, <2>2, <3>1 DEF Attended
    <3> QED
      BY <1>2, <1>6, <1>7, <1>12, <1>14, <2>2, <3>1, <3>2, <3>3 DEF Text
  <2> QED
    BY <1>6, <1>13, <2>1, <2>2 DEF Good
<1>15. CASE ~call /\ ends
  <2>1. t = executed
    <3>1. auto' = executed.auto /\ res' = executed.res /\ kbuf' = executed.kbuf
          /\ past' = executed.past /\ resetting' = executed.resetting
      BY <1>6, <1>7, <1>15
    <3> QED
      BY <1>6, <3>1, StateIs, StateOf
  <2>2. ASSUME ~past.disturbed PROVE Text(executed, kernal')
    <3>1. kernal'.line = <<>>
      BY <1>10, <1>15
    <3>2. auto.mode \in Waiting =>
            executed.past.lines = <<Load>> /\ Nothing(kernal'.line, executed.past.fed)
      BY <1>6, <1>12, <1>15, <2>2, <3>1 DEF Nothing
    <3>3. auto.attention => Attended(executed, kernal')
      BY <1>6, <1>10, <1>12, <1>15, <2>2, <3>1 DEF Attended, Nothing
    <3> QED
      BY <1>2, <1>6, <1>7, <1>12, <1>15, <2>2, <3>1, <3>2, <3>3 DEF Text
  <2> QED
    BY <1>6, <1>13, <2>1, <2>2 DEF Good
<1>16. CASE call
  <2> DEFINE f == TypeRun(executed)
             b == [f.auto EXCEPT !.attention = FALSE, !.eof = TRUE]
             d == disk_attention_callback(executed)
  <2>1. d = [f EXCEPT !.auto = b]
    BY DEF disk_attention_callback
  <2>2. /\ f \in States /\ Kept(f) /\ f.auto = auto /\ f.res = res
        /\ f.resetting = resetting /\ ~f.resetting
        /\ f.past = [executed.past EXCEPT !.fed = f.past.fed]
        /\ f.past.fed \in {executed.past.fed, executed.past.fed \o Run}
    BY <1>2, <1>6, <1>7, TypeRunState
  <2>3. f.past.kind = past.kind /\ f.past.warp = past.warp /\ f.past.tde = past.tde
        /\ f.past.noted = past.noted /\ f.past.disturbed = past.disturbed
        /\ f.past.lines = executed.past.lines
    <3>1. executed.past \in Pasts
      BY <1>6, StateOf
    <3> HIDE DEF f
    <3> QED
      BY <1>6, <2>2, <3>1 DEF Pasts
  <2> HIDE DEF f, d
  <2>4. /\ b \in Autos /\ b.mode = auto.mode /\ b.attention = FALSE /\ b.eof = TRUE
        /\ b.orig_warp = auto.orig_warp /\ b.orig_tde = auto.orig_tde
        /\ b.ignore_reset = auto.ignore_reset
    BY <2>2, InvTypes DEF Autos
  <2> HIDE DEF b
  <2>5. /\ d \in States /\ d.auto = b /\ d.res = f.res /\ d.kbuf = f.kbuf /\ d.past = f.past
        /\ d.resetting = f.resetting
    BY <2>1, <2>2, <2>4 DEF States
  <2>6. t = d
    <3>1. auto' = d.auto /\ res' = d.res /\ kbuf' = d.kbuf /\ past' = d.past
          /\ resetting' = d.resetting
      <4>1. /\ auto' = d.auto /\ res' = d.res /\ kbuf' = d.kbuf /\ past' = d.past
            /\ resetting' = resetting
        BY <1>7, <1>16 DEF d
      <4> QED
        BY <2>2, <2>5, <4>1
    <3> QED
      BY <2>5, <3>1, StateIs, StateOf
  <2>7. Kept(d)
    BY <2>2, <2>5 DEF Kept
  <2>8. ASSUME ~past.disturbed PROVE Settings(d) /\ Text(d, kernal')
    <3>1. Settings(executed)
      BY <1>13, <2>8
    <3>2. Settings(d)
      BY <1>6, <2>2, <2>3, <2>4, <2>5, <3>1, SettingsSame
    <3>3. /\ executed.past.lines = <<Load>> /\ executed.past.fed = <<>> /\ kernal'.line = <<>>
          /\ auto.mode = "LOADINGDISK" /\ ~auto.ignore_reset
      BY <1>6, <1>8, <1>10, <1>12, <1>16, <2>8
    <3>4. /\ executed.past.lines \in {<<>>, <<Load>>} /\ Nothing(kernal'.line, executed.past.fed)
          /\ d.past.lines = executed.past.lines
          /\ d.past.fed \in {executed.past.fed, executed.past.fed \o Run}
          /\ ~d.resetting /\ ~d.auto.ignore_reset /\ ~d.auto.attention
          /\ d.auto.mode = "LOADINGDISK"
          /\ executed \in States /\ d \in States /\ kernal' \in Kernals
      BY <1>6, <1>10, <2>2, <2>3, <2>4, <2>5, <3>3 DEF Nothing
    <3>5. Text(d, kernal')
      BY ONLY <3>4, TextRuns
    <3> QED
      BY <3>2, <3>5
  <2> QED
    BY <2>3, <2>5, <2>6, <2>7, <2>8 DEF Good
<1> QED
  BY <1>14, <1>15, <1>16

-----------------------------------------------------------------------------
(* The reset. *)

\* The reset ends what autostart did not ask for, and takes the text with it.
LEMMA ResetKeeps == AutoInv /\ machine_reset => AutoInv'
<1> SUFFICES ASSUME AutoInv, machine_reset PROVE AutoInv'
  OBVIOUS
<1> DEFINE s == AutoState
           over == ~s.auto.ignore_reset /\ s.auto.mode \notin {"NONE", "ERROR"}
           v == IF s.auto.mode # "DONE" THEN disk_eof_callback(s) ELSE s
           t == IF over THEN [v EXCEPT !.auto.mode = "NONE"] ELSE s
           k == [kbuf EXCEPT !.buffer = <<>>]
           f == Without(past.fed, Len(kbuf.buffer))
           p == [past EXCEPT !.lines = <<>>, !.fed = f]
           a == [t.auto EXCEPT !.ignore_reset = FALSE]
           u == AutoState'
<1>1. /\ s \in States /\ Kept(s) /\ kbuf \in Queues /\ past \in Pasts /\ past.fed = Held(kbuf) /\ s.resetting
      /\ s.auto = auto /\ s.res = res /\ s.kbuf = kbuf /\ s.past = past
  BY InvTypes, StateIs DEF machine_reset
<1>2. /\ auto' = a /\ res' = t.res /\ kbuf' = k /\ past' = p /\ resetting' = FALSE /\ age' = 0
      /\ kernal' = [at |-> "ramtas", line |-> <<>>]
  BY DEF machine_reset
<1>3. ~past.disturbed => Settings(s) /\ Text(s, kernal)
  BY InvTypes, StateIs
<1>4. /\ k \in Queues /\ Held(k) = f /\ f \in Seq(Chars) /\ (kbuf.num_pending = 0 => f = <<>>)
      /\ k.buffer = <<>>
  BY <1>1, TakeAll
<1>5. <<>> \in Seq(Chars) /\ <<>> \in Seq(Seq(Chars)) /\ <<>> \o <<>> = <<>>
  <2>1. <<>> \in Seq(Chars) /\ <<>> \in Seq(Seq(Chars))
    BY ONLY EmptySeq
  <2> QED
    BY <2>1, ConcatEmptySeq
<1> HIDE DEF f, k
<1>6. /\ p \in Pasts /\ p.fed = f /\ p.lines = <<>> /\ p.kind = past.kind /\ p.warp = past.warp
      /\ p.tde = past.tde /\ p.noted = past.noted /\ p.disturbed = past.disturbed
  BY <1>1, <1>4, <1>5 DEF Pasts
<1> HIDE DEF p, s
<1>7. /\ v \in States /\ v.past = past /\ v.auto.attention = s.auto.attention
      /\ v.auto.mode \in {"DONE", s.auto.mode} /\ (s.auto.mode # "DONE" => ~v.auto.eof)
      /\ v.auto.eof => s.auto.eof
      /\ ~past.disturbed /\ over => Settings(v)
      /\ over => v.auto.mode = "DONE"
  <2>1. CASE s.auto.mode = "DONE"
    BY <1>1, <1>3, <2>1
  <2>2. CASE s.auto.mode # "DONE"
    <3> DEFINE e == disk_eof_callback(s)
    <3>1. /\ e \in States /\ e.auto = [s.auto EXCEPT !.mode = "DONE", !.eof = FALSE] /\ e.past = past
          /\ Settings(s) /\ s.auto.mode \notin Ended => Settings(e)
      BY <1>1, EofState
    <3> HIDE DEF e
    <3>2. v = e
      BY <2>2 DEF e
    <3>3. s.auto \in Autos
      BY <1>1, StateOf
    <3>4. /\ e.auto.mode = "DONE" /\ e.auto.eof = FALSE
          /\ e.auto.attention = s.auto.attention
      BY <3>1, <3>3 DEF Autos
    <3>5. over => s.auto.mode \notin Ended
      BY <2>2 DEF Ended
    <3> QED
      BY <1>3, <2>2, <3>1, <3>2, <3>4, <3>5
  <2> QED
    BY <2>1, <2>2
<1> HIDE DEF v
<1>8. /\ t \in States /\ t.auto.attention = s.auto.attention
      /\ t.auto.mode = IF over THEN "NONE" ELSE s.auto.mode
      /\ over /\ s.auto.mode # "DONE" => ~t.auto.eof
      /\ t.auto.eof => s.auto.eof
      /\ ~past.disturbed => Settings(t)
      /\ t.past = past
  <2>1. CASE ~over
    BY <1>1, <1>3, <2>1
  <2>2. CASE over
    <3> DEFINE b == [v.auto EXCEPT !.mode = "NONE"]
    <3>1. v.auto \in Autos
      BY <1>7, StateOf
    <3>2. /\ b \in Autos /\ b.mode = "NONE" /\ b.attention = v.auto.attention /\ b.eof = v.auto.eof
          /\ b.orig_warp = v.auto.orig_warp /\ b.orig_tde = v.auto.orig_tde
      BY <3>1 DEF Autos, Modes, Ended
    <3>3. t = [v EXCEPT !.auto = b]
      BY <2>2
    <3> HIDE DEF b, t, over
    <3>4. /\ t \in States /\ t.auto = b /\ t.res = v.res /\ t.past = v.past
      BY <1>7, <3>2, <3>3 DEF States
    <3>5. ASSUME ~past.disturbed PROVE Settings(t)
      <4>1. Settings(v) /\ v.auto.mode \in Ended /\ t.auto.mode \in Ended
        BY <1>7, <2>2, <3>2, <3>4, <3>5 DEF Ended
      <4> QED
        BY <1>7, <3>2, <3>4, <4>1, SettingsSame
    <3> QED
      BY <1>7, <2>2, <3>2, <3>4, <3>5
  <2> QED
    BY <2>1, <2>2
<1> HIDE DEF t
<1>9. t.auto \in Autos /\ t.res \in Ress
  BY <1>8, StateOf
<1>10. /\ a \in Autos /\ a.mode = t.auto.mode /\ a.attention = t.auto.attention /\ a.eof = t.auto.eof
       /\ a.orig_warp = t.auto.orig_warp /\ a.orig_tde = t.auto.orig_tde /\ a.ignore_reset = FALSE
  BY <1>9 DEF Autos
<1> HIDE DEF a
<1>11. u = [auto |-> a, res |-> t.res, kbuf |-> k, resetting |-> FALSE, past |-> p]
  BY <1>2, StateIs
<1> HIDE DEF u
<1>12. /\ u \in States /\ u.auto = a /\ u.res = t.res /\ u.kbuf = k /\ u.resetting = FALSE /\ u.past = p
  BY <1>4, <1>6, <1>9, <1>10, <1>11 DEF States
<1>13. Kept(u)
  BY <1>4, <1>6, <1>12 DEF Kept
<1>14. ASSUME ~past.disturbed PROVE Settings(u) /\ Text(u, kernal')
  <2>1. Settings(t) /\ Text(s, kernal)
    BY <1>3, <1>8, <1>14
  <2>2. Settings(u)
    BY <1>6, <1>8, <1>10, <1>12, <2>1, SettingsSame
  <2>3. kernal'.line = <<>> /\ u.past.fed = <<>> /\ u.past.lines = <<>>
    BY <1>1, <1>2, <1>4, <1>6, <1>12, <2>1 DEF Text
  <2>4. ~u.auto.attention
    BY <1>1, <1>8, <1>10, <1>12, <2>1 DEF Text
  <2>5. ~u.auto.eof
    <3> SUFFICES ASSUME u.auto.eof PROVE FALSE
      OBVIOUS
    <3>1. s.auto.eof /\ t.auto.eof
      BY <1>8, <1>10, <1>12
    <3>2. s.auto.mode = "LOADINGDISK" /\ ~s.auto.ignore_reset
      BY <2>1, <3>1 DEF Text, Booting
    <3> QED
      BY <1>8, <3>1, <3>2 DEF over
  <2>6. Script(u.past.lines, kernal'.line, u.past.fed)
    BY <1>5, <2>3 DEF Script
  <2> QED
    BY <1>10, <1>12, <2>2, <2>3, <2>4, <2>5, <2>6 DEF Text, Nothing
<1>15. Good(u, kernal')
  BY <1>6, <1>12, <1>13, <1>14 DEF Good
<1>16. kernal' \in Kernals /\ age' \in 0 .. 2 /\ age' = 0 /\ kbuf'.buffer = <<>>
  BY <1>2, <1>4, <1>5 DEF Kernals, Places
<1> QED
  BY <1>15, <1>16 DEF AutoInv, u

-----------------------------------------------------------------------------
(* The end of a frame. *)

\* What the pads find and leave: nothing is typed by them, and the queues are not touched.
Polled(s, p) ==
  /\ p \in States /\ Kept(p) /\ Whole(p) /\ p.kbuf = s.kbuf /\ p.res.HandleTde = s.res.HandleTde
  /\ p.auto.mode \notin Waiting
  /\ ~p.resetting \/ p.auto.mode \in Ended \/ p.auto.wait_for_reset

\* The pads are polled while no autostart runs.
Pollable(s) ==
  s \in States /\ Kept(s) /\ Whole(s) /\ ~s.resetting /\ s.auto.mode \in {"NONE", "DONE"} /\ kernal \in Kernals

\* The warp buttons: warp mode is as the user has it.
LEMMA PadsWarp ==
  ASSUME NEW s, Pollable(s)
  PROVE  Polled(s, [s EXCEPT !.res.held = ~@, !.res.WarpMode = ~s.res.held, !.past.warp = ~s.res.held])
<1> DEFINE w == ~s.res.held
           r == [s.res EXCEPT !.held = w, !.WarpMode = w]
           q == [s.past EXCEPT !.warp = w]
           p == [s EXCEPT !.res.held = ~@, !.res.WarpMode = ~s.res.held, !.past.warp = ~s.res.held]
<1>1. s \in States /\ s.auto \in Autos /\ s.res \in Ress /\ s.past \in Pasts
  BY StateOf DEF Pollable
<1>2. p = [s EXCEPT !.res = r, !.past = q]
  OBVIOUS
<1>3. w \in BOOLEAN
  OBVIOUS
<1> HIDE DEF w, p
<1>4. /\ r \in Ress /\ r.WarpMode = w /\ r.HandleTde = s.res.HandleTde
      /\ r.VirtualDevices = s.res.VirtualDevices /\ r.AutostartWarp = s.res.AutostartWarp
      /\ r.DriveTrueEmulation = s.res.DriveTrueEmulation
  BY <1>1, <1>3 DEF Ress
<1>5. /\ q \in Pasts /\ q.warp = w /\ q.fed = s.past.fed /\ q.lines = s.past.lines /\ q.kind = s.past.kind
      /\ q.tde = s.past.tde /\ q.noted = s.past.noted /\ q.disturbed = s.past.disturbed
  BY <1>1, <1>3 DEF Pasts
<1> HIDE DEF r, q
<1>6. /\ p \in States /\ p.auto = s.auto /\ p.res = r /\ p.kbuf = s.kbuf /\ p.past = q
      /\ p.resetting = s.resetting
  BY <1>1, <1>2, <1>4, <1>5 DEF States
<1>7. s.auto.mode \in Ended /\ s.auto.mode \notin Waiting
  BY DEF Pollable, Ended, Waiting
<1>8. ASSUME ~s.past.disturbed PROVE Settings(p) /\ Text(p, kernal)
  <2>1. Settings(s) /\ Text(s, kernal)
    BY <1>8 DEF Pollable, Whole
  <2>2. Settings(p)
    BY <1>4, <1>5, <1>6, <1>7, <2>1 DEF Settings
  <2>3. Text(p, kernal)
    BY <1>1, <1>4, <1>5, <1>6, <2>1, TextSame
  <2> QED
    BY <2>2, <2>3
<1>9. Polled(s, p)
  BY <1>4, <1>5, <1>6, <1>7, <1>8 DEF Polled, Pollable, Kept, Whole
<1> QED
  BY <1>9 DEF p

\* A start more is counted, and the drive emulation is as the program wants it.
LEMMA PadsCompat ==
  ASSUME NEW s, Pollable(s), NEW c \in BOOLEAN
  PROVE  LET t == Counted(s)
             d == Compat(Counted(s), c)
         IN  /\ Pollable(t) /\ t.kbuf = s.kbuf /\ t.res = s.res
             /\ Pollable(d) /\ d.kbuf = s.kbuf /\ d.res.HandleTde = s.res.HandleTde
             /\ d.res.DriveTrueEmulation = c /\ d.past.tde = c
<1> DEFINE n == [s.past EXCEPT !.starts = s.past.starts + 1]
           q == [n EXCEPT !.tde = c]
           r == [s.res EXCEPT !.AutostartWarp = ~c, !.DriveTrueEmulation = c]
           t == Counted(s)
           d == Compat(Counted(s), c)
<1>1. s \in States /\ s.auto \in Autos /\ s.res \in Ress /\ s.past \in Pasts /\ Kept(s) /\ ~s.resetting
      /\ s.auto.mode \in {"NONE", "DONE"} /\ kernal \in Kernals
  BY StateOf DEF Pollable
<1>2. t = [s EXCEPT !.past = n]
  BY DEF Counted
<1>3. d = [t EXCEPT !.res = [t.res EXCEPT !.AutostartWarp = ~c, !.DriveTrueEmulation = c],
                    !.past = [t.past EXCEPT !.tde = c]]
  BY DEF Compat
<1>4. s.past.starts + 1 \in Nat /\ (~c) \in BOOLEAN
  BY <1>1 DEF Pasts
<1>5. /\ n \in Pasts /\ n.warp = s.past.warp /\ n.fed = s.past.fed /\ n.lines = s.past.lines
      /\ n.kind = s.past.kind /\ n.tde = s.past.tde /\ n.noted = s.past.noted
      /\ n.disturbed = s.past.disturbed
  BY <1>1, <1>4 DEF Pasts
<1> HIDE DEF n
<1>6. /\ q \in Pasts /\ q.warp = s.past.warp /\ q.fed = s.past.fed /\ q.lines = s.past.lines
      /\ q.kind = s.past.kind /\ q.tde = c /\ q.noted = s.past.noted
      /\ q.disturbed = s.past.disturbed
  BY <1>5 DEF Pasts
<1>7. /\ r \in Ress /\ r.WarpMode = s.res.WarpMode /\ r.HandleTde = s.res.HandleTde
      /\ r.VirtualDevices = s.res.VirtualDevices /\ r.DriveTrueEmulation = c
  BY <1>1, <1>4 DEF Ress
<1> HIDE DEF t, d
<1>8. /\ t \in States /\ t.auto = s.auto /\ t.res = s.res /\ t.kbuf = s.kbuf /\ t.past = n
      /\ t.resetting = s.resetting
  BY <1>1, <1>2, <1>5 DEF States
<1>9. d = [t EXCEPT !.res = r, !.past = q]
  BY <1>3, <1>8
<1> HIDE DEF q, r
<1>10. /\ d \in States /\ d.auto = s.auto /\ d.res = r /\ d.kbuf = s.kbuf /\ d.past = q
       /\ d.resetting = s.resetting
  BY <1>6, <1>7, <1>8, <1>9 DEF States
<1>11. Kept(t) /\ Kept(d)
  BY <1>1, <1>5, <1>6, <1>8, <1>10 DEF Kept
<1>12. ASSUME ~s.past.disturbed
       PROVE  Settings(t) /\ Text(t, kernal) /\ Settings(d) /\ Text(d, kernal)
  <2>1. Settings(s) /\ Text(s, kernal) /\ ~s.auto.attention
    <3>1. Settings(s) /\ Text(s, kernal)
      BY <1>12 DEF Pollable, Whole
    <3> QED
      BY <1>1, <3>1 DEF Text
  <2>2. Settings(t)
    BY <1>1, <1>5, <1>8, <2>1, SettingsSame
  <2>3. Text(t, kernal)
    BY <1>1, <1>5, <1>8, <2>1, TextSame
  <2>4. Settings(d)
    BY <1>1, <1>6, <1>7, <1>10, <2>1 DEF Settings, Ended
  <2>5. Text(d, kernal)
    BY <1>1, <1>6, <1>7, <1>10, <2>1, TextSame
  <2> QED
    BY <2>2, <2>3, <2>4, <2>5
<1>13. Pollable(t) /\ Pollable(d)
  BY <1>1, <1>5, <1>6, <1>8, <1>10, <1>11, <1>12 DEF Pollable, Whole
<1> QED
  BY <1>6, <1>7, <1>8, <1>10, <1>13 DEF t, d

\* A reset alone, and a program that cannot be started.
LEMMA PadsReset ==
  ASSUME NEW s, Pollable(s)
  PROVE  Polled(s, s) /\ Polled(s, AskReset(s)) /\ Polled(s, [s EXCEPT !.auto.mode = "ERROR"])
<1>1. s \in States /\ s.auto \in Autos /\ Kept(s) /\ ~s.resetting /\ s.auto.mode \in {"NONE", "DONE"}
  BY StateOf DEF Pollable
<1>2. s.auto.mode \in Ended /\ s.auto.mode \notin Waiting /\ "ERROR" \in Ended /\ "ERROR" \notin Waiting
      /\ s.auto.mode # "LOADINGDISK"
  BY <1>1 DEF Ended, Waiting
<1>3. ~s.past.disturbed => Settings(s) /\ Text(s, kernal) /\ ~s.auto.attention
  <2>1. ~s.past.disturbed => Settings(s) /\ Text(s, kernal)
    BY DEF Pollable, Whole
  <2> QED
    BY <1>2, <2>1 DEF Text
<1>4. Polled(s, s)
  BY <1>1, <1>2 DEF Polled, Pollable
<1>5. Polled(s, AskReset(s))
  <2> DEFINE a == AskReset(s)
  <2>1. /\ a \in States /\ a.auto = s.auto /\ a.res = s.res /\ a.kbuf = s.kbuf /\ a.resetting = TRUE
        /\ ~a.past.disturbed => ~s.past.disturbed /\ s.kbuf.num_pending = 0
        /\ a.past.fed = s.past.fed /\ a.past.lines = s.past.lines /\ a.past.kind = s.past.kind
        /\ a.past.warp = s.past.warp /\ a.past.tde = s.past.tde /\ a.past.noted = s.past.noted
    BY <1>1, AskState
  <2> HIDE DEF a
  <2>2. ASSUME ~a.past.disturbed PROVE Settings(a) /\ Text(a, kernal)
    <3>1. Settings(s) /\ Text(s, kernal) /\ ~s.auto.attention /\ s.kbuf.num_pending = 0
      BY <1>3, <2>1, <2>2
    <3>2. Settings(a)
      BY <1>1, <2>1, <3>1, SettingsSame
    <3>3. Text(a, kernal)
      BY <1>1, <2>1, <3>1, TextAsked
    <3> QED
      BY <3>2, <3>3
  <2>3. Polled(s, a)
    BY <1>1, <1>2, <2>1, <2>2 DEF Polled, Kept, Whole
  <2> QED
    BY <2>3 DEF a
<1>6. Polled(s, [s EXCEPT !.auto.mode = "ERROR"])
  <2> DEFINE b == [s.auto EXCEPT !.mode = "ERROR"]  e == [s EXCEPT !.auto.mode = "ERROR"]
  <2>1. e = [s EXCEPT !.auto = b]
    OBVIOUS
  <2>2. /\ b \in Autos /\ b.mode = "ERROR" /\ b.orig_warp = s.auto.orig_warp /\ b.orig_tde = s.auto.orig_tde
        /\ b.attention = s.auto.attention /\ b.eof = s.auto.eof /\ b.ignore_reset = s.auto.ignore_reset
    BY <1>1 DEF Autos, Modes, Ended
  <2> HIDE DEF b, e
  <2>3. /\ e \in States /\ e.auto = b /\ e.res = s.res /\ e.kbuf = s.kbuf /\ e.past = s.past
        /\ e.resetting = s.resetting
    BY <1>1, <2>1, <2>2 DEF States
  <2>4. ASSUME ~s.past.disturbed PROVE Settings(e) /\ Text(e, kernal)
    <3>1. Settings(e)
      BY <1>1, <1>2, <1>3, <2>2, <2>3, <2>4, SettingsSame
    <3>2. Text(e, kernal)
      BY <1>1, <1>2, <1>3, <2>2, <2>3, <2>4, TextSame
    <3> QED
      BY <3>1, <3>2
  <2>5. Polled(s, e)
    BY <1>1, <1>2, <2>2, <2>3, <2>4 DEF Polled, Kept, Whole
  <2> QED
    BY <2>5 DEF e
<1> QED
  BY <1>4, <1>5, <1>6

\* A program is started.
LEMMA PadsBoot ==
  ASSUME NEW s, Pollable(s), s.res.DriveTrueEmulation = s.past.tde,
         NEW kind \in Kinds, NEW runmode \in {"RUN", "LOAD"}
  PROVE  Polled(s, reboot_for_autostart(s, kind, runmode))
<1> DEFINE x == AskReset(s)
           b == [s.auto EXCEPT !.ignore_reset = TRUE, !.mode = Boots(kind), !.run_mode = runmode,
                               !.wait_for_reset = TRUE, !.play = FALSE]
           q == [x.past EXCEPT !.kind = kind, !.noted = FALSE, !.warp = s.res.WarpMode]
           r == [x EXCEPT !.auto.ignore_reset = TRUE, !.auto.mode = Boots(kind), !.auto.run_mode = runmode,
                          !.auto.wait_for_reset = TRUE, !.auto.play = FALSE,
                          !.past.kind = kind, !.past.noted = FALSE,
                          !.past.warp = s.res.WarpMode]
           u == reboot_for_autostart(s, kind, runmode)
           a == IF kind # "snapshot" /\ s.res.AutostartWarp
                THEN [b EXCEPT !.orig_warp = s.res.WarpMode] ELSE b
           e == IF kind # "snapshot" /\ s.res.AutostartWarp
                THEN [s.res EXCEPT !.WarpMode = TRUE] ELSE s.res
<1>1. /\ s \in States /\ s.auto \in Autos /\ s.res \in Ress /\ s.past \in Pasts /\ Kept(s) /\ ~s.resetting
      /\ s.auto.mode \in {"NONE", "DONE"}
  BY StateOf DEF Pollable
<1>2. /\ \/ kind \in {"tap", "t64"} /\ Boots(kind) = "HASTAPE"
         \/ kind = "disk" /\ Boots(kind) = "HASDISK"
         \/ kind = "snapshot" /\ Boots(kind) = "HASSNAPSHOT"
         \/ kind = "inject" /\ Boots(kind) = "INJECT"
      /\ Boots(kind) \in Booting
  <2>1. kind \in {"disk", "tap", "t64", "snapshot", "inject"}
    BY AutostartAssumption
  <2> QED
    BY <2>1 DEF Boots, Booting
<1>3. Boots(kind) \in Modes /\ Boots(kind) \notin Waiting \cup Ended \cup {"LOADINGDISK"}
  BY <1>2 DEF Modes, Waiting, Ended
<1>4. /\ x \in States /\ x.auto = s.auto /\ x.res = s.res /\ x.kbuf = s.kbuf /\ x.resetting = TRUE
      /\ ~x.past.disturbed => ~s.past.disturbed /\ s.kbuf.num_pending = 0
      /\ x.past.fed = s.past.fed /\ x.past.lines = s.past.lines /\ x.past.tde = s.past.tde
  BY <1>1, AskState
<1> HIDE DEF x
<1>5. x.past \in Pasts
  BY <1>4, StateOf
<1> DEFINE m == Boots(kind)  w == s.res.WarpMode
<1>6. m \in Modes /\ w \in BOOLEAN
  BY <1>1, <1>3 DEF Ress
<1>7. r = [x EXCEPT !.auto = b, !.past = q]
  BY <1>4
<1> HIDE DEF m, w, r
<1>8. /\ b \in Autos /\ b.mode = m /\ b.attention = s.auto.attention /\ b.eof = s.auto.eof
      /\ b.wait_for_reset = TRUE /\ b.ignore_reset = TRUE
  BY <1>1, <1>6 DEF Autos, m
<1>9. /\ q \in Pasts /\ q.kind = kind /\ q.noted = FALSE /\ q.warp = w /\ q.fed = s.past.fed
      /\ q.lines = s.past.lines /\ q.tde = s.past.tde /\ q.disturbed = x.past.disturbed
  BY <1>4, <1>5, <1>6 DEF Pasts, w
<1> HIDE DEF b, q
<1>10. /\ r \in States /\ r.auto = b /\ r.res = s.res /\ r.kbuf = s.kbuf /\ r.past = q /\ r.resetting = TRUE
  BY <1>4, <1>7, <1>8, <1>9 DEF States
<1>11. u = [r EXCEPT !.auto = a, !.res = e]
  <2>1. u = IF kind = "snapshot" THEN r ELSE enable_warp_if_requested(r)
    BY DEF reboot_for_autostart, r, x
  <2>2. CASE kind # "snapshot" /\ s.res.AutostartWarp
    <3>1. u = [r EXCEPT !.auto.orig_warp = r.res.WarpMode, !.res.WarpMode = TRUE]
      BY <1>10, <2>1, <2>2 DEF enable_warp_if_requested
    <3>2. u = [r EXCEPT !.auto = [b EXCEPT !.orig_warp = s.res.WarpMode],
                        !.res = [s.res EXCEPT !.WarpMode = TRUE]]
      BY <1>10, <3>1
    <3> QED
      BY <2>2, <3>2
  <2>3. CASE ~(kind # "snapshot" /\ s.res.AutostartWarp)
    <3>1. u = r
      BY <1>10, <2>1, <2>3 DEF enable_warp_if_requested
    <3>2. a = r.auto /\ e = r.res
      BY <1>10, <2>3
    <3> HIDE DEF a, e, u
    <3> QED
      BY <1>10, <3>1, <3>2 DEF States
  <2> QED
    BY <2>2, <2>3
<1> HIDE DEF u
<1>12. /\ a \in Autos /\ a.mode = m /\ a.attention = s.auto.attention /\ a.eof = s.auto.eof
       /\ a.wait_for_reset = TRUE /\ a.ignore_reset = TRUE
       /\ kind # "snapshot" /\ s.res.AutostartWarp => a.orig_warp = w
  BY <1>6, <1>8 DEF Autos, w
<1>13. /\ e \in Ress /\ e.DriveTrueEmulation = s.res.DriveTrueEmulation /\ e.HandleTde = s.res.HandleTde
       /\ e.VirtualDevices = s.res.VirtualDevices /\ e.AutostartWarp = s.res.AutostartWarp
       /\ kind # "snapshot" /\ s.res.AutostartWarp => e.WarpMode = TRUE
       /\ ~s.res.AutostartWarp => e.WarpMode = w
  BY <1>1 DEF Ress, w
<1> HIDE DEF a, e
<1>14. /\ u \in States /\ u.auto = a /\ u.res = e /\ u.kbuf = s.kbuf /\ u.past = q /\ u.resetting = TRUE
  BY <1>10, <1>11, <1>12, <1>13 DEF States
<1>15. Kept(u)
  BY <1>1, <1>9, <1>14 DEF Kept
<1>16. ASSUME ~u.past.disturbed PROVE Settings(u) /\ Text(u, kernal)
  <2>1. Settings(s) /\ Text(s, kernal) /\ s.kbuf.num_pending = 0
    BY <1>4, <1>9, <1>14, <1>16 DEF Pollable, Whole
  <2>2. Settings(u)
    BY <1>2, <1>3, <1>9, <1>12, <1>13, <1>14 DEF Settings, Ended, m
  <2>3. ~s.auto.attention /\ ~s.auto.eof
    BY <1>1, <2>1 DEF Text
  <2>4. Text(u, kernal)
    BY <1>2, <1>3, <1>9, <1>12, <1>14, <2>1, <2>3 DEF Text, m
  <2> QED
    BY <2>2, <2>4
<1>17. Polled(s, u)
  BY <1>3, <1>12, <1>13, <1>14, <1>15, <1>16 DEF Polled, Whole, m
<1> QED
  BY <1>17 DEF u

\* Whatever is done with the pads.
LEMMA PadsKeep ==
  ASSUME NEW s, Pollable(s), NEW p \in Pads(s)
  PROVE  Polled(s, p)
<1> DEFINE t == Counted(s)
           compat(c) == Compat(Counted(s), c)
<1>1. \/ p = s
      \/ p = [s EXCEPT !.res.held = ~@, !.res.WarpMode = ~s.res.held, !.past.warp = ~s.res.held]
      \/ p = AskReset(t)
      \/ \E c \in BOOLEAN, k \in Kinds, r \in {"RUN", "LOAD"} : p = reboot_for_autostart(compat(c), k, r)
      \/ \E c \in BOOLEAN : p = [compat(c) EXCEPT !.auto.mode = "ERROR"]
  <2> HIDE DEF t
  <2>1. \/ p \in {s, [s EXCEPT !.res.held = ~@, !.res.WarpMode = ~s.res.held, !.past.warp = ~s.res.held]}
        \/ p \in Starts(t)
    BY DEF Pads, t
  <2>2. ASSUME p \in Starts(t)
        PROVE  \/ p = AskReset(t)
               \/ \E c \in BOOLEAN, k \in Kinds, r \in {"RUN", "LOAD"} : p = reboot_for_autostart(compat(c), k, r)
               \/ \E c \in BOOLEAN : p = [compat(c) EXCEPT !.auto.mode = "ERROR"]
    BY <2>2 DEF Starts, t
  <2> QED
    BY <2>1, <2>2
<1>2. ASSUME NEW c \in BOOLEAN
      PROVE  /\ Pollable(t) /\ t.kbuf = s.kbuf /\ t.res = s.res
             /\ Pollable(compat(c)) /\ compat(c).kbuf = s.kbuf
             /\ compat(c).res.HandleTde = s.res.HandleTde
             /\ compat(c).res.DriveTrueEmulation = compat(c).past.tde
  BY PadsCompat
<1>3. Pollable(t) /\ t.kbuf = s.kbuf /\ t.res = s.res
  BY <1>2
<1>4. ASSUME NEW d, Polled(d, p), d.kbuf = s.kbuf, d.res.HandleTde = s.res.HandleTde
      PROVE  Polled(s, p)
  BY <1>4 DEF Polled
<1> HIDE DEF t, compat
<1>5. CASE p = s
  BY <1>5, PadsReset
<1>6. CASE p = [s EXCEPT !.res.held = ~@, !.res.WarpMode = ~s.res.held, !.past.warp = ~s.res.held]
  BY <1>6, PadsWarp
<1>7. CASE p = AskReset(t)
  BY <1>3, <1>4, <1>7, PadsReset
<1>8. ASSUME NEW c \in BOOLEAN, NEW k \in Kinds, NEW r \in {"RUN", "LOAD"},
             p = reboot_for_autostart(compat(c), k, r)
      PROVE  Polled(s, p)
  <2>1. Polled(compat(c), p)
    BY <1>2, <1>8, PadsBoot
  <2> QED
    BY <1>2, <1>4, <2>1
<1>9. ASSUME NEW c \in BOOLEAN, p = [compat(c) EXCEPT !.auto.mode = "ERROR"]
      PROVE  Polled(s, p)
  <2>1. Polled(compat(c), p)
    BY <1>2, <1>9, PadsReset
  <2> QED
    BY <1>2, <1>4, <2>1
<1> QED
  BY <1>1, <1>5, <1>6, <1>7, <1>8, <1>9

\* The queue, the pads and autostart, in the order of a frame.
LEMMA FrameKeeps == AutoInv /\ vsync_do_vsync => AutoInv'
<1> SUFFICES ASSUME AutoInv, vsync_do_vsync PROVE AutoInv'
  OBVIOUS
<1> DEFINE a == AutoState
           e == kbdbuf_flush(kbuf, Initialised)
           s == Flushed(a)
<1>1. /\ a \in States /\ Kept(a) /\ kernal \in Kernals /\ kbuf \in Queues /\ ~resetting /\ age \in 0 .. 2
      /\ a.auto = auto /\ a.res = res /\ a.kbuf = kbuf /\ a.past = past /\ a.resetting = resetting
  BY InvTypes, StateIs DEF vsync_do_vsync, AutoInv
<1>2. ~past.disturbed => Settings(a) /\ Text(a, kernal)
  BY InvTypes
<1>3. /\ e \in Queues /\ Held(e) = Held(kbuf) /\ e.num_pending <= kbuf.num_pending
      /\ kbuf.buffer # <<>> \/ ~Initialised => e.buffer = kbuf.buffer
  <2>1. Initialised \in BOOLEAN
    BY DEF Initialised
  <2> QED
    BY <1>1, <2>1, FlushKeeps
<1>4. s = [a EXCEPT !.kbuf = e]
  BY <1>1 DEF Flushed
<1> HIDE DEF s, e, a
<1>5. /\ s \in States /\ s.auto = auto /\ s.res = res /\ s.kbuf = e /\ s.past = past
      /\ s.resetting = resetting
  BY <1>1, <1>3, <1>4 DEF States
<1>6. Kept(s)
  BY <1>1, <1>3, <1>5 DEF Kept
<1>7. kbuf.num_pending = 0 => e.num_pending = 0
  BY <1>1, <1>3, KbdBufAssumption DEF Queues
<1>8. Whole(s)
  <2> SUFFICES ASSUME ~past.disturbed PROVE Settings(s) /\ Text(s, kernal)
    BY <1>5 DEF Whole
  <2>1. Settings(a) /\ Text(a, kernal)
    BY <1>2
  <2>2. Settings(s)
    BY <1>1, <1>5, <2>1, SettingsSame
  <2>3. Text(s, kernal)
    BY <1>1, <1>3, <1>5, <1>7, <2>1, TextSame
  <2> QED
    BY <2>2, <2>3
\* What READY. and an empty buffer say of an autostart that waits, they say before the flush.
<1>9. ~past.disturbed /\ auto.mode \in Waiting /\ kernal.line = <<>> /\ kbuf.buffer = <<>> => past.fed = <<>>
  <2> SUFFICES ASSUME ~past.disturbed, auto.mode \in Waiting, kernal.line = <<>>, kbuf.buffer = <<>>
               PROVE  past.fed = <<>>
    OBVIOUS
  <2>1. Text(a, kernal)
    BY <1>2
  <2>2. ~TypingLoad(a, kernal)
    BY <1>1 DEF TypingLoad
  <2> QED
    BY <1>1, <2>1, <2>2 DEF Text, Nothing
<1>p. PICK p \in IF autostart_in_progress THEN {s} ELSE Pads(s) : \E u \in autostart_advance(p) :
         /\ auto' = u.auto /\ res' = u.res /\ kbuf' = u.kbuf /\ resetting' = u.resetting
         /\ past' = u.past
  BY DEF vsync_do_vsync, s, a
<1>10. PICK u \in autostart_advance(p) :
         /\ auto' = u.auto /\ res' = u.res /\ kbuf' = u.kbuf /\ resetting' = u.resetting
         /\ past' = u.past
  BY <1>p
<1>11. /\ p \in States /\ Kept(p) /\ Whole(p) /\ Seen(p) /\ p.kbuf = e /\ p.res.HandleTde = res.HandleTde
       /\ ~p.resetting \/ p.auto.mode \in Ended \/ p.auto.wait_for_reset
  <2>1. CASE autostart_in_progress
    <3>1. p = s
      BY <1>p, <2>1
    <3>2. Seen(s)
      BY <1>5, <1>9 DEF Seen
    <3> QED
      BY <1>1, <1>5, <1>6, <1>8, <3>1, <3>2
  <2>2. CASE ~autostart_in_progress
    <3>1. Pollable(s)
      BY <1>1, <1>5, <1>6, <1>8, <2>2 DEF Pollable, autostart_in_progress
    <3>2. Polled(s, p)
      BY <1>p, <2>2, <3>1, PadsKeep
    <3> QED
      BY <1>5, <3>2 DEF Polled, Seen
  <2> QED
    BY <2>1, <2>2
<1>12. /\ u \in States /\ Kept(u) /\ Whole(u)
       /\ age < 2 => u.kbuf = e
  BY <1>1, <1>10, <1>11, AdvanceKeeps
<1>13. AutoState' = u
  BY <1>10, <1>12, StateIs, StateOf
<1>14. kernal' = kernal /\ age' = age
  BY DEF vsync_do_vsync
<1>15. Good(AutoState', kernal')
  BY <1>12, <1>13, <1>14 DEF Good, Whole
<1>16. kernal.at = "ramtas" => age = 0 /\ u.kbuf.buffer = <<>>
  <2> SUFFICES ASSUME kernal.at = "ramtas" PROVE age = 0 /\ u.kbuf.buffer = <<>>
    OBVIOUS
  <2>1. age = 0 /\ kbuf.buffer = <<>>
    BY DEF AutoInv
  <2>2. u.kbuf = e /\ ~Initialised
    BY <1>12, <2>1 DEF Initialised
  <2> QED
    BY <1>3, <2>1, <2>2
<1> QED
  BY <1>1, <1>10, <1>14, <1>15, <1>16 DEF AutoInv

-----------------------------------------------------------------------------
(* The theorems. *)

\* Every action keeps the invariant.
LEMMA NextKeeps == AutoInv /\ [AutoNext]_autoVars => AutoInv'
<1> SUFFICES ASSUME AutoInv, [AutoNext]_autoVars PROVE AutoInv'
  OBVIOUS
<1>1. CASE UNCHANGED autoVars
  <2>1. AutoState' = AutoState /\ kernal' = kernal /\ age' = age /\ kbuf' = kbuf
    BY <1>1 DEF autoVars, AutoState
  <2> QED
    BY <2>1 DEF AutoInv, Good
<1> QED
  BY <1>1, FrameKeeps, ResetKeeps, TimeKeeps, BootKeeps, ReadsKeeps, LoadsKeeps, EndsKeeps DEF AutoNext

\* The invariant the other theorems follow from (autostart.c, kbdbuf.c): what is fed is in the
\* two buffers, and unless something else was typed the settings are on their way back to the
\* user's and the text on its way to BASIC.
THEOREM AutoInvariant == AutoSpec => []AutoInv
<1>1. AutoInit => AutoInv
  BY InitGood
<1>2. AutoInv /\ [AutoNext]_autoVars => AutoInv'
  BY NextKeeps
<1> QED
  BY <1>1, <1>2, PTL DEF AutoSpec

\* The queue of kbdbuf.c stays a queue: neither the ring nor the Kernal's buffer overflows.
THEOREM AutoTypes == AutoSpec => []AutoTypeOK
<1>1. AutoInv => AutoTypeOK
  <2> SUFFICES ASSUME AutoInv PROVE AutoTypeOK
    OBVIOUS
  <2>1. auto \in Autos /\ kbuf \in Queues
    BY InvTypes
  <2>2. IsQueue(kbuf, Chars)
    BY <2>1 DEF Queues, IsQueue
  <2>3. auto.mode \in Modes /\ auto.orig_tde \in SUBSET BOOLEAN
    BY <2>1 DEF Autos
  <2> QED
    BY <2>2, <2>3 DEF AutoTypeOK, Modes, Booting, Waiting
<1> QED
  BY <1>1, AutoInvariant, PTL

\* What kbdbuf_feed takes arrives in order however the ring wraps and kbdbuf_flush cuts it,
\* never before the Kernal has cleared its memory, and BASIC is given LOAD and then perhaps
\* RUN, each whole and once.
THEOREM CharactersArrive == AutoSpec => []TypedWhole
<1>1. AutoInv => TypedWhole
  <2> SUFFICES ASSUME AutoInv PROVE TypedWhole
    OBVIOUS
  <2>1. NoCharLost
    BY InvTypes DEF NoCharLost, Held
  <2>2. NothingTypedTooEarly
    BY DEF AutoInv, NothingTypedTooEarly
  <2>3. CommandsWhole
    <3> SUFFICES ASSUME ~past.disturbed
                 PROVE  past.lines \in {<<>>, <<Load>>, <<Run>>, <<Load, Run>>}
      BY DEF CommandsWhole
    <3>1. Script(past.lines, kernal.line, past.fed)
      BY InvTypes, StateIs DEF Text
    <3> QED
      BY <3>1 DEF Script
  <2> QED
    BY <2>1, <2>2, <2>3 DEF TypedWhole
<1> QED
  BY <1>1, AutoInvariant, PTL

\* However autostart ends (autostart.c: advance_*, disk_eof_callback, autostart_reset), warp
\* mode and true drive emulation are the user's again and no callback is left behind.
THEOREM SettingsReturn == AutoSpec => []SettingsGivenBack
<1>1. AutoInv => SettingsGivenBack
  <2> SUFFICES ASSUME AutoInv, ~past.disturbed
               PROVE  WarpGivenBack /\ TdeGivenBack /\ CallbacksAwaited
    BY DEF SettingsGivenBack
  <2>1. /\ Settings(AutoState) /\ Text(AutoState, kernal)
        /\ AutoState.auto = auto /\ AutoState.res = res /\ AutoState.past = past
    BY InvTypes, StateIs
  <2>2. WarpGivenBack
    BY <2>1 DEF Settings, WarpGivenBack
  <2>3. TdeGivenBack
    BY <2>1 DEF Settings, TdeGivenBack, Ended
  <2>4. CallbacksAwaited
    BY <2>1 DEF Text, CallbacksAwaited
  <2> QED
    BY <2>2, <2>3, <2>4
<1> QED
  BY <1>1, AutoInvariant, PTL
=============================================================================
