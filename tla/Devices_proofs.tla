--------------------------- MODULE Devices_proofs ----------------------------
(***************************************************************************)
(* The tape keeps its place and its time and the motor its delay: for any  *)
(* tape, any length of a chunk and any delays.  And what the SID made is   *)
(* heard once and in order, for any sizes of the buffers: that the blocks  *)
(* are in order at each place on their way and between the places, and     *)
(* that what opens and closes the device does so in a known order, is the  *)
(* inductive invariant.                                                    *)
(***************************************************************************)
EXTENDS Datasette, Sound, SequenceTheorems, TLAPS

\* The recorder's variables by their types.
Recorder ==
  [ mode : {"NO_IMAGE", "STOP", "RECORD", "START"} \cup Winding, pos : 0 .. Len(Flux), counter : Int,
    motor : BOOLEAN, motor_stop : Nat \cup {NOT}, alarm : Int \cup {NOT}, alarm_pending : BOOLEAN,
    long_gap_pending : Nat, long_gap_elapsed : Nat, last_direction : {-1, 0, 1} ]

\* The head, moved past it, is within the gap behind it or, on the way back, ahead of it.
Passing(d, direction) ==
  IF direction = 1
  THEN d.pos > 0 /\ d.long_gap_pending + d.long_gap_elapsed = Place(d.pos) - Place(d.pos - 1)
  ELSE d.pos < Len(Flux) /\ d.long_gap_pending + d.long_gap_elapsed = Place(d.pos + 1) - Place(d.pos)

\* After a reset the head is at a flux change; later something of a gap has been passed.
InGap(d) ==
  IF d.last_direction = 0 THEN d.long_gap_pending = 0 /\ d.long_gap_elapsed = 0
  ELSE d.long_gap_elapsed > 0 /\ Passing(d, d.last_direction)

\* How far the counter is from where the head is; no chunk changes it.
Offset(d) ==
  d.counter - Place(d.pos) + (IF d.last_direction < 0 THEN -d.long_gap_pending ELSE d.long_gap_pending)

\* What only the alarm and the motor are about.
AlarmFits(d) == d.alarm_pending <=> d.alarm # NOT
SameRest(d, e) ==
  /\ e.mode = d.mode /\ e.motor = d.motor /\ e.motor_stop = d.motor_stop
  /\ e.alarm = d.alarm /\ e.alarm_pending = d.alarm_pending
SameHead(d, e) ==
  /\ e.pos = d.pos /\ e.counter = d.counter /\ e.last_direction = d.last_direction
  /\ e.long_gap_pending = d.long_gap_pending /\ e.long_gap_elapsed = d.long_gap_elapsed

\* A motor that is to stop is off at the port, and for as long as it has run on since.
StopCounts(d, line, off_for) ==
  d.mode # "NO_IMAGE" /\ d.motor_stop # NOT => ~line /\ d.motor_stop + off_for = MOTOR_DELAY

\* A flux change that is due is due when the alarm is.
DueFits(d, due) == due # NOT => d.mode = "START" /\ d.alarm = due

Fine(d) == d \in Recorder /\ AlarmFits(d) /\ InGap(d)

DsInv ==
  /\ Fine(ds) /\ motor_line \in BOOLEAN
  /\ seen \in [off_for : 0 .. MOTOR_DELAY, due : Int \cup {NOT}, zero : Int]
  /\ Offset(ds) = -seen.zero
  /\ DueFits(ds, seen.due)
  /\ StopCounts(ds, motor_line, seen.off_for)

-----------------------------------------------------------------------------
(* The head *)

\* The places of the flux changes are numbers that grow.
LEMMA Places ==
  /\ Len(Flux) \in Nat
  /\ \A n \in 0 .. Len(Flux) : Place(n) \in Nat
  /\ \A n \in 1 .. Len(Flux) : Place(n - 1) \in Nat /\ Place(n) \in Nat /\ Place(n) > Place(n - 1)
<1>1. Flux \in Seq(Nat) /\ \A n \in DOMAIN Flux : Place(n - 1) < Place(n)
  BY DatasetteAssumption
<1>2. Len(Flux) \in Nat /\ DOMAIN Flux = 1 .. Len(Flux)
  BY <1>1
<1>3. \A n \in 0 .. Len(Flux) : Place(n) \in Nat
  BY <1>1, <1>2 DEF Place
<1>4. \A n \in 1 .. Len(Flux) : n - 1 \in 0 .. Len(Flux) /\ n \in 0 .. Len(Flux)
  BY <1>2
<1> QED
  BY <1>1, <1>2, <1>3, <1>4

\* What reading a gap does.
ReadParts(d, direction, r) ==
  /\ r.d \in Recorder /\ SameRest(d, r.d) /\ r.gap \in Nat
  /\ r.d.counter = d.counter /\ r.d.last_direction = d.last_direction
  /\ r.d.long_gap_pending = d.long_gap_pending /\ r.d.long_gap_elapsed = d.long_gap_elapsed
  /\ \/ r.gap = 0 /\ r.d = d /\ (IF direction = 1 THEN d.pos = Len(Flux) ELSE d.pos = 0)
     \/ /\ r.gap > 0 /\ r.d.pos = d.pos + direction
        /\ r.gap = IF direction = 1 THEN Place(r.d.pos) - Place(d.pos) ELSE Place(d.pos) - Place(r.d.pos)

LEMMA GapRead ==
  ASSUME NEW d \in Recorder, NEW direction \in {-1, 1}
  PROVE  ReadParts(d, direction, datasette_read_gap(d, direction))
<1> DEFINE n == IF direction > 0 THEN d.pos + 1 ELSE d.pos
           m == [d EXCEPT !.pos = @ + direction]
           r == datasette_read_gap(d, direction)
<1> SUFFICES ReadParts(d, direction, r)
  OBVIOUS
<1>0. Len(Flux) \in Nat /\ DOMAIN Flux = 1 .. Len(Flux) /\ d.pos \in 0 .. Len(Flux)
  BY DatasetteAssumption DEF Recorder
<1>1. CASE n \in DOMAIN Flux
  <2>1. r = [gap |-> Place(n) - Place(n - 1), d |-> m]
    BY <1>1 DEF datasette_read_gap
  <2>2. d.pos + direction \in 0 .. Len(Flux)
    BY <1>0, <1>1
  <2>3. m \in Recorder /\ m.pos = d.pos + direction /\ SameRest(d, m)
        /\ m.counter = d.counter /\ m.last_direction = d.last_direction
        /\ m.long_gap_pending = d.long_gap_pending /\ m.long_gap_elapsed = d.long_gap_elapsed
    BY <2>2 DEF Recorder, SameRest
  <2>4. Place(n) \in Nat /\ Place(n - 1) \in Nat /\ Place(n) > Place(n - 1)
    BY <1>0, <1>1, Places
  <2>5. IF direction = 1 THEN n = m.pos /\ n - 1 = d.pos ELSE n = d.pos /\ n - 1 = m.pos
    BY <1>0, <2>3
  <2> HIDE DEF m, n
  <2>6. r.gap = Place(n) - Place(n - 1) /\ r.d = m
    BY <2>1
  <2> HIDE DEF r
  <2> QED
    BY <2>3, <2>4, <2>5, <2>6 DEF ReadParts
<1>2. CASE n \notin DOMAIN Flux
  <2>1. r = [gap |-> 0, d |-> d]
    BY <1>2 DEF datasette_read_gap
  <2>2. IF direction = 1 THEN d.pos = Len(Flux) ELSE d.pos = 0
    BY <1>0, <1>2
  <2> HIDE DEF n, m
  <2>3. r.gap = 0 /\ r.d = d
    BY <2>1
  <2> HIDE DEF r
  <2> QED
    BY <2>2, <2>3 DEF ReadParts, SameRest
<1> QED
  BY <1>1, <1>2

\* Turned or not, the head is where it was, and goes in the new direction if a gap is left.
TurnParts(d, direction, t) ==
  /\ t \in Recorder /\ SameRest(d, t)
  /\ t.counter - Place(t.pos) + direction * t.long_gap_pending = Offset(d)
  /\ t.long_gap_pending > 0 => Passing(t, direction)
  /\ t.long_gap_pending = 0 => t = d

LEMMA TurnKeeps ==
  ASSUME NEW d \in Recorder, NEW direction \in {-1, 1}, InGap(d)
  PROVE  TurnParts(d, direction, Turned(d, direction))
<1> DEFINE r == datasette_read_gap(d, direction)
           m == [r.d EXCEPT !.long_gap_pending = d.long_gap_elapsed,
                            !.long_gap_elapsed = r.gap - d.long_gap_elapsed]
           t == Turned(d, direction)
<1> SUFFICES TurnParts(d, direction, t)
  OBVIOUS
<1>0. /\ ReadParts(d, direction, r) /\ Len(Flux) \in Nat
      /\ d.pos \in 0 .. Len(Flux) /\ d.counter \in Int /\ d.last_direction \in {-1, 0, 1}
      /\ d.long_gap_pending \in Nat /\ d.long_gap_elapsed \in Nat /\ Place(d.pos) \in Nat
  BY GapRead, Places DEF Recorder
<1>1. CASE direction + d.last_direction # 0
  <2>1. t = d
    BY <1>1 DEF Turned
  <2>2. d.long_gap_pending = 0 \/ (d.last_direction = direction /\ Passing(d, direction))
    BY <1>0, <1>1 DEF InGap
  <2>3. d.counter - Place(d.pos) + direction * d.long_gap_pending = Offset(d)
    BY <1>0, <2>2 DEF Offset
  <2> HIDE DEF t, r, m
  <2> QED
    BY <1>0, <2>1, <2>2, <2>3 DEF TurnParts, SameRest
<1>2. CASE direction + d.last_direction = 0
  <2>1. t = m
    BY <1>2 DEF Turned
  <2>2. d.last_direction = -direction /\ d.long_gap_elapsed > 0 /\ Passing(d, -direction)
    BY <1>0, <1>2 DEF InGap
  <2> HIDE DEF r
  <2>3. r.gap > 0 /\ r.d.pos = d.pos + direction /\ r.d.pos \in 0 .. Len(Flux) /\ Place(r.d.pos) \in Nat
    <3>1. r.gap # 0
      BY <1>0, <2>2 DEF ReadParts, Passing
    <3>2. r.d.pos \in 0 .. Len(Flux)
      BY <1>0 DEF ReadParts, Recorder
    <3> QED
      BY <1>0, <3>1, <3>2, Places DEF ReadParts
  <2>4. r.gap = d.long_gap_pending + d.long_gap_elapsed
    <3>1. r.gap = IF direction = 1 THEN Place(r.d.pos) - Place(d.pos) ELSE Place(d.pos) - Place(r.d.pos)
      BY <1>0, <2>3 DEF ReadParts
    <3>2. CASE direction = 1
      BY <1>0, <2>2, <2>3, <3>1, <3>2 DEF Passing
    <3>3. CASE direction = -1
      BY <1>0, <2>2, <2>3, <3>1, <3>3 DEF Passing
    <3> QED
      BY <3>2, <3>3
  <2>5. /\ m \in Recorder /\ SameRest(d, m) /\ m.counter = d.counter /\ m.pos = r.d.pos
        /\ m.long_gap_pending = d.long_gap_elapsed /\ m.long_gap_elapsed = d.long_gap_pending
    <3>1. r.gap - d.long_gap_elapsed = d.long_gap_pending
      BY <1>0, <2>4
    <3>2. r.d \in Recorder /\ SameRest(d, r.d) /\ r.d.counter = d.counter
      BY <1>0 DEF ReadParts
    <3> QED
      BY <1>0, <3>1, <3>2 DEF Recorder, SameRest
  <2> HIDE DEF m
  <2>6. Passing(m, direction)
    <3>1. CASE direction = 1
      BY <1>0, <2>2, <2>3, <2>5, <3>1 DEF Passing
    <3>2. CASE direction = -1
      BY <1>0, <2>2, <2>3, <2>5, <3>2 DEF Passing
    <3> QED
      BY <3>1, <3>2
  <2>7. m.counter - Place(m.pos) + direction * m.long_gap_pending = Offset(d)
    <3>1. CASE direction = 1
      <4>1. direction * m.long_gap_pending = d.long_gap_elapsed
        BY <1>0, <2>5, <3>1
      <4>2. d.long_gap_pending + d.long_gap_elapsed = Place(m.pos) - Place(d.pos)
        BY <1>0, <2>2, <2>3, <2>5, <3>1 DEF Passing
      <4>3. Offset(d) = d.counter - Place(d.pos) - d.long_gap_pending
        BY <1>0, <2>2, <3>1 DEF Offset
      <4> QED
        <5>1. m.counter = d.counter /\ Place(m.pos) \in Nat
          BY <2>3, <2>5
        <5> DEFINE x == direction * m.long_gap_pending
        <5>2. x = d.long_gap_elapsed
          BY <4>1
        <5> HIDE DEF x
        <5>3. /\ d.counter \in Int /\ Place(d.pos) \in Nat
              /\ d.long_gap_pending \in Nat /\ d.long_gap_elapsed \in Nat
          BY <1>0
        <5>4. m.counter - Place(m.pos) + x = Offset(d)
          BY ONLY <4>2, <4>3, <5>1, <5>2, <5>3
        <5> QED
          BY <5>4 DEF x
    <3>2. CASE direction = -1
      <4>1. direction * m.long_gap_pending = 0 - d.long_gap_elapsed
        BY <1>0, <2>5, <3>2
      <4>2. d.long_gap_pending + d.long_gap_elapsed = Place(d.pos) - Place(m.pos)
        BY <1>0, <2>2, <2>3, <2>5, <3>2 DEF Passing
      <4>3. Offset(d) = d.counter - Place(d.pos) + d.long_gap_pending
        BY <1>0, <2>2, <3>2 DEF Offset
      <4> QED
        <5>1. m.counter = d.counter /\ Place(m.pos) \in Nat
          BY <2>3, <2>5
        <5> DEFINE x == direction * m.long_gap_pending
        <5>2. x = 0 - d.long_gap_elapsed
          BY <4>1
        <5> HIDE DEF x
        <5>3. /\ d.counter \in Int /\ Place(d.pos) \in Nat
              /\ d.long_gap_pending \in Nat /\ d.long_gap_elapsed \in Nat
          BY <1>0
        <5>4. m.counter - Place(m.pos) + x = Offset(d)
          BY ONLY <4>2, <4>3, <5>1, <5>2, <5>3
        <5> QED
          BY <5>4 DEF x
    <3> QED
      BY <3>1, <3>2
  <2> HIDE DEF t
  <2> QED
    BY <1>0, <2>1, <2>2, <2>5, <2>6, <2>7 DEF TurnParts
<1> QED
  BY <1>1, <1>2

\* The next chunk: the head within its gap, counter and place in step, nothing else touched.
ChunkParts(d, direction, c) ==
  /\ c.d \in Recorder /\ SameRest(d, c.d) /\ c.gap \in Nat
  /\ InGap(c.d) /\ Offset(c.d) = Offset(d)

\* The gap the head goes on with: the rest of the one it is in or a new one.
Whole(t, r) ==
  IF t.long_gap_pending # 0 THEN [gap |-> t.long_gap_pending, d |-> t]
  ELSE [r EXCEPT !.d.long_gap_elapsed = IF r.gap = 0 THEN @ ELSE 0]

WholeParts(d, t, direction, w) ==
  /\ w.d \in Recorder /\ SameRest(d, w.d) /\ w.gap \in Nat
  /\ w.gap = 0 => w.d = d
  /\ w.gap > 0 =>
       /\ w.d.counter - Place(w.d.pos) + direction * w.gap = Offset(d)
       /\ IF direction = 1
          THEN w.d.pos > 0 /\ w.gap + w.d.long_gap_elapsed = Place(w.d.pos) - Place(w.d.pos - 1)
          ELSE w.d.pos < Len(Flux) /\ w.gap + w.d.long_gap_elapsed = Place(w.d.pos + 1) - Place(w.d.pos)

LEMMA WholeGap ==
  ASSUME NEW d \in Recorder, NEW direction \in {-1, 1}, NEW t, TurnParts(d, direction, t)
  PROVE  WholeParts(d, t, direction, Whole(t, datasette_read_gap(t, direction)))
<1> DEFINE r == datasette_read_gap(t, direction)
           w == Whole(t, r)
<1> SUFFICES WholeParts(d, t, direction, w)
  OBVIOUS
<1>0. /\ t \in Recorder /\ SameRest(d, t) /\ ReadParts(t, direction, r)
      /\ t.long_gap_pending \in Nat /\ t.long_gap_elapsed \in Nat /\ t.counter \in Int
      /\ t.pos \in 0 .. Len(Flux) /\ Len(Flux) \in Nat /\ Place(t.pos) \in Nat
  BY GapRead, Places DEF TurnParts, Recorder
<1>1. CASE t.long_gap_pending # 0
  <2>1. w.gap = t.long_gap_pending /\ w.d = t
    BY <1>1 DEF Whole
  <2>2. Passing(t, direction) /\ t.counter - Place(t.pos) + direction * t.long_gap_pending = Offset(d)
    BY <1>0, <1>1 DEF TurnParts
  <2> HIDE DEF w, r
  <2> QED
    BY <1>0, <1>1, <2>1, <2>2 DEF WholeParts, Passing
<1>2. CASE t.long_gap_pending = 0
  <2>0. t = d /\ t.counter - Place(t.pos) = Offset(d)
    <3>1. t.counter - Place(t.pos) + direction * t.long_gap_pending = Offset(d) /\ t = d
      BY <1>2 DEF TurnParts
    <3>2. direction * t.long_gap_pending = 0
      BY <1>2
    <3> QED
      BY <1>0, <3>1, <3>2
  <2>1. w = [r EXCEPT !.d.long_gap_elapsed = IF r.gap = 0 THEN @ ELSE 0]
    BY <1>2 DEF Whole
  <2>2. \E g, e : r = [gap |-> g, d |-> e]
    BY DEF datasette_read_gap
  <2> HIDE DEF r
  <2>3. w.gap = r.gap /\ w.d = [r.d EXCEPT !.long_gap_elapsed = IF r.gap = 0 THEN @ ELSE 0]
    BY <2>1, <2>2
  <2> HIDE DEF w
  <2>4. CASE r.gap = 0
    <3>1. r.d = t /\ w.d = r.d
      BY <1>0, <2>3, <2>4 DEF ReadParts, Recorder
    <3> QED
      BY <1>0, <2>0, <2>3, <2>4, <3>1 DEF WholeParts
  <2>5. CASE r.gap # 0
    <3>1. /\ r.d \in Recorder /\ SameRest(t, r.d) /\ r.gap \in Nat /\ r.gap > 0
          /\ r.d.counter = t.counter /\ r.d.pos = t.pos + direction
          /\ r.gap = IF direction = 1 THEN Place(r.d.pos) - Place(t.pos) ELSE Place(t.pos) - Place(r.d.pos)
      BY <1>0, <2>5 DEF ReadParts
    <3>2. /\ w.d \in Recorder /\ SameRest(t, w.d) /\ w.d.counter = t.counter /\ w.d.pos = r.d.pos
          /\ w.d.long_gap_elapsed = 0
      <4>1. w.d = [r.d EXCEPT !.long_gap_elapsed = 0]
        BY <2>3, <2>5
      <4>2. 0 \in Nat /\ r.d \in Recorder /\ SameRest(t, r.d) /\ r.d.counter = t.counter
        BY <3>1
      <4> HIDE DEF ReadParts
      <4> QED
        BY <4>1, <4>2 DEF Recorder, SameRest
    <3>3. r.d.pos \in 0 .. Len(Flux) /\ Place(r.d.pos) \in Nat
      BY <3>1, Places DEF Recorder
    <3>4. w.gap + w.d.long_gap_elapsed = r.gap /\ w.gap = r.gap
      BY <2>3, <3>1, <3>2
    <3>5. CASE direction = 1
      <4>1. w.d.pos > 0 /\ w.d.pos - 1 = t.pos /\ direction * w.gap = r.gap
        BY <1>0, <2>3, <3>1, <3>2, <3>5
      <4>2. r.gap = Place(w.d.pos) - Place(w.d.pos - 1)
        BY <3>1, <3>2, <3>5, <4>1
      <4>3. w.d.counter - Place(w.d.pos) + direction * w.gap = Offset(d)
        <5> DEFINE x == direction * w.gap
        <5>1. x = r.gap
          BY <4>1
        <5> HIDE DEF x
        <5>2. r.gap = Place(w.d.pos) - Place(t.pos) /\ w.d.counter = t.counter /\ Place(w.d.pos) \in Nat
          BY <3>1, <3>2, <3>3, <3>5
        <5>3. w.d.counter - Place(w.d.pos) + x = Offset(d)
          BY <1>0, <2>0, <5>1, <5>2
        <5> QED
          BY <5>3 DEF x
      <4> QED
        BY <1>0, <2>0, <3>1, <3>2, <3>4, <3>5, <4>1, <4>2, <4>3 DEF WholeParts
    <3>6. CASE direction = -1
      <4>1. w.d.pos < Len(Flux) /\ w.d.pos + 1 = t.pos /\ direction * w.gap = -r.gap
        BY <1>0, <2>3, <3>1, <3>2, <3>6
      <4>2. r.gap = Place(w.d.pos + 1) - Place(w.d.pos)
        BY <3>1, <3>2, <3>6, <4>1
      <4>3. w.d.counter - Place(w.d.pos) + direction * w.gap = Offset(d)
        <5> DEFINE x == direction * w.gap
        <5>1. x = -r.gap
          BY <4>1
        <5> HIDE DEF x
        <5>2. r.gap = Place(t.pos) - Place(w.d.pos) /\ w.d.counter = t.counter /\ Place(w.d.pos) \in Nat
          BY <3>1, <3>2, <3>3, <3>6
        <5>3. w.d.counter - Place(w.d.pos) + x = Offset(d)
          BY <1>0, <2>0, <5>1, <5>2
        <5> QED
          BY <5>3 DEF x
      <4> QED
        BY <1>0, <2>0, <3>1, <3>2, <3>4, <3>6, <4>1, <4>2, <4>3 DEF WholeParts
    <3> QED
      BY <3>5, <3>6
  <2> QED
    BY <2>4, <2>5
<1> QED
  BY <1>0, <1>1, <1>2

LEMMA ChunkKeeps ==
  ASSUME NEW d \in Recorder, NEW direction \in {-1, 1}, InGap(d)
  PROVE  ChunkParts(d, direction, NextChunk(d, direction))
<1> DEFINE t == Turned(d, direction)
           w == Whole(t, datasette_read_gap(t, direction))
           gap == IF w.gap > DATASETTE_MAX_GAP THEN DATASETTE_MAX_GAP ELSE w.gap
           m == [w.d EXCEPT !.long_gap_pending = w.gap - gap, !.long_gap_elapsed = @ + gap,
                            !.last_direction = direction, !.counter = @ + direction * gap]
           c == NextChunk(d, direction)
<1> SUFFICES ChunkParts(d, direction, c)
  OBVIOUS
<1>1. c = [gap |-> gap, d |-> IF gap = 0 THEN w.d ELSE m]
  BY Zenon DEF NextChunk, Whole
<1>2. WholeParts(d, t, direction, w)
  BY TurnKeeps, WholeGap
<1> HIDE DEF t, w
<1>3. DATASETTE_MAX_GAP \in Nat /\ DATASETTE_MAX_GAP > 0
  BY DatasetteAssumption
<1>4. gap \in Nat /\ gap <= w.gap /\ (gap = 0 <=> w.gap = 0) /\ w.gap \in Nat
  BY <1>2, <1>3 DEF WholeParts
<1> HIDE DEF gap
<1>5. CASE gap = 0
  <2>1. c.gap = 0 /\ c.d = d
    BY <1>1, <1>2, <1>4, <1>5 DEF WholeParts
  <2> HIDE DEF c
  <2> QED
    BY <2>1 DEF ChunkParts, SameRest
<1>6. CASE gap # 0
  <2>0. c.gap = gap /\ c.d = m
    BY <1>1, <1>6
  <2> HIDE DEF c
  <2>1. /\ w.d \in Recorder /\ SameRest(d, w.d) /\ w.d.pos \in 0 .. Len(Flux)
        /\ w.d.counter \in Int /\ w.d.long_gap_elapsed \in Nat /\ Place(w.d.pos) \in Nat
    BY <1>2, Places DEF WholeParts, Recorder
  <2>2. direction * gap \in Int /\ w.gap - gap \in Nat
    BY <1>4
  <2>3. /\ m \in Recorder /\ SameRest(d, m) /\ m.pos = w.d.pos /\ m.counter = w.d.counter + direction * gap
        /\ m.long_gap_pending = w.gap - gap /\ m.long_gap_elapsed = w.d.long_gap_elapsed + gap
        /\ m.last_direction = direction
    <3> DEFINE x == direction * gap
    <3>1. x \in Int /\ m = [w.d EXCEPT !.long_gap_pending = w.gap - gap, !.long_gap_elapsed = @ + gap,
                                       !.last_direction = direction, !.counter = @ + x]
      BY <2>2
    <3> HIDE DEF x, m
    <3>2. /\ m \in Recorder /\ SameRest(d, m) /\ m.pos = w.d.pos /\ m.counter = w.d.counter + x
          /\ m.long_gap_pending = w.gap - gap /\ m.long_gap_elapsed = w.d.long_gap_elapsed + gap
          /\ m.last_direction = direction
      <4>1. w.d.long_gap_elapsed + gap \in Nat /\ w.d.counter + x \in Int /\ direction \in {-1, 0, 1}
        BY <1>4, <2>1, <3>1
      <4>2. w.d \in Recorder /\ w.gap - gap \in Nat
        BY <2>1, <2>2
      <4>3. m \in Recorder
        BY <3>1, <4>1, <4>2 DEF Recorder
      <4>4. /\ m.mode = w.d.mode /\ m.motor = w.d.motor /\ m.motor_stop = w.d.motor_stop
            /\ m.alarm = w.d.alarm /\ m.alarm_pending = w.d.alarm_pending /\ m.pos = w.d.pos
        BY <3>1, <4>2 DEF Recorder
      <4>5. /\ m.counter = w.d.counter + x /\ m.long_gap_pending = w.gap - gap
            /\ m.long_gap_elapsed = w.d.long_gap_elapsed + gap /\ m.last_direction = direction
        BY <3>1, <4>2 DEF Recorder
      <4> QED
        BY <2>1, <4>3, <4>4, <4>5 DEF SameRest
    <3> QED
      BY <3>2 DEF x
  <2> HIDE DEF m
  <2>4. InGap(m)
    <3>1. m.long_gap_elapsed > 0
      BY <1>4, <1>6, <2>1, <2>3
    <3>2. m.long_gap_pending + m.long_gap_elapsed = w.gap + w.d.long_gap_elapsed
      BY <1>4, <2>1, <2>3
    <3>3. Passing(m, direction)
      BY <1>2, <1>4, <1>6, <2>3, <3>2 DEF WholeParts, Passing
    <3> QED
      BY <2>3, <3>1, <3>3 DEF InGap
  <2>5. Offset(m) = Offset(d)
    <3>1. w.d.counter - Place(w.d.pos) + direction * w.gap = Offset(d)
      BY <1>2, <1>4, <1>6 DEF WholeParts
    <3>2. CASE direction = 1
      BY <1>4, <2>1, <2>3, <3>1, <3>2 DEF Offset
    <3>3. CASE direction = -1
      BY <1>4, <2>1, <2>3, <3>1, <3>3 DEF Offset
    <3> QED
      BY <3>2, <3>3
  <2> QED
    BY <1>4, <2>0, <2>3, <2>4, <2>5 DEF ChunkParts
<1> QED
  BY <1>5, <1>6

\* The length of the next chunk is a matter of the head.
LEMMA ChunkLength ==
  ASSUME NEW d \in Recorder, NEW s \in Recorder, SameHead(d, s), NEW direction \in {-1, 1}
  PROVE  NextChunk(s, direction).gap = NextChunk(d, direction).gap
<1> DEFINE rd == datasette_read_gap(d, direction)
           rs == datasette_read_gap(s, direction)
           td == Turned(d, direction)
           ts == Turned(s, direction)
           qd == datasette_read_gap(td, direction)
           qs == datasette_read_gap(ts, direction)
           wd == Whole(td, qd)
           ws == Whole(ts, qs)
<1>1. rs.gap = rd.gap /\ rs.d.pos = rd.d.pos /\ rd.d \in Recorder /\ rs.d \in Recorder
  <2>1. rd.d \in Recorder /\ rs.d \in Recorder
    BY GapRead DEF ReadParts
  <2>2. d.pos = s.pos
    BY DEF SameHead
  <2>3. CASE (IF direction > 0 THEN d.pos + 1 ELSE d.pos) \in DOMAIN Flux
    BY <2>1, <2>2, <2>3 DEF datasette_read_gap, Recorder
  <2>4. CASE (IF direction > 0 THEN d.pos + 1 ELSE d.pos) \notin DOMAIN Flux
    BY <2>1, <2>2, <2>4 DEF datasette_read_gap
  <2> QED
    BY <2>3, <2>4
<1> HIDE DEF rd, rs
<1>2. ts.pos = td.pos /\ ts.long_gap_pending = td.long_gap_pending
  <2>1. CASE direction + d.last_direction # 0
    <3>1. ts = s /\ td = d
      BY <2>1 DEF Turned, SameHead
    <3> HIDE DEF ts, td
    <3> QED
      BY <3>1 DEF SameHead
  <2>2. CASE direction + d.last_direction = 0
    <3>1. /\ td = [rd.d EXCEPT !.long_gap_pending = d.long_gap_elapsed,
                              !.long_gap_elapsed = rd.gap - d.long_gap_elapsed]
          /\ ts = [rs.d EXCEPT !.long_gap_pending = s.long_gap_elapsed,
                              !.long_gap_elapsed = rs.gap - s.long_gap_elapsed]
      BY <2>2 DEF Turned, SameHead, rd, rs
    <3> HIDE DEF ts, td
    <3> QED
      BY <1>1, <3>1 DEF SameHead, Recorder
  <2> QED
    BY <2>1, <2>2
<1> HIDE DEF td, ts
<1>3. qs.gap = qd.gap
  BY <1>2 DEF datasette_read_gap
<1>4. ws.gap = wd.gap
  <2>1. (\E g, e : qd = [gap |-> g, d |-> e]) /\ (\E g, e : qs = [gap |-> g, d |-> e])
    BY DEF datasette_read_gap
  <2> HIDE DEF qd, qs
  <2>2. CASE td.long_gap_pending # 0
    BY <1>2, <2>2 DEF Whole
  <2>3. CASE td.long_gap_pending = 0
    BY <1>2, <1>3, <2>1, <2>3 DEF Whole
  <2> QED
    BY <2>2, <2>3
<1>5. /\ NextChunk(d, direction).gap = IF wd.gap > DATASETTE_MAX_GAP THEN DATASETTE_MAX_GAP ELSE wd.gap
      /\ NextChunk(s, direction).gap = IF ws.gap > DATASETTE_MAX_GAP THEN DATASETTE_MAX_GAP ELSE ws.gap
  BY DEF NextChunk, Whole, td, ts
<1> HIDE DEF wd, ws
<1> QED
  BY <1>4, <1>5

\* What leaves the head alone keeps what is said of it.
LEMMA HeadStays ==
  ASSUME NEW d, NEW e, SameHead(d, e), InGap(d)
  PROVE  InGap(e) /\ Offset(e) = Offset(d)
BY DEF SameHead, InGap, Passing, Offset

-----------------------------------------------------------------------------
(* The alarm and the motor *)

\* The alarm set: the rest as it was.
LEMMA AlarmSet ==
  ASSUME NEW d \in Recorder, NEW in \in Int
  PROVE  LET e == SetAlarm(d, in)
         IN  /\ e \in Recorder /\ AlarmFits(e) /\ SameHead(d, e) /\ e.alarm = in
             /\ e.mode = d.mode /\ e.motor = d.motor /\ e.motor_stop = d.motor_stop
BY DatasetteAssumption DEF SetAlarm, Recorder, AlarmFits, SameHead

LEMMA AlarmUnset ==
  ASSUME NEW d \in Recorder
  PROVE  LET e == UnsetAlarm(d)
         IN  /\ e \in Recorder /\ AlarmFits(e) /\ SameHead(d, e) /\ e.alarm = NOT
             /\ e.mode = d.mode /\ e.motor = d.motor /\ e.motor_stop = d.motor_stop
BY DEF UnsetAlarm, Recorder, AlarmFits, SameHead

\* Starting the motor does not touch an alarm that is set.
LEMMA MotorStarts ==
  ASSUME NEW d \in Recorder, AlarmFits(d)
  PROVE  LET e == datasette_start_motor(d)
         IN  /\ e \in Recorder /\ AlarmFits(e) /\ SameHead(d, e)
             /\ d.alarm # NOT => e.alarm = d.alarm
             /\ e.mode = d.mode /\ e.motor = d.motor /\ e.motor_stop = d.motor_stop
<1>1. CASE d.alarm_pending
  BY <1>1 DEF datasette_start_motor, SameHead
<1>2. CASE ~d.alarm_pending
  <2>1. datasette_start_motor(d) = SetAlarm(d, MOTOR_DELAY) /\ d.alarm = NOT
    BY <1>2 DEF datasette_start_motor, AlarmFits
  <2>2. MOTOR_DELAY \in Int
    BY DatasetteAssumption
  <2> QED
    BY <2>1, <2>2, AlarmSet
<1> QED
  BY <1>1, <1>2

\* Stopped or not, and the motor's stop if it is due.
LEMMA MotorStops ==
  ASSUME NEW d \in Recorder, AlarmFits(d)
  PROVE  LET e == MotorStopped(d)
         IN  /\ e \in Recorder /\ AlarmFits(e) /\ SameHead(d, e) /\ e.alarm = d.alarm /\ e.mode = d.mode
             /\ e.motor_stop # NOT => e.motor_stop = d.motor_stop
             /\ d.motor /\ ~e.motor => d.motor_stop = 0
<1>1. CASE d.motor_stop = 0
  <2>1. MotorStopped(d) = [d EXCEPT !.motor_stop = NOT, !.motor = FALSE]
    BY <1>1 DEF MotorStopped
  <2> QED
    BY <1>1, <2>1 DEF Recorder, AlarmFits, SameHead
<1>2. CASE d.motor_stop # 0
  BY <1>2 DEF MotorStopped, SameHead
<1> QED
  BY <1>1, <1>2

\* The mode changed to one of the user's or to STOP.
LEMMA ModeSet ==
  ASSUME NEW d \in Recorder, AlarmFits(d), NEW mode \in {"STOP", "RECORD", "START"} \cup Winding
  PROVE  LET e == [d EXCEPT !.mode = mode]
         IN  /\ e \in Recorder /\ AlarmFits(e) /\ SameHead(d, e) /\ e.mode = mode
             /\ e.alarm = d.alarm /\ e.motor = d.motor /\ e.motor_stop = d.motor_stop
BY DEF Recorder, AlarmFits, SameHead

-----------------------------------------------------------------------------
(* The operations *)

\* A chunk is read, or the end of the tape, or the motor has stopped.
BitParts(d, e) ==
  /\ e \in Recorder /\ AlarmFits(e) /\ InGap(e) /\ Offset(e) = Offset(d)
  /\ IF d.mode = "NO_IMAGE" THEN e.mode = d.mode /\ e.motor = d.motor
     ELSE /\ e.mode # "NO_IMAGE" /\ (e.motor_stop # NOT => e.motor_stop = d.motor_stop)
          /\ d.motor /\ ~e.motor => d.motor_stop = 0
  /\ d.mode = "START" /\ e.alarm # NOT =>
       e.mode = "START" /\ e.alarm = Due(NextChunk(d, 1).gap, -d.alarm, FALSE)

LEMMA BitRead ==
  ASSUME NEW d \in Recorder, Fine(d), d.alarm # NOT
  PROVE  BitParts(d, datasette_read_bit(d))
<1> DEFINE u == UnsetAlarm(d)
           s == MotorStopped(u)
           direction == IF d.mode = "REWIND" THEN -1 ELSE 1
           c == NextChunk(s, direction)
           in == Due(c.gap, -d.alarm, d.mode # "START")
           e == datasette_read_bit(d)
<1> SUFFICES BitParts(d, e)
  OBVIOUS
<1>0. d.alarm \in Int /\ AlarmFits(d) /\ InGap(d) /\ direction \in {-1, 1}
  BY DEF Fine, Recorder
<1>1. /\ u \in Recorder /\ AlarmFits(u) /\ SameHead(d, u) /\ u.alarm = NOT
      /\ u.mode = d.mode /\ u.motor = d.motor /\ u.motor_stop = d.motor_stop
  BY AlarmUnset
<1> HIDE DEF u
<1>2. /\ s \in Recorder /\ AlarmFits(s) /\ SameHead(u, s) /\ s.alarm = NOT /\ s.mode = d.mode
      /\ s.motor_stop # NOT => s.motor_stop = d.motor_stop
      /\ d.motor /\ ~s.motor => d.motor_stop = 0
  BY <1>1, MotorStops
<1>3. SameHead(d, s) /\ InGap(s) /\ Offset(s) = Offset(d)
  <2>1. SameHead(d, s)
    BY <1>1, <1>2 DEF SameHead
  <2> QED
    BY <1>0, <2>1, HeadStays
<1>4. e = IF d.mode = "NO_IMAGE" THEN u
          ELSE IF ~s.motor \/ d.mode \in {"STOP", "RECORD"} THEN s
          ELSE IF c.gap = 0 THEN Stop(c.d) ELSE SetAlarm(c.d, in)
  BY DEF datasette_read_bit, u
<1> HIDE DEF s
<1>5. ChunkParts(s, direction, c) /\ c.gap = NextChunk(d, direction).gap
  BY <1>0, <1>2, <1>3, ChunkKeeps, ChunkLength
<1> HIDE DEF c, e
<1>6. /\ c.d \in Recorder /\ AlarmFits(c.d) /\ InGap(c.d) /\ Offset(c.d) = Offset(d) /\ c.gap \in Nat
      /\ c.d.mode = d.mode /\ c.d.motor = s.motor /\ c.d.motor_stop = s.motor_stop /\ c.d.alarm = NOT
  BY <1>2, <1>3, <1>5 DEF ChunkParts, SameRest, AlarmFits
<1>7. CASE d.mode = "NO_IMAGE"
  <2>1. e = u
    BY <1>4, <1>7
  <2>2. InGap(u) /\ Offset(u) = Offset(d)
    BY <1>0, <1>1, HeadStays
  <2> QED
    BY <1>1, <1>7, <2>1, <2>2 DEF BitParts
<1>8. CASE d.mode # "NO_IMAGE" /\ (~s.motor \/ d.mode \in {"STOP", "RECORD"})
  <2>1. e = s
    BY <1>4, <1>8
  <2> QED
    BY <1>2, <1>3, <1>8, <2>1 DEF BitParts
<1>9. CASE d.mode # "NO_IMAGE" /\ s.motor /\ d.mode \notin {"STOP", "RECORD"} /\ c.gap = 0
  <2>1. e = [c.d EXCEPT !.mode = "STOP"]
    BY <1>4, <1>9 DEF Stop
  <2>2. /\ e \in Recorder /\ AlarmFits(e) /\ SameHead(c.d, e) /\ e.mode = "STOP"
        /\ e.alarm = NOT /\ e.motor = s.motor /\ e.motor_stop = s.motor_stop
    BY <1>6, <2>1, ModeSet
  <2>3. InGap(e) /\ Offset(e) = Offset(d)
    BY <1>6, <2>2, HeadStays
  <2> QED
    BY <1>2, <1>9, <2>2, <2>3 DEF BitParts
<1>10. CASE d.mode # "NO_IMAGE" /\ s.motor /\ d.mode \notin {"STOP", "RECORD"} /\ c.gap # 0
  <2>1. e = SetAlarm(c.d, in)
    BY <1>4, <1>10
  <2>2. in \in Int
    BY <1>0, <1>6 DEF Due
  <2>3. d.mode = "START" => in = Due(NextChunk(d, 1).gap, -d.alarm, FALSE)
    BY <1>5
  <2> HIDE DEF in
  <2>4. /\ e \in Recorder /\ AlarmFits(e) /\ SameHead(c.d, e) /\ e.alarm = in
        /\ e.mode = d.mode /\ e.motor = s.motor /\ e.motor_stop = s.motor_stop
    BY <1>6, <2>1, <2>2, AlarmSet
  <2>5. InGap(e) /\ Offset(e) = Offset(d)
    BY <1>6, <2>4, HeadStays
  <2> QED
    BY <1>2, <1>10, <2>3, <2>4, <2>5 DEF BitParts
<1> QED
  BY <1>7, <1>8, <1>9, <1>10

\* A reset leaves the alarm alone or unsets it and forgets the gap and the motor's stop.
ResetParts(d, ignore, e) ==
  /\ e \in Recorder /\ AlarmFits(e) /\ InGap(e) /\ e.motor = d.motor
  /\ IF d.mode = "NO_IMAGE" THEN e = d
     ELSE /\ e.mode = "STOP" /\ e.motor_stop = NOT /\ e.pos = IF ignore THEN d.pos ELSE 0
          /\ Offset(e) = -Place(e.pos)

LEMMA ResetDone ==
  ASSUME NEW d \in Recorder, AlarmFits(d), d.mode = "NO_IMAGE" => InGap(d), NEW ignore \in BOOLEAN
  PROVE  ResetParts(d, ignore, datasette_internal_reset(d, ignore))
<1> DEFINE quiet == IF d.mode \in {"START"} \cup Winding THEN UnsetAlarm(d) ELSE d
           e == datasette_internal_reset(d, ignore)
<1> SUFFICES ResetParts(d, ignore, e)
  OBVIOUS
<1>1. CASE d.mode = "NO_IMAGE"
  BY <1>1 DEF datasette_internal_reset, ResetParts, Fine
<1>2. CASE d.mode # "NO_IMAGE"
  <2>1. quiet \in Recorder /\ AlarmFits(quiet) /\ quiet.pos = d.pos /\ quiet.motor = d.motor
    BY AlarmUnset DEF Fine, SameHead
  <2>2. e = [Stop(quiet) EXCEPT !.pos = IF ignore THEN @ ELSE 0, !.counter = 0, !.long_gap_pending = 0,
                 !.long_gap_elapsed = 0, !.last_direction = 0, !.motor_stop = NOT]
    BY <1>2 DEF datasette_internal_reset
  <2> HIDE DEF quiet, e
  <2> DEFINE q == Stop(quiet)
  <2>3. /\ q \in Recorder /\ AlarmFits(q) /\ q.pos = d.pos /\ q.motor = d.motor /\ q.mode = "STOP"
    BY <2>1, ModeSet DEF Stop, SameHead
  <2> HIDE DEF q
  <2>4. /\ e = [q EXCEPT !.pos = IF ignore THEN @ ELSE 0, !.counter = 0, !.long_gap_pending = 0,
                 !.long_gap_elapsed = 0, !.last_direction = 0, !.motor_stop = NOT]
        /\ Len(Flux) \in Nat /\ \A n \in 0 .. Len(Flux) : Place(n) \in Nat
    BY <2>2, Places DEF q
  <2>5. /\ e \in Recorder /\ e.alarm = q.alarm /\ e.alarm_pending = q.alarm_pending /\ e.motor = d.motor
        /\ e.mode = "STOP" /\ e.motor_stop = NOT
    <3> DEFINE p == IF ignore THEN q.pos ELSE 0
    <3>1. p \in 0 .. Len(Flux)
      BY <2>3, <2>4 DEF Recorder
    <3>2. e = [q EXCEPT !.pos = p, !.counter = 0, !.long_gap_pending = 0,
                 !.long_gap_elapsed = 0, !.last_direction = 0, !.motor_stop = NOT]
      BY <2>3, <2>4
    <3> HIDE DEF p
    <3>3. e \in Recorder
      <4>1. q \in Recorder /\ 0 \in Nat /\ 0 \in Int /\ 0 \in {-1, 0, 1} /\ NOT \in Nat \cup {NOT}
        BY <2>3
      <4> QED
        BY <3>1, <3>2, <4>1 DEF Recorder
    <3>4. e.alarm = q.alarm /\ e.alarm_pending = q.alarm_pending
      BY <2>3, <3>2 DEF Recorder
    <3>5. e.motor = d.motor /\ e.mode = "STOP"
      BY <2>3, <3>2 DEF Recorder
    <3>6. e.motor_stop = NOT
      BY <2>3, <3>2 DEF Recorder
    <3> QED
      BY <3>3, <3>4, <3>5, <3>6
  <2>6. /\ e.pos = (IF ignore THEN d.pos ELSE 0) /\ e.counter = 0
        /\ e.long_gap_pending = 0 /\ e.long_gap_elapsed = 0 /\ e.last_direction = 0
    BY <2>3, <2>4 DEF Recorder
  <2>7. AlarmFits(e) /\ InGap(e)
    BY <2>3, <2>5, <2>6 DEF AlarmFits, InGap
  <2>8. Offset(e) = -Place(e.pos)
    <3>1. Place(e.pos) \in Nat
      BY <2>4, <2>5 DEF Recorder
    <3> QED
      BY <2>6, <3>1 DEF Offset
  <2> QED
    BY <1>2, <2>5, <2>6, <2>7, <2>8 DEF ResetParts
<1> QED
  BY <1>1, <1>2

\* A key: the head stays where it is, and a tape that is playing goes on in time.
KeyParts(d, command, e) ==
  /\ e \in Recorder /\ AlarmFits(e) /\ InGap(e) /\ Offset(e) = Offset(d)
  /\ e.mode = command /\ e.motor = d.motor /\ e.motor_stop = d.motor_stop
  /\ command = "START" /\ d.alarm # NOT => e.alarm = d.alarm

LEMMA KeyPressed ==
  ASSUME NEW d \in Recorder, Fine(d), NEW command \in {"STOP", "RECORD", "START"} \cup Winding
  PROVE  KeyParts(d, command, datasette_control_internal(d, command))
<1> DEFINE to == [d EXCEPT !.mode = command]
           wound == IF command \in Winding THEN SetAlarm(to, WindDelay) ELSE to
           e == datasette_control_internal(d, command)
<1> SUFFICES KeyParts(d, command, e)
  OBVIOUS
<1>1. /\ to \in Recorder /\ AlarmFits(to) /\ SameHead(d, to) /\ to.mode = command
      /\ to.alarm = d.alarm /\ to.motor = d.motor /\ to.motor_stop = d.motor_stop
  BY ModeSet DEF Fine
<1>2. e = IF command \in {"STOP", "RECORD"} THEN to
          ELSE IF d.motor THEN datasette_start_motor(wound) ELSE wound
  BY DEF datasette_control_internal, Winding
<1> HIDE DEF to, e
<1>3. WindDelay \in Int
  BY DatasetteAssumption
<1>4. /\ wound \in Recorder /\ AlarmFits(wound) /\ SameHead(d, wound) /\ wound.mode = command
      /\ wound.motor = d.motor /\ wound.motor_stop = d.motor_stop
      /\ command = "START" => wound.alarm = d.alarm
  <2>1. CASE command \in Winding
    <3>1. wound = SetAlarm(to, WindDelay)
      BY <2>1
    <3> HIDE DEF wound
    <3>2. /\ wound \in Recorder /\ AlarmFits(wound) /\ SameHead(to, wound) /\ wound.mode = to.mode
          /\ wound.motor = to.motor /\ wound.motor_stop = to.motor_stop
      BY <1>1, <1>3, <3>1, AlarmSet
    <3> QED
      BY <1>1, <2>1, <3>2 DEF SameHead, Winding
  <2>2. CASE command \notin Winding
    BY <1>1, <2>2
  <2> QED
    BY <2>1, <2>2
<1> HIDE DEF wound
<1> DEFINE go == datasette_start_motor(wound)
<1>5. /\ go \in Recorder /\ AlarmFits(go) /\ SameHead(wound, go)
      /\ wound.alarm # NOT => go.alarm = wound.alarm
      /\ go.mode = wound.mode /\ go.motor = wound.motor /\ go.motor_stop = wound.motor_stop
  BY <1>4, MotorStarts
<1>6. e = to \/ e = wound \/ e = go
  BY <1>2
<1> HIDE DEF go
<1>7. /\ e \in Recorder /\ AlarmFits(e) /\ SameHead(d, e)
      /\ e.mode = command /\ e.motor = d.motor /\ e.motor_stop = d.motor_stop
      /\ command = "START" /\ d.alarm # NOT => e.alarm = d.alarm
  BY <1>1, <1>4, <1>5, <1>6 DEF SameHead
<1>8. InGap(e) /\ Offset(e) = Offset(d)
  BY <1>7, HeadStays DEF Fine
<1> QED
  BY <1>7, <1>8 DEF KeyParts

\* The motor switched: the tape's place and time do not notice.
SwitchParts(d, flag, e) ==
  /\ e \in Recorder /\ AlarmFits(e) /\ InGap(e) /\ Offset(e) = Offset(d) /\ e.mode = d.mode
  /\ d.alarm # NOT => e.alarm = d.alarm
  /\ d.motor => e.motor
  /\ d.mode # "NO_IMAGE" =>
       IF flag THEN e.motor_stop = NOT ELSE e.motor_stop \in {d.motor_stop, MOTOR_DELAY}

LEMMA MotorSwitched ==
  ASSUME NEW d \in Recorder, Fine(d), NEW flag \in BOOLEAN
  PROVE  SwitchParts(d, flag, datasette_set_motor(d, flag))
<1> DEFINE on == [d EXCEPT !.motor_stop = NOT]
           go == datasette_start_motor(on)
           run == [go EXCEPT !.motor = TRUE]
           off == [d EXCEPT !.motor_stop = MOTOR_DELAY]
           alarmed == SetAlarm(off, MOTOR_DELAY)
           e == datasette_set_motor(d, flag)
<1> SUFFICES SwitchParts(d, flag, e)
  OBVIOUS
<1>0. MOTOR_DELAY \in Nat /\ MOTOR_DELAY \in Int
  BY DatasetteAssumption
<1>1. /\ on \in Recorder /\ AlarmFits(on) /\ SameHead(d, on) /\ on.mode = d.mode /\ on.alarm = d.alarm
      /\ on.motor = d.motor /\ on.motor_stop = NOT
  BY DEF Fine, Recorder, AlarmFits, SameHead
<1>2. /\ off \in Recorder /\ AlarmFits(off) /\ SameHead(d, off) /\ off.mode = d.mode /\ off.alarm = d.alarm
      /\ off.motor = d.motor /\ off.motor_stop = MOTOR_DELAY /\ off.alarm_pending = d.alarm_pending
  BY <1>0 DEF Fine, Recorder, AlarmFits, SameHead
<1>3. e = IF d.mode = "NO_IMAGE" THEN d
          ELSE IF flag THEN IF d.motor THEN on ELSE run
          ELSE IF ~d.motor \/ d.motor_stop # NOT THEN d
          ELSE IF d.alarm_pending THEN off ELSE alarmed
  BY <1>1, <1>2 DEF datasette_set_motor
<1> HIDE DEF on, off, e
<1>4. /\ go \in Recorder /\ AlarmFits(go) /\ SameHead(on, go) /\ go.mode = on.mode
      /\ on.alarm # NOT => go.alarm = on.alarm
      /\ go.motor_stop = on.motor_stop
  BY <1>1, MotorStarts
<1> HIDE DEF go
<1>5. /\ run \in Recorder /\ AlarmFits(run) /\ SameHead(go, run) /\ run.mode = go.mode
      /\ run.alarm = go.alarm /\ run.motor = TRUE /\ run.motor_stop = go.motor_stop
  BY <1>4 DEF Recorder, AlarmFits, SameHead
<1> HIDE DEF run
<1>6. /\ alarmed \in Recorder /\ AlarmFits(alarmed) /\ SameHead(off, alarmed) /\ alarmed.mode = off.mode
      /\ alarmed.motor = off.motor /\ alarmed.motor_stop = off.motor_stop
  BY <1>0, <1>2, AlarmSet
<1> HIDE DEF alarmed
<1>7. /\ e \in Recorder /\ AlarmFits(e) /\ SameHead(d, e) /\ e.mode = d.mode
      /\ d.alarm # NOT => e.alarm = d.alarm
      /\ d.motor => e.motor
      /\ d.mode # "NO_IMAGE" =>
           IF flag THEN e.motor_stop = NOT ELSE e.motor_stop \in {d.motor_stop, MOTOR_DELAY}
  <2>1. CASE d.mode = "NO_IMAGE" \/ (~flag /\ (~d.motor \/ d.motor_stop # NOT))
    <3>1. e = d
      BY <1>3, <2>1
    <3> QED
      BY <2>1, <3>1 DEF Fine, SameHead
  <2>2. CASE d.mode # "NO_IMAGE" /\ flag
    BY <1>1, <1>3, <1>4, <1>5, <2>2 DEF SameHead
  <2>3. CASE d.mode # "NO_IMAGE" /\ ~flag /\ d.motor /\ d.motor_stop = NOT
    <3>1. CASE d.alarm_pending
      BY <1>2, <1>3, <2>3, <3>1
    <3>2. CASE ~d.alarm_pending
      <4>1. e = alarmed /\ d.alarm = NOT
        BY <1>3, <2>3, <3>2 DEF Fine, AlarmFits
      <4> QED
        BY <1>2, <1>6, <2>3, <4>1 DEF SameHead
    <3> QED
      BY <3>1, <3>2
  <2> QED
    BY <2>1, <2>2, <2>3
<1>8. InGap(e) /\ Offset(e) = Offset(d)
  BY <1>7, HeadStays DEF Fine
<1> QED
  BY <1>7, <1>8 DEF SwitchParts

-----------------------------------------------------------------------------
(* The invariant *)

LEMMA DsInitially ==
  ASSUME DsInit
  PROVE  DsInv
<1>1. Len(Flux) \in Nat /\ MOTOR_DELAY \in Nat
  BY DatasetteAssumption
<1>2. ds \in Recorder /\ motor_line \in BOOLEAN
      /\ seen \in [off_for : 0 .. MOTOR_DELAY, due : Int \cup {NOT}, zero : Int]
  <2>1. 0 \in 0 .. Len(Flux) /\ MOTOR_DELAY \in 0 .. MOTOR_DELAY
    BY <1>1
  <2>2. ds \in Recorder
    BY <2>1 DEF DsInit, Recorder
  <2>3. seen = [off_for |-> MOTOR_DELAY, due |-> NOT, zero |-> 0] /\ motor_line = FALSE
    BY DEF DsInit
  <2>4. NOT \in Int \cup {NOT} /\ 0 \in Int
    OBVIOUS
  <2>5. seen \in [off_for : 0 .. MOTOR_DELAY, due : Int \cup {NOT}, zero : Int]
    BY <2>1, <2>3, <2>4, Zenon
  <2> QED
    BY <2>2, <2>3, <2>5
<1>3. AlarmFits(ds) /\ InGap(ds) /\ Offset(ds) = -seen.zero
  <2>1. ds.alarm = NOT /\ ds.alarm_pending = FALSE /\ ds.last_direction = 0 /\ ds.long_gap_pending = 0
        /\ ds.long_gap_elapsed = 0 /\ ds.pos = 0 /\ ds.counter = 0 /\ seen.zero = 0
    BY DEF DsInit
  <2> QED
    <3>1. Place(ds.pos) = 0
      BY <2>1 DEF Place
    <3> QED
      BY <2>1, <3>1 DEF AlarmFits, InGap, Offset
<1>4. DueFits(ds, seen.due) /\ StopCounts(ds, motor_line, seen.off_for)
  BY DEF DsInit, DueFits, StopCounts
<1> QED
  BY <1>2, <1>3, <1>4 DEF DsInv, Fine

\* A cycle brings alarm, flux change and stop nearer together.
LEMMA CycleStep ==
  ASSUME DsInv, Cycle
  PROVE  DsInv'
<1>0. /\ ds \in Recorder /\ AlarmFits(ds) /\ InGap(ds) /\ motor_line \in BOOLEAN /\ NOT \notin Int
      /\ seen \in [off_for : 0 .. MOTOR_DELAY, due : Int \cup {NOT}, zero : Int] /\ MOTOR_DELAY \in Nat
  BY DatasetteAssumption DEF DsInv, Fine
<1> DEFINE a == IF ds.alarm = NOT THEN NOT ELSE ds.alarm - 1
           s == IF ds.motor_stop \in {NOT, 0} THEN ds.motor_stop ELSE ds.motor_stop - 1
           o == IF motor_line \/ seen.off_for = MOTOR_DELAY THEN seen.off_for ELSE seen.off_for + 1
           u == IF seen.due = NOT THEN NOT ELSE seen.due - 1
<1>1. a \in Int \cup {NOT} /\ s \in Nat \cup {NOT} /\ o \in 0 .. MOTOR_DELAY /\ u \in Int \cup {NOT}
  BY <1>0 DEF Recorder
<1>2. ds' = [ds EXCEPT !.alarm = a, !.motor_stop = s] /\ motor_line' = motor_line
  BY <1>0 DEF Cycle, Recorder
<1>3. seen' = [seen EXCEPT !.off_for = o, !.due = u]
  BY <1>0 DEF Cycle
<1>4. (a # NOT <=> ds.alarm # NOT) /\ (seen.due # NOT <=> u # NOT)
  BY <1>0 DEF Recorder
<1>5. seen.due # NOT /\ ds.alarm = seen.due => a = u
  OBVIOUS
<1>6. s # NOT => ds.motor_stop # NOT /\ (~motor_line /\ ds.motor_stop + seen.off_for = MOTOR_DELAY => s + o = MOTOR_DELAY)
  <2> DEFINE t == ds.motor_stop
             f == seen.off_for
  <2>1. t \in Nat \cup {NOT} /\ f \in 0 .. MOTOR_DELAY
    BY <1>0 DEF Recorder
  <2>2. /\ s = IF t \in {NOT, 0} THEN t ELSE t - 1
        /\ o = IF motor_line \/ f = MOTOR_DELAY THEN f ELSE f + 1
    OBVIOUS
  <2> HIDE DEF s, o, t, f
  <2>3. s # NOT => t # NOT
    BY <2>2
  <2>4. ASSUME s # NOT, ~motor_line, t + f = MOTOR_DELAY  PROVE s + o = MOTOR_DELAY
    <3>1. t \in Nat
      BY <2>1, <2>3, <2>4
    <3>2. CASE t = 0
      BY <1>0, <2>1, <2>2, <2>4, <3>2
    <3>3. CASE t # 0
      BY <1>0, <2>1, <2>2, <2>4, <3>1, <3>3
    <3> QED
      BY <3>2, <3>3
  <2> QED
    BY <2>3, <2>4 DEF t, f
<1> HIDE DEF a, s, o, u
<1>7. /\ ds' \in Recorder /\ ds'.alarm = a /\ ds'.motor_stop = s /\ ds'.mode = ds.mode
      /\ ds'.alarm_pending = ds.alarm_pending /\ SameHead(ds, ds')
  BY <1>0, <1>1, <1>2 DEF Recorder, SameHead
<1>8. /\ seen' \in [off_for : 0 .. MOTOR_DELAY, due : Int \cup {NOT}, zero : Int]
      /\ seen'.off_for = o /\ seen'.due = u /\ seen'.zero = seen.zero
  BY <1>0, <1>1, <1>3
<1>9. InGap(ds') /\ Offset(ds') = Offset(ds)
  BY <1>0, <1>7, HeadStays
<1>10. AlarmFits(ds')
  BY <1>0, <1>4, <1>7 DEF AlarmFits
<1>11. DueFits(ds', seen'.due)
  BY <1>4, <1>5, <1>7, <1>8 DEF DsInv, DueFits
<1>12. StopCounts(ds', motor_line', seen'.off_for)
  BY <1>2, <1>6, <1>7, <1>8 DEF DsInv, StopCounts
<1>13. Offset(ds') = -seen'.zero
  BY <1>8, <1>9 DEF DsInv
<1> QED
  BY <1>0, <1>2, <1>7, <1>8, <1>9, <1>10, <1>11, <1>12, <1>13 DEF DsInv, Fine

\* The next flux change is due a chunk after this one.
LEMMA ReadBitStep ==
  ASSUME DsInv, ReadBit
  PROVE  /\ DsInv'
         /\ ds.motor /\ ~ds'.motor => ~motor_line /\ seen.off_for = MOTOR_DELAY
<1>0. /\ ds \in Recorder /\ Fine(ds) /\ ds.alarm \in Int /\ ds.alarm # NOT /\ ds.alarm <= 0
      /\ seen \in [off_for : 0 .. MOTOR_DELAY, due : Int \cup {NOT}, zero : Int] /\ MOTOR_DELAY \in Nat
  BY DatasetteAssumption DEF DsInv, Fine, ReadBit, Recorder
<1> DEFINE chunk == NextChunk(ds, 1).gap
           since == IF seen.due = NOT THEN ds.alarm ELSE seen.due
           u == IF ds.mode # "START" \/ ~ds'.alarm_pending THEN NOT
                ELSE IF since + chunk > 0 THEN since + chunk ELSE 0
<1>1. BitParts(ds, ds')
  BY <1>0, BitRead DEF ReadBit
<1>2. seen' = [seen EXCEPT !.due = u] /\ motor_line' = motor_line
  BY DEF ReadBit
<1>3. chunk \in Nat
  BY <1>0, ChunkKeeps DEF ChunkParts, Fine
<1>4. since = ds.alarm
  BY DEF DsInv, DueFits
<1> HIDE DEF chunk, since
<1>5. u \in Int \cup {NOT}
  BY <1>0, <1>3, <1>4
<1>6. DueFits(ds', u)
  <2>1. CASE ds.mode # "START" \/ ~ds'.alarm_pending
    BY <2>1 DEF DueFits
  <2>2. CASE ds.mode = "START" /\ ds'.alarm_pending
    <3>1. ds'.alarm # NOT
      BY <1>1, <2>2 DEF BitParts, AlarmFits
    <3>2. ds'.mode = "START" /\ ds'.alarm = Due(chunk, -ds.alarm, FALSE)
      BY <1>1, <2>2, <3>1 DEF BitParts, chunk
    <3>3. u = IF ds.alarm + chunk > 0 THEN ds.alarm + chunk ELSE 0
      BY <1>4, <2>2
    <3>4. Due(chunk, -ds.alarm, FALSE) = IF ds.alarm + chunk > 0 THEN ds.alarm + chunk ELSE 0
      BY <1>0, <1>3 DEF Due
    <3> QED
      BY <3>2, <3>3, <3>4 DEF DueFits
  <2> QED
    BY <2>1, <2>2
<1> HIDE DEF u
<1>7. /\ seen' \in [off_for : 0 .. MOTOR_DELAY, due : Int \cup {NOT}, zero : Int]
      /\ seen'.off_for = seen.off_for /\ seen'.due = u /\ seen'.zero = seen.zero
  BY <1>0, <1>2, <1>5
<1>8. StopCounts(ds', motor_line', seen'.off_for)
  BY <1>1, <1>2, <1>7 DEF BitParts, StopCounts, DsInv
<1>9. ds.motor /\ ~ds'.motor => ~motor_line /\ seen.off_for = MOTOR_DELAY
  <2> SUFFICES ASSUME ds.motor, ~ds'.motor
               PROVE  ~motor_line /\ seen.off_for = MOTOR_DELAY
    OBVIOUS
  <2>1. ds.mode # "NO_IMAGE" /\ ds.motor_stop = 0
    BY <1>1 DEF BitParts
  <2>2. ds.motor_stop # NOT
    BY <2>1, DatasetteAssumption
  <2> QED
    BY <1>0, <2>1, <2>2 DEF DsInv, StopCounts
<1>10. Offset(ds') = -seen'.zero /\ Fine(ds') /\ motor_line' \in BOOLEAN
  BY <1>1, <1>2, <1>7 DEF BitParts, DsInv, Fine
<1> QED
  BY <1>6, <1>7, <1>8, <1>9, <1>10 DEF DsInv

LEMMA ControlStep ==
  ASSUME DsInv, NEW command \in {"STOP", "RESET", "RECORD", "START"} \cup Winding, Control(command)
  PROVE  DsInv' /\ ds'.motor = ds.motor
<1> DEFINE z == IF command = "RESET" THEN 0 ELSE seen.zero
           u == IF command = "START" THEN seen.due ELSE NOT
<1>0. /\ ds \in Recorder /\ Fine(ds) /\ ds.mode # "NO_IMAGE"
      /\ seen \in [off_for : 0 .. MOTOR_DELAY, due : Int \cup {NOT}, zero : Int]
      /\ ds' = datasette_control_internal(ds, command) /\ motor_line' = motor_line
      /\ seen' = [seen EXCEPT !.zero = z, !.due = u]
  BY DEF DsInv, Fine, Control
<1>1. z \in Int /\ u \in Int \cup {NOT}
  BY <1>0
<1> HIDE DEF z, u
<1>2. /\ seen' \in [off_for : 0 .. MOTOR_DELAY, due : Int \cup {NOT}, zero : Int]
      /\ seen'.off_for = seen.off_for /\ seen'.due = u /\ seen'.zero = z
  BY <1>0, <1>1
<1>3. CASE command = "RESET"
  <2>1. ds' = datasette_internal_reset(ds, FALSE)
    <3>1. datasette_control_internal(ds, "RESET") = datasette_internal_reset(ds, FALSE)
      BY DEF datasette_control_internal, Winding
    <3> QED
      BY <1>0, <1>3, <3>1
  <2>2. ResetParts(ds, FALSE, ds')
    BY <1>0, <2>1, ResetDone DEF Fine
  <2>3. Fine(ds') /\ ds'.motor = ds.motor /\ ds'.motor_stop = NOT
    BY <1>0, <2>2 DEF ResetParts, Fine
  <2>4. Offset(ds') = -seen'.zero
    <3>1. Offset(ds') = -Place(0)
      BY <1>0, <2>2 DEF ResetParts
    <3>2. z = 0
      BY <1>3 DEF z
    <3> QED
      BY <1>2, <3>1, <3>2 DEF Place
  <2>5. DueFits(ds', seen'.due) /\ StopCounts(ds', motor_line', seen'.off_for)
    BY <1>2, <1>3, <2>3 DEF DueFits, StopCounts, u
  <2> QED
    BY <1>0, <1>2, <2>3, <2>4, <2>5 DEF DsInv
<1>4. CASE command # "RESET"
  <2>1. KeyParts(ds, command, ds')
    BY <1>0, <1>4, KeyPressed
  <2>2. Fine(ds') /\ ds'.motor = ds.motor
    BY <2>1 DEF KeyParts, Fine
  <2>3. Offset(ds') = -seen'.zero
    BY <1>2, <1>4, <2>1 DEF KeyParts, DsInv, z
  <2>4. DueFits(ds', seen'.due)
    BY <1>2, <2>1 DEF KeyParts, DsInv, DueFits, u
  <2>5. StopCounts(ds', motor_line', seen'.off_for)
    BY <1>0, <1>2, <2>1 DEF KeyParts, DsInv, StopCounts
  <2> QED
    BY <1>0, <1>2, <2>2, <2>3, <2>4, <2>5 DEF DsInv
<1> QED
  BY <1>3, <1>4

LEMMA MotorLineStep ==
  ASSUME DsInv, NEW on \in BOOLEAN, MotorLine(on)
  PROVE  DsInv' /\ (ds.motor => ds'.motor)
<1>0. /\ ds \in Recorder /\ Fine(ds) /\ motor_line # on /\ motor_line' = on /\ MOTOR_DELAY \in Nat
      /\ seen \in [off_for : 0 .. MOTOR_DELAY, due : Int \cup {NOT}, zero : Int]
      /\ seen' = [seen EXCEPT !.off_for = 0] /\ ds' = datasette_set_motor(ds, on)
  BY DatasetteAssumption DEF DsInv, Fine, MotorLine
<1>1. SwitchParts(ds, on, ds')
  BY <1>0, MotorSwitched
<1>2. /\ seen' \in [off_for : 0 .. MOTOR_DELAY, due : Int \cup {NOT}, zero : Int]
      /\ seen'.off_for = 0 /\ seen'.due = seen.due /\ seen'.zero = seen.zero
  BY <1>0
<1>3. Fine(ds') /\ Offset(ds') = -seen'.zero
  BY <1>1, <1>2 DEF SwitchParts, Fine, DsInv
<1>4. DueFits(ds', seen'.due)
  BY <1>1, <1>2, DatasetteAssumption DEF SwitchParts, DsInv, DueFits
<1>5. StopCounts(ds', motor_line', seen'.off_for)
  <2> SUFFICES ASSUME ds'.mode # "NO_IMAGE", ds'.motor_stop # NOT
               PROVE  ~on /\ ds'.motor_stop + 0 = MOTOR_DELAY
    BY <1>0, <1>2 DEF StopCounts
  <2>1. ~on /\ ds.mode # "NO_IMAGE" /\ ds'.motor_stop \in {ds.motor_stop, MOTOR_DELAY}
    BY <1>1 DEF SwitchParts
  <2>2. ds.motor_stop = NOT
    BY <1>0, <2>1 DEF DsInv, StopCounts
  <2> QED
    BY <1>0, <2>1, <2>2
<1> QED
  BY <1>0, <1>1, <1>2, <1>3, <1>4, <1>5 DEF DsInv, SwitchParts

LEMMA ResetStep ==
  ASSUME DsInv, NEW ignore \in BOOLEAN, datasette_reset(ignore)
  PROVE  DsInv' /\ ds'.motor = ds.motor
<1> DEFINE z == IF ds.mode = "NO_IMAGE" THEN seen.zero ELSE Place(ds'.pos)
<1>0. /\ ds \in Recorder /\ Fine(ds) /\ motor_line' = motor_line
      /\ seen \in [off_for : 0 .. MOTOR_DELAY, due : Int \cup {NOT}, zero : Int]
      /\ seen' = [seen EXCEPT !.zero = z, !.due = NOT] /\ ds' = datasette_internal_reset(ds, ignore)
  BY DEF DsInv, Fine, datasette_reset
<1>1. ResetParts(ds, ignore, ds')
  BY <1>0, ResetDone DEF Fine
<1>2. z \in Int
  BY <1>0, <1>1, Places DEF ResetParts, Recorder
<1> HIDE DEF z
<1>3. /\ seen' \in [off_for : 0 .. MOTOR_DELAY, due : Int \cup {NOT}, zero : Int]
      /\ seen'.off_for = seen.off_for /\ seen'.due = NOT /\ seen'.zero = z
  BY <1>0, <1>2
<1>4. Fine(ds') /\ ds'.motor = ds.motor
  BY <1>1 DEF ResetParts, Fine
<1>5. Offset(ds') = -seen'.zero
  BY <1>1, <1>3 DEF ResetParts, DsInv, z
<1>6. DueFits(ds', seen'.due) /\ StopCounts(ds', motor_line', seen'.off_for)
  BY <1>0, <1>1, <1>3 DEF ResetParts, DueFits, StopCounts, DsInv
<1> QED
  BY <1>0, <1>3, <1>4, <1>5, <1>6 DEF DsInv

LEMMA ImageStep ==
  ASSUME DsInv, NEW image \in BOOLEAN, datasette_set_tape_image(image)
  PROVE  DsInv' /\ ds'.motor = ds.motor
<1> DEFINE z == IF image THEN 0 ELSE seen.zero
           new == [ds EXCEPT !.mode = "STOP", !.pos = 0, !.counter = 0]
           none == [ds EXCEPT !.mode = "NO_IMAGE"]
<1>0. /\ ds \in Recorder /\ Fine(ds) /\ motor_line' = motor_line /\ z \in Int
      /\ seen \in [off_for : 0 .. MOTOR_DELAY, due : Int \cup {NOT}, zero : Int]
      /\ seen' = [seen EXCEPT !.zero = z, !.due = NOT]
      /\ ds' = IF image THEN datasette_internal_reset(new, FALSE) ELSE none
  BY DEF DsInv, Fine, datasette_set_tape_image
<1> HIDE DEF z
<1>1. /\ seen' \in [off_for : 0 .. MOTOR_DELAY, due : Int \cup {NOT}, zero : Int]
      /\ seen'.off_for = seen.off_for /\ seen'.due = NOT /\ seen'.zero = z
  BY <1>0
<1>2. DueFits(ds', seen'.due)
  BY <1>1 DEF DueFits
<1>3. CASE image
  <2>1. /\ new \in Recorder /\ new.mode = "STOP" /\ new.alarm = ds.alarm /\ new.motor = ds.motor
        /\ new.alarm_pending = ds.alarm_pending
    <3>1. 0 \in 0 .. Len(Flux)
      BY Places
    <3>2. ds \in Recorder /\ "STOP" \in {"NO_IMAGE", "STOP", "RECORD", "START"} \cup Winding
      BY <1>0
    <3>3. new \in Recorder
      <4> DEFINE p == 0
                 n == 0
                 m == "STOP"
      <4>1. new = [ds EXCEPT !.mode = m, !.pos = p, !.counter = n]
        OBVIOUS
      <4>2. p \in 0 .. Len(Flux) /\ n \in Int /\ m \in {"NO_IMAGE", "STOP", "RECORD", "START"} \cup Winding
        BY <3>1
      <4> HIDE DEF new, p, n, m
      <4> QED
        BY <3>2, <4>1, <4>2 DEF Recorder
    <3>4. /\ new.mode = "STOP" /\ new.alarm = ds.alarm /\ new.motor = ds.motor
          /\ new.alarm_pending = ds.alarm_pending
      BY <3>2 DEF Recorder
    <3> QED
      BY <3>3, <3>4
  <2> HIDE DEF new
  <2>2. AlarmFits(new)
    BY <1>0, <2>1 DEF Fine, AlarmFits
  <2>3. ResetParts(new, FALSE, ds')
    BY <1>0, <1>3, <2>1, <2>2, ResetDone
  <2>4. Fine(ds') /\ ds'.motor = ds.motor /\ ds'.motor_stop = NOT /\ Offset(ds') = -Place(0)
    BY <2>1, <2>3 DEF ResetParts, Fine
  <2>5. Offset(ds') = -seen'.zero
    BY <1>1, <1>3, <2>4 DEF Place, z
  <2>6. StopCounts(ds', motor_line', seen'.off_for)
    BY <2>4 DEF StopCounts
  <2> QED
    BY <1>0, <1>1, <1>2, <2>4, <2>5, <2>6 DEF DsInv
<1>4. CASE ~image
  <2>1. ds' = none
    BY <1>0, <1>4
  <2>2. /\ ds' \in Recorder /\ ds'.mode = "NO_IMAGE" /\ ds'.alarm = ds.alarm /\ ds'.motor = ds.motor
        /\ ds'.alarm_pending = ds.alarm_pending /\ SameHead(ds, ds')
    BY <1>0, <2>1 DEF Recorder, SameHead
  <2>3. InGap(ds') /\ Offset(ds') = Offset(ds)
    BY <1>0, <2>2, HeadStays DEF Fine
  <2>4. Fine(ds')
    BY <1>0, <2>2, <2>3 DEF Fine, AlarmFits
  <2>5. Offset(ds') = -seen'.zero
    BY <1>1, <1>4, <2>3 DEF DsInv, z
  <2>6. StopCounts(ds', motor_line', seen'.off_for)
    BY <2>2 DEF StopCounts
  <2> QED
    BY <1>0, <1>1, <1>2, <2>2, <2>4, <2>5, <2>6 DEF DsInv
<1> QED
  BY <1>3, <1>4

\* Every step keeps the invariant, and none but the motor's stop, when it is due, stops it.
LEMMA DsStep ==
  ASSUME DsInv, [DsNext]_dsVars
  PROVE  /\ DsInv'
         /\ ds.motor /\ ~ds'.motor => ~motor_line /\ seen.off_for = MOTOR_DELAY
<1>1. CASE Cycle
  <2>1. ds'.motor = ds.motor
    BY <1>1 DEF Cycle, DsInv, Fine, Recorder
  <2> QED
    BY <1>1, <2>1, CycleStep
<1>2. CASE ReadBit
  BY <1>2, ReadBitStep
<1>3. ASSUME NEW command \in {"STOP", "RESET", "RECORD", "START"} \cup Winding, Control(command)
      PROVE  DsInv' /\ ds'.motor = ds.motor
  BY <1>3, ControlStep
<1>4. ASSUME NEW on \in BOOLEAN, MotorLine(on)
      PROVE  DsInv' /\ (ds.motor => ds'.motor)
  BY <1>4, MotorLineStep
<1>5. ASSUME NEW ignore \in BOOLEAN, datasette_reset(ignore)
      PROVE  DsInv' /\ ds'.motor = ds.motor
  BY <1>5, ResetStep
<1>6. ASSUME NEW image \in BOOLEAN, datasette_set_tape_image(image)
      PROVE  DsInv' /\ ds'.motor = ds.motor
  BY <1>6, ImageStep
<1>7. CASE UNCHANGED dsVars
  <2>1. ds' = ds /\ motor_line' = motor_line /\ seen' = seen
    BY <1>7 DEF dsVars
  <2> QED
    BY <2>1 DEF DsInv
<1> QED
  BY <1>1, <1>2, <1>3, <1>4, <1>5, <1>6, <1>7 DEF DsNext

\* The recorder's types hold for every tape: the alarm's flag tells whether it is set, and the
\* head does not leave the tape.
THEOREM DatasetteTypes == DsSpec => []DsTypeOK
<1>1. DsInv => DsTypeOK
  BY DEF DsInv, Fine, Recorder, AlarmFits, DsTypeOK
<1>2. DsInit => DsInv
  BY DsInitially
<1>3. DsInv /\ [DsNext]_dsVars => DsInv'
  BY DsStep
<1> QED
  BY <1>1, <1>2, <1>3, PTL DEF DsSpec

\* However a tape is played, wound, turned in the middle of a gap, reset and exchanged, the
\* counter says where its head is; what plays comes when the tape says however late the alarms;
\* and the motor runs on for its delay, and on if it is switched on again.
THEOREM TapeStaysInStep == DsSpec => TapeInStep
<1>1. DsInv => TapeKnowsWhere /\ FluxOnTime
  <2> SUFFICES ASSUME DsInv
               PROVE  TapeKnowsWhere /\ FluxOnTime
    OBVIOUS
  <2>1. /\ ds.counter \in Int /\ Place(ds.pos) \in Nat /\ ds.long_gap_pending \in Nat /\ seen.zero \in Int
        /\ Offset(ds) = -seen.zero
    BY Places DEF DsInv, Fine, Recorder
  <2>2. TapeKnowsWhere
    BY <2>1 DEF TapeKnowsWhere, Offset
  <2>3. FluxOnTime
    BY DEF DsInv, DueFits, FluxOnTime
  <2> QED
    BY <2>2, <2>3
<1>2. DsInit => DsInv
  BY DsInitially
<1>3. DsInv /\ [DsNext]_dsVars => DsInv'
  BY DsStep
<1>4. DsInv /\ [DsNext]_dsVars => [ds.motor /\ ~ds'.motor => ~motor_line /\ seen.off_for = MOTOR_DELAY]_dsVars
  BY DsStep
<1> QED
  BY <1>1, <1>2, <1>3, <1>4, PTL DEF DsSpec, TapeInStep, MotorKeepsDelay

-----------------------------------------------------------------------------
(* Sound: the invariant *)

Ports == [state : {"none", "started"}, quit_thread : BOOLEAN, fifo : Seq(Int), ahead : Seq(Int),
          out_buffer : Int, notified : Nat]
Snds ==
  [ playback_enabled : BOOLEAN, sound_state_changed : BOOLEAN, sid_state_changed : BOOLEAN,
    warp : BOOLEAN, nolimit : BOOLEAN, playdev : BOOLEAN, sdev_open : BOOLEAN,
    issuspended : BOOLEAN, disabletime : BOOLEAN, buffer : Seq(Nat), nr : Nat ]

\* What the port and its thread keep true, whatever is written.
PortFits ==
  /\ port \in Ports
  /\ port.notified <= MaxNotify /\ Len(port.fifo) <= fifo_size /\ Len(port.ahead) <= 1
  /\ port.state = "none" => port = NoPort
  /\ loop \in {"begin", "test", "receive", "pull", "add", "wake", "ended"}
  /\ loop # "add" => port.out_buffer = Silence
  /\ loop # "ended" => port.state = "started"
  /\ cond \in {"idle", "write", "to_wait", "waiting"} /\ unwritten \in Seq(Int)
  /\ cond # "idle" <=> unwritten # <<>>
  /\ cond # "idle" => port.state = "started"
  /\ heard \in Seq(Int)

\* Which step may follow which in what the emulator's thread has still to do.
MayFollow(step, next) ==
  \/ step \in {"close", "join", "closed"} /\ next \in {"run", "open", "fail"}
  \/ step \in {"open", "opened"} /\ next = "run"
  \/ step = "fill" /\ next = "opened"
  \/ step = "error" /\ next = "fail"
  \/ step = "fail" /\ next \in {"run", "sid"}
  \/ step = "run" /\ next = "sid"
  \/ step = "resume" /\ next = "space"

AllSteps == {"open", "fill", "opened", "fail", "error", "close", "join", "closed", "run", "sid",
             "space", "write", "flushed", "suspend", "resume"}

\* A fill is followed by what else opens the device, an error by closing it.
GoodSteps(s) ==
  /\ s \in Seq(AllSteps)
  /\ \A i \in 1 .. Len(s) - 1 : MayFollow(s[i], s[i + 1])
  /\ s # <<>> => s[Len(s)] \notin {"fill", "error"}
StepsFit == GoodSteps(steps)

Todo == IF steps = <<>> THEN "nothing" ELSE Head(steps)

\* sound.c's two notions of an open device, by what is done next.
DeviceFits ==
  /\ Todo = "closed" => port.state = "none"
  /\ Todo # "closed" => (snd.playdev <=> port.state = "started")
  /\ Todo \notin {"fill", "opened", "error", "close", "join", "closed"} => (snd.sdev_open <=> snd.playdev)
  /\ Todo \in {"fill", "opened", "sid", "space", "write", "flushed", "join"} => snd.playdev
  /\ Todo = "open" => ~ snd.playdev
  /\ Todo = "resume" /\ Tail(steps) # <<>> => snd.playdev

\* Half fragments in the order they were made.
Halves(h, m) ==
  /\ h \in Seq(Nat) /\ \A i \in 1 .. Len(h) : h[i] \in 1 .. m
  /\ \A i, j \in 1 .. Len(h) : i < j => h[i] < h[j]

\* The emulator's buffer holds what was made last.
BufferFits ==
  /\ made \in Nat /\ snd \in Snds
  /\ Len(snd.buffer) <= SOUND_BUFSIZE /\ snd.nr <= bufsize
  /\ Todo \in {"write", "flushed"} => snd.nr <= Len(snd.buffer)
  /\ Halves(snd.buffer, made)

Rising(s) ==
  \A i, j \in 1 .. Len(s) : i < j /\ s[i] > 0 /\ s[j] > 0 => s[i] < s[j]
Before(A, B) == \A a \in A, b \in B : a < b

\* The numbers at each place on the way to the loudspeaker.
Heard == Numbers(heard)
Out == Numbers(<<port.out_buffer>>)
Ahead == Numbers(port.ahead)
Queued == Numbers(port.fifo)
Left == Numbers(unwritten)
Buffered == Numbers(Blocks(InBuffer))

\* The later the place, the later what is there was made; and nothing else was lost.
SetsFit(h, o, a, q, l, b, g, m) ==
  /\ Before(h, o) /\ Before(h \cup o, a) /\ Before(h \cup o \cup a, q)
  /\ Before(h \cup o \cup a \cup q, l) /\ Before(h \cup o \cup a \cup q \cup l, b)
  /\ h \cup o \cup a \cup q \cup l \cup b \cup g = 1 .. 2 * m

WayFits ==
  /\ Rising(Reverse(heard)) /\ Rising(port.fifo) /\ Rising(unwritten)
  /\ SetsFit(Heard, Out, Ahead, Queued, Left, Buffered, gone, made)

SoundInv == PortFits /\ StepsFit /\ DeviceFits /\ BufferFits /\ WayFits

-----------------------------------------------------------------------------
(* Sequences of numbered blocks *)

\* A number of a sequence is a positive element of it.
LEMMA NumbersAre ==
  ASSUME NEW s \in Seq(Int)
  PROVE  /\ \A b \in Numbers(s) : b \in Nat \ {0} /\ \E i \in 1 .. Len(s) : s[i] = b
         /\ \A i \in 1 .. Len(s) : s[i] > 0 => s[i] \in Numbers(s)
<1>1. DOMAIN s = 1 .. Len(s) /\ \A i \in 1 .. Len(s) : s[i] \in Int
  OBVIOUS
<1>2. Numbers(s) = {b \in {s[i] : i \in 1 .. Len(s)} : b > 0}
  BY <1>1 DEF Numbers, ToSet
<1> QED
  BY <1>1, <1>2

\* Nothing is numbered in an empty sequence, and one block by itself.
LEMMA NoNumbers == <<>> \in Seq(Int) /\ Numbers(<<>>) = {} /\ Rising(<<>>)
<1> DEFINE s == <<>>
<1>1. s \in Seq(Int) /\ Len(s) = 0
  OBVIOUS
<1> SUFFICES s \in Seq(Int) /\ Numbers(s) = {} /\ Rising(s)
  OBVIOUS
<1> HIDE DEF s
<1>2. \A b \in Numbers(s) : \E i \in 1 .. Len(s) : s[i] = b
  BY <1>1, NumbersAre
<1> QED
  BY <1>1, <1>2 DEF Rising

LEMMA OneNumber ==
  ASSUME NEW b \in Int
  PROVE  <<b>> \in Seq(Int) /\ Numbers(<<b>>) = (IF b > 0 THEN {b} ELSE {}) /\ Rising(<<b>>)
<1> DEFINE s == <<b>>
<1>1. s \in Seq(Int) /\ Len(s) = 1 /\ s[1] = b
  OBVIOUS
<1> SUFFICES s \in Seq(Int) /\ Numbers(s) = (IF b > 0 THEN {b} ELSE {}) /\ Rising(s)
  OBVIOUS
<1> HIDE DEF s
<1>2. \A x \in Numbers(s) : x > 0 /\ x = b
  BY <1>1, NumbersAre
<1>3. b > 0 => b \in Numbers(s)
  BY <1>1, NumbersAre
<1> QED
  BY <1>1, <1>2, <1>3 DEF Rising

\* What repeats the last sample has no number.
LEMMA FillHasNone ==
  ASSUME NEW n \in Int
  PROVE  Fill(n) \in Seq(Int) /\ Numbers(Fill(n)) = {} /\ Rising(Fill(n))
<1>1. CASE n >= 0
  <2>1. Fill(n) \in Seq(Int) /\ Len(Fill(n)) = 2 * n /\ \A i \in 1 .. Len(Fill(n)) : Fill(n)[i] = -1
    BY <1>1 DEF Fill, FILL
  <2>2. \A b \in Numbers(Fill(n)) : b > 0 /\ b = -1
    BY <2>1, NumbersAre
  <2> QED
    BY <2>1, <2>2 DEF Rising
<1>2. CASE n < 0
  <2>1. 1 .. 2 * n = {}
    BY <1>2
  <2>2. Fill(n) = <<>>
    BY <2>1 DEF Fill
  <2> QED
    BY <2>2, NoNumbers
<1> QED
  BY <1>1, <1>2

\* One sequence after another: the numbers of both, in order if all of one are before the other's.
LEMMA NumbersConcat ==
  ASSUME NEW s \in Seq(Int), NEW t \in Seq(Int)
  PROVE  /\ s \o t \in Seq(Int) /\ Numbers(s \o t) = Numbers(s) \cup Numbers(t)
         /\ Rising(s) /\ Rising(t) /\ Before(Numbers(s), Numbers(t)) => Rising(s \o t)
<1> DEFINE w == s \o t
<1>1. /\ w \in Seq(Int) /\ Len(w) = Len(s) + Len(t) /\ Len(s) \in Nat /\ Len(t) \in Nat
      /\ \A i \in 1 .. Len(w) : w[i] = IF i <= Len(s) THEN s[i] ELSE t[i - Len(s)]
  BY ConcatProperties
<1> SUFFICES /\ w \in Seq(Int) /\ Numbers(w) = Numbers(s) \cup Numbers(t)
             /\ Rising(s) /\ Rising(t) /\ Before(Numbers(s), Numbers(t)) => Rising(w)
  OBVIOUS
<1> HIDE DEF w
<1>2. /\ \A i \in 1 .. Len(w) : i <= Len(s) => i \in 1 .. Len(s) /\ w[i] = s[i]
      /\ \A i \in 1 .. Len(w) : ~ (i <= Len(s)) => i - Len(s) \in 1 .. Len(t) /\ w[i] = t[i - Len(s)]
  BY <1>1
<1>3. /\ \A i \in 1 .. Len(s) : i \in 1 .. Len(w) /\ w[i] = s[i]
      /\ \A i \in 1 .. Len(t) : i + Len(s) \in 1 .. Len(w) /\ w[i + Len(s)] = t[i]
  <2>1. \A i \in 1 .. Len(s) : i \in 1 .. Len(w) /\ w[i] = s[i]
    BY <1>1
  <2>2. ASSUME NEW i \in 1 .. Len(t) PROVE i + Len(s) \in 1 .. Len(w) /\ w[i + Len(s)] = t[i]
    <3>1. i + Len(s) \in 1 .. Len(w) /\ ~ (i + Len(s) <= Len(s)) /\ (i + Len(s)) - Len(s) = i
      BY <1>1
    <3> QED
      BY <1>2, <3>1
  <2> QED
    BY <2>1, <2>2
<1>4. Numbers(w) \subseteq Numbers(s) \cup Numbers(t)
  <2> SUFFICES ASSUME NEW b \in Numbers(w) PROVE b \in Numbers(s) \cup Numbers(t)
    OBVIOUS
  <2>1. PICK i \in 1 .. Len(w) : w[i] = b
    BY <1>1, NumbersAre
  <2>2. b > 0
    BY <1>1, NumbersAre
  <2> QED
    BY <1>2, <2>1, <2>2, NumbersAre
<1>5. Numbers(s) \subseteq Numbers(w)
  <2> SUFFICES ASSUME NEW b \in Numbers(s) PROVE b \in Numbers(w)
    OBVIOUS
  <2>1. b > 0 /\ \E i \in 1 .. Len(s) : s[i] = b
    BY NumbersAre
  <2>2. PICK i \in 1 .. Len(s) : s[i] = b
    BY <2>1
  <2>3. i \in 1 .. Len(w) /\ w[i] = b
    BY <1>3, <2>2
  <2> QED
    BY <1>1, <2>1, <2>3, NumbersAre
<1>6. Numbers(t) \subseteq Numbers(w)
  <2> SUFFICES ASSUME NEW b \in Numbers(t) PROVE b \in Numbers(w)
    OBVIOUS
  <2>1. b > 0 /\ \E i \in 1 .. Len(t) : t[i] = b
    BY NumbersAre
  <2>2. PICK i \in 1 .. Len(t) : t[i] = b
    BY <2>1
  <2>3. i + Len(s) \in 1 .. Len(w) /\ w[i + Len(s)] = b
    BY <1>3, <2>2
  <2> QED
    BY <1>1, <2>1, <2>3, NumbersAre
<1>7. ASSUME Rising(s), Rising(t), Before(Numbers(s), Numbers(t)) PROVE Rising(w)
  <2> SUFFICES ASSUME NEW i \in 1 .. Len(w), NEW j \in 1 .. Len(w), i < j, w[i] > 0, w[j] > 0
               PROVE  w[i] < w[j]
    BY DEF Rising
  <2>0. i \in Nat /\ j \in Nat
    BY <1>1
  <2>1. CASE j <= Len(s)
    <3>1. i \in 1 .. Len(s) /\ j \in 1 .. Len(s) /\ w[i] = s[i] /\ w[j] = s[j]
      BY <1>1, <1>2, <2>0, <2>1
    <3> QED
      BY <1>7, <3>1 DEF Rising
  <2>2. CASE i <= Len(s) /\ ~ (j <= Len(s))
    <3>1. i \in 1 .. Len(s) /\ w[i] = s[i] /\ j - Len(s) \in 1 .. Len(t) /\ w[j] = t[j - Len(s)]
      BY <1>2, <2>2
    <3>2. w[i] \in Numbers(s) /\ w[j] \in Numbers(t)
      BY <3>1, NumbersAre
    <3> QED
      BY <1>7, <3>2 DEF Before
  <2>3. CASE ~ (i <= Len(s))
    <3>1. ~ (j <= Len(s))
      BY <1>1, <2>0, <2>3
    <3>2. /\ i - Len(s) \in 1 .. Len(t) /\ w[i] = t[i - Len(s)]
          /\ j - Len(s) \in 1 .. Len(t) /\ w[j] = t[j - Len(s)]
      BY <1>2, <2>3, <3>1
    <3>3. i - Len(s) < j - Len(s)
      BY <1>1, <2>0
    <3> QED
      BY <1>7, <3>2, <3>3 DEF Rising
  <2> QED
    BY <2>0, <2>1, <2>2, <2>3
<1> QED
  BY <1>1, <1>4, <1>5, <1>6, <1>7

\* A sequence cut in two: the numbers of the first part are before those of the second.
CutFits(s, n, first, rest) ==
  /\ first \in Seq(Int) /\ rest \in Seq(Int) /\ Len(first) = n /\ Len(rest) = Len(s) - n
  /\ Numbers(s) = Numbers(first) \cup Numbers(rest)
  /\ Before(Numbers(first), Numbers(rest)) /\ Rising(first) /\ Rising(rest)

LEMMA NumbersCut ==
  ASSUME NEW s \in Seq(Int), NEW n \in 0 .. Len(s), Rising(s)
  PROVE  CutFits(s, n, SubSeq(s, 1, n), SubSeq(s, n + 1, Len(s)))
<1> DEFINE first == SubSeq(s, 1, n)
           rest == SubSeq(s, n + 1, Len(s))
<1>1. Len(s) \in Nat /\ n \in Nat /\ n <= Len(s)
  OBVIOUS
<1>2. /\ first \in Seq(Int) /\ Len(first) = n
      /\ \A i \in 1 .. Len(first) : i \in 1 .. Len(s) /\ i <= n /\ first[i] = s[i]
  BY <1>1
<1>3. /\ rest \in Seq(Int) /\ Len(rest) = Len(s) - n
      /\ \A i \in 1 .. Len(rest) : i + n \in 1 .. Len(s) /\ i + n > n /\ rest[i] = s[i + n]
  BY <1>1
<1> SUFFICES CutFits(s, n, first, rest)
  OBVIOUS
<1> HIDE DEF first, rest
<1>4. s = first \o rest
  <2> DEFINE w == first \o rest
  <2>0. first \in Seq(Int) /\ rest \in Seq(Int)
    BY <1>2, <1>3
  <2>1. /\ w \in Seq(Int) /\ Len(w) = Len(first) + Len(rest)
        /\ \A i \in 1 .. Len(w) : w[i] = IF i <= Len(first) THEN first[i] ELSE rest[i - Len(first)]
    BY <2>0, ConcatProperties
  <2>3. Len(w) = Len(s)
    BY <1>1, <1>2, <1>3, <2>1
  <2> SUFFICES s = w
    OBVIOUS
  <2> HIDE DEF w
  <2>2. ASSUME NEW i \in 1 .. Len(s) PROVE w[i] = s[i]
    <3>1. CASE i <= n
      <4>1. i \in 1 .. Len(first)
        BY <1>1, <1>2, <3>1
      <4> QED
        BY <1>1, <1>2, <2>1, <2>3, <3>1, <4>1
    <3>2. CASE ~ (i <= n)
      <4>1. i - n \in 1 .. Len(rest) /\ (i - n) + n = i
        BY <1>1, <1>3, <3>2
      <4>2. w[i] = rest[i - n]
        BY <1>1, <1>2, <2>1, <2>3, <3>2
      <4> QED
        BY <1>3, <4>1, <4>2
    <3> QED
      BY <3>1, <3>2
  <2> QED
    BY <2>1, <2>2, <2>3, SeqEqual
<1>5. Numbers(s) = Numbers(first) \cup Numbers(rest)
  BY <1>2, <1>3, <1>4, NumbersConcat
<1>6. Before(Numbers(first), Numbers(rest))
  <2> SUFFICES ASSUME NEW a \in Numbers(first), NEW b \in Numbers(rest) PROVE a < b
    BY DEF Before
  <2>1. /\ a > 0 /\ \E i \in 1 .. Len(first) : first[i] = a
        /\ b > 0 /\ \E j \in 1 .. Len(rest) : rest[j] = b
    <3>1. a > 0 /\ \E i \in 1 .. Len(first) : first[i] = a
      BY <1>2, NumbersAre
    <3>2. b > 0 /\ \E j \in 1 .. Len(rest) : rest[j] = b
      BY <1>3, NumbersAre
    <3> QED
      BY <3>1, <3>2
  <2>2. PICK i \in 1 .. Len(first) : first[i] = a
    BY <2>1
  <2>3. PICK j \in 1 .. Len(rest) : rest[j] = b
    BY <2>1
  <2>4. i \in 1 .. Len(s) /\ i <= n /\ s[i] = a /\ j + n \in 1 .. Len(s) /\ j + n > n /\ s[j + n] = b
    BY <1>2, <1>3, <2>2, <2>3
  <2>5. i < j + n
    BY <1>1, <2>4
  <2> QED
    BY <2>1, <2>4, <2>5 DEF Rising
<1>7. Rising(first)
  <2> SUFFICES ASSUME NEW i \in 1 .. Len(first), NEW j \in 1 .. Len(first),
                      i < j, first[i] > 0, first[j] > 0
               PROVE  first[i] < first[j]
    BY DEF Rising
  <2>1. i \in 1 .. Len(s) /\ j \in 1 .. Len(s) /\ first[i] = s[i] /\ first[j] = s[j]
    BY <1>2
  <2> QED
    BY <2>1 DEF Rising
<1>8. Rising(rest)
  <2> SUFFICES ASSUME NEW i \in 1 .. Len(rest), NEW j \in 1 .. Len(rest),
                      i < j, rest[i] > 0, rest[j] > 0
               PROVE  rest[i] < rest[j]
    BY DEF Rising
  <2>1. i + n \in 1 .. Len(s) /\ j + n \in 1 .. Len(s) /\ rest[i] = s[i + n] /\ rest[j] = s[j + n]
    BY <1>3
  <2>2. i + n < j + n
    BY <1>1
  <2> QED
    BY <2>1, <2>2 DEF Rising
<1> QED
  BY <1>2, <1>3, <1>5, <1>6, <1>7, <1>8 DEF CutFits

\* What is heard is kept the last block first.
LEMMA HeardGrows ==
  ASSUME NEW s \in Seq(Int), NEW b \in Int
  PROVE  Reverse(<<b>> \o s) = Reverse(s) \o <<b>> /\ Reverse(s) \in Seq(Int)
         /\ Numbers(Reverse(s)) = Numbers(s)
<1>1. Reverse(s) \in Seq(Int) /\ Len(Reverse(s)) = Len(s) /\ Len(s) \in Nat
  BY DEF Reverse
<1>2. \A i \in 1 .. Len(s) : Reverse(s)[i] = s[Len(s) - i + 1] /\ Len(s) - i + 1 \in 1 .. Len(s)
  BY <1>1 DEF Reverse
<1>3. \A i \in 1 .. Len(s) : s[i] = Reverse(s)[Len(s) - i + 1] /\ Len(s) - i + 1 \in 1 .. Len(s)
  <2> SUFFICES ASSUME NEW i \in 1 .. Len(s)
               PROVE  s[i] = Reverse(s)[Len(s) - i + 1] /\ Len(s) - i + 1 \in 1 .. Len(s)
    OBVIOUS
  <2>1. Len(s) - i + 1 \in 1 .. Len(s) /\ Len(s) - (Len(s) - i + 1) + 1 = i
    <3> DEFINE n == Len(s)
    <3>1. n \in Nat /\ i \in 1 .. n
      BY <1>1
    <3> SUFFICES n - i + 1 \in 1 .. n /\ n - (n - i + 1) + 1 = i
      OBVIOUS
    <3> HIDE DEF n
    <3> QED
      BY <3>1
  <2>2. Reverse(s)[Len(s) - i + 1] = s[Len(s) - (Len(s) - i + 1) + 1]
    BY <1>2, <2>1
  <2> QED
    BY <2>1, <2>2
<1>4. Numbers(Reverse(s)) \subseteq Numbers(s)
  <2> SUFFICES ASSUME NEW x \in Numbers(Reverse(s)) PROVE x \in Numbers(s)
    OBVIOUS
  <2>1. x > 0 /\ \E i \in 1 .. Len(Reverse(s)) : Reverse(s)[i] = x
    BY <1>1, NumbersAre
  <2>2. PICK i \in 1 .. Len(s) : Reverse(s)[i] = x
    BY <1>1, <2>1
  <2>3. Len(s) - i + 1 \in 1 .. Len(s) /\ s[Len(s) - i + 1] = x
    BY <1>2, <2>2
  <2> QED
    BY <2>1, <2>3, NumbersAre
<1>5. Numbers(s) \subseteq Numbers(Reverse(s))
  <2> SUFFICES ASSUME NEW x \in Numbers(s) PROVE x \in Numbers(Reverse(s))
    OBVIOUS
  <2>1. x > 0 /\ \E i \in 1 .. Len(s) : s[i] = x
    BY NumbersAre
  <2>2. PICK i \in 1 .. Len(s) : s[i] = x
    BY <2>1
  <2>3. Len(s) - i + 1 \in 1 .. Len(Reverse(s)) /\ Reverse(s)[Len(s) - i + 1] = x
    BY <1>1, <1>3, <2>2
  <2> QED
    BY <1>1, <2>1, <2>3, NumbersAre
<1>6. Reverse(<<b>> \o s) = Reverse(s) \o <<b>>
  <2> DEFINE w == <<b>> \o s
             r == Reverse(s)
             v == r \o <<b>>
  <2>1. w \in Seq(Int) /\ Len(w) = Len(s) + 1 /\ w[1] = b /\ \A i \in 1 .. Len(s) : w[i + 1] = s[i]
    OBVIOUS
  <2>2. v \in Seq(Int) /\ Len(v) = Len(s) + 1 /\ v[Len(s) + 1] = b /\ \A i \in 1 .. Len(s) : v[i] = r[i]
    BY <1>1
  <2> SUFFICES Reverse(w) = v
    OBVIOUS
  <2>3. \A i \in 1 .. Len(s) : r[i] = s[Len(s) - i + 1] /\ Len(s) - i + 1 \in 1 .. Len(s)
    BY <1>2
  <2> HIDE DEF w, v, r
  <2>4. Reverse(w) \in Seq(Int) /\ Len(Reverse(w)) = Len(s) + 1
    BY <1>1, <2>1 DEF Reverse
  <2>5. ASSUME NEW i \in 1 .. Len(s) + 1 PROVE Reverse(w)[i] = v[i]
    <3>1. Reverse(w)[i] = w[Len(s) + 1 - i + 1]
      BY <1>1, <2>1 DEF Reverse
    <3>2. CASE i = Len(s) + 1
      <4>1. Len(s) + 1 - i + 1 = 1
        BY <1>1, <3>2
      <4> QED
        BY <2>1, <2>2, <3>1, <3>2, <4>1
    <3>3. CASE i # Len(s) + 1
      <4>1. i \in 1 .. Len(s) /\ Len(s) + 1 - i + 1 = (Len(s) - i + 1) + 1
        BY <1>1, <3>3
      <4> QED
        BY <2>1, <2>2, <2>3, <3>1, <4>1
    <3> QED
      BY <3>2, <3>3
  <2> QED
    BY <2>2, <2>4, <2>5, SeqEqual
<1> QED
  BY <1>1, <1>4, <1>5, <1>6

\* The queue gives up its first block.
LEMMA HeadThenTail ==
  ASSUME NEW s \in Seq(Int), s # <<>>, Rising(s)
  PROVE  Head(s) \in Int /\ CutFits(s, 1, <<Head(s)>>, Tail(s))
<1>1. Len(s) \in Nat /\ Len(s) > 0 /\ Head(s) \in Int
  OBVIOUS
<1>2. SubSeq(s, 1, 1) = <<Head(s)>>
  <2> DEFINE t == <<Head(s)>>
             r == SubSeq(s, 1, 1)
  <2>1. t \in Seq(Int) /\ Len(t) = 1 /\ t[1] = s[1]
    BY <1>1
  <2>2. r \in Seq(Int) /\ Len(r) = 1 /\ r[1] = s[1]
    BY <1>1
  <2> SUFFICES r = t
    OBVIOUS
  <2> HIDE DEF t, r
  <2>3. \A i \in 1 .. Len(r) : r[i] = t[i]
    BY <2>1, <2>2
  <2> QED
    BY <2>1, <2>2, <2>3, SeqEqual
<1>3. SubSeq(s, 1 + 1, Len(s)) = Tail(s)
  <2>1. 1 + 1 = 2 /\ s \in Seq(Int) /\ s # <<>>
    OBVIOUS
  <2> QED
    BY <2>1, TailIsSubSeq
<1>4. CutFits(s, 1, SubSeq(s, 1, 1), SubSeq(s, 1 + 1, Len(s)))
  BY <1>1, NumbersCut
<1> QED
  BY <1>1, <1>2, <1>3, <1>4

-----------------------------------------------------------------------------
(* The two blocks of each half fragment *)

TwoOf(h) == {b \in Nat : \E i \in 1 .. Len(h) : b = 2 * h[i] \/ b = 2 * h[i] - 1}

LEMMA HalfOf ==
  ASSUME NEW n \in Nat, NEW b \in 1 .. 2 * n
  PROVE  (b + 1) \div 2 \in 1 .. n /\ b % 2 \in {0, 1} /\ b = 2 * ((b + 1) \div 2) - (b % 2)
OBVIOUS

LEMMA BlocksAre ==
  ASSUME NEW m \in Nat, NEW h, Halves(h, m)
  PROVE  /\ Blocks(h) \in Seq(Int) /\ Numbers(Blocks(h)) = TwoOf(h) /\ Rising(Blocks(h))
         /\ TwoOf(h) \subseteq 1 .. 2 * m
<1> DEFINE B == Blocks(h)
           At2(b) == (b + 1) \div 2
<1>0. h \in Seq(Nat) /\ Len(h) \in Nat /\ \A i \in 1 .. Len(h) : h[i] \in Nat /\ h[i] > 0 /\ h[i] <= m
  BY DEF Halves
<1>1. \A b \in 1 .. 2 * Len(h) : At2(b) \in 1 .. Len(h) /\ b % 2 \in {0, 1} /\ b = 2 * At2(b) - (b % 2)
  BY <1>0, HalfOf
<1>2. /\ B \in Seq(Int) /\ Len(B) = 2 * Len(h)
      /\ \A b \in 1 .. 2 * Len(h) : B[b] = 2 * h[At2(b)] - (b % 2)
  <2>1. \A b \in 1 .. 2 * Len(h) : 2 * h[At2(b)] - (b % 2) \in Int
    BY <1>0, <1>1
  <2> QED
    BY <1>0, <2>1 DEF Blocks
<1>3. \A i \in 1 .. Len(h) : /\ 2 * i \in 1 .. 2 * Len(h) /\ At2(2 * i) = i /\ (2 * i) % 2 = 0
                             /\ 2 * i - 1 \in 1 .. 2 * Len(h) /\ At2(2 * i - 1) = i /\ (2 * i - 1) % 2 = 1
  BY <1>0
<1>4. \A i \in 1 .. Len(h) : /\ 2 * i \in 1 .. Len(B) /\ B[2 * i] = 2 * h[i]
                             /\ 2 * i - 1 \in 1 .. Len(B) /\ B[2 * i - 1] = 2 * h[i] - 1
  <2> SUFFICES ASSUME NEW i \in 1 .. Len(h)
               PROVE  /\ 2 * i \in 1 .. Len(B) /\ B[2 * i] = 2 * h[i]
                      /\ 2 * i - 1 \in 1 .. Len(B) /\ B[2 * i - 1] = 2 * h[i] - 1
    OBVIOUS
  <2>1. B[2 * i] = 2 * h[At2(2 * i)] - ((2 * i) % 2) /\ B[2 * i - 1] = 2 * h[At2(2 * i - 1)] - ((2 * i - 1) % 2)
    BY <1>2, <1>3
  <2>2. B[2 * i] = 2 * h[i] - 0 /\ B[2 * i - 1] = 2 * h[i] - 1
    BY <1>3, <2>1
  <2>3. h[i] \in Nat /\ 2 * i \in 1 .. Len(B) /\ 2 * i - 1 \in 1 .. Len(B)
    BY <1>0, <1>2, <1>3
  <2> QED
    BY <2>2, <2>3
<1>5. \A b \in 1 .. Len(B) : \E i \in 1 .. Len(h) : B[b] = 2 * h[i] \/ B[b] = 2 * h[i] - 1
  <2> SUFFICES ASSUME NEW b \in 1 .. Len(B)
               PROVE  \E i \in 1 .. Len(h) : B[b] = 2 * h[i] \/ B[b] = 2 * h[i] - 1
    OBVIOUS
  <2>1. At2(b) \in 1 .. Len(h) /\ B[b] = 2 * h[At2(b)] - (b % 2) /\ b % 2 \in {0, 1}
    BY <1>1, <1>2
  <2> HIDE DEF At2
  <2>2. h[At2(b)] \in Nat
    BY <1>0, <2>1
  <2> QED
    BY <2>1, <2>2
<1> SUFFICES B \in Seq(Int) /\ Numbers(B) = TwoOf(h) /\ Rising(B) /\ TwoOf(h) \subseteq 1 .. 2 * m
  OBVIOUS
<1> HIDE DEF B
<1>6. TwoOf(h) \subseteq Numbers(B)
  <2> SUFFICES ASSUME NEW b \in TwoOf(h) PROVE b \in Numbers(B)
    OBVIOUS
  <2>1. PICK i \in 1 .. Len(h) : b = 2 * h[i] \/ b = 2 * h[i] - 1
    BY DEF TwoOf
  <2>2. b \in Int /\ b > 0
    BY <1>0, <2>1
  <2>3. PICK c \in 1 .. Len(B) : B[c] = b
    BY <1>4, <2>1
  <2> QED
    BY <1>2, <2>2, <2>3, NumbersAre
<1>7. Numbers(B) \subseteq TwoOf(h)
  <2> SUFFICES ASSUME NEW x \in Numbers(B) PROVE x \in TwoOf(h)
    OBVIOUS
  <2>1. x \in Nat /\ \E b \in 1 .. Len(B) : B[b] = x
    BY <1>2, NumbersAre
  <2> QED
    BY <1>5, <2>1 DEF TwoOf
<1>8. Rising(B)
  <2> SUFFICES ASSUME NEW b \in 1 .. Len(B), NEW c \in 1 .. Len(B), b < c PROVE B[b] < B[c]
    BY DEF Rising
  <2>1. /\ At2(b) \in 1 .. Len(h) /\ B[b] = 2 * h[At2(b)] - (b % 2) /\ b % 2 \in {0, 1}
        /\ At2(c) \in 1 .. Len(h) /\ B[c] = 2 * h[At2(c)] - (c % 2) /\ c % 2 \in {0, 1}
    BY <1>1, <1>2
  <2>2. b = 2 * At2(b) - (b % 2) /\ c = 2 * At2(c) - (c % 2)
    BY <1>1, <1>2
  <2>3. b \in Nat /\ c \in Nat
    BY <1>0, <1>2
  <2> HIDE DEF At2
  <2> DEFINE u == b % 2
             v == c % 2
  <2>4. /\ At2(b) \in 1 .. Len(h) /\ B[b] = 2 * h[At2(b)] - u /\ u \in {0, 1} /\ b = 2 * At2(b) - u
        /\ At2(c) \in 1 .. Len(h) /\ B[c] = 2 * h[At2(c)] - v /\ v \in {0, 1} /\ c = 2 * At2(c) - v
    BY <2>1, <2>2
  <2> HIDE DEF u, v
  <2> DEFINE p == At2(b)
             q == At2(c)
  <2>5. /\ p \in 1 .. Len(h) /\ B[b] = 2 * h[p] - u /\ b = 2 * p - u
        /\ q \in 1 .. Len(h) /\ B[c] = 2 * h[q] - v /\ c = 2 * q - v
    BY <2>4
  <2> HIDE DEF p, q
  <2>6. p \in Int /\ q \in Int /\ h[p] \in Nat /\ h[q] \in Nat /\ u \in {0, 1} /\ v \in {0, 1}
    <3>1. h[p] \in Nat /\ h[q] \in Nat
      BY <1>0, <2>5
    <3>2. p \in Int /\ q \in Int
      BY <1>0, <2>5
    <3> QED
      BY <2>4, <3>1, <3>2
  <2>7. CASE p = q
    BY <2>5, <2>6, <2>7
  <2>8. CASE p # q
    <3>1. p < q
      BY <2>5, <2>6, <2>8
    <3>2. h[p] < h[q]
      BY <2>5, <3>1 DEF Halves
    <3> DEFINE x == h[p]
               y == h[q]
    <3>3. x \in Nat /\ y \in Nat /\ x < y /\ B[b] = 2 * x - u /\ B[c] = 2 * y - v
      BY <2>5, <2>6, <3>2
    <3> HIDE DEF x, y
    <3> QED
      BY <2>6, <3>3
  <2> QED
    BY <2>7, <2>8
<1>9. TwoOf(h) \subseteq 1 .. 2 * m
  BY <1>0 DEF TwoOf
<1> QED
  BY <1>2, <1>6, <1>7, <1>8, <1>9

\* Fragments are taken from the front of the buffer.
TakenFits(h, m, first, rest) ==
  /\ Halves(first, m) /\ Halves(rest, m)
  /\ Numbers(Blocks(h)) = Numbers(Blocks(first)) \cup Numbers(Blocks(rest))
  /\ Before(Numbers(Blocks(first)), Numbers(Blocks(rest)))

LEMMA BlocksTaken ==
  ASSUME NEW m \in Nat, NEW h, Halves(h, m), NEW n \in 0 .. Len(h)
  PROVE  /\ TakenFits(h, m, SubSeq(h, 1, n), SubSeq(h, n + 1, Len(h)))
         /\ Len(SubSeq(h, 1, n)) = n /\ Len(SubSeq(h, n + 1, Len(h))) = Len(h) - n
<1> DEFINE first == SubSeq(h, 1, n)
           rest == SubSeq(h, n + 1, Len(h))
<1>0. /\ h \in Seq(Nat) /\ Len(h) \in Nat /\ n \in Nat /\ n <= Len(h)
      /\ \A i \in 1 .. Len(h) : h[i] \in 1 .. m
  BY DEF Halves
<1>1. first \in Seq(Nat) /\ Len(first) = n /\ \A i \in 1 .. n : first[i] = h[i]
  BY <1>0
<1>2. rest \in Seq(Nat) /\ Len(rest) = Len(h) - n /\ \A i \in 1 .. Len(h) - n : rest[i] = h[i + n]
  BY <1>0
<1> SUFFICES TakenFits(h, m, first, rest) /\ Len(first) = n /\ Len(rest) = Len(h) - n
  OBVIOUS
<1> HIDE DEF first, rest
<1>3. /\ \A i \in 1 .. n : i \in 1 .. Len(h) /\ i <= n
      /\ \A i \in 1 .. Len(h) - n : i + n \in 1 .. Len(h) /\ i + n > n
  BY <1>0
<1>4. Halves(first, m)
  BY <1>0, <1>1, <1>3 DEF Halves
<1>5. Halves(rest, m)
  <2>1. \A i \in 1 .. Len(rest) : rest[i] \in 1 .. m
    BY <1>0, <1>2, <1>3
  <2>2. ASSUME NEW i \in 1 .. Len(rest), NEW j \in 1 .. Len(rest), i < j PROVE rest[i] < rest[j]
    <3>1. i + n \in 1 .. Len(h) /\ j + n \in 1 .. Len(h) /\ i + n < j + n
      BY <1>0, <1>2, <1>3, <2>2
    <3>2. rest[i] = h[i + n] /\ rest[j] = h[j + n]
      BY <1>2
    <3> QED
      BY <3>1, <3>2 DEF Halves
  <2> QED
    BY <1>2, <2>1, <2>2 DEF Halves
<1>6. /\ Numbers(Blocks(h)) = TwoOf(h) /\ Numbers(Blocks(first)) = TwoOf(first)
      /\ Numbers(Blocks(rest)) = TwoOf(rest)
  BY <1>4, <1>5, BlocksAre
<1>7. TwoOf(h) \subseteq TwoOf(first) \cup TwoOf(rest)
  <2> SUFFICES ASSUME NEW b \in TwoOf(h) PROVE b \in TwoOf(first) \cup TwoOf(rest)
    OBVIOUS
  <2>1. PICK i \in 1 .. Len(h) : b = 2 * h[i] \/ b = 2 * h[i] - 1
    BY DEF TwoOf
  <2>2. b \in Nat
    BY DEF TwoOf
  <2>3. CASE i <= n
    <3>1. i \in 1 .. Len(first) /\ first[i] = h[i]
      BY <1>0, <1>1, <2>3
    <3> QED
      BY <2>1, <2>2, <3>1 DEF TwoOf
  <2>4. CASE ~ (i <= n)
    <3>1. i - n \in 1 .. Len(rest) /\ (i - n) + n = i
      BY <1>0, <1>2, <2>4
    <3>2. rest[i - n] = h[i]
      BY <1>2, <3>1
    <3> QED
      BY <2>1, <2>2, <3>1, <3>2 DEF TwoOf
  <2> QED
    BY <2>3, <2>4
<1>8. TwoOf(first) \cup TwoOf(rest) \subseteq TwoOf(h)
  <2>1. TwoOf(first) \subseteq TwoOf(h)
    BY <1>1, <1>3 DEF TwoOf
  <2>2. TwoOf(rest) \subseteq TwoOf(h)
    BY <1>2, <1>3 DEF TwoOf
  <2> QED
    BY <2>1, <2>2
<1>9. Before(TwoOf(first), TwoOf(rest))
  <2> SUFFICES ASSUME NEW a \in TwoOf(first), NEW b \in TwoOf(rest) PROVE a < b
    BY DEF Before
  <2>1. PICK i \in 1 .. Len(first) : a = 2 * first[i] \/ a = 2 * first[i] - 1
    BY DEF TwoOf
  <2>2. PICK j \in 1 .. Len(rest) : b = 2 * rest[j] \/ b = 2 * rest[j] - 1
    BY DEF TwoOf
  <2>3. i \in 1 .. Len(h) /\ j + n \in 1 .. Len(h) /\ i < j + n /\ first[i] = h[i] /\ rest[j] = h[j + n]
    <3>1. i \in 1 .. n /\ j \in 1 .. Len(h) - n
      BY <1>1, <1>2
    <3>2. i \in 1 .. Len(h) /\ j + n \in 1 .. Len(h) /\ i <= n /\ j + n > n
      BY <1>3, <3>1
    <3>3. first[i] = h[i] /\ rest[j] = h[j + n]
      BY <1>1, <1>2, <3>1
    <3>4. i < j + n
      BY <1>0, <3>1, <3>2
    <3> QED
      BY <3>2, <3>3, <3>4
  <2>4. h[i] < h[j + n]
    BY <2>3 DEF Halves
  <2>5. h[i] \in Nat /\ h[j + n] \in Nat
    <3>1. h[i] \in 1 .. m /\ h[j + n] \in 1 .. m
      BY <1>0, <2>3
    <3> QED
      BY <3>1
  <2> QED
    BY <2>1, <2>2, <2>3, <2>4, <2>5
<1> QED
  BY <1>1, <1>2, <1>4, <1>5, <1>6, <1>7, <1>8, <1>9 DEF TakenFits

\* New half fragments follow all that were made.
LEMMA BlocksMade ==
  ASSUME NEW m \in Nat, NEW h, Halves(h, m), NEW k \in Nat
  PROVE  /\ Halves(h \o [i \in 1 .. k |-> m + i], m + k)
         /\ Len(h \o [i \in 1 .. k |-> m + i]) = Len(h) + k
         /\ Numbers(Blocks(h \o [i \in 1 .. k |-> m + i]))
              = Numbers(Blocks(h)) \cup (2 * m + 1) .. 2 * (m + k)
<1> DEFINE new == [i \in 1 .. k |-> m + i]
           w == h \o new
<1>0. /\ h \in Seq(Nat) /\ Len(h) \in Nat
      /\ \A i \in 1 .. Len(h) : h[i] \in Nat /\ h[i] > 0 /\ h[i] <= m
  BY DEF Halves
<1>1. new \in Seq(Nat) /\ Len(new) = k /\ \A i \in 1 .. k : new[i] = m + i
  OBVIOUS
<1> HIDE DEF new
<1>2. /\ w \in Seq(Nat) /\ Len(w) = Len(h) + Len(new)
      /\ \A i \in 1 .. Len(w) : w[i] = IF i <= Len(h) THEN h[i] ELSE new[i - Len(h)]
  <2>1. h \in Seq(Nat) /\ new \in Seq(Nat)
    BY <1>0, <1>1
  <2> QED
    BY <2>1, ConcatProperties
<1> SUFFICES /\ Halves(w, m + k) /\ Len(w) = Len(h) + k
             /\ Numbers(Blocks(w)) = Numbers(Blocks(h)) \cup (2 * m + 1) .. 2 * (m + k)
  BY DEF new
<1> HIDE DEF w
<1>3. \A i \in 1 .. Len(w) : i <= Len(h) => i \in 1 .. Len(h) /\ w[i] = h[i]
  BY <1>0, <1>2
<1>4. \A i \in 1 .. Len(w) : ~ (i <= Len(h)) => i - Len(h) \in 1 .. k /\ w[i] = m + (i - Len(h))
  BY <1>0, <1>1, <1>2
<1>5. Halves(w, m + k)
  <2>1. \A i \in 1 .. Len(w) : w[i] \in 1 .. m + k
    BY <1>0, <1>3, <1>4
  <2>2. ASSUME NEW i \in 1 .. Len(w), NEW j \in 1 .. Len(w), i < j PROVE w[i] < w[j]
    <3>0. i \in Nat /\ j \in Nat
      BY <1>0, <1>1, <1>2
    <3>1. CASE j <= Len(h)
      <4>1. i \in 1 .. Len(h) /\ w[i] = h[i] /\ j \in 1 .. Len(h) /\ w[j] = h[j]
        BY <1>0, <1>3, <2>2, <3>0, <3>1
      <4> QED
        BY <2>2, <4>1 DEF Halves
    <3>2. CASE ~ (j <= Len(h)) /\ i <= Len(h)
      <4>1. i \in 1 .. Len(h) /\ w[i] = h[i] /\ j - Len(h) \in 1 .. k /\ w[j] = m + (j - Len(h))
        BY <1>3, <1>4, <3>2
      <4> QED
        BY <1>0, <3>0, <4>1
    <3>3. CASE ~ (i <= Len(h))
      <4>1. ~ (j <= Len(h))
        BY <1>0, <2>2, <3>0, <3>3
      <4>2. w[i] = m + (i - Len(h)) /\ w[j] = m + (j - Len(h))
        BY <1>4, <3>3, <4>1
      <4> QED
        BY <1>0, <2>2, <3>0, <4>2
    <3> QED
      BY <3>1, <3>2, <3>3
  <2> QED
    BY <1>2, <2>1, <2>2 DEF Halves
<1>6. Numbers(Blocks(h)) = TwoOf(h) /\ Numbers(Blocks(w)) = TwoOf(w)
  <2>1. m + k \in Nat
    OBVIOUS
  <2> QED
    BY <1>5, <2>1, BlocksAre
<1>7. TwoOf(w) \subseteq TwoOf(h) \cup (2 * m + 1) .. 2 * (m + k)
  <2> SUFFICES ASSUME NEW b \in TwoOf(w) PROVE b \in TwoOf(h) \cup (2 * m + 1) .. 2 * (m + k)
    OBVIOUS
  <2>1. PICK i \in 1 .. Len(w) : b = 2 * w[i] \/ b = 2 * w[i] - 1
    BY DEF TwoOf
  <2>2. b \in Nat
    BY DEF TwoOf
  <2>3. CASE i <= Len(h)
    BY <1>3, <2>1, <2>2, <2>3 DEF TwoOf
  <2>4. CASE ~ (i <= Len(h))
    <3>1. i - Len(h) \in 1 .. k /\ w[i] = m + (i - Len(h))
      BY <1>4, <2>4
    <3> DEFINE x == i - Len(h)
    <3>2. x \in 1 .. k /\ w[i] = m + x
      BY <3>1
    <3> HIDE DEF x
    <3> QED
      BY <2>1, <2>2, <3>2
  <2> QED
    BY <2>3, <2>4
<1>8. TwoOf(h) \subseteq TwoOf(w)
  <2>1. \A i \in 1 .. Len(h) : i \in 1 .. Len(w) /\ w[i] = h[i]
    BY <1>0, <1>1, <1>2
  <2> QED
    BY <2>1 DEF TwoOf
<1>9. (2 * m + 1) .. 2 * (m + k) \subseteq TwoOf(w)
  <2> SUFFICES ASSUME NEW b \in (2 * m + 1) .. 2 * (m + k) PROVE b \in TwoOf(w)
    OBVIOUS
  <2> DEFINE x == (b + 1) \div 2 - m
  <2>1. x \in 1 .. k /\ (b = 2 * (m + x) \/ b = 2 * (m + x) - 1) /\ b \in Nat
    OBVIOUS
  <2> HIDE DEF x
  <2>2. Len(h) + x \in 1 .. Len(w) /\ ~ (Len(h) + x <= Len(h)) /\ (Len(h) + x) - Len(h) = x
    BY <1>0, <1>1, <1>2, <2>1
  <2>3. w[Len(h) + x] = m + x
    BY <1>4, <2>2
  <2> QED
    BY <2>1, <2>2, <2>3 DEF TwoOf
<1> QED
  BY <1>1, <1>2, <1>5, <1>6, <1>7, <1>8, <1>9

-----------------------------------------------------------------------------
(* What is still to be done *)

LEMMA TailGood ==
  ASSUME NEW s, GoodSteps(s), s # <<>>
  PROVE  /\ Head(s) \in AllSteps /\ GoodSteps(Tail(s))
         /\ Tail(s) # <<>> => MayFollow(Head(s), Head(Tail(s))) /\ Head(Tail(s)) \in AllSteps
         /\ Tail(s) = <<>> => Head(s) \notin {"fill", "error"}
<1> DEFINE t == Tail(s)
<1>1. s \in Seq(AllSteps) /\ Len(s) \in Nat /\ Len(s) > 0 /\ Head(s) = s[1] /\ Head(s) \in AllSteps
  BY DEF GoodSteps
<1>2. t \in Seq(AllSteps) /\ Len(t) = Len(s) - 1 /\ \A i \in 1 .. Len(s) - 1 : t[i] = s[i + 1]
  BY <1>1
<1>3. t # <<>> => Head(t) = t[1] /\ Len(t) > 0
  BY <1>2
<1>4. t = <<>> => Len(t) = 0
  OBVIOUS
<1> SUFFICES /\ GoodSteps(t)
             /\ t # <<>> => MayFollow(Head(s), Head(t)) /\ Head(t) \in AllSteps
             /\ t = <<>> => Head(s) \notin {"fill", "error"}
  BY <1>1
<1> HIDE DEF t
<1>5. ASSUME t # <<>> PROVE MayFollow(Head(s), Head(t)) /\ Head(t) \in AllSteps
  <2>1. 1 \in 1 .. Len(s) - 1 /\ t[1] = s[1 + 1] /\ Len(t) > 0
    BY <1>1, <1>2, <1>3, <1>5
  <2>2. MayFollow(s[1], s[1 + 1])
    BY <2>1 DEF GoodSteps
  <2>3. t[1] \in AllSteps
    BY <1>1, <1>2, <2>1
  <2> QED
    BY <1>1, <1>3, <1>5, <2>1, <2>2, <2>3
<1>6. ASSUME t = <<>> PROVE Head(s) \notin {"fill", "error"}
  <2>1. Len(s) = 1
    BY <1>1, <1>2, <1>4, <1>6
  <2> QED
    BY <1>1, <2>1 DEF GoodSteps
<1>7. ASSUME NEW i \in 1 .. Len(t) - 1 PROVE MayFollow(t[i], t[i + 1])
  <2>1. i + 1 \in 1 .. Len(s) - 1 /\ t[i] = s[i + 1] /\ t[i + 1] = s[(i + 1) + 1]
    BY <1>1, <1>2
  <2> QED
    BY <2>1 DEF GoodSteps
<1>8. ASSUME t # <<>> PROVE t[Len(t)] \notin {"fill", "error"}
  <2>1. Len(t) \in 1 .. Len(s) - 1 /\ Len(t) + 1 = Len(s)
    BY <1>1, <1>2, <1>3, <1>8
  <2>2. t[Len(t)] = s[Len(s)]
    BY <1>2, <2>1
  <2> QED
    BY <1>1, <2>2 DEF GoodSteps
<1> QED
  BY <1>2, <1>5, <1>6, <1>7, <1>8 DEF GoodSteps

LEMMA ConsGood ==
  ASSUME NEW t, GoodSteps(t), NEW a \in AllSteps,
         t # <<>> => MayFollow(a, Head(t)), t = <<>> => a \notin {"fill", "error"}
  PROVE  /\ GoodSteps(<<a>> \o t)
         /\ <<a>> \o t # <<>> /\ Head(<<a>> \o t) = a /\ Tail(<<a>> \o t) = t
<1> DEFINE s == <<a>> \o t
<1>1. t \in Seq(AllSteps) /\ Len(t) \in Nat
  BY DEF GoodSteps
<1>2. s \in Seq(AllSteps) /\ Len(s) = Len(t) + 1 /\ s[1] = a /\ \A i \in 1 .. Len(t) : s[i + 1] = t[i]
  BY <1>1
<1>3. s # <<>> /\ Head(s) = a
  BY <1>1, <1>2
<1>4. Tail(s) = t
  <2> DEFINE u == Tail(s)
  <2>1. u \in Seq(AllSteps) /\ Len(u) = Len(t) /\ \A i \in 1 .. Len(t) : u[i] = s[i + 1]
    BY <1>1, <1>2, <1>3, HeadTailProperties
  <2> SUFFICES u = t
    OBVIOUS
  <2> HIDE DEF u, s
  <2>2. \A i \in 1 .. Len(u) : u[i] = t[i]
    BY <1>2, <2>1
  <2> QED
    BY <1>1, <2>1, <2>2, SeqEqual
<1> SUFFICES GoodSteps(s)
  BY <1>3, <1>4
<1> HIDE DEF s
<1>5. t # <<>> => Head(t) = t[1] /\ Len(t) > 0
  BY <1>1
<1>6. t = <<>> => Len(t) = 0
  OBVIOUS
<1>7. ASSUME NEW i \in 1 .. Len(s) - 1 PROVE MayFollow(s[i], s[i + 1])
  <2>0. i \in Nat /\ i \in 1 .. Len(t) /\ Len(t) > 0
    BY <1>1, <1>2
  <2>1. CASE i = 1
    <3>1. t # <<>> /\ s[i] = a /\ s[i + 1] = t[1]
      BY <1>2, <1>6, <2>0, <2>1
    <3> QED
      BY <1>5, <3>1
  <2>2. CASE i # 1
    <3>1. i - 1 \in 1 .. Len(t) - 1 /\ i - 1 \in 1 .. Len(t) /\ (i - 1) + 1 = i
      BY <1>1, <2>0, <2>2
    <3>2. s[i] = t[i - 1] /\ s[i + 1] = t[(i - 1) + 1]
      BY <1>2, <2>0, <3>1
    <3> QED
      BY <3>1, <3>2 DEF GoodSteps
  <2> QED
    BY <2>1, <2>2
<1>8. s[Len(s)] \notin {"fill", "error"}
  <2>1. CASE t = <<>>
    BY <1>2, <1>6, <2>1
  <2>2. CASE t # <<>>
    <3>1. Len(t) \in 1 .. Len(t) /\ s[Len(s)] = t[Len(t)]
      BY <1>1, <1>2, <1>5, <2>2
    <3> QED
      BY <2>2, <3>1 DEF GoodSteps
  <2> QED
    BY <2>1, <2>2
<1> QED
  BY <1>2, <1>7, <1>8 DEF GoodSteps

\* A step is done, or gives way to others that what follows may follow.
LEMMA NoneLeft ==
  ASSUME StepsFit, steps # <<>>, Do(<<>>)
  PROVE  /\ StepsFit' /\ (Todo' = "nothing" \/ (Todo' \in AllSteps /\ MayFollow(Todo, Todo')))
         /\ Tail(steps) # <<>> => Todo' # "nothing"
         /\ Tail(steps) = <<>> => Todo' = "nothing"
         /\ Todo \in {"fill", "error"} => Todo' # "nothing"
<1>1. steps' = Tail(steps)
  <2>1. Tail(steps) \in Seq(AllSteps)
    BY TailGood DEF StepsFit, GoodSteps
  <2> QED
    BY <2>1 DEF Do
<1>2. /\ GoodSteps(Tail(steps))
      /\ Tail(steps) = <<>> => Head(steps) \notin {"fill", "error"}
      /\ Tail(steps) # <<>> => MayFollow(Head(steps), Head(Tail(steps))) /\ Head(Tail(steps)) \in AllSteps
  BY TailGood DEF StepsFit
<1>3. "nothing" \notin AllSteps
  BY DEF AllSteps
<1>6. StepsFit' /\ Todo = Head(steps)
  BY <1>1, <1>2 DEF StepsFit, Todo
<1>4. CASE Tail(steps) = <<>>
  <2>1. Todo' = "nothing" /\ Todo \notin {"fill", "error"}
    BY <1>1, <1>2, <1>4, <1>6 DEF Todo
  <2> QED
    BY <1>4, <1>6, <2>1
<1>5. CASE Tail(steps) # <<>>
  <2>1. Todo' = Head(Tail(steps))
    BY <1>1, <1>5 DEF Todo
  <2>2. Todo' \in AllSteps /\ MayFollow(Todo, Todo') /\ Todo' # "nothing"
    BY <1>2, <1>3, <1>5, <1>6, <2>1
  <2> QED
    BY <1>5, <1>6, <2>2
<1> QED
  BY <1>4, <1>5

LEMMA OneLeft ==
  ASSUME StepsFit, steps # <<>>, NEW a \in AllSteps \ {"fill", "error"}, Do(<<a>>),
         \A x \in AllSteps : MayFollow(Todo, x) => MayFollow(a, x)
  PROVE  StepsFit' /\ Todo' = a /\ Tail(steps') = Tail(steps)
<1>1. steps' = <<a>> \o Tail(steps)
  BY DEF Do
<1>2. /\ GoodSteps(Tail(steps))
      /\ Tail(steps) # <<>> => MayFollow(a, Head(Tail(steps)))
  BY TailGood DEF StepsFit, Todo
<1>3. GoodSteps(steps') /\ steps' # <<>> /\ Head(steps') = a /\ Tail(steps') = Tail(steps)
  BY <1>1, <1>2, ConsGood
<1> QED
  BY <1>3 DEF StepsFit, Todo

LEMMA TwoLeft ==
  ASSUME StepsFit, steps # <<>>, NEW a \in AllSteps, NEW b \in AllSteps \ {"fill", "error"}, Do(<<a, b>>),
         MayFollow(a, b), \A x \in AllSteps : MayFollow(Todo, x) => MayFollow(b, x)
  PROVE  StepsFit' /\ Todo' = a
<1>1. Tail(steps) \in Seq(AllSteps)
  BY TailGood DEF StepsFit, GoodSteps
<1>2. steps' = <<a>> \o (<<b>> \o Tail(steps))
  <2> DEFINE u == <<a>>
             v == <<b>>
             uv == <<a, b>>
             t == Tail(steps)
  <2>1. u \in Seq(AllSteps) /\ v \in Seq(AllSteps) /\ Len(u) = 1 /\ Len(v) = 1 /\ u[1] = a /\ v[1] = b
    OBVIOUS
  <2>2. uv \in Seq(AllSteps) /\ Len(uv) = 2 /\ uv[1] = a /\ uv[2] = b
    OBVIOUS
  <2>3. steps' = uv \o t
    BY DEF Do
  <2> SUFFICES steps' = u \o (v \o t)
    OBVIOUS
  <2> HIDE DEF u, v, uv, t
  <2>4. u \o v = uv
    <3>1. u \o v \in Seq(AllSteps) /\ Len(u \o v) = 2 /\ (u \o v)[1] = a /\ (u \o v)[2] = b
      <4>1. /\ u \o v \in Seq(AllSteps) /\ Len(u \o v) = Len(u) + Len(v)
            /\ \A i \in 1 .. Len(u) + Len(v) : (u \o v)[i] = IF i <= Len(u) THEN u[i] ELSE v[i - Len(u)]
        BY <2>1, ConcatProperties
      <4>2. 1 \in 1 .. Len(u) + Len(v) /\ 2 \in 1 .. Len(u) + Len(v) /\ 2 - 1 = 1 /\ ~ (2 <= 1) /\ 1 <= 1
        BY <2>1
      <4> QED
        BY <2>1, <4>1, <4>2
    <3>2. \A i \in 1 .. Len(u \o v) : i = 1 \/ i = 2
      BY <3>1
    <3> QED
      BY <2>2, <3>1, <3>2, SeqEqual
  <2>5. (u \o v) \o t = u \o (v \o t)
    <3>1. t \in Seq(AllSteps)
      BY <1>1 DEF t
    <3> QED
      BY ONLY <2>1, <3>1, ConcatAssociative
  <2> QED
    BY <2>3, <2>4, <2>5
<1>3. /\ GoodSteps(Tail(steps))
      /\ Tail(steps) # <<>> => MayFollow(b, Head(Tail(steps)))
  BY TailGood DEF StepsFit, Todo
<1>4. GoodSteps(<<b>> \o Tail(steps)) /\ Head(<<b>> \o Tail(steps)) = b /\ <<b>> \o Tail(steps) # <<>>
  BY <1>3, ConsGood
<1>5. GoodSteps(steps') /\ steps' # <<>> /\ Head(steps') = a
  BY <1>2, <1>4, ConsGood
<1> QED
  BY <1>5 DEF StepsFit, Todo

\* What a call leaves to do when nothing was.
LEMMA CallsLeave ==
  /\ GoodSteps(<<>>)
  /\ \A a \in AllSteps \ {"fill", "error"} :
       GoodSteps(<<a>>) /\ <<a>> # <<>> /\ Head(<<a>>) = a /\ Tail(<<a>>) = <<>>
  /\ \A a \in AllSteps : \A b \in AllSteps \ {"fill", "error"} :
       MayFollow(a, b) => GoodSteps(<<a, b>>) /\ <<a, b>> # <<>> /\ Head(<<a, b>>) = a
  /\ GoodSteps(<<"close", "run", "sid">>) /\ Head(<<"close", "run", "sid">>) = "close"
  /\ <<"close", "run", "sid">> # <<>>
<1>1. GoodSteps(<<>>)
  BY DEF GoodSteps
<1>2. ASSUME NEW a \in AllSteps \ {"fill", "error"}
      PROVE  GoodSteps(<<a>>) /\ <<a>> # <<>> /\ Head(<<a>>) = a /\ Tail(<<a>>) = <<>>
  BY DEF GoodSteps
<1>3. ASSUME NEW a \in AllSteps, NEW b \in AllSteps \ {"fill", "error"}, MayFollow(a, b)
      PROVE  GoodSteps(<<a, b>>) /\ <<a, b>> # <<>> /\ Head(<<a, b>>) = a
  <2> DEFINE s == <<a, b>>
  <2>1. s \in Seq(AllSteps) /\ Len(s) = 2 /\ s[1] = a /\ s[2] = b
    OBVIOUS
  <2> SUFFICES GoodSteps(s) /\ s # <<>> /\ Head(s) = a
    OBVIOUS
  <2> HIDE DEF s
  <2>2. \A i \in 1 .. Len(s) - 1 : i = 1 /\ i + 1 = 2
    BY <2>1
  <2>3. \A i \in 1 .. Len(s) - 1 : MayFollow(s[i], s[i + 1])
    BY <1>3, <2>1, <2>2
  <2> QED
    BY <2>1, <2>3 DEF GoodSteps
<1>4. /\ GoodSteps(<<"close", "run", "sid">>) /\ Head(<<"close", "run", "sid">>) = "close"
      /\ <<"close", "run", "sid">> # <<>>
  <2> DEFINE s == <<"close", "run", "sid">>
  <2>1. s \in Seq(AllSteps) /\ Len(s) = 3 /\ s[1] = "close" /\ s[2] = "run" /\ s[3] = "sid"
    BY DEF AllSteps
  <2> SUFFICES GoodSteps(s) /\ Head(s) = "close" /\ s # <<>>
    OBVIOUS
  <2> HIDE DEF s
  <2>2. \A i \in 1 .. Len(s) - 1 : (i = 1 /\ i + 1 = 2) \/ (i = 2 /\ i + 1 = 3)
    BY <2>1
  <2>3. MayFollow("close", "run") /\ MayFollow("run", "sid")
    BY DEF MayFollow
  <2>4. \A i \in 1 .. Len(s) - 1 : MayFollow(s[i], s[i + 1])
    BY <2>1, <2>2, <2>3
  <2> QED
    BY <2>1, <2>4 DEF GoodSteps
<1> QED
  BY <1>1, <1>2, <1>3, <1>4

-----------------------------------------------------------------------------
(* Blocks go from place to place *)

LEMMA SetsAreInts ==
  ASSUME NEW h, NEW o, NEW a, NEW q, NEW l, NEW b, NEW g, NEW m \in Nat, SetsFit(h, o, a, q, l, b, g, m)
  PROVE  /\ h \subseteq 1 .. 2 * m /\ o \subseteq 1 .. 2 * m /\ a \subseteq 1 .. 2 * m
         /\ q \subseteq 1 .. 2 * m /\ l \subseteq 1 .. 2 * m /\ b \subseteq 1 .. 2 * m
         /\ g \subseteq 1 .. 2 * m
BY DEF SetsFit

\* Some of the buffer is thrown away.
LEMMA Dropped ==
  ASSUME NEW h, NEW o, NEW a, NEW q, NEW l, NEW b, NEW g, NEW m, SetsFit(h, o, a, q, l, b, g, m),
         NEW b2 \in SUBSET b, NEW g2, b2 \cup g2 = b \cup g
  PROVE  SetsFit(h, o, a, q, l, b2, g2, m)
<1>1. h \cup o \cup a \cup q \cup l \cup b2 \cup g2 = h \cup o \cup a \cup q \cup l \cup b \cup g
  OBVIOUS
<1>2. Before(h \cup o \cup a \cup q \cup l, b2)
  BY DEF SetsFit, Before
<1> QED
  BY <1>1, <1>2 DEF SetsFit

\* The front of the buffer is what is to be written.
LEMMA Taken ==
  ASSUME NEW h, NEW o, NEW a, NEW q, NEW b, NEW g, NEW m, SetsFit(h, o, a, q, {}, b, g, m),
         NEW l2, NEW b2, b = l2 \cup b2, Before(l2, b2)
  PROVE  SetsFit(h, o, a, q, l2, b2, g, m)
<1>1. h \cup o \cup a \cup q \cup l2 \cup b2 \cup g = h \cup o \cup a \cup q \cup {} \cup b \cup g
  OBVIOUS
<1>2. Before(h \cup o \cup a \cup q, l2)
  BY DEF SetsFit, Before
<1>3. Before(h \cup o \cup a \cup q \cup l2, b2)
  BY DEF SetsFit, Before
<1> QED
  BY <1>1, <1>2, <1>3 DEF SetsFit

\* The front of that goes into the queue.
LEMMA Sent ==
  ASSUME NEW h, NEW o, NEW a, NEW q, NEW l, NEW b, NEW g, NEW m, SetsFit(h, o, a, q, l, b, g, m),
         NEW f, NEW r, l = f \cup r, Before(f, r)
  PROVE  SetsFit(h, o, a, q \cup f, r, b, g, m) /\ Before(q, f)
<1>1. h \cup o \cup a \cup (q \cup f) \cup r \cup b \cup g = h \cup o \cup a \cup q \cup l \cup b \cup g
  OBVIOUS
<1>2. Before(h \cup o \cup a, q \cup f) /\ Before(q, f)
  BY DEF SetsFit, Before
<1>3. Before(h \cup o \cup a \cup (q \cup f), r)
  BY DEF SetsFit, Before
<1>4. Before(h \cup o \cup a \cup (q \cup f) \cup r, b)
  BY DEF SetsFit, Before
<1> QED
  BY <1>1, <1>2, <1>3, <1>4 DEF SetsFit

\* The resampler takes a block from the queue and gives up the one it had.
LEMMA Pulled ==
  ASSUME NEW h, NEW a, NEW q, NEW l, NEW b, NEW g, NEW m, SetsFit(h, {}, a, q, l, b, g, m),
         NEW f, NEW r, q = f \cup r, Before(f, r)
  PROVE  SetsFit(h, a, f, r, l, b, g, m)
<1>1. h \cup a \cup f \cup r \cup l \cup b \cup g = h \cup {} \cup a \cup q \cup l \cup b \cup g
  OBVIOUS
<1>2. Before(h, a) /\ Before(h \cup a, f)
  BY DEF SetsFit, Before
<1>3. Before(h \cup a \cup f, r)
  BY DEF SetsFit, Before
<1>4. Before(h \cup a \cup f \cup r, l) /\ Before(h \cup a \cup f \cup r \cup l, b)
  BY DEF SetsFit, Before
<1> QED
  BY <1>1, <1>2, <1>3, <1>4 DEF SetsFit

\* What is given to the hardware is heard.
LEMMA Played ==
  ASSUME NEW h, NEW o, NEW a, NEW q, NEW l, NEW b, NEW g, NEW m, SetsFit(h, o, a, q, l, b, g, m)
  PROVE  SetsFit(h \cup o, {}, a, q, l, b, g, m)
BY DEF SetsFit, Before

\* The port is freed with what it still holds.
LEMMA ThrownAway ==
  ASSUME NEW h, NEW a, NEW q, NEW l, NEW b, NEW g, NEW m, SetsFit(h, {}, a, q, l, b, g, m)
  PROVE  SetsFit(h, {}, {}, {}, l, b, g \cup (q \cup a), m)
<1>1. h \cup {} \cup {} \cup {} \cup l \cup b \cup (g \cup (q \cup a)) = h \cup {} \cup a \cup q \cup l \cup b \cup g
  OBVIOUS
<1>2. Before(h \cup {} \cup {} \cup {}, l) /\ Before(h \cup {} \cup {} \cup {} \cup l, b)
  BY DEF SetsFit, Before
<1> QED
  BY <1>1, <1>2 DEF SetsFit, Before

\* What is made comes after everything.
LEMMA Grown ==
  ASSUME NEW h, NEW o, NEW a, NEW q, NEW l, NEW b, NEW g, NEW m \in Nat, SetsFit(h, o, a, q, l, b, g, m),
         NEW k \in Nat
  PROVE  SetsFit(h, o, a, q, l, b \cup (2 * m + 1) .. 2 * (m + k), g, m + k)
<1> DEFINE new == (2 * m + 1) .. 2 * (m + k)
           all == h \cup o \cup a \cup q \cup l
<1>1. all \subseteq 1 .. 2 * m /\ b \subseteq 1 .. 2 * m
  BY SetsAreInts
<1>2. 1 .. 2 * (m + k) = 1 .. 2 * m \cup new
  OBVIOUS
<1>3. \A x \in 1 .. 2 * m : \A y \in new : x < y
  OBVIOUS
<1>4. Before(all, b)
  BY DEF SetsFit
<1> SUFFICES SetsFit(h, o, a, q, l, b \cup new, g, m + k)
  OBVIOUS
<1> HIDE DEF new
<1>5. Before(all, b \cup new)
  BY <1>1, <1>3, <1>4 DEF Before
<1>6. all \cup (b \cup new) \cup g = 1 .. 2 * (m + k)
  <2>1. all \cup b \cup g = 1 .. 2 * m
    BY DEF SetsFit
  <2> QED
    BY <1>2, <2>1
<1> QED
  BY <1>5, <1>6 DEF SetsFit

-----------------------------------------------------------------------------
(* The port and what is on its way *)

LEMMA SoundNumbers ==
  /\ FRAGSIZE \in Nat /\ FRAGSIZE > 0 /\ SOUND_BUFSIZE \in Nat /\ MaxMade \in Nat
  /\ fifo_size \in Nat /\ fifo_size > 0 /\ bufsize = fifo_size /\ MaxNotify \in Nat /\ MaxNotify > 0
BY SoundAssumption, PortAssumption DEF bufsize

\* No block moves outside the emulator's buffer.
PlacesKept ==
  /\ heard' = heard /\ unwritten' = unwritten /\ port'.fifo = port.fifo /\ port'.ahead = port.ahead
  /\ port'.out_buffer = port.out_buffer

LEMMA PortAlone ==
  ASSUME SoundInv, PortKept
  PROVE  PortFits' /\ PlacesKept /\ port' = port /\ cond' = cond
<1>1. port' = port /\ loop' = loop /\ cond' = cond /\ unwritten' = unwritten /\ heard' = heard
  BY DEF PortKept
<1>2. PortFits'
  BY <1>1 DEF SoundInv, PortFits, Ports
<1> QED
  BY <1>1, <1>2 DEF PlacesKept

LEMMA WayAlone ==
  ASSUME SoundInv, PlacesKept, made' = made, Buffered' \subseteq Buffered,
         Buffered' \cup gone' = Buffered \cup gone
  PROVE  WayFits'
<1>1. Heard' = Heard /\ Out' = Out /\ Ahead' = Ahead /\ Queued' = Queued /\ Left' = Left
  BY DEF PlacesKept, Heard, Out, Ahead, Queued, Left
<1>2. SetsFit(Heard, Out, Ahead, Queued, Left, Buffered, gone, made)
  BY DEF SoundInv, WayFits
<1>3. SetsFit(Heard, Out, Ahead, Queued, Left, Buffered', gone', made)
  BY <1>2, Dropped
<1>4. SetsFit(Heard', Out', Ahead', Queued', Left', Buffered', gone', made')
  BY <1>1, <1>3
<1>5. Rising(Reverse(heard')) /\ Rising(port'.fifo) /\ Rising(unwritten')
  BY DEF SoundInv, WayFits, PlacesKept
<1> QED
  BY <1>4, <1>5 DEF WayFits

\* A step of the emulator that hands blocks over to be written.
LEMMA WayWritten ==
  ASSUME SoundInv, cond = "idle", NEW blocks \in Seq(Int), Write(blocks), Rising(blocks),
         blocks # <<>> => port.state = "started", made' = made, gone' = gone,
         Buffered = Numbers(blocks) \cup Buffered', Before(Numbers(blocks), Buffered')
  PROVE  PortFits' /\ WayFits'
<1>1. /\ port' = port /\ loop' = loop /\ unwritten' = blocks /\ heard' = heard
      /\ cond' = IF blocks = <<>> THEN "idle" ELSE "write"
  BY DEF Write
<1>2. PortFits'
  <2>1. cond' \in {"idle", "write"} /\ (cond' # "idle" <=> unwritten' # <<>>)
    BY <1>1
  <2>2. cond' # "idle" => port'.state = "started"
    BY <1>1, <2>1
  <2> QED
    BY <1>1, <2>1, <2>2 DEF SoundInv, PortFits, Ports
<1>3. unwritten = <<>> /\ Left = {}
  BY NoNumbers DEF SoundInv, PortFits, Left
<1>4. SetsFit(Heard, Out, Ahead, Queued, {}, Buffered, gone, made)
  BY <1>3 DEF SoundInv, WayFits
<1>5. SetsFit(Heard, Out, Ahead, Queued, Numbers(blocks), Buffered', gone, made)
  BY <1>4, Taken
<1>6. Heard' = Heard /\ Out' = Out /\ Ahead' = Ahead /\ Queued' = Queued /\ Left' = Numbers(blocks)
  BY <1>1 DEF Heard, Out, Ahead, Queued, Left
<1>7. SetsFit(Heard', Out', Ahead', Queued', Left', Buffered', gone', made')
  BY <1>5, <1>6
<1>8. Rising(Reverse(heard')) /\ Rising(port'.fifo) /\ Rising(unwritten')
  BY <1>1 DEF SoundInv, WayFits
<1> QED
  BY <1>2, <1>7, <1>8 DEF WayFits

\* A step that writes nothing numbered and keeps the buffer.
LEMMA WayFilled ==
  ASSUME SoundInv, cond = "idle", NEW n \in Int, NEW blocks \in {Fill(n), <<>>}, Write(blocks),
         port.state = "started" \/ blocks = <<>>, made' = made, gone' = gone, Buffered' = Buffered
  PROVE  PortFits' /\ WayFits'
<1>1. blocks \in Seq(Int) /\ Numbers(blocks) = {} /\ Rising(blocks)
  BY FillHasNone, NoNumbers
<1>2. Buffered = Numbers(blocks) \cup Buffered' /\ Before(Numbers(blocks), Buffered')
  BY <1>1 DEF Before
<1> QED
  BY <1>1, <1>2, WayWritten

\* What is in the buffer but not in a write that begins.
LEMMA BufferIs ==
  /\ Todo # "flushed" => Buffered = Numbers(Blocks(snd.buffer))
  /\ Todo = "flushed" => Buffered = Numbers(Blocks(SubSeq(snd.buffer, snd.nr + 1, Len(snd.buffer))))
  /\ Todo' # "flushed" => Buffered' = Numbers(Blocks(snd'.buffer))
  /\ Todo' = "flushed" => Buffered' = Numbers(Blocks(SubSeq(snd'.buffer, snd'.nr + 1, Len(snd'.buffer))))
BY DEF Todo, Buffered, InBuffer

-----------------------------------------------------------------------------
(* Opening and closing *)

LEMMA TurnIs ==
  ASSUME NEW what, Turn(what)
  PROVE  steps # <<>> /\ Todo = what /\ cond = "idle"
BY DEF Turn, Todo

LEMMA Follows ==
  ASSUME NEW a, NEW x, MayFollow(a, x)
  PROVE  /\ x \in {"run", "open", "fail", "opened", "sid", "space"}
         /\ a \notin {"sid", "space", "write", "flushed", "suspend"}
BY DEF MayFollow

\* The buffer is as it was, or empty.
LEMMA BufferAlone ==
  ASSUME SoundInv, snd' \in Snds, snd'.buffer \in {snd.buffer, <<>>}, snd'.nr = snd.nr, made' = made,
         Todo' \notin {"write", "flushed"}
  PROVE  BufferFits'
<1>1. /\ made \in Nat /\ Len(snd.buffer) <= SOUND_BUFSIZE /\ snd.nr <= bufsize
      /\ Halves(snd.buffer, made)
  BY DEF SoundInv, BufferFits
<1>2. Halves(<<>>, made) /\ Len(<<>>) = 0
  BY DEF Halves
<1>3. Len(snd'.buffer) <= SOUND_BUFSIZE /\ Halves(snd'.buffer, made)
  BY <1>1, <1>2, SoundNumbers
<1>4. bufsize' = bufsize
  BY DEF bufsize
<1> QED
  BY <1>1, <1>3, <1>4 DEF BufferFits

\* All that is in the buffer is thrown away.
LEMMA BufferDropped ==
  ASSUME SoundInv, Todo # "flushed", Todo' # "flushed", snd'.buffer = <<>>, Drop(snd.buffer)
  PROVE  Buffered' \subseteq Buffered /\ Buffered' \cup gone' = Buffered \cup gone
<1>1. Blocks(<<>>) = <<>>
  BY DEF Blocks
<1>2. Buffered' = {}
  BY <1>1, BufferIs, NoNumbers
<1>3. gone' = gone \cup Buffered
  BY BufferIs DEF Drop
<1> QED
  BY <1>2, <1>3

LEMMA BufferKept ==
  ASSUME SoundInv, Todo # "flushed", Todo' # "flushed", snd'.buffer = snd.buffer
  PROVE  Buffered' = Buffered
BY BufferIs

LEMMA InvParts ==
  ASSUME SoundInv
  PROVE  /\ StepsFit /\ snd \in Snds /\ port \in Ports /\ made \in Nat /\ gone \subseteq 1 .. 2 * made
         /\ port.state = "none" => port = NoPort
         /\ cond = "idle" => unwritten = <<>>
<1>1. gone \subseteq 1 .. 2 * made
  BY SetsAreInts DEF SoundInv, WayFits, BufferFits
<1> QED
  BY <1>1 DEF SoundInv, PortFits, BufferFits

LEMMA NoPortIs ==
  /\ NoPort \in Ports /\ NoPort.state = "none" /\ NoPort.notified = 0 /\ NoPort.fifo = <<>>
  /\ NoPort.ahead = <<>> /\ NoPort.out_buffer = Silence /\ Silence = 0 /\ Len(<<>>) = 0
  /\ Numbers(<<0>>) = {}
<1>1. Numbers(<<0>>) = {}
  <2> DEFINE z == 0
  <2>1. z \in Int /\ ~ (z > 0)
    OBVIOUS
  <2> SUFFICES Numbers(<<z>>) = {}
    OBVIOUS
  <2> HIDE DEF z
  <2> QED
    BY <2>1, OneNumber
<1>2. /\ NoPort \in Ports /\ NoPort.state = "none" /\ NoPort.notified = 0 /\ NoPort.fifo = <<>>
      /\ NoPort.ahead = <<>> /\ NoPort.out_buffer = Silence /\ Silence = 0 /\ Len(<<>>) = 0
  BY DEF NoPort, Ports, Silence
<1> QED
  BY <1>1, <1>2

LEMMA OpenKeeps ==
  ASSUME SoundInv, Open
  PROVE  SoundInv'
<1>1. steps # <<>> /\ Todo = "open" /\ cond = "idle"
  BY TurnIs DEF Open
<1>2. /\ StepsFit /\ snd \in Snds /\ port.state = "none" /\ port = NoPort /\ ~ snd.playdev
      /\ (snd.sdev_open <=> snd.playdev) /\ made' = made
  BY <1>1, InvParts DEF SoundInv, DeviceFits, Open, Ports
<1>3. CASE SuspendTime /\ snd.disabletime
  <2>1. Do(<<"fail">>) /\ PortKept /\ snd' = snd /\ gone' = gone
    BY <1>3 DEF Open
  <2>2. StepsFit' /\ Todo' = "fail"
    <3>1. "fail" \in AllSteps \ {"fill", "error"} /\ \A x \in AllSteps : MayFollow(Todo, x) => MayFollow("fail", x)
      BY <1>1 DEF AllSteps, MayFollow
    <3> QED
      BY <1>1, <1>2, <2>1, <3>1, OneLeft
  <2>3. PortFits' /\ PlacesKept /\ port' = port
    BY <2>1, PortAlone
  <2>4. DeviceFits'
    BY <1>1, <1>2, <2>1, <2>2, <2>3 DEF DeviceFits
  <2>5. BufferFits'
    BY <1>2, <2>1, <2>2, BufferAlone
  <2>6. WayFits'
    BY <1>1, <1>2, <2>1, <2>2, <2>3, BufferKept, WayAlone
  <2> QED
    BY <2>2, <2>3, <2>4, <2>5, <2>6 DEF SoundInv
<1>4. CASE ~ (SuspendTime /\ snd.disabletime)
  <2>1. /\ AudioPort /\ cond' = cond /\ unwritten' = unwritten /\ heard' = heard
        /\ snd' = [snd EXCEPT !.playdev = TRUE, !.issuspended = FALSE, !.buffer = <<>>]
        /\ Drop(snd.buffer)
        /\ \/ Do(<<"fill", "opened">>)
           \/ Do(<<"error", "fail">>)
    BY <1>4 DEF Open
  <2>2. StepsFit' /\ Todo' \in {"fill", "error"}
    <3>1. /\ "fill" \in AllSteps /\ "opened" \in AllSteps \ {"fill", "error"} /\ MayFollow("fill", "opened")
          /\ \A x \in AllSteps : MayFollow(Todo, x) => MayFollow("opened", x)
      BY <1>1 DEF AllSteps, MayFollow
    <3>2. /\ "error" \in AllSteps /\ "fail" \in AllSteps \ {"fill", "error"} /\ MayFollow("error", "fail")
          /\ \A x \in AllSteps : MayFollow(Todo, x) => MayFollow("fail", x)
      BY <1>1 DEF AllSteps, MayFollow
    <3>3. CASE Do(<<"fill", "opened">>)
      BY <1>1, <1>2, <3>1, <3>3, TwoLeft
    <3>4. CASE Do(<<"error", "fail">>)
      BY <1>1, <1>2, <3>2, <3>4, TwoLeft
    <3> QED
      BY <2>1, <3>3, <3>4
  <2>3. port' = [NoPort EXCEPT !.state = "started"] /\ loop' = "begin"
    BY <2>1 DEF AudioPort
  <2>4. /\ port' \in Ports /\ port'.state = "started" /\ port'.notified = 0 /\ port'.fifo = <<>>
        /\ port'.ahead = <<>> /\ port'.out_buffer = Silence
    <3> DEFINE p == NoPort
    <3>1. /\ p \in Ports /\ p.notified = 0 /\ p.fifo = <<>> /\ p.ahead = <<>>
          /\ p.out_buffer = Silence /\ port' = [p EXCEPT !.state = "started"]
      BY <2>3, NoPortIs
    <3> HIDE DEF p
    <3> QED
      BY <3>1 DEF Ports
  <2>5. PortFits'
    <3>1. Len(<<>>) = 0
      OBVIOUS
    <3>2. /\ cond \in {"idle", "write", "to_wait", "waiting"} /\ unwritten \in Seq(Int) /\ heard \in Seq(Int)
          /\ cond # "idle" <=> unwritten # <<>>
      BY DEF SoundInv, PortFits
    <3> QED
      BY <2>1, <2>3, <2>4, <3>1, <3>2, SoundNumbers DEF PortFits
  <2>6. PlacesKept
    BY <1>2, <2>1, <2>4 DEF PlacesKept, NoPort
  <2>7. snd' \in Snds /\ snd'.playdev /\ snd'.buffer = <<>> /\ snd'.nr = snd.nr
    <3> DEFINE e == <<>>
    <3>1. e \in Seq(Nat) /\ snd' = [snd EXCEPT !.playdev = TRUE, !.issuspended = FALSE, !.buffer = e]
      BY <2>1
    <3>2. e = <<>>
      OBVIOUS
    <3> HIDE DEF e
    <3>3. snd' \in Snds
      BY <1>2, <3>1 DEF Snds
    <3>4. snd'.playdev /\ snd'.buffer = e /\ snd'.nr = snd.nr
      BY <1>2, <3>1 DEF Snds
    <3> QED
      BY <3>2, <3>3, <3>4
  <2>8. DeviceFits'
    BY <2>2, <2>4, <2>7 DEF DeviceFits
  <2>9. BufferFits'
    BY <1>2, <2>2, <2>7, BufferAlone
  <2>10. WayFits'
    BY <1>1, <1>2, <2>1, <2>2, <2>6, <2>7, BufferDropped, WayAlone
  <2> QED
    BY <2>2, <2>5, <2>8, <2>9, <2>10 DEF SoundInv
<1> QED
  BY <1>3, <1>4

LEMMA FillUpKeeps ==
  ASSUME SoundInv, FillUp
  PROVE  SoundInv'
<1>1. steps # <<>> /\ Todo = "fill" /\ cond = "idle" /\ Do(<<>>) /\ snd' = snd /\ made' = made /\ gone' = gone
  BY TurnIs DEF FillUp
<1>2. StepsFit' /\ Todo' = "opened"
  <2>1. StepsFit' /\ Todo' # "nothing" /\ (Todo' = "nothing" \/ MayFollow(Todo, Todo'))
    BY <1>1, InvParts, NoneLeft
  <2> QED
    BY <1>1, <2>1 DEF MayFollow
<1>3. snd \in Snds /\ snd.playdev /\ port.state = "started"
  BY <1>1, InvParts DEF SoundInv, DeviceFits
<1>4. PICK blocks : /\ Write(blocks) /\ \E n \in Int : blocks \in {Fill(n), <<>>}
  <2> DEFINE j == bufferspace - FRAGSIZE
  <2>1. Write(IF j > 0 THEN Fill(Fragments(j)) ELSE <<>>)
    BY DEF FillUp
  <2>2. j \in Int
    BY InvParts, SoundNumbers DEF bufferspace, Ports
  <2> HIDE DEF j
  <2>3. Fragments(j) \in Int
    BY <2>2, SoundNumbers DEF Fragments
  <2> QED
    BY <2>1, <2>3
<1>5. PortFits' /\ WayFits'
  <2>1. Buffered' = Buffered
    BY <1>1, <1>2, BufferKept
  <2> QED
    BY <1>1, <1>3, <1>4, <2>1, WayFilled
<1>6. port' = port
  BY <1>4 DEF Write
<1>7. DeviceFits'
  BY <1>1, <1>2, <1>3, <1>6 DEF DeviceFits
<1>8. BufferFits'
  BY <1>1, <1>2, <1>3, BufferAlone
<1> QED
  BY <1>2, <1>5, <1>7, <1>8 DEF SoundInv

LEMMA OpenedKeeps ==
  ASSUME SoundInv, Opened
  PROVE  SoundInv'
<1>1. /\ steps # <<>> /\ Todo = "opened" /\ Do(<<>>) /\ PortKept /\ made' = made /\ gone' = gone
      /\ snd' = [snd EXCEPT !.sdev_open = TRUE, !.sound_state_changed = FALSE, !.sid_state_changed = FALSE]
  BY TurnIs DEF Opened
<1>2. StepsFit' /\ Todo' \in {"nothing", "run"}
  <2>1. StepsFit' /\ (Todo' = "nothing" \/ MayFollow(Todo, Todo'))
    BY <1>1, InvParts, NoneLeft
  <2> QED
    BY <1>1, <2>1 DEF MayFollow
<1>3. snd \in Snds /\ snd.playdev /\ port.state = "started"
  BY <1>1, InvParts DEF SoundInv, DeviceFits
<1>4. PortFits' /\ PlacesKept /\ port' = port
  BY <1>1, PortAlone
<1>5. /\ snd' \in Snds /\ snd'.buffer = snd.buffer /\ snd'.nr = snd.nr
      /\ snd'.playdev /\ snd'.sdev_open
  BY <1>1, <1>3 DEF Snds
<1>6. DeviceFits'
  BY <1>2, <1>3, <1>4, <1>5 DEF DeviceFits
<1>7. BufferFits'
  BY <1>1, <1>2, <1>5, BufferAlone
<1>8. WayFits'
  BY <1>1, <1>2, <1>4, <1>5, BufferKept, WayAlone
<1> QED
  BY <1>2, <1>4, <1>6, <1>7, <1>8 DEF SoundInv

LEMMA FailKeeps ==
  ASSUME SoundInv, Fail
  PROVE  SoundInv'
<1>1. /\ steps # <<>> /\ Todo = "fail" /\ steps' = <<>> /\ PortKept /\ snd' = snd /\ made' = made
      /\ gone' = gone
  BY TurnIs DEF Fail
<1>2. StepsFit' /\ Todo' = "nothing"
  BY <1>1, CallsLeave DEF StepsFit, Todo
<1>3. PortFits' /\ PlacesKept /\ port' = port
  BY <1>1, PortAlone
<1>4. DeviceFits'
  BY <1>1, <1>2, <1>3 DEF SoundInv, DeviceFits
<1>5. BufferFits'
  BY <1>1, <1>2, InvParts, BufferAlone
<1>6. WayFits'
  BY <1>1, <1>2, <1>3, BufferKept, WayAlone
<1> QED
  BY <1>2, <1>3, <1>4, <1>5, <1>6 DEF SoundInv

LEMMA ErrorKeeps ==
  ASSUME SoundInv, sound_error
  PROVE  SoundInv'
<1>1. /\ steps # <<>> /\ Todo = "error" /\ Do(<<"close">>) /\ PortKept /\ made' = made /\ gone' = gone
      /\ snd' = [snd EXCEPT !.playback_enabled = FALSE]
  BY TurnIs DEF sound_error
<1>2. StepsFit' /\ Todo' = "close"
  <2>1. "close" \in AllSteps \ {"fill", "error"} /\ \A x \in AllSteps : MayFollow(Todo, x) => MayFollow("close", x)
    BY <1>1 DEF AllSteps, MayFollow
  <2> QED
    BY <1>1, <2>1, InvParts, OneLeft
<1>3. PortFits' /\ PlacesKept /\ port' = port
  BY <1>1, PortAlone
<1>4. /\ snd' \in Snds /\ snd'.buffer = snd.buffer /\ snd'.nr = snd.nr
      /\ snd'.playdev = snd.playdev
  BY <1>1, InvParts DEF Snds
<1>5. DeviceFits'
  BY <1>1, <1>2, <1>3, <1>4 DEF SoundInv, DeviceFits
<1>6. BufferFits'
  BY <1>1, <1>2, <1>4, BufferAlone
<1>7. WayFits'
  BY <1>1, <1>2, <1>3, <1>4, BufferKept, WayAlone
<1> QED
  BY <1>2, <1>3, <1>5, <1>6, <1>7 DEF SoundInv

\* The port is told to end and waited for.
LEMMA CloseKeeps ==
  ASSUME SoundInv, Close
  PROVE  SoundInv'
<1>1. /\ steps # <<>> /\ Todo = "close" /\ cond = "idle" /\ loop' = loop /\ cond' = cond
      /\ unwritten' = unwritten /\ heard' = heard /\ snd' = snd /\ made' = made /\ gone' = gone
      /\ \/ snd.playdev /\ Quit /\ Do(<<"join">>)
         \/ ~ snd.playdev /\ port' = port /\ Do(<<"closed">>)
  BY TurnIs DEF Close
<1>2. /\ StepsFit' /\ Todo' \in {"join", "closed"}
      /\ Todo' = "join" <=> snd.playdev
  <2>1. /\ "join" \in AllSteps \ {"fill", "error"} /\ "closed" \in AllSteps \ {"fill", "error"}
        /\ \A x \in AllSteps : MayFollow(Todo, x) => MayFollow("join", x) /\ MayFollow("closed", x)
    BY <1>1 DEF AllSteps, MayFollow
  <2>2. CASE snd.playdev
    <3>1. StepsFit' /\ Todo' = "join"
      BY <1>1, <2>1, <2>2, InvParts, OneLeft
    <3> QED
      BY <2>2, <3>1
  <2>3. CASE ~ snd.playdev
    <3>1. StepsFit' /\ Todo' = "closed"
      BY <1>1, <2>1, <2>3, InvParts, OneLeft
    <3> QED
      BY <2>3, <3>1
  <2> QED
    BY <2>2, <2>3
<1>3. snd.playdev <=> port.state = "started"
  BY <1>1 DEF SoundInv, DeviceFits
<1>4. /\ port' \in Ports /\ port'.state = port.state /\ port'.fifo = port.fifo /\ port'.ahead = port.ahead
      /\ port'.out_buffer = port.out_buffer /\ port'.notified = port.notified
      /\ port.state = "none" => port' = port
  BY <1>1, <1>3, InvParts DEF Quit, Ports
<1>5. PortFits'
  BY <1>1, <1>4 DEF SoundInv, PortFits
<1>6. PlacesKept
  BY <1>1, <1>4 DEF PlacesKept
<1>7. DeviceFits'
  <2>1. port.state \in {"none", "started"}
    BY InvParts DEF Ports
  <2> QED
    BY <1>1, <1>2, <1>3, <1>4, <2>1 DEF SoundInv, DeviceFits
<1>8. BufferFits'
  BY <1>1, <1>2, InvParts, BufferAlone
<1>9. WayFits'
  BY <1>1, <1>2, <1>6, BufferKept, WayAlone
<1> QED
  BY <1>2, <1>5, <1>7, <1>8, <1>9 DEF SoundInv

LEMMA JoinKeeps ==
  ASSUME SoundInv, Join
  PROVE  SoundInv'
<1>1. /\ steps # <<>> /\ Todo = "join" /\ cond = "idle" /\ Do(<<"closed">>) /\ port' = NoPort
      /\ loop = "ended" /\ loop' = loop /\ cond' = cond /\ unwritten' = unwritten /\ heard' = heard
      /\ snd' = snd /\ made' = made
      /\ gone' = gone \cup Numbers(port.fifo \o port.ahead)
  BY TurnIs DEF Join, Joined, Freed
<1>2. StepsFit' /\ Todo' = "closed"
  <2>1. "closed" \in AllSteps \ {"fill", "error"} /\ \A x \in AllSteps : MayFollow(Todo, x) => MayFollow("closed", x)
    BY <1>1 DEF AllSteps, MayFollow
  <2> QED
    BY <1>1, <2>1, InvParts, OneLeft
<1>3. /\ unwritten = <<>> /\ heard \in Seq(Int) /\ port.fifo \in Seq(Int) /\ port.ahead \in Seq(Int)
      /\ port.out_buffer = 0
  BY <1>1, InvParts DEF SoundInv, PortFits, Ports, Silence
<1>4. /\ port' \in Ports /\ port'.state = "none" /\ port'.notified = 0 /\ port'.fifo = <<>>
      /\ port'.ahead = <<>> /\ port'.out_buffer = 0 /\ port'.out_buffer = Silence
  BY <1>1 DEF NoPort, Ports, Silence
<1>5. PortFits'
  <2>1. Len(<<>>) = 0
    OBVIOUS
  <2> QED
    BY <1>1, <1>3, <1>4, <2>1, SoundNumbers DEF PortFits
<1>6. DeviceFits'
  BY <1>2, <1>4 DEF DeviceFits
<1>7. BufferFits'
  BY <1>1, <1>2, InvParts, BufferAlone
<1>8. WayFits'
  <2>1. Numbers(<<0>>) = {} /\ Numbers(<<>>) = {} /\ Rising(<<>>)
    BY NoPortIs, NoNumbers
  <2>2. Out = {} /\ Out' = {} /\ Ahead' = {} /\ Queued' = {} /\ Heard' = Heard /\ Left' = Left
    BY <1>1, <1>3, <1>4, <2>1 DEF Out, Ahead, Queued, Heard, Left
  <2>3. gone' = gone \cup (Queued \cup Ahead)
    BY <1>1, <1>3, NumbersConcat DEF Queued, Ahead
  <2>4. Buffered' = Buffered
    BY <1>1, <1>2, BufferKept
  <2>5. SetsFit(Heard, {}, Ahead, Queued, Left, Buffered, gone, made)
    BY <2>2 DEF SoundInv, WayFits
  <2>6. SetsFit(Heard', Out', Ahead', Queued', Left', Buffered', gone', made')
    BY <1>1, <2>2, <2>3, <2>4, <2>5, ThrownAway
  <2>7. Rising(Reverse(heard')) /\ Rising(port'.fifo) /\ Rising(unwritten')
    BY <1>1, <1>4, <2>1 DEF SoundInv, WayFits
  <2> QED
    BY <2>6, <2>7 DEF WayFits
<1> QED
  BY <1>2, <1>5, <1>6, <1>7, <1>8 DEF SoundInv

LEMMA ClosedKeeps ==
  ASSUME SoundInv, Closed
  PROVE  SoundInv'
<1>1. /\ steps # <<>> /\ Todo = "closed" /\ Do(<<>>) /\ PortKept /\ made' = made /\ gone' = gone
      /\ snd' = [snd EXCEPT !.playdev = FALSE, !.sdev_open = FALSE, !.sound_state_changed = FALSE]
  BY TurnIs DEF Closed
<1>2. StepsFit' /\ Todo' \in {"nothing", "run", "open", "fail"}
  <2>1. StepsFit' /\ (Todo' = "nothing" \/ MayFollow(Todo, Todo'))
    BY <1>1, InvParts, NoneLeft
  <2> QED
    BY <1>1, <2>1 DEF MayFollow
<1>3. snd \in Snds /\ port.state = "none"
  BY <1>1, InvParts DEF SoundInv, DeviceFits
<1>4. PortFits' /\ PlacesKept /\ port' = port
  BY <1>1, PortAlone
<1>5. /\ snd' \in Snds /\ snd'.buffer = snd.buffer /\ snd'.nr = snd.nr
      /\ ~ snd'.playdev /\ ~ snd'.sdev_open
  BY <1>1, <1>3 DEF Snds
<1>6. DeviceFits'
  BY <1>2, <1>3, <1>4, <1>5 DEF DeviceFits
<1>7. BufferFits'
  BY <1>1, <1>2, <1>5, BufferAlone
<1>8. WayFits'
  BY <1>1, <1>2, <1>4, <1>5, BufferKept, WayAlone
<1> QED
  BY <1>2, <1>4, <1>6, <1>7, <1>8 DEF SoundInv

-----------------------------------------------------------------------------
(* Samples are made and flushed *)

LEMMA RunKeeps ==
  ASSUME SoundInv, Run
  PROVE  SoundInv'
<1>1. /\ steps # <<>> /\ Todo = "run" /\ PortKept /\ gone' = gone
      /\ (snd.sdev_open <=> snd.playdev) /\ (snd.playdev <=> port.state = "started")
  BY TurnIs DEF Run, SoundInv, DeviceFits
<1>2. PortFits' /\ PlacesKept /\ port' = port
  BY <1>1, PortAlone
<1>3. CASE ~ CanRun \/ ~ snd.playdev
  <2>1. /\ snd' = snd /\ made' = made
        /\ \/ Do(<<"fail">>)
           \/ ~ snd.playdev /\ Do(<<"open", "run">>)
    BY <1>3 DEF Run
  <2>2. /\ StepsFit' /\ Todo' \in {"fail", "open"}
        /\ Todo' = "open" => ~ snd.playdev
    <3>1. /\ "fail" \in AllSteps \ {"fill", "error"} /\ "open" \in AllSteps
          /\ "run" \in AllSteps \ {"fill", "error"} /\ MayFollow("open", "run")
          /\ \A x \in AllSteps : MayFollow(Todo, x) => MayFollow("fail", x) /\ MayFollow("run", x)
      BY <1>1 DEF AllSteps, MayFollow
    <3>2. CASE Do(<<"fail">>)
      <4>1. StepsFit' /\ Todo' = "fail"
        BY <1>1, <3>1, <3>2, InvParts, OneLeft
      <4> QED
        BY <4>1
    <3>3. CASE ~ snd.playdev /\ Do(<<"open", "run">>)
      <4>1. StepsFit' /\ Todo' = "open"
        BY <1>1, <3>1, <3>3, InvParts, TwoLeft
      <4> QED
        BY <3>3, <4>1
    <3> QED
      BY <2>1, <3>2, <3>3
  <2>3. DeviceFits'
    BY <1>1, <1>2, <2>1, <2>2 DEF DeviceFits
  <2>4. BufferFits'
    BY <2>1, <2>2, InvParts, BufferAlone
  <2>5. WayFits'
    BY <1>1, <1>2, <2>1, <2>2, BufferKept, WayAlone
  <2> QED
    BY <1>2, <2>2, <2>3, <2>4, <2>5 DEF SoundInv
<1>4. CASE CanRun /\ snd.playdev
  <2> DEFINE room == SOUND_BUFSIZE - Len(snd.buffer)
  <2>1. PICK n \in 0 .. FRAGSIZE :
          LET nr == IF n > room THEN room ELSE n
          IN  /\ snd' = [snd EXCEPT !.buffer = @ \o [i \in 1 .. nr |-> made + i]]
              /\ made' = made + nr /\ Do(<<>>)
    BY <1>4 DEF Run
  <2> DEFINE k == IF n > room THEN room ELSE n
             more == snd.buffer \o [i \in 1 .. k |-> made + i]
  <2>2. snd' = [snd EXCEPT !.buffer = more] /\ made' = made + k /\ Do(<<>>)
    BY <2>1
  <2>3. /\ snd \in Snds /\ made \in Nat /\ Len(snd.buffer) \in Nat /\ Len(snd.buffer) <= SOUND_BUFSIZE
        /\ Halves(snd.buffer, made) /\ snd.nr <= bufsize
    BY DEF SoundInv, BufferFits, Snds
  <2>4. k \in Nat /\ k <= room
    <3>1. room \in Nat
      BY <2>3, SoundNumbers
    <3>2. n \in Nat
      BY SoundNumbers
    <3> HIDE DEF room
    <3> QED
      BY <3>1, <3>2
  <2> HIDE DEF k
  <2>5. /\ Halves(more, made + k) /\ Len(more) = Len(snd.buffer) + k
        /\ Numbers(Blocks(more)) = Numbers(Blocks(snd.buffer)) \cup (2 * made + 1) .. 2 * (made + k)
    BY <2>3, <2>4, BlocksMade
  <2> HIDE DEF more
  <2>6. StepsFit' /\ Todo' \in {"nothing", "sid"}
    <3>1. StepsFit' /\ (Todo' = "nothing" \/ MayFollow(Todo, Todo'))
      BY <1>1, <2>2, InvParts, NoneLeft
    <3> QED
      BY <1>1, <3>1 DEF MayFollow
  <2>7. more \in Seq(Nat)
    BY <2>5 DEF Halves
  <2>8. /\ snd' \in Snds /\ snd'.buffer = more /\ snd'.nr = snd.nr
        /\ snd'.playdev = snd.playdev /\ snd'.sdev_open = snd.sdev_open
    BY <2>2, <2>3, <2>7 DEF Snds
  <2>9. DeviceFits'
    BY <1>1, <1>2, <1>4, <2>6, <2>8 DEF DeviceFits
  <2>10. BufferFits'
    <3>1. made' \in Nat
      BY <2>2, <2>3, <2>4
    <3>2. Len(more) <= SOUND_BUFSIZE
      <4> DEFINE old == Len(snd.buffer)
                 now == Len(more)
      <4>1. old \in Nat /\ now = old + k /\ k \in Nat /\ k <= SOUND_BUFSIZE - old
        BY <2>3, <2>4, <2>5
      <4> HIDE DEF old, now
      <4>2. now <= SOUND_BUFSIZE
        BY <4>1, SoundNumbers
      <4> QED
        BY <4>2 DEF now
    <3> QED
      BY <2>2, <2>3, <2>5, <2>6, <2>8, <3>1, <3>2 DEF BufferFits, bufsize
  <2>11. WayFits'
    <3>1. Heard' = Heard /\ Out' = Out /\ Ahead' = Ahead /\ Queued' = Queued /\ Left' = Left
      BY <1>2 DEF PlacesKept, Heard, Out, Ahead, Queued, Left
    <3>2. Buffered' = Buffered \cup (2 * made + 1) .. 2 * (made + k)
      BY <1>1, <2>5, <2>6, <2>8, BufferIs
    <3>3. SetsFit(Heard, Out, Ahead, Queued, Left, Buffered', gone, made + k)
      BY <2>3, <2>4, <3>2, Grown DEF SoundInv, WayFits
    <3>4. SetsFit(Heard', Out', Ahead', Queued', Left', Buffered', gone', made')
      BY <1>1, <2>2, <3>1, <3>3
    <3>5. Rising(Reverse(heard')) /\ Rising(port'.fifo) /\ Rising(unwritten')
      BY <1>2 DEF SoundInv, WayFits, PlacesKept
    <3> QED
      BY <3>4, <3>5 DEF WayFits
  <2> QED
    BY <1>2, <2>6, <2>9, <2>10, <2>11 DEF SoundInv
<1> QED
  BY <1>3, <1>4

\* The calls from outside begin when nothing is left to do.
LEMMA IdleIs ==
  ASSUME SoundInv, Idle
  PROVE  /\ steps = <<>> /\ Todo = "nothing" /\ cond = "idle" /\ StepsFit /\ snd \in Snds
         /\ (snd.playdev <=> port.state = "started") /\ (snd.sdev_open <=> snd.playdev)
BY InvParts DEF Idle, Todo, SoundInv, DeviceFits

LEMMA StoreKeeps ==
  ASSUME SoundInv, sound_store
  PROVE  SoundInv'
<1>1. Idle /\ steps' = <<"run">> /\ PortKept /\ snd' = snd /\ made' = made /\ gone' = gone
  BY DEF sound_store
<1>2. StepsFit' /\ Todo' = "run"
  <2>1. "run" \in AllSteps \ {"fill", "error"}
    BY DEF AllSteps
  <2> QED
    BY <1>1, <2>1, CallsLeave DEF StepsFit, Todo
<1>3. PortFits' /\ PlacesKept /\ port' = port
  BY <1>1, PortAlone
<1>4. DeviceFits'
  BY <1>1, <1>2, <1>3, IdleIs DEF DeviceFits
<1>5. BufferFits'
  BY <1>1, <1>2, IdleIs, BufferAlone
<1>6. WayFits'
  BY <1>1, <1>2, <1>3, IdleIs, BufferKept, WayAlone
<1> QED
  BY <1>2, <1>3, <1>4, <1>5, <1>6 DEF SoundInv

LEMMA FlushKeeps ==
  ASSUME SoundInv, sound_flush
  PROVE  SoundInv'
<1>1. /\ Idle /\ PortKept /\ made' = made /\ gone' = gone
      /\ steps' \in {<<>>, <<"close">>, <<"close", "run", "sid">>, <<"run", "sid">>}
  BY DEF sound_flush
<1>2. StepsFit' /\ Todo' \in {"nothing", "close", "run"}
  <2>1. /\ "close" \in AllSteps \ {"fill", "error"} /\ "run" \in AllSteps /\ "sid" \in AllSteps \ {"fill", "error"}
        /\ MayFollow("run", "sid")
    BY DEF AllSteps, MayFollow
  <2>2. /\ GoodSteps(<<"close">>) /\ <<"close">> # <<>> /\ Head(<<"close">>) = "close"
        /\ GoodSteps(<<"run", "sid">>) /\ <<"run", "sid">> # <<>> /\ Head(<<"run", "sid">>) = "run"
    BY <2>1, CallsLeave
  <2>3. CASE steps' = <<>>
    BY <2>3, CallsLeave DEF StepsFit, Todo
  <2>4. CASE steps' = <<"close">>
    BY <2>2, <2>4 DEF StepsFit, Todo
  <2>5. CASE steps' = <<"close", "run", "sid">>
    BY <2>5, CallsLeave DEF StepsFit, Todo
  <2>6. CASE steps' = <<"run", "sid">>
    BY <2>2, <2>6 DEF StepsFit, Todo
  <2> QED
    BY <1>1, <2>3, <2>4, <2>5, <2>6
<1>3. PortFits' /\ PlacesKept /\ port' = port
  BY <1>1, PortAlone
<1>4. /\ snd' \in Snds /\ snd'.buffer = snd.buffer /\ snd'.nr = snd.nr
      /\ snd'.playdev = snd.playdev /\ snd'.sdev_open = snd.sdev_open
  <2>1. PICK over \in BOOLEAN :
          snd' = IF ~snd.playback_enabled THEN snd
                 ELSE [snd EXCEPT !.sound_state_changed = FALSE, !.disabletime = @ /\ ~(SuspendTime /\ over)]
    BY DEF sound_flush
  <2> DEFINE d == snd.disabletime /\ ~(SuspendTime /\ over)
  <2>2. d \in BOOLEAN /\ snd \in Snds
    BY <1>1, IdleIs
  <2>3. snd' = snd \/ snd' = [snd EXCEPT !.sound_state_changed = FALSE, !.disabletime = d]
    BY <2>1
  <2> HIDE DEF d
  <2> QED
    BY <2>2, <2>3 DEF Snds
<1>5. DeviceFits'
  BY <1>1, <1>2, <1>3, <1>4, IdleIs DEF DeviceFits
<1>6. BufferFits'
  BY <1>1, <1>2, <1>4, BufferAlone
<1>7. WayFits'
  BY <1>1, <1>2, <1>3, <1>4, IdleIs, BufferKept, WayAlone
<1> QED
  BY <1>2, <1>3, <1>5, <1>6, <1>7 DEF SoundInv

LEMMA SidKeeps ==
  ASSUME SoundInv, Sid
  PROVE  SoundInv'
<1>1. /\ steps # <<>> /\ Todo = "sid" /\ PortKept /\ made' = made /\ snd \in Snds /\ snd.playdev
      /\ snd.sdev_open /\ port.state = "started"
  BY TurnIs, InvParts DEF Sid, SoundInv, DeviceFits
<1>2. PortFits' /\ PlacesKept /\ port' = port
  BY <1>1, PortAlone
<1>3. /\ \A x \in AllSteps : ~ MayFollow(Todo, x)
      /\ "error" \in AllSteps /\ "fail" \in AllSteps \ {"fill", "error"} /\ MayFollow("error", "fail")
      /\ "resume" \in AllSteps /\ "space" \in AllSteps \ {"fill", "error"} /\ MayFollow("resume", "space")
  BY <1>1 DEF AllSteps, MayFollow
<1>4. /\ snd' \in Snds /\ snd'.nr = snd.nr /\ snd'.playdev /\ snd'.sdev_open
      /\ \/ snd'.buffer = snd.buffer /\ gone' = gone
         \/ snd'.buffer = <<>> /\ Drop(snd.buffer)
  <2>1. \/ snd' = snd /\ gone' = gone
        \/ snd' = [snd EXCEPT !.sid_state_changed = FALSE] /\ gone' = gone
        \/ snd' = [snd EXCEPT !.sid_state_changed = FALSE, !.buffer = <<>>] /\ Drop(snd.buffer)
    BY DEF Sid
  <2> DEFINE e == <<>>
  <2>2. e \in Seq(Nat) /\ e = <<>>
    OBVIOUS
  <2>3. \/ snd' = snd /\ gone' = gone
        \/ snd' = [snd EXCEPT !.sid_state_changed = FALSE] /\ gone' = gone
        \/ snd' = [snd EXCEPT !.sid_state_changed = FALSE, !.buffer = e] /\ Drop(snd.buffer)
    BY <2>1
  <2> HIDE DEF e
  <2>4. CASE snd' = snd /\ gone' = gone
    BY <1>1, <2>4
  <2>5. CASE snd' = [snd EXCEPT !.sid_state_changed = FALSE] /\ gone' = gone
    BY <1>1, <2>5 DEF Snds
  <2>6. CASE snd' = [snd EXCEPT !.sid_state_changed = FALSE, !.buffer = e] /\ Drop(snd.buffer)
    <3>1. snd' \in Snds
      BY <1>1, <2>2, <2>6 DEF Snds
    <3>2. snd'.buffer = e /\ snd'.nr = snd.nr /\ snd'.playdev /\ snd'.sdev_open
      BY <1>1, <2>6 DEF Snds
    <3> QED
      BY <2>2, <2>6, <3>1, <3>2
  <2> QED
    BY <2>3, <2>4, <2>5, <2>6
<1>5. StepsFit' /\ Todo' \in {"error", "nothing", "resume", "space"}
  <2>1. Do(<<"error", "fail">>) \/ Do(<<>>) \/ Do(<<"resume", "space">>) \/ Do(<<"space">>)
    BY DEF Sid
  <2>2. CASE Do(<<"error", "fail">>)
    BY <1>1, <1>3, <2>2, InvParts, TwoLeft
  <2>3. CASE Do(<<>>)
    <3>1. StepsFit' /\ (Todo' = "nothing" \/ (Todo' \in AllSteps /\ MayFollow(Todo, Todo')))
      BY <1>1, <2>3, InvParts, NoneLeft
    <3> QED
      BY <1>3, <3>1
  <2>4. CASE Do(<<"resume", "space">>)
    BY <1>1, <1>3, <2>4, InvParts, TwoLeft
  <2>5. CASE Do(<<"space">>)
    BY <1>1, <1>3, <2>5, InvParts, OneLeft
  <2> QED
    BY <2>1, <2>2, <2>3, <2>4, <2>5
<1>6. DeviceFits'
  BY <1>1, <1>2, <1>4, <1>5 DEF DeviceFits
<1>7. BufferFits'
  BY <1>1, <1>4, <1>5, BufferAlone
<1>8. WayFits'
  <2>1. Buffered' \subseteq Buffered /\ Buffered' \cup gone' = Buffered \cup gone
    BY <1>1, <1>4, <1>5, BufferKept, BufferDropped
  <2> QED
    BY <1>1, <1>2, <2>1, WayAlone
<1> QED
  BY <1>2, <1>5, <1>6, <1>7, <1>8 DEF SoundInv

\* Whole fragments are no more than there is.
LEMMA FragmentsFit ==
  ASSUME NEW n \in Nat
  PROVE  Fragments(n) \in 0 .. n
<1> DEFINE r == n % FRAGSIZE
<1>1. r \in Nat /\ r <= n
  BY SoundNumbers
<1> HIDE DEF r
<1>2. Fragments(n) = n - r
  BY DEF Fragments, r
<1> QED
  BY <1>1, <1>2

LEMMA SpaceKeeps ==
  ASSUME SoundInv, Space
  PROVE  SoundInv'
<1>1. /\ steps # <<>> /\ Todo = "space" /\ cond = "idle" /\ made' = made /\ gone' = gone /\ snd \in Snds
      /\ snd.playdev /\ snd.sdev_open /\ port.state = "started" /\ port \in Ports
  BY TurnIs, InvParts DEF Space, SoundInv, DeviceFits
<1> DEFINE nr == Fragments(Len(snd.buffer))
           space == Fragments(bufferspace)
           least == IF nr > space THEN space ELSE nr
<1>2. Len(snd.buffer) \in Nat /\ bufferspace \in Nat /\ bufferspace <= fifo_size
  <2>1. Len(port.fifo) \in Nat /\ Len(port.fifo) <= fifo_size
    BY <1>1 DEF SoundInv, PortFits, Ports
  <2> QED
    BY <1>1, <2>1, SoundNumbers DEF bufferspace, Snds
<1>3. nr \in 0 .. Len(snd.buffer) /\ space \in 0 .. bufferspace
  BY <1>2, FragmentsFit
<1>4. /\ snd' = [snd EXCEPT !.nr = least]
      /\ \/ Do(<<>>) /\ Write(<<>>)
         \/ Do(<<"write">>) /\ \E n \in Int : \E blocks \in {Fill(n), <<>>} : Write(blocks)
  <2>1. bufsize - nr \in Int
    BY <1>2, <1>3, SoundNumbers
  <2>2. snd' = [snd EXCEPT !.nr = least]
    BY DEF Space
  <2>3. \/ Do(<<>>) /\ Write(<<>>)
        \/ Do(<<"write">>) /\ (Write(Fill(bufsize - nr)) \/ Write(<<>>))
    BY DEF Space
  <2> QED
    BY <2>1, <2>2, <2>3
<1>5. least \in Nat /\ least <= Len(snd.buffer) /\ least <= bufsize
  BY <1>2, <1>3, SoundNumbers
<1> HIDE DEF nr, space, least
<1>6. /\ snd' \in Snds /\ snd'.buffer = snd.buffer /\ snd'.nr = least
      /\ snd'.playdev /\ snd'.sdev_open
  BY <1>1, <1>4, <1>5 DEF Snds
<1>7. \A x \in AllSteps : ~ MayFollow(Todo, x)
  BY <1>1 DEF MayFollow
<1>8. StepsFit' /\ Todo' \in {"nothing", "write"}
  <2>1. CASE Do(<<>>)
    <3>1. StepsFit' /\ (Todo' = "nothing" \/ (Todo' \in AllSteps /\ MayFollow(Todo, Todo')))
      BY <1>1, <2>1, InvParts, NoneLeft
    <3> QED
      BY <1>7, <3>1
  <2>2. CASE Do(<<"write">>)
    <3>1. "write" \in AllSteps \ {"fill", "error"}
      BY DEF AllSteps
    <3> QED
      BY <1>1, <1>7, <2>2, <3>1, InvParts, OneLeft
  <2> QED
    BY <1>4, <2>1, <2>2
<1>9. PICK n \in Int : \E blocks \in {Fill(n), <<>>} : Write(blocks)
  <2>1. 0 \in Int
    OBVIOUS
  <2> QED
    BY <1>4, <2>1
<1>10. PortFits' /\ WayFits'
  <2>1. Buffered' = Buffered
    BY <1>1, <1>6, <1>8, BufferKept
  <2> QED
    BY <1>1, <1>9, <2>1, WayFilled
<1>11. port' = port
  BY <1>9 DEF Write
<1>12. DeviceFits'
  BY <1>1, <1>6, <1>8, <1>11 DEF DeviceFits
<1>13. BufferFits'
  BY <1>1, <1>5, <1>6 DEF SoundInv, BufferFits, bufsize
<1> QED
  BY <1>8, <1>10, <1>12, <1>13 DEF SoundInv

LEMMA SuspendSoundKeeps ==
  ASSUME SoundInv, suspendsound
  PROVE  SoundInv'
<1>1. /\ steps # <<>> /\ Todo = "space" /\ PortKept /\ made' = made /\ gone' = gone /\ snd \in Snds
      /\ snd.playdev /\ snd.sdev_open /\ port.state = "started" /\ Do(<<>>)
      /\ snd' = [snd EXCEPT !.disabletime = TRUE, !.sound_state_changed = TRUE]
  BY TurnIs, InvParts DEF suspendsound, SoundInv, DeviceFits
<1>2. StepsFit' /\ Todo' = "nothing"
  <2>1. StepsFit' /\ (Todo' = "nothing" \/ MayFollow(Todo, Todo'))
    BY <1>1, InvParts, NoneLeft
  <2> QED
    BY <1>1, <2>1 DEF MayFollow
<1>3. PortFits' /\ PlacesKept /\ port' = port
  BY <1>1, PortAlone
<1>4. /\ snd' \in Snds /\ snd'.buffer = snd.buffer /\ snd'.nr = snd.nr
      /\ snd'.playdev /\ snd'.sdev_open
  BY <1>1 DEF Snds
<1>5. DeviceFits'
  BY <1>1, <1>2, <1>3, <1>4 DEF DeviceFits
<1>6. BufferFits'
  BY <1>1, <1>2, <1>4, BufferAlone
<1>7. WayFits'
  BY <1>1, <1>2, <1>3, <1>4, BufferKept, WayAlone
<1> QED
  BY <1>2, <1>3, <1>5, <1>6, <1>7 DEF SoundInv

LEMMA WriteFragmentsKeeps ==
  ASSUME SoundInv, WriteFragments
  PROVE  SoundInv'
<1>1. /\ steps # <<>> /\ Todo = "write" /\ cond = "idle" /\ Do(<<"flushed">>)
      /\ Write(Blocks(SubSeq(snd.buffer, 1, snd.nr))) /\ snd' = snd /\ made' = made /\ gone' = gone
      /\ snd.playdev /\ snd.sdev_open /\ port.state = "started"
  BY TurnIs DEF WriteFragments, SoundInv, DeviceFits
<1>2. StepsFit' /\ Todo' = "flushed"
  <2>1. "flushed" \in AllSteps \ {"fill", "error"} /\ \A x \in AllSteps : ~ MayFollow(Todo, x)
    BY <1>1 DEF AllSteps, MayFollow
  <2> QED
    BY <1>1, <2>1, InvParts, OneLeft
<1>3. made \in Nat /\ Halves(snd.buffer, made) /\ snd.nr \in 0 .. Len(snd.buffer)
  BY <1>1 DEF SoundInv, BufferFits, Snds
<1> DEFINE first == SubSeq(snd.buffer, 1, snd.nr)
           rest == SubSeq(snd.buffer, snd.nr + 1, Len(snd.buffer))
<1>4. TakenFits(snd.buffer, made, first, rest)
  BY <1>3, BlocksTaken
<1>5. Buffered = Numbers(Blocks(snd.buffer)) /\ Buffered' = Numbers(Blocks(rest)) /\ Write(Blocks(first))
  BY <1>1, <1>2, BufferIs
<1> HIDE DEF first, rest
<1>6. Blocks(first) \in Seq(Int) /\ Rising(Blocks(first))
  BY <1>3, <1>4, BlocksAre DEF TakenFits
<1>7. PortFits' /\ WayFits'
  BY <1>1, <1>4, <1>5, <1>6, WayWritten DEF TakenFits
<1>8. port' = port
  BY <1>1 DEF Write
<1>9. DeviceFits'
  BY <1>1, <1>2, <1>8 DEF DeviceFits
<1>10. BufferFits'
  BY <1>1, <1>3 DEF SoundInv, BufferFits, bufsize
<1> QED
  BY <1>2, <1>7, <1>9, <1>10 DEF SoundInv

\* What was written leaves the buffer, and without a speed limit what was not.
LEMMA FlushedKeeps ==
  ASSUME SoundInv, Flushed
  PROVE  SoundInv'
<1> DEFINE b == snd.buffer
           nr == IF snd.nolimit THEN Len(snd.buffer) ELSE snd.nr
           rest == SubSeq(b, nr + 1, Len(b))
           lost == SubSeq(b, snd.nr + 1, nr)
           left == SubSeq(b, snd.nr + 1, Len(b))
<1>1. /\ steps # <<>> /\ Todo = "flushed" /\ Do(<<>>) /\ PortKept /\ made' = made
      /\ snd' = [snd EXCEPT !.buffer = rest, !.nr = 0] /\ Drop(lost)
      /\ snd \in Snds /\ snd.playdev /\ snd.sdev_open /\ port.state = "started"
  BY TurnIs, InvParts DEF Flushed, SoundInv, DeviceFits
<1>2. StepsFit' /\ Todo' = "nothing"
  <2>1. StepsFit' /\ (Todo' = "nothing" \/ MayFollow(Todo, Todo'))
    BY <1>1, InvParts, NoneLeft
  <2> QED
    BY <1>1, <2>1 DEF MayFollow
<1>3. PortFits' /\ PlacesKept /\ port' = port
  BY <1>1, PortAlone
<1>4. /\ made \in Nat /\ Halves(b, made) /\ snd.nr \in 0 .. Len(b) /\ Len(b) \in Nat
      /\ Len(b) <= SOUND_BUFSIZE
  BY <1>1 DEF SoundInv, BufferFits, Snds
<1>5. /\ Halves(left, made) /\ Halves(<<>>, made) /\ Len(left) = Len(b) - snd.nr
      /\ Blocks(<<>>) = <<>> /\ Numbers(<<>>) = {} /\ Len(<<>>) = 0
  <2>1. Halves(left, made) /\ Len(left) = Len(b) - snd.nr
    BY <1>4, BlocksTaken DEF TakenFits
  <2>2. Halves(<<>>, made) /\ Blocks(<<>>) = <<>> /\ Len(<<>>) = 0
    BY DEF Halves, Blocks
  <2> QED
    BY <2>1, <2>2, NoNumbers
<1>6. \/ rest = <<>> /\ lost = left
      \/ rest = left /\ lost = <<>>
  <2>1. CASE snd.nolimit
    <3>1. nr = Len(b)
      BY <2>1
    <3>2. SubSeq(b, Len(b) + 1, Len(b)) = <<>>
      BY <1>4, SubSeqEmpty
    <3> QED
      BY <3>1, <3>2
  <2>2. CASE ~ snd.nolimit
    <3>1. nr = snd.nr
      BY <2>2
    <3>2. SubSeq(b, snd.nr + 1, snd.nr) = <<>>
      BY <1>4, SubSeqEmpty
    <3> QED
      BY <3>1, <3>2
  <2> QED
    BY <2>1, <2>2
<1>7. Buffered = Numbers(Blocks(left))
  BY <1>1, BufferIs
<1> HIDE DEF b, nr, rest, lost, left
<1>8. Halves(rest, made) /\ Len(rest) <= SOUND_BUFSIZE
  BY <1>4, <1>5, <1>6, SoundNumbers
<1>9. /\ snd' \in Snds /\ snd'.buffer = rest /\ snd'.nr = 0
      /\ snd'.playdev /\ snd'.sdev_open
  <2>1. rest \in Seq(Nat)
    BY <1>8 DEF Halves
  <2> DEFINE z == 0
  <2>2. z \in Nat /\ z = 0 /\ snd' = [snd EXCEPT !.buffer = rest, !.nr = z]
    BY <1>1
  <2> HIDE DEF z
  <2>3. snd' \in Snds
    BY <1>1, <2>1, <2>2 DEF Snds
  <2>4. snd'.buffer = rest /\ snd'.nr = z /\ snd'.playdev /\ snd'.sdev_open
    BY <1>1, <2>2 DEF Snds
  <2> QED
    BY <2>2, <2>3, <2>4
<1>10. DeviceFits'
  BY <1>1, <1>2, <1>3, <1>9 DEF DeviceFits
<1>11. BufferFits'
  BY <1>1, <1>2, <1>4, <1>8, <1>9, SoundNumbers DEF BufferFits, bufsize
<1>12. WayFits'
  <2>1. Buffered' = Numbers(Blocks(rest))
    BY <1>2, <1>9, BufferIs
  <2>2. gone' = gone \cup Numbers(Blocks(lost))
    BY <1>1 DEF Drop
  <2>3. Buffered' \subseteq Buffered /\ Buffered' \cup gone' = Buffered \cup gone
    BY <1>5, <1>6, <1>7, <2>1, <2>2
  <2> QED
    BY <1>1, <1>3, <2>3, WayAlone
<1> QED
  BY <1>2, <1>3, <1>10, <1>11, <1>12 DEF SoundInv

-----------------------------------------------------------------------------
(* Suspending and the settings *)

LEMMA SuspendKeeps ==
  ASSUME SoundInv, sound_suspend \/ sound_resume
  PROVE  SoundInv'
<1>1. /\ steps # <<>> /\ Todo \in {"suspend", "resume"} /\ cond = "idle" /\ Do(<<>>) /\ made' = made
      /\ gone' = gone /\ snd \in Snds /\ (snd.playdev <=> port.state = "started")
      /\ (snd.sdev_open <=> snd.playdev)
      /\ Todo = "resume" /\ Tail(steps) # <<>> => snd.playdev
  <2>1. /\ steps # <<>> /\ Todo \in {"suspend", "resume"} /\ cond = "idle" /\ Do(<<>>) /\ made' = made
        /\ gone' = gone
    BY TurnIs DEF sound_suspend, sound_resume
  <2> QED
    BY <2>1, InvParts DEF SoundInv, DeviceFits
<1>2. /\ StepsFit' /\ Todo' \in {"nothing", "space"}
      /\ Todo' = "space" => snd.playdev
  <2>1. /\ StepsFit' /\ (Todo' = "nothing" \/ MayFollow(Todo, Todo'))
        /\ Tail(steps) = <<>> => Todo' = "nothing"
    BY <1>1, InvParts, NoneLeft
  <2>2. /\ \A x : MayFollow("resume", x) => x = "space"
        /\ \A x : ~ MayFollow("suspend", x)
    BY DEF MayFollow
  <2> QED
    BY <1>1, <2>1, <2>2
<1>3. PICK blocks \in {Fill(FRAGSIZE), <<>>} : Write(blocks) /\ (snd.playdev \/ blocks = <<>>)
  <2>1. \/ Write(IF snd.playdev /\ ~snd.issuspended THEN Fill(FRAGSIZE) ELSE <<>>)
        \/ Write(IF snd.playdev /\ snd.issuspended THEN Fill(FRAGSIZE) ELSE <<>>)
    BY DEF sound_suspend, sound_resume
  <2>2. CASE snd.playdev
    BY <2>1, <2>2
  <2>3. CASE ~ snd.playdev
    BY <2>1, <2>3
  <2> QED
    BY <2>2, <2>3
<1>4. /\ snd' \in Snds /\ snd'.buffer = snd.buffer /\ snd'.nr = snd.nr
      /\ snd'.playdev = snd.playdev /\ snd'.sdev_open = snd.sdev_open
  <2> DEFINE u == snd.issuspended \/ snd.playdev
             v == snd.issuspended /\ ~ snd.playdev
  <2>1. u \in BOOLEAN /\ v \in BOOLEAN
    OBVIOUS
  <2>2. snd' = [snd EXCEPT !.issuspended = u] \/ snd' = [snd EXCEPT !.issuspended = v]
    BY DEF sound_suspend, sound_resume
  <2> HIDE DEF u, v
  <2> QED
    BY <1>1, <2>1, <2>2 DEF Snds
<1>5. port' = port
  BY <1>3 DEF Write
<1>6. PortFits' /\ WayFits'
  <2>1. Buffered' = Buffered
    BY <1>1, <1>2, <1>4, BufferKept
  <2>2. FRAGSIZE \in Int
    BY SoundNumbers
  <2> QED
    BY <1>1, <1>3, <2>1, <2>2, WayFilled
<1>7. DeviceFits'
  BY <1>1, <1>2, <1>4, <1>5 DEF DeviceFits
<1>8. BufferFits'
  BY <1>1, <1>2, <1>4, BufferAlone
<1> QED
  BY <1>2, <1>6, <1>7, <1>8 DEF SoundInv

\* What a setting may change of sound.c's variables: not the device, and the buffer only to empty it.
LEMMA SettingKeeps ==
  ASSUME SoundInv, Setting
  PROVE  SoundInv'
<1>1. Idle /\ PortKept /\ made' = made
  BY DEF Setting
<1>2. /\ steps = <<>> /\ Todo = "nothing" /\ cond = "idle" /\ StepsFit /\ snd \in Snds
      /\ (snd.playdev <=> port.state = "started") /\ (snd.sdev_open <=> snd.playdev)
  BY <1>1, IdleIs
<1>3. /\ snd' \in Snds /\ snd'.nr = snd.nr /\ snd'.playdev = snd.playdev /\ snd'.sdev_open = snd.sdev_open
      /\ \/ snd'.buffer = snd.buffer /\ gone' = gone
         \/ snd'.buffer = <<>> /\ Drop(snd.buffer)
  <2>1. CASE sound_reset
    <3> DEFINE e == <<>>
    <3>1. e \in Seq(Nat) /\ e = <<>> /\ snd' = [snd EXCEPT !.buffer = e] /\ Drop(snd.buffer)
      BY <2>1 DEF sound_reset
    <3> HIDE DEF e
    <3>2. snd' \in Snds
      BY <1>2, <3>1 DEF Snds
    <3>3. /\ snd'.buffer = e /\ snd'.nr = snd.nr /\ snd'.playdev = snd.playdev
          /\ snd'.sdev_open = snd.sdev_open
      BY <1>2, <3>1 DEF Snds
    <3> QED
      BY <3>1, <3>2, <3>3
  <2>2. CASE sound_set_warp_mode
    <3> DEFINE w == ~ snd.warp
    <3>1. w \in BOOLEAN /\ snd' = [snd EXCEPT !.warp = w] /\ gone' = gone
      BY <2>2 DEF sound_set_warp_mode
    <3> HIDE DEF w
    <3> QED
      BY <1>2, <3>1 DEF Snds
  <2>3. CASE pause
    BY <1>2, <2>3 DEF pause
  <2>4. CASE set_playback_enabled
    <3> DEFINE w == ~ snd.playback_enabled
    <3>1. w \in BOOLEAN /\ snd' = [snd EXCEPT !.playback_enabled = w] /\ gone' = gone
      BY <2>4 DEF set_playback_enabled
    <3> HIDE DEF w
    <3> QED
      BY <1>2, <3>1 DEF Snds
  <2>5. CASE sound_set_relative_speed
    <3> DEFINE w == ~ snd.nolimit
    <3>1. w \in BOOLEAN /\ snd' = [snd EXCEPT !.nolimit = w, !.sid_state_changed = TRUE] /\ gone' = gone
      BY <2>5 DEF sound_set_relative_speed
    <3> HIDE DEF w
    <3> QED
      BY <1>2, <3>1 DEF Snds
  <2>6. CASE set_device_name
    <3>1. snd' = [snd EXCEPT !.sound_state_changed = TRUE] /\ gone' = gone
      BY <2>6 DEF set_device_name
    <3> QED
      BY <1>2, <3>1 DEF Snds
  <2>7. CASE sid_snapshot_read_module
    <3>1. PICK sound \in BOOLEAN : snd' = [snd EXCEPT !.playback_enabled = sound]
      BY <2>7 DEF sid_snapshot_read_module
    <3>2. gone' = gone
      BY <2>7 DEF sid_snapshot_read_module
    <3> QED
      BY <1>2, <3>1, <3>2 DEF Snds
  <2> QED
    BY <2>1, <2>2, <2>3, <2>4, <2>5, <2>6, <2>7 DEF Setting
<1>4. /\ StepsFit' /\ Todo' \in {"nothing", "resume", "suspend", "close"}
      /\ Todo' = "resume" => Tail(steps') = <<>>
  <2>1. steps' \in {<<>>, <<"resume">>, <<"suspend">>, <<"close", "open">>, <<"close">>}
    BY <1>2 DEF Setting, sound_reset, sound_set_warp_mode, pause, set_playback_enabled,
                sound_set_relative_speed, set_device_name, sid_snapshot_read_module
  <2>2. /\ "close" \in AllSteps \ {"fill", "error"} /\ "open" \in AllSteps \ {"fill", "error"}
        /\ "resume" \in AllSteps \ {"fill", "error"} /\ "suspend" \in AllSteps \ {"fill", "error"}
        /\ MayFollow("close", "open")
    BY DEF AllSteps, MayFollow
  <2>3. CASE steps' = <<>>
    BY <2>3, CallsLeave DEF StepsFit, Todo
  <2>4. CASE steps' = <<"resume">>
    <3>1. /\ GoodSteps(<<"resume">>) /\ <<"resume">> # <<>> /\ Head(<<"resume">>) = "resume"
          /\ Tail(<<"resume">>) = <<>>
      BY <2>2, CallsLeave
    <3> QED
      BY <2>4, <3>1 DEF StepsFit, Todo
  <2>5. CASE steps' = <<"suspend">>
    <3>1. GoodSteps(<<"suspend">>) /\ <<"suspend">> # <<>> /\ Head(<<"suspend">>) = "suspend"
      BY <2>2, CallsLeave
    <3> QED
      BY <2>5, <3>1 DEF StepsFit, Todo
  <2>6. CASE steps' = <<"close", "open">>
    <3>1. /\ GoodSteps(<<"close", "open">>) /\ <<"close", "open">> # <<>>
          /\ Head(<<"close", "open">>) = "close"
      BY <2>2, CallsLeave
    <3> QED
      BY <2>6, <3>1 DEF StepsFit, Todo
  <2>7. CASE steps' = <<"close">>
    <3>1. GoodSteps(<<"close">>) /\ <<"close">> # <<>> /\ Head(<<"close">>) = "close"
      BY <2>2, CallsLeave
    <3> QED
      BY <2>7, <3>1 DEF StepsFit, Todo
  <2> QED
    BY <2>1, <2>3, <2>4, <2>5, <2>6, <2>7
<1>5. PortFits' /\ PlacesKept /\ port' = port
  BY <1>1, PortAlone
<1>6. DeviceFits'
  BY <1>2, <1>3, <1>4, <1>5 DEF DeviceFits
<1>7. BufferFits'
  BY <1>1, <1>3, <1>4, BufferAlone
<1>8. WayFits'
  <2>1. Buffered' \subseteq Buffered /\ Buffered' \cup gone' = Buffered \cup gone
    BY <1>2, <1>3, <1>4, BufferKept, BufferDropped
  <2> QED
    BY <1>1, <1>5, <2>1, WayAlone
<1> QED
  BY <1>4, <1>5, <1>6, <1>7, <1>8 DEF SoundInv

-----------------------------------------------------------------------------
(* The port and its thread *)

\* While the emulator's thread is in a write or elsewhere its own variables stay.
LEMMA EmulatorKept ==
  ASSUME SoundInv, Kept, port'.state = port.state
  PROVE  /\ StepsFit' /\ DeviceFits' /\ BufferFits' /\ Buffered' = Buffered /\ gone' = gone /\ made' = made
<1>1. snd' = snd /\ steps' = steps /\ made' = made /\ gone' = gone
  BY DEF Kept
<1>2. Todo' = Todo /\ Buffered' = Buffered
  BY <1>1 DEF Todo, Buffered, InBuffer
<1>3. StepsFit' /\ BufferFits'
  BY <1>1, <1>2 DEF SoundInv, StepsFit, BufferFits, bufsize
<1>4. DeviceFits'
  BY <1>1, <1>2 DEF SoundInv, DeviceFits
<1> QED
  BY <1>1, <1>2, <1>3, <1>4

\* A step of a thread that moves no block.
LEMMA NothingMoves ==
  ASSUME SoundInv, Kept, PlacesKept, PortFits', port'.state = port.state
  PROVE  SoundInv'
BY EmulatorKept, WayAlone DEF SoundInv

LEMMA FifoWriteKeeps ==
  ASSUME SoundInv, fifo_write, Kept
  PROVE  SoundInv'
<1> DEFINE room == fifo_size - Len(port.fifo)
           wrote == IF Len(unwritten) < room THEN Len(unwritten) ELSE room
           first == SubSeq(unwritten, 1, wrote)
           rest == SubSeq(unwritten, wrote + 1, Len(unwritten))
           queue == port.fifo \o first
<1>1. /\ cond = "write" /\ port' = [port EXCEPT !.fifo = queue] /\ unwritten' = rest
      /\ cond' = IF wrote = Len(unwritten) THEN "idle" ELSE "to_wait"
      /\ loop' = loop /\ heard' = heard
  BY DEF fifo_write
<1>2. /\ port \in Ports /\ unwritten \in Seq(Int) /\ port.fifo \in Seq(Int) /\ Len(port.fifo) <= fifo_size
      /\ Rising(unwritten) /\ Rising(port.fifo) /\ port.state = "started" /\ Len(port.fifo) \in Nat
      /\ Len(unwritten) \in Nat
  BY <1>1 DEF SoundInv, PortFits, Ports, WayFits
<1>3. wrote \in 0 .. Len(unwritten) /\ wrote <= room
  <2>1. room \in Nat /\ Len(unwritten) \in Nat
    BY <1>2, SoundNumbers
  <2> HIDE DEF room
  <2> QED
    BY <2>1
<1> HIDE DEF wrote
<1>4. CutFits(unwritten, wrote, first, rest)
  BY <1>2, <1>3, NumbersCut
<1> HIDE DEF first, rest
<1>5. /\ first \in Seq(Int) /\ rest \in Seq(Int) /\ Len(first) = wrote /\ Len(rest) = Len(unwritten) - wrote
      /\ Rising(first) /\ Rising(rest) /\ Before(Numbers(first), Numbers(rest))
      /\ Left = Numbers(first) \cup Numbers(rest)
  BY <1>4 DEF CutFits, Left
<1>6. /\ SetsFit(Heard, Out, Ahead, Queued \cup Numbers(first), Numbers(rest), Buffered, gone, made)
      /\ Before(Queued, Numbers(first))
  BY <1>5, Sent DEF SoundInv, WayFits
<1>7. queue \in Seq(Int) /\ Numbers(queue) = Queued \cup Numbers(first) /\ Rising(queue)
  BY <1>2, <1>5, <1>6, NumbersConcat DEF Queued
<1>8. Len(queue) = Len(port.fifo) + wrote
  BY <1>2, <1>5, ConcatProperties
<1> HIDE DEF queue
<1>9. /\ port' \in Ports /\ port'.fifo = queue /\ port'.ahead = port.ahead /\ port'.state = "started"
      /\ port'.out_buffer = port.out_buffer /\ port'.notified = port.notified
  BY <1>1, <1>2, <1>7 DEF Ports
<1>10. PortFits'
  <2>1. Len(port'.fifo) <= fifo_size
    BY <1>2, <1>3, <1>8, <1>9, SoundNumbers
  <2>2. rest = <<>> <=> wrote = Len(unwritten)
    <3>1. rest = <<>> <=> Len(rest) = 0
      BY <1>5
    <3>2. wrote \in Nat /\ Len(unwritten) \in Nat /\ Len(rest) = Len(unwritten) - wrote
      BY <1>2, <1>3, <1>5
    <3> QED
      BY <3>1, <3>2
  <2>3. /\ cond' \in {"idle", "to_wait"}
        /\ cond' # "idle" <=> unwritten' # <<>>
    BY <1>1, <2>2
  <2>4. unwritten' \in Seq(Int)
    BY <1>1, <1>5
  <2> QED
    BY <1>1, <1>9, <2>1, <2>3, <2>4 DEF SoundInv, PortFits
<1>11. /\ StepsFit' /\ DeviceFits' /\ BufferFits' /\ Buffered' = Buffered /\ gone' = gone /\ made' = made
  BY <1>2, <1>9, EmulatorKept
<1>12. WayFits'
  <2>1. /\ Heard' = Heard /\ Out' = Out /\ Ahead' = Ahead /\ Queued' = Queued \cup Numbers(first)
        /\ Left' = Numbers(rest)
    BY <1>1, <1>7, <1>9 DEF Heard, Out, Ahead, Queued, Left
  <2>2. SetsFit(Heard', Out', Ahead', Queued', Left', Buffered', gone', made')
    BY <1>6, <1>11, <2>1
  <2>3. Rising(Reverse(heard')) /\ Rising(port'.fifo) /\ Rising(unwritten')
    BY <1>1, <1>5, <1>7, <1>9 DEF SoundInv, WayFits
  <2> QED
    BY <2>2, <2>3 DEF WayFits
<1> QED
  BY <1>10, <1>11, <1>12 DEF SoundInv

\* Waiting and waking move nothing.
LEMMA WaitKeeps ==
  ASSUME SoundInv, Kept,
         \/ cond_wait \/ SpuriousWakeup \/ CreateNotifyEventQueue \/ TestQuit \/ wake
  PROVE  SoundInv'
<1>1. /\ port' = port /\ unwritten' = unwritten /\ heard' = heard
      /\ \/ loop' = loop
         \/ loop = "begin" /\ loop' = "test"
         \/ loop = "test" /\ loop' \in {"ended", "receive"}
         \/ loop = "wake" /\ loop' = "test"
      /\ \/ cond' = cond
         \/ cond = "to_wait" /\ cond' = "waiting"
         \/ cond = "waiting" /\ cond' = "write"
  BY DEF cond_wait, SpuriousWakeup, CreateNotifyEventQueue, TestQuit, wake
<1>2. PlacesKept
  BY <1>1 DEF PlacesKept
<1>3. PortFits'
  BY <1>1 DEF SoundInv, PortFits, Ports
<1> QED
  BY <1>1, <1>2, <1>3, NothingMoves

LEMMA NotifyKeeps ==
  ASSUME SoundInv, Kept, Notify \/ event_queue_receive
  PROVE  SoundInv'
<1>1. port \in Ports /\ port.notified \in Nat /\ port.notified <= MaxNotify
  BY DEF SoundInv, PortFits, Ports
<1>2. PICK n \in 0 .. MaxNotify :
        /\ port' = [port EXCEPT !.notified = n] /\ cond' = cond /\ unwritten' = unwritten /\ heard' = heard
        /\ loop' = loop \/ (loop = "receive" /\ loop' = "pull")
  <2>1. CASE Notify
    <3>1. /\ port.notified + 1 \in 0 .. MaxNotify /\ port' = [port EXCEPT !.notified = port.notified + 1]
          /\ loop' = loop /\ cond' = cond /\ unwritten' = unwritten /\ heard' = heard
      BY <1>1, <2>1, SoundNumbers DEF Notify
    <3> QED
      BY <3>1
  <2>2. CASE event_queue_receive
    <3>1. /\ port.notified - 1 \in 0 .. MaxNotify /\ port' = [port EXCEPT !.notified = port.notified - 1]
          /\ loop = "receive" /\ loop' = "pull" /\ cond' = cond /\ unwritten' = unwritten /\ heard' = heard
      BY <1>1, <2>2, SoundNumbers DEF event_queue_receive
    <3> QED
      BY <3>1
  <2> QED
    BY <2>1, <2>2
<1>3. n \in Nat /\ n <= MaxNotify
  BY SoundNumbers
<1>4. /\ port' \in Ports /\ port'.state = port.state /\ port'.fifo = port.fifo /\ port'.ahead = port.ahead
      /\ port'.out_buffer = port.out_buffer /\ port'.notified <= MaxNotify
  BY <1>1, <1>2, <1>3 DEF Ports
<1>5. port.state = "started"
  BY DEF Notify, event_queue_receive, SoundInv, PortFits
<1>6. PortFits'
  BY <1>2, <1>4, <1>5 DEF SoundInv, PortFits
<1>7. PlacesKept
  BY <1>2, <1>4 DEF PlacesKept
<1> QED
  BY <1>4, <1>6, <1>7, NothingMoves

\* The next block of the queue, or silence, goes into the resampler, and what it held comes out.
LEMMA PullKeeps ==
  ASSUME SoundInv, Kept, pull
  PROVE  SoundInv'
<1> DEFINE block == IF port.fifo = <<>> THEN Silence ELSE Head(port.fifo)
           rest == IF port.fifo = <<>> THEN <<>> ELSE Tail(port.fifo)
           was == IF port.ahead = <<>> THEN Silence ELSE port.ahead[1]
<1>1. /\ port \in Ports /\ loop = "pull" /\ port.state = "started" /\ port.out_buffer = 0
      /\ port.fifo \in Seq(Int) /\ Rising(port.fifo) /\ Len(port.fifo) <= fifo_size
      /\ port.ahead \in Seq(Int) /\ Len(port.ahead) <= 1 /\ Len(port.ahead) \in Nat
  BY DEF pull, SoundInv, PortFits, Ports, WayFits, Silence
<1>2. /\ cond' = cond /\ unwritten' = unwritten /\ heard' = heard
      /\ \/ /\ port.ahead = <<>> /\ loop' = loop
            /\ port' = [port EXCEPT !.fifo = rest, !.ahead = <<block>>]
         \/ /\ port.ahead # <<>> /\ loop' = "add"
            /\ port' = [port EXCEPT !.fifo = rest, !.ahead = <<block>>, !.out_buffer = port.ahead[1]]
  BY DEF pull
<1>3. /\ block \in Int /\ rest \in Seq(Int) /\ Rising(rest) /\ Len(rest) <= fifo_size
      /\ Queued = Numbers(<<block>>) \cup Numbers(rest) /\ Before(Numbers(<<block>>), Numbers(rest))
  <2>1. CASE port.fifo = <<>>
    <3>1. block = 0 /\ rest = <<>> /\ Numbers(<<0>>) = {} /\ Numbers(<<>>) = {} /\ Len(<<>>) = 0 /\ Rising(<<>>)
      BY <2>1, NoPortIs, NoNumbers
    <3> QED
      BY <2>1, <3>1, SoundNumbers, NoNumbers DEF Queued, Before
  <2>2. CASE port.fifo # <<>>
    <3>1. block = Head(port.fifo) /\ rest = Tail(port.fifo)
      BY <2>2
    <3>2. Head(port.fifo) \in Int /\ CutFits(port.fifo, 1, <<Head(port.fifo)>>, Tail(port.fifo))
      BY <1>1, <2>2, HeadThenTail
    <3>3. Len(port.fifo) \in Nat
      BY <1>1
    <3>4. Len(rest) <= fifo_size
      BY <1>1, <3>1, <3>2, <3>3, SoundNumbers DEF CutFits
    <3> QED
      BY <3>1, <3>2, <3>4 DEF CutFits, Queued
  <2> QED
    BY <2>1, <2>2
<1>4. was \in Int /\ Numbers(<<was>>) = Ahead
  <2>1. CASE port.ahead = <<>>
    <3>1. was = 0
      BY <2>1 DEF Silence
    <3>2. Ahead = {}
      BY <2>1, NoNumbers DEF Ahead
    <3> HIDE DEF was
    <3>3. Numbers(<<was>>) = {}
      BY <3>1, NoPortIs
    <3> QED
      BY <3>1, <3>2, <3>3
  <2>2. CASE port.ahead # <<>>
    <3>1. Len(port.ahead) = 1 /\ port.ahead[1] \in Int
      <4> DEFINE a == port.ahead
      <4>1. a \in Seq(Int) /\ Len(a) \in Nat /\ Len(a) <= 1 /\ a # <<>>
        BY <1>1, <2>2
      <4> SUFFICES Len(a) = 1 /\ a[1] \in Int
        OBVIOUS
      <4> HIDE DEF a
      <4>2. Len(a) # 0
        BY <4>1
      <4> DEFINE n == Len(a)
      <4>3. n = 1
        <5>1. n \in Nat /\ n <= 1 /\ n # 0
          BY <4>1, <4>2
        <5> HIDE DEF n
        <5> QED
          BY <5>1
      <4> QED
        BY <4>1, <4>3
    <3>2. port.ahead = <<port.ahead[1]>>
      <4> DEFINE a == port.ahead
                 x == a[1]
                 s == <<x>>
      <4>1. a \in Seq(Int) /\ Len(a) = 1 /\ x = a[1]
        BY <1>1, <3>1
      <4>2. s \in Seq(Int) /\ Len(s) = 1 /\ s[1] = x
        BY <3>1
      <4> SUFFICES a = s
        OBVIOUS
      <4> HIDE DEF a, x, s
      <4>3. \A i \in 1 .. Len(a) : a[i] = s[i]
        BY <4>1, <4>2
      <4> QED
        BY <4>1, <4>2, <4>3, SeqEqual
    <3> QED
      BY <2>2, <3>1, <3>2 DEF Ahead
  <2> QED
    BY <2>1, <2>2
<1> DEFINE ahead == <<block>>
<1>5. ahead \in Seq(Int) /\ Len(ahead) = 1
  BY <1>3
<1>6. /\ Numbers(ahead) \cup Numbers(rest) = Queued
      /\ Before(Numbers(ahead), Numbers(rest))
  BY <1>3
<1>7. /\ cond' = cond /\ unwritten' = unwritten /\ heard' = heard
      /\ \/ /\ port.ahead = <<>> /\ loop' = loop /\ was = 0
            /\ port' = [port EXCEPT !.fifo = rest, !.ahead = ahead]
         \/ /\ port.ahead # <<>> /\ loop' = "add"
            /\ port' = [port EXCEPT !.fifo = rest, !.ahead = ahead, !.out_buffer = was]
  BY <1>2 DEF Silence
<1> HIDE DEF block, rest, was, ahead
<1>8. /\ port' \in Ports /\ port'.state = "started" /\ port'.notified = port.notified
      /\ port'.fifo = rest /\ port'.ahead = ahead /\ port'.out_buffer = was
      /\ loop' # "add" => was = 0
  BY <1>1, <1>3, <1>4, <1>5, <1>7 DEF Ports
<1>9. PortFits'
  <2>1. loop' \in {"pull", "add"}
    BY <1>1, <1>7
  <2>2. /\ cond' \in {"idle", "write", "to_wait", "waiting"} /\ unwritten' \in Seq(Int) /\ heard' \in Seq(Int)
        /\ cond' # "idle" <=> unwritten' # <<>>
    BY <1>7 DEF SoundInv, PortFits
  <2>3. port'.notified <= MaxNotify /\ Len(port'.fifo) <= fifo_size /\ Len(port'.ahead) <= 1
    <3>1. port'.notified <= MaxNotify
      BY <1>8 DEF SoundInv, PortFits
    <3>2. Len(port'.fifo) <= fifo_size
      BY <1>3, <1>8
    <3>3. Len(port'.ahead) = 1 /\ 1 <= 1
      BY <1>5, <1>8
    <3> QED
      BY <3>1, <3>2, <3>3
  <2>4. loop' # "add" => port'.out_buffer = Silence
    BY <1>8 DEF Silence
  <2> QED
    BY <1>8, <2>1, <2>2, <2>3, <2>4 DEF PortFits
<1>10. /\ StepsFit' /\ DeviceFits' /\ BufferFits' /\ Buffered' = Buffered /\ gone' = gone /\ made' = made
  BY <1>1, <1>8, EmulatorKept
<1>11. WayFits'
  <2>1. Out = {}
    BY <1>1, NoPortIs DEF Out
  <2>2. SetsFit(Heard, Ahead, Numbers(ahead), Numbers(rest), Left, Buffered, gone, made)
    BY <1>6, <2>1, Pulled DEF SoundInv, WayFits
  <2>3. /\ Heard' = Heard /\ Out' = Ahead /\ Ahead' = Numbers(ahead) /\ Queued' = Numbers(rest)
        /\ Left' = Left
    BY <1>4, <1>7, <1>8 DEF Heard, Out, Ahead, Queued, Left
  <2>4. SetsFit(Heard', Out', Ahead', Queued', Left', Buffered', gone', made')
    BY <1>10, <2>2, <2>3
  <2>5. Rising(Reverse(heard')) /\ Rising(port'.fifo) /\ Rising(unwritten')
    BY <1>3, <1>7, <1>8 DEF SoundInv, WayFits
  <2> QED
    BY <2>4, <2>5 DEF WayFits
<1> QED
  BY <1>9, <1>10, <1>11 DEF SoundInv

LEMMA AddKeeps ==
  ASSUME SoundInv, Kept, Add2chData
  PROVE  SoundInv'
<1> DEFINE x == port.out_buffer
<1>1. /\ port \in Ports /\ loop = "add" /\ loop' = "wake" /\ cond' = cond /\ unwritten' = unwritten
      /\ heard' = (IF x > 0 THEN <<x>> \o heard ELSE heard) /\ port' = [port EXCEPT !.out_buffer = 0]
      /\ heard \in Seq(Int) /\ x \in Int /\ port.state = "started" /\ Rising(Reverse(heard))
  BY DEF Add2chData, SoundInv, PortFits, Ports, WayFits, Silence
<1>2. /\ port' \in Ports /\ port'.state = port.state /\ port'.fifo = port.fifo /\ port'.ahead = port.ahead
      /\ port'.notified = port.notified /\ port'.out_buffer = 0
  <2> DEFINE z == 0
  <2>1. z \in Int /\ z = 0 /\ port' = [port EXCEPT !.out_buffer = z]
    BY <1>1
  <2> HIDE DEF z
  <2> QED
    BY <1>1, <2>1 DEF Ports
<1>3. /\ SetsFit(Heard, Out, Ahead, Queued, Left, Buffered, gone, made) /\ Before(Heard, Out)
      /\ Out = IF x > 0 THEN {x} ELSE {}
  BY <1>1, OneNumber DEF SoundInv, WayFits, SetsFit, Out
<1>4. heard' \in Seq(Int) /\ Heard' = Heard \cup Out /\ Rising(Reverse(heard'))
  <2>1. CASE x > 0
    <3>1. <<x>> \in Seq(Int) /\ Numbers(<<x>>) = {x} /\ Rising(<<x>>)
      BY <1>1, <2>1, OneNumber
    <3>2. heard' \in Seq(Int) /\ Numbers(heard') = {x} \cup Heard
      BY <1>1, <2>1, <3>1, NumbersConcat DEF Heard
    <3>3. Reverse(heard') = Reverse(heard) \o <<x>> /\ Reverse(heard) \in Seq(Int) /\ Numbers(Reverse(heard)) = Heard
      BY <1>1, <2>1, HeardGrows DEF Heard
    <3>4. Before(Numbers(Reverse(heard)), Numbers(<<x>>))
      BY <1>3, <2>1, <3>1, <3>3
    <3>5. Rising(Reverse(heard) \o <<x>>)
      BY <1>1, <3>1, <3>3, <3>4, NumbersConcat
    <3> QED
      BY <1>3, <2>1, <3>2, <3>3, <3>5 DEF Heard
  <2>2. CASE ~ (x > 0)
    BY <1>1, <1>3, <2>2 DEF Heard
  <2> QED
    BY <2>1, <2>2
<1>5. PortFits'
  BY <1>1, <1>2, <1>4 DEF SoundInv, PortFits, Silence
<1>6. /\ StepsFit' /\ DeviceFits' /\ BufferFits' /\ Buffered' = Buffered /\ gone' = gone /\ made' = made
  BY <1>2, EmulatorKept
<1>7. WayFits'
  <2>1. SetsFit(Heard \cup Out, {}, Ahead, Queued, Left, Buffered, gone, made)
    BY <1>3, Played
  <2>2. Out' = {} /\ Ahead' = Ahead /\ Queued' = Queued /\ Left' = Left
    BY <1>1, <1>2, NoPortIs DEF Out, Ahead, Queued, Left
  <2>3. SetsFit(Heard', Out', Ahead', Queued', Left', Buffered', gone', made')
    BY <1>4, <1>6, <2>1, <2>2
  <2>4. Rising(port'.fifo) /\ Rising(unwritten')
    BY <1>1, <1>2 DEF SoundInv, WayFits
  <2> QED
    BY <1>4, <2>3, <2>4 DEF WayFits
<1> QED
  BY <1>5, <1>6, <1>7 DEF SoundInv

-----------------------------------------------------------------------------
(* The results *)

LEMMA SoundBegins == SndInit => SoundInv
<1> SUFFICES ASSUME SndInit PROVE SoundInv
  OBVIOUS
<1>1. /\ port = NoPort /\ loop = "ended" /\ cond = "idle" /\ unwritten = <<>> /\ heard = <<>>
      /\ steps = <<>> /\ made = 0 /\ gone = {} /\ snd.buffer = <<>>
  BY DEF SndInit
<1>2. /\ <<>> \in Seq(Int) /\ Reverse(<<>>) = <<>> /\ Rising(<<>>) /\ Numbers(<<>>) = {}
      /\ Halves(<<>>, 0) /\ Blocks(<<>>) = <<>>
  BY NoNumbers DEF Reverse, Halves, Blocks
<1>3. PortFits
  BY <1>1, <1>2, NoPortIs, SoundNumbers DEF PortFits
<1>4. StepsFit /\ Todo = "nothing"
  BY <1>1, CallsLeave DEF StepsFit, Todo
<1>5. snd \in Snds /\ ~ snd.playdev /\ ~ snd.sdev_open /\ snd.nr = 0
  <2> DEFINE e == <<>>
             z == 0
  <2>1. e \in Seq(Nat) /\ z \in Nat /\ z = 0
        /\ snd = [ playback_enabled |-> TRUE, sound_state_changed |-> FALSE, sid_state_changed |-> FALSE,
                   warp |-> FALSE, nolimit |-> FALSE, playdev |-> FALSE, sdev_open |-> FALSE,
                   issuspended |-> FALSE, disabletime |-> FALSE, buffer |-> e, nr |-> z ]
    BY DEF SndInit
  <2> HIDE DEF e, z
  <2>2. snd \in Snds
    BY <2>1 DEF Snds
  <2>3. ~ snd.playdev /\ ~ snd.sdev_open /\ snd.nr = z
    BY <2>1
  <2> QED
    BY <2>1, <2>2, <2>3
<1>6. DeviceFits
  BY <1>1, <1>4, <1>5, NoPortIs DEF DeviceFits
<1>7. BufferFits
  BY <1>1, <1>2, <1>4, <1>5, NoPortIs, SoundNumbers DEF BufferFits
<1>8. WayFits
  <2>1. /\ Heard = {} /\ Out = {} /\ Ahead = {} /\ Queued = {} /\ Left = {}
        /\ Buffered = {}
    <3>1. Heard = {} /\ Out = {} /\ Ahead = {} /\ Queued = {} /\ Left = {}
      BY <1>1, <1>2, NoPortIs DEF Heard, Out, Ahead, Queued, Left
    <3>2. InBuffer = snd.buffer
      BY <1>1 DEF InBuffer
    <3>3. Buffered = {}
      BY <1>1, <1>2, <3>2 DEF Buffered
    <3> QED
      BY <3>1, <3>3
  <2>2. 1 .. 2 * made = {}
    BY <1>1
  <2>3. SetsFit(Heard, Out, Ahead, Queued, Left, Buffered, gone, made)
    BY <1>1, <2>1, <2>2 DEF SetsFit, Before
  <2>4. Rising(Reverse(heard)) /\ Rising(port.fifo) /\ Rising(unwritten)
    BY <1>1, <1>2, NoPortIs
  <2> QED
    BY <2>3, <2>4 DEF WayFits
<1> QED
  BY <1>3, <1>4, <1>6, <1>7, <1>8 DEF SoundInv

LEMMA SoundStays ==
  ASSUME SoundInv, UNCHANGED sndVars
  PROVE  SoundInv'
<1>1. /\ port' = port /\ loop' = loop /\ cond' = cond /\ unwritten' = unwritten /\ heard' = heard
      /\ snd' = snd /\ steps' = steps /\ made' = made /\ gone' = gone
  BY DEF sndVars
<1>2. Kept /\ PlacesKept
  BY <1>1 DEF Kept, PlacesKept
<1>3. PortFits'
  BY <1>1 DEF SoundInv, PortFits, Ports
<1> QED
  BY <1>1, <1>2, <1>3, NothingMoves

LEMMA SoundGoesOn == SoundInv /\ [SndNext]_sndVars => SoundInv'
<1> SUFFICES ASSUME SoundInv, [SndNext]_sndVars PROVE SoundInv'
  OBVIOUS
<1>1. CASE Open \/ FillUp \/ Opened \/ Fail \/ sound_error
  BY <1>1, OpenKeeps, FillUpKeeps, OpenedKeeps, FailKeeps, ErrorKeeps
<1>2. CASE Close \/ Join \/ Closed
  BY <1>2, CloseKeeps, JoinKeeps, ClosedKeeps
<1>3. CASE Run \/ Sid \/ Space \/ WriteFragments \/ Flushed
  BY <1>3, RunKeeps, SidKeeps, SpaceKeeps, WriteFragmentsKeeps, FlushedKeeps
<1>4. CASE sound_suspend \/ sound_resume \/ suspendsound
  BY <1>4, SuspendKeeps, SuspendSoundKeeps
<1>5. CASE sound_store \/ sound_flush \/ Setting
  BY <1>5, StoreKeeps, FlushKeeps, SettingKeeps
<1>6. CASE WriterStep
  BY <1>6, FifoWriteKeeps, WaitKeeps DEF WriterStep
<1>7. CASE ThreadStep
  BY <1>7, WaitKeeps, NotifyKeeps, PullKeeps, AddKeeps DEF ThreadStep, event_loop
<1>8. CASE HardwareStep \/ (SpuriousWakeup /\ Kept)
  BY <1>8, NotifyKeeps, WaitKeeps DEF HardwareStep
<1>9. CASE UNCHANGED sndVars
  BY <1>9, SoundStays
<1> QED
  BY <1>1, <1>2, <1>3, <1>4, <1>5, <1>6, <1>7, <1>8, <1>9 DEF SndNext, Emulator

LEMMA SoundAlways == SndSpec => []SoundInv
BY SoundBegins, SoundGoesOn, PTL DEF SndSpec

\* The values of the port's and of sound.c's variables.
THEOREM SoundTypes == SndSpec => []SndTypeOK
<1>1. SoundInv => SndTypeOK
  <2> SUFFICES ASSUME SoundInv PROVE SndTypeOK
    OBVIOUS
  <2>1. /\ port.state \in {"none", "started"} /\ port.notified \in 0 .. MaxNotify
        /\ Len(port.fifo) <= fifo_size
    BY SoundNumbers DEF SoundInv, PortFits, Ports
  <2>2. /\ loop \in {"begin", "test", "receive", "pull", "add", "wake", "ended"}
        /\ cond \in {"idle", "write", "to_wait", "waiting"}
        /\ cond # "idle" <=> unwritten # <<>>
        /\ cond # "idle" => port.state = "started"
    BY DEF SoundInv, PortFits
  <2>3. Len(snd.buffer) <= SOUND_BUFSIZE /\ snd.nr \in 0 .. bufsize
    BY SoundNumbers DEF SoundInv, BufferFits, Snds
  <2> QED
    BY <2>1, <2>2, <2>3, InvParts DEF SndTypeOK
<1> QED
  BY <1>1, SoundAlways, PTL

\* What is on its way, one place after another.
LEMMA WayIs ==
  ASSUME SoundInv
  PROVE  /\ Reverse(heard) \o OnTheWay \in Seq(Int) /\ Rising(Reverse(heard) \o OnTheWay)
         /\ Numbers(heard \o OnTheWay) \cup gone = 1 .. 2 * made
<1> DEFINE o == <<port.out_buffer>>
           b == Blocks(InBuffer)
           oa == o \o port.ahead
           oaq == oa \o port.fifo
           oaql == oaq \o unwritten
           all == oaql \o b
<1>1. /\ heard \in Seq(Int) /\ unwritten \in Seq(Int) /\ port.fifo \in Seq(Int) /\ port.ahead \in Seq(Int)
      /\ port.out_buffer \in Int /\ Len(port.ahead) <= 1
      /\ Rising(Reverse(heard)) /\ Rising(port.fifo) /\ Rising(unwritten)
      /\ SetsFit(Heard, Out, Ahead, Queued, Left, Buffered, gone, made)
  BY DEF SoundInv, PortFits, WayFits, Ports
<1>2. b \in Seq(Int) /\ Rising(b) /\ Numbers(b) = Buffered
  <2>1. made \in Nat /\ Halves(snd.buffer, made)
    BY DEF SoundInv, BufferFits
  <2>2. Halves(InBuffer, made)
    <3>1. CASE Todo = "flushed"
      <4>1. snd.nr \in 0 .. Len(snd.buffer)
        BY <3>1 DEF SoundInv, BufferFits, Snds
      <4>2. InBuffer = SubSeq(snd.buffer, snd.nr + 1, Len(snd.buffer))
        BY <3>1 DEF Todo, InBuffer
      <4> QED
        BY <2>1, <4>1, <4>2, BlocksTaken DEF TakenFits
    <3>2. CASE Todo # "flushed"
      BY <2>1, <3>2 DEF Todo, InBuffer
    <3> QED
      BY <3>1, <3>2
  <2> QED
    BY <2>1, <2>2, BlocksAre DEF Buffered
<1>3. OnTheWay = all
  BY DEF OnTheWay
<1>4. Numbers(o) = Out /\ Rising(o) /\ o \in Seq(Int)
  BY <1>1, OneNumber DEF Out
<1>5. Rising(port.ahead)
  BY <1>1 DEF Rising
<1>6. /\ Before(Out, Ahead) /\ Before(Out \cup Ahead, Queued) /\ Before(Out \cup Ahead \cup Queued, Left)
      /\ Before(Out \cup Ahead \cup Queued \cup Left, Buffered)
      /\ Before(Heard, Out \cup Ahead \cup Queued \cup Left \cup Buffered)
  BY <1>1 DEF SetsFit, Before
<1> HIDE DEF o, b
<1>7. oa \in Seq(Int) /\ Rising(oa) /\ Numbers(oa) = Out \cup Ahead
  BY <1>1, <1>4, <1>5, <1>6, NumbersConcat DEF Ahead
<1> HIDE DEF oa
<1>8. oaq \in Seq(Int) /\ Rising(oaq) /\ Numbers(oaq) = Out \cup Ahead \cup Queued
  BY <1>1, <1>6, <1>7, NumbersConcat DEF Queued
<1> HIDE DEF oaq
<1>9. oaql \in Seq(Int) /\ Rising(oaql) /\ Numbers(oaql) = Out \cup Ahead \cup Queued \cup Left
  BY <1>1, <1>6, <1>8, NumbersConcat DEF Left
<1> HIDE DEF oaql
<1>10. /\ all \in Seq(Int) /\ Rising(all)
       /\ Numbers(all) = Out \cup Ahead \cup Queued \cup Left \cup Buffered
  BY <1>1, <1>2, <1>6, <1>9, NumbersConcat
<1> HIDE DEF all
<1>11. Reverse(heard) \in Seq(Int) /\ Numbers(Reverse(heard)) = Heard
  <2>1. 0 \in Int
    OBVIOUS
  <2> QED
    BY <1>1, <2>1, HeardGrows DEF Heard
<1>12. Reverse(heard) \o all \in Seq(Int) /\ Rising(Reverse(heard) \o all)
  BY <1>1, <1>6, <1>10, <1>11, NumbersConcat
<1>13. Numbers(heard \o all) = Heard \cup (Out \cup Ahead \cup Queued \cup Left \cup Buffered)
  BY <1>1, <1>10, NumbersConcat DEF Heard
<1>14. Heard \cup Out \cup Ahead \cup Queued \cup Left \cup Buffered \cup gone = 1 .. 2 * made
  BY <1>1 DEF SetsFit
<1>15. Numbers(heard \o all) \cup gone = 1 .. 2 * made
  BY <1>13, <1>14
<1> QED
  BY <1>3, <1>12, <1>15

\* What the SID made is heard in the order it was made and at most once, nothing of it is lost but
\* what is thrown away on purpose, and the port outlives its thread: whatever the two threads, the
\* hardware and the user do, and for any sizes of the queue and of the buffers.
THEOREM SoundIsHeard == SndSpec => []SoundArrives
<1>1. SoundInv => SoundArrives
  <2> SUFFICES ASSUME SoundInv PROVE SoundArrives
    OBVIOUS
  <2>1. PlayedInOrder
    <3> DEFINE way == Reverse(heard) \o OnTheWay
    <3>1. way \in Seq(Int) /\ Rising(way)
      BY WayIs
    <3> SUFFICES \A i, j \in DOMAIN way : i < j /\ way[i] > 0 /\ way[j] > 0 => way[i] < way[j]
      BY DEF PlayedInOrder
    <3> HIDE DEF way
    <3>2. DOMAIN way = 1 .. Len(way)
      BY <3>1
    <3> QED
      BY <3>1, <3>2 DEF Rising
  <2>2. NothingLost
    BY WayIs DEF NothingLost
  <2>3. PortOutlivesThread
    <3>1. loop # "ended" => port.state = "started"
      BY DEF SoundInv, PortFits
    <3>2. ASSUME steps = <<>> PROVE snd.sdev_open = snd.playdev /\ (snd.playdev <=> port.state = "started")
      <4>1. Todo = "nothing"
        BY <3>2 DEF Todo
      <4>2. (snd.sdev_open <=> snd.playdev) /\ (snd.playdev <=> port.state = "started")
        BY <4>1 DEF SoundInv, DeviceFits
      <4>3. snd.sdev_open \in BOOLEAN /\ snd.playdev \in BOOLEAN
        BY InvParts DEF Snds
      <4> QED
        BY <4>2, <4>3
    <3> QED
      BY <3>1, <3>2 DEF PortOutlivesThread
  <2> QED
    BY <2>1, <2>2, <2>3 DEF SoundArrives
<1> QED
  BY <1>1, SoundAlways, PTL
=============================================================================
