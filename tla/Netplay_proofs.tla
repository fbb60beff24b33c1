--------------------------- MODULE Netplay_proofs ----------------------------
(***************************************************************************)
(* The two hosts of a network game stay together, for any frame_delta, any *)
(* number of frames and inputs, and whoever leaves when: the histories of  *)
(* the two machines never part, the lists played are of the same frame and *)
(* in sync, no input is lost or given twice, and the hosts are never both  *)
(* waiting for the other.                                                  *)
(***************************************************************************)
EXTENDS Netplay, SequenceTheorems, TLAPS

-----------------------------------------------------------------------------
(* The inductive invariant: the types; before the hosts meet; while the client waits for the *)
(* snapshot; and the game. *)

\* The modes of a host.
Modes(h) == IF h = Server THEN {"IDLE", "SERVER", "SERVER_CONNECTED"} ELSE {"IDLE", "CLIENT"}

\* Where a host may be.
Places == {"run", "snapshot", "test", "events", "gone", "no lists"}

\* What is recorded and given to a machine.
AnInput == [type : Inputs, from : Hosts, data : Nat]

\* A machine: what it was before, and its inputs.
AWorld == Seq([kind : {"own"}, data : Hosts] \cup AnInput)

\* The event list of a frame.
AList == [sync : AWorld, inputs : Seq(AnInput)]

\* The rings of all lengths.
Rings == UNION {[0 .. d - 1 -> AList] : d \in Nat}

\* A host's variables.
AHost ==
  [ mode : {"IDLE", "SERVER", "SERVER_CONNECTED", "CLIENT"}, at : Places, frame_delta : Nat,
    current_frame : Nat, frame_buffer_full : BOOLEAN, lists : Rings, suspended : BOOLEAN, tests : Nat ]

\* What a host may count with: a delta that was measured, or what a byte held.
Deltas == FrameDeltas \cup (StackBytes \ {0})

\* What is sent.
AMessage ==
  [kind : {"snapshot"}, data : AWorld] \cup [kind : {"test", "suspend"}, data : {0}]
    \cup [kind : {"delta"}, data : Deltas] \cup [kind : {"events"}, data : AList]

\* A host's history.
AHistory ==
  [frames : Nat, inputs : Seq([event : AnInput, frame : Nat]), sent : Seq(AList), past : Seq(AWorld)]

\* The ring of a host that plays.
RingOk(n) ==
  /\ n.at = "snapshot" => n.mode \notin {"SERVER_CONNECTED", "CLIENT"}
  /\ n.at = "test" => n.mode \in {"SERVER_CONNECTED", "CLIENT"}
  /\ n.at = "events" \/ (n.mode \in {"SERVER_CONNECTED", "CLIENT"} /\ n.at = "run") =>
       /\ n.mode \in {"SERVER_CONNECTED", "CLIENT"}
       /\ n.frame_delta \in Deltas /\ n.lists \in [0 .. n.frame_delta - 1 -> AList]
       /\ n.current_frame \in 0 .. n.frame_delta - 1

\* The values of the variables.
Types ==
  /\ net \in [Hosts -> AHost] /\ \A h \in Hosts : net[h].mode \in Modes(h) /\ RingOk(net[h])
  /\ chan \in [Hosts -> Seq(AMessage)]
  /\ peer \in [Hosts -> {"none", "open", "fin", "rst"}]
  /\ world \in [Hosts -> AWorld]
  /\ made \in [Hosts -> AHistory]

\* The history of a host that has not begun.
Nothing == [frames |-> 0, inputs |-> <<>>, sent |-> <<>>, past |-> <<>>]
\* A machine of which nothing is known but whose it is.
Own(h) == <<Msg("own", h)>>

\* The server has not accepted the client: neither has sent, received or played anything.
Fresh ==
  net[Server].tests = 0 =>
    \A h \in Hosts : /\ net[h].at = "run" /\ ~ network_connected(h)
                     /\ peer[h] = "none" /\ chan[h] = <<>>
                     /\ world[h] = Own(h) /\ made[h] = Nothing

\* The client waits for the snapshot, which is on its way.
Joining ==
  net[Client].at = "snapshot" =>
    /\ chan[Client] = <<Msg("snapshot", Own(Server)), Msg("test", 0)>>
    /\ world[Server] = Own(Server) /\ \A h \in Hosts : made[h] = Nothing
    /\ network_connected(Server) =>
         /\ net[Server].at = "test" /\ chan[Server] = <<>>
         /\ peer = [h \in Hosts |-> "open"]

\* What a host's machine was given after j rounds.
After(m, j) == IF j = 0 THEN Own(Server) ELSE m.past[j]

\* How many rounds it has played after f frames.
RoundsAt(f, d) == IF f >= d - 1 THEN f - d + 1 ELSE 0

\* The frame whose list is in slot i.
FrameOf(i, f, c, d) == IF i <= c THEN f - c + i ELSE f - c + i - d

\* The sync test of a list a host has sent is of its machine as the frame began.
SyncsOk(m, d) ==
  \A k \in 0 .. Len(m.sent) - 1 :
    RoundsAt(k, d) <= Len(m.past) /\ m.sent[k + 1].sync = After(m, RoundsAt(k, d))

\* A host that plays: what it has sent and played, and which lists its ring holds.
HostOk(n, m, w) ==
  LET d == n.frame_delta
      c == n.current_frame
      f == m.frames
  IN  /\ n.at \in {"run", "events"}
      /\ d \in Deltas /\ n.lists \in [0 .. d - 1 -> AList] /\ c \in 0 .. d - 1
      /\ c <= f /\ (f < d => c = f)
      /\ Len(m.sent) = (IF n.at = "run" THEN f ELSE f + 1)
      /\ Len(m.past) = RoundsAt(f, d)
      /\ IF n.at = "run" THEN n.frame_buffer_full <=> f >= d
                         ELSE n.frame_buffer_full /\ f >= d - 1
      /\ \A i \in 0 .. d - 1 :
           FrameOf(i, f, c, d) >= 0 /\ FrameOf(i, f, c, d) < Len(m.sent) =>
             n.lists[i] = m.sent[FrameOf(i, f, c, d) + 1]
      /\ n.at = "run" => n.lists[c].sync = w
      /\ w = After(m, Len(m.past))
      /\ SyncsOk(m, d)

\* Positions in order.
InStep(m, n) == \A i, j \in 1 .. n : i < j => m[i] < m[j]

\* A stream: of the lists sent, those that were not played, in order, and "suspend"s.
Stream(q, r, sent) ==
  /\ r <= Len(sent)
  /\ \E m \in [1 .. Len(sent) - r -> 1 .. Len(q)] :
       /\ InStep(m, Len(sent) - r)
       /\ \A j \in 1 .. Len(sent) - r : q[m[j]].kind = "events" /\ q[m[j]].data = sent[r + j]
       /\ \A i \in 1 .. Len(q) : q[i].kind = "suspend" \/ \E j \in 1 .. Len(sent) - r : m[j] = i

\* What a host that plays has done, what is on its way, and what the other has sent.
GameOf(h) ==
  Playing(h) =>
    /\ HostOk(net[h], made[h], world[h])
    /\ Stream(chan[h], Len(made[h].past), made[Other(h)].sent)
    /\ SyncsOk(made[Other(h)], net[h].frame_delta)

\* A round gives the machine the inputs of both lists of a frame.
RoundsOk(m, s, c) ==
  \A j \in 1 .. Len(m.past) :
    /\ j <= Len(s.sent) /\ j <= Len(c.sent)
    /\ m.past[j] = After(m, j - 1) \o (s.sent[j].inputs \o c.sent[j].inputs)

\* The rounds of one history are those of the other.
Same(m, g) == \A j \in 1 .. Len(m.past) : j <= Len(g.past) => m.past[j] = g.past[j]

\* A machine only gets more inputs.
Grows(m) == \A i, j \in 0 .. Len(m.past) : i <= j => IsPrefix(After(m, i), After(m, j))

\* Both histories.
Histories ==
  \A h \in Hosts : /\ RoundsOk(made[h], made[Server], made[Client]) /\ Grows(made[h])
                   /\ Same(made[h], made[Other(h)])

\* A server still measuring has not begun.
ServerWaits ==
  net[Server].at = "test" =>
    /\ world[Server] = Own(Server) /\ \A h \in Hosts : made[h] = Nothing
    /\ chan[Server] = <<>> \/ chan[Server] = <<Msg("test", 0)>>

\* Nor has the client; what it is told comes before all that is played.
ClientWaits ==
  net[Client].at = "test" =>
    /\ world[Client] = Own(Server) /\ made[Client] = Nothing
    /\ \/ (chan[Client] = <<>> \/ chan[Client] = <<Msg("test", 0)>>) /\ made[Server] = Nothing
       \/ /\ Got(Client, "delta") /\ SyncsOk(made[Server], Head(chan[Client]).data)
          /\ Stream(Tail(chan[Client]), 0, made[Server].sent)

\* While both are connected: the measuring,
Testing ==
  /\ \A h \in Hosts : net[h].at = "test"
  /\ \E h \in Hosts : chan[h] = <<Msg("test", 0)>> /\ chan[Other(h)] = <<>>

\* the client about to be told,
ToldLast ==
  /\ Playing(Server) /\ net[Client].at = "test" /\ Got(Client, "delta") /\ chan[Server] = <<>>
  /\ Head(chan[Client]).data = net[Server].frame_delta

\* the game.
Underway ==
  Playing(Server) /\ Playing(Client) /\ net[Client].frame_delta = net[Server].frame_delta

\* While both are connected nobody has left, and they are in one of these.
Together ==
  network_connected(Server) /\ network_connected(Client) =>
    peer = [h \in Hosts |-> "open"] /\ (Testing \/ ToldLast \/ Underway)


\* The game.
InGame == Histories /\ (\A h \in Hosts : GameOf(h)) /\ ServerWaits /\ ClientWaits /\ Together

\* The inductive invariant.
NetInv == Types /\ Fresh /\ Joining /\ InGame
-----------------------------------------------------------------------------
\* There are two hosts.
LEMMA TwoHosts ==
  /\ Server \in Hosts /\ Client \in Hosts /\ Server # Client
  /\ \A h \in Hosts : /\ h = Server \/ h = Client
                      /\ Other(h) \in Hosts /\ Other(h) # h /\ Other(Other(h)) = h
                      /\ \A g \in Hosts : g # h => g = Other(h)
BY NetAssumption DEF Hosts, Other

\* One message more.
LEMMA OneMore ==
  ASSUME NEW S, NEW s \in Seq(S), NEW x \in S
  PROVE  /\ s \o <<x>> = Append(s, x) /\ Append(s, x) \in Seq(S)
         /\ Len(Append(s, x)) = Len(s) + 1 /\ Append(s, x)[Len(s) + 1] = x
         /\ \A i \in 1 .. Len(s) : Append(s, x)[i] = s[i]
         /\ s # <<>> => /\ Head(Append(s, x)) = Head(s) /\ Append(s, x) # <<>>
                        /\ Tail(Append(s, x)) = Append(Tail(s), x)
<1>1. s \o <<x>> = Append(s, x)
  BY AppendIsConcat
<1>2. ASSUME s # <<>>
      PROVE  Tail(Append(s, x)) = Append(Tail(s), x)
  <2>1. Len(s) >= 1 /\ Tail(s) \in Seq(S) /\ Len(Tail(s)) = Len(s) - 1
    BY <1>2
  <2>2. Tail(Append(s, x)) \in Seq(S) /\ Append(Tail(s), x) \in Seq(S)
    BY <2>1
  <2>3. Len(Tail(Append(s, x))) = Len(s) /\ Len(Append(Tail(s), x)) = Len(s)
    BY <2>1
  <2>4. \A i \in 1 .. Len(s) : Tail(Append(s, x))[i] = Append(Tail(s), x)[i]
    <3> TAKE i \in 1 .. Len(s)
    <3>1. Tail(Append(s, x))[i] = Append(s, x)[i + 1]
      OBVIOUS
    <3>2. CASE i = Len(s)
      BY <2>1, <3>1, <3>2
    <3>3. CASE i # Len(s)
      <4>1. i \in 1 .. Len(s) - 1 /\ i + 1 \in 1 .. Len(s)
        BY <3>3
      <4>2. Append(s, x)[i + 1] = s[i + 1] /\ Tail(s)[i] = s[i + 1] /\ Append(Tail(s), x)[i] = Tail(s)[i]
        BY <2>1, <4>1
      <4> QED
        BY <3>1, <4>2
    <3> QED
      BY <3>2, <3>3
  <2> QED
    BY <2>2, <2>3, <2>4, SeqEqual
<1> QED
  BY <1>1, <1>2

\* A message less.
LEMMA OneLess ==
  ASSUME NEW S, NEW s \in Seq(S), s # <<>>
  PROVE  /\ Len(s) \in Nat /\ Len(s) >= 1 /\ Head(s) = s[1] /\ Head(s) \in S
         /\ Tail(s) \in Seq(S) /\ Len(Tail(s)) = Len(s) - 1
         /\ \A i \in 1 .. Len(s) - 1 : Tail(s)[i] = s[i + 1]
OBVIOUS

-----------------------------------------------------------------------------
\* What makes a stream.
LEMMA StreamIs ==
  ASSUME NEW q, NEW r, NEW sent, r <= Len(sent), NEW n, n = Len(sent) - r,
         NEW m \in [1 .. n -> 1 .. Len(q)], InStep(m, n),
         \A j \in 1 .. n : q[m[j]].kind = "events" /\ q[m[j]].data = sent[r + j],
         \A i \in 1 .. Len(q) : q[i].kind = "suspend" \/ \E j \in 1 .. n : m[j] = i
  PROVE  Stream(q, r, sent)
<1>1. \E w \in [1 .. Len(sent) - r -> 1 .. Len(q)] :
        /\ InStep(w, Len(sent) - r)
        /\ \A j \in 1 .. Len(sent) - r : q[w[j]].kind = "events" /\ q[w[j]].data = sent[r + j]
        /\ \A i \in 1 .. Len(q) : q[i].kind = "suspend" \/ \E j \in 1 .. Len(sent) - r : w[j] = i
  <2> WITNESS m \in [1 .. Len(sent) - r -> 1 .. Len(q)]
  <2> QED
    OBVIOUS
<1> QED
  BY <1>1, Zenon DEF Stream

\* A stream to which the next list is sent.
LEMMA StreamSend ==
  ASSUME NEW q \in Seq(AMessage), NEW sent \in Seq(AList), NEW r \in Nat, Stream(q, r, sent),
         NEW l \in AList
  PROVE  Stream(Append(q, Msg("events", l)), r, Append(sent, l))
<1> DEFINE n == Len(sent) - r
           x == Msg("events", l)
           p == Append(q, x)
           t == Append(sent, l)
<1>1. /\ r <= Len(sent)
      /\ \E m \in [1 .. n -> 1 .. Len(q)] :
           /\ InStep(m, n)
           /\ \A j \in 1 .. n : q[m[j]].kind = "events" /\ q[m[j]].data = sent[r + j]
           /\ \A i \in 1 .. Len(q) : q[i].kind = "suspend" \/ \E j \in 1 .. n : m[j] = i
  BY DEF Stream
<1>2. PICK m \in [1 .. n -> 1 .. Len(q)] :
           /\ InStep(m, n)
           /\ \A j \in 1 .. n : q[m[j]].kind = "events" /\ q[m[j]].data = sent[r + j]
           /\ \A i \in 1 .. Len(q) : q[i].kind = "suspend" \/ \E j \in 1 .. n : m[j] = i
  BY <1>1
<1>3. x.kind = "events" /\ x.data = l /\ x \in AMessage
  BY DEF Msg, AMessage
<1> HIDE DEF x
<1>4. Len(q) \in Nat /\ Len(sent) \in Nat /\ n \in Nat
  BY <1>1
<1>5. /\ p \in Seq(AMessage) /\ Len(p) = Len(q) + 1 /\ p[Len(q) + 1] = x
      /\ \A i \in 1 .. Len(q) : p[i] = q[i]
  BY <1>3, OneMore
<1>6. /\ t \in Seq(AList) /\ Len(t) = Len(sent) + 1 /\ t[Len(sent) + 1] = l
      /\ \A i \in 1 .. Len(sent) : t[i] = sent[i]
  BY OneMore
<1> HIDE DEF p, t, n
<1> DEFINE k == [j \in 1 .. n + 1 |-> IF j = n + 1 THEN Len(q) + 1 ELSE m[j]]
<1>7. k \in [1 .. n + 1 -> 1 .. Len(p)]
  BY <1>4, <1>5
<1>8. InStep(k, n + 1)
  BY <1>2, <1>4 DEF InStep
<1>9. \A j \in 1 .. n + 1 : p[k[j]].kind = "events" /\ p[k[j]].data = t[r + j]
  <2> TAKE j \in 1 .. n + 1
  <2>1. CASE j = n + 1
    <3>1. k[j] = Len(q) + 1 /\ r + j = Len(sent) + 1
      BY <1>1, <1>4, <2>1 DEF n
    <3> QED
      BY <1>3, <1>5, <1>6, <3>1
  <2>2. CASE j # n + 1
    <3>1. k[j] = m[j] /\ m[j] \in 1 .. Len(q) /\ j \in 1 .. n
      BY <1>4, <2>2
    <3>2. r + j \in 1 .. Len(sent)
      BY <1>4, <3>1 DEF n
    <3> QED
      BY <1>2, <1>5, <1>6, <3>1, <3>2
  <2> QED
    BY <2>1, <2>2
<1>10. \A i \in 1 .. Len(p) : p[i].kind = "suspend" \/ \E j \in 1 .. n + 1 : k[j] = i
  <2> TAKE i \in 1 .. Len(p)
  <2>1. CASE i = Len(q) + 1
    BY <1>4, <2>1
  <2>2. CASE i # Len(q) + 1
    <3>1. i \in 1 .. Len(q) /\ p[i] = q[i]
      BY <1>4, <1>5, <2>2
    <3>2. \A j \in 1 .. n : j \in 1 .. n + 1 /\ k[j] = m[j]
      BY <1>4
    <3> QED
      BY <1>2, <3>1, <3>2
  <2> QED
    BY <2>1, <2>2
<1>11. Len(t) - r = n + 1 /\ r <= Len(t)
  BY <1>1, <1>4, <1>6 DEF n
<1> HIDE DEF k
<1>12. Stream(p, r, t)
  BY <1>7, <1>8, <1>9, <1>10, <1>11, StreamIs
<1> QED
  BY <1>12 DEF p, t, x

\* A message that is not a list.
LEMMA StreamSuspend ==
  ASSUME NEW q \in Seq(AMessage), NEW sent \in Seq(AList), NEW r \in Nat, Stream(q, r, sent)
  PROVE  Stream(Append(q, Msg("suspend", 0)), r, sent)
<1> DEFINE n == Len(sent) - r
           x == Msg("suspend", 0)
           p == Append(q, x)
<1>1. PICK m \in [1 .. n -> 1 .. Len(q)] :
           /\ InStep(m, n)
           /\ \A j \in 1 .. n : q[m[j]].kind = "events" /\ q[m[j]].data = sent[r + j]
           /\ \A i \in 1 .. Len(q) : q[i].kind = "suspend" \/ \E j \in 1 .. n : m[j] = i
  BY DEF Stream
<1>2. x.kind = "suspend" /\ x \in AMessage
  BY DEF Msg, AMessage
<1> HIDE DEF x
<1>3. /\ p \in Seq(AMessage) /\ Len(p) = Len(q) + 1 /\ p[Len(q) + 1] = x /\ Len(q) \in Nat
      /\ \A i \in 1 .. Len(q) : p[i] = q[i]
  BY <1>2, OneMore
<1> HIDE DEF p
<1>4. m \in [1 .. n -> 1 .. Len(p)]
  BY <1>3
<1>5. \A j \in 1 .. n : p[m[j]].kind = "events" /\ p[m[j]].data = sent[r + j]
  BY <1>1, <1>3
<1>6. \A i \in 1 .. Len(p) : p[i].kind = "suspend" \/ \E j \in 1 .. n : m[j] = i
  <2> TAKE i \in 1 .. Len(p)
  <2>1. CASE i = Len(q) + 1
    BY <1>2, <1>3, <2>1
  <2>2. CASE i # Len(q) + 1
    <3>1. i \in 1 .. Len(q) /\ p[i] = q[i]
      BY <1>3, <2>2
    <3> QED
      BY <1>1, <3>1
  <2> QED
    BY <2>1, <2>2
<1>7. Stream(p, r, sent)
  BY <1>1, <1>4, <1>5, <1>6, StreamIs DEF Stream
<1> QED
  BY <1>7 DEF p, x

\* The first message of a stream: the next list, or none.
LEMMA StreamReceive ==
  ASSUME NEW q \in Seq(AMessage), NEW sent \in Seq(AList), NEW r \in Nat, Stream(q, r, sent), q # <<>>
  PROVE  /\ Head(q).kind = "events" =>
              r + 1 <= Len(sent) /\ Head(q).data = sent[r + 1] /\ Stream(Tail(q), r + 1, sent)
         /\ Head(q).kind = "suspend" => Stream(Tail(q), r, sent)
         /\ Head(q).kind \in {"events", "suspend"}
<1> DEFINE n == Len(sent) - r
           p == Tail(q)
<1>0. r <= Len(sent)
  BY DEF Stream
<1>1. PICK m \in [1 .. n -> 1 .. Len(q)] :
           /\ InStep(m, n)
           /\ \A j \in 1 .. n : q[m[j]].kind = "events" /\ q[m[j]].data = sent[r + j]
           /\ \A i \in 1 .. Len(q) : q[i].kind = "suspend" \/ \E j \in 1 .. n : m[j] = i
  BY DEF Stream
<1>2. /\ Len(q) \in Nat /\ Len(q) >= 1 /\ Head(q) = q[1] /\ p \in Seq(AMessage) /\ Len(p) = Len(q) - 1
      /\ \A i \in 1 .. Len(q) - 1 : p[i] = q[i + 1]
  BY OneLess
<1>3. Len(sent) \in Nat /\ n \in Nat
  BY <1>0
<1> HIDE DEF p
<1>4. ASSUME Head(q).kind # "suspend"
      PROVE  1 \in 1 .. n /\ m[1] = 1
  <2>1. 1 \in 1 .. Len(q)
    BY <1>2
  <2>2. PICK j \in 1 .. n : m[j] = 1
    BY <1>1, <1>2, <1>4, <2>1
  <2>3. 1 \in 1 .. n /\ m[1] \in 1 .. Len(q)
    BY <1>3, <2>2
  <2>4. CASE j = 1
    BY <2>2, <2>3, <2>4
  <2>5. CASE j # 1
    <3>1. m[1] < m[j]
      BY <1>1, <1>3, <2>3, <2>5 DEF InStep
    <3> QED
      BY <1>2, <2>2, <2>3, <3>1
  <2> QED
    BY <2>4, <2>5
<1>5. Head(q).kind \in {"events", "suspend"}
  <2>1. CASE Head(q).kind # "suspend"
    <3>1. 1 \in 1 .. n /\ m[1] = 1
      BY <1>4, <2>1
    <3> QED
      BY <1>1, <1>2, <3>1
  <2> QED
    BY <2>1
<1>6. ASSUME Head(q).kind = "events"
      PROVE  r + 1 <= Len(sent) /\ Head(q).data = sent[r + 1] /\ Stream(p, r + 1, sent)
  <2>1. 1 \in 1 .. n /\ m[1] = 1
    BY <1>4, <1>6
  <2>2. r + 1 <= Len(sent) /\ Head(q).data = sent[r + 1]
    <3>1. q[m[1]].data = sent[r + 1] /\ q[m[1]] = Head(q)
      BY <1>1, <1>2, <2>1
    <3>2. n >= 1 /\ Len(sent) \in Nat
      BY <1>3, <2>1
    <3> QED
      BY <3>1, <3>2
  <2> DEFINE k == [j \in 1 .. n - 1 |-> m[j + 1] - 1]
  <2>3. ASSUME NEW j \in 1 .. n - 1
        PROVE  j + 1 \in 1 .. n /\ m[j + 1] \in 1 .. Len(q) /\ m[j + 1] > 1
    <3>1. j + 1 \in 1 .. n /\ 1 < j + 1
      BY <1>3
    <3>2. m[1] < m[j + 1]
      BY <1>1, <2>1, <3>1 DEF InStep
    <3>3. m[j + 1] \in 1 .. Len(q)
      BY <3>1
    <3> QED
      BY <1>2, <2>1, <3>1, <3>2, <3>3
  <2>4. k \in [1 .. n - 1 -> 1 .. Len(p)]
    <3>1. \A j \in 1 .. n - 1 : m[j + 1] - 1 \in 1 .. Len(p)
      BY <1>2, <2>3
    <3> QED
      BY <3>1
  <2>5. InStep(k, n - 1)
    BY <1>1, <1>2, <1>3, <2>3 DEF InStep
  <2>6. \A j \in 1 .. n - 1 : p[k[j]].kind = "events" /\ p[k[j]].data = sent[(r + 1) + j]
    <3> TAKE j \in 1 .. n - 1
    <3>1. k[j] = m[j + 1] - 1 /\ k[j] \in 1 .. Len(q) - 1 /\ k[j] + 1 = m[j + 1] /\ j + 1 \in 1 .. n
      BY <1>2, <2>3
    <3>2. p[k[j]] = q[m[j + 1]]
      BY <1>2, <3>1
    <3>3. q[m[j + 1]].kind = "events" /\ q[m[j + 1]].data = sent[r + (j + 1)]
      BY <1>1, <3>1
    <3>4. r + (j + 1) = (r + 1) + j
      BY <1>3
    <3> QED
      BY <3>2, <3>3, <3>4
  <2>7. \A i \in 1 .. Len(p) : p[i].kind = "suspend" \/ \E j \in 1 .. n - 1 : k[j] = i
    <3> TAKE i \in 1 .. Len(p)
    <3>1. i \in 1 .. Len(q) - 1 /\ i + 1 \in 1 .. Len(q) /\ p[i] = q[i + 1]
      BY <1>2
    <3>2. CASE q[i + 1].kind = "suspend"
      BY <3>1, <3>2
    <3>3. CASE q[i + 1].kind # "suspend"
      <4>1. PICK j \in 1 .. n : m[j] = i + 1
        BY <1>1, <3>1, <3>3
      <4>2. j # 1
        BY <2>1, <3>1, <4>1
      <4>3. j - 1 \in 1 .. n - 1 /\ (j - 1) + 1 = j
        BY <1>3, <4>2
      <4>4. k[j - 1] = i
        BY <3>1, <4>1, <4>3
      <4> QED
        BY <4>3, <4>4
    <3> QED
      BY <3>2, <3>3
  <2>8. Len(sent) - (r + 1) = n - 1
    BY <1>3
  <2> HIDE DEF k, n
  <2> QED
    BY <2>2, <2>4, <2>5, <2>6, <2>7, <2>8, StreamIs
<1>7. ASSUME Head(q).kind = "suspend"
      PROVE  Stream(p, r, sent)
  <2> DEFINE k == [j \in 1 .. n |-> m[j] - 1]
  <2>1. \A j \in 1 .. n : m[j] \in 1 .. Len(q) /\ m[j] > 1
    <3> TAKE j \in 1 .. n
    <3>1. m[j] \in 1 .. Len(q) /\ q[m[j]].kind = "events"
      BY <1>1
    <3>2. m[j] # 1
      BY <1>2, <1>7, <3>1
    <3> QED
      BY <1>2, <3>1, <3>2
  <2>2. k \in [1 .. n -> 1 .. Len(p)]
    <3>1. \A j \in 1 .. n : m[j] - 1 \in 1 .. Len(p)
      BY <1>2, <2>1
    <3> QED
      BY <3>1
  <2>3. InStep(k, n)
    BY <1>1, <1>2, <1>3, <2>1 DEF InStep
  <2>4. \A j \in 1 .. n : p[k[j]].kind = "events" /\ p[k[j]].data = sent[r + j]
    <3> TAKE j \in 1 .. n
    <3>1. k[j] = m[j] - 1 /\ k[j] \in 1 .. Len(q) - 1 /\ k[j] + 1 = m[j]
      BY <1>2, <2>1
    <3>2. q[m[j]].kind = "events" /\ q[m[j]].data = sent[r + j]
      BY <1>1
    <3>3. p[k[j]] = q[k[j] + 1]
      BY <1>2, <3>1
    <3> HIDE DEF k, p
    <3> QED
      BY <3>1, <3>2, <3>3
  <2>5. \A i \in 1 .. Len(p) : p[i].kind = "suspend" \/ \E j \in 1 .. n : k[j] = i
    <3> TAKE i \in 1 .. Len(p)
    <3>1. i \in 1 .. Len(q) - 1 /\ i + 1 \in 1 .. Len(q) /\ p[i] = q[i + 1]
      BY <1>2
    <3>2. CASE q[i + 1].kind = "suspend"
      BY <3>1, <3>2
    <3>3. CASE q[i + 1].kind # "suspend"
      <4>1. PICK j \in 1 .. n : m[j] = i + 1
        BY <1>1, <3>1, <3>3
      <4>2. k[j] = i
        BY <3>1, <4>1
      <4> QED
        BY <4>2
    <3> QED
      BY <3>2, <3>3
  <2> HIDE DEF k
  <2> QED
    BY <1>0, <2>2, <2>3, <2>4, <2>5, StreamIs
<1> QED
  BY <1>5, <1>6, <1>7 DEF p

\* Nothing on the way: everything sent was played.
LEMMA StreamEmpty ==
  ASSUME NEW sent \in Seq(AList), NEW r \in Nat
  PROVE  /\ Stream(<<>>, r, sent) => r = Len(sent)
         /\ Stream(<<>>, 0, <<>>)
<1>1. ASSUME Stream(<<>>, r, sent)
      PROVE  r = Len(sent)
  <2>1. r <= Len(sent) /\ \E m \in [1 .. Len(sent) - r -> 1 .. Len(<<>>)] : TRUE
    BY <1>1 DEF Stream
  <2>2. PICK m \in [1 .. Len(sent) - r -> 1 .. Len(<<>>)] : TRUE
    BY <2>1
  <2>3. ASSUME r # Len(sent)
        PROVE  FALSE
    <3>1. 1 \in 1 .. Len(sent) - r
      BY <2>1, <2>3
    <3>2. m[1] \in 1 .. Len(<<>>)
      BY <2>2, <3>1
    <3> QED
      BY <3>2
  <2> QED
    BY <2>3
<1>2. Stream(<<>>, 0, <<>>)
  <2> DEFINE m == [j \in 1 .. 0 |-> j]
  <2>1. Len(<<>>) - 0 = 0 /\ Len(<<>>) = 0 /\ m \in [1 .. 0 -> 1 .. 0]
    OBVIOUS
  <2>2. InStep(m, 0)
    BY DEF InStep
  <2> HIDE DEF m
  <2>3. \A i \in 1 .. 0 : FALSE
    OBVIOUS
  <2> DEFINE e == <<>>
  <2>4. Len(e) = 0 /\ 0 <= Len(e) /\ 0 = Len(e) - 0
    OBVIOUS
  <2> HIDE DEF e
  <2>6. m \in [1 .. 0 -> 1 .. Len(e)]
    BY <2>1, <2>4
  <2>7. \A j \in 1 .. 0 : e[m[j]].kind = "events" /\ e[m[j]].data = e[0 + j]
    BY <2>3
  <2>8. \A i \in 1 .. Len(e) : e[i].kind = "suspend" \/ \E j \in 1 .. 0 : m[j] = i
    BY <2>3, <2>4
  <2>5. Stream(e, 0, e)
    BY ONLY <2>2, <2>4, <2>6, <2>7, <2>8, StreamIs
  <2> QED
    BY <2>5 DEF e
<1> QED
  BY <1>1, <1>2

-----------------------------------------------------------------------------
\* A prefix, entry by entry.
LEMMA PrefixIs ==
  ASSUME NEW S, NEW s \in Seq(S), NEW t \in Seq(S)
  PROVE  IsPrefix(s, t) <=> Len(s) <= Len(t) /\ \A i \in 1 .. Len(s) : s[i] = t[i]
<1>1. Len(s) \in Nat /\ Len(t) \in Nat /\ 1 \in Int /\ Len(s) \in Int
  OBVIOUS
<1>2. CASE Len(s) > Len(t)
  BY <1>1, <1>2 DEF IsPrefix
<1>3. CASE Len(s) <= Len(t)
  <2> DEFINE n == Len(s)
             a == SubSeq(s, 1, n)
             b == SubSeq(t, 1, n)
  <2>1. (\A i \in 1 .. n : s[i] \in S) /\ \A i \in 1 .. n : t[i] \in S
    BY <1>1, <1>3
  <2>2. a \in Seq(S) /\ Len(a) = n /\ \A i \in 1 .. n : a[i] = s[i]
    <3>1. /\ SubSeq(s, 1, n) \in Seq(S)
          /\ Len(SubSeq(s, 1, n)) = IF 1 <= n THEN n - 1 + 1 ELSE 0
          /\ \A i \in 1 .. n - 1 + 1 : SubSeq(s, 1, n)[i] = s[1 + i - 1]
      BY <1>1, <2>1, SubSeqProperties
    <3> QED
      BY <1>1, <3>1
  <2>3. b \in Seq(S) /\ Len(b) = n /\ \A i \in 1 .. n : b[i] = t[i]
    <3>1. /\ SubSeq(t, 1, n) \in Seq(S)
          /\ Len(SubSeq(t, 1, n)) = IF 1 <= n THEN n - 1 + 1 ELSE 0
          /\ \A i \in 1 .. n - 1 + 1 : SubSeq(t, 1, n)[i] = t[1 + i - 1]
      BY <1>1, <2>1, SubSeqProperties
    <3> QED
      BY <1>1, <3>1
  <2>4. IsPrefix(s, t) <=> a = b
    BY <1>3 DEF IsPrefix
  <2> HIDE DEF a, b
  <2>5. a = b <=> \A i \in 1 .. n : a[i] = b[i]
    BY <2>2, <2>3, SeqEqual
  <2> QED
    BY <1>3, <2>2, <2>3, <2>4, <2>5
<1> QED
  BY <1>1, <1>2, <1>3

\* Prefixes grow.
LEMMA PrefixGrows ==
  ASSUME NEW S, NEW s \in Seq(S), NEW t \in Seq(S), NEW u \in Seq(S)
  PROVE  /\ IsPrefix(s, s)
         /\ t \o u \in Seq(S) /\ IsPrefix(s, t) => IsPrefix(s, t \o u)
<1>1. IsPrefix(s, s)
  BY PrefixIs
<1>2. /\ t \o u \in Seq(S) /\ Len(t \o u) = Len(t) + Len(u)
      /\ \A i \in 1 .. Len(t) : (t \o u)[i] = t[i]
  BY ConcatProperties
<1>3. ASSUME IsPrefix(s, t)
      PROVE  IsPrefix(s, t \o u)
  <2>1. Len(s) <= Len(t) /\ \A i \in 1 .. Len(s) : s[i] = t[i]
    BY <1>3, PrefixIs
  <2>2. Len(s) <= Len(t \o u) /\ \A i \in 1 .. Len(s) : s[i] = (t \o u)[i]
    BY <1>2, <2>1
  <2> QED
    BY <1>2, <2>2, PrefixIs
<1> QED
  BY <1>1, <1>2, <1>3

-----------------------------------------------------------------------------
(* Types *)

\* The ring of event lists with one list changed.
LEMMA RingTypes ==
  ASSUME NEW d \in Nat, NEW L \in [0 .. d - 1 -> AList], NEW c \in 0 .. d - 1,
         NEW w \in AWorld, NEW x \in AnInput
  PROVE  /\ L \in Rings /\ FrameList(w) \in AList
         /\ [L EXCEPT ![c] = FrameList(w)] \in [0 .. d - 1 -> AList]
         /\ [L EXCEPT ![c].inputs = Append(@, x)] \in [0 .. d - 1 -> AList]
<1>1. FrameList(w) \in AList
  BY DEF FrameList, AList
<1>2. [L[c] EXCEPT !.inputs = Append(L[c].inputs, x)] \in AList
  <2>1. L[c] \in AList /\ L[c].inputs \in Seq(AnInput)
    BY DEF AList
  <2>2. Append(L[c].inputs, x) \in Seq(AnInput)
    BY <2>1
  <2> QED
    BY <2>1, <2>2 DEF AList
<1>3. [L EXCEPT ![c].inputs = Append(@, x)] \in [0 .. d - 1 -> AList]
  BY <1>2
<1>4. [L EXCEPT ![c] = FrameList(w)] \in [0 .. d - 1 -> AList]
  BY <1>1
<1> QED
  BY <1>1, <1>3, <1>4 DEF Rings

\* What network_prepare_next_frame does.
LEMMA NextFrameIs ==
  ASSUME NEW n \in AHost, NEW w \in AWorld, n.frame_delta \in Deltas,
         n.lists \in [0 .. n.frame_delta - 1 -> AList], n.current_frame \in 0 .. n.frame_delta - 1
  PROVE  /\ FrameToPlay(n) =
              (IF n.current_frame = n.frame_delta - 1 THEN 0 ELSE n.current_frame + 1)
         /\ FrameToPlay(n) \in 0 .. n.frame_delta - 1
         /\ NextFrame(n, w) =
              [n EXCEPT !.current_frame = FrameToPlay(n),
                        !.lists = [n.lists EXCEPT ![FrameToPlay(n)] = FrameList(w)], !.at = "run"]
         /\ [n.lists EXCEPT ![FrameToPlay(n)] = FrameList(w)] \in [0 .. n.frame_delta - 1 -> AList]
         /\ NextFrame(n, w) \in AHost
<1> DEFINE c == n.current_frame
           d == n.frame_delta
<1>1. d \in Nat /\ d >= 1 /\ c \in Nat /\ c \in 0 .. d - 1
  <2>1. d \in Nat \ {0}
    BY NetAssumption DEF Deltas
  <2> QED
    BY <2>1
<1>2. FrameToPlay(n) = (IF c = d - 1 THEN 0 ELSE c + 1)
  <2>1. FrameToPlay(n) = (c + 1) % d
    BY DEF FrameToPlay
  <2>2. CASE c = d - 1
    BY <1>1, <2>1, <2>2
  <2>3. CASE c # d - 1
    <3>1. c + 1 \in 0 .. d - 1
      BY <1>1, <2>3
    <3>2. \A a \in Nat, b \in Nat : a < b => a % b = a
      OBVIOUS
    <3> QED
      BY <1>1, <2>1, <2>3, <3>1, <3>2
  <2> QED
    BY <2>2, <2>3
<1>3. FrameToPlay(n) \in 0 .. d - 1
  BY <1>1, <1>2
<1>4. [n.lists EXCEPT ![FrameToPlay(n)] = FrameList(w)] \in [0 .. d - 1 -> AList]
  <2>1. FrameList(w) \in AList
    BY DEF FrameList, AList
  <2> QED
    BY <1>3, <2>1
<1>5. NextFrame(n, w) =
        [n EXCEPT !.current_frame = FrameToPlay(n),
                  !.lists = [n.lists EXCEPT ![FrameToPlay(n)] = FrameList(w)], !.at = "run"]
  BY DEF NextFrame, FrameToPlay, AHost
<1>6. [n.lists EXCEPT ![FrameToPlay(n)] = FrameList(w)] \in Rings
  BY <1>1, <1>4 DEF Rings
<1>7. FrameToPlay(n) \in Nat
  BY <1>1, <1>3
<1>8. NextFrame(n, w) \in AHost
  BY <1>5, <1>6, <1>7 DEF AHost, Places
<1> QED
  BY <1>2, <1>3, <1>4, <1>5, <1>8

\* A step changes the variables of one host.
LEMMA TypesKept ==
  ASSUME Types, NEW h \in Hosts, NEW n \in AHost, n.mode \in Modes(h), RingOk(n),
         net' = [net EXCEPT ![h] = n],
         chan' \in [Hosts -> Seq(AMessage)], peer' \in [Hosts -> {"none", "open", "fin", "rst"}],
         world' \in [Hosts -> AWorld], made' \in [Hosts -> AHistory]
  PROVE  Types'
<1>1. net' \in [Hosts -> AHost] /\ \A g \in Hosts : net'[g] = IF g = h THEN n ELSE net[g]
  BY DEF Types
<1>2. \A g \in Hosts : net'[g].mode \in Modes(g) /\ RingOk(net'[g])
  BY <1>1 DEF Types
<1> QED
  BY <1>1, <1>2, Zenon DEF Types

\* What the streams carry.
LEMMA StreamTypes ==
  ASSUME Types, NEW h \in Hosts
  PROVE  /\ \A x \in AMessage : Send(h, <<x>>) =>
              chan' \in [Hosts -> Seq(AMessage)] /\ peer' \in [Hosts -> {"none", "open", "fin", "rst"}]
         /\ chan[h] # <<>> /\ Receive(h) =>
              chan' \in [Hosts -> Seq(AMessage)] /\ peer' \in [Hosts -> {"none", "open", "fin", "rst"}]
         /\ \A x \in AMessage : chan[h] # <<>> /\ Answer(h, x) =>
              chan' \in [Hosts -> Seq(AMessage)] /\ peer' \in [Hosts -> {"none", "open", "fin", "rst"}]
         /\ \A k : Got(h, k) =>
              /\ chan[h] # <<>> /\ Head(chan[h]) \in AMessage /\ Tail(chan[h]) \in Seq(AMessage)
              /\ Head(chan[h]).kind = k
<1>1. \A g \in Hosts : chan[g] \in Seq(AMessage) /\ Other(g) \in Hosts /\ Other(g) # g
  BY TwoHosts DEF Types
<1>2. chan \in [Hosts -> Seq(AMessage)] /\ peer \in [Hosts -> {"none", "open", "fin", "rst"}]
  BY DEF Types
<1>3. ASSUME NEW x \in AMessage
      PROVE  /\ Append(chan[Other(h)], x) \in Seq(AMessage)
             /\ chan[Other(h)] \o <<x>> = Append(chan[Other(h)], x)
  BY <1>1, OneMore
<1>4. ASSUME chan[h] # <<>>
      PROVE  Tail(chan[h]) \in Seq(AMessage) /\ Head(chan[h]) \in AMessage
  BY <1>1, <1>4, OneLess
<1>8. ASSUME NEW k, Got(h, k)
      PROVE  /\ chan[h] # <<>> /\ Head(chan[h]) \in AMessage /\ Tail(chan[h]) \in Seq(AMessage)
             /\ Head(chan[h]).kind = k
  BY <1>4, <1>8 DEF Got
<1>5. ASSUME NEW x \in AMessage, Send(h, <<x>>)
      PROVE  chan' \in [Hosts -> Seq(AMessage)] /\ peer' \in [Hosts -> {"none", "open", "fin", "rst"}]
  BY <1>1, <1>2, <1>3, <1>5 DEF Send
<1>6. ASSUME chan[h] # <<>>, Receive(h)
      PROVE  chan' \in [Hosts -> Seq(AMessage)] /\ peer' \in [Hosts -> {"none", "open", "fin", "rst"}]
  BY <1>1, <1>2, <1>4, <1>6 DEF Receive
<1>7. ASSUME NEW x \in AMessage, chan[h] # <<>>, Answer(h, x)
      PROVE  chan' \in [Hosts -> Seq(AMessage)] /\ peer' \in [Hosts -> {"none", "open", "fin", "rst"}]
  <2>1. CASE peer[h] = "open"
    <3>1. /\ chan' = [chan EXCEPT ![h] = Tail(@), ![Other(h)] = Append(@, x)] /\ peer' = peer
      BY <1>7, <2>1 DEF Answer
    <3> QED
      BY <1>1, <1>2, <1>3, <1>4, <1>7, <3>1
  <2>2. CASE peer[h] # "open"
    BY <1>1, <1>2, <1>4, <1>7, <2>2 DEF Answer
  <2> QED
    BY <2>1, <2>2
<1> QED
  <2>1. \A x \in AMessage : Send(h, <<x>>) =>
          chan' \in [Hosts -> Seq(AMessage)] /\ peer' \in [Hosts -> {"none", "open", "fin", "rst"}]
    BY <1>5
  <2>2. \A x \in AMessage : chan[h] # <<>> /\ Answer(h, x) =>
          chan' \in [Hosts -> Seq(AMessage)] /\ peer' \in [Hosts -> {"none", "open", "fin", "rst"}]
    BY <1>7
  <2>3. \A k : Got(h, k) =>
          /\ chan[h] # <<>> /\ Head(chan[h]) \in AMessage /\ Tail(chan[h]) \in Seq(AMessage)
          /\ Head(chan[h]).kind = k
    BY <1>8
  <2>4. chan[h] # <<>> /\ Receive(h) =>
          chan' \in [Hosts -> Seq(AMessage)] /\ peer' \in [Hosts -> {"none", "open", "fin", "rst"}]
    BY <1>6
  <2> QED
    BY <2>1, <2>2, <2>3, <2>4

\* Leaving the game.
LEMMA DisconnectTypes ==
  ASSUME Types, NEW h \in Hosts, NEW n \in AHost, n.mode \in Modes(h)
  PROVE  LET e == network_disconnect(n)
         IN  /\ e \in AHost /\ e.mode \in Modes(h) /\ e.mode \notin {"SERVER_CONNECTED", "CLIENT"}
             /\ RingOk(e) /\ e.at = "run"
             /\ e.frame_delta = n.frame_delta /\ e.current_frame = n.current_frame
             /\ e.lists = n.lists /\ e.frame_buffer_full = n.frame_buffer_full
<1> DEFINE e == network_disconnect(n)
           a == IF n.mode = "SERVER_CONNECTED" THEN "SERVER" ELSE "IDLE"
<1>1. e = [n EXCEPT !.mode = a, !.at = "run"]
  BY DEF network_disconnect
<1>2. a \in Modes(h) /\ a \in {"SERVER", "IDLE"}
  BY DEF Modes
<1>3. e \in AHost /\ e.mode = a /\ e.at = "run"
  BY <1>1, <1>2 DEF AHost, Places
<1>4. /\ e.frame_delta = n.frame_delta /\ e.current_frame = n.current_frame
      /\ e.lists = n.lists /\ e.frame_buffer_full = n.frame_buffer_full
  BY <1>1 DEF AHost
<1> HIDE DEF e, a
<1>5. RingOk(e)
  BY <1>2, <1>3 DEF RingOk
<1>6. e.mode \in Modes(h) /\ e.mode \notin {"SERVER_CONNECTED", "CLIENT"}
  BY <1>2, <1>3
<1> QED
  BY <1>3, <1>4, <1>5, <1>6 DEF e

-----------------------------------------------------------------------------
\* The steps by which the hosts meet keep the types.
LEMMA ConnectingTypes ==
  ASSUME Types, Fresh,
         \/ network_start_server \/ network_connect_client
         \/ network_client_connect_trap \/ SnapshotFails
  PROVE  Types'
<1>0. /\ Server \in Hosts /\ Client \in Hosts /\ Server # Client /\ \A h \in Hosts : h = Server \/ h = Client
      /\ \A h \in Hosts : /\ net[h] \in AHost /\ net[h].mode \in Modes(h) /\ RingOk(net[h])
                          /\ world[h] \in AWorld /\ made[h] \in AHistory
      /\ net \in [Hosts -> AHost]
      /\ world \in [Hosts -> AWorld] /\ made \in [Hosts -> AHistory]
      /\ chan \in [Hosts -> Seq(AMessage)] /\ peer \in [Hosts -> {"none", "open", "fin", "rst"}]
  BY TwoHosts DEF Types
<1>1. CASE network_start_server
  <2> DEFINE n == [net[Server] EXCEPT !.mode = "SERVER"]
  <2>1. n \in AHost /\ n.mode \in Modes(Server) /\ RingOk(n)
    <3>1. n \in AHost /\ n.mode = "SERVER" /\ n.at = net[Server].at
      BY <1>0 DEF AHost
    <3>2. n.at \notin {"events", "test"}
      <4>1. net[Server].mode = "IDLE" /\ RingOk(net[Server])
        BY <1>0, <1>1 DEF network_start_server
      <4>2. net[Server].at \in {"events", "test"} => net[Server].mode \in {"SERVER_CONNECTED", "CLIENT"}
        BY <4>1 DEF RingOk
      <4> QED
        BY <3>1, <4>1, <4>2
    <3>3. n.mode \in Modes(Server) /\ RingOk(n)
      BY <3>1, <3>2 DEF Modes, RingOk
    <3> QED
      BY <3>1, <3>3
  <2>2. net' = [net EXCEPT ![Server] = n] /\ UNCHANGED <<chan, peer, world, made>>
    BY <1>0, <1>1 DEF network_start_server
  <2> HIDE DEF n
  <2> QED
    BY <1>0, <2>1, <2>2, TypesKept
<1>2. CASE network_connect_client
  <2> DEFINE a == [net[Client] EXCEPT !.at = "snapshot"]
             b == [net[Server] EXCEPT !.mode = "SERVER_CONNECTED", !.at = "test", !.tests = 1]
  <2>1. a \in AHost /\ a.mode \in Modes(Client) /\ RingOk(a)
    <3>1. a \in AHost /\ a.mode = net[Client].mode /\ a.at = "snapshot"
      BY <1>0 DEF AHost, Places
    <3>2. net[Client].mode \notin {"SERVER_CONNECTED", "CLIENT"}
      BY <1>0, <1>2 DEF Fresh, network_connected, network_connect_client
    <3> QED
      BY <1>0, <3>1, <3>2 DEF RingOk
  <2>2. b \in AHost /\ b.mode \in Modes(Server) /\ RingOk(b)
    <3>1. b \in AHost /\ b.mode = "SERVER_CONNECTED" /\ b.at = "test"
      BY <1>0 DEF AHost, Places
    <3> QED
      BY <3>1 DEF Modes, RingOk
  <2>3. \A h \in Hosts : net'[h] = IF h = Client THEN a ELSE b
    BY <1>0, <1>2 DEF network_connect_client
  <2>4. net' = [h \in Hosts |-> IF h = Client THEN a ELSE b]
    BY <1>0, <1>2, <2>3 DEF network_connect_client
  <2>5. <<Msg("snapshot", world[Server]), Msg("test", 0)>> \in Seq(AMessage)
    <3>1. Msg("snapshot", world[Server]) \in AMessage /\ Msg("test", 0) \in AMessage
      BY <1>0 DEF Msg, AMessage
    <3> QED
      BY <3>1
  <2>6. chan' \in [Hosts -> Seq(AMessage)] /\ peer' \in [Hosts -> {"none", "open", "fin", "rst"}]
    BY <1>0, <1>2, <2>5 DEF network_connect_client
  <2>7. world' = world /\ made' = made
    BY <1>2 DEF network_connect_client
  <2> HIDE DEF a, b
  <2>8. net' \in [Hosts -> AHost] /\ \A h \in Hosts : net'[h].mode \in Modes(h) /\ RingOk(net'[h])
    BY <1>0, <2>1, <2>2, <2>4
  <2> QED
    BY <1>0, <2>6, <2>7, <2>8, Zenon DEF Types
<1>3. CASE network_client_connect_trap
  <2> DEFINE n == [net[Client] EXCEPT !.mode = "CLIENT", !.at = "test", !.tests = 0]
  <2>1. n \in AHost /\ n.mode \in Modes(Client) /\ RingOk(n)
    <3>1. n \in AHost /\ n.mode = "CLIENT" /\ n.at = "test"
      BY <1>0 DEF AHost, Places
    <3> QED
      BY <1>0, <3>1 DEF Modes, RingOk
  <2>2. net' = [net EXCEPT ![Client] = n] /\ made' = made
    BY <1>0, <1>3 DEF network_client_connect_trap
  <2>3. Got(Client, "snapshot") /\ Receive(Client)
    BY <1>3 DEF network_client_connect_trap
  <2>4. /\ chan' \in [Hosts -> Seq(AMessage)] /\ peer' \in [Hosts -> {"none", "open", "fin", "rst"}]
        /\ Head(chan[Client]) \in AMessage /\ Head(chan[Client]).kind = "snapshot"
    BY <1>0, <2>3, StreamTypes
  <2>5. world' \in [Hosts -> AWorld]
    <3>1. Head(chan[Client]).data \in AWorld
      BY <2>4 DEF AMessage
    <3> QED
      BY <1>0, <1>3, <3>1 DEF network_client_connect_trap
  <2> HIDE DEF n
  <2> QED
    BY <1>0, <2>1, <2>2, <2>4, <2>5, TypesKept
<1>4. CASE SnapshotFails
  <2> DEFINE n == [net[Client] EXCEPT !.at = "run"]
  <2>0. net[Client].at = "snapshot" /\ Got(Client, "snapshot") /\ Receive(Client)
    BY <1>4 DEF SnapshotFails
  <2>1. n \in AHost /\ n.mode \in Modes(Client) /\ RingOk(n)
    <3>1. n \in AHost /\ n.mode = net[Client].mode /\ n.at = "run"
      BY <1>0 DEF AHost, Places
    <3>2. n.mode \notin {"SERVER_CONNECTED", "CLIENT"}
      BY <1>0, <2>0, <3>1 DEF RingOk
    <3> QED
      BY <1>0, <3>1, <3>2 DEF RingOk
  <2>2. net' = [net EXCEPT ![Client] = n] /\ world' = world /\ made' = made
    BY <1>0, <1>4 DEF SnapshotFails
  <2>3. chan' \in [Hosts -> Seq(AMessage)] /\ peer' \in [Hosts -> {"none", "open", "fin", "rst"}]
    BY <1>0, <2>0, StreamTypes DEF Got
  <2> HIDE DEF n
  <2> QED
    BY <1>0, <2>1, <2>2, <2>3, TypesKept
<1> QED
  BY <1>1, <1>2, <1>3, <1>4

\* What network_init_frame_event_list and its trap leave.
LEMMA InitFramesIs ==
  ASSUME Types, NEW h \in Hosts, NEW delta \in Deltas, NEW w \in AWorld
  PROVE  LET e == InitFrames(h, delta, w)
         IN  /\ e \in AHost /\ e.mode = net[h].mode /\ e.at = "run"
             /\ e.frame_delta = delta /\ e.current_frame = 0 /\ ~ e.frame_buffer_full
             /\ \A i \in 0 .. delta - 1 : e.lists[i] = FrameList(IF i = 0 THEN w ELSE <<>>)
             /\ e.lists \in [0 .. delta - 1 -> AList] /\ e.tests = net[h].tests
<1> DEFINE l == [i \in 0 .. delta - 1 |-> FrameList(IF i = 0 THEN w ELSE <<>>)]
           n == net[h]
<1>1. delta \in Nat
  BY NetAssumption DEF Deltas
<1>2. n \in AHost
  BY DEF Types
<1>3. l \in [0 .. delta - 1 -> AList]
  <2>1. <<>> \in AWorld
    BY DEF AWorld
  <2>2. \A i \in 0 .. delta - 1 : FrameList(IF i = 0 THEN w ELSE <<>>) \in AList
    BY <2>1 DEF FrameList, AList
  <2> QED
    BY <2>2
<1>4. l \in Rings
  BY <1>1, <1>3 DEF Rings
<1> DEFINE e == InitFrames(h, delta, w)
<1>5. e = [n EXCEPT !.frame_delta = delta, !.current_frame = 0, !.frame_buffer_full = FALSE,
                    !.lists = l, !.at = "run"]
  BY DEF InitFrames
<1> HIDE DEF e, l, n
<1>6. /\ e \in AHost /\ e.mode = n.mode /\ e.at = "run"
      /\ e.frame_delta = delta /\ e.current_frame = 0 /\ e.frame_buffer_full = FALSE
      /\ e.lists = l /\ e.tests = n.tests
  BY <1>1, <1>2, <1>4, <1>5 DEF AHost, Places
<1>7. \A i \in 0 .. delta - 1 : l[i] = FrameList(IF i = 0 THEN w ELSE <<>>)
  BY DEF l
<1> QED
  BY <1>3, <1>6, <1>7 DEF e, n

\* So do those of network_test_delay,
LEMMA MeasuringTypes ==
  ASSUME Types, ClientEchoes \/ ServerMeasures \/ ClientIsTold \/ DeltaFails
  PROVE  Types'
<1>0. /\ Server \in Hosts /\ Client \in Hosts
      /\ \A h \in Hosts : /\ net[h] \in AHost /\ net[h].mode \in Modes(h) /\ RingOk(net[h])
                          /\ world[h] \in AWorld
      /\ net \in [Hosts -> AHost]
      /\ world \in [Hosts -> AWorld] /\ made \in [Hosts -> AHistory]
      /\ NUM_OF_TESTPACKETS \in Nat
  BY TwoHosts, NetAssumption DEF Types
<1>1. Msg("test", 0) \in AMessage /\ \A d \in Deltas : Msg("delta", d) \in AMessage
  BY DEF Msg, AMessage
<1>2. ASSUME NEW h \in Hosts, net[h].at = "test"
      PROVE  LET n == [net[h] EXCEPT !.tests = @ + 1]
             IN  n \in AHost /\ n.mode \in Modes(h) /\ RingOk(n)
  <2> DEFINE n == [net[h] EXCEPT !.tests = @ + 1]
  <2>1. n \in AHost /\ n.mode = net[h].mode /\ n.at = "test"
    BY <1>0, <1>2 DEF AHost
  <2> HIDE DEF n
  <2>2. n.mode \in Modes(h) /\ RingOk(n)
    BY <1>0, <1>2, <2>1 DEF RingOk
  <2> QED
    BY <2>1, <2>2 DEF n
<1>3. ASSUME NEW h \in Hosts, NEW d \in Deltas, net[h].at = "test"
      PROVE  LET n == InitFrames(h, d, world[h])
             IN  n \in AHost /\ n.mode \in Modes(h) /\ RingOk(n)
  <2> DEFINE n == InitFrames(h, d, world[h])
  <2>1. /\ n \in AHost /\ n.mode = net[h].mode /\ n.at = "run" /\ n.frame_delta = d
        /\ n.current_frame = 0 /\ n.lists \in [0 .. d - 1 -> AList]
    <3> DEFINE w == world[h]
    <3>1. w \in AWorld
      BY <1>0
    <3> HIDE DEF w
    <3>2. /\ InitFrames(h, d, w) \in AHost /\ InitFrames(h, d, w).mode = net[h].mode
          /\ InitFrames(h, d, w).at = "run" /\ InitFrames(h, d, w).frame_delta = d
          /\ InitFrames(h, d, w).current_frame = 0 /\ InitFrames(h, d, w).lists \in [0 .. d - 1 -> AList]
      BY <3>1, InitFramesIs
    <3> QED
      BY <3>2 DEF w
  <2> HIDE DEF n
  <2>2. 0 \in 0 .. d - 1
    <3>1. d \in Nat \ {0}
      BY NetAssumption DEF Deltas
    <3> QED
      BY <3>1
  <2>3. n.mode \in Modes(h) /\ RingOk(n)
    BY <1>0, <2>1, <2>2 DEF RingOk
  <2> QED
    BY <2>1, <2>3 DEF n
<1>4. CASE ClientEchoes
  <2> DEFINE n == [net[Client] EXCEPT !.tests = @ + 1]
  <2>1. /\ net[Client].at = "test" /\ Got(Client, "test") /\ net' = [net EXCEPT ![Client] = n]
        /\ Answer(Client, Msg("test", 0)) /\ world' = world /\ made' = made
    BY <1>0, <1>4 DEF ClientEchoes
  <2>2. n \in AHost /\ n.mode \in Modes(Client) /\ RingOk(n)
    BY <1>0, <1>2, <2>1
  <2>3. chan' \in [Hosts -> Seq(AMessage)] /\ peer' \in [Hosts -> {"none", "open", "fin", "rst"}]
    BY <1>0, <1>1, <2>1, StreamTypes DEF Got
  <2> HIDE DEF n
  <2> QED
    BY <1>0, <2>1, <2>2, <2>3, TypesKept
<1>5. CASE ServerMeasures
  <2>1. /\ net[Server].at = "test" /\ Got(Server, "test") /\ world' = world /\ made' = made
    BY <1>5 DEF ServerMeasures
  <2>2. CASE net[Server].tests < NUM_OF_TESTPACKETS
    <3> DEFINE n == [net[Server] EXCEPT !.tests = @ + 1]
    <3>1. net' = [net EXCEPT ![Server] = n] /\ Answer(Server, Msg("test", 0))
      BY <1>0, <1>5, <2>2 DEF ServerMeasures
    <3>2. n \in AHost /\ n.mode \in Modes(Server) /\ RingOk(n)
      BY <1>0, <1>2, <2>1
    <3>3. chan' \in [Hosts -> Seq(AMessage)] /\ peer' \in [Hosts -> {"none", "open", "fin", "rst"}]
      BY <1>0, <1>1, <2>1, <3>1, StreamTypes DEF Got
    <3> HIDE DEF n
    <3> QED
      BY <1>0, <2>1, <3>1, <3>2, <3>3, TypesKept
  <2>3. CASE ~ (net[Server].tests < NUM_OF_TESTPACKETS)
    <3>1. PICK delta \in Deltas :
            /\ net' = [net EXCEPT ![Server] = InitFrames(Server, delta, world[Server])]
            /\ Answer(Server, Msg("delta", delta))
      BY <1>5, <2>3 DEF ServerMeasures, Deltas
    <3> DEFINE n == InitFrames(Server, delta, world[Server])
    <3>2. n \in AHost /\ n.mode \in Modes(Server) /\ RingOk(n)
      BY <1>0, <1>3, <2>1
    <3>3. chan' \in [Hosts -> Seq(AMessage)] /\ peer' \in [Hosts -> {"none", "open", "fin", "rst"}]
      BY <1>0, <1>1, <2>1, <3>1, StreamTypes DEF Got
    <3> HIDE DEF n
    <3> QED
      BY <1>0, <2>1, <3>1, <3>2, <3>3, TypesKept DEF n
  <2> QED
    BY <2>2, <2>3
<1>6. CASE ClientIsTold
  <2> DEFINE delta == Head(chan[Client]).data
             n == InitFrames(Client, delta, world[Client])
  <2>1. /\ net[Client].at = "test" /\ Got(Client, "delta") /\ world' = world /\ made' = made
        /\ net' = [net EXCEPT ![Client] = n] /\ Receive(Client)
    BY <1>6 DEF ClientIsTold
  <2>2. delta \in Deltas
    <3>1. Head(chan[Client]) \in AMessage /\ Head(chan[Client]).kind = "delta"
      BY <1>0, <2>1, StreamTypes
    <3> QED
      BY <3>1 DEF AMessage
  <2> HIDE DEF delta
  <2>3. n \in AHost /\ n.mode \in Modes(Client) /\ RingOk(n)
    BY <1>0, <1>3, <2>1, <2>2
  <2>4. chan' \in [Hosts -> Seq(AMessage)] /\ peer' \in [Hosts -> {"none", "open", "fin", "rst"}]
    BY <1>0, <2>1, StreamTypes DEF Got
  <2> HIDE DEF n
  <2> QED
    BY <1>0, <2>1, <2>3, <2>4, TypesKept
<1>7. CASE DeltaFails
  <2>1. /\ net[Client].at = "test" /\ chan' = chan /\ peer' = peer /\ world' = world /\ made' = made
        /\ chan \in [Hosts -> Seq(AMessage)] /\ peer \in [Hosts -> {"none", "open", "fin", "rst"}]
    BY <1>7 DEF DeltaFails, AwaitsDelta, Types
  <2>2. CASE net' = [net EXCEPT ![Client] = [@ EXCEPT !.at = "no lists"]]
    <3> DEFINE n == [net[Client] EXCEPT !.at = "no lists"]
    <3>1. n \in AHost /\ n.mode = net[Client].mode /\ n.at = "no lists"
      BY <1>0 DEF AHost, Places
    <3>2. net' = [net EXCEPT ![Client] = n]
      BY <1>0, <2>2
    <3> HIDE DEF n
    <3>3. n.mode \in Modes(Client) /\ RingOk(n)
      BY <1>0, <3>1 DEF RingOk
    <3> QED
      BY <1>0, <2>1, <3>1, <3>2, <3>3, TypesKept
  <2>3. ASSUME NEW d \in Deltas, net' = [net EXCEPT ![Client] = InitFrames(Client, d, world[Client])]
        PROVE  Types'
    <3> DEFINE n == InitFrames(Client, d, world[Client])
    <3>1. n \in AHost /\ n.mode \in Modes(Client) /\ RingOk(n)
      BY <1>0, <1>3, <2>1
    <3>2. net' = [net EXCEPT ![Client] = n]
      BY <2>3
    <3> HIDE DEF n
    <3> QED
      BY <1>0, <2>1, <3>1, <3>2, TypesKept
  <2> QED
    BY <1>7, <2>2, <2>3 DEF DeltaFails, Deltas
<1> QED
  BY <1>4, <1>5, <1>6, <1>7

\* those by which a host goes,
LEMMA LeavingTypes ==
  ASSUME Types, NEW h \in Hosts, Leave(h) \/ RecvFails(h)
  PROVE  Types'
<1>0. /\ Other(h) \in Hosts /\ Other(h) # h
      /\ net[h] \in AHost /\ net[h].mode \in Modes(h) /\ RingOk(net[h])
      /\ net \in [Hosts -> AHost] /\ chan \in [Hosts -> Seq(AMessage)]
      /\ peer \in [Hosts -> {"none", "open", "fin", "rst"}]
      /\ world \in [Hosts -> AWorld] /\ made \in [Hosts -> AHistory]
  BY TwoHosts DEF Types
<1>1. CASE Leave(h)
  <2> DEFINE n == [net[h] EXCEPT !.mode = "IDLE", !.at = "gone"]
  <2>1. n \in AHost /\ n.mode = "IDLE" /\ n.at = "gone"
    BY <1>0 DEF AHost, Places
  <2>2. net' = [net EXCEPT ![h] = n] /\ world' = world /\ made' = made
    BY <1>0, <1>1 DEF Leave
  <2>3. chan' \in [Hosts -> Seq(AMessage)] /\ peer' \in [Hosts -> {"none", "open", "fin", "rst"}]
    <3>1. <<>> \in Seq(AMessage)
      OBVIOUS
    <3> QED
      BY <1>0, <1>1, <3>1 DEF Leave
  <2> HIDE DEF n
  <2>4. n.mode \in Modes(h) /\ RingOk(n)
    BY <2>1 DEF Modes, RingOk
  <2> QED
    BY <1>0, <2>1, <2>2, <2>3, <2>4, TypesKept
<1>2. CASE RecvFails(h)
  <2>1. chan' = chan /\ world' = world /\ made' = made
    BY <1>2 DEF RecvFails
  <2>2. peer' \in [Hosts -> {"none", "open", "fin", "rst"}]
    BY <1>0, <1>2 DEF RecvFails
  <2>3. CASE net' = [net EXCEPT ![h] = network_disconnect(@)]
    <3> DEFINE n == network_disconnect(net[h])
    <3>1. n \in AHost /\ n.mode \in Modes(h) /\ RingOk(n)
      BY <1>0, DisconnectTypes
    <3>2. net' = [net EXCEPT ![h] = n]
      BY <2>3
    <3> HIDE DEF n
    <3> QED
      BY <1>0, <2>1, <2>2, <3>1, <3>2, TypesKept
  <2>4. CASE net[h].at = "test" /\ net' = [net EXCEPT ![h].at = "no lists"]
    <3> DEFINE n == [net[h] EXCEPT !.at = "no lists"]
    <3>1. n \in AHost /\ n.mode = net[h].mode /\ n.at = "no lists"
      BY <1>0 DEF AHost, Places
    <3>2. net' = [net EXCEPT ![h] = n]
      BY <1>0, <2>4
    <3> HIDE DEF n
    <3>3. RingOk(n)
      BY <3>1 DEF RingOk
    <3> QED
      BY <1>0, <2>1, <2>2, <3>1, <3>2, <3>3, TypesKept
  <2>5. CASE net[h].at = "snapshot" /\ net' = [net EXCEPT ![h].at = "run"]
    <3> DEFINE n == [net[h] EXCEPT !.at = "run"]
    <3>1. n \in AHost /\ n.mode = net[h].mode /\ n.at = "run"
      BY <1>0 DEF AHost, Places
    <3>2. net' = [net EXCEPT ![h] = n]
      BY <1>0, <2>5
    <3> HIDE DEF n
    <3>3. RingOk(n)
      BY <1>0, <2>5, <3>1 DEF RingOk
    <3> QED
      BY <1>0, <2>1, <2>2, <3>1, <3>2, <3>3, TypesKept
  <2> QED
    BY <1>2, <2>3, <2>4, <2>5 DEF RecvFails
<1> QED
  BY <1>1, <1>2

\* A host that plays has a ring.
LEMMA RingOfPlayer ==
  ASSUME Types, NEW h \in Hosts, Running(h) \/ net[h].at = "events"
  PROVE  LET n == net[h]
         IN  /\ n \in AHost /\ n.mode \in {"SERVER_CONNECTED", "CLIENT"} /\ n.mode \in Modes(h)
             /\ n.frame_delta \in Deltas /\ n.frame_delta \in Nat /\ n.frame_delta >= 1
             /\ n.lists \in [0 .. n.frame_delta - 1 -> AList]
             /\ n.current_frame \in 0 .. n.frame_delta - 1
             /\ n.lists[n.current_frame] \in AList
<1>1. net[h] \in AHost /\ net[h].mode \in Modes(h) /\ RingOk(net[h])
  BY DEF Types
<1>2. \A d \in Deltas : d \in Nat /\ d >= 1
  <2>1. \A d \in Deltas : d \in Nat \ {0}
    BY NetAssumption DEF Deltas
  <2> QED
    BY <2>1
<1> QED
  BY <1>1, <1>2 DEF RingOk, Running, network_connected

\* What network_event_record records.
LEMMA RecordIs ==
  ASSUME Types, NEW h \in Hosts, NEW type \in Inputs, network_event_record(h, type)
  PROVE  LET n == net[h]
             e == [type |-> type, from |-> h, data |-> Len(made[h].inputs)]
             l == [n.lists EXCEPT ![n.current_frame].inputs = Append(@, e)]
         IN  /\ e \in AnInput /\ l \in [0 .. n.frame_delta - 1 -> AList]
             /\ [n EXCEPT !.lists = l] \in AHost
             /\ net' = [net EXCEPT ![h] = [n EXCEPT !.lists = l]]
             /\ made' = [made EXCEPT ![h].inputs = Append(@, [event |-> e, frame |-> made[h].frames])]
             /\ made' \in [Hosts -> AHistory] /\ world' = world /\ chan' = chan /\ peer' = peer
<1> DEFINE n == net[h]
           d == n.frame_delta
           c == n.current_frame
           e == [type |-> type, from |-> h, data |-> Len(made[h].inputs)]
           l == [n.lists EXCEPT ![c].inputs = Append(@, e)]
<1>1. /\ n \in AHost /\ d \in Nat /\ n.lists \in [0 .. d - 1 -> AList] /\ c \in 0 .. d - 1
  BY RingOfPlayer DEF network_event_record
<1>2. made[h] \in AHistory /\ made[h].inputs \in Seq([event : AnInput, frame : Nat])
  BY DEF Types, AHistory
<1>3. e \in AnInput
  BY <1>2 DEF AnInput
<1>4. l \in [0 .. d - 1 -> AList]
  <2>1. <<>> \in AWorld
    BY DEF AWorld
  <2> HIDE DEF e, d, c
  <2> QED
    BY <1>1, <1>3, <2>1, RingTypes
<1>5. l \in Rings
  BY <1>1, <1>4 DEF Rings
<1>6. net' = [net EXCEPT ![h] = [n EXCEPT !.lists = l]]
  BY <1>1 DEF network_event_record, Types, AHost
<1>7. [n EXCEPT !.lists = l] \in AHost
  <2> HIDE DEF l, n
  <2> QED
    BY <1>1, <1>5 DEF AHost
<1>8. world' = world /\ chan' = chan /\ peer' = peer
  BY DEF network_event_record, GivenToMachine, Types
<1>9. made' = [made EXCEPT ![h].inputs = Append(@, [event |-> e, frame |-> made[h].frames])]
  BY DEF network_event_record
<1>10. made' \in [Hosts -> AHistory]
  <2> DEFINE x == [event |-> e, frame |-> made[h].frames]
             y == [made[h] EXCEPT !.inputs = Append(made[h].inputs, x)]
  <2>1. x \in [event : AnInput, frame : Nat]
    BY <1>2, <1>3 DEF AHistory
  <2> HIDE DEF x
  <2>2. Append(made[h].inputs, x) \in Seq([event : AnInput, frame : Nat])
    BY <1>2, <2>1
  <2>3. y \in AHistory
    BY <1>2, <2>2 DEF AHistory
  <2>4. made' = [made EXCEPT ![h] = y]
    BY <1>9 DEF Types, x
  <2> QED
    BY <2>3, <2>4 DEF Types
<1> QED
  BY <1>3, <1>4, <1>6, <1>7, <1>8, <1>9, <1>10

\* The ring is full: a host that has sent waits.
Full(n) == n.frame_buffer_full \/ n.current_frame = n.frame_delta - 1

\* What network_hook_connected_send does: the frame ends, or the host waits for the other's list.
LEMMA SendIs ==
  ASSUME Types, NEW h \in Hosts, network_hook_connected_send(h)
  PROVE  LET n == net[h]
             l == n.lists[n.current_frame]
             p == FrameToPlay(n)
             m == [n EXCEPT !.suspended = FALSE, !.frame_buffer_full = Full(n), !.at = "events"]
             r == [n EXCEPT !.suspended = FALSE, !.frame_buffer_full = Full(n), !.current_frame = p,
                            !.lists = [n.lists EXCEPT ![p] = FrameList(world[h])]]
             t == [made[h] EXCEPT !.sent = Append(@, l), !.frames = IF Full(n) THEN @ ELSE @ + 1]
         IN  /\ n.at = "run" /\ l \in AList /\ Msg("events", l) \in AMessage /\ Send(h, <<Msg("events", l)>>)
             /\ p = (IF n.current_frame = n.frame_delta - 1 THEN 0 ELSE n.current_frame + 1)
             /\ p \in 0 .. n.frame_delta - 1
             /\ m \in AHost /\ r \in AHost
             /\ [n.lists EXCEPT ![p] = FrameList(world[h])] \in [0 .. n.frame_delta - 1 -> AList]
             /\ net' = [net EXCEPT ![h] = IF Full(n) THEN m ELSE r]
             /\ made' = [made EXCEPT ![h] = t] /\ t \in AHistory /\ world' = world
<1> DEFINE n == net[h]
           d == n.frame_delta
           c == n.current_frame
           l == n.lists[c]
           p == FrameToPlay(n)
           L == [n.lists EXCEPT ![p] = FrameList(world[h])]
           s == [n EXCEPT !.suspended = FALSE, !.frame_buffer_full = Full(n)]
           m == [n EXCEPT !.suspended = FALSE, !.frame_buffer_full = Full(n), !.at = "events"]
           r == [n EXCEPT !.suspended = FALSE, !.frame_buffer_full = Full(n), !.current_frame = p, !.lists = L]
           t == [made[h] EXCEPT !.sent = Append(@, l), !.frames = IF Full(n) THEN @ ELSE @ + 1]
<1>1. /\ n \in AHost /\ d \in Deltas /\ d \in Nat /\ n.lists \in [0 .. d - 1 -> AList]
      /\ c \in 0 .. d - 1 /\ l \in AList /\ n.at = "run"
  BY RingOfPlayer DEF network_hook_connected_send, Running
<1>2. world[h] \in AWorld /\ made[h] \in AHistory /\ net \in [Hosts -> AHost] /\ made \in [Hosts -> AHistory]
  BY DEF Types
<1>3. Full(n) \in BOOLEAN
  BY DEF Full
<1> HIDE DEF n, p, L, s, m, r, t
<1>4. /\ p = (IF c = d - 1 THEN 0 ELSE c + 1) /\ p \in 0 .. d - 1
      /\ L \in [0 .. d - 1 -> AList]
  BY <1>1, <1>2, NextFrameIs DEF p, L, n
<1>5. s \in AHost /\ s.frame_delta = d /\ s.current_frame = c /\ s.lists = n.lists /\ s.at = "run"
  BY <1>1, <1>3 DEF AHost, s
<1>6. FrameToPlay(s) = p
  BY <1>5 DEF FrameToPlay, p
<1>7. NextFrame(s, world[h]) = [s EXCEPT !.current_frame = p, !.lists = L, !.at = "run"]
  <2> DEFINE W == world[h]
             M == [s.lists EXCEPT ![FrameToPlay(s)] = FrameList(W)]
  <2>1. W \in AWorld /\ s.lists \in [0 .. s.frame_delta - 1 -> AList] /\ s.current_frame \in 0 .. s.frame_delta - 1
    BY <1>1, <1>2, <1>5
  <2>2. s.frame_delta \in Deltas
    BY <1>1, <1>5
  <2> HIDE DEF W
  <2>3. NextFrame(s, W) = [s EXCEPT !.current_frame = FrameToPlay(s), !.lists = M, !.at = "run"]
    BY <1>5, <2>1, <2>2, NextFrameIs
  <2>4. M = L
    BY <1>5, <1>6 DEF W, L
  <2> HIDE DEF M
  <2> QED
    BY <1>6, <2>3, <2>4 DEF W
<1>8. L \in Rings /\ p \in Nat
  BY <1>1, <1>4 DEF Rings
<1>9. m \in AHost /\ r \in AHost
  BY <1>1, <1>3, <1>8 DEF AHost, Places, m, r
<1>10. NextFrame(s, world[h]) = r /\ [s EXCEPT !.at = "events"] = m
  <2>1. [s EXCEPT !.at = "events"] = m
    BY <1>1, <1>3 DEF AHost, s, m
  <2>2. [s EXCEPT !.current_frame = p, !.lists = L, !.at = "run"] = r
    BY <1>1, <1>3, <1>8 DEF AHost, s, r
  <2> QED
    BY <1>7, <2>1, <2>2
<1>11. net' = [net EXCEPT ![h] = IF Full(n) THEN m ELSE r]
  BY <1>10 DEF network_hook_connected_send, Full, n, s
<1>12. Send(h, <<Msg("events", l)>>) /\ world' = world
  BY DEF network_hook_connected_send, FrameMessages, n
<1>13. Msg("events", l) \in AMessage
  BY <1>1 DEF Msg, AMessage
<1>14. /\ made[h].sent \in Seq(AList) /\ made[h].frames \in Nat
  BY <1>2 DEF AHistory
<1>15. t \in AHistory
  <2>1. Append(made[h].sent, l) \in Seq(AList)
    BY <1>1, <1>14
  <2>2. (IF Full(n) THEN made[h].frames ELSE made[h].frames + 1) \in Nat
    BY <1>14
  <2> QED
    BY <1>2, <2>1, <2>2 DEF AHistory, t
<1>16. made' = [made EXCEPT ![h] = t]
  BY <1>2 DEF network_hook_connected_send, Full, n, t, AHistory
<1> QED
  BY <1>1, <1>4, <1>9, <1>11, <1>12, <1>13, <1>15, <1>16 DEF n, p, L, m, r, t

\* What network_hook_connected_receive does: both lists are played, and the frame ends.
LEMMA ReceiveIs ==
  ASSUME Types, NEW h \in Hosts, network_hook_connected_receive(h)
  PROVE  LET n == net[h]
             p == FrameToPlay(n)
             x == Head(chan[h]).data
             w == world[h] \o Order(h, n.lists[p].inputs, x.inputs)
             r == [n EXCEPT !.current_frame = p, !.lists = [n.lists EXCEPT ![p] = FrameList(w)], !.at = "run"]
             t == [made[h] EXCEPT !.frames = @ + 1, !.past = Append(@, w)]
         IN  /\ n.at = "events" /\ n.lists[p] \in AList
             /\ Got(h, "events") /\ x \in AList /\ Receive(h)
             /\ p = (IF n.current_frame = n.frame_delta - 1 THEN 0 ELSE n.current_frame + 1)
             /\ p \in 0 .. n.frame_delta - 1
             /\ w \in AWorld /\ r \in AHost /\ t \in AHistory
             /\ [n.lists EXCEPT ![p] = FrameList(w)] \in [0 .. n.frame_delta - 1 -> AList]
             /\ ~ OutOfSync(n.lists[p], x) => net' = [net EXCEPT ![h] = r]
             /\ OutOfSync(n.lists[p], x) =>
                  net' = [net EXCEPT ![h] = NextFrame(network_disconnect(n), w)]
             /\ made' = [made EXCEPT ![h] = t] /\ world' = [world EXCEPT ![h] = w]
<1> DEFINE n == net[h]
           d == n.frame_delta
           c == n.current_frame
           p == FrameToPlay(n)
           x == Head(chan[h]).data
           w == world[h] \o Order(h, n.lists[p].inputs, x.inputs)
           L == [n.lists EXCEPT ![p] = FrameList(w)]
           r == [n EXCEPT !.current_frame = p, !.lists = L, !.at = "run"]
           t == [made[h] EXCEPT !.frames = @ + 1, !.past = Append(@, w)]
<1>0. n.at = "events" /\ Got(h, "events") /\ Receive(h)
  BY DEF network_hook_connected_receive
<1>1. /\ n \in AHost /\ d \in Deltas /\ d \in Nat /\ n.lists \in [0 .. d - 1 -> AList]
      /\ c \in 0 .. d - 1
  BY <1>0, RingOfPlayer
<1>2. world[h] \in AWorld /\ made[h] \in AHistory /\ net \in [Hosts -> AHost] /\ made \in [Hosts -> AHistory]
  BY DEF Types
<1>3. x \in AList
  <2>1. Head(chan[h]) \in AMessage /\ Head(chan[h]).kind = "events"
    BY <1>0, StreamTypes
  <2> QED
    BY <2>1 DEF AMessage
<1> HIDE DEF n, p, x, w, L, r, t
<1>4. p = (IF c = d - 1 THEN 0 ELSE c + 1) /\ p \in 0 .. d - 1
  BY <1>1, <1>2, NextFrameIs DEF p, n
<1>5. n.lists[p] \in AList
  BY <1>1, <1>4
<1>6. w \in AWorld
  <2>1. n.lists[p].inputs \in Seq(AnInput) /\ x.inputs \in Seq(AnInput)
    BY <1>3, <1>5 DEF AList
  <2>2. Order(h, n.lists[p].inputs, x.inputs) \in Seq(AnInput)
    BY <2>1 DEF Order
  <2> DEFINE S == [kind : {"own"}, data : Hosts] \cup AnInput
  <2>3. \A a, b \in Seq(S) : a \o b \in Seq(S)
    OBVIOUS
  <2>4. \A q \in Seq(AnInput) : q \in Seq(S)
    OBVIOUS
  <2> QED
    BY <1>2, <2>2, <2>3, <2>4 DEF AWorld, w
<1>7. /\ NextFrame(n, w) = r /\ r \in AHost
      /\ L \in [0 .. d - 1 -> AList]
  BY <1>1, <1>6, NextFrameIs DEF p, r, L
<1>8. t \in AHistory
  <2>1. made[h].frames + 1 \in Nat /\ Append(made[h].past, w) \in Seq(AWorld)
    BY <1>2, <1>6 DEF AHistory
  <2> QED
    BY <1>2, <2>1 DEF AHistory, t
<1>9. made' = [made EXCEPT ![h] = t]
  BY <1>2 DEF network_hook_connected_receive, t, AHistory, w, n, p, x
<1>10. world' = [world EXCEPT ![h] = w]
  BY DEF network_hook_connected_receive, w, n, p, x
<1>11. net' = [net EXCEPT ![h] = NextFrame(IF OutOfSync(n.lists[p], x) THEN network_disconnect(n) ELSE n, w)]
  BY DEF network_hook_connected_receive, w, n, p, x
<1> QED
  BY <1>0, <1>1, <1>3, <1>4, <1>5, <1>6, <1>7, <1>8, <1>9, <1>10, <1>11 DEF n, p, x, w, L, r, t

\* those of the game,
LEMMA PlayingTypes ==
  ASSUME Types, NEW h \in Hosts,
         \/ \E type \in Inputs : network_event_record(h, type)
         \/ network_suspend(h) \/ network_hook_connected_send(h) \/ RemoteSuspends(h)
         \/ network_hook_connected_receive(h)
  PROVE  Types'
<1> DEFINE n == net[h]
           d == n.frame_delta
<1>0. /\ n \in AHost /\ n.mode \in Modes(h) /\ RingOk(n)
      /\ net \in [Hosts -> AHost] /\ chan \in [Hosts -> Seq(AMessage)]
      /\ peer \in [Hosts -> {"none", "open", "fin", "rst"}]
      /\ world \in [Hosts -> AWorld] /\ made \in [Hosts -> AHistory]
  BY DEF Types
<1>1. ASSUME NEW type \in Inputs, network_event_record(h, type)
      PROVE  Types'
  <2> DEFINE e == [type |-> type, from |-> h, data |-> Len(made[h].inputs)]
             l == [n.lists EXCEPT ![n.current_frame].inputs = Append(@, e)]
             q == [n EXCEPT !.lists = l]
  <2>1. /\ l \in [0 .. d - 1 -> AList] /\ q \in AHost /\ net' = [net EXCEPT ![h] = q]
        /\ made' \in [Hosts -> AHistory] /\ world' = world /\ chan' = chan /\ peer' = peer
    BY <1>1, RecordIs
  <2>2. n.mode \in {"SERVER_CONNECTED", "CLIENT"} /\ d \in Deltas /\ n.current_frame \in 0 .. d - 1 /\ n.at = "run"
    BY <1>1, RingOfPlayer DEF network_event_record, Running
  <2> HIDE DEF l
  <2>3. /\ q.mode = n.mode /\ q.at = n.at /\ q.frame_delta = d /\ q.current_frame = n.current_frame
        /\ q.lists = l
    BY <1>0 DEF AHost
  <2> HIDE DEF q, n
  <2>4. q.mode \in Modes(h) /\ RingOk(q)
    BY <1>0, <2>1, <2>2, <2>3 DEF RingOk
  <2> QED
    BY <1>0, <2>1, <2>4, TypesKept
<1>2. CASE network_suspend(h)
  <2> DEFINE q == [n EXCEPT !.suspended = TRUE]
  <2>1. /\ net' = [net EXCEPT ![h] = q] /\ world' = world /\ made' = made
        /\ Send(h, <<Msg("suspend", 0)>>)
    BY <1>0, <1>2 DEF network_suspend
  <2>2. Msg("suspend", 0) \in AMessage
    BY DEF Msg, AMessage
  <2>3. chan' \in [Hosts -> Seq(AMessage)] /\ peer' \in [Hosts -> {"none", "open", "fin", "rst"}]
    BY <2>1, <2>2, StreamTypes
  <2>4. /\ q \in AHost /\ q.mode = n.mode /\ q.at = n.at /\ q.frame_delta = d
        /\ q.current_frame = n.current_frame /\ q.lists = n.lists
    BY <1>0 DEF AHost
  <2> HIDE DEF q, n
  <2>5. RingOk(q)
    BY <1>0, <2>4 DEF RingOk
  <2> QED
    BY <1>0, <2>1, <2>3, <2>4, <2>5, TypesKept
<1>3. CASE RemoteSuspends(h)
  <2> DEFINE q == [n EXCEPT !.suspended = TRUE]
  <2>1. /\ net' = [net EXCEPT ![h] = q] /\ world' = world /\ made' = made
        /\ Got(h, "suspend") /\ Receive(h)
    BY <1>0, <1>3 DEF RemoteSuspends
  <2>3. chan' \in [Hosts -> Seq(AMessage)] /\ peer' \in [Hosts -> {"none", "open", "fin", "rst"}]
    BY <2>1, StreamTypes
  <2>4. /\ q \in AHost /\ q.mode = n.mode /\ q.at = n.at /\ q.frame_delta = d
        /\ q.current_frame = n.current_frame /\ q.lists = n.lists
    BY <1>0 DEF AHost
  <2> HIDE DEF q, n
  <2>5. RingOk(q)
    BY <1>0, <2>4 DEF RingOk
  <2> QED
    BY <1>0, <2>1, <2>3, <2>4, <2>5, TypesKept
<1>4. CASE network_hook_connected_send(h)
  <2> DEFINE l == n.lists[n.current_frame]
             p == FrameToPlay(n)
             L == [n.lists EXCEPT ![p] = FrameList(world[h])]
             m == [n EXCEPT !.suspended = FALSE, !.frame_buffer_full = Full(n), !.at = "events"]
             r == [n EXCEPT !.suspended = FALSE, !.frame_buffer_full = Full(n), !.current_frame = p,
                            !.lists = L]
             t == [made[h] EXCEPT !.sent = Append(@, l), !.frames = IF Full(n) THEN @ ELSE @ + 1]
             q == IF Full(n) THEN m ELSE r
  <2>1. /\ n.at = "run" /\ l \in AList /\ Msg("events", l) \in AMessage /\ Send(h, <<Msg("events", l)>>)
        /\ p \in 0 .. d - 1 /\ m \in AHost /\ r \in AHost
        /\ L \in [0 .. d - 1 -> AList]
        /\ net' = [net EXCEPT ![h] = q]
        /\ made' = [made EXCEPT ![h] = t] /\ t \in AHistory /\ world' = world
    BY <1>4, SendIs
  <2>2. n.mode \in {"SERVER_CONNECTED", "CLIENT"} /\ d \in Deltas /\ n.current_frame \in 0 .. d - 1
        /\ n.lists \in [0 .. d - 1 -> AList]
    BY <1>4, RingOfPlayer DEF network_hook_connected_send
  <2>3. chan' \in [Hosts -> Seq(AMessage)] /\ peer' \in [Hosts -> {"none", "open", "fin", "rst"}]
    BY <2>1, StreamTypes
  <2>4. made' \in [Hosts -> AHistory]
    BY <1>0, <2>1
  <2> HIDE DEF L, t, p
  <2>5. m.mode = n.mode /\ m.frame_delta = d /\ m.current_frame = n.current_frame /\ m.lists = n.lists /\ m.at = "events"
    BY <1>0 DEF AHost
  <2>6. r.mode = n.mode /\ r.frame_delta = d /\ r.current_frame = p /\ r.lists = L /\ r.at = "run"
    BY <1>0, <2>1 DEF AHost
  <2> HIDE DEF m, r, n
  <2>7. RingOk(m) /\ m.mode \in Modes(h)
    BY <1>0, <2>1, <2>2, <2>5 DEF RingOk
  <2>8. RingOk(r) /\ r.mode \in Modes(h)
    BY <1>0, <2>1, <2>2, <2>6 DEF RingOk
  <2>9. q \in AHost /\ q.mode \in Modes(h) /\ RingOk(q)
    BY <2>1, <2>7, <2>8
  <2> HIDE DEF q
  <2> QED
    BY <1>0, <2>1, <2>3, <2>4, <2>9, TypesKept
<1>5. CASE network_hook_connected_receive(h)
  <2> DEFINE p == FrameToPlay(n)
             x == Head(chan[h]).data
             w == world[h] \o Order(h, n.lists[p].inputs, x.inputs)
             L == [n.lists EXCEPT ![p] = FrameList(w)]
             r == [n EXCEPT !.current_frame = p, !.lists = L, !.at = "run"]
             t == [made[h] EXCEPT !.frames = @ + 1, !.past = Append(@, w)]
             e == network_disconnect(n)
             q == IF OutOfSync(n.lists[p], x) THEN NextFrame(e, w) ELSE r
  <2>1. /\ n.at = "events" /\ Got(h, "events") /\ Receive(h)
        /\ p \in 0 .. d - 1 /\ w \in AWorld /\ r \in AHost /\ t \in AHistory
        /\ L \in [0 .. d - 1 -> AList]
        /\ net' = [net EXCEPT ![h] = q]
        /\ made' = [made EXCEPT ![h] = t] /\ world' = [world EXCEPT ![h] = w]
    BY <1>5, ReceiveIs
  <2>2. n.mode \in {"SERVER_CONNECTED", "CLIENT"} /\ d \in Deltas /\ n.current_frame \in 0 .. d - 1
        /\ n.lists \in [0 .. d - 1 -> AList]
    BY <2>1, RingOfPlayer
  <2>3. chan' \in [Hosts -> Seq(AMessage)] /\ peer' \in [Hosts -> {"none", "open", "fin", "rst"}]
    BY <2>1, StreamTypes
  <2>4. made' \in [Hosts -> AHistory] /\ world' \in [Hosts -> AWorld]
    BY <1>0, <2>1
  <2> HIDE DEF L, t, p, w
  <2>6. r.mode = n.mode /\ r.frame_delta = d /\ r.current_frame = p /\ r.lists = L /\ r.at = "run"
    BY <1>0, <2>1 DEF AHost
  <2>7. RingOk(r) /\ r.mode \in Modes(h)
    <3> HIDE DEF r, n
    <3> QED
      BY <1>0, <2>1, <2>2, <2>6 DEF RingOk
  <2>8. RingOk(NextFrame(e, w)) /\ NextFrame(e, w).mode \in Modes(h) /\ NextFrame(e, w) \in AHost
    <3>1. /\ e \in AHost /\ e.mode \in Modes(h) /\ e.mode \notin {"SERVER_CONNECTED", "CLIENT"}
          /\ e.frame_delta = d /\ e.current_frame = n.current_frame /\ e.lists = n.lists
      <4> HIDE DEF n
      <4> QED
        BY <1>0, DisconnectTypes
    <3> HIDE DEF e, n
    <3>2. /\ NextFrame(e, w) \in AHost
          /\ NextFrame(e, w) =
              [e EXCEPT !.current_frame = FrameToPlay(e),
                        !.lists = [e.lists EXCEPT ![FrameToPlay(e)] = FrameList(w)], !.at = "run"]
      BY <2>1, <2>2, <3>1, NextFrameIs
    <3>3. NextFrame(e, w).mode = e.mode /\ NextFrame(e, w).at = "run"
      BY <3>1, <3>2 DEF AHost
    <3> QED
      BY <3>1, <3>2, <3>3 DEF RingOk
  <2> HIDE DEF r, n, e
  <2>9. q \in AHost /\ q.mode \in Modes(h) /\ RingOk(q)
    BY <2>1, <2>7, <2>8
  <2> HIDE DEF q
  <2> QED
    BY <1>0, <2>1, <2>3, <2>4, <2>9, TypesKept
<1> QED
  BY <1>1, <1>2, <1>3, <1>4, <1>5

\* and a failed send.
LEMMA SendFailsTypes ==
  ASSUME Types, NEW h \in Hosts, SendFails(h)
  PROVE  Types'
<1> DEFINE n == net[h]
           d == n.frame_delta
           e == network_disconnect(n)
           q == IF Full(n) THEN network_disconnect(e) ELSE NextFrame(e, world[h])
<1>0. /\ net \in [Hosts -> AHost] /\ chan \in [Hosts -> Seq(AMessage)]
      /\ peer \in [Hosts -> {"none", "open", "fin", "rst"}]
      /\ world \in [Hosts -> AWorld] /\ made \in [Hosts -> AHistory]
      /\ world[h] \in AWorld
  BY DEF Types
<1>1. /\ n \in AHost /\ n.mode \in Modes(h) /\ d \in Deltas /\ n.current_frame \in 0 .. d - 1
      /\ n.lists \in [0 .. d - 1 -> AList]
  BY RingOfPlayer DEF SendFails
<1> HIDE DEF n
<1>2. /\ e \in AHost /\ e.mode \in Modes(h) /\ e.mode \notin {"SERVER_CONNECTED", "CLIENT"}
      /\ e.frame_delta = d /\ e.current_frame = n.current_frame /\ e.lists = n.lists
      /\ e.frame_buffer_full = n.frame_buffer_full
  BY <1>1, DisconnectTypes
<1>3. net' = [net EXCEPT ![h] = q]
  <2>1. (e.frame_buffer_full \/ e.current_frame = e.frame_delta - 1) <=> Full(n)
    BY <1>2 DEF Full
  <2> HIDE DEF e
  <2>2. net' = [net EXCEPT ![h] = IF e.frame_buffer_full \/ e.current_frame = e.frame_delta - 1
                                  THEN network_disconnect(e) ELSE NextFrame(e, world[h])]
    BY DEF SendFails, n, e
  <2> QED
    BY <2>1, <2>2
<1> HIDE DEF e
<1>4. RingOk(NextFrame(e, world[h])) /\ NextFrame(e, world[h]).mode \in Modes(h) /\ NextFrame(e, world[h]) \in AHost
  <2> DEFINE w == world[h]
  <2> HIDE DEF w
  <2>0. w \in AWorld
    BY <1>0 DEF w
  <2>2. /\ NextFrame(e, w) \in AHost
        /\ NextFrame(e, w) =
            [e EXCEPT !.current_frame = FrameToPlay(e),
                      !.lists = [e.lists EXCEPT ![FrameToPlay(e)] = FrameList(w)], !.at = "run"]
    BY <1>1, <1>2, <2>0, NextFrameIs
  <2>3. NextFrame(e, w).mode = e.mode /\ NextFrame(e, w).at = "run"
    BY <1>2, <2>2 DEF AHost
  <2>4. RingOk(NextFrame(e, w))
    BY <1>2, <2>2, <2>3 DEF RingOk
  <2> QED
    BY <1>2, <2>2, <2>3, <2>4 DEF w
<1>5. RingOk(network_disconnect(e)) /\ network_disconnect(e).mode \in Modes(h) /\ network_disconnect(e) \in AHost
  BY <1>2, DisconnectTypes
<1>6. q \in AHost /\ q.mode \in Modes(h) /\ RingOk(q)
  BY <1>4, <1>5
<1>7. /\ chan' \in [Hosts -> Seq(AMessage)] /\ peer' \in [Hosts -> {"none", "open", "fin", "rst"}]
      /\ world' = world /\ made' = made
  <2>1. <<>> \in Seq(AMessage)
    OBVIOUS
  <2> QED
    BY <1>0, <2>1 DEF SendFails
<1> HIDE DEF q
<1> QED
  BY <1>0, <1>3, <1>6, <1>7, TypesKept

-----------------------------------------------------------------------------
(* A host that plays, step by step: what follows is about any host and history. *)

\* A history.
LEMMA HistoryIs ==
  ASSUME NEW m \in AHistory
  PROVE  /\ m.frames \in Nat /\ m.sent \in Seq(AList) /\ m.past \in Seq(AWorld)
         /\ Len(m.sent) \in Nat /\ Len(m.past) \in Nat
         /\ \A j \in 0 .. Len(m.past) : After(m, j) \in AWorld
         /\ \A j \in 1 .. Len(m.sent) :
              m.sent[j] \in AList /\ m.sent[j].inputs \in Seq(AnInput) /\ m.sent[j].sync \in AWorld
<1>1. m.frames \in Nat /\ m.sent \in Seq(AList) /\ m.past \in Seq(AWorld)
  BY DEF AHistory
<1>2. Own(Server) \in AWorld
  <2>1. Msg("own", Server) \in [kind : {"own"}, data : Hosts] \cup AnInput
    BY TwoHosts DEF Msg
  <2> QED
    BY <2>1 DEF Own, AWorld
<1>3. \A j \in 0 .. Len(m.past) : After(m, j) \in AWorld
  <2> TAKE j \in 0 .. Len(m.past)
  <2>1. CASE j = 0
    BY <1>2, <2>1 DEF After
  <2>2. CASE j # 0
    <3>1. j \in 1 .. Len(m.past)
      BY <1>1, <2>2
    <3> HIDE DEF AWorld
    <3>2. m.past[j] \in AWorld
      BY <1>1, <3>1
    <3> QED
      BY <2>2, <3>2 DEF After
  <2> QED
    BY <2>1, <2>2
<1>4. ASSUME NEW j \in 1 .. Len(m.sent)
      PROVE  m.sent[j] \in AList /\ m.sent[j].inputs \in Seq(AnInput) /\ m.sent[j].sync \in AWorld
  <2>1. m.sent[j] \in AList
    BY <1>1
  <2> QED
    BY <2>1 DEF AList
<1>5. Len(m.sent) \in Nat /\ Len(m.past) \in Nat
  BY <1>1
<1> QED
  BY <1>1, <1>3, <1>4, <1>5, Zenon

\* The fields of a host that matter.
LEMMA HostSame ==
  ASSUME NEW n, NEW m, NEW w, HostOk(n, m, w), NEW e, NEW t,
         e.at = n.at, e.frame_delta = n.frame_delta, e.current_frame = n.current_frame,
         e.frame_buffer_full <=> n.frame_buffer_full,
         e.lists \in [0 .. n.frame_delta - 1 -> AList],
         \A i \in 0 .. n.frame_delta - 1 : i # n.current_frame => e.lists[i] = n.lists[i],
         e.at = "run" \/ e.lists = n.lists,
         e.lists[n.current_frame].sync = n.lists[n.current_frame].sync,
         t.frames = m.frames, t.sent = m.sent, t.past = m.past, m \in AHistory
  PROVE  HostOk(e, t, w)
<1> DEFINE d == n.frame_delta
           c == n.current_frame
           f == m.frames
<1>1. f \in Nat /\ Len(m.sent) \in Nat
  BY HistoryIs
<1>2. d \in Nat /\ c \in 0 .. d - 1
  BY NetAssumption DEF HostOk, Deltas
<1>3. \A j : After(t, j) = After(m, j)
  BY DEF After
<1>4. SyncsOk(t, d)
  BY <1>3 DEF HostOk, SyncsOk
<1>5. ASSUME NEW i \in 0 .. d - 1, FrameOf(i, f, c, d) >= 0, FrameOf(i, f, c, d) < Len(m.sent)
      PROVE  e.lists[i] = m.sent[FrameOf(i, f, c, d) + 1]
  <2>1. n.lists[i] = m.sent[FrameOf(i, f, c, d) + 1]
    BY <1>5 DEF HostOk
  <2>2. CASE i # c
    BY <2>1, <2>2
  <2>3. CASE i = c /\ n.at = "run"
    <3>1. FrameOf(i, f, c, d) = f /\ Len(m.sent) = f
      BY <1>1, <1>2, <2>3 DEF FrameOf, HostOk
    <3> QED
      BY <1>1, <1>5, <3>1
  <2>4. CASE i = c /\ n.at # "run"
    BY <2>1, <2>4
  <2> QED
    BY <2>2, <2>3, <2>4
<1> QED
  BY <1>3, <1>4, <1>5 DEF HostOk

\* What d and the slots are.
LEMMA HostNumbers ==
  ASSUME NEW n, NEW m \in AHistory, NEW w, HostOk(n, m, w)
  PROVE  /\ n.frame_delta \in Nat /\ n.frame_delta >= 1
         /\ n.current_frame \in Nat /\ n.current_frame <= n.frame_delta - 1
         /\ n.frame_delta \in Deltas /\ n.lists \in [0 .. n.frame_delta - 1 -> AList]
         /\ n.current_frame <= m.frames /\ (m.frames < n.frame_delta => n.current_frame = m.frames)
         /\ Len(m.sent) = (IF n.at = "run" THEN m.frames ELSE m.frames + 1)
         /\ Len(m.past) = RoundsAt(m.frames, n.frame_delta)
         /\ w = After(m, Len(m.past))
<1>1. n.frame_delta \in Nat \ {0}
  BY NetAssumption DEF HostOk, Deltas
<1>2. n.current_frame \in 0 .. n.frame_delta - 1
  BY DEF HostOk
<1> QED
  BY <1>1, <1>2 DEF HostOk

\* Which frame's list a slot holds.
LEMMA FrameOfIs ==
  ASSUME NEW i \in Nat, NEW f \in Nat, NEW c \in Nat, NEW d \in Nat, i <= d - 1, c <= d - 1
  PROVE  /\ FrameOf(i, f, c, d) \in Int
         /\ i = c => FrameOf(i, f, c, d) = f
         /\ i # c => FrameOf(i, f, c, d) < f
         /\ i <= c => FrameOf(i, f, c, d) = f - c + i
         /\ i > c => FrameOf(i, f, c, d) = f - c + i - d
         /\ c # d - 1 /\ i # c + 1 => FrameOf(i, f + 1, c + 1, d) = FrameOf(i, f, c, d)
         /\ c = d - 1 /\ i # 0 => FrameOf(i, f + 1, 0, d) = FrameOf(i, f, c, d)
<1>1. CASE i <= c
  <2>1. FrameOf(i, f, c, d) = f - c + i
    BY <1>1 DEF FrameOf
  <2>2. FrameOf(i, f + 1, c + 1, d) = (f + 1) - (c + 1) + i
    BY <1>1 DEF FrameOf
  <2>3. i # 0 => FrameOf(i, f + 1, 0, d) = (f + 1) - 0 + i - d
    BY DEF FrameOf
  <2> QED
    BY <1>1, <2>1, <2>2, <2>3
<1>2. CASE i > c
  <2>1. FrameOf(i, f, c, d) = f - c + i - d
    BY <1>2 DEF FrameOf
  <2>2. i # c + 1 => FrameOf(i, f + 1, c + 1, d) = (f + 1) - (c + 1) + i - d
    BY <1>2 DEF FrameOf
  <2> QED
    BY <1>2, <2>1, <2>2
<1> QED
  BY <1>1, <1>2

\* A list is sent and the host waits.
LEMMA HostWaits ==
  ASSUME NEW n, NEW m \in AHistory, NEW w, HostOk(n, m, w), n.at = "run", Full(n),
         NEW e, NEW t \in AHistory,
         e.at = "events", e.frame_delta = n.frame_delta, e.current_frame = n.current_frame,
         e.lists = n.lists, e.frame_buffer_full,
         t.frames = m.frames, t.sent = Append(m.sent, n.lists[n.current_frame]), t.past = m.past
  PROVE  HostOk(e, t, w)
<1> DEFINE d == n.frame_delta
           c == n.current_frame
           f == m.frames
           l == n.lists[c]
<1>1. /\ d \in Nat /\ d >= 1 /\ c \in Nat /\ c <= d - 1 /\ d \in Deltas /\ n.lists \in [0 .. d - 1 -> AList]
      /\ c <= f /\ (f < d => c = f) /\ Len(m.sent) = f /\ Len(m.past) = RoundsAt(f, d) /\ w = After(m, Len(m.past))
      /\ f \in Nat
  <2>1. f \in Nat
    BY HistoryIs
  <2>2. n.at = "run" /\ HostOk(n, m, w) /\ m \in AHistory
    OBVIOUS
  <2>3. Len(m.sent) = (IF n.at = "run" THEN m.frames ELSE m.frames + 1)
    BY ONLY <2>2, HostNumbers
  <2>4. /\ d \in Nat /\ d >= 1 /\ c \in Nat /\ c <= d - 1 /\ d \in Deltas
        /\ n.lists \in [0 .. d - 1 -> AList] /\ c <= f /\ (f < d => c = f)
        /\ Len(m.past) = RoundsAt(f, d) /\ w = After(m, Len(m.past))
    BY ONLY <2>2, HostNumbers
  <2> QED
    BY ONLY <2>1, <2>2, <2>3, <2>4
<1>2. l \in AList
  BY <1>1
<1>3. m.sent \in Seq(AList)
  BY HistoryIs
<1>4. Len(t.sent) = f + 1 /\ t.sent[f + 1] = l /\ \A i \in 1 .. f : t.sent[i] = m.sent[i]
  BY <1>1, <1>2, <1>3, OneMore
<1>5. \A j : After(t, j) = After(m, j)
  BY DEF After
<1>6. f >= d - 1
  BY <1>1 DEF Full, HostOk
<1>7. ASSUME NEW i \in 0 .. d - 1, FrameOf(i, f, c, d) >= 0, FrameOf(i, f, c, d) < f + 1
      PROVE  e.lists[i] = t.sent[FrameOf(i, f, c, d) + 1]
  <2>1. CASE i = c
    <3>1. FrameOf(i, f, c, d) = f
      BY <1>1, <2>1 DEF FrameOf
    <3> QED
      BY <1>4, <2>1, <3>1
  <2>2. CASE i # c
    <3>1. FrameOf(i, f, c, d) \in Int /\ FrameOf(i, f, c, d) < f
      <4>1. i \in Nat /\ i <= d - 1
        BY <1>1
      <4>2. i < c \/ i > c
        BY <1>1, <2>2, <4>1
      <4>3. f \in Nat /\ c \in Nat /\ d \in Nat /\ c <= d - 1
        BY <1>1
      <4> HIDE DEF d, c, f
      <4> QED
        BY ONLY i \in Nat, <2>2, <4>1, <4>3, FrameOfIs
    <3>2. n.lists[i] = m.sent[FrameOf(i, f, c, d) + 1]
      BY <1>1, <1>7, <3>1 DEF HostOk
    <3>3. FrameOf(i, f, c, d) + 1 \in 1 .. f
      BY <1>1, <1>7, <3>1
    <3> QED
      BY <1>4, <3>2, <3>3
  <2> QED
    BY <2>1, <2>2
<1>8. SyncsOk(t, d)
  <2> SUFFICES ASSUME NEW k \in 0 .. f
               PROVE  RoundsAt(k, d) <= Len(t.past) /\ t.sent[k + 1].sync = After(t, RoundsAt(k, d))
    BY <1>1, <1>4 DEF SyncsOk
  <2>1. CASE k = f
    <3>1. l.sync = w
      BY DEF HostOk
    <3>2. RoundsAt(f, d) \in Nat
      BY <1>1, <1>6 DEF RoundsAt
    <3> QED
      BY <1>1, <1>4, <1>5, <2>1, <3>1, <3>2
  <2>2. CASE k # f
    <3>1. k \in 0 .. f - 1 /\ k + 1 \in 1 .. f
      BY <1>1, <2>2
    <3>2. RoundsAt(k, d) <= Len(m.past) /\ m.sent[k + 1].sync = After(m, RoundsAt(k, d))
      BY <1>1, <3>1 DEF HostOk, SyncsOk
    <3> QED
      BY <1>4, <1>5, <3>1, <3>2
  <2> QED
    BY <2>1, <2>2
<1>9. e.lists \in [0 .. d - 1 -> AList] /\ c \in 0 .. d - 1
  BY <1>1
<1>10. \A i \in 0 .. d - 1 : FrameOf(i, f, c, d) >= 0 /\ FrameOf(i, f, c, d) < Len(t.sent) =>
                               e.lists[i] = t.sent[FrameOf(i, f, c, d) + 1]
  BY <1>4, <1>7
<1>11. w = After(t, Len(t.past)) /\ Len(t.past) = RoundsAt(f, d)
  BY <1>1, <1>5
<1>12. IF e.at = "run" THEN e.frame_buffer_full <=> f >= d ELSE e.frame_buffer_full /\ f >= d - 1
  BY <1>6
<1>13. Len(t.sent) = IF e.at = "run" THEN f ELSE f + 1
  BY <1>4
<1> QED
  BY <1>1, <1>8, <1>9, <1>10, <1>11, <1>12, <1>13, ZenonT(60) DEF HostOk

\* A list is sent and the next frame begins.
LEMMA HostGoesOn ==
  ASSUME NEW n, NEW m \in AHistory, NEW w \in AWorld, HostOk(n, m, w), n.at = "run", ~ Full(n),
         NEW p, p = (IF n.current_frame = n.frame_delta - 1 THEN 0 ELSE n.current_frame + 1),
         NEW e, NEW t \in AHistory,
         e.at = "run", e.frame_delta = n.frame_delta, e.current_frame = p,
         e.lists = [n.lists EXCEPT ![p] = FrameList(w)], ~ e.frame_buffer_full,
         t.frames = m.frames + 1, t.sent = Append(m.sent, n.lists[n.current_frame]), t.past = m.past
  PROVE  HostOk(e, t, w)
<1> DEFINE d == n.frame_delta
           c == n.current_frame
           f == m.frames
           l == n.lists[c]
<1>1. /\ d \in Nat /\ d >= 1 /\ c \in Nat /\ c <= d - 1 /\ d \in Deltas /\ n.lists \in [0 .. d - 1 -> AList]
      /\ c <= f /\ (f < d => c = f) /\ Len(m.sent) = f /\ Len(m.past) = RoundsAt(f, d) /\ w = After(m, Len(m.past))
      /\ f \in Nat
  <2>1. f \in Nat
    BY HistoryIs
  <2>2. n.at = "run" /\ HostOk(n, m, w) /\ m \in AHistory
    OBVIOUS
  <2>3. Len(m.sent) = (IF n.at = "run" THEN m.frames ELSE m.frames + 1)
    BY ONLY <2>2, HostNumbers
  <2>4. /\ d \in Nat /\ d >= 1 /\ c \in Nat /\ c <= d - 1 /\ d \in Deltas
        /\ n.lists \in [0 .. d - 1 -> AList] /\ c <= f /\ (f < d => c = f)
        /\ Len(m.past) = RoundsAt(f, d) /\ w = After(m, Len(m.past))
    BY ONLY <2>2, HostNumbers
  <2> QED
    BY ONLY <2>1, <2>2, <2>3, <2>4
<1>2. l \in AList
  BY <1>1
<1>3. m.sent \in Seq(AList)
  BY HistoryIs
<1>4. Len(t.sent) = f + 1 /\ t.sent[f + 1] = l /\ \A i \in 1 .. f : t.sent[i] = m.sent[i]
  BY <1>1, <1>2, <1>3, OneMore
<1>5. \A j : After(t, j) = After(m, j)
  BY DEF After
<1>6. c = f /\ f + 1 <= d - 1 /\ p = f + 1
  <2>1. c # d - 1 /\ ~ (f >= d)
    BY DEF Full, HostOk
  <2> QED
    BY <1>1, <2>1
<1>7. RoundsAt(f, d) = 0 /\ RoundsAt(f + 1, d) = 0 /\ Len(m.past) = 0
  BY <1>1, <1>6 DEF RoundsAt
<1>8. /\ e.lists \in [0 .. d - 1 -> AList] /\ e.lists[p] = FrameList(w)
      /\ \A i \in 0 .. d - 1 : i # p => e.lists[i] = n.lists[i]
  <2>1. FrameList(w) \in AList /\ p \in 0 .. d - 1
    BY <1>1, <1>6 DEF FrameList, AList
  <2> QED
    BY <1>1, <2>1
<1>9. ASSUME NEW i \in 0 .. d - 1, FrameOf(i, f + 1, p, d) >= 0, FrameOf(i, f + 1, p, d) < f + 1
      PROVE  e.lists[i] = t.sent[FrameOf(i, f + 1, p, d) + 1]
  <2>1. i <= f /\ FrameOf(i, f + 1, p, d) = i
    BY <1>1, <1>6, <1>9 DEF FrameOf
  <2>2. i \in Nat /\ e.lists[i] = n.lists[i]
    BY <1>1, <1>6, <1>8, <2>1
  <2>3. CASE i = f
    BY <1>4, <1>6, <2>1, <2>2, <2>3
  <2>4. CASE i # f
    <3>1. FrameOf(i, f, c, d) = i /\ i < f
      <4>1. i <= c /\ i <= d - 1 /\ f - c + i = i
        BY <1>1, <1>6, <2>1, <2>2
      <4> HIDE DEF d, c, f
      <4>2. FrameOf(i, f, c, d) = f - c + i
        BY <1>1, <2>2, <4>1, FrameOfIs
      <4> QED
        BY <1>1, <2>1, <2>2, <2>4, <4>1, <4>2
    <3>2. n.lists[i] = m.sent[i + 1]
      BY <1>1, <2>2, <3>1, SMTT(30) DEF HostOk
    <3>3. i + 1 \in 1 .. f
      BY <1>1, <2>2, <3>1
    <3> QED
      BY <1>4, <2>1, <2>2, <3>2, <3>3
  <2> QED
    BY <2>3, <2>4
<1>10. SyncsOk(t, d)
  <2> SUFFICES ASSUME NEW k \in 0 .. f
               PROVE  RoundsAt(k, d) <= Len(t.past) /\ t.sent[k + 1].sync = After(t, RoundsAt(k, d))
    BY <1>1, <1>4 DEF SyncsOk
  <2>1. CASE k = f
    <3>1. l.sync = w
      BY DEF HostOk
    <3> QED
      BY <1>1, <1>4, <1>5, <1>7, <2>1, <3>1
  <2>2. CASE k # f
    <3>1. k \in 0 .. f - 1 /\ k + 1 \in 1 .. f
      BY <1>1, <2>2
    <3>2. RoundsAt(k, d) <= Len(m.past) /\ m.sent[k + 1].sync = After(m, RoundsAt(k, d))
      BY <1>1, <3>1 DEF HostOk, SyncsOk
    <3> QED
      BY <1>4, <1>5, <3>1, <3>2
  <2> QED
    BY <2>1, <2>2
<1>11. e.lists[p].sync = w
  BY <1>8 DEF FrameList
<1>12. p \in 0 .. d - 1 /\ p <= f + 1 /\ ~ (f + 1 >= d)
  BY <1>1, <1>6
<1> QED
  BY <1>1, <1>4, <1>5, <1>6, <1>7, <1>8, <1>9, <1>10, <1>11, <1>12, ZenonT(60) DEF HostOk

\* The list it plays next is the one it sent for that frame.
LEMMA HostOwn ==
  ASSUME NEW n, NEW m \in AHistory, NEW w, HostOk(n, m, w), n.at = "events",
         NEW p, p = (IF n.current_frame = n.frame_delta - 1 THEN 0 ELSE n.current_frame + 1)
  PROVE  Len(m.past) + 1 <= Len(m.sent) /\ n.lists[p] = m.sent[Len(m.past) + 1]
<1> DEFINE d == n.frame_delta
           c == n.current_frame
           f == m.frames
           r == Len(m.past)
<1>1. /\ d \in Nat /\ d >= 1 /\ c \in Nat /\ c <= d - 1 /\ d \in Deltas /\ n.lists \in [0 .. d - 1 -> AList]
      /\ c <= f /\ (f < d => c = f) /\ Len(m.sent) = f + 1 /\ r = RoundsAt(f, d) /\ w = After(m, r)
      /\ f \in Nat
  BY HostNumbers, HistoryIs
<1>2. f >= d - 1 /\ n.frame_buffer_full
  BY DEF HostOk
<1>3. r = f - d + 1 /\ r \in Nat /\ r + 1 <= f + 1
  BY <1>1, <1>2 DEF RoundsAt
<1>4. p \in 0 .. d - 1 /\ p \in Nat /\ p <= f + 1
  BY <1>1, <1>2
<1>5. FrameOf(p, f, c, d) = r
  BY <1>1, <1>3, SMTT(30) DEF FrameOf
<1>6. n.lists[p] = m.sent[r + 1]
  <2>1. \A i \in 0 .. d - 1 : FrameOf(i, f, c, d) >= 0 /\ FrameOf(i, f, c, d) < Len(m.sent) =>
                                n.lists[i] = m.sent[FrameOf(i, f, c, d) + 1]
    BY DEF HostOk
  <2>2. n.lists[p] = m.sent[FrameOf(p, f, c, d) + 1]
    <3>1. FrameOf(p, f, c, d) >= 0 /\ FrameOf(p, f, c, d) < Len(m.sent)
      BY <1>1, <1>3, <1>5
    <3> QED
      BY <1>4, <2>1, <3>1
  <2> QED
    BY <1>5, <2>2
<1> QED
  BY <1>1, <1>3, <1>6

\* A round is played and the next frame begins.
LEMMA HostPlays ==
  ASSUME NEW n, NEW m \in AHistory, NEW w, HostOk(n, m, w), n.at = "events",
         NEW p, p = (IF n.current_frame = n.frame_delta - 1 THEN 0 ELSE n.current_frame + 1),
         NEW v \in AWorld, NEW e, NEW t \in AHistory,
         e.at = "run", e.frame_delta = n.frame_delta, e.current_frame = p,
         e.lists = [n.lists EXCEPT ![p] = FrameList(v)], e.frame_buffer_full <=> n.frame_buffer_full,
         t.frames = m.frames + 1, t.sent = m.sent, t.past = Append(m.past, v)
  PROVE  HostOk(e, t, v)
<1> DEFINE d == n.frame_delta
           c == n.current_frame
           f == m.frames
           r == Len(m.past)
<1>1. /\ d \in Nat /\ d >= 1 /\ c \in Nat /\ c <= d - 1 /\ d \in Deltas /\ n.lists \in [0 .. d - 1 -> AList]
      /\ c <= f /\ (f < d => c = f) /\ Len(m.sent) = f + 1 /\ r = RoundsAt(f, d) /\ w = After(m, r)
      /\ f \in Nat
  BY HostNumbers, HistoryIs, ZenonT(60)
<1>2. f >= d - 1 /\ n.frame_buffer_full
  BY DEF HostOk
<1>3. r = f - d + 1 /\ r \in Nat /\ r + 1 <= f + 1
  BY <1>1, <1>2 DEF RoundsAt
<1>4. p \in 0 .. d - 1 /\ p \in Nat /\ p <= f + 1
  <2>1. p = IF c = d - 1 THEN 0 ELSE c + 1
    OBVIOUS
  <2> HIDE DEF d, c, f
  <2> QED
    BY ONLY <1>1, <2>1
<1>7. m.past \in Seq(AWorld)
  BY HistoryIs
<1>8. Len(t.past) = r + 1 /\ t.past[r + 1] = v /\ \A i \in 1 .. r : t.past[i] = m.past[i]
  <2> HIDE DEF AWorld
  <2> QED
    BY <1>3, <1>7, OneMore
<1>9. After(t, r + 1) = v /\ \A j \in 0 .. r : After(t, j) = After(m, j)
  BY <1>3, <1>8 DEF After
<1>10. RoundsAt(f + 1, d) = r + 1
  BY <1>1, <1>2, <1>3, SMTT(30) DEF RoundsAt
<1>11. /\ e.lists \in [0 .. d - 1 -> AList] /\ e.lists[p] = FrameList(v)
       /\ \A i \in 0 .. d - 1 : i # p => e.lists[i] = n.lists[i]
  <2>1. FrameList(v) \in AList
    BY DEF FrameList, AList
  <2> QED
    BY <1>1, <1>4, <2>1
<1>12. e.lists[p].sync = v
  BY <1>11 DEF FrameList
<1>13. ASSUME NEW i \in 0 .. d - 1, FrameOf(i, f + 1, p, d) >= 0, FrameOf(i, f + 1, p, d) < Len(m.sent)
       PROVE  e.lists[i] = m.sent[FrameOf(i, f + 1, p, d) + 1]
  <2>0. i \in Nat /\ i <= d - 1
    BY <1>1
  <2>1. i # p /\ FrameOf(i, f + 1, p, d) = FrameOf(i, f, c, d)
    <3>1. i # p
      BY <1>1, <1>4, <1>13, <2>0 DEF FrameOf
    <3>2. CASE c = d - 1
      <4>1. p = 0
        BY <3>2
      <4> HIDE DEF d, c, f
      <4>2. i # 0 /\ c = d - 1 /\ c <= d - 1
        BY <1>1, <3>1, <3>2, <4>1
      <4>3. FrameOf(i, f + 1, 0, d) = FrameOf(i, f, c, d)
        BY ONLY <1>1, <2>0, <4>2, FrameOfIs
      <4> QED
        BY <3>1, <4>1, <4>3
    <3>3. CASE c # d - 1
      <4>1. p = c + 1
        BY <3>3
      <4> HIDE DEF d, c, f
      <4>2. i # c + 1 /\ c # d - 1 /\ c <= d - 1
        BY <1>1, <3>1, <3>3, <4>1
      <4>3. FrameOf(i, f + 1, c + 1, d) = FrameOf(i, f, c, d)
        BY ONLY <1>1, <2>0, <4>2, FrameOfIs
      <4> QED
        BY <3>1, <4>1, <4>3
    <3> QED
      BY <3>1, <3>2, <3>3
  <2>2. n.lists[i] = m.sent[FrameOf(i, f, c, d) + 1]
    BY <1>13, <2>1 DEF HostOk
  <2> QED
    BY <1>11, <2>1, <2>2
<1>14. SyncsOk(t, d)
  <2> SUFFICES ASSUME NEW k \in 0 .. f
               PROVE  RoundsAt(k, d) <= Len(t.past) /\ t.sent[k + 1].sync = After(t, RoundsAt(k, d))
    BY <1>1 DEF SyncsOk
  <2>1. RoundsAt(k, d) <= r /\ m.sent[k + 1].sync = After(m, RoundsAt(k, d))
    BY <1>1 DEF HostOk, SyncsOk
  <2>2. RoundsAt(k, d) \in 0 .. r
    <3>1. k \in Nat
      BY <1>1
    <3> HIDE DEF d, f, r
    <3> QED
      BY <1>1, <1>3, <2>1, <3>1 DEF RoundsAt
  <2> QED
    BY <1>3, <1>8, <1>9, <2>1, <2>2
<1>15. f + 1 >= d
  BY <1>1, <1>2
<1> QED
  BY <1>1, <1>2, <1>4, <1>8, <1>9, <1>10, <1>11, <1>12, <1>13, <1>14, <1>15 DEF HostOk

-----------------------------------------------------------------------------
(* Where the hosts are *)

\* Before anything has happened.
LEMMA InitInv == NetInit => NetInv
<1> SUFFICES ASSUME NetInit PROVE NetInv
  OBVIOUS
<1> DEFINE n == [ mode |-> "IDLE", at |-> "run", frame_delta |-> 0, current_frame |-> 0,
                  frame_buffer_full |-> FALSE, lists |-> <<>>, suspended |-> FALSE, tests |-> 0 ]
<1>1. \A h \in Hosts : net[h] = n /\ peer[h] = "none" /\ chan[h] = <<>> /\ world[h] = Own(h) /\ made[h] = Nothing
  BY DEF NetInit, Own, Nothing
<1>2. n.mode = "IDLE" /\ n.at = "run"
  OBVIOUS
<1>3. n \in AHost
  <2>1. <<>> \in [0 .. 0 - 1 -> AList]
    OBVIOUS
  <2>2. <<>> \in Rings
    BY <2>1 DEF Rings
  <2> QED
    BY <2>2 DEF AHost, Places
<1> HIDE DEF n
<1>4. Types
  <2>1. net \in [Hosts -> AHost] /\ \A h \in Hosts : net[h].mode \in Modes(h) /\ RingOk(net[h])
    <3>1. net = [h \in Hosts |-> n]
      BY DEF NetInit, n
    <3>2. \A h \in Hosts : net[h].mode \in Modes(h) /\ RingOk(net[h])
      BY <1>1, <1>2 DEF Modes, RingOk
    <3> QED
      BY <1>3, <3>1, <3>2
  <2>2. chan \in [Hosts -> Seq(AMessage)]
    <3>1. <<>> \in Seq(AMessage)
      OBVIOUS
    <3> QED
      BY <3>1 DEF NetInit
  <2>3. peer \in [Hosts -> {"none", "open", "fin", "rst"}]
    BY DEF NetInit
  <2>4. world \in [Hosts -> AWorld]
    <3>1. \A h \in Hosts : <<Msg("own", h)>> \in AWorld
      BY DEF Msg, AWorld
    <3> QED
      BY <3>1 DEF NetInit
  <2>5. made \in [Hosts -> AHistory]
    <3>1. Nothing \in AHistory
      BY DEF Nothing, AHistory
    <3>2. made = [h \in Hosts |-> Nothing]
      BY DEF NetInit, Nothing
    <3> QED
      BY <3>1, <3>2
  <2> QED
    BY <2>1, <2>2, <2>3, <2>4, <2>5, Zenon DEF Types
<1>5. \A h \in Hosts : net[h].at = "run" /\ ~ network_connected(h)
  BY <1>1, <1>2 DEF network_connected
<1>6. Fresh
  BY <1>1, <1>5 DEF Fresh
<1>7. Joining
  BY <1>5, TwoHosts DEF Joining
<1>8. InGame
  <2>1. Len(Nothing.past) = 0 /\ Len(Nothing.sent) = 0
    <3>1. Nothing.past = <<>> /\ Nothing.sent = <<>>
      BY DEF Nothing
    <3> QED
      BY <3>1
  <2>2. IsPrefix(Own(Server), Own(Server))
    <3>1. Own(Server) \in AWorld
      BY TwoHosts DEF Own, Msg, AWorld
    <3> QED
      BY <3>1, PrefixGrows DEF AWorld
  <2>3. Histories
    <3>1. RoundsOk(Nothing, Nothing, Nothing) /\ Same(Nothing, Nothing)
      BY <2>1 DEF RoundsOk, Same
    <3>2. Grows(Nothing)
      <4> SUFFICES ASSUME NEW i \in 0 .. Len(Nothing.past), NEW j \in 0 .. Len(Nothing.past)
                   PROVE  IsPrefix(After(Nothing, i), After(Nothing, j))
        BY DEF Grows
      <4>1. i = 0 /\ j = 0
        BY <2>1
      <4> QED
        BY <2>2, <4>1 DEF After
    <3> QED
      BY <1>1, <3>1, <3>2, TwoHosts DEF Histories
  <2>4. (\A h \in Hosts : GameOf(h)) /\ Together /\ ServerWaits /\ ClientWaits
    BY <1>5, TwoHosts DEF GameOf, Together, Playing, ServerWaits, ClientWaits
  <2> QED
    BY <2>3, <2>4 DEF InGame
<1> QED
  BY <1>4, <1>6, <1>7, <1>8 DEF NetInv

\* The steps of one host, but those that connect the two.
HostSteps(h) ==
  \/ \E type \in Inputs : network_event_record(h, type)
  \/ network_suspend(h) \/ network_hook_connected_send(h) \/ SendFails(h) \/ RemoteSuspends(h)
  \/ network_hook_connected_receive(h) \/ Leave(h) \/ RecvFails(h)

\* Every step keeps the types.
LEMMA NextTypes ==
  ASSUME Types, Fresh, NetNext
  PROVE  Types'
<1>1. \/ network_start_server \/ network_connect_client \/ network_client_connect_trap \/ SnapshotFails
      \/ ClientEchoes \/ ServerMeasures \/ ClientIsTold \/ DeltaFails
      \/ \E h \in Hosts : HostSteps(h)
  BY Zenon DEF NetNext, HostSteps
<1>2. ASSUME NEW h \in Hosts, HostSteps(h)
      PROVE  Types'
  BY <1>2, PlayingTypes, SendFailsTypes, LeavingTypes, Zenon DEF HostSteps
<1> QED
  BY <1>1, <1>2, ConnectingTypes, MeasuringTypes, Zenon

\* A host that is not newly connected, waits for no snapshot and takes back no test.
Kept(h, q) ==
  /\ q \in AHost /\ q.tests = net[h].tests
  /\ q.mode \in {"SERVER_CONNECTED", "CLIENT"} => net[h].mode = q.mode
  /\ q.at # "snapshot"

\* What a host does alone leaves it so.
LEMMA HostStepsKeep ==
  ASSUME Types, NEW h \in Hosts, HostSteps(h)
  PROVE  \E q : net' = [net EXCEPT ![h] = q] /\ Kept(h, q)
<1> DEFINE n == net[h]
           d == n.frame_delta
<1>0. n \in AHost /\ n.mode \in Modes(h) /\ net \in [Hosts -> AHost]
  BY DEF Types
<1>1. ASSUME NEW type \in Inputs, network_event_record(h, type)
      PROVE  \E q : net' = [net EXCEPT ![h] = q] /\ Kept(h, q)
  <2> DEFINE e == [type |-> type, from |-> h, data |-> Len(made[h].inputs)]
             l == [n.lists EXCEPT ![n.current_frame].inputs = Append(@, e)]
             q == [n EXCEPT !.lists = l]
  <2>1. q \in AHost /\ net' = [net EXCEPT ![h] = q]
    BY <1>1, RecordIs
  <2>2. n.at = "run"
    BY <1>1 DEF network_event_record, Running
  <2> HIDE DEF l, n
  <2>3. q.mode = n.mode /\ q.at = n.at /\ q.tests = n.tests
    BY <1>0 DEF AHost
  <2> HIDE DEF q
  <2>4. Kept(h, q)
    BY <2>1, <2>2, <2>3 DEF Kept, n
  <2> QED
    BY <2>1, <2>4, Zenon
<1>2. CASE network_suspend(h) \/ RemoteSuspends(h)
  <2> DEFINE q == [n EXCEPT !.suspended = TRUE]
  <2>1. net' = [net EXCEPT ![h] = q] /\ n.at \in {"run", "events"}
    BY <1>0, <1>2 DEF network_suspend, RemoteSuspends, Running
  <2> HIDE DEF n
  <2>3. q \in AHost /\ q.mode = n.mode /\ q.at = n.at /\ q.tests = n.tests
    BY <1>0 DEF AHost
  <2> HIDE DEF q
  <2>4. Kept(h, q)
    BY <2>1, <2>3 DEF Kept, n
  <2> QED
    BY <2>1, <2>4, Zenon
<1>3. CASE network_hook_connected_send(h)
  <2> DEFINE p == FrameToPlay(n)
             L == [n.lists EXCEPT ![p] = FrameList(world[h])]
             m == [n EXCEPT !.suspended = FALSE, !.frame_buffer_full = Full(n), !.at = "events"]
             r == [n EXCEPT !.suspended = FALSE, !.frame_buffer_full = Full(n), !.current_frame = p,
                            !.lists = L]
             q == IF Full(n) THEN m ELSE r
  <2>1. m \in AHost /\ r \in AHost /\ net' = [net EXCEPT ![h] = q] /\ n.at = "run"
    BY <1>3, SendIs
  <2> HIDE DEF p, L, n
  <2>2. m.mode = n.mode /\ m.at = "events" /\ m.tests = n.tests
    BY <1>0 DEF AHost
  <2>3. r.mode = n.mode /\ r.at = n.at /\ r.tests = n.tests
    BY <1>0 DEF AHost
  <2> HIDE DEF m, r
  <2>4. Kept(h, q)
    BY <2>1, <2>2, <2>3 DEF Kept, n
  <2> HIDE DEF q
  <2> QED
    BY <2>1, <2>4, Zenon DEF n
<1>4. CASE network_hook_connected_receive(h)
  <2> DEFINE p == FrameToPlay(n)
             x == Head(chan[h]).data
             w == world[h] \o Order(h, n.lists[p].inputs, x.inputs)
             L == [n.lists EXCEPT ![p] = FrameList(w)]
             r == [n EXCEPT !.current_frame = p, !.lists = L, !.at = "run"]
             e == network_disconnect(n)
             q == IF OutOfSync(n.lists[p], x) THEN NextFrame(e, w) ELSE r
  <2>1. n.at = "events" /\ w \in AWorld /\ r \in AHost /\ net' = [net EXCEPT ![h] = q]
    BY <1>4, ReceiveIs
  <2>2. /\ n.lists \in [0 .. d - 1 -> AList] /\ d \in Deltas /\ n.current_frame \in 0 .. d - 1
    BY <2>1, RingOfPlayer
  <2>3. /\ e \in AHost /\ e.mode \notin {"SERVER_CONNECTED", "CLIENT"} /\ e.tests = n.tests
        /\ e.frame_delta = d /\ e.current_frame = n.current_frame /\ e.lists = n.lists
    <3>1. e.tests = n.tests
      BY <1>0 DEF network_disconnect, AHost
    <3> QED
      BY <1>0, <3>1, DisconnectTypes
  <2> HIDE DEF p, L, n, e, w
  <2>4. /\ NextFrame(e, w) \in AHost
        /\ NextFrame(e, w) =
              [e EXCEPT !.current_frame = FrameToPlay(e),
                        !.lists = [e.lists EXCEPT ![FrameToPlay(e)] = FrameList(w)], !.at = "run"]
    BY <2>1, <2>2, <2>3, NextFrameIs
  <2>5. NextFrame(e, w).mode = e.mode /\ NextFrame(e, w).at = "run" /\ NextFrame(e, w).tests = e.tests
    BY <2>3, <2>4 DEF AHost
  <2>6. r.mode = n.mode /\ r.at = "run" /\ r.tests = n.tests
    BY <1>0 DEF AHost
  <2> HIDE DEF r
  <2>7. Kept(h, q)
    BY <2>1, <2>3, <2>4, <2>5, <2>6 DEF Kept, n
  <2> HIDE DEF q
  <2> QED
    BY <2>1, <2>7, Zenon DEF n
<1>5. CASE SendFails(h)
  <2> DEFINE e == network_disconnect(n)
             f == network_disconnect(e)
             g == NextFrame(e, world[h])
             q == IF e.frame_buffer_full \/ e.current_frame = e.frame_delta - 1 THEN f ELSE g
  <2>1. net' = [net EXCEPT ![h] = q]
    BY <1>5 DEF SendFails
  <2>2. /\ n.lists \in [0 .. d - 1 -> AList] /\ d \in Deltas /\ n.current_frame \in 0 .. d - 1
    BY <1>5, RingOfPlayer DEF SendFails
  <2>3. /\ e \in AHost /\ e.mode \notin {"SERVER_CONNECTED", "CLIENT"} /\ e.mode \in Modes(h) /\ e.tests = n.tests
        /\ e.frame_delta = d /\ e.current_frame = n.current_frame /\ e.lists = n.lists
    <3>1. e.tests = n.tests
      BY <1>0 DEF network_disconnect, AHost
    <3> QED
      BY <1>0, <3>1, DisconnectTypes
  <2> HIDE DEF n, e
  <2>4. f \in AHost /\ f.mode \notin {"SERVER_CONNECTED", "CLIENT"} /\ f.tests = e.tests /\ f.at = "run"
    <3>1. f.tests = e.tests
      BY <2>3 DEF network_disconnect, AHost
    <3> QED
      BY <2>3, <3>1, DisconnectTypes
  <2>5. g \in AHost /\ g.mode = e.mode /\ g.at = "run" /\ g.tests = e.tests
    <3> DEFINE w == world[h]
    <3>1. w \in AWorld
      BY DEF Types
    <3> HIDE DEF w
    <3>2. /\ NextFrame(e, w) \in AHost
          /\ NextFrame(e, w) =
              [e EXCEPT !.current_frame = FrameToPlay(e),
                        !.lists = [e.lists EXCEPT ![FrameToPlay(e)] = FrameList(w)], !.at = "run"]
      BY <2>2, <2>3, <3>1, NextFrameIs
    <3>3. NextFrame(e, w).mode = e.mode /\ NextFrame(e, w).at = "run" /\ NextFrame(e, w).tests = e.tests
      BY <2>3, <3>2 DEF AHost
    <3> QED
      BY <3>2, <3>3 DEF w
  <2> HIDE DEF f, g
  <2>7. Kept(h, q)
    BY <2>3, <2>4, <2>5 DEF Kept, n
  <2> HIDE DEF q
  <2> QED
    BY <2>1, <2>7, Zenon DEF n
<1>6. CASE Leave(h)
  <2> DEFINE q == [n EXCEPT !.mode = "IDLE", !.at = "gone"]
  <2>1. net' = [net EXCEPT ![h] = q]
    BY <1>0, <1>6 DEF Leave
  <2>2. q \in AHost /\ q.mode = "IDLE" /\ q.at = "gone" /\ q.tests = n.tests
    BY <1>0 DEF AHost, Places
  <2> HIDE DEF q
  <2>3. Kept(h, q)
    BY <2>2 DEF Kept
  <2> QED
    BY <2>1, <2>3, Zenon
<1>7. CASE RecvFails(h)
  <2>1. CASE net' = [net EXCEPT ![h] = network_disconnect(@)]
    <3> DEFINE e == network_disconnect(n)
    <3>1. e.tests = n.tests
      BY <1>0 DEF network_disconnect, AHost
    <3>2. e \in AHost /\ e.mode \notin {"SERVER_CONNECTED", "CLIENT"} /\ e.at = "run"
      BY <1>0, DisconnectTypes
    <3>3. net' = [net EXCEPT ![h] = e]
      BY <2>1
    <3> HIDE DEF e
    <3>4. Kept(h, e)
      BY <3>1, <3>2 DEF Kept
    <3> QED
      BY <3>3, <3>4, Zenon
  <2>2. CASE net' = [net EXCEPT ![h].at = "no lists"]
    <3> DEFINE q == [n EXCEPT !.at = "no lists"]
    <3>1. net' = [net EXCEPT ![h] = q]
      BY <1>0, <2>2
    <3>2. q \in AHost /\ q.mode = n.mode /\ q.at = "no lists" /\ q.tests = n.tests
      BY <1>0 DEF AHost, Places
    <3> HIDE DEF q
    <3>3. Kept(h, q)
      BY <3>2 DEF Kept
    <3> QED
      BY <3>1, <3>3, Zenon
  <2>3. CASE net' = [net EXCEPT ![h].at = "run"]
    <3> DEFINE q == [n EXCEPT !.at = "run"]
    <3>1. net' = [net EXCEPT ![h] = q]
      BY <1>0, <2>3
    <3>2. q \in AHost /\ q.mode = n.mode /\ q.at = "run" /\ q.tests = n.tests
      BY <1>0 DEF AHost, Places
    <3> HIDE DEF q
    <3>3. Kept(h, q)
      BY <3>2 DEF Kept
    <3> QED
      BY <3>1, <3>3, Zenon
  <2> QED
    BY <1>7, <2>1, <2>2, <2>3 DEF RecvFails
<1> QED
  BY <1>1, <1>2, <1>3, <1>4, <1>5, <1>6, <1>7, Zenon DEF HostSteps

\* Nothing happens to a host before the two connect.
LEMMA NextFresh ==
  ASSUME Types, Fresh, NetNext
  PROVE  Fresh'
<1> SUFFICES ASSUME net'[Server].tests = 0
             PROVE  \A h \in Hosts :
                      /\ net'[h].at = "run" /\ (~ network_connected(h))'
                      /\ peer'[h] = "none" /\ chan'[h] = <<>>
                      /\ world'[h] = Own(h) /\ made'[h] = Nothing
  BY DEF Fresh, Own
<1>0. /\ Server \in Hosts /\ Client \in Hosts /\ Server # Client
      /\ \A h \in Hosts : net[h] \in AHost /\ net[h].tests \in Nat
      /\ net \in [Hosts -> AHost]
  BY TwoHosts DEF Types, AHost
<1>1. ASSUME net[Server].tests = 0
      PROVE  \A h \in Hosts : /\ net[h].at = "run" /\ ~ network_connected(h)
                              /\ peer[h] = "none" /\ chan[h] = <<>>
                              /\ world[h] = Own(h) /\ made[h] = Nothing
  BY <1>1 DEF Fresh
<1>2. CASE network_start_server
  <2> DEFINE n == [net[Server] EXCEPT !.mode = "SERVER"]
  <2>1. net' = [net EXCEPT ![Server] = n] /\ UNCHANGED <<chan, peer, world, made>>
    BY <1>0, <1>2 DEF network_start_server
  <2>2. n.mode = "SERVER" /\ n.at = net[Server].at
    BY <1>0 DEF AHost
  <2> HIDE DEF n
  <2>3. net[Server].tests = 0
    BY <1>2 DEF network_start_server
  <2>4. \A h \in Hosts : net'[h] = IF h = Server THEN n ELSE net[h]
    BY <1>0, <2>1
  <2> QED
    BY <1>1, <2>1, <2>2, <2>3, <2>4 DEF network_connected
<1>3. CASE network_connect_client
  <2>1. net'[Server].tests = 1
    BY <1>0, <1>3 DEF network_connect_client, AHost
  <2> QED
    BY <2>1
<1>4. CASE network_client_connect_trap
  <2>1. net'[Server] = net[Server] /\ net[Client].at = "snapshot"
    BY <1>0, <1>4 DEF network_client_connect_trap
  <2> QED
    BY <1>0, <1>1, <2>1
<1>5. CASE SnapshotFails
  <2>1. net'[Server] = net[Server] /\ net[Client].at = "snapshot"
    BY <1>0, <1>5 DEF SnapshotFails
  <2> QED
    BY <1>0, <1>1, <2>1
<1>6. CASE ClientEchoes \/ ClientIsTold \/ DeltaFails
  <2>1. net'[Server] = net[Server] /\ net[Client].at = "test"
    BY <1>0, <1>6 DEF ClientEchoes, ClientIsTold, DeltaFails, AwaitsDelta
  <2> QED
    BY <1>0, <1>1, <2>1
<1>7. CASE ServerMeasures
  <2>1. net[Server].at = "test"
    BY <1>7 DEF ServerMeasures
  <2>2. net[Server].tests # 0
    BY <1>0, <1>1, <2>1
  <2>3. CASE net[Server].tests < NUM_OF_TESTPACKETS
    <3>1. net'[Server].tests = net[Server].tests + 1
      BY <1>0, <1>7, <2>3 DEF ServerMeasures, AHost
    <3> QED
      BY <1>0, <3>1
  <2>4. CASE ~ (net[Server].tests < NUM_OF_TESTPACKETS)
    <3>1. PICK delta \in Deltas : net' = [net EXCEPT ![Server] = InitFrames(Server, delta, world[Server])]
      BY <1>7, <2>4 DEF ServerMeasures, Deltas
    <3>2. net'[Server] = InitFrames(Server, delta, world[Server])
      BY <1>0, <3>1
    <3> DEFINE w == world[Server]
    <3>3. w \in AWorld
      BY <1>0 DEF Types
    <3> HIDE DEF w
    <3>4. InitFrames(Server, delta, w).tests = net[Server].tests
      BY <1>0, <3>3, InitFramesIs
    <3> QED
      BY <2>2, <3>2, <3>4 DEF w
  <2> QED
    BY <2>3, <2>4
<1>8. ASSUME NEW h \in Hosts, HostSteps(h)
      PROVE  FALSE
  <2>1. PICK q : net' = [net EXCEPT ![h] = q] /\ Kept(h, q)
    BY <1>8, HostStepsKeep
  <2>2. net'[Server].tests = net[Server].tests
    BY <1>0, <2>1 DEF Kept
  <2>3. net[h].at = "run" /\ ~ network_connected(h) /\ peer[h] = "none"
    BY <1>1, <2>2
  <2> QED
    BY <1>8, <2>3 DEF HostSteps, network_event_record, network_suspend, network_hook_connected_send,
         SendFails, RemoteSuspends, network_hook_connected_receive, Leave, RecvFails, Running
<1>9. \/ network_start_server \/ network_connect_client \/ network_client_connect_trap \/ SnapshotFails
      \/ ClientEchoes \/ ServerMeasures \/ ClientIsTold \/ DeltaFails
      \/ \E h \in Hosts : HostSteps(h)
  BY Zenon DEF NetNext, HostSteps
<1> QED
  BY <1>2, <1>3, <1>4, <1>5, <1>6, <1>7, <1>8, <1>9

\* Until the client has read the snapshot the server waits for it.
LEMMA NextJoining ==
  ASSUME Types, Fresh, Joining, NetNext
  PROVE  Joining'
<1> SUFFICES ASSUME net'[Client].at = "snapshot"
             PROVE  /\ chan'[Client] = <<Msg("snapshot", Own(Server)), Msg("test", 0)>>
                    /\ world'[Server] = Own(Server) /\ \A h \in Hosts : made'[h] = Nothing
                    /\ network_connected(Server)' =>
                         /\ net'[Server].at = "test" /\ chan'[Server] = <<>>
                         /\ peer' = [h \in Hosts |-> "open"]
  BY DEF Joining, Own, Msg
<1>0. /\ Server \in Hosts /\ Client \in Hosts /\ Server # Client
      /\ \A h \in Hosts : /\ net[h] \in AHost /\ net[h].tests \in Nat /\ (h = Server \/ h = Client)
                          /\ RingOk(net[h])
      /\ net \in [Hosts -> AHost] /\ chan \in [Hosts -> Seq(AMessage)]
  BY TwoHosts DEF Types, AHost
<1>1. ASSUME net[Client].at = "snapshot"
      PROVE  /\ chan[Client] = <<Msg("snapshot", Own(Server)), Msg("test", 0)>>
             /\ world[Server] = Own(Server) /\ \A h \in Hosts : made[h] = Nothing
             /\ network_connected(Server) =>
                  /\ net[Server].at = "test" /\ chan[Server] = <<>>
                  /\ peer = [h \in Hosts |-> "open"]
  BY <1>1 DEF Joining
<1>2. CASE network_start_server
  <2>1. net'[Client] = net[Client] /\ net[Client].at = "run"
    BY <1>0, <1>2 DEF network_start_server, Fresh
  <2> QED
    BY <2>1
<1>3. CASE network_connect_client
  <2>1. net[Server].tests = 0
    BY <1>3 DEF network_connect_client
  <2>2. world[Server] = Own(Server) /\ chan[Server] = <<>> /\ \A h \in Hosts : made[h] = Nothing
    BY <1>0, <2>1 DEF Fresh
  <2>3. world' = world /\ made' = made /\ peer' = [h \in Hosts |-> "open"]
    BY <1>3 DEF network_connect_client
  <2>4. net'[Server].at = "test"
    BY <1>0, <1>3 DEF network_connect_client, AHost
  <2>5. chan'[Client] = <<Msg("snapshot", world[Server]), Msg("test", 0)>> /\ chan'[Server] = chan[Server]
    BY <1>0, <1>3 DEF network_connect_client
  <2> QED
    BY <2>2, <2>3, <2>4, <2>5
<1>4. CASE network_client_connect_trap
  <2>1. net'[Client].at = "test"
    BY <1>0, <1>4 DEF network_client_connect_trap, AHost
  <2> QED
    BY <2>1
<1>5. CASE SnapshotFails
  <2>1. net'[Client].at = "run"
    BY <1>0, <1>5 DEF SnapshotFails, AHost
  <2> QED
    BY <2>1
<1>6. CASE ClientEchoes
  <2>1. net'[Client].at = "test"
    BY <1>0, <1>6 DEF ClientEchoes, AHost
  <2> QED
    BY <2>1
<1>7. CASE ClientIsTold
  <2> DEFINE w == world[Client]
             delta == Head(chan[Client]).data
  <2>1. w \in AWorld
    BY <1>0 DEF Types
  <2>2. delta \in Deltas
    <3>1. Head(chan[Client]) \in AMessage /\ Head(chan[Client]).kind = "delta"
      BY <1>0, <1>7, StreamTypes DEF ClientIsTold
    <3> QED
      BY <3>1 DEF AMessage
  <2>3. net'[Client] = InitFrames(Client, delta, w)
    BY <1>0, <1>7 DEF ClientIsTold
  <2> HIDE DEF w, delta
  <2>4. InitFrames(Client, delta, w).at = "run"
    BY <1>0, <2>1, <2>2, InitFramesIs
  <2> QED
    BY <2>3, <2>4
<1>8. CASE ServerMeasures
  <2>1. net[Server].at = "test" /\ chan[Server] # <<>> /\ network_connected(Server)
    BY <1>0, <1>8 DEF ServerMeasures, Got, RingOk, network_connected
  <2>2. net'[Client] = net[Client]
    BY <1>0, <1>8 DEF ServerMeasures
  <2> QED
    BY <1>1, <2>1, <2>2
<1>9. ASSUME NEW h \in Hosts, HostSteps(h)
      PROVE  /\ chan'[Client] = <<Msg("snapshot", Own(Server)), Msg("test", 0)>>
             /\ world'[Server] = Own(Server) /\ \A g \in Hosts : made'[g] = Nothing
             /\ ~ network_connected(Server)'
  <2>1. PICK q : net' = [net EXCEPT ![h] = q] /\ Kept(h, q)
    BY <1>9, HostStepsKeep
  <2>2. h = Server /\ net[Client].at = "snapshot"
    BY <1>0, <2>1 DEF Kept
  <2>3. network_connected(h) => net[h].at = "test" /\ peer[h] = "open"
    BY <1>0, <1>1, <2>2
  <2>4. net[h].at = "events" => network_connected(h)
    BY <1>0 DEF RingOk, network_connected
  <2>5. ~ Running(h) /\ net[h].at # "events"
    BY <2>3, <2>4 DEF Running
  <2>6. Leave(h) \/ RecvFails(h)
    BY <1>9, <2>5 DEF HostSteps, network_event_record, network_suspend, network_hook_connected_send,
         SendFails, RemoteSuspends, network_hook_connected_receive
  <2>7. chan'[Client] = chan[Client] /\ world' = world /\ made' = made
    BY <1>0, <2>2, <2>6 DEF Leave, RecvFails
  <2>8. ~ network_connected(Server)'
    <3>1. CASE Leave(h)
      <4>1. net'[Server].mode = "IDLE"
        BY <1>0, <2>2, <3>1 DEF Leave, AHost
      <4> QED
        BY <4>1 DEF network_connected
    <3>2. CASE RecvFails(h)
      <4>1. peer[h] = "rst"
        BY <3>2 DEF RecvFails
      <4>2. ~ network_connected(h)
        BY <2>3, <4>1
      <4> QED
        BY <1>0, <2>1, <2>2, <4>2 DEF Kept, network_connected
    <3> QED
      BY <2>6, <3>1, <3>2
  <2> QED
    BY <1>1, <2>2, <2>7, <2>8
<1>10. CASE DeltaFails
  <2> DEFINE w == world[Client]
  <2>1. w \in AWorld
    BY <1>0 DEF Types
  <2>2. \/ net' = [net EXCEPT ![Client].at = "no lists"]
        \/ \E d \in Deltas : net' = [net EXCEPT ![Client] = InitFrames(Client, d, w)]
    BY <1>10 DEF DeltaFails, Deltas
  <2> HIDE DEF w
  <2>3. \A d \in Deltas : InitFrames(Client, d, w).at = "run"
    BY <1>0, <2>1, InitFramesIs
  <2>4. net'[Client].at # "snapshot"
    BY <1>0, <2>2, <2>3 DEF AHost
  <2> QED
    BY <2>4
<1>11. \/ network_start_server \/ network_connect_client \/ network_client_connect_trap \/ SnapshotFails
       \/ ClientEchoes \/ ServerMeasures \/ ClientIsTold \/ DeltaFails
       \/ \E h \in Hosts : HostSteps(h)
  BY Zenon DEF NetNext, HostSteps
<1> QED
  BY <1>2, <1>3, <1>4, <1>5, <1>6, <1>7, <1>8, <1>9, <1>10, <1>11

-----------------------------------------------------------------------------
(* The game *)

\* What a step adds to the other host's stream.
Added(h, g, t) ==
  \/ chan'[g] = chan[g] /\ t.sent = made[h].sent
  \/ chan'[g] = Append(chan[g], Msg("suspend", 0)) /\ t.sent = made[h].sent
  \/ \E l \in AList : chan'[g] = Append(chan[g], Msg("events", l)) /\ t.sent = Append(made[h].sent, l)

\* The other host's stream is still a stream.
LEMMA AddedStream ==
  ASSUME Types, NEW h \in Hosts, NEW g \in Hosts, NEW t, Added(h, g, t), NEW r \in Nat
  PROVE  /\ Stream(chan[g], r, made[h].sent) => Stream(chan'[g], r, t.sent)
         /\ chan[g] # <<>> /\ Stream(Tail(chan[g]), r, made[h].sent) =>
              Stream(Tail(chan'[g]), r, t.sent)
         /\ chan[g] # <<>> => chan'[g] # <<>> /\ Head(chan'[g]) = Head(chan[g])
<1> DEFINE q == chan[g]
           s == made[h].sent
<1>1. q \in Seq(AMessage) /\ s \in Seq(AList)
  <2>1. made[h] \in AHistory
    BY DEF Types
  <2> QED
    BY <2>1, HistoryIs DEF Types
<1>2. q # <<>> => Tail(q) \in Seq(AMessage)
  BY <1>1
<1> HIDE DEF q, s
<1>3. CASE chan'[g] = q /\ t.sent = s
  BY <1>3 DEF q, s
<1>4. CASE chan'[g] = Append(q, Msg("suspend", 0)) /\ t.sent = s
  <2> DEFINE x == Msg("suspend", 0)
  <2>1. x \in AMessage
    BY DEF Msg, AMessage
  <2>2. Stream(q, r, s) => Stream(Append(q, x), r, s)
    BY <1>1, StreamSuspend
  <2>3. q # <<>> /\ Stream(Tail(q), r, s) => Stream(Append(Tail(q), x), r, s)
    BY <1>1, <1>2, StreamSuspend
  <2> HIDE DEF x
  <2>4. q # <<>> => /\ Head(Append(q, x)) = Head(q) /\ Append(q, x) # <<>>
                    /\ Tail(Append(q, x)) = Append(Tail(q), x)
    BY <1>1, <2>1, OneMore
  <2> QED
    BY <1>4, <2>2, <2>3, <2>4 DEF q, s, x
<1>5. ASSUME NEW l \in AList, chan'[g] = Append(q, Msg("events", l)), t.sent = Append(s, l)
      PROVE  /\ Stream(q, r, s) => Stream(chan'[g], r, t.sent)
             /\ q # <<>> /\ Stream(Tail(q), r, s) => Stream(Tail(chan'[g]), r, t.sent)
             /\ q # <<>> => chan'[g] # <<>> /\ Head(chan'[g]) = Head(q)
  <2> DEFINE x == Msg("events", l)
  <2>1. x \in AMessage
    BY DEF Msg, AMessage
  <2>2. Stream(q, r, s) => Stream(Append(q, x), r, Append(s, l))
    BY <1>1, StreamSend
  <2>3. q # <<>> /\ Stream(Tail(q), r, s) => Stream(Append(Tail(q), x), r, Append(s, l))
    BY <1>1, <1>2, StreamSend
  <2> HIDE DEF x
  <2>4. q # <<>> => /\ Head(Append(q, x)) = Head(q) /\ Append(q, x) # <<>>
                    /\ Tail(Append(q, x)) = Append(Tail(q), x)
    BY <1>1, <2>1, OneMore
  <2> QED
    BY <1>5, <2>2, <2>3, <2>4 DEF x
<1> QED
  BY <1>3, <1>4, <1>5 DEF Added, q, s

\* A step of a host that plays.
LEMMA GameStep ==
  ASSUME Types, InGame, NEW h \in Hosts, NEW g \in Hosts, g = Other(h), Playing(h),
         NEW e \in AHost, NEW t \in AHistory, NEW v,
         net' = [net EXCEPT ![h] = e], made' = [made EXCEPT ![h] = t], world' = [world EXCEPT ![h] = v],
         e.mode = net[h].mode, e.frame_delta = net[h].frame_delta, HostOk(e, t, v),
         Stream(chan'[h], Len(t.past), made[g].sent), chan'[h] = chan[h] \/ chan[h] # <<>>,
         peer[h] = "open" => peer' = peer /\ Added(h, g, t), Histories'
  PROVE  InGame'
<1>0. /\ Server \in Hosts /\ Client \in Hosts /\ Server # Client
      /\ h # g /\ h = Other(g) /\ ((h = Server /\ g = Client) \/ (h = Client /\ g = Server))
      /\ \A k \in Hosts : k = h \/ k = g
  BY TwoHosts
<1>1. /\ net'[h] = e /\ net'[g] = net[g] /\ made'[h] = t /\ made'[g] = made[g]
      /\ world'[h] = v /\ world'[g] = world[g]
  BY <1>0 DEF Types
<1>2. e.at \in {"run", "events"} /\ SyncsOk(t, e.frame_delta)
  BY DEF HostOk
<1>3. network_connected(h) /\ net[h].at \in {"run", "events"} /\ Playing(h)'
  BY <1>1, <1>2 DEF Playing, network_connected
<1>4. network_connected(g)' <=> network_connected(g)
  BY <1>1 DEF network_connected
<1>5. Playing(g)' <=> Playing(g)
  BY <1>1, <1>4 DEF Playing
<1>6. GameOf(h) /\ GameOf(g) /\ ServerWaits /\ ClientWaits /\ Together
  BY DEF InGame
<1>7. ASSUME network_connected(g)
      PROVE  peer = [k \in Hosts |-> "open"] /\ peer' = peer /\ Added(h, g, t) /\ (ToldLast \/ Underway)
  <2>1. network_connected(Server) /\ network_connected(Client)
    BY <1>0, <1>3, <1>7
  <2>2. peer = [k \in Hosts |-> "open"] /\ (Testing \/ ToldLast \/ Underway)
    BY <1>6, <2>1 DEF Together
  <2>3. ~ Testing
    BY <1>3 DEF Testing
  <2> QED
    BY <2>2, <2>3
<1>8. GameOf(h)'
  <2>1. SyncsOk(made[g], net[h].frame_delta)
    BY <1>6 DEF GameOf
  <2>2. made'[Other(h)] = made[g]
    BY <1>1
  <2>3. /\ HostOk(net'[h], made'[h], world'[h])
        /\ Stream(chan'[h], Len(made'[h].past), made'[Other(h)].sent)
        /\ SyncsOk(made'[Other(h)], net'[h].frame_delta)
    BY <1>1, <2>1, <2>2
  <2> QED
    BY <2>3 DEF GameOf
<1>9. GameOf(g)'
  <2> SUFFICES ASSUME Playing(g)
               PROVE  /\ HostOk(net'[g], made'[g], world'[g])
                      /\ Stream(chan'[g], Len(made'[g].past), made'[Other(g)].sent)
                      /\ SyncsOk(made'[Other(g)], net'[g].frame_delta)
    BY <1>5 DEF GameOf
  <2>1. HostOk(net[g], made[g], world[g]) /\ Stream(chan[g], Len(made[g].past), made[h].sent)
    BY <1>0, <1>6 DEF GameOf
  <2>2. network_connected(g) /\ net[g].at \in {"run", "events"}
    BY DEF Playing
  <2>3. Added(h, g, t) /\ Underway
    BY <1>0, <1>3, <1>7, <2>2 DEF ToldLast
  <2>4. Len(made[g].past) \in Nat
    BY HistoryIs DEF Types
  <2>5. Stream(chan'[g], Len(made[g].past), t.sent)
    BY <2>1, <2>3, <2>4, AddedStream
  <2>6. SyncsOk(t, net[g].frame_delta)
    BY <1>0, <1>2, <2>3 DEF Underway
  <2> QED
    BY <1>0, <1>1, <2>1, <2>5, <2>6
<1>10. ServerWaits'
  <2>1. ASSUME net'[Server].at = "test"
        PROVE  FALSE
    <3>1. g = Server /\ net[g].at = "test"
      BY <1>0, <1>1, <1>2, <2>1
    <3>2. network_connected(g)
      BY <3>1 DEF Types, RingOk, network_connected
    <3> QED
      BY <1>0, <1>7, <3>1, <3>2 DEF ToldLast, Underway, Playing
  <2> QED
    BY <2>1 DEF ServerWaits
<1>11. ASSUME net[Client].at = "test"
       PROVE  /\ h = Server /\ g = Client /\ network_connected(g) /\ ToldLast
              /\ chan'[h] = <<>> /\ chan'[g] # <<>> /\ Head(chan'[g]) = Head(chan[g])
              /\ Head(chan[g]).kind = "delta" /\ Head(chan[g]).data = e.frame_delta
              /\ Stream(Tail(chan'[g]), 0, t.sent)
  <2>1. h = Server /\ g = Client
    BY <1>0, <1>3, <1>11
  <2>2. network_connected(g)
    BY <1>11, <2>1 DEF Types, RingOk, network_connected
  <2>3. ToldLast
    BY <1>7, <1>11, <2>2 DEF Underway, Playing
  <2>4. chan[h] = <<>> /\ chan'[h] = <<>> /\ chan[g] # <<>> /\ Head(chan[g]).kind = "delta" /\ Head(chan[g]).data = e.frame_delta
    BY <2>1, <2>3 DEF ToldLast, Got
  <2>5. Stream(Tail(chan[g]), 0, made[h].sent)
    <3>1. chan[g] # <<Msg("test", 0)>>
      <4>1. Msg("test", 0).kind # "delta" /\ Head(<<Msg("test", 0)>>) = Msg("test", 0)
        BY DEF Msg
      <4> QED
        BY <2>4, <4>1
    <3> QED
      BY <1>6, <1>11, <2>1, <2>4, <3>1 DEF ClientWaits
  <2>6. Added(h, g, t)
    BY <1>7, <2>2
  <2>7. Stream(Tail(chan'[g]), 0, t.sent) /\ chan'[g] # <<>> /\ Head(chan'[g]) = Head(chan[g])
    BY <2>4, <2>5, <2>6, AddedStream
  <2> QED
    BY <2>1, <2>2, <2>3, <2>4, <2>7
<1>12. ClientWaits'
  <2> SUFFICES ASSUME net'[Client].at = "test"
               PROVE  /\ world'[Client] = Own(Server) /\ made'[Client] = Nothing
                      /\ Got(Client, "delta")' /\ SyncsOk(made'[Server], Head(chan'[Client]).data)
                      /\ Stream(Tail(chan'[Client]), 0, made'[Server].sent)
    BY DEF ClientWaits, Own, Nothing, Msg
  <2>1. g = Client /\ net[Client].at = "test"
    BY <1>0, <1>1, <1>2
  <2>2. world[Client] = Own(Server) /\ made[Client] = Nothing
    BY <1>6, <2>1 DEF ClientWaits
  <2> QED
    BY <1>0, <1>1, <1>2, <1>11, <2>1, <2>2 DEF Got
<1>13. Together'
  <2> SUFFICES ASSUME network_connected(g)
               PROVE  peer' = [k \in Hosts |-> "open"] /\ (ToldLast' \/ Underway')
    BY <1>0, <1>4 DEF Together
  <2>1. CASE ToldLast
    <3>1. net[Client].at = "test"
      BY <2>1 DEF ToldLast
    <3>2. ToldLast'
      BY <1>0, <1>1, <1>3, <1>11, <3>1 DEF ToldLast, Got
    <3> QED
      BY <1>7, <3>2
  <2>2. CASE Underway
    <3>1. Playing(g)' /\ net'[g].frame_delta = net'[h].frame_delta
      BY <1>0, <1>1, <1>5, <2>2 DEF Underway
    <3>2. Underway'
      BY <1>0, <1>3, <3>1 DEF Underway
    <3> QED
      BY <1>7, <3>2
  <2> QED
    BY <1>7, <2>1, <2>2
<1> QED
  BY <1>0, <1>8, <1>9, <1>10, <1>12, <1>13 DEF InGame

\* The rounds stay what they were when a host sends.
LEMMA RoundsKept ==
  ASSUME NEW m \in AHistory, NEW s \in AHistory, NEW c \in AHistory, RoundsOk(m, s, c),
         NEW n \in AHistory, NEW u \in AHistory, NEW e \in AHistory, n.past = m.past,
         Len(s.sent) <= Len(u.sent), \A j \in 1 .. Len(s.sent) : u.sent[j] = s.sent[j],
         Len(c.sent) <= Len(e.sent), \A j \in 1 .. Len(c.sent) : e.sent[j] = c.sent[j]
  PROVE  RoundsOk(n, u, e)
<1>1. /\ Len(s.sent) \in Nat /\ Len(c.sent) \in Nat /\ Len(u.sent) \in Nat /\ Len(e.sent) \in Nat
      /\ Len(m.past) \in Nat
  BY HistoryIs
<1>2. ASSUME NEW j \in 1 .. Len(m.past)
      PROVE  /\ j <= Len(u.sent) /\ j <= Len(e.sent)
             /\ n.past[j] = After(n, j - 1) \o (u.sent[j].inputs \o e.sent[j].inputs)
  <2>1. /\ j <= Len(s.sent) /\ j <= Len(c.sent)
        /\ m.past[j] = After(m, j - 1) \o (s.sent[j].inputs \o c.sent[j].inputs)
    BY <1>2 DEF RoundsOk
  <2>2. u.sent[j] = s.sent[j] /\ e.sent[j] = c.sent[j]
    BY <1>1, <2>1
  <2>3. After(n, j - 1) = After(m, j - 1)
    BY DEF After
  <2>4. j <= Len(u.sent) /\ j <= Len(e.sent)
    BY <1>1, <2>1
  <2> QED
    BY <2>1, <2>2, <2>3, <2>4
<1> QED
  BY <1>2 DEF RoundsOk

\* A host that sends changes no round.
LEMMA HistoriesKept ==
  ASSUME Types, Histories, NEW h \in Hosts, NEW t \in AHistory, made' = [made EXCEPT ![h] = t],
         t.past = made[h].past, Len(made[h].sent) <= Len(t.sent),
         \A j \in 1 .. Len(made[h].sent) : t.sent[j] = made[h].sent[j]
  PROVE  Histories'
<1>1. \A k \in Hosts : /\ made[k] \in AHistory /\ made'[k] \in AHistory
                       /\ made'[k] = (IF k = h THEN t ELSE made[k]) /\ made'[k].past = made[k].past
  BY DEF Types
<1>2. \A k \in Hosts : /\ Len(made[k].sent) \in Nat /\ Len(made[k].sent) <= Len(made'[k].sent)
                       /\ \A j \in 1 .. Len(made[k].sent) : made'[k].sent[j] = made[k].sent[j]
  BY <1>1, HistoryIs
<1>4. Server \in Hosts /\ Client \in Hosts /\ \A k \in Hosts : Other(k) \in Hosts
  BY TwoHosts
<1>5. ASSUME NEW k \in Hosts
      PROVE  RoundsOk(made'[k], made'[Server], made'[Client]) /\ Grows(made'[k]) /\ Same(made'[k], made'[Other(k)])
  <2>1. RoundsOk(made[k], made[Server], made[Client]) /\ Grows(made[k]) /\ Same(made[k], made[Other(k)])
    BY DEF Histories
  <2> DEFINE a == made[k]
             b == made'[k]
  <2>2. b.past = a.past
    BY <1>1
  <2>3. Same(made'[k], made'[Other(k)])
    BY <1>1, <1>4, <2>1 DEF Same
  <2>5. RoundsOk(made'[k], made'[Server], made'[Client])
    <3> DEFINE s == made[Server]
               c == made[Client]
               u == made'[Server]
               e == made'[Client]
    <3>1. RoundsOk(a, s, c) /\ b.past = a.past
      BY <2>1, <2>2
    <3>2. /\ a \in AHistory /\ b \in AHistory /\ s \in AHistory /\ u \in AHistory
          /\ c \in AHistory /\ e \in AHistory
      BY <1>1, <1>4
    <3>3. Len(s.sent) <= Len(u.sent) /\ \A j \in 1 .. Len(s.sent) : u.sent[j] = s.sent[j]
      BY <1>2, <1>4
    <3>4. Len(c.sent) <= Len(e.sent) /\ \A j \in 1 .. Len(c.sent) : e.sent[j] = c.sent[j]
      BY <1>2, <1>4
    <3> HIDE DEF a, b, s, c, u, e
    <3>5. RoundsOk(b, u, e)
      BY <3>1, <3>2, <3>3, <3>4, RoundsKept
    <3> QED
      BY <3>5 DEF b, u, e
  <2>6. Grows(a)
    BY <2>1
  <2> HIDE DEF a, b
  <2>7. \A j : After(b, j) = After(a, j)
    BY <2>2 DEF After
  <2>8. Grows(b)
    BY ONLY <2>2, <2>6, <2>7 DEF Grows
  <2> QED
    BY <2>3, <2>5, <2>8 DEF b
<1> QED
  BY <1>4, <1>5 DEF Histories

\* A history with one more round, v.
Extended(m, t, v) == t.sent = m.sent /\ t.past = Append(m.past, v)

\* What that round has to be.
RoundIs(v, m, s, c) ==
  LET r == Len(m.past)
  IN  /\ r + 1 <= Len(s.sent) /\ r + 1 <= Len(c.sent)
      /\ v = After(m, r) \o (s.sent[r + 1].inputs \o c.sent[r + 1].inputs)
\* A history with a round more.
LEMMA RoundMore ==
  ASSUME NEW m \in AHistory, NEW o \in AHistory, NEW s \in AHistory, NEW c \in AHistory,
         NEW t \in AHistory, NEW v \in AWorld, Extended(m, t, v), RoundIs(v, m, s, c),
         RoundsOk(m, s, c), RoundsOk(o, s, c), Grows(m), Same(m, o), Same(o, m)
  PROVE  RoundsOk(t, s, c) /\ Grows(t) /\ Same(t, o) /\ Same(o, t)
<1> DEFINE r == Len(m.past)
           S == [kind : {"own"}, data : Hosts] \cup AnInput
           b == After(m, r)
           u == s.sent[r + 1].inputs \o c.sent[r + 1].inputs
<1>1. r \in Nat /\ Len(o.past) \in Nat /\ Len(s.sent) \in Nat /\ Len(c.sent) \in Nat /\ m.past \in Seq(AWorld)
  BY HistoryIs
<1>2. Len(t.past) = r + 1 /\ t.past[r + 1] = v /\ \A j \in 1 .. r : t.past[j] = m.past[j]
  BY <1>1, OneMore DEF Extended
<1>3. r + 1 <= Len(s.sent) /\ r + 1 <= Len(c.sent) /\ v = b \o u
  BY DEF RoundIs
<1>4. \A j \in 0 .. r : After(m, j) \in Seq(S)
  BY HistoryIs DEF AWorld
<1>5. u \in Seq(S)
  <2>1. r + 1 \in 1 .. Len(s.sent) /\ r + 1 \in 1 .. Len(c.sent)
    <3>1. r + 1 <= Len(s.sent) /\ r + 1 <= Len(c.sent)
      BY <1>3
    <3> HIDE DEF r
    <3> QED
      BY <1>1, <3>1
  <2>2. s.sent[r + 1].inputs \in Seq(AnInput) /\ c.sent[r + 1].inputs \in Seq(AnInput)
    BY <2>1, HistoryIs
  <2>3. u \in Seq(AnInput)
    BY <2>2, ConcatProperties
  <2>4. AnInput \subseteq S
    OBVIOUS
  <2> HIDE DEF u, S
  <2> QED
    BY <2>3, <2>4
<1> HIDE DEF r, b, u, S
<1>6. After(t, r + 1) = v /\ \A j \in 0 .. r : After(t, j) = After(m, j)
  BY <1>1, <1>2 DEF After
<1>7. b = After(m, r) /\ b \in Seq(S) /\ v \in Seq(S)
  <2>1. r \in 0 .. r
    BY <1>1
  <2> QED
    BY <1>4, <2>1 DEF b, S, AWorld
<1>8. RoundsOk(t, s, c)
  <2> SUFFICES ASSUME NEW j \in 1 .. r + 1
               PROVE  /\ j <= Len(s.sent) /\ j <= Len(c.sent)
                      /\ t.past[j] = After(t, j - 1) \o (s.sent[j].inputs \o c.sent[j].inputs)
    BY <1>2 DEF RoundsOk
  <2>1. CASE j = r + 1
    <3>1. j - 1 = r /\ r \in 0 .. r
      BY <1>1, <2>1
    <3>2. After(t, j - 1) = b
      BY <1>6, <1>7, <3>1
    <3> QED
      BY <1>2, <1>3, <2>1, <3>2 DEF u
  <2>2. CASE j # r + 1
    <3>1. j \in 1 .. r /\ j - 1 \in 0 .. r
      BY <1>1, <2>2
    <3>2. /\ j <= Len(s.sent) /\ j <= Len(c.sent)
          /\ m.past[j] = After(m, j - 1) \o (s.sent[j].inputs \o c.sent[j].inputs)
      BY <3>1 DEF RoundsOk, r
    <3>3. After(t, j - 1) = After(m, j - 1) /\ t.past[j] = m.past[j]
      BY <1>2, <1>6, <3>1
    <3> QED
      BY <3>2, <3>3
  <2> QED
    BY <2>1, <2>2
<1>9. Same(t, o) /\ Same(o, t)
  <2>1. ASSUME r + 1 <= Len(o.past)
        PROVE  o.past[r + 1] = v
    <3>1. r + 1 \in 1 .. Len(o.past) /\ r + 1 - 1 = r
      BY <1>1, <2>1
    <3>2. o.past[r + 1] = After(o, r) \o (s.sent[r + 1].inputs \o c.sent[r + 1].inputs)
      <4>1. \A j \in 1 .. Len(o.past) :
              o.past[j] = After(o, j - 1) \o (s.sent[j].inputs \o c.sent[j].inputs)
        BY DEF RoundsOk
      <4>2. o.past[r + 1] = After(o, (r + 1) - 1) \o (s.sent[r + 1].inputs \o c.sent[r + 1].inputs)
        BY ONLY <3>1, <4>1
      <4>3. (r + 1) - 1 = r
        BY <1>1
      <4> QED
        BY ONLY <4>2, <4>3
    <3>3. After(o, r) = After(m, r)
      <4>1. CASE r = 0
        BY <4>1 DEF After
      <4>2. CASE r # 0
        <5>1. r \in 1 .. Len(m.past) /\ r <= Len(o.past)
          BY <1>1, <2>1, <4>2 DEF r
        <5>2. m.past[r] = o.past[r]
          BY <5>1 DEF Same
        <5> QED
          BY <4>2, <5>2 DEF After
      <4> QED
        BY <4>1, <4>2
    <3> QED
      BY <1>3, <1>7, <3>1, <3>2, <3>3 DEF u
  <2>2. ASSUME NEW j \in 1 .. r + 1, j <= Len(o.past)
        PROVE  t.past[j] = o.past[j]
    <3>1. CASE j = r + 1
      BY <1>2, <2>1, <2>2, <3>1
    <3>2. CASE j # r + 1
      <4>1. j \in 1 .. r
        BY <1>1, <3>2
      <4>2. m.past[j] = o.past[j]
        BY <2>2, <4>1 DEF Same, r
      <4> QED
        BY <1>2, <4>1, <4>2
    <3> QED
      BY <3>1, <3>2
  <2>3. \A j \in 1 .. Len(o.past) : j <= r + 1 => j \in 1 .. r + 1
    BY <1>1
  <2> QED
    BY <1>2, <2>2, <2>3 DEF Same
<1>10. Grows(t)
  <2> SUFFICES ASSUME NEW i \in 0 .. r + 1, NEW j \in 0 .. r + 1, i <= j
               PROVE  IsPrefix(After(t, i), After(t, j))
    BY <1>2 DEF Grows
  <2>1. CASE j # r + 1
    <3>1. i \in 0 .. r /\ j \in 0 .. r
      BY <1>1, <2>1
    <3>2. IsPrefix(After(m, i), After(m, j))
      BY <3>1 DEF Grows, r
    <3> QED
      BY <1>6, <3>1, <3>2
  <2>2. CASE j = r + 1 /\ i = r + 1
    <3>1. IsPrefix(v, v)
      BY <1>7, PrefixGrows
    <3> QED
      BY <1>6, <2>2, <3>1
  <2>3. CASE j = r + 1 /\ i # r + 1
    <3> DEFINE a == After(m, i)
    <3>1. i \in 0 .. r /\ r \in 0 .. r /\ i <= r
      BY <1>1, <2>3
    <3>2. a \in Seq(S)
      BY <1>4, <3>1
    <3>3. IsPrefix(a, b)
      BY <3>1 DEF Grows, r, b
    <3> HIDE DEF a
    <3>4. IsPrefix(a, b \o u)
      BY <1>5, <1>7, <3>2, <3>3, PrefixGrows
    <3> QED
      BY <1>3, <1>6, <2>3, <3>1, <3>4 DEF a
  <2> QED
    BY <2>1, <2>2, <2>3
<1> QED
  BY <1>8, <1>9, <1>10

\* A host plays a round.
LEMMA HistoriesGrow ==
  ASSUME Types, Histories, NEW h \in Hosts, NEW g \in Hosts, g = Other(h), NEW t \in AHistory,
         NEW v \in AWorld, made' = [made EXCEPT ![h] = t], Extended(made[h], t, v),
         RoundIs(v, made[h], made[Server], made[Client])
  PROVE  Histories'
<1>0. /\ Server \in Hosts /\ Client \in Hosts /\ h # g /\ h = Other(g) /\ \A k \in Hosts : k = h \/ k = g
  BY TwoHosts
<1>1. /\ made[h] \in AHistory /\ made[g] \in AHistory /\ made'[h] = t /\ made'[g] = made[g]
      /\ made[Server] \in AHistory /\ made[Client] \in AHistory
      /\ \A k \in Hosts : made'[k] = IF k = h THEN t ELSE made[k]
  BY <1>0 DEF Types
<1>2. /\ RoundsOk(made[h], made[Server], made[Client]) /\ Grows(made[h]) /\ Same(made[h], made[g])
      /\ RoundsOk(made[g], made[Server], made[Client]) /\ Grows(made[g]) /\ Same(made[g], made[h])
  BY <1>0 DEF Histories
<1>3. /\ RoundsOk(t, made[Server], made[Client]) /\ Grows(t) /\ Same(t, made[g]) /\ Same(made[g], t)
  BY <1>1, <1>2, RoundMore
<1>4. made'[Server].sent = made[Server].sent /\ made'[Client].sent = made[Client].sent
  BY <1>0, <1>1 DEF Extended
<1>5. /\ RoundsOk(t, made'[Server], made'[Client]) /\ RoundsOk(made[g], made'[Server], made'[Client])
  BY <1>2, <1>3, <1>4 DEF RoundsOk
<1>6. ASSUME NEW k \in Hosts
      PROVE  RoundsOk(made'[k], made'[Server], made'[Client]) /\ Grows(made'[k]) /\ Same(made'[k], made'[Other(k)])
  <2>1. CASE k = h
    BY <1>0, <1>1, <1>3, <1>5, <2>1
  <2>2. CASE k = g
    BY <1>0, <1>1, <1>2, <1>3, <1>5, <2>2
  <2> QED
    BY <1>0, <2>1, <2>2
<1> QED
  BY <1>6 DEF Histories

\* What is known of a host that plays.
LEMMA Plays ==
  ASSUME Types, InGame, NEW h \in Hosts, net[h].at = "events" \/ Running(h)
  PROVE  /\ Playing(h) /\ HostOk(net[h], made[h], world[h])
         /\ Stream(chan[h], Len(made[h].past), made[Other(h)].sent)
         /\ net[h] \in AHost /\ made[h] \in AHistory /\ made[Other(h)] \in AHistory
         /\ world[h] \in AWorld /\ chan[h] \in Seq(AMessage)
         /\ made = [made EXCEPT ![h] = made[h]] /\ world = [world EXCEPT ![h] = world[h]]
<1>1. Playing(h)
  BY DEF Types, RingOk, Playing, Running, network_connected
<1>2. Other(h) \in Hosts
  BY TwoHosts
<1>3. HostOk(net[h], made[h], world[h]) /\ Stream(chan[h], Len(made[h].past), made[Other(h)].sent)
  BY <1>1 DEF InGame, GameOf
<1>4. /\ net[h] \in AHost /\ made[h] \in AHistory /\ made[Other(h)] \in AHistory
      /\ world[h] \in AWorld /\ chan[h] \in Seq(AMessage)
      /\ made = [made EXCEPT ![h] = made[h]] /\ world = [world EXCEPT ![h] = world[h]]
  BY <1>2 DEF Types
<1> QED
  BY <1>1, <1>3, <1>4

\* What sending a message changes.
LEMMA SendAdds ==
  ASSUME Types, NEW h \in Hosts, NEW x \in AMessage, Send(h, <<x>>)
  PROVE  /\ chan'[h] = chan[h]
         /\ peer[h] = "open" => peer' = peer /\ chan'[Other(h)] = Append(chan[Other(h)], x)
<1>1. Other(h) \in Hosts /\ Other(h) # h
  BY TwoHosts
<1>2. chan[Other(h)] \in Seq(AMessage)
  BY <1>1 DEF Types
<1>3. chan[Other(h)] \o <<x>> = Append(chan[Other(h)], x)
  BY <1>2, OneMore
<1> QED
  BY <1>1, <1>3 DEF Send, Types

\* What receiving one changes.
LEMMA ReceiveTakes ==
  ASSUME Types, NEW h \in Hosts, Receive(h)
  PROVE  chan'[h] = Tail(chan[h]) /\ chan'[Other(h)] = chan[Other(h)] /\ peer' = peer
BY TwoHosts DEF Receive, Types

\* An input is recorded.
LEMMA GameRecord ==
  ASSUME Types, InGame, NEW h \in Hosts, NEW type \in Inputs, network_event_record(h, type)
  PROVE  InGame'
<1> DEFINE n == net[h]
           c == n.current_frame
           i == [type |-> type, from |-> h, data |-> Len(made[h].inputs)]
           l == [n.lists EXCEPT ![c].inputs = Append(@, i)]
           e == [n EXCEPT !.lists = l]
           k == Append(made[h].inputs, [event |-> i, frame |-> made[h].frames])
           t == [made[h] EXCEPT !.inputs = k]
<1>1. /\ l \in [0 .. n.frame_delta - 1 -> AList] /\ e \in AHost /\ net' = [net EXCEPT ![h] = e]
      /\ made' = [made EXCEPT ![h].inputs = k] /\ made' \in [Hosts -> AHistory]
      /\ world' = world /\ chan' = chan /\ peer' = peer
  BY RecordIs
<1>2. Running(h) /\ n.at = "run"
  BY DEF network_event_record, Running
<1>3. /\ Playing(h) /\ HostOk(n, made[h], world[h]) /\ n \in AHost /\ made[h] \in AHistory
      /\ Stream(chan[h], Len(made[h].past), made[Other(h)].sent)
      /\ world = [world EXCEPT ![h] = world[h]]
  BY <1>2, Plays
<1>4. made' = [made EXCEPT ![h] = t] /\ t \in AHistory
  BY <1>1 DEF Types
<1>5. t.frames = made[h].frames /\ t.sent = made[h].sent /\ t.past = made[h].past
  BY <1>3 DEF AHistory
<1>6. /\ e.at = n.at /\ e.frame_delta = n.frame_delta /\ e.current_frame = c /\ e.mode = n.mode
      /\ (e.frame_buffer_full <=> n.frame_buffer_full) /\ e.lists = l
  <2> HIDE DEF l
  <2> QED
    BY <1>3 DEF AHost
<1>7. n.lists \in [0 .. n.frame_delta - 1 -> AList] /\ c \in 0 .. n.frame_delta - 1
  <2> HIDE DEF n, c
  <2>1. /\ n.lists \in [0 .. n.frame_delta - 1 -> AList] /\ n.frame_delta \in Nat
        /\ n.current_frame \in Nat /\ n.current_frame <= n.frame_delta - 1
    BY <1>3, HostNumbers
  <2> QED
    BY <2>1 DEF c
<1>8. l[c].sync = n.lists[c].sync /\ \A j \in 0 .. n.frame_delta - 1 : j # c => l[j] = n.lists[j]
  <2> HIDE DEF n, i
  <2> QED
    BY <1>7 DEF AList
<1>9. Histories
  BY DEF InGame
<1> HIDE DEF n, l, e, k, t, i
<1>10. HostOk(e, t, world[h])
  BY <1>1, <1>2, <1>3, <1>5, <1>6, <1>8, HostSame DEF c
<1>11. Histories'
  <2>1. Len(made[h].sent) <= Len(t.sent)
    BY <1>3, <1>5, HistoryIs
  <2> QED
    BY <1>4, <1>5, <1>9, <2>1, HistoriesKept
<1>12. Added(h, Other(h), t) /\ Other(h) \in Hosts
  BY <1>1, <1>5, TwoHosts DEF Added
<1>13. Stream(chan'[h], Len(t.past), made[Other(h)].sent)
  BY <1>1, <1>3, <1>5
<1>14. world' = [world EXCEPT ![h] = world[h]] /\ e.mode = net[h].mode /\ e.frame_delta = net[h].frame_delta
  BY <1>1, <1>3, <1>6 DEF n
<1> QED
  BY <1>1, <1>3, <1>4, <1>10, <1>11, <1>12, <1>13, <1>14, GameStep

\* A host suspends emulation, or the other tells it that it has.
LEMMA GameSuspend ==
  ASSUME Types, InGame, NEW h \in Hosts, network_suspend(h) \/ RemoteSuspends(h)
  PROVE  InGame'
<1> DEFINE n == net[h]
           e == [n EXCEPT !.suspended = TRUE]
           t == made[h]
<1>1. /\ n.at = "events" \/ Running(h)
      /\ net' = [net EXCEPT ![h].suspended = TRUE] /\ world' = world /\ made' = made
  BY DEF network_suspend, RemoteSuspends
<1>2. /\ Playing(h) /\ HostOk(n, t, world[h]) /\ n \in AHost /\ t \in AHistory
      /\ Stream(chan[h], Len(t.past), made[Other(h)].sent) /\ made[Other(h)] \in AHistory
      /\ made = [made EXCEPT ![h] = t] /\ world = [world EXCEPT ![h] = world[h]]
      /\ chan[h] \in Seq(AMessage)
  BY <1>1, Plays DEF network_suspend, RemoteSuspends
<1>3. net' = [net EXCEPT ![h] = e]
  BY DEF network_suspend, RemoteSuspends, Types
<1>4. /\ e \in AHost /\ e.at = n.at /\ e.frame_delta = n.frame_delta /\ e.current_frame = n.current_frame
      /\ e.mode = n.mode /\ (e.frame_buffer_full <=> n.frame_buffer_full) /\ e.lists = n.lists
  BY <1>2 DEF AHost
<1>5. n.lists \in [0 .. n.frame_delta - 1 -> AList]
  BY <1>2, HostNumbers
<1>6. Histories
  BY DEF InGame
<1>7. /\ Stream(chan'[h], Len(t.past), made[Other(h)].sent) /\ (chan'[h] = chan[h] \/ chan[h] # <<>>)
      /\ (peer[h] = "open" => peer' = peer /\ Added(h, Other(h), t))
  <2> DEFINE x == Msg("suspend", 0)
  <2>1. x \in AMessage
    BY DEF Msg, AMessage
  <2>2. CASE network_suspend(h)
    <3>1. Send(h, <<x>>)
      BY <2>2 DEF network_suspend
    <3> HIDE DEF x
    <3>2. chan'[h] = chan[h] /\ (peer[h] = "open" => peer' = peer /\ chan'[Other(h)] = Append(chan[Other(h)], x))
      BY <2>1, <3>1, SendAdds
    <3> QED
      BY <1>2, <3>2 DEF Added, x
  <2>3. CASE RemoteSuspends(h)
    <3>1. Receive(h) /\ chan[h] # <<>> /\ Head(chan[h]).kind = "suspend"
      BY <2>3 DEF RemoteSuspends, Got
    <3>2. chan'[h] = Tail(chan[h]) /\ chan'[Other(h)] = chan[Other(h)] /\ peer' = peer
      BY <3>1, ReceiveTakes
    <3>3. Len(t.past) \in Nat /\ made[Other(h)].sent \in Seq(AList)
      BY <1>2, HistoryIs
    <3>4. Stream(Tail(chan[h]), Len(t.past), made[Other(h)].sent)
      BY <1>2, <3>1, <3>3, StreamReceive
    <3> QED
      BY <3>1, <3>2, <3>4 DEF Added
  <2> QED
    BY <2>2, <2>3
<1> HIDE DEF n, e, t
<1>8. HostOk(e, t, world[h])
  BY <1>2, <1>4, <1>5, HostSame
<1>9. Histories'
  BY <1>1, <1>6 DEF Histories
<1>10. Other(h) \in Hosts
  BY TwoHosts
<1>11. e.mode = net[h].mode /\ e.frame_delta = net[h].frame_delta
  BY <1>4 DEF n
<1> QED
  BY <1>1, <1>2, <1>3, <1>4, <1>7, <1>8, <1>9, <1>10, <1>11, GameStep

\* A host ends a frame and sends its list.
LEMMA GameSend ==
  ASSUME Types, InGame, NEW h \in Hosts, network_hook_connected_send(h)
  PROVE  InGame'
<1> DEFINE n == net[h]
           l == n.lists[n.current_frame]
           p == FrameToPlay(n)
           L == [n.lists EXCEPT ![p] = FrameList(world[h])]
           m == [n EXCEPT !.suspended = FALSE, !.frame_buffer_full = Full(n), !.at = "events"]
           r == [n EXCEPT !.suspended = FALSE, !.frame_buffer_full = Full(n), !.current_frame = p, !.lists = L]
           e == IF Full(n) THEN m ELSE r
           t == [made[h] EXCEPT !.sent = Append(@, l), !.frames = IF Full(n) THEN @ ELSE @ + 1]
           x == Msg("events", l)
<1>1. /\ n.at = "run" /\ l \in AList /\ x \in AMessage /\ Send(h, <<x>>)
      /\ p = (IF n.current_frame = n.frame_delta - 1 THEN 0 ELSE n.current_frame + 1)
      /\ m \in AHost /\ r \in AHost /\ net' = [net EXCEPT ![h] = e]
      /\ made' = [made EXCEPT ![h] = t] /\ t \in AHistory /\ world' = world
  BY SendIs
<1>2. Running(h)
  BY DEF network_hook_connected_send
<1>3. /\ Playing(h) /\ HostOk(n, made[h], world[h]) /\ n \in AHost /\ made[h] \in AHistory
      /\ Stream(chan[h], Len(made[h].past), made[Other(h)].sent)
      /\ world = [world EXCEPT ![h] = world[h]] /\ world[h] \in AWorld
  BY <1>2, Plays
<1>4. /\ t.frames = (IF Full(n) THEN made[h].frames ELSE made[h].frames + 1)
      /\ t.sent = Append(made[h].sent, l) /\ t.past = made[h].past
  <2> HIDE DEF l, n
  <2> QED
    BY <1>3 DEF AHistory
<1>5. /\ m.at = "events" /\ m.frame_delta = n.frame_delta /\ m.current_frame = n.current_frame
      /\ m.lists = n.lists /\ m.mode = n.mode /\ (m.frame_buffer_full <=> Full(n))
      /\ r.at = n.at /\ r.frame_delta = n.frame_delta /\ r.current_frame = p
      /\ r.lists = L /\ r.mode = n.mode /\ (r.frame_buffer_full <=> Full(n))
  <2> HIDE DEF L, p
  <2> QED
    BY <1>3 DEF AHost
<1>6. Histories
  BY DEF InGame
<1>7. chan'[h] = chan[h] /\ (peer[h] = "open" => peer' = peer /\ chan'[Other(h)] = Append(chan[Other(h)], x))
  <2> HIDE DEF x
  <2> QED
    BY <1>1, SendAdds
<1>8. peer[h] = "open" => peer' = peer /\ Added(h, Other(h), t)
  <2> HIDE DEF l, t
  <2> QED
    BY <1>1, <1>4, <1>7 DEF Added
<1>9. L = [n.lists EXCEPT ![p] = FrameList(world[h])] /\ l = n.lists[n.current_frame]
  OBVIOUS
<1> HIDE DEF n, l, p, L, m, r, t, x
<1>10. HostOk(e, t, world[h])
  <2>1. CASE Full(n)
    <3>1. HostOk(m, t, world[h])
      BY <1>1, <1>3, <1>4, <1>5, <1>9, <2>1, HostWaits
    <3> QED
      BY <2>1, <3>1
  <2>2. CASE ~ Full(n)
    <3>1. /\ n.at = "run" /\ ~ Full(n) /\ HostOk(n, made[h], world[h])
          /\ made[h] \in AHistory /\ world[h] \in AWorld /\ t \in AHistory
          /\ p = (IF n.current_frame = n.frame_delta - 1 THEN 0 ELSE n.current_frame + 1)
      BY <1>1, <1>3, <2>2
    <3>2. /\ r.at = "run" /\ r.frame_delta = n.frame_delta /\ r.current_frame = p
          /\ r.lists = [n.lists EXCEPT ![p] = FrameList(world[h])] /\ ~ r.frame_buffer_full
          /\ t.frames = made[h].frames + 1 /\ t.past = made[h].past
          /\ t.sent = Append(made[h].sent, n.lists[n.current_frame])
      BY <1>1, <1>4, <1>5, <1>9, <2>2
    <3>3. HostOk(r, t, world[h])
      BY ONLY <3>1, <3>2, HostGoesOn
    <3> QED
      BY <2>2, <3>3
  <2> QED
    BY <2>1, <2>2
<1>11. Histories'
  <2>1. /\ Len(made[h].sent) \in Nat /\ Len(t.sent) = Len(made[h].sent) + 1
        /\ \A j \in 1 .. Len(made[h].sent) : t.sent[j] = made[h].sent[j]
    BY <1>1, <1>3, <1>4, HistoryIs, OneMore
  <2>2. Len(made[h].sent) <= Len(t.sent)
    BY <2>1
  <2> QED
    BY <1>1, <1>4, <1>6, <2>1, <2>2, HistoriesKept
<1>12. Other(h) \in Hosts
  BY TwoHosts
<1>13. Stream(chan'[h], Len(t.past), made[Other(h)].sent)
  BY <1>3, <1>4, <1>7
<1>14. /\ e \in AHost /\ e.mode = net[h].mode /\ e.frame_delta = net[h].frame_delta
       /\ world' = [world EXCEPT ![h] = world[h]]
  BY <1>1, <1>3, <1>5 DEF n
<1> HIDE DEF e
<1> QED
  BY <1>1, <1>3, <1>7, <1>8, <1>10, <1>11, <1>12, <1>13, <1>14, GameStep

\* The lists a host plays are of the same frame; their sync tests agree.
LEMMA ListsAgree ==
  ASSUME NEW m \in AHistory, NEW o \in AHistory, NEW d \in Nat, SyncsOk(m, d), SyncsOk(o, d),
         Same(m, o), NEW j \in Nat, j + 1 <= Len(m.sent), j + 1 <= Len(o.sent)
  PROVE  ~ OutOfSync(m.sent[j + 1], o.sent[j + 1])
<1> DEFINE k == RoundsAt(j, d)
<1>1. Len(m.sent) \in Nat /\ Len(o.sent) \in Nat /\ Len(m.past) \in Nat /\ Len(o.past) \in Nat
  BY HistoryIs
<1>2. j \in 0 .. Len(m.sent) - 1 /\ j \in 0 .. Len(o.sent) - 1
  BY <1>1
<1>3. /\ k <= Len(m.past) /\ m.sent[j + 1].sync = After(m, k)
      /\ k <= Len(o.past) /\ o.sent[j + 1].sync = After(o, k)
  BY <1>2 DEF SyncsOk
<1>4. k \in Nat
  BY DEF RoundsAt
<1> HIDE DEF k
<1>5. After(m, k) = After(o, k)
  <2>1. CASE k = 0
    BY <2>1 DEF After
  <2>2. CASE k # 0
    <3>1. k \in 1 .. Len(m.past)
      BY <1>1, <1>3, <1>4, <2>2
    <3>2. m.past[k] = o.past[k]
      BY <1>3, <3>1 DEF Same
    <3> QED
      BY <2>2, <3>2 DEF After
  <2> QED
    BY <2>1, <2>2
<1> QED
  BY <1>3, <1>5 DEF OutOfSync

\* What a host that plays receives is the next list the other has sent, and in sync with its own.
LEMMA ReceivesNext ==
  ASSUME Types, InGame, NEW h \in Hosts, net[h].at = "events", Got(h, "events"),
         NEW p, p = (IF net[h].current_frame = net[h].frame_delta - 1 THEN 0 ELSE net[h].current_frame + 1)
  PROVE  LET j == Len(made[h].past)
             o == made[Other(h)]
         IN  /\ j \in Nat /\ j + 1 <= Len(made[h].sent) /\ j + 1 <= Len(o.sent)
             /\ net[h].lists[p] = made[h].sent[j + 1] /\ Head(chan[h]).data = o.sent[j + 1]
             /\ Stream(Tail(chan[h]), j + 1, o.sent)
             /\ ~ OutOfSync(net[h].lists[p], Head(chan[h]).data)
<1> DEFINE n == net[h]
           m == made[h]
           o == made[Other(h)]
           j == Len(m.past)
           d == n.frame_delta
<1>1. /\ Playing(h) /\ HostOk(n, m, world[h]) /\ n \in AHost /\ m \in AHistory /\ o \in AHistory
      /\ Stream(chan[h], j, o.sent) /\ chan[h] \in Seq(AMessage)
  BY Plays
<1>2. j \in Nat /\ o.sent \in Seq(AList)
  BY <1>1, HistoryIs
<1>3. chan[h] # <<>> /\ Head(chan[h]).kind = "events"
  BY DEF Got
<1>4. j + 1 <= Len(o.sent) /\ Head(chan[h]).data = o.sent[j + 1] /\ Stream(Tail(chan[h]), j + 1, o.sent)
  <2> HIDE DEF o, j
  <2> QED
    BY <1>1, <1>2, <1>3, StreamReceive
<1>5. j + 1 <= Len(m.sent) /\ n.lists[p] = m.sent[j + 1]
  <2> HIDE DEF n, m, o, d
  <2>1. n.at = "events" /\ p = (IF n.current_frame = d - 1 THEN 0 ELSE n.current_frame + 1)
    BY DEF n, d
  <2> QED
    BY <1>1, <2>1, HostOwn DEF d
<1>6. SyncsOk(m, d) /\ SyncsOk(o, d) /\ Same(m, o) /\ d \in Nat
  <2>1. SyncsOk(m, d)
    BY <1>1 DEF HostOk
  <2>2. SyncsOk(o, d)
    BY <1>1 DEF InGame, GameOf
  <2>3. Same(m, o)
    BY DEF InGame, Histories
  <2>4. d \in Nat
    BY <1>1 DEF AHost
  <2> QED
    BY <2>1, <2>2, <2>3, <2>4
<1> HIDE DEF n, m, o, j, d
<1>7. ~ OutOfSync(m.sent[j + 1], o.sent[j + 1])
  BY <1>1, <1>2, <1>4, <1>5, <1>6, ListsAgree
<1> QED
  BY <1>2, <1>4, <1>5, <1>7 DEF n, m, o, j

\* A host plays a frame.
LEMMA GameReceive ==
  ASSUME Types, InGame, NEW h \in Hosts, network_hook_connected_receive(h)
  PROVE  InGame'
<1> DEFINE n == net[h]
           m == made[h]
           g == Other(h)
           o == made[g]
           j == Len(m.past)
           p == FrameToPlay(n)
           x == Head(chan[h]).data
           w == world[h] \o Order(h, n.lists[p].inputs, x.inputs)
           L == [n.lists EXCEPT ![p] = FrameList(w)]
           e == [n EXCEPT !.current_frame = p, !.lists = L, !.at = "run"]
           t == [m EXCEPT !.frames = @ + 1, !.past = Append(@, w)]
<1>1. /\ n.at = "events" /\ Got(h, "events") /\ Receive(h)
      /\ p = (IF n.current_frame = n.frame_delta - 1 THEN 0 ELSE n.current_frame + 1)
      /\ w \in AWorld /\ e \in AHost /\ t \in AHistory
      /\ (~ OutOfSync(n.lists[p], x) => net' = [net EXCEPT ![h] = e])
      /\ made' = [made EXCEPT ![h] = t] /\ world' = [world EXCEPT ![h] = w]
  BY ReceiveIs
<1>2. /\ Playing(h) /\ HostOk(n, m, world[h]) /\ n \in AHost /\ m \in AHistory /\ o \in AHistory
  BY <1>1, Plays
<1>3. /\ j \in Nat /\ j + 1 <= Len(m.sent) /\ j + 1 <= Len(o.sent)
      /\ n.lists[p] = m.sent[j + 1] /\ x = o.sent[j + 1]
      /\ Stream(Tail(chan[h]), j + 1, o.sent) /\ ~ OutOfSync(n.lists[p], x)
  <2> HIDE DEF p
  <2> QED
    BY <1>1, ReceivesNext
<1>4. /\ t.frames = m.frames + 1 /\ t.sent = m.sent /\ t.past = Append(m.past, w)
  <2> HIDE DEF w, m
  <2> QED
    BY <1>2 DEF AHistory
<1>5. /\ e.at = "run" /\ e.frame_delta = n.frame_delta /\ e.current_frame = p
      /\ e.lists = L /\ e.mode = n.mode /\ (e.frame_buffer_full <=> n.frame_buffer_full)
  <2> HIDE DEF L, p
  <2> QED
    BY <1>2 DEF AHost
<1>6. Histories /\ Len(t.past) = j + 1
  <2> HIDE DEF w, t
  <2>1. m.past \in Seq(AWorld)
    BY <1>2, HistoryIs
  <2> HIDE DEF m
  <2>2. Len(Append(m.past, w)) = Len(m.past) + 1
    BY <1>1, <2>1, OneMore
  <2> QED
    BY <1>4, <2>2 DEF InGame
<1>7. chan'[h] = Tail(chan[h]) /\ chan'[g] = chan[g] /\ peer' = peer /\ chan[h] # <<>>
  BY <1>1, ReceiveTakes DEF Got
<1>8. RoundIs(w, m, made[Server], made[Client]) /\ g \in Hosts
  <2>1. (h = Server /\ g = Client) \/ (h = Client /\ g = Server)
    BY TwoHosts
  <2>2. world[h] = After(m, j)
    BY <1>2 DEF HostOk
  <2>3. w = After(m, j) \o Order(h, m.sent[j + 1].inputs, o.sent[j + 1].inputs)
    BY <1>3, <2>2
  <2>4. Order(h, m.sent[j + 1].inputs, o.sent[j + 1].inputs)
          = made[Server].sent[j + 1].inputs \o made[Client].sent[j + 1].inputs
    BY <2>1, TwoHosts DEF Order
  <2> HIDE DEF w
  <2> QED
    BY <1>3, <2>1, <2>3, <2>4, TwoHosts DEF RoundIs
<1>9. L = [n.lists EXCEPT ![p] = FrameList(w)]
  OBVIOUS
<1> HIDE DEF n, L, p, w, e, t, x, j
<1>10. HostOk(e, t, w)
  <2> HIDE DEF m
  <2>1. /\ n.at = "events" /\ HostOk(n, m, world[h]) /\ m \in AHistory /\ t \in AHistory /\ w \in AWorld
        /\ p = (IF n.current_frame = n.frame_delta - 1 THEN 0 ELSE n.current_frame + 1)
    BY <1>1, <1>2
  <2>2. /\ e.at = "run" /\ e.frame_delta = n.frame_delta /\ e.current_frame = p
        /\ e.lists = [n.lists EXCEPT ![p] = FrameList(w)]
        /\ (e.frame_buffer_full <=> n.frame_buffer_full)
        /\ t.frames = m.frames + 1 /\ t.sent = m.sent /\ t.past = Append(m.past, w)
    BY <1>4, <1>5, <1>9
  <2> QED
    BY ONLY <2>1, <2>2, HostPlays
<1>11. Histories'
  BY <1>1, <1>4, <1>6, <1>8, HistoriesGrow DEF Extended
<1>12. Stream(chan'[h], Len(t.past), o.sent)
  BY <1>3, <1>6, <1>7
<1>13. Added(h, g, t)
  BY <1>4, <1>7 DEF Added
<1>14. net' = [net EXCEPT ![h] = e] /\ e.mode = net[h].mode /\ e.frame_delta = net[h].frame_delta
  BY <1>1, <1>3, <1>5 DEF n
<1> QED
  BY <1>1, <1>2, <1>7, <1>8, <1>10, <1>11, <1>12, <1>13, <1>14, GameStep

-----------------------------------------------------------------------------
(* Before and after the game *)

\* network_connected, of a mode.
Connected(mode) == mode \in {"SERVER_CONNECTED", "CLIENT"}

\* A step to a host e that does not play, whatever it was before.
Left(h, e) ==
  /\ net' = [net EXCEPT ![h] = e] /\ e.at \notin {"test", "events"}
  /\ ~ Connected(e.mode) \/ (e.at = "no lists" /\ e.mode = net[h].mode /\ peer[h] # "open")
  /\ chan'[Other(h)] = chan[Other(h)] /\ world' = world /\ made' = made

\* It keeps the game what it is.
LEMMA GameLeft ==
  ASSUME Types, InGame, NEW h \in Hosts, NEW e, Left(h, e)
  PROVE  InGame'
<1> DEFINE g == Other(h)
<1>0. /\ Server \in Hosts /\ Client \in Hosts /\ g \in Hosts /\ h # g
      /\ ((h = Server /\ g = Client) \/ (h = Client /\ g = Server))
      /\ \A k \in Hosts : k = h \/ k = g
  BY TwoHosts
<1>1. /\ net'[h] = e /\ net'[g] = net[g] /\ chan'[g] = chan[g] /\ world' = world /\ made' = made
      /\ e.at \notin {"test", "events"}
      /\ ~ Connected(e.mode) \/ (e.at = "no lists" /\ e.mode = net[h].mode /\ peer[h] # "open")
  BY <1>0 DEF Types, Left
<1>2. Histories /\ GameOf(g) /\ ServerWaits /\ ClientWaits /\ Together
  BY <1>0 DEF InGame
<1>3. ~ Playing(h)'
  BY <1>1 DEF Playing, network_connected, Connected
<1>4. ~ (network_connected(Server)' /\ network_connected(Client)')
  <2>1. CASE ~ Connected(e.mode)
    BY <1>0, <1>1, <2>1 DEF network_connected, Connected
  <2>2. CASE e.mode = net[h].mode /\ peer[h] # "open"
    <3>1. /\ network_connected(Server)' <=> network_connected(Server)
          /\ network_connected(Client)' <=> network_connected(Client)
      BY <1>0, <1>1, <2>2 DEF network_connected
    <3>2. ~ (network_connected(Server) /\ network_connected(Client))
      BY <1>2, <2>2 DEF Together
    <3> QED
      BY <3>1, <3>2
  <2> QED
    BY <1>1, <2>1, <2>2
<1>5. \A k \in Hosts : GameOf(k)'
  <2>1. GameOf(h)'
    BY <1>3 DEF GameOf
  <2>2. GameOf(g)'
    BY <1>1, <1>2 DEF GameOf, Playing, network_connected
  <2> QED
    BY <1>0, <2>1, <2>2
<1>6. ServerWaits' /\ ClientWaits'
  BY <1>0, <1>1, <1>2 DEF ServerWaits, ClientWaits, Got
<1>7. Histories' /\ Together'
  BY <1>1, <1>2, <1>4 DEF Histories, Together
<1> QED
  BY <1>5, <1>6, <1>7 DEF InGame

\* A host leaves the game.
LEMMA LeavesIs ==
  ASSUME Types, NEW h \in Hosts, SendFails(h) \/ Leave(h) \/ RecvFails(h)
  PROVE  \E e : Left(h, e)
<1> DEFINE n == net[h]
           g == Other(h)
           d == n.frame_delta
<1>0. n \in AHost /\ n.mode \in Modes(h) /\ RingOk(n) /\ net \in [Hosts -> AHost] /\ g \in Hosts /\ g # h
  BY TwoHosts DEF Types
<1>1. world' = world /\ made' = made /\ chan'[g] = chan[g]
  BY <1>0 DEF SendFails, Leave, RecvFails, Types
<1>2. CASE SendFails(h)
  <2> DEFINE e == network_disconnect(n)
             f == network_disconnect(e)
             w == world[h]
             r == NextFrame(e, w)
             q == IF e.frame_buffer_full \/ e.current_frame = e.frame_delta - 1 THEN f ELSE r
  <2>1. net' = [net EXCEPT ![h] = q]
    BY <1>2 DEF SendFails
  <2>2. /\ n.lists \in [0 .. d - 1 -> AList] /\ d \in Deltas /\ n.current_frame \in 0 .. d - 1
    BY <1>2, RingOfPlayer DEF SendFails
  <2>3. /\ e \in AHost /\ e.mode \notin {"SERVER_CONNECTED", "CLIENT"} /\ e.mode \in Modes(h)
        /\ e.frame_delta = d /\ e.current_frame = n.current_frame /\ e.lists = n.lists
    BY <1>0, DisconnectTypes
  <2>4. w \in AWorld
    BY DEF Types
  <2> HIDE DEF n, e, w
  <2>5. f.mode \notin {"SERVER_CONNECTED", "CLIENT"} /\ f.at = "run"
    BY <2>3, DisconnectTypes
  <2>6. r.mode = e.mode /\ r.at = "run"
    <3>1. r = [e EXCEPT !.current_frame = FrameToPlay(e),
                        !.lists = [e.lists EXCEPT ![FrameToPlay(e)] = FrameList(w)], !.at = "run"]
      BY <2>2, <2>3, <2>4, NextFrameIs
    <3> QED
      BY <2>3, <3>1 DEF AHost
  <2> HIDE DEF f, r
  <2>7. q.at = "run" /\ ~ Connected(q.mode)
    BY <2>3, <2>5, <2>6 DEF Connected
  <2> HIDE DEF q
  <2> QED
    BY <1>1, <2>1, <2>7 DEF Left
<1>3. CASE Leave(h)
  <2> DEFINE q == [n EXCEPT !.mode = "IDLE", !.at = "gone"]
  <2>1. net' = [net EXCEPT ![h] = q]
    BY <1>0, <1>3 DEF Leave
  <2>2. q.at = "gone" /\ ~ Connected(q.mode)
    BY <1>0 DEF AHost, Connected
  <2> HIDE DEF q
  <2> QED
    BY <1>1, <2>1, <2>2 DEF Left
<1>4. CASE RecvFails(h)
  <2>1. CASE net' = [net EXCEPT ![h] = network_disconnect(@)]
    <3> DEFINE e == network_disconnect(n)
    <3>1. e.at = "run" /\ ~ Connected(e.mode)
      BY <1>0, DisconnectTypes DEF Connected
    <3>2. net' = [net EXCEPT ![h] = e]
      BY <2>1
    <3> HIDE DEF e
    <3> QED
      BY <1>1, <3>1, <3>2 DEF Left
  <2>2. CASE net' = [net EXCEPT ![h].at = "no lists"]
    <3> DEFINE q == [n EXCEPT !.at = "no lists"]
    <3>1. net' = [net EXCEPT ![h] = q]
      BY <1>0, <2>2
    <3>2. q.at = "no lists" /\ q.mode = n.mode /\ peer[h] # "open"
      BY <1>0, <1>4 DEF AHost, RecvFails
    <3> HIDE DEF q
    <3> QED
      BY <1>1, <3>1, <3>2 DEF Left
  <2>3. CASE n.at = "snapshot" /\ net' = [net EXCEPT ![h].at = "run"]
    <3> DEFINE q == [n EXCEPT !.at = "run"]
    <3>1. net' = [net EXCEPT ![h] = q]
      BY <1>0, <2>3
    <3>2. q.at = "run" /\ ~ Connected(q.mode)
      BY <1>0, <2>3 DEF AHost, RingOk, Connected
    <3> HIDE DEF q
    <3> QED
      BY <1>1, <3>1, <3>2 DEF Left
  <2> QED
    BY <1>4, <2>1, <2>2, <2>3 DEF RecvFails
<1> QED
  BY <1>2, <1>3, <1>4

\* which keeps it what it is.
LEMMA GameLeaves ==
  ASSUME Types, InGame, NEW h \in Hosts, SendFails(h) \/ Leave(h) \/ RecvFails(h)
  PROVE  InGame'
BY LeavesIs, GameLeft

\* The server is started, or the client cannot read the snapshot.
LEMMA UnmadeIs ==
  ASSUME Types, Fresh, network_start_server \/ SnapshotFails
  PROVE  \E h \in Hosts : \E e : Left(h, e)
<1>0. /\ Server \in Hosts /\ Client \in Hosts /\ Other(Client) # Client
      /\ \A h \in Hosts : net[h] \in AHost /\ RingOk(net[h])
      /\ net \in [Hosts -> AHost] /\ chan \in [Hosts -> Seq(AMessage)]
  BY TwoHosts DEF Types
<1>1. CASE network_start_server
  <2> DEFINE q == [net[Server] EXCEPT !.mode = "SERVER"]
  <2>1. net' = [net EXCEPT ![Server] = q] /\ chan' = chan /\ world' = world /\ made' = made
    BY <1>0, <1>1 DEF network_start_server
  <2>2. net[Server].at = "run"
    BY <1>0, <1>1 DEF network_start_server, Fresh
  <2>3. q.at = "run" /\ ~ Connected(q.mode)
    BY <1>0, <2>2 DEF AHost, Connected
  <2> HIDE DEF q
  <2> QED
    BY <1>0, <2>1, <2>3 DEF Left
<1>2. CASE SnapshotFails
  <2> DEFINE q == [net[Client] EXCEPT !.at = "run"]
  <2>1. net' = [net EXCEPT ![Client] = q] /\ world' = world /\ made' = made
    BY <1>0, <1>2 DEF SnapshotFails
  <2>2. chan'[Other(Client)] = chan[Other(Client)]
    BY <1>0, <1>2, ReceiveTakes DEF SnapshotFails
  <2>3. q.at = "run" /\ ~ Connected(q.mode)
    BY <1>0, <1>2 DEF AHost, Connected, SnapshotFails, RingOk
  <2> HIDE DEF q
  <2> QED
    BY <1>0, <2>1, <2>2, <2>3 DEF Left
<1> QED
  BY <1>1, <1>2

\* which keeps the game what it is.
LEMMA GameUnmade ==
  ASSUME Types, Fresh, InGame, network_start_server \/ SnapshotFails
  PROVE  InGame'
BY UnmadeIs, GameLeft

\* They connect.
LEMMA GameConnect ==
  ASSUME Types, Fresh, InGame, network_connect_client
  PROVE  InGame'
<1>0. /\ Server \in Hosts /\ Client \in Hosts /\ Server # Client /\ \A h \in Hosts : h = Server \/ h = Client
      /\ \A h \in Hosts : net[h] \in AHost
      /\ net \in [Hosts -> AHost] /\ chan \in [Hosts -> Seq(AMessage)]
  BY TwoHosts DEF Types
<1>1. /\ ~ network_connected(Client) /\ chan[Server] = <<>> /\ world[Server] = Own(Server)
      /\ \A h \in Hosts : made[h] = Nothing
  BY <1>0 DEF network_connect_client, Fresh
<1>2. /\ net'[Client].at = "snapshot" /\ net'[Client].mode = net[Client].mode
      /\ net'[Server].at = "test" /\ chan'[Server] = chan[Server] /\ world' = world /\ made' = made
  BY <1>0 DEF network_connect_client, AHost
<1>3. Histories'
  BY <1>2 DEF InGame, Histories
<1>4. \A h \in Hosts : GameOf(h)'
  BY <1>0, <1>2 DEF GameOf, Playing
<1>5. ServerWaits' /\ ClientWaits' /\ Together'
  BY <1>0, <1>1, <1>2 DEF ServerWaits, ClientWaits, Together, network_connected, Own, Nothing
<1> QED
  BY <1>3, <1>4, <1>5 DEF InGame

\* The client has read the snapshot.
LEMMA GameJoin ==
  ASSUME Types, Joining, InGame, network_client_connect_trap
  PROVE  InGame'
<1>0. /\ Server \in Hosts /\ Client \in Hosts /\ Server # Client /\ \A h \in Hosts : h = Server \/ h = Client
      /\ Other(Client) = Server /\ Other(Server) = Client
      /\ \A h \in Hosts : net[h] \in AHost
      /\ net \in [Hosts -> AHost] /\ world \in [Hosts -> AWorld]
  BY TwoHosts DEF Types, Other
<1>1. /\ chan[Client] = <<Msg("snapshot", Own(Server)), Msg("test", 0)>>
      /\ world[Server] = Own(Server) /\ \A h \in Hosts : made[h] = Nothing
      /\ network_connected(Server) =>
           net[Server].at = "test" /\ chan[Server] = <<>> /\ peer = [h \in Hosts |-> "open"]
  BY DEF Joining, network_client_connect_trap
<1>2. /\ Receive(Client) /\ made' = made /\ world'[Client] = Head(chan[Client]).data
      /\ net'[Server] = net[Server] /\ net'[Client].at = "test"
  BY <1>0 DEF network_client_connect_trap, AHost
<1>3. chan'[Client] = Tail(chan[Client]) /\ chan'[Server] = chan[Server] /\ peer' = peer
  BY <1>0, <1>2, ReceiveTakes
<1>4. chan'[Client] = <<Msg("test", 0)>> /\ world'[Client] = Own(Server) /\ world'[Server] = world[Server]
  <2> DEFINE a == Msg("snapshot", Own(Server))
             b == Msg("test", 0)
  <2>1. a.data = Own(Server)
    BY DEF Msg
  <2> HIDE DEF a, b
  <2>2. Head(<<a, b>>) = a /\ Tail(<<a, b>>) = <<b>>
    OBVIOUS
  <2>3. world'[Server] = world[Server]
    BY <1>0 DEF network_client_connect_trap
  <2> QED
    BY <1>1, <1>2, <1>3, <2>1, <2>2, <2>3 DEF a, b
<1>5. Histories'
  BY <1>2 DEF InGame, Histories
<1>6. \A h \in Hosts : GameOf(h)'
  <2>1. GameOf(Client)'
    BY <1>2 DEF GameOf, Playing
  <2>2. ~ Playing(Server)
    BY <1>1 DEF Playing
  <2>3. GameOf(Server)'
    BY <1>2, <2>2 DEF GameOf, Playing, network_connected
  <2> QED
    BY <1>0, <2>1, <2>3
<1>7. ServerWaits'
  BY <1>0, <1>1, <1>2, <1>3, <1>4 DEF InGame, ServerWaits, Own, Nothing
<1>8. ClientWaits'
  BY <1>0, <1>1, <1>2, <1>4 DEF ClientWaits, Own, Nothing, Msg
<1>9. Together'
  <2> SUFFICES ASSUME network_connected(Server)'
               PROVE  peer' = [h \in Hosts |-> "open"] /\ Testing'
    BY DEF Together
  <2>1. network_connected(Server)
    BY <1>2 DEF network_connected
  <2>2. peer' = [h \in Hosts |-> "open"] /\ net'[Server].at = "test" /\ chan'[Server] = <<>>
    BY <1>1, <1>2, <1>3, <2>1
  <2>3. Testing'
    <3>1. \A h \in Hosts : net'[h].at = "test"
      BY <1>0, <1>2, <2>2
    <3>2. chan'[Client] = <<Msg("test", 0)>> /\ chan'[Other(Client)] = <<>>
      BY <1>0, <1>4, <2>2
    <3> QED
      BY <1>0, <3>1, <3>2 DEF Testing, Msg
  <2> QED
    BY <2>2, <2>3
<1> QED
  BY <1>5, <1>6, <1>7, <1>8, <1>9 DEF InGame

\* Answering.
LEMMA AnswerIs ==
  ASSUME Types, NEW h \in Hosts, NEW x \in AMessage, chan[h] # <<>>, Answer(h, x)
  PROVE  /\ chan'[h] = Tail(chan[h])
         /\ peer[h] = "open" => peer' = peer /\ chan'[Other(h)] = Append(chan[Other(h)], x)
         /\ peer[h] # "open" => chan'[Other(h)] = chan[Other(h)]
<1>1. Other(h) \in Hosts /\ Other(h) # h
  BY TwoHosts
<1>2. chan \in [Hosts -> Seq(AMessage)]
  BY DEF Types
<1>3. CASE peer[h] = "open"
  <2>1. chan' = [chan EXCEPT ![h] = Tail(@), ![Other(h)] = Append(@, x)] /\ peer' = peer
    BY <1>3 DEF Answer
  <2>2. chan'[h] = Tail(chan[h]) /\ chan'[Other(h)] = Append(chan[Other(h)], x)
    BY <1>1, <1>2, <2>1
  <2> QED
    BY <1>3, <2>1, <2>2
<1>4. CASE peer[h] # "open"
  <2>1. chan' = [chan EXCEPT ![h] = Tail(@)]
    BY <1>4 DEF Answer
  <2> QED
    BY <1>1, <1>2, <1>4, <2>1
<1> QED
  BY <1>3, <1>4

\* Two hosts that measure, and what is on the way.
LEMMA Measured ==
  ASSUME Types, InGame, NEW h \in Hosts, net[h].at = "test", network_connected(Other(h))
  PROVE  /\ network_connected(h) /\ peer = [k \in Hosts |-> "open"]
         /\ Got(h, "test") => Testing /\ chan[h] = <<Msg("test", 0)>> /\ chan[Other(h)] = <<>>
         /\ Got(h, "delta") => ToldLast /\ h = Client
<1>0. /\ Server \in Hosts /\ Client \in Hosts /\ Server # Client
      /\ Other(h) \in Hosts /\ h # Other(h) /\ Other(Other(h)) = h
      /\ ((h = Server /\ Other(h) = Client) \/ (h = Client /\ Other(h) = Server))
  BY TwoHosts DEF Other
<1>1. network_connected(h)
  BY DEF Types, RingOk, network_connected
<1>2. network_connected(Server) /\ network_connected(Client)
  BY <1>0, <1>1
<1>3. peer = [k \in Hosts |-> "open"] /\ (Testing \/ ToldLast \/ Underway)
  BY <1>2 DEF InGame, Together
<1>4. ~ Underway
  BY <1>0 DEF Underway, Playing
<1>5. Head(<<Msg("test", 0)>>).kind = "test"
  BY DEF Msg
<1>6. ToldLast => ~ Got(h, "test") /\ h = Client
  BY <1>0 DEF ToldLast, Got, Playing
<1>7. ASSUME Testing, chan[h] # <<>>
      PROVE  chan[h] = <<Msg("test", 0)>> /\ chan[Other(h)] = <<>> /\ ~ Got(h, "delta")
  <2>1. PICK k \in Hosts : chan[k] = <<Msg("test", 0)>> /\ chan[Other(k)] = <<>>
    BY <1>7 DEF Testing
  <2>2. k = h
    BY <1>0, <1>7, <2>1, TwoHosts
  <2> QED
    BY <1>5, <2>1, <2>2 DEF Got
<1> QED
  BY <1>1, <1>3, <1>4, <1>6, <1>7 DEF Got

\* The client answers a test packet.
LEMMA GameEcho ==
  ASSUME Types, InGame, ClientEchoes
  PROVE  InGame'
<1> DEFINE x == Msg("test", 0)
           n == net[Client]
           e == [n EXCEPT !.tests = @ + 1]
<1>0. /\ Server \in Hosts /\ Client \in Hosts /\ Server # Client /\ \A h \in Hosts : h = Server \/ h = Client
      /\ Other(Client) = Server /\ Other(Server) = Client
      /\ net \in [Hosts -> AHost] /\ n \in AHost
  BY TwoHosts DEF Types, Other
<1>1. /\ n.at = "test" /\ Got(Client, "test") /\ chan[Client] # <<>> /\ Answer(Client, x)
      /\ net' = [net EXCEPT ![Client] = e] /\ world' = world /\ made' = made
  BY <1>0 DEF ClientEchoes, Got
<1>2. /\ net'[Server] = net[Server] /\ net'[Client].at = "test" /\ net'[Client].mode = n.mode
      /\ x \in AMessage
  <2>1. e.at = "test" /\ e.mode = n.mode
    BY <1>0, <1>1 DEF AHost
  <2>2. x \in AMessage
    BY DEF Msg, AMessage
  <2> HIDE DEF e, n, x
  <2> QED
    BY <1>0, <1>1, <2>1, <2>2
<1>3. /\ chan'[Client] = Tail(chan[Client])
      /\ (peer[Client] = "open" => peer' = peer /\ chan'[Server] = Append(chan[Server], x))
      /\ (peer[Client] # "open" => chan'[Server] = chan[Server])
  <2> HIDE DEF x
  <2> QED
    BY <1>0, <1>1, <1>2, AnswerIs
<1>4. chan[Client] = <<x>> /\ world[Client] = Own(Server) /\ made[Client] = Nothing /\ made[Server] = Nothing
  <2>1. ~ Got(Client, "delta")
    BY <1>1 DEF Got
  <2> QED
    BY <1>1, <2>1 DEF InGame, ClientWaits
<1>5. chan'[Client] = <<>>
  BY <1>3, <1>4
<1>6. ASSUME network_connected(Server)
      PROVE  /\ peer = [h \in Hosts |-> "open"] /\ peer' = peer /\ net[Server].at = "test"
             /\ chan'[Server] = <<x>>
  <2>1. peer = [h \in Hosts |-> "open"] /\ Testing /\ chan[Server] = <<>>
    BY <1>0, <1>1, <1>6, Measured
  <2> HIDE DEF x
  <2> QED
    BY <1>0, <1>3, <2>1 DEF Testing
<1>7. Histories'
  BY <1>1 DEF InGame, Histories
<1>8. \A h \in Hosts : GameOf(h)'
  <2>1. ~ Playing(Server) /\ ~ Playing(Client)'
    BY <1>2, <1>6 DEF Playing
  <2>2. ~ Playing(Server)'
    BY <1>2, <2>1 DEF Playing, network_connected
  <2> QED
    BY <1>0, <2>1, <2>2 DEF GameOf
<1>9. ServerWaits'
  <2> SUFFICES ASSUME net[Server].at = "test"
               PROVE  /\ world[Server] = Own(Server) /\ \A h \in Hosts : made[h] = Nothing
                      /\ chan'[Server] = <<x>>
    BY <1>1, <1>2 DEF ServerWaits, Own, Nothing, Msg
  <2>1. network_connected(Server)
    BY <1>0 DEF Types, RingOk, network_connected
  <2> QED
    BY <1>6, <2>1 DEF InGame, ServerWaits
<1>10. ClientWaits'
  BY <1>1, <1>4, <1>5 DEF ClientWaits, Own, Nothing
<1>11. Together'
  <2> SUFFICES ASSUME network_connected(Server)'
               PROVE  peer' = [h \in Hosts |-> "open"] /\ Testing'
    BY DEF Together
  <2>1. network_connected(Server)
    BY <1>2 DEF network_connected
  <2>2. \A h \in Hosts : net'[h].at = "test"
    BY <1>0, <1>2, <1>6, <2>1
  <2>3. chan'[Server] = <<x>> /\ chan'[Other(Server)] = <<>>
    BY <1>0, <1>5, <1>6, <2>1
  <2> QED
    BY <1>0, <1>6, <2>1, <2>2, <2>3 DEF Testing, Msg
<1> QED
  BY <1>7, <1>8, <1>9, <1>10, <1>11 DEF InGame

\* A host that has just made its event lists.
LEMMA HostFresh ==
  ASSUME Types, NEW h \in Hosts, NEW d \in Deltas
  PROVE  LET e == InitFrames(h, d, Own(Server))
         IN  /\ e \in AHost /\ e.mode = net[h].mode /\ e.at = "run" /\ e.frame_delta = d
             /\ HostOk(e, Nothing, Own(Server)) /\ SyncsOk(Nothing, d)
<1> DEFINE w == Own(Server)
           e == InitFrames(h, d, w)
           m == Nothing
<1>1. w \in AWorld /\ d \in Nat /\ d >= 1
  <2>1. Msg("own", Server) \in [kind : {"own"}, data : Hosts]
    BY TwoHosts DEF Msg
  <2>2. d \in Nat \ {0}
    BY NetAssumption DEF Deltas
  <2> QED
    BY <2>1, <2>2 DEF Own, AWorld
<1>2. /\ m.frames = 0 /\ m.sent = <<>> /\ m.past = <<>> /\ Len(m.sent) = 0 /\ Len(m.past) = 0
  BY DEF Nothing
<1> HIDE DEF w, m
<1>3. /\ e \in AHost /\ e.mode = net[h].mode /\ e.at = "run"
      /\ e.frame_delta = d /\ e.current_frame = 0 /\ ~ e.frame_buffer_full
      /\ \A i \in 0 .. d - 1 : e.lists[i] = FrameList(IF i = 0 THEN w ELSE <<>>)
      /\ e.lists \in [0 .. d - 1 -> AList]
  BY <1>1, InitFramesIs
<1> HIDE DEF e
<1>4. SyncsOk(m, d)
  BY <1>2 DEF SyncsOk
<1>5. RoundsAt(0, d) = 0 /\ 0 \in 0 .. d - 1
  BY <1>1 DEF RoundsAt
<1>6. \A i \in 0 .. d - 1 : ~ (FrameOf(i, 0, 0, d) >= 0 /\ FrameOf(i, 0, 0, d) < 0)
  BY <1>1 DEF FrameOf
<1>7. e.lists[0].sync = w
  <2>1. e.lists[0] = FrameList(w)
    BY <1>3, <1>5
  <2> QED
    BY <2>1 DEF FrameList
<1>8. w = After(m, 0)
  BY DEF After, w
<1>9. HostOk(e, m, w)
  BY <1>1, <1>2, <1>3, <1>4, <1>5, <1>6, <1>7, <1>8 DEF HostOk
<1> QED
  BY <1>3, <1>4, <1>9 DEF e, w, m

\* The server gets back a test packet and sends another.
LEMMA GameMeasure ==
  ASSUME Types, InGame, ServerMeasures, net[Server].tests < NUM_OF_TESTPACKETS
  PROVE  InGame'
<1> DEFINE x == Msg("test", 0)
           n == net[Server]
           e == [n EXCEPT !.tests = @ + 1]
<1>0. /\ Server \in Hosts /\ Client \in Hosts /\ Server # Client /\ \A h \in Hosts : h = Server \/ h = Client
      /\ Other(Client) = Server /\ Other(Server) = Client
      /\ net \in [Hosts -> AHost] /\ n \in AHost
  BY TwoHosts DEF Types, Other
<1>1. /\ n.at = "test" /\ Got(Server, "test") /\ chan[Server] # <<>> /\ Answer(Server, x)
      /\ net' = [net EXCEPT ![Server] = e] /\ world' = world /\ made' = made
  BY <1>0 DEF ServerMeasures, Got
<1>2. /\ net'[Client] = net[Client] /\ net'[Server].at = "test" /\ net'[Server].mode = n.mode
      /\ x \in AMessage
  <2>1. e.at = "test" /\ e.mode = n.mode
    BY <1>0, <1>1 DEF AHost
  <2>2. x \in AMessage
    BY DEF Msg, AMessage
  <2> HIDE DEF e, n, x
  <2> QED
    BY <1>0, <1>1, <2>1, <2>2
<1>3. /\ chan'[Server] = Tail(chan[Server])
      /\ (peer[Server] = "open" => peer' = peer /\ chan'[Client] = Append(chan[Client], x))
      /\ (peer[Server] # "open" => chan'[Client] = chan[Client])
  <2> HIDE DEF x
  <2> QED
    BY <1>0, <1>1, <1>2, AnswerIs
<1>4. chan[Server] = <<x>> /\ world[Server] = Own(Server) /\ \A h \in Hosts : made[h] = Nothing
  BY <1>1 DEF InGame, ServerWaits
<1>5. chan'[Server] = <<>>
  BY <1>3, <1>4
<1>6. ASSUME network_connected(Client)
      PROVE  /\ peer = [h \in Hosts |-> "open"] /\ peer' = peer /\ net[Client].at = "test"
             /\ chan'[Client] = <<x>>
  <2>1. peer = [h \in Hosts |-> "open"] /\ Testing /\ chan[Client] = <<>>
    BY <1>0, <1>1, <1>6, Measured
  <2> HIDE DEF x
  <2> QED
    BY <1>0, <1>3, <2>1 DEF Testing
<1>7. Histories'
  BY <1>1 DEF InGame, Histories
<1>8. \A h \in Hosts : GameOf(h)'
  <2>1. ~ Playing(Client) /\ ~ Playing(Server)'
    BY <1>2, <1>6 DEF Playing
  <2>2. ~ Playing(Client)'
    BY <1>2, <2>1 DEF Playing, network_connected
  <2> QED
    BY <1>0, <2>1, <2>2 DEF GameOf
<1>9. ServerWaits'
  BY <1>1, <1>4, <1>5 DEF ServerWaits, Own, Nothing
<1>10. ClientWaits'
  <2> SUFFICES ASSUME net[Client].at = "test"
               PROVE  /\ world[Client] = Own(Server) /\ made[Client] = Nothing
                      /\ chan'[Client] = <<x>>
    <3>1. made'[Server] = Nothing
      BY <1>0, <1>1, <1>4
    <3> QED
      BY <1>1, <1>2, <3>1 DEF ClientWaits, Own, Nothing, Msg
  <2>1. network_connected(Client)
    BY <1>0 DEF Types, RingOk, network_connected
  <2> QED
    BY <1>6, <2>1 DEF InGame, ClientWaits
<1>11. Together'
  <2> SUFFICES ASSUME network_connected(Client)'
               PROVE  peer' = [h \in Hosts |-> "open"] /\ Testing'
    BY DEF Together
  <2>1. network_connected(Client)
    BY <1>2 DEF network_connected
  <2>2. \A h \in Hosts : net'[h].at = "test"
    BY <1>0, <1>2, <1>6, <2>1
  <2>3. chan'[Client] = <<x>> /\ chan'[Other(Client)] = <<>>
    BY <1>0, <1>5, <1>6, <2>1
  <2> QED
    BY <1>0, <1>6, <2>1, <2>2, <2>3 DEF Testing, Msg
<1> QED
  BY <1>7, <1>8, <1>9, <1>10, <1>11 DEF InGame

\* The server has measured, tells the client and begins.
LEMMA GameBegin ==
  ASSUME Types, InGame, ServerMeasures, ~ (net[Server].tests < NUM_OF_TESTPACKETS)
  PROVE  InGame'
<1>0. /\ Server \in Hosts /\ Client \in Hosts /\ Server # Client /\ \A h \in Hosts : h = Server \/ h = Client
      /\ Other(Client) = Server /\ Other(Server) = Client /\ net \in [Hosts -> AHost]
  BY TwoHosts DEF Types, Other
<1>1. PICK d \in Deltas : /\ net' = [net EXCEPT ![Server] = InitFrames(Server, d, world[Server])]
                               /\ Answer(Server, Msg("delta", d))
  BY DEF ServerMeasures, Deltas
<1> DEFINE x == Msg("delta", d)
           e == InitFrames(Server, d, Own(Server))
<1>2. /\ net[Server].at = "test" /\ Got(Server, "test") /\ chan[Server] # <<>>
      /\ world' = world /\ made' = made
  BY DEF ServerMeasures, Got
<1>3. chan[Server] = <<Msg("test", 0)>> /\ world[Server] = Own(Server) /\ \A h \in Hosts : made[h] = Nothing
  BY <1>2 DEF InGame, ServerWaits
<1>4. x \in AMessage /\ x.kind = "delta" /\ x.data = d
  BY DEF Msg, AMessage
<1>5. /\ e \in AHost /\ e.mode = net[Server].mode /\ e.at = "run" /\ e.frame_delta = d
      /\ HostOk(e, Nothing, Own(Server)) /\ SyncsOk(Nothing, d)
  BY <1>0, HostFresh
<1>6. network_connected(Server)
  BY <1>0, <1>2 DEF Types, RingOk, network_connected
<1> HIDE DEF x, e
<1>7. net'[Server] = e /\ net'[Client] = net[Client]
  BY <1>0, <1>1, <1>3 DEF e
<1>8. /\ chan'[Server] = Tail(chan[Server])
      /\ (peer[Server] = "open" => peer' = peer /\ chan'[Client] = Append(chan[Client], x))
  BY <1>0, <1>1, <1>2, <1>4, AnswerIs DEF x
<1>9. chan'[Server] = <<>>
  BY <1>3, <1>8
<1>10. ASSUME network_connected(Client)
       PROVE  /\ peer' = [h \in Hosts |-> "open"] /\ net[Client].at = "test" /\ chan'[Client] = <<x>>
  <2>1. peer = [h \in Hosts |-> "open"] /\ Testing /\ chan[Client] = <<>>
    BY <1>0, <1>2, <1>10, Measured
  <2> QED
    BY <1>0, <1>8, <2>1 DEF Testing
<1>11. Stream(<<>>, 0, <<>>) /\ Nothing.sent = <<>> /\ Len(Nothing.past) = 0
  <2>1. <<>> \in Seq(AList) /\ 0 \in Nat
    OBVIOUS
  <2>2. Stream(<<>>, 0, <<>>)
    BY <2>1, StreamEmpty
  <2> QED
    BY <2>2 DEF Nothing
<1>12. Histories'
  BY <1>2 DEF InGame, Histories
<1>13. Playing(Server)'
  BY <1>5, <1>6, <1>7 DEF Playing, network_connected
<1>14. \A h \in Hosts : GameOf(h)'
  <2>1. ~ Playing(Client)
    BY <1>10 DEF Playing
  <2>2. GameOf(Client)'
    BY <1>7, <2>1 DEF GameOf, Playing, network_connected
  <2>3. GameOf(Server)'
    <3>1. /\ HostOk(net'[Server], made'[Server], world'[Server])
          /\ Stream(chan'[Server], Len(made'[Server].past), made'[Other(Server)].sent)
          /\ SyncsOk(made'[Other(Server)], net'[Server].frame_delta)
      BY <1>0, <1>2, <1>3, <1>5, <1>7, <1>9, <1>11
    <3> QED
      BY <3>1 DEF GameOf
  <2> QED
    BY <1>0, <2>2, <2>3
<1>15. ServerWaits'
  BY <1>5, <1>7 DEF ServerWaits
<1>16. Head(<<x>>) = x /\ Tail(<<x>>) = <<>> /\ <<x>> # <<>>
  OBVIOUS
<1>17. ClientWaits'
  <2> SUFFICES ASSUME net[Client].at = "test"
               PROVE  /\ world[Client] = Own(Server) /\ made[Client] = Nothing
                      /\ Got(Client, "delta")' /\ SyncsOk(made[Server], Head(chan'[Client]).data)
                      /\ Stream(Tail(chan'[Client]), 0, made[Server].sent)
    BY <1>2, <1>7 DEF ClientWaits, Own, Nothing, Msg
  <2>1. network_connected(Client)
    BY <1>0 DEF Types, RingOk, network_connected
  <2>2. chan'[Client] = <<x>>
    BY <1>10, <2>1
  <2>3. world[Client] = Own(Server) /\ made[Client] = Nothing
    BY DEF InGame, ClientWaits
  <2> QED
    BY <1>0, <1>3, <1>4, <1>5, <1>11, <1>16, <2>2, <2>3 DEF Got
<1>18. Together'
  <2> SUFFICES ASSUME network_connected(Client)
               PROVE  peer' = [h \in Hosts |-> "open"] /\ ToldLast'
    BY <1>7 DEF Together, network_connected
  <2>1. Got(Client, "delta")' /\ Head(chan'[Client]).data = d
    BY <1>4, <1>10, <1>16 DEF Got
  <2>2. ToldLast'
    BY <1>5, <1>7, <1>9, <1>10, <1>13, <2>1 DEF ToldLast
  <2> QED
    BY <1>10, <2>2
<1> QED
  BY <1>12, <1>14, <1>15, <1>17, <1>18 DEF InGame

\* The client is told, and begins.
LEMMA GameTold ==
  ASSUME Types, InGame, ClientIsTold
  PROVE  InGame'
<1> DEFINE d == Head(chan[Client]).data
           e == InitFrames(Client, d, Own(Server))
<1>0. /\ Server \in Hosts /\ Client \in Hosts /\ Server # Client /\ \A h \in Hosts : h = Server \/ h = Client
      /\ Other(Client) = Server /\ Other(Server) = Client /\ net \in [Hosts -> AHost]
  BY TwoHosts DEF Types, Other
<1>1. /\ net[Client].at = "test" /\ Got(Client, "delta") /\ Receive(Client) /\ world' = world /\ made' = made
      /\ net' = [net EXCEPT ![Client] = InitFrames(Client, d, world[Client])]
  BY DEF ClientIsTold
<1>2. d \in Deltas
  <2>1. Head(chan[Client]) \in AMessage /\ Head(chan[Client]).kind = "delta"
    BY <1>0, <1>1, StreamTypes
  <2> QED
    BY <2>1 DEF AMessage
<1>3. /\ world[Client] = Own(Server) /\ made[Client] = Nothing
      /\ SyncsOk(made[Server], d) /\ Stream(Tail(chan[Client]), 0, made[Server].sent)
  <2>1. Head(<<Msg("test", 0)>>).kind = "test"
    BY DEF Msg
  <2>2. chan[Client] # <<>> /\ chan[Client] # <<Msg("test", 0)>>
    BY <1>1, <2>1 DEF Got
  <2> QED
    BY <1>1, <2>2 DEF InGame, ClientWaits
<1>4. ASSUME network_connected(Server)
      PROVE  peer = [h \in Hosts |-> "open"] /\ ToldLast /\ d = net[Server].frame_delta
  BY <1>0, <1>1, <1>4, Measured DEF ToldLast
<1>5. network_connected(Client)
  BY <1>0, <1>1 DEF Types, RingOk, network_connected
<1>6. chan'[Client] = Tail(chan[Client]) /\ chan'[Server] = chan[Server] /\ peer' = peer
  BY <1>0, <1>1, ReceiveTakes
<1> HIDE DEF d
<1>7. /\ e \in AHost /\ e.mode = net[Client].mode /\ e.at = "run" /\ e.frame_delta = d
      /\ HostOk(e, Nothing, Own(Server))
  BY <1>0, <1>2, HostFresh
<1> HIDE DEF e
<1>8. net'[Client] = e /\ net'[Server] = net[Server]
  BY <1>0, <1>1, <1>3 DEF e
<1>9. Len(Nothing.past) = 0
  BY DEF Nothing
<1>10. Histories'
  BY <1>1 DEF InGame, Histories
<1>11. Playing(Client)'
  BY <1>5, <1>7, <1>8 DEF Playing, network_connected
<1>12. \A h \in Hosts : GameOf(h)'
  <2>1. GameOf(Server)'
    BY <1>0, <1>1, <1>6, <1>8 DEF InGame, GameOf, Playing, network_connected
  <2>2. GameOf(Client)'
    <3>1. /\ HostOk(net'[Client], made'[Client], world'[Client])
          /\ Stream(chan'[Client], Len(made'[Client].past), made'[Other(Client)].sent)
          /\ SyncsOk(made'[Other(Client)], net'[Client].frame_delta)
      BY <1>0, <1>1, <1>3, <1>6, <1>7, <1>8, <1>9
    <3> QED
      BY <3>1 DEF GameOf
  <2> QED
    BY <1>0, <2>1, <2>2
<1>13. ServerWaits'
  BY <1>1, <1>6, <1>8 DEF InGame, ServerWaits, Own, Nothing
<1>14. ClientWaits'
  BY <1>7, <1>8 DEF ClientWaits
<1>15. Together'
  <2> SUFFICES ASSUME network_connected(Server)
               PROVE  peer' = [h \in Hosts |-> "open"] /\ Underway'
    BY <1>8 DEF Together, network_connected
  <2>1. Playing(Server)
    BY <1>4 DEF ToldLast
  <2>2. Playing(Server)'
    BY <1>8, <2>1 DEF Playing, network_connected
  <2> QED
    BY <1>4, <1>6, <1>7, <1>8, <1>11, <2>2 DEF Underway
<1> QED
  BY <1>10, <1>12, <1>13, <1>14, <1>15 DEF InGame

\* The client goes on alone with a delta it was never told.
LEMMA GameAlone ==
  ASSUME Types, InGame, DeltaFails
  PROVE  InGame'
<1>0. /\ Server \in Hosts /\ Client \in Hosts /\ Server # Client /\ \A h \in Hosts : h = Server \/ h = Client
      /\ Other(Client) = Server /\ Other(Server) = Client /\ net \in [Hosts -> AHost]
  BY TwoHosts DEF Types, Other
<1>1. /\ net[Client].at = "test" /\ peer[Client] = "rst" /\ chan[Client] = <<>>
      /\ chan' = chan /\ peer' = peer /\ world' = world /\ made' = made
  BY DEF DeltaFails, AwaitsDelta
<1>2. world[Client] = Own(Server) /\ \A h \in Hosts : made[h] = Nothing
  <2>1. ~ Got(Client, "delta")
    BY <1>1 DEF Got
  <2> QED
    BY <1>0, <1>1, <2>1 DEF InGame, ClientWaits
<1>3. CASE net' = [net EXCEPT ![Client] = [@ EXCEPT !.at = "no lists"]]
  <2> DEFINE q == [net[Client] EXCEPT !.at = "no lists"]
  <2>1. net' = [net EXCEPT ![Client] = q]
    BY <1>0, <1>3
  <2>2. q.at = "no lists" /\ q.mode = net[Client].mode /\ peer[Client] # "open"
    BY <1>0, <1>1 DEF AHost
  <2> HIDE DEF q
  <2>3. Left(Client, q)
    BY <1>1, <2>1, <2>2 DEF Left
  <2> QED
    BY <1>0, <2>3, GameLeft
<1>4. ASSUME NEW d \in Deltas, net' = [net EXCEPT ![Client] = InitFrames(Client, d, world[Client])]
      PROVE  InGame'
  <2> DEFINE e == InitFrames(Client, d, Own(Server))
  <2>1. /\ e.mode = net[Client].mode /\ e.at = "run" /\ e.frame_delta = d
        /\ HostOk(e, Nothing, Own(Server)) /\ SyncsOk(Nothing, d)
    BY <1>0, HostFresh
  <2> HIDE DEF e
  <2>2. net'[Client] = e /\ net'[Server] = net[Server]
    BY <1>0, <1>2, <1>4 DEF e
  <2>3. Stream(<<>>, 0, <<>>) /\ Nothing.sent = <<>> /\ Len(Nothing.past) = 0
    <3>1. <<>> \in Seq(AList) /\ 0 \in Nat
      OBVIOUS
    <3>2. Stream(<<>>, 0, <<>>)
      BY <3>1, StreamEmpty
    <3> QED
      BY <3>2 DEF Nothing
  <2>4. Histories'
    BY <1>1 DEF InGame, Histories
  <2>5. \A h \in Hosts : GameOf(h)'
    <3>1. GameOf(Server)'
      BY <1>0, <1>1, <2>2 DEF InGame, GameOf, Playing, network_connected
    <3>2. /\ HostOk(net'[Client], made'[Client], world'[Client])
          /\ Stream(chan'[Client], Len(made'[Client].past), made'[Other(Client)].sent)
          /\ SyncsOk(made'[Other(Client)], net'[Client].frame_delta)
      BY <1>0, <1>1, <1>2, <2>1, <2>2, <2>3
    <3>3. GameOf(Client)'
      BY <3>2 DEF GameOf
    <3> QED
      BY <1>0, <3>1, <3>3
  <2>6. ServerWaits'
    BY <1>1, <2>2 DEF InGame, ServerWaits, Own, Nothing
  <2>7. ClientWaits'
    BY <2>1, <2>2 DEF ClientWaits
  <2>8. ~ (network_connected(Server)' /\ network_connected(Client)')
    <3>1. ~ (network_connected(Server) /\ network_connected(Client))
      BY <1>0, <1>1 DEF InGame, Together
    <3> QED
      BY <2>1, <2>2, <3>1 DEF network_connected
  <2> QED
    BY <2>4, <2>5, <2>6, <2>7, <2>8 DEF InGame, Together
<1> QED
  BY <1>3, <1>4 DEF DeltaFails, Deltas

\* Every step keeps the game what it is.
LEMMA NextInGame ==
  ASSUME Types, Fresh, Joining, InGame, NetNext
  PROVE  InGame'
<1>1. \/ network_start_server \/ network_connect_client \/ network_client_connect_trap \/ SnapshotFails
      \/ ClientEchoes \/ ServerMeasures \/ ClientIsTold \/ DeltaFails
      \/ \E h \in Hosts : HostSteps(h)
  BY Zenon DEF NetNext, HostSteps
<1>2. ASSUME NEW h \in Hosts, HostSteps(h)
      PROVE  InGame'
  <2>1. ASSUME NEW type \in Inputs, network_event_record(h, type)
        PROVE  InGame'
    BY <2>1, GameRecord
  <2> QED
    BY <1>2, <2>1, GameSuspend, GameSend, GameReceive, GameLeaves, Zenon DEF HostSteps
<1>3. ServerMeasures => InGame'
  BY GameMeasure, GameBegin
<1> QED
  BY <1>1, <1>2, <1>3, GameUnmade, GameConnect, GameJoin, GameEcho, GameTold, GameAlone, Zenon

-----------------------------------------------------------------------------
\* The inductive invariant of network play: what each host has sent and played, what is on the
\* way between them, and what its ring of event lists holds.
THEOREM NetworkInvariant == NetSpec => []NetInv
<1>1. NetInv /\ [NetNext]_netVars => NetInv'
  <2> SUFFICES ASSUME NetInv, [NetNext]_netVars
               PROVE  NetInv'
    OBVIOUS
  <2>1. CASE NetNext
    BY <2>1, NextTypes, NextFresh, NextJoining, NextInGame DEF NetInv
  <2>2. CASE UNCHANGED netVars
    <3>1. net' = net /\ chan' = chan /\ peer' = peer /\ world' = world /\ made' = made
      BY <2>2 DEF netVars
    <3> QED
      BY <3>1 DEF NetInv, Types, Fresh, Joining, InGame, Histories, GameOf, ServerWaits, ClientWaits,
         Together, Testing, ToldLast, Underway, Playing, network_connected, Got, Own, Nothing, Msg
  <2> QED
    BY <2>1, <2>2
<1> QED
  BY <1>1, InitInv, PTL DEF NetSpec

\* Two hosts that play.
LEMMA BothPlay ==
  ASSUME NetInv, Playing(Server), Playing(Client), NEW h \in Hosts
  PROVE  LET g == Other(h)
             d == net[h].frame_delta
         IN  /\ g \in Hosts /\ net[g].frame_delta = d /\ d \in Nat /\ d >= 1
             /\ HostOk(net[h], made[h], world[h]) /\ HostOk(net[g], made[g], world[g])
             /\ made[h] \in AHistory /\ made[g] \in AHistory
             /\ Stream(chan[h], Len(made[h].past), made[g].sent)
             /\ Same(made[h], made[g]) /\ Grows(made[g])
<1>1. Underway
  <2>1. network_connected(Server) /\ network_connected(Client) /\ net[Server].at # "test" /\ net[Client].at # "test"
    BY DEF Playing
  <2> QED
    BY <2>1, TwoHosts DEF NetInv, InGame, Together, Testing, ToldLast
<1>2. Other(h) \in Hosts /\ Other(Other(h)) = h /\ Playing(h) /\ Playing(Other(h))
      /\ net[Other(h)].frame_delta = net[h].frame_delta
  BY <1>1, TwoHosts DEF Underway
<1>3. /\ HostOk(net[h], made[h], world[h]) /\ HostOk(net[Other(h)], made[Other(h)], world[Other(h)])
      /\ Stream(chan[h], Len(made[h].past), made[Other(h)].sent)
  BY <1>2 DEF NetInv, InGame, GameOf
<1>4. made[h] \in AHistory /\ made[Other(h)] \in AHistory
  BY <1>2 DEF NetInv, Types
<1>5. Same(made[h], made[Other(h)]) /\ Grows(made[Other(h)])
  BY <1>2 DEF NetInv, InGame, Histories
<1>6. net[h].frame_delta \in Nat /\ net[h].frame_delta >= 1
  BY <1>3, <1>4, HostNumbers
<1> QED
  BY <1>2, <1>3, <1>4, <1>5, <1>6

\* A history that is not longer than another is the start of it.
LEMMA SameRounds ==
  ASSUME NEW m \in AHistory, NEW o \in AHistory, Same(m, o), Grows(o), Len(m.past) <= Len(o.past)
  PROVE  /\ After(m, Len(m.past)) = After(o, Len(m.past))
         /\ IsPrefix(After(m, Len(m.past)), After(o, Len(o.past)))
<1> DEFINE r == Len(m.past)
<1>1. r \in Nat /\ Len(o.past) \in Nat
  BY HistoryIs
<1>2. After(m, r) = After(o, r)
  <2>1. CASE r = 0
    BY <2>1 DEF After
  <2>2. CASE r # 0
    <3>1. r \in 1 .. Len(m.past) /\ r <= Len(o.past)
      BY <1>1, <2>2
    <3>2. m.past[r] = o.past[r]
      BY <3>1 DEF Same
    <3> QED
      BY <2>2, <3>2 DEF After
  <2> QED
    BY <2>1, <2>2
<1>3. r \in 0 .. Len(o.past) /\ Len(o.past) \in 0 .. Len(o.past) /\ r <= Len(o.past)
  BY <1>1
<1> HIDE DEF r
<1>4. IsPrefix(After(o, r), After(o, Len(o.past)))
  BY <1>3 DEF Grows
<1> QED
  BY <1>2, <1>4 DEF r

\* The machines agree: one has been given what the other has, and perhaps more; after as many
\* frames they were given the same; and no list a host plays is out of sync with its own.
LEMMA Agree == NetInv => HostsAgree
<1> SUFFICES ASSUME NetInv
             PROVE  HostsAgree
  OBVIOUS
<1>1. ASSUME NEW h \in Hosts, Playing(Server), Playing(Client), Len(made[h].past) <= Len(made[Other(h)].past)
      PROVE  /\ IsPrefix(world[h], world[Other(h)])
             /\ Len(made[h].past) = Len(made[Other(h)].past) => world[h] = world[Other(h)]
  <2> DEFINE m == made[h]
             o == made[Other(h)]
  <2>1. /\ m \in AHistory /\ o \in AHistory /\ Same(m, o) /\ Grows(o)
        /\ HostOk(net[h], m, world[h]) /\ HostOk(net[Other(h)], o, world[Other(h)])
    BY <1>1, BothPlay
  <2>2. world[h] = After(m, Len(m.past)) /\ world[Other(h)] = After(o, Len(o.past))
    BY <2>1 DEF HostOk
  <2>3. Len(m.past) <= Len(o.past)
    BY <1>1
  <2> HIDE DEF m, o
  <2>4. After(m, Len(m.past)) = After(o, Len(m.past)) /\ IsPrefix(After(m, Len(m.past)), After(o, Len(o.past)))
    BY <2>1, <2>3, SameRounds
  <2> QED
    BY <2>2, <2>4 DEF m, o
<1>2. Server \in Hosts /\ Client \in Hosts /\ Other(Server) = Client /\ Other(Client) = Server
  BY TwoHosts DEF Other
<1>3. Len(made[Server].past) \in Nat /\ Len(made[Client].past) \in Nat
  BY <1>2, HistoryIs DEF NetInv, Types
<1>4. OneMachine
  <2> SUFFICES ASSUME Playing(Server), Playing(Client)
               PROVE  IsPrefix(world[Server], world[Client]) \/ IsPrefix(world[Client], world[Server])
    BY DEF OneMachine
  <2>1. CASE Len(made[Server].past) <= Len(made[Client].past)
    BY <1>1, <1>2, <2>1
  <2>2. CASE Len(made[Client].past) <= Len(made[Server].past)
    BY <1>1, <1>2, <2>2
  <2> QED
    BY <1>3, <2>1, <2>2
<1>5. ASSUME Playing(Server), Playing(Client), made[Server].frames = made[Client].frames
      PROVE  world[Server] = world[Client]
  <2>1. /\ HostOk(net[Server], made[Server], world[Server]) /\ HostOk(net[Client], made[Client], world[Client])
        /\ net[Client].frame_delta = net[Server].frame_delta
    BY <1>2, <1>5, BothPlay
  <2>2. Len(made[Server].past) = Len(made[Client].past)
    BY <1>5, <2>1 DEF HostOk
  <2>3. Len(made[Server].past) <= Len(made[Client].past)
    BY <1>3, <2>2
  <2> QED
    BY <1>1, <1>2, <1>5, <2>2, <2>3
<1>6. ASSUME NEW h \in Hosts, net[h].at = "events", Got(h, "events")
      PROVE  ~ OutOfSync(net[h].lists[FrameToPlay(net[h])], Head(chan[h]).data)
  <2> DEFINE n == net[h]
             p == FrameToPlay(n)
  <2>1. p = (IF n.current_frame = n.frame_delta - 1 THEN 0 ELSE n.current_frame + 1)
    <3>1. /\ n \in AHost /\ n.frame_delta \in Deltas /\ n.current_frame \in 0 .. n.frame_delta - 1
          /\ n.lists \in [0 .. n.frame_delta - 1 -> AList]
      BY <1>6 DEF NetInv, Types, RingOk
    <3> DEFINE w == world[h]
    <3>2. w \in AWorld
      BY DEF NetInv, Types
    <3> HIDE DEF n, w
    <3> QED
      BY <3>1, <3>2, NextFrameIs
  <2> HIDE DEF p
  <2>2. ~ OutOfSync(net[h].lists[p], Head(chan[h]).data)
    BY <1>6, <2>1, ReceivesNext DEF NetInv
  <2> QED
    BY <2>2 DEF p
<1> QED
  BY <1>4, <1>5, <1>6 DEF HostsAgree, SameFrameSameState

\* HostsAgree, whatever the hosts do, for every frame_delta and any number of frames and inputs.
THEOREM HostsStayTogether == NetSpec => []HostsAgree
BY NetworkInvariant, Agree, PTL

\* Neither host waits for the other for ever: they never both wait with nothing on the way, and
\* neither gets more than frame_delta frames ahead.
LEMMA Advance == NetInv => NeitherStalls
<1> SUFFICES ASSUME NetInv, Playing(Server), Playing(Client)
             PROVE  /\ \E h \in Hosts : net[h].at = "run" \/ chan[h] # <<>>
                    /\ \A h \in Hosts : made[h].frames <= made[Other(h)].frames + net[h].frame_delta
  BY DEF NeitherStalls
<1>1. ASSUME NEW h \in Hosts
      PROVE  LET d == net[h].frame_delta
                 f == made[h].frames
                 g == made[Other(h)].frames
             IN  /\ d \in Nat /\ d >= 1 /\ f \in Nat /\ g \in Nat
                 /\ f <= g + d
                 /\ net[h].at = "events" /\ chan[h] = <<>> /\ net[Other(h)].at = "events" => f = g + d
  <2> DEFINE m == made[h]
             o == made[Other(h)]
             d == net[h].frame_delta
             r == Len(m.past)
             l == Len(o.sent)
             k == net[Other(h)]
  <2>1. /\ k.frame_delta = d /\ d \in Nat /\ d >= 1
        /\ HostOk(net[h], m, world[h]) /\ HostOk(k, o, world[Other(h)])
        /\ m \in AHistory /\ o \in AHistory /\ Stream(chan[h], r, o.sent)
    BY BothPlay
  <2>2. r = RoundsAt(m.frames, d) /\ l = (IF k.at = "run" THEN o.frames ELSE o.frames + 1)
    BY <2>1 DEF HostOk
  <2>3. /\ net[h].at = "events" => m.frames >= d - 1
        /\ r <= l
    BY <2>1 DEF HostOk, Stream
  <2>4. r \in Nat /\ l \in Nat /\ m.frames \in Nat /\ o.frames \in Nat /\ o.sent \in Seq(AList)
    BY <2>1, HistoryIs
  <2>5. chan[h] = <<>> => r = l
    <3>1. Stream(<<>>, r, o.sent) => r = Len(o.sent)
      <4> HIDE DEF r, l, o
      <4> QED
        BY <2>4, StreamEmpty
    <3> QED
      BY <2>1, <3>1
  <2> HIDE DEF m, o, d, r, l, k
  <2>6. m.frames <= o.frames + d
    BY <2>1, <2>2, <2>3, <2>4 DEF RoundsAt
  <2>7. net[h].at = "events" /\ chan[h] = <<>> /\ k.at = "events" => m.frames = o.frames + d
    <3> SUFFICES ASSUME net[h].at = "events", chan[h] = <<>>, k.at = "events"
                 PROVE  m.frames = o.frames + d
      OBVIOUS
    <3>1. l = o.frames + 1 /\ r = l /\ m.frames >= d - 1
      BY <2>2, <2>3, <2>5
    <3>2. r = m.frames - d + 1
      BY <2>1, <2>2, <2>4, <3>1 DEF RoundsAt
    <3> QED
      BY <2>1, <2>4, <3>1, <3>2, SMTT(30)
  <2> QED
    BY <2>1, <2>4, <2>6, <2>7 DEF m, o, d, k
<1>2. /\ Server \in Hosts /\ Client \in Hosts /\ Other(Server) = Client /\ Other(Client) = Server
  BY TwoHosts DEF Other
<1>3. \E h \in Hosts : net[h].at = "run" \/ chan[h] # <<>>
  <2> SUFFICES ASSUME chan[Server] = <<>>, chan[Client] = <<>>,
                      net[Server].at # "run", net[Client].at # "run"
               PROVE  FALSE
    BY <1>2
  <2>1. net[Server].at = "events" /\ net[Client].at = "events"
    BY DEF Playing
  <2> DEFINE f == made[Server].frames
             g == made[Client].frames
             d == net[Server].frame_delta
             e == net[Client].frame_delta
  <2>2. d \in Nat /\ d >= 1 /\ f \in Nat /\ g \in Nat /\ f = g + d
    BY <1>1, <1>2, <2>1
  <2>3. e \in Nat /\ e >= 1 /\ g = f + e
    BY <1>1, <1>2, <2>1
  <2> HIDE DEF f, g, d, e
  <2> QED
    BY <2>2, <2>3
<1> QED
  BY <1>1, <1>3

\* NeitherStalls, for every frame_delta.
THEOREM HostsNeverStall == NetSpec => []NeitherStalls
BY NetworkInvariant, Advance, PTL

-----------------------------------------------------------------------------
(* Inputs count once: what each list and each machine holds of what was done. *)

\* The inputs of a history made in a frame, and before one.
InFrame(m, f) == {k \in DOMAIN m.inputs : m.inputs[k].frame = f}
Until(m, f) == {k \in DOMAIN m.inputs : m.inputs[k].frame < f}

\* The places I of w hold the inputs K of a history, each once and in order.
Holds(w, I, m, K) ==
  /\ \A i \in I : \E k \in K : w[i] = m.inputs[k].event
  /\ \A k \in K : \E i \in I : w[i] = m.inputs[k].event
  /\ \A i, j \in I : i < j => w[i].data < w[j].data

\* The inputs of a host are numbered, and made in its frames, one after the other.
Numbered(g, m) ==
  \A k \in DOMAIN m.inputs :
    /\ m.inputs[k].event.from = g /\ m.inputs[k].event.data = k - 1 /\ m.inputs[k].frame <= m.frames
    /\ \A l \in DOMAIN m.inputs : k <= l => m.inputs[k].frame <= m.inputs[l].frame

\* A list holds what was done in its frame: each that was sent, and the one being recorded.
ListIs(list, m, f) == Holds(list.inputs, DOMAIN list.inputs, m, InFrame(m, f))
ListsCount(m) == \A j \in 1 .. Len(m.sent) : ListIs(m.sent[j], m, j - 1)
Recording(n, m) == ListIs(n.lists[n.current_frame], m, m.frames)

\* After r rounds a machine was given what a host did before frame r.
Given(w, g, m, r) == Holds(w, InputsOf(w, g), m, Until(m, r))

\* The inputs of the game.
CountInv ==
  \A h \in Hosts :
    /\ Numbered(h, made[h]) /\ ListsCount(made[h])
    /\ Running(h) => Recording(net[h], made[h])
    /\ Playing(h) => /\ Len(world[h]) >= 1
                     /\ \A g \in Hosts : Given(world[h], g, made[g], Len(made[h].past))

\* The places J of v are the places I of w, none of them after s, and after s those of l.
Joins(v, J, w, I, l, s) ==
  /\ I \subseteq Nat /\ DOMAIN l \subseteq Nat \ {0} /\ s \in Nat
  /\ \A i \in I : i <= s /\ v[i] = w[i]
  /\ \A i \in DOMAIN l : v[s + i] = l[i]
  /\ \A j : j \in J <=> j \in I \/ \E i \in DOMAIN l : j = s + i

\* The numbers of the inputs K are smaller than those of L.
Before(m, K, L) == \A k \in K, l \in L : m.inputs[k].event.data < m.inputs[l].event.data

\* Later inputs at later places.
LEMMA HoldsMore ==
  ASSUME NEW w, NEW I, NEW m, NEW K, Holds(w, I, m, K), NEW l, NEW L, Holds(l, DOMAIN l, m, L),
         NEW v, NEW J, NEW s, Joins(v, J, w, I, l, s), Before(m, K, L)
  PROVE  Holds(v, J, m, K \cup L)
<1>0. /\ I \subseteq Nat /\ DOMAIN l \subseteq Nat \ {0} /\ s \in Nat
      /\ \A i \in I : i <= s /\ v[i] = w[i]
      /\ \A i \in DOMAIN l : v[s + i] = l[i]
      /\ \A j : j \in J <=> j \in I \/ \E i \in DOMAIN l : j = s + i
  BY DEF Joins
<1>1. \A i \in J : \E k \in K \cup L : v[i] = m.inputs[k].event
  <2> TAKE i \in J
  <2>1. CASE i \in I
    <3>1. PICK k \in K : w[i] = m.inputs[k].event
      BY <2>1 DEF Holds
    <3> QED
      BY <1>0, <2>1, <3>1
  <2>2. ASSUME NEW a \in DOMAIN l, i = s + a
        PROVE  \E k \in K \cup L : v[i] = m.inputs[k].event
    <3>1. PICK k \in L : l[a] = m.inputs[k].event
      BY DEF Holds
    <3> QED
      BY <1>0, <2>2, <3>1
  <2> QED
    BY <1>0, <2>1, <2>2
<1>2. \A k \in K \cup L : \E i \in J : v[i] = m.inputs[k].event
  <2> TAKE k \in K \cup L
  <2>1. CASE k \in K
    BY <1>0, <2>1 DEF Holds
  <2>2. CASE k \in L
    <3>1. PICK i \in DOMAIN l : l[i] = m.inputs[k].event
      BY <2>2 DEF Holds
    <3>2. s + i \in J /\ v[s + i] = l[i]
      BY <1>0
    <3> QED
      BY <3>1, <3>2
  <2> QED
    BY <2>1, <2>2
<1>3. ASSUME NEW i \in J, NEW j \in J, i < j
      PROVE  v[i].data < v[j].data
  <2>1. CASE i \in I /\ j \in I
    BY <1>0, <1>3, <2>1 DEF Holds
  <2>2. ASSUME i \in I, NEW b \in DOMAIN l, j = s + b
        PROVE  v[i].data < v[j].data
    <3>1. PICK k \in K : w[i] = m.inputs[k].event
      BY <2>2 DEF Holds
    <3>2. PICK x \in L : l[b] = m.inputs[x].event
      BY DEF Holds
    <3> QED
      BY <1>0, <2>2, <3>1, <3>2 DEF Before
  <2>3. ASSUME NEW a \in DOMAIN l, i = s + a, j \in I
        PROVE  v[i].data < v[j].data
    <3>1. a \in Nat \ {0} /\ j \in Nat /\ j <= s
      BY <1>0, <2>3
    <3> QED
      BY <1>0, <1>3, <2>3, <3>1
  <2>4. ASSUME NEW a \in DOMAIN l, i = s + a, NEW b \in DOMAIN l, j = s + b
        PROVE  v[i].data < v[j].data
    <3>1. a \in Nat /\ b \in Nat
      BY <1>0
    <3>2. a < b
      BY <1>0, <1>3, <2>4, <3>1
    <3>3. v[i] = l[a] /\ v[j] = l[b]
      BY <1>0, <2>4
    <3> QED
      BY <3>2, <3>3 DEF Holds
  <2> QED
    BY <1>0, <2>1, <2>2, <2>3, <2>4
<1> QED
  BY <1>1, <1>2, <1>3 DEF Holds

\* The inputs of a host are sequences of inputs and the frames they were made in.
LEMMA InputsAre ==
  ASSUME NEW m \in AHistory
  PROVE  /\ m.inputs \in Seq([event : AnInput, frame : Nat]) /\ Len(m.inputs) \in Nat
         /\ DOMAIN m.inputs = 1 .. Len(m.inputs)
         /\ \A k \in DOMAIN m.inputs : m.inputs[k].frame \in Nat /\ m.inputs[k].event \in AnInput
<1>1. m.inputs \in Seq([event : AnInput, frame : Nat])
  BY DEF AHistory
<1>2. DOMAIN m.inputs = 1 .. Len(m.inputs) /\ Len(m.inputs) \in Nat
  BY <1>1
<1>3. \A k \in 1 .. Len(m.inputs) : m.inputs[k].frame \in Nat /\ m.inputs[k].event \in AnInput
  <2> TAKE k \in 1 .. Len(m.inputs)
  <2>1. m.inputs[k] \in [event : AnInput, frame : Nat]
    BY <1>1, ElementOfSeq
  <2> QED
    BY <2>1
<1> QED
  BY <1>1, <1>2, <1>3

\* What was done before a frame has smaller numbers than what was done in it.
LEMMA NumbersGrow ==
  ASSUME NEW g, NEW m \in AHistory, Numbered(g, m), NEW r \in Nat
  PROVE  /\ Until(m, r + 1) = Until(m, r) \cup InFrame(m, r) /\ Until(m, 0) = {}
         /\ r > m.frames => InFrame(m, r) = {}
         /\ Before(m, Until(m, r), InFrame(m, r))
<1>1. /\ Len(m.inputs) \in Nat /\ DOMAIN m.inputs = 1 .. Len(m.inputs) /\ m.frames \in Nat
      /\ \A k \in DOMAIN m.inputs : m.inputs[k].frame \in Nat
  BY InputsAre, HistoryIs
<1>2. Until(m, r + 1) = Until(m, r) \cup InFrame(m, r) /\ Until(m, 0) = {}
  BY <1>1 DEF Until, InFrame
<1>3. r > m.frames => InFrame(m, r) = {}
  BY <1>1 DEF InFrame, Numbered
<1>4. ASSUME NEW k \in Until(m, r), NEW l \in InFrame(m, r)
      PROVE  m.inputs[k].event.data < m.inputs[l].event.data
  <2>1. /\ k \in 1 .. Len(m.inputs) /\ l \in 1 .. Len(m.inputs)
        /\ m.inputs[k].frame < r /\ m.inputs[l].frame = r
    BY <1>1 DEF Until, InFrame
  <2>2. /\ m.inputs[k].event.data = k - 1 /\ m.inputs[l].event.data = l - 1
        /\ l <= k => m.inputs[l].frame <= m.inputs[k].frame
    BY <1>1, <2>1 DEF Numbered
  <2>3. m.inputs[k].frame \in Nat
    BY <1>1, <2>1
  <2>4. ~ (l <= k)
    BY <2>1, <2>2, <2>3
  <2> QED
    BY <2>1, <2>2, <2>4
<1> QED
  BY <1>2, <1>3, <1>4 DEF Before

\* The input that network_event_record makes, and the history with it.
Records(m, t, g, x) ==
  /\ x \in AnInput /\ x.from = g /\ x.data = Len(m.inputs)
  /\ t \in AHistory /\ t.frames = m.frames
  /\ t.inputs = Append(m.inputs, [event |-> x, frame |-> m.frames])

\* One more input, in the frame a host is in.
LEMMA InputMore ==
  ASSUME NEW g, NEW m \in AHistory, Numbered(g, m),
         NEW x, NEW t, Records(m, t, g, x)
  PROVE  /\ Numbered(g, t)
         /\ \A r \in Nat : /\ r <= m.frames => Until(t, r) = Until(m, r)
                           /\ r < m.frames => InFrame(t, r) = InFrame(m, r)
         /\ InFrame(t, m.frames) = InFrame(m, m.frames) \cup {Len(m.inputs) + 1}
         /\ t.inputs[Len(m.inputs) + 1].event = x
         /\ \A k \in DOMAIN m.inputs : t.inputs[k] = m.inputs[k]
<1> DEFINE f == m.frames
           N == Len(m.inputs)
           y == [event |-> x, frame |-> f]
<1>0. /\ x \in AnInput /\ x.from = g /\ x.data = N /\ t \in AHistory /\ t.frames = f
      /\ t.inputs = Append(m.inputs, y)
  BY DEF Records
<1>1. /\ N \in Nat /\ DOMAIN m.inputs = 1 .. N /\ f \in Nat
      /\ m.inputs \in Seq([event : AnInput, frame : Nat])
      /\ \A k \in 1 .. N : m.inputs[k].frame \in Nat
  BY InputsAre, HistoryIs
<1>2. y \in [event : AnInput, frame : Nat] /\ y.event = x /\ y.frame = f
  BY <1>0, <1>1
<1> HIDE DEF y
<1>3. /\ Len(t.inputs) = N + 1 /\ t.inputs[N + 1] = y
      /\ \A k \in 1 .. N : t.inputs[k] = m.inputs[k]
  BY <1>0, <1>1, <1>2, OneMore
<1>4. DOMAIN t.inputs = 1 .. N + 1
  BY <1>0, <1>3, InputsAre
<1>5. \A k \in 1 .. N : /\ m.inputs[k].event.from = g /\ m.inputs[k].event.data = k - 1
                        /\ m.inputs[k].frame <= f
                        /\ \A l \in 1 .. N : k <= l => m.inputs[k].frame <= m.inputs[l].frame
  BY <1>1 DEF Numbered
<1> HIDE DEF N, f
<1>6. Numbered(g, t)
  <2>1. \A k \in 1 .. N + 1 : k \in 1 .. N \/ k = N + 1
    BY <1>1
  <2>2. /\ x.from = g /\ x.data = N /\ t.frames = f
    BY <1>0
  <2>3. ASSUME NEW k \in 1 .. N + 1
        PROVE  t.inputs[k].event.from = g /\ t.inputs[k].event.data = k - 1 /\ t.inputs[k].frame <= t.frames
    <3>1. CASE k \in 1 .. N
      BY <1>3, <1>5, <2>2, <3>1
    <3>2. CASE k = N + 1
      BY <1>1, <1>2, <1>3, <2>2, <3>2
    <3> QED
      BY <2>1, <3>1, <3>2
  <2>4. ASSUME NEW k \in 1 .. N + 1, NEW l \in 1 .. N + 1, k <= l
        PROVE  t.inputs[k].frame <= t.inputs[l].frame
    <3>1. CASE l \in 1 .. N
      <4>1. k \in 1 .. N
        BY <1>1, <2>4, <3>1
      <4> QED
        BY <1>3, <1>5, <2>4, <3>1, <4>1
    <3>2. CASE l = N + 1
      BY <1>2, <1>3, <2>2, <2>3, <3>2
    <3> QED
      BY <2>1, <3>1, <3>2
  <2> QED
    BY <1>4, <2>3, <2>4 DEF Numbered
<1>7. ASSUME NEW r \in Nat
      PROVE  (r <= f => Until(t, r) = Until(m, r)) /\ (r < f => InFrame(t, r) = InFrame(m, r))
  <2>1. /\ \A k \in 1 .. N : k \in 1 .. N + 1 /\ t.inputs[k].frame = m.inputs[k].frame
        /\ \A k \in 1 .. N + 1 : k \in 1 .. N \/ t.inputs[k].frame = f
    BY <1>1, <1>2, <1>3
  <2>2. r <= f => Until(t, r) = Until(m, r)
    BY <1>1, <1>4, <2>1 DEF Until
  <2>3. r < f => InFrame(t, r) = InFrame(m, r)
    BY <1>1, <1>4, <2>1 DEF InFrame
  <2> QED
    BY <2>2, <2>3
<1>8. InFrame(t, f) = InFrame(m, f) \cup {N + 1}
  BY <1>1, <1>2, <1>3, <1>4 DEF InFrame
<1> QED
  BY <1>1, <1>2, <1>3, <1>6, <1>7, <1>8 DEF f, N

\* What holds some inputs of a history holds them of a longer one.
LEMMA HoldsStill ==
  ASSUME NEW w, NEW I, NEW m, NEW K, Holds(w, I, m, K), NEW t,
         \A k \in K : t.inputs[k] = m.inputs[k]
  PROVE  Holds(w, I, t, K)
BY DEF Holds

\* The list of a frame in which one more input is recorded.
LEMMA ListMore ==
  ASSUME NEW g, NEW m \in AHistory, Numbered(g, m),
         NEW x, NEW t, Records(m, t, g, x),
         NEW a \in AList, ListIs(a, m, m.frames), NEW b \in AList, b.inputs = Append(a.inputs, x)
  PROVE  ListIs(b, t, t.frames)
<1> DEFINE N == Len(m.inputs)
           K == InFrame(m, m.frames)
           w == a.inputs
           s == Len(w)
           l == <<x>>
           v == b.inputs
<1>1. /\ InFrame(t, m.frames) = K \cup {N + 1} /\ t.inputs[N + 1].event = x
      /\ \A k \in DOMAIN m.inputs : t.inputs[k] = m.inputs[k]
  BY InputMore
<1>2. N \in Nat /\ DOMAIN m.inputs = 1 .. N
  BY InputsAre
<1>3. \A k \in K : k \in 1 .. N /\ t.inputs[k] = m.inputs[k] /\ m.inputs[k].event.data = k - 1
  BY <1>1, <1>2 DEF InFrame, Numbered
<1>4. Holds(w, DOMAIN w, t, K)
  <2>1. Holds(w, DOMAIN w, m, K)
    BY DEF ListIs
  <2> HIDE DEF w, K
  <2> QED
    BY <1>3, <2>1, HoldsStill
<1>5. w \in Seq(AnInput) /\ s \in Nat /\ DOMAIN w = 1 .. s
  BY DEF AList
<1>6. DOMAIN l = {1} /\ l[1] = x
  OBVIOUS
<1>7. Len(v) = s + 1 /\ v[s + 1] = x /\ (\A i \in 1 .. s : v[i] = w[i]) /\ DOMAIN v = 1 .. s + 1
  <2>1. v = Append(w, x) /\ v \in Seq(AnInput)
    BY DEF AList
  <2> HIDE DEF v, w
  <2>2. x \in AnInput
    BY DEF Records
  <2> QED
    BY <1>5, <2>1, <2>2, OneMore
<1>8. x.data = N /\ t.frames = m.frames
  BY DEF Records
<1> HIDE DEF l, v, w, K, N, s
<1>9. Holds(l, DOMAIN l, t, {N + 1})
  <2>1. \A i, j \in DOMAIN l : ~ (i < j)
    BY <1>6
  <2> QED
    BY <1>1, <1>6, <2>1 DEF Holds
<1>10. Holds(v, DOMAIN v, t, K \cup {N + 1})
  <2>1. Before(t, K, {N + 1})
    <3> SUFFICES ASSUME NEW k \in K
                 PROVE  t.inputs[k].event.data < t.inputs[N + 1].event.data
      BY DEF Before
    <3>1. k \in Nat /\ k <= N /\ t.inputs[k].event.data = k - 1
      BY <1>2, <1>3
    <3>2. t.inputs[N + 1].event.data = N
      BY <1>1, <1>8
    <3> DEFINE c == t.inputs[k].event.data
               d == t.inputs[N + 1].event.data
    <3> HIDE DEF c, d
    <3>3. c < d
      BY <1>2, <3>1, <3>2 DEF c, d
    <3> QED
      BY <3>3 DEF c, d
  <2>2. \A i \in DOMAIN w : i <= s /\ v[i] = w[i]
    BY <1>5, <1>7
  <2>3. \A i \in DOMAIN l : v[s + i] = l[i]
    BY <1>6, <1>7
  <2>4. \A j : j \in DOMAIN v <=> j \in DOMAIN w \/ \E i \in DOMAIN l : j = s + i
    BY <1>5, <1>6, <1>7
  <2>5. DOMAIN w \subseteq Nat /\ DOMAIN l \subseteq Nat \ {0}
    BY <1>5, <1>6
  <2>6. Joins(v, DOMAIN v, w, DOMAIN w, l, s)
    BY <1>5, <2>2, <2>3, <2>4, <2>5 DEF Joins
  <2> QED
    BY <1>4, <1>9, <2>1, <2>6, HoldsMore
<1> QED
  BY <1>1, <1>8, <1>10 DEF ListIs, v, K, N

\* The list of a frame that has just begun.
LEMMA ListEmpty ==
  ASSUME NEW g, NEW m \in AHistory, Numbered(g, m), NEW f \in Nat, f > m.frames,
         NEW list, list.inputs = <<>>
  PROVE  ListIs(list, m, f)
<1>1. InFrame(m, f) = {} /\ DOMAIN list.inputs = {}
  BY NumbersGrow
<1> QED
  BY <1>1 DEF ListIs, Holds

\* A list does not care when it was made, nor a machine.
LEMMA InputsOnly ==
  ASSUME NEW m, NEW t, t.inputs = m.inputs
  PROVE  /\ \A list, f : ListIs(list, t, f) <=> ListIs(list, m, f)
         /\ \A w, g, r : Given(w, g, t, r) <=> Given(w, g, m, r)
BY DEF ListIs, Given, Holds, InFrame, Until

\* A host that records on, or begins to.
RecordsOn(h) ==
  \/ /\ Running(h) /\ net'[h].lists = net[h].lists /\ net'[h].current_frame = net[h].current_frame
  \/ /\ made[h] = Nothing /\ net'[h].lists[net'[h].current_frame].inputs = <<>>
PlaysOn(h) ==
  \/ Playing(h) /\ world'[h] = world[h]
  \/ world'[h] = Own(Server) /\ made[h].past = <<>>

\* What a machine was given before anything is played.
LEMMA GivenNothing ==
  ASSUME NEW g, NEW m \in AHistory, Numbered(g, m)
  PROVE  Given(Own(Server), g, m, 0) /\ Len(Own(Server)) = 1
<1>1. Len(Own(Server)) = 1
  BY DEF Own
<1>2. InputsOf(Own(Server), g) = {}
  BY <1>1 DEF InputsOf
<1>3. Until(m, 0) = {}
  BY NumbersGrow
<1> QED
  BY <1>1, <1>2, <1>3 DEF Given, Holds

\* A step that makes nothing.
LEMMA CountSame ==
  ASSUME Types, CountInv, made' = made,
         \A h \in Hosts : (Running(h)' => RecordsOn(h)) /\ (Playing(h)' => PlaysOn(h))
  PROVE  CountInv'
<1> SUFFICES ASSUME NEW h \in Hosts
             PROVE  /\ Numbered(h, made[h]) /\ ListsCount(made[h])
                    /\ Running(h)' => Recording(net'[h], made[h])
                    /\ Playing(h)' => /\ Len(world'[h]) >= 1
                                      /\ \A g \in Hosts : Given(world'[h], g, made[g], Len(made[h].past))
  BY DEF CountInv
<1>1. \A g \in Hosts : made[g] \in AHistory /\ Numbered(g, made[g])
  BY DEF Types, CountInv
<1>2. ASSUME Running(h)'
      PROVE  Recording(net'[h], made[h])
  <2>1. CASE Running(h) /\ net'[h].lists = net[h].lists /\ net'[h].current_frame = net[h].current_frame
    BY <2>1 DEF CountInv, Recording
  <2>2. CASE made[h] = Nothing /\ net'[h].lists[net'[h].current_frame].inputs = <<>>
    <3>1. InFrame(made[h], made[h].frames) = {}
      BY <2>2 DEF Nothing, InFrame
    <3> QED
      BY <2>2, <3>1 DEF Recording, ListIs, Holds
  <2> QED
    BY <1>2, <2>1, <2>2 DEF RecordsOn
<1>3. ASSUME Playing(h)'
      PROVE  /\ Len(world'[h]) >= 1
             /\ \A g \in Hosts : Given(world'[h], g, made[g], Len(made[h].past))
  <2>1. CASE Playing(h) /\ world'[h] = world[h]
    BY <2>1 DEF CountInv
  <2>2. CASE world'[h] = Own(Server) /\ made[h].past = <<>>
    <3>1. Len(made[h].past) = 0
      BY <2>2
    <3>2. Len(Own(Server)) >= 1 /\ \A g \in Hosts : Given(Own(Server), g, made[g], 0)
      BY <1>1, GivenNothing
    <3> QED
      BY <2>2, <3>1, <3>2
  <2> QED
    BY <1>3, <2>1, <2>2 DEF PlaysOn
<1> QED
  BY <1>1, <1>2, <1>3 DEF CountInv

\* Before and after the game nothing is made.
LEMMA CountMeasures ==
  ASSUME Types, InGame, CountInv, ServerMeasures \/ ClientIsTold \/ DeltaFails
  PROVE  CountInv'
<1>0. /\ Server \in Hosts /\ Client \in Hosts /\ Server # Client /\ \A h \in Hosts : h = Server \/ h = Client
      /\ net \in [Hosts -> AHost] /\ world \in [Hosts -> AWorld]
  BY TwoHosts DEF Types
<1>1. world' = world /\ made' = made
  BY DEF ServerMeasures, ClientIsTold, DeltaFails
<1>2. ASSUME NEW h \in Hosts, NEW d \in Deltas, made[h] = Nothing, world[h] = Own(Server),
             net' = [net EXCEPT ![h] = InitFrames(h, d, world[h])]
      PROVE  CountInv'
  <2> DEFINE e == InitFrames(h, d, world[h])
  <2>1. d \in Nat /\ d >= 1
    BY NetAssumption DEF Deltas
  <2>2. e.current_frame = 0 /\ \A i \in 0 .. d - 1 : e.lists[i] = FrameList(IF i = 0 THEN world[h] ELSE <<>>)
    BY <1>0, InitFramesIs
  <2>3. e.lists[0].inputs = <<>>
    <3>1. e.lists[0] = FrameList(world[h])
      BY <2>1, <2>2
    <3> QED
      BY <3>1 DEF FrameList
  <2> HIDE DEF e
  <2>4. net'[h] = e /\ \A g \in Hosts : g # h => net'[g] = net[g]
    BY <1>0, <1>2 DEF e
  <2>5. RecordsOn(h) /\ PlaysOn(h)
    BY <1>1, <1>2, <2>2, <2>3, <2>4 DEF RecordsOn, PlaysOn, Nothing
  <2>6. ASSUME NEW g \in Hosts, g # h
        PROVE  (Running(g)' => RecordsOn(g)) /\ (Playing(g)' => PlaysOn(g))
    BY <1>1, <2>4, <2>6 DEF Running, Playing, network_connected, RecordsOn, PlaysOn
  <2> QED
    BY <1>1, <2>5, <2>6, CountSame
<1>3. CASE ServerMeasures /\ net[Server].tests < NUM_OF_TESTPACKETS
  <2> DEFINE e == [net[Server] EXCEPT !.tests = @ + 1]
  <2>1. net' = [net EXCEPT ![Server] = e] /\ net[Server].at = "test"
    BY <1>0, <1>3 DEF ServerMeasures
  <2>2. e.at = "test"
    BY <1>0, <2>1 DEF AHost
  <2> HIDE DEF e
  <2>3. net'[Server] = e /\ \A g \in Hosts : g # Server => net'[g] = net[g]
    BY <1>0, <2>1
  <2>4. ASSUME NEW g \in Hosts
        PROVE  (Running(g)' => RecordsOn(g)) /\ (Playing(g)' => PlaysOn(g))
    BY <1>1, <2>2, <2>3 DEF Running, Playing, network_connected, RecordsOn, PlaysOn
  <2> QED
    BY <1>1, <2>4, CountSame
<1>4. CASE ServerMeasures /\ ~ (net[Server].tests < NUM_OF_TESTPACKETS)
  <2>1. PICK d \in Deltas : net' = [net EXCEPT ![Server] = InitFrames(Server, d, world[Server])]
    BY <1>4 DEF ServerMeasures, Deltas
  <2>2. world[Server] = Own(Server) /\ made[Server] = Nothing
    BY <1>0, <1>4 DEF InGame, ServerWaits, ServerMeasures
  <2> QED
    BY <1>0, <1>2, <2>1, <2>2
<1>5. CASE ClientIsTold
  <2>1. /\ net[Client].at = "test" /\ Got(Client, "delta")
        /\ net' = [net EXCEPT ![Client] = InitFrames(Client, Head(chan[Client]).data, world[Client])]
    BY <1>5 DEF ClientIsTold
  <2>2. Head(chan[Client]).data \in Deltas
    <3>1. Head(chan[Client]) \in AMessage /\ Head(chan[Client]).kind = "delta"
      BY <1>0, <2>1, StreamTypes
    <3> QED
      BY <3>1 DEF AMessage
  <2>3. world[Client] = Own(Server) /\ made[Client] = Nothing
    BY <2>1 DEF InGame, ClientWaits
  <2> QED
    BY <1>0, <1>2, <2>1, <2>2, <2>3
<1>6. CASE DeltaFails /\ net' = [net EXCEPT ![Client] = [@ EXCEPT !.at = "no lists"]]
  <2> DEFINE e == [net[Client] EXCEPT !.at = "no lists"]
  <2>1. net' = [net EXCEPT ![Client] = e]
    BY <1>0, <1>6
  <2>2. e.at = "no lists"
    BY <1>0 DEF AHost
  <2> HIDE DEF e
  <2>3. net'[Client] = e /\ \A g \in Hosts : g # Client => net'[g] = net[g]
    BY <1>0, <2>1
  <2>4. ASSUME NEW g \in Hosts
        PROVE  (Running(g)' => RecordsOn(g)) /\ (Playing(g)' => PlaysOn(g))
    BY <1>1, <2>2, <2>3 DEF Running, Playing, network_connected, RecordsOn, PlaysOn
  <2> QED
    BY <1>1, <2>4, CountSame
<1>7. CASE DeltaFails
  <2>1. world[Client] = Own(Server) /\ made[Client] = Nothing
    BY <1>7 DEF DeltaFails, AwaitsDelta, InGame, ClientWaits
  <2>2. \/ net' = [net EXCEPT ![Client] = [@ EXCEPT !.at = "no lists"]]
        \/ \E d \in Deltas : net' = [net EXCEPT ![Client] = InitFrames(Client, d, world[Client])]
    BY <1>7 DEF DeltaFails, Deltas
  <2> QED
    BY <1>0, <1>2, <1>6, <1>7, <2>1, <2>2
<1> QED
  BY <1>3, <1>4, <1>5, <1>7

\* A host that does not play.
LEMMA CountLeft ==
  ASSUME Types, CountInv, NEW h \in Hosts, NEW e, net' = [net EXCEPT ![h] = e],
         ~ Connected(e.mode) \/ e.at \notin {"run", "events"},
         \A g \in Hosts : g # h => world'[g] = world[g], made' = made
  PROVE  CountInv'
<1>1. net'[h] = e /\ \A g \in Hosts : g # h => net'[g] = net[g]
  BY DEF Types
<1>2. ASSUME NEW g \in Hosts
      PROVE  (Running(g)' => RecordsOn(g)) /\ (Playing(g)' => PlaysOn(g))
  BY <1>1 DEF Running, Playing, network_connected, Connected, RecordsOn, PlaysOn
<1> QED
  BY <1>2, CountSame

\* A host that plays on.
LEMMA CountOn ==
  ASSUME Types, CountInv, NEW h \in Hosts, NEW e, net' = [net EXCEPT ![h] = e],
         e.mode = net[h].mode, e.at = net[h].at, e.lists = net[h].lists,
         e.current_frame = net[h].current_frame, world' = world, made' = made
  PROVE  CountInv'
<1>1. net'[h] = e /\ \A g \in Hosts : g # h => net'[g] = net[g]
  BY DEF Types
<1>2. ASSUME NEW g \in Hosts
      PROVE  (Running(g)' => RecordsOn(g)) /\ (Playing(g)' => PlaysOn(g))
  BY <1>1 DEF Running, Playing, network_connected, RecordsOn, PlaysOn
<1> QED
  BY <1>2, CountSame

\* Before and after the game nothing is made.
LEMMA CountApart ==
  ASSUME Types, Fresh, CountInv,
         \/ network_start_server \/ network_connect_client \/ network_client_connect_trap \/ SnapshotFails
         \/ ClientEchoes \/ \E h \in Hosts : SendFails(h) \/ Leave(h) \/ RecvFails(h)
  PROVE  CountInv'
<1>0. /\ Server \in Hosts /\ Client \in Hosts /\ Server # Client /\ \A h \in Hosts : h = Server \/ h = Client
      /\ net \in [Hosts -> AHost] /\ world \in [Hosts -> AWorld]
  BY TwoHosts DEF Types
<1>1. ASSUME NEW h \in Hosts, NEW e, Left(h, e)
      PROVE  CountInv'
  <2>1. net' = [net EXCEPT ![h] = e] /\ (~ Connected(e.mode) \/ e.at \notin {"run", "events"})
    BY <1>1 DEF Left
  <2>2. made' = made /\ \A g \in Hosts : g # h => world'[g] = world[g]
    BY <1>1 DEF Left
  <2> QED
    BY <2>1, <2>2, CountLeft
<1>2. CASE network_start_server \/ SnapshotFails
  BY <1>1, <1>2, UnmadeIs
<1>3. CASE \E h \in Hosts : SendFails(h) \/ Leave(h) \/ RecvFails(h)
  BY <1>1, <1>3, LeavesIs
<1>4. CASE network_connect_client
  <2>1. net'[Server].at = "test" /\ net'[Client].at = "snapshot" /\ made' = made
    BY <1>0, <1>4 DEF network_connect_client, AHost
  <2>2. \A h \in Hosts : ~ Running(h)' /\ ~ Playing(h)'
    BY <1>0, <2>1 DEF Running, Playing
  <2> QED
    BY <2>1, <2>2, CountSame
<1>5. CASE network_client_connect_trap
  <2> DEFINE e == [net[Client] EXCEPT !.mode = "CLIENT", !.at = "test", !.tests = 0]
  <2>1. net' = [net EXCEPT ![Client] = e] /\ made' = made /\ \A g \in Hosts : g # Client => world'[g] = world[g]
    BY <1>0, <1>5 DEF network_client_connect_trap
  <2>2. e.at \notin {"run", "events"}
    BY <1>0 DEF AHost
  <2> HIDE DEF e
  <2> QED
    BY <1>0, <2>1, <2>2, CountLeft
<1>6. CASE ClientEchoes
  <2> DEFINE e == [net[Client] EXCEPT !.tests = @ + 1]
  <2>1. net' = [net EXCEPT ![Client] = e] /\ made' = made /\ world' = world /\ net[Client].at = "test"
    BY <1>0, <1>6 DEF ClientEchoes
  <2>2. e.at \notin {"run", "events"}
    BY <1>0, <2>1 DEF AHost
  <2> HIDE DEF e
  <2> QED
    BY <1>0, <2>1, <2>2, CountLeft
<1> QED
  BY <1>2, <1>3, <1>4, <1>5, <1>6

\* Nor is anything when a host suspends emulation, or the other tells it that it has.
LEMMA CountSuspend ==
  ASSUME Types, CountInv, NEW h \in Hosts, network_suspend(h) \/ RemoteSuspends(h)
  PROVE  CountInv'
<1> DEFINE e == [net[h] EXCEPT !.suspended = TRUE]
<1>1. net' = [net EXCEPT ![h] = e] /\ made' = made /\ world' = world
  BY DEF network_suspend, RemoteSuspends, Types
<1>2. /\ e.mode = net[h].mode /\ e.at = net[h].at /\ e.lists = net[h].lists
      /\ e.current_frame = net[h].current_frame
  BY DEF Types, AHost
<1> HIDE DEF e
<1> QED
  BY <1>1, <1>2, CountOn

\* No machine was given more rounds than a host has sent lists.
LEMMA RoundsSent ==
  ASSUME Types, InGame, NEW h \in Hosts, NEW g \in Hosts
  PROVE  /\ Len(made[h].past) \in Nat /\ Len(made[g].sent) \in Nat
         /\ Len(made[h].past) <= Len(made[g].sent)
<1>1. /\ Len(made[h].past) \in Nat /\ Len(made[g].sent) \in Nat /\ made[h].past \in Seq(AWorld)
  BY HistoryIs DEF Types
<1>2. RoundsOk(made[h], made[Server], made[Client])
  BY DEF InGame, Histories
<1>3. g = Server \/ g = Client
  BY TwoHosts
<1>4. ASSUME Len(made[h].past) # 0
      PROVE  Len(made[h].past) <= Len(made[g].sent)
  <2>1. Len(made[h].past) \in 1 .. Len(made[h].past)
    BY <1>1, <1>4
  <2>2. /\ Len(made[h].past) <= Len(made[Server].sent)
        /\ Len(made[h].past) <= Len(made[Client].sent)
    BY <1>2, <2>1 DEF RoundsOk
  <2> QED
    BY <1>3, <2>2
<1> QED
  BY <1>1, <1>4

\* An input is recorded.
LEMMA CountRecord ==
  ASSUME Types, InGame, CountInv, NEW h \in Hosts, NEW type \in Inputs, network_event_record(h, type)
  PROVE  CountInv'
<1> DEFINE n == net[h]
           m == made[h]
           c == n.current_frame
           x == [type |-> type, from |-> h, data |-> Len(m.inputs)]
           l == [n.lists EXCEPT ![c].inputs = Append(@, x)]
           e == [n EXCEPT !.lists = l]
           k == Append(m.inputs, [event |-> x, frame |-> m.frames])
           t == [m EXCEPT !.inputs = k]
<1>1. /\ x \in AnInput /\ l \in [0 .. n.frame_delta - 1 -> AList] /\ e \in AHost
      /\ net' = [net EXCEPT ![h] = e]
      /\ made' = [made EXCEPT ![h].inputs = k] /\ made' \in [Hosts -> AHistory] /\ world' = world
  BY RecordIs
<1>2. Running(h) /\ n.at = "run"
  BY DEF network_event_record, Running
<1>3. HostOk(n, m, world[h]) /\ n \in AHost /\ m \in AHistory
  BY <1>2, Plays
<1>4. made' = [made EXCEPT ![h] = t] /\ t \in AHistory
  BY <1>1 DEF Types
<1>5. t.frames = m.frames /\ t.sent = m.sent /\ t.past = m.past /\ t.inputs = k
  <2> HIDE DEF k, m
  <2> QED
    BY <1>3 DEF AHistory
<1>6. e.current_frame = c /\ e.mode = n.mode /\ e.at = n.at /\ e.lists = l
  <2> HIDE DEF l
  <2> QED
    BY <1>3 DEF AHost
<1>7. /\ Len(m.sent) = m.frames /\ m.frames \in Nat /\ c \in 0 .. n.frame_delta - 1
      /\ n.lists \in [0 .. n.frame_delta - 1 -> AList]
  <2> HIDE DEF n, m, c
  <2>1. /\ n.lists \in [0 .. n.frame_delta - 1 -> AList] /\ n.frame_delta \in Nat
        /\ n.current_frame \in Nat /\ n.current_frame <= n.frame_delta - 1
        /\ Len(m.sent) = m.frames
    BY <1>2, <1>3, HostNumbers
  <2> QED
    BY <1>3, <2>1, HistoryIs DEF c
<1>8. n.lists[c] \in AList /\ l[c] \in AList /\ l[c].inputs = Append(n.lists[c].inputs, x)
  <2> HIDE DEF n, x
  <2> QED
    BY <1>1, <1>7 DEF AList
<1>9. Records(m, t, h, x)
  <2>1. x.from = h /\ x.data = Len(m.inputs)
    OBVIOUS
  <2> HIDE DEF x, t
  <2> QED
    BY <1>1, <1>4, <1>5, <2>1 DEF Records
<1>10. Numbered(h, m) /\ ListsCount(m) /\ Recording(n, m)
  BY <1>2 DEF CountInv
<1> HIDE DEF n, m, c, x, l, e, k, t
<1>11. /\ Numbered(h, t)
       /\ \A r \in Nat : /\ r <= m.frames => Until(t, r) = Until(m, r)
                         /\ r < m.frames => InFrame(t, r) = InFrame(m, r)
       /\ \A i \in DOMAIN m.inputs : t.inputs[i] = m.inputs[i]
  BY <1>3, <1>9, <1>10, InputMore
<1>12. ListsCount(t)
  <2> SUFFICES ASSUME NEW j \in 1 .. Len(m.sent)
               PROVE  ListIs(m.sent[j], t, j - 1)
    BY <1>5 DEF ListsCount
  <2>1. j - 1 \in Nat /\ j - 1 < m.frames
    BY <1>7
  <2>2. InFrame(t, j - 1) = InFrame(m, j - 1)
    BY <1>11, <2>1
  <2>3. ListIs(m.sent[j], m, j - 1)
    BY <1>10 DEF ListsCount
  <2>4. \A i \in InFrame(m, j - 1) : i \in DOMAIN m.inputs
    BY DEF InFrame
  <2> QED
    BY <1>11, <2>2, <2>3, <2>4, HoldsStill DEF ListIs
<1>13. Recording(e, t)
  <2>1. ListIs(n.lists[c], m, m.frames)
    BY <1>10 DEF Recording, c
  <2>2. ListIs(l[c], t, t.frames)
    BY <1>3, <1>8, <1>9, <1>10, <2>1, ListMore
  <2> QED
    BY <1>6, <2>2 DEF Recording
<1>14. ASSUME NEW w, NEW r \in Nat, r <= m.frames, Given(w, h, m, r)
       PROVE  Given(w, h, t, r)
  <2>1. Until(t, r) = Until(m, r)
    BY <1>11, <1>14
  <2>2. \A i \in Until(m, r) : i \in DOMAIN m.inputs
    BY DEF Until
  <2>3. Holds(w, InputsOf(w, h), m, Until(m, r))
    BY <1>14 DEF Given
  <2> QED
    BY <1>11, <2>1, <2>2, <2>3, HoldsStill DEF Given
<1>15. /\ made'[h] = t /\ net'[h] = e /\ made[h] = m /\ net[h] = n
       /\ \A g \in Hosts : g # h => made'[g] = made[g] /\ net'[g] = net[g]
       /\ \A g \in Hosts : made'[g].past = made[g].past
  <2>1. made[h] = m /\ net[h] = n
    BY DEF m, n
  <2> QED
    BY <1>1, <1>4, <1>5, <2>1 DEF Types
<1>16. ASSUME NEW g \in Hosts
       PROVE  /\ Numbered(g, made'[g]) /\ ListsCount(made'[g])
              /\ Running(g)' => Recording(net'[g], made'[g])
  <2>1. CASE g = h
    BY <1>11, <1>12, <1>13, <1>15, <2>1
  <2>2. CASE g # h
    BY <1>15, <2>2 DEF CountInv, Running, network_connected
  <2> QED
    BY <2>1, <2>2
<1>17. ASSUME NEW g \in Hosts, Playing(g)'
       PROVE  /\ Len(world[g]) >= 1
              /\ \A o \in Hosts : Given(world[g], o, made'[o], Len(made[g].past))
  <2>1. Playing(g)
    BY <1>6, <1>15, <1>17 DEF Playing, network_connected
  <2>2. Len(world[g]) >= 1 /\ \A o \in Hosts : Given(world[g], o, made[o], Len(made[g].past))
    BY <2>1 DEF CountInv
  <2>3. Len(made[g].past) \in Nat /\ Len(made[g].past) <= m.frames
    BY <1>7, RoundsSent DEF m
  <2>4. ASSUME NEW o \in Hosts
        PROVE  Given(world[g], o, made'[o], Len(made[g].past))
    BY <1>14, <1>15, <2>2, <2>3
  <2> QED
    BY <2>2, <2>4
<1> QED
  BY <1>1, <1>15, <1>16, <1>17 DEF CountInv

\* A list is sent, and the next frame begins or the host waits.
LEMMA CountSend ==
  ASSUME Types, InGame, CountInv, NEW h \in Hosts, network_hook_connected_send(h)
  PROVE  CountInv'
<1> DEFINE n == net[h]
           m == made[h]
           l == n.lists[n.current_frame]
           p == FrameToPlay(n)
           L == [n.lists EXCEPT ![p] = FrameList(world[h])]
           b == [n EXCEPT !.suspended = FALSE, !.frame_buffer_full = Full(n), !.at = "events"]
           r == [n EXCEPT !.suspended = FALSE, !.frame_buffer_full = Full(n), !.current_frame = p, !.lists = L]
           e == IF Full(n) THEN b ELSE r
           t == [m EXCEPT !.sent = Append(@, l), !.frames = IF Full(n) THEN @ ELSE @ + 1]
<1>1. /\ n.at = "run" /\ l \in AList /\ p \in 0 .. n.frame_delta - 1
      /\ L \in [0 .. n.frame_delta - 1 -> AList] /\ net' = [net EXCEPT ![h] = e]
      /\ made' = [made EXCEPT ![h] = t] /\ t \in AHistory /\ world' = world
  BY SendIs
<1>2. Running(h)
  BY DEF network_hook_connected_send
<1>3. HostOk(n, m, world[h]) /\ n \in AHost /\ m \in AHistory
  BY <1>2, Plays
<1>4. /\ t.frames = (IF Full(n) THEN m.frames ELSE m.frames + 1)
      /\ t.sent = Append(m.sent, l) /\ t.past = m.past /\ t.inputs = m.inputs
  <2> HIDE DEF l, n, m
  <2> QED
    BY <1>3 DEF AHistory
<1>5. /\ b.at = "events" /\ b.mode = n.mode
      /\ r.at = n.at /\ r.mode = n.mode /\ r.current_frame = p /\ r.lists = L
  <2> HIDE DEF L, p
  <2> QED
    BY <1>3 DEF AHost
<1>6. L[p].inputs = <<>>
  <2>1. L[p] = FrameList(world[h])
    <3>1. n.lists \in [0 .. n.frame_delta - 1 -> AList]
      <4> HIDE DEF n, m
      <4> QED
        BY <1>3, HostNumbers
    <3> HIDE DEF p, n
    <3> QED
      BY <1>1, <3>1
  <2> HIDE DEF L, p
  <2> QED
    BY <2>1 DEF FrameList
<1>7. Numbered(h, m) /\ ListsCount(m) /\ ListIs(l, m, m.frames)
  BY <1>2 DEF CountInv, Recording
<1>8. m = made[h] /\ n = net[h]
  OBVIOUS
<1> HIDE DEF n, m, l, p, L, b, r, e, t
<1>9. m.frames \in Nat /\ Len(m.sent) = m.frames /\ m.sent \in Seq(AList)
  BY <1>1, <1>3, HistoryIs, HostNumbers
<1>10. Numbered(h, t)
  <2>1. m.frames <= t.frames /\ t.frames \in Nat
    BY <1>4, <1>9
  <2>2. \A i \in DOMAIN m.inputs : m.inputs[i].frame \in Nat
    BY <1>3, InputsAre
  <2>3. \A i \in DOMAIN m.inputs : m.inputs[i].frame <= t.frames
    BY <1>7, <1>9, <2>1, <2>2 DEF Numbered
  <2> QED
    BY <1>4, <1>7, <2>3 DEF Numbered
<1>11. ListsCount(t)
  <2> SUFFICES ASSUME NEW j \in 1 .. Len(t.sent)
               PROVE  ListIs(t.sent[j], t, j - 1)
    BY DEF ListsCount
  <2>1. /\ Len(t.sent) = m.frames + 1 /\ t.sent[m.frames + 1] = l
        /\ \A i \in 1 .. m.frames : t.sent[i] = m.sent[i]
    BY <1>1, <1>4, <1>9, OneMore
  <2>2. CASE j = m.frames + 1
    <3>1. j - 1 = m.frames
      BY <1>9, <2>2
    <3> QED
      BY <1>4, <1>7, <2>1, <2>2, <3>1, InputsOnly
  <2>3. CASE j # m.frames + 1
    <3>1. j \in 1 .. Len(m.sent) /\ t.sent[j] = m.sent[j]
      BY <1>9, <2>1, <2>3
    <3>2. ListIs(m.sent[j], m, j - 1)
      BY <1>7, <3>1 DEF ListsCount
    <3> QED
      BY <1>4, <3>1, <3>2, InputsOnly
  <2> QED
    BY <2>2, <2>3
<1>12. /\ made'[h] = t /\ net'[h] = e
       /\ \A g \in Hosts : g # h => made'[g] = made[g] /\ net'[g] = net[g]
       /\ \A g \in Hosts : made'[g].past = made[g].past /\ made'[g].inputs = made[g].inputs
  BY <1>1, <1>4, <1>8 DEF Types
<1>13. Running(h)' => Recording(e, t)
  <2>1. CASE Full(n)
    <3>1. e.at = "events"
      BY <1>5, <2>1 DEF e
    <3> QED
      BY <1>12, <3>1 DEF Running
  <2>2. CASE ~ Full(n)
    <3>1. e = r /\ t.frames = m.frames + 1
      BY <1>4, <2>2 DEF e
    <3>2. ListIs(L[p], m, m.frames + 1)
      <4>1. m.frames + 1 \in Nat /\ m.frames + 1 > m.frames
        BY <1>9
      <4> QED
        BY <1>3, <1>6, <1>7, <4>1, ListEmpty
    <3> QED
      BY <1>4, <1>5, <3>1, <3>2, InputsOnly DEF Recording
  <2> QED
    BY <2>1, <2>2
<1>14. ASSUME NEW g \in Hosts
       PROVE  /\ Numbered(g, made'[g]) /\ ListsCount(made'[g])
              /\ Running(g)' => Recording(net'[g], made'[g])
  <2>1. CASE g = h
    BY <1>10, <1>11, <1>12, <1>13, <2>1
  <2>2. CASE g # h
    BY <1>12, <2>2 DEF CountInv, Running, network_connected
  <2> QED
    BY <2>1, <2>2
<1>15. ASSUME NEW g \in Hosts, Playing(g)'
       PROVE  /\ Len(world[g]) >= 1
              /\ \A o \in Hosts : Given(world[g], o, made'[o], Len(made[g].past))
  <2>1. Playing(g)
    <3>1. e.mode = n.mode
      BY <1>5 DEF e
    <3> QED
      BY <1>1, <1>2, <1>8, <1>12, <1>15, <3>1 DEF Playing, network_connected, Running
  <2> QED
    BY <1>12, <2>1, InputsOnly DEF CountInv
<1> QED
  BY <1>1, <1>12, <1>14, <1>15 DEF CountInv

\* Three sequences in a row.
LEMMA ThreeParts ==
  ASSUME NEW S, NEW w \in Seq(S), NEW a \in Seq(S), NEW b \in Seq(S)
  PROVE  LET v == w \o (a \o b)
         IN  /\ Len(v) = Len(w) + Len(a) + Len(b)
             /\ \A i \in 1 .. Len(w) : v[i] = w[i]
             /\ \A i \in 1 .. Len(a) : v[Len(w) + i] = a[i]
             /\ \A i \in 1 .. Len(b) : v[(Len(w) + Len(a)) + i] = b[i]
<1> DEFINE N == Len(w)
           P == Len(a)
           Q == Len(b)
           u == a \o b
           v == w \o u
<1>1. N \in Nat /\ P \in Nat /\ Q \in Nat
  OBVIOUS
<1>2. /\ u \in Seq(S) /\ Len(u) = P + Q
      /\ \A i \in 1 .. P + Q : u[i] = IF i <= P THEN a[i] ELSE b[i - P]
  BY ConcatProperties
<1> HIDE DEF u
<1>3. /\ Len(v) = N + Len(u)
      /\ \A i \in 1 .. N + Len(u) : v[i] = IF i <= N THEN w[i] ELSE u[i - N]
  <2>1. /\ Len(w \o u) = Len(w) + Len(u)
        /\ \A i \in 1 .. Len(w) + Len(u) : (w \o u)[i] = IF i <= Len(w) THEN w[i] ELSE u[i - Len(w)]
    <3>1. w \in Seq(S) /\ u \in Seq(S)
      BY <1>2
    <3> QED
      BY ONLY <3>1, ConcatProperties
  <2> QED
    BY ONLY <2>1
<1> HIDE DEF v, N, P, Q
<1>4. \A i \in 1 .. P : u[i] = a[i]
  BY <1>1, <1>2
<1>5. ASSUME NEW i \in 1 .. Q
      PROVE  u[P + i] = b[i]
  <2>1. P + i \in 1 .. P + Q /\ ~ (P + i <= P) /\ (P + i) - P = i
    BY <1>1
  <2> QED
    BY <1>2, <2>1
<1>6. ASSUME NEW i \in 1 .. N
      PROVE  v[i] = w[i]
  BY <1>1, <1>2, <1>3
<1>7. ASSUME NEW i \in 1 .. P + Q
      PROVE  v[N + i] = u[i]
  <2>1. N + i \in 1 .. N + (P + Q) /\ ~ (N + i <= N) /\ (N + i) - N = i
    BY <1>1
  <2> QED
    BY <1>2, <1>3, <2>1
<1>8. ASSUME NEW i \in 1 .. P
      PROVE  v[N + i] = a[i]
  <2>1. i \in 1 .. P + Q
    BY <1>1
  <2> QED
    BY <1>4, <1>7, <2>1
<1>9. ASSUME NEW i \in 1 .. Q
      PROVE  v[(N + P) + i] = b[i]
  <2>1. P + i \in 1 .. P + Q /\ (N + P) + i = N + (P + i)
    BY <1>1
  <2> QED
    BY <1>5, <1>7, <2>1
<1>10. Len(v) = N + P + Q
  BY <1>1, <1>2, <1>3
<1> QED
  BY <1>6, <1>8, <1>9, <1>10 DEF u, v, N, P, Q

\* v is a machine w that was given a list a and then a list b.
Row(v, w, a, b, N, P, Q) ==
  /\ N \in Nat /\ P \in Nat /\ Q \in Nat /\ N >= 1
  /\ N = Len(w) /\ DOMAIN a = 1 .. P /\ DOMAIN b = 1 .. Q /\ Len(v) = N + P + Q
  /\ \A i \in 1 .. N : v[i] = w[i]
  /\ \A i \in 1 .. P : v[N + i] = a[i]
  /\ \A i \in 1 .. Q : v[(N + P) + i] = b[i]

\* All of a list comes from a host.
AllFrom(list, g) == \A i \in DOMAIN list : list[i].from = g

\* Where the inputs of two hosts are in a machine given a list of the one and then one of the other.
LEMMA PlacesMore ==
  ASSUME NEW w, NEW a, NEW b, NEW v, NEW N, NEW P, NEW Q, Row(v, w, a, b, N, P, Q),
         NEW g, NEW h, g # h, AllFrom(a, g), AllFrom(b, h)
  PROVE  /\ Joins(v, InputsOf(v, g), w, InputsOf(w, g), a, N)
         /\ Joins(v, InputsOf(v, h), w, InputsOf(w, h), b, N + P)
<1>0. /\ N \in Nat /\ P \in Nat /\ Q \in Nat /\ N >= 1
      /\ N = Len(w) /\ DOMAIN a = 1 .. P /\ DOMAIN b = 1 .. Q /\ Len(v) = N + P + Q
      /\ \A i \in 1 .. N : v[i] = w[i]
      /\ \A i \in 1 .. P : v[N + i] = a[i] /\ a[i].from = g
      /\ \A i \in 1 .. Q : v[(N + P) + i] = b[i] /\ b[i].from = h
  BY DEF Row, AllFrom
<1>1. ASSUME NEW i \in 2 .. Len(v)
      PROVE  \/ i \in 2 .. N
             \/ \E k \in 1 .. P : i = N + k
             \/ \E k \in 1 .. Q : i = (N + P) + k
  <2>1. CASE i <= N
    BY <1>0, <2>1
  <2>2. CASE i > N /\ i <= N + P
    <3>1. i - N \in 1 .. P /\ i = N + (i - N)
      BY <1>0, <2>2
    <3> QED
      BY <1>0, <3>1
  <2>3. CASE i > N + P
    <3>1. i - (N + P) \in 1 .. Q /\ i = (N + P) + (i - (N + P))
      BY <1>0, <2>3
    <3> QED
      BY <1>0, <3>1
  <2> QED
    BY <1>0, <2>1, <2>2, <2>3
<1>2. /\ \A i \in 2 .. N : i \in 2 .. Len(v) /\ i \in Nat /\ i <= N /\ v[i] = w[i]
      /\ \A i \in 1 .. P : N + i \in 2 .. Len(v)
      /\ \A i \in 1 .. Q : (N + P) + i \in 2 .. Len(v)
  BY <1>0
<1>3. /\ \A i : i \in InputsOf(v, g) <=> i \in 2 .. Len(v) /\ v[i].from = g
      /\ \A i : i \in InputsOf(w, g) <=> i \in 2 .. N /\ w[i].from = g
      /\ \A i : i \in InputsOf(v, h) <=> i \in 2 .. Len(v) /\ v[i].from = h
      /\ \A i : i \in InputsOf(w, h) <=> i \in 2 .. N /\ w[i].from = h
  BY <1>0 DEF InputsOf
<1>4. ASSUME NEW j
      PROVE  j \in InputsOf(v, g) <=> j \in InputsOf(w, g) \/ \E i \in 1 .. P : j = N + i
  <2>1. ASSUME j \in InputsOf(v, g)
        PROVE  j \in InputsOf(w, g) \/ \E i \in 1 .. P : j = N + i
    <3>1. j \in 2 .. Len(v) /\ v[j].from = g
      BY <1>0, <1>3, <2>1
    <3>2. CASE j \in 2 .. N
      BY <1>0, <1>2, <1>3, <3>1, <3>2
    <3>3. ASSUME NEW k \in 1 .. Q, j = (N + P) + k
          PROVE  FALSE
      BY <1>0, <3>1, <3>3
    <3> QED
      BY <1>0, <1>1, <3>1, <3>2, <3>3
  <2>2. ASSUME j \in InputsOf(w, g)
        PROVE  j \in InputsOf(v, g)
    <3>1. j \in 2 .. N /\ w[j].from = g
      BY <1>3, <2>2
    <3>2. j \in 2 .. Len(v) /\ v[j] = w[j]
      BY <1>2, <3>1
    <3> QED
      BY <1>3, <3>1, <3>2
  <2>3. ASSUME NEW i \in 1 .. P, j = N + i
        PROVE  j \in InputsOf(v, g)
    <3>1. v[j].from = g
      BY <1>0, <2>3
    <3>2. j \in 2 .. Len(v)
      BY <1>2, <2>3
    <3> QED
      BY <1>3, <3>1, <3>2
  <2> QED
    BY <1>0, <2>1, <2>2, <2>3
<1>5. ASSUME NEW j
      PROVE  j \in InputsOf(v, h) <=> j \in InputsOf(w, h) \/ \E i \in 1 .. Q : j = (N + P) + i
  <2>1. ASSUME j \in InputsOf(v, h)
        PROVE  j \in InputsOf(w, h) \/ \E i \in 1 .. Q : j = (N + P) + i
    <3>1. j \in 2 .. Len(v) /\ v[j].from = h
      BY <1>0, <1>3, <2>1
    <3>2. CASE j \in 2 .. N
      BY <1>0, <1>2, <1>3, <3>1, <3>2
    <3>3. ASSUME NEW k \in 1 .. P, j = N + k
          PROVE  FALSE
      BY <1>0, <3>1, <3>3
    <3> QED
      BY <1>0, <1>1, <3>1, <3>2, <3>3
  <2>2. ASSUME j \in InputsOf(w, h)
        PROVE  j \in InputsOf(v, h)
    <3>1. j \in 2 .. N /\ w[j].from = h
      BY <1>3, <2>2
    <3>2. j \in 2 .. Len(v) /\ v[j] = w[j]
      BY <1>2, <3>1
    <3> QED
      BY <1>3, <3>1, <3>2
  <2>3. ASSUME NEW i \in 1 .. Q, j = (N + P) + i
        PROVE  j \in InputsOf(v, h)
    <3>1. v[j].from = h
      BY <1>0, <2>3
    <3>2. j \in 2 .. Len(v)
      BY <1>2, <2>3
    <3> QED
      BY <1>3, <3>1, <3>2
  <2> QED
    BY <1>0, <2>1, <2>2, <2>3
<1>6. /\ \A i \in InputsOf(w, g) : i \in Nat /\ i <= N /\ v[i] = w[i]
      /\ \A i \in InputsOf(w, h) : i \in Nat /\ i <= N + P /\ v[i] = w[i]
  BY <1>0, <1>2, <1>3
<1>7. 1 .. P \subseteq Nat \ {0} /\ 1 .. Q \subseteq Nat \ {0} /\ N + P \in Nat
  BY <1>0
<1>8. Joins(v, InputsOf(v, g), w, InputsOf(w, g), a, N)
  <2>1. \A j : j \in InputsOf(v, g) <=> j \in InputsOf(w, g) \/ \E i \in DOMAIN a : j = N + i
    BY <1>0, <1>4
  <2> QED
    BY <1>0, <1>6, <1>7, <2>1 DEF Joins
<1>9. Joins(v, InputsOf(v, h), w, InputsOf(w, h), b, N + P)
  <2>1. \A j : j \in InputsOf(v, h) <=> j \in InputsOf(w, h) \/ \E i \in DOMAIN b : j = (N + P) + i
    BY <1>0, <1>5
  <2> QED
    BY <1>0, <1>6, <1>7, <2>1 DEF Joins
<1> QED
  BY <1>0, <1>8, <1>9

\* A machine that is given a round more: both lists of the next frame, the server's first.
LEMMA GivenMore ==
  ASSUME NEW w \in AWorld, Len(w) >= 1, NEW a \in AList, NEW b \in AList, NEW r \in Nat,
         NEW s \in AHistory, Numbered(Server, s), Given(w, Server, s, r), ListIs(a, s, r),
         NEW c \in AHistory, Numbered(Client, c), Given(w, Client, c, r), ListIs(b, c, r),
         NEW v, v = w \o (a.inputs \o b.inputs)
  PROVE  /\ Len(v) >= 1
         /\ Given(v, Server, s, r + 1) /\ Given(v, Client, c, r + 1)
<1> DEFINE A == a.inputs
           B == b.inputs
           N == Len(w)
           P == Len(A)
           Q == Len(B)
           X == [kind : {"own"}, data : Hosts] \cup AnInput
<1>1. w \in Seq(X) /\ A \in Seq(X) /\ B \in Seq(X) /\ v = w \o (A \o B)
  BY DEF AWorld, AList
<1>2. /\ Holds(A, DOMAIN A, s, InFrame(s, r)) /\ Holds(B, DOMAIN B, c, InFrame(c, r))
      /\ Holds(w, InputsOf(w, Server), s, Until(s, r)) /\ Holds(w, InputsOf(w, Client), c, Until(c, r))
  BY DEF ListIs, Given
<1>3. N >= 1
  OBVIOUS
<1> HIDE DEF A, B, X
<1>4. /\ N \in Nat /\ P \in Nat /\ Q \in Nat /\ DOMAIN A = 1 .. P /\ DOMAIN B = 1 .. Q
  BY <1>1
<1>5. /\ Len(v) = N + P + Q
      /\ \A i \in 1 .. N : v[i] = w[i]
      /\ \A i \in 1 .. P : v[N + i] = A[i]
      /\ \A i \in 1 .. Q : v[(N + P) + i] = B[i]
  BY ONLY <1>1, ThreeParts
<1>6. AllFrom(A, Server) /\ AllFrom(B, Client)
  <2>1. ASSUME NEW l, NEW g, NEW m, Numbered(g, m), Holds(l, DOMAIN l, m, InFrame(m, r))
        PROVE  AllFrom(l, g)
    BY <2>1 DEF Holds, Numbered, InFrame, AllFrom
  <2> QED
    BY <1>2, <2>1
<1>7. Server # Client /\ N = Len(w)
  BY TwoHosts
<1> HIDE DEF N, P, Q
<1>8. /\ Joins(v, InputsOf(v, Server), w, InputsOf(w, Server), A, N)
      /\ Joins(v, InputsOf(v, Client), w, InputsOf(w, Client), B, N + P)
  <2>1. Row(v, w, A, B, N, P, Q)
    BY ONLY <1>3, <1>4, <1>5, <1>7 DEF Row
  <2> QED
    BY ONLY <1>6, <1>7, <2>1, PlacesMore
<1>9. /\ Until(s, r + 1) = Until(s, r) \cup InFrame(s, r) /\ Before(s, Until(s, r), InFrame(s, r))
      /\ Until(c, r + 1) = Until(c, r) \cup InFrame(c, r) /\ Before(c, Until(c, r), InFrame(c, r))
  BY NumbersGrow
<1>10. Holds(v, InputsOf(v, Server), s, Until(s, r) \cup InFrame(s, r))
  BY ONLY <1>2, <1>8, <1>9, HoldsMore
<1>11. Holds(v, InputsOf(v, Client), c, Until(c, r) \cup InFrame(c, r))
  BY ONLY <1>2, <1>8, <1>9, HoldsMore
<1>12. Len(v) >= 1
  BY ONLY <1>3, <1>4, <1>5
<1> QED
  BY <1>9, <1>10, <1>11, <1>12 DEF Given

\* The lists of a frame are played.
LEMMA CountReceive ==
  ASSUME Types, InGame, CountInv, NEW h \in Hosts, network_hook_connected_receive(h)
  PROVE  CountInv'
<1> DEFINE n == net[h]
           m == made[h]
           o == made[Other(h)]
           j == Len(m.past)
           p == FrameToPlay(n)
           x == Head(chan[h]).data
           w == world[h] \o Order(h, n.lists[p].inputs, x.inputs)
           L == [n.lists EXCEPT ![p] = FrameList(w)]
           e == [n EXCEPT !.current_frame = p, !.lists = L, !.at = "run"]
           t == [m EXCEPT !.frames = @ + 1, !.past = Append(@, w)]
<1>1. /\ n.at = "events" /\ Got(h, "events") /\ w \in AWorld /\ t \in AHistory
      /\ p = (IF n.current_frame = n.frame_delta - 1 THEN 0 ELSE n.current_frame + 1)
      /\ p \in 0 .. n.frame_delta - 1
      /\ (~ OutOfSync(n.lists[p], x) => net' = [net EXCEPT ![h] = e])
      /\ made' = [made EXCEPT ![h] = t] /\ world' = [world EXCEPT ![h] = w]
  BY ReceiveIs
<1>2. Playing(h) /\ HostOk(n, m, world[h]) /\ n \in AHost /\ m \in AHistory /\ o \in AHistory
  BY <1>1, Plays
<1>3. /\ j \in Nat /\ j + 1 <= Len(m.sent) /\ j + 1 <= Len(o.sent)
      /\ n.lists[p] = m.sent[j + 1] /\ x = o.sent[j + 1] /\ ~ OutOfSync(n.lists[p], x)
  <2> HIDE DEF p
  <2> QED
    BY <1>1, ReceivesNext
<1>4. /\ t.frames = m.frames + 1 /\ t.sent = m.sent /\ t.past = Append(m.past, w) /\ t.inputs = m.inputs
  <2> HIDE DEF w, m
  <2> QED
    BY <1>2 DEF AHistory
<1>5. e.at = "run" /\ e.mode = n.mode /\ e.current_frame = p /\ e.lists = L
  <2> HIDE DEF L, p
  <2> QED
    BY <1>2 DEF AHost
<1>6. L[p].inputs = <<>>
  <2>1. n.lists \in [0 .. n.frame_delta - 1 -> AList]
    <3> HIDE DEF n, m
    <3> QED
      BY <1>2, HostNumbers
  <2>2. L[p] = FrameList(w)
    <3> HIDE DEF p, n, w
    <3> QED
      BY <1>1, <2>1
  <2> HIDE DEF L, p
  <2> QED
    BY <2>2 DEF FrameList
<1>7. /\ made[Server].sent[j + 1] \in AList /\ made[Client].sent[j + 1] \in AList
      /\ j + 1 \in 1 .. Len(made[Server].sent) /\ j + 1 \in 1 .. Len(made[Client].sent)
      /\ w = world[h] \o (made[Server].sent[j + 1].inputs \o made[Client].sent[j + 1].inputs)
  <2>1. (h = Server /\ Other(h) = Client) \/ (h = Client /\ Other(h) = Server)
    BY TwoHosts
  <2>2. Order(h, n.lists[p].inputs, x.inputs)
          = made[Server].sent[j + 1].inputs \o made[Client].sent[j + 1].inputs
    <3> HIDE DEF p, x
    <3> QED
      BY <1>3, <2>1, TwoHosts DEF Order
  <2>3. /\ m.sent[j + 1] \in AList /\ o.sent[j + 1] \in AList
        /\ j + 1 \in 1 .. Len(m.sent) /\ j + 1 \in 1 .. Len(o.sent)
    <3> HIDE DEF m, o, j, p, x
    <3>1. Len(m.sent) \in Nat /\ Len(o.sent) \in Nat
      BY <1>2, HistoryIs
    <3>2. j + 1 \in 1 .. Len(m.sent) /\ j + 1 \in 1 .. Len(o.sent)
      BY <1>3, <3>1
    <3> QED
      BY <1>2, <3>2, HistoryIs
  <2>4. w = world[h] \o Order(h, n.lists[p].inputs, x.inputs)
    OBVIOUS
  <2> HIDE DEF w, p, x, j
  <2> QED
    BY <2>1, <2>2, <2>3, <2>4
<1>8. m = made[h] /\ n = net[h] /\ j = Len(made[h].past)
  OBVIOUS
<1> HIDE DEF n, m, o, j, p, x, w, L, e, t
<1>9. \A g \in Hosts : made[g] \in AHistory /\ Numbered(g, made[g]) /\ ListsCount(made[g])
  BY DEF Types, CountInv
<1>10. m.frames \in Nat /\ Numbered(h, m) /\ ListsCount(m)
  BY <1>2, <1>8, <1>9, HistoryIs
<1>11. Numbered(h, t) /\ ListsCount(t)
  <2>1. \A i \in DOMAIN m.inputs : m.inputs[i].frame \in Nat /\ m.inputs[i].frame <= m.frames
    BY <1>2, <1>10, InputsAre DEF Numbered
  <2>2. \A i \in DOMAIN m.inputs : m.inputs[i].frame <= t.frames
    BY <1>4, <1>10, <2>1
  <2>3. Numbered(h, t)
    BY <1>4, <1>10, <2>2 DEF Numbered
  <2> QED
    BY <1>4, <1>10, <2>3, InputsOnly DEF ListsCount
<1>12. Recording(e, t)
  <2>1. m.frames + 1 \in Nat /\ m.frames + 1 > m.frames
    BY <1>10
  <2>2. ListIs(L[p], m, m.frames + 1)
    BY <1>2, <1>6, <1>10, <2>1, ListEmpty
  <2> QED
    BY <1>4, <1>5, <2>2, InputsOnly DEF Recording
<1>13. Len(w) >= 1 /\ \A g \in Hosts : Given(w, g, made[g], j + 1)
  <2> DEFINE s == made[Server]
             c == made[Client]
             a == s.sent[j + 1]
             b == c.sent[j + 1]
  <2>1. /\ Len(world[h]) >= 1 /\ Given(world[h], Server, s, j) /\ Given(world[h], Client, c, j)
    BY <1>2, <1>8, TwoHosts DEF CountInv
  <2>2. ListIs(a, s, j) /\ ListIs(b, c, j)
    <3>1. (j + 1) - 1 = j
      BY <1>3
    <3>2. ListsCount(s) /\ ListsCount(c)
      BY <1>9, TwoHosts
    <3>3. j + 1 \in 1 .. Len(s.sent) /\ j + 1 \in 1 .. Len(c.sent)
      BY <1>7
    <3> HIDE DEF s, c
    <3> QED
      BY <3>1, <3>2, <3>3 DEF ListsCount
  <2>3. /\ s \in AHistory /\ Numbered(Server, s) /\ c \in AHistory /\ Numbered(Client, c)
        /\ a \in AList /\ b \in AList /\ w = world[h] \o (a.inputs \o b.inputs) /\ j \in Nat
    BY <1>3, <1>7, <1>9, TwoHosts
  <2>4. world[h] \in AWorld
    BY DEF Types
  <2> HIDE DEF s, c, a, b
  <2>5. Len(w) >= 1 /\ Given(w, Server, s, j + 1) /\ Given(w, Client, c, j + 1)
    BY ONLY <2>1, <2>2, <2>3, <2>4, GivenMore
  <2> QED
    BY <2>5, TwoHosts DEF s, c
<1>14. Len(t.past) = j + 1
  <2>1. m.past \in Seq(AWorld)
    BY <1>2, HistoryIs
  <2> QED
    BY <1>1, <1>4, <1>8, <2>1, OneMore
<1>15. /\ made'[h] = t /\ net'[h] = e /\ world'[h] = w
       /\ \A g \in Hosts : g # h => made'[g] = made[g] /\ net'[g] = net[g] /\ world'[g] = world[g]
       /\ \A g \in Hosts : made'[g].inputs = made[g].inputs
  BY <1>1, <1>3, <1>4, <1>8 DEF Types
<1>16. ASSUME NEW g \in Hosts
       PROVE  /\ Numbered(g, made'[g]) /\ ListsCount(made'[g])
              /\ Running(g)' => Recording(net'[g], made'[g])
  <2>1. CASE g = h
    BY <1>11, <1>12, <1>15, <2>1
  <2>2. CASE g # h
    BY <1>15, <2>2 DEF CountInv, Running, network_connected
  <2> QED
    BY <2>1, <2>2
<1>17. ASSUME NEW g \in Hosts, Playing(g)'
       PROVE  /\ Len(world'[g]) >= 1
              /\ \A k \in Hosts : Given(world'[g], k, made'[k], Len(made'[g].past))
  <2>1. CASE g = h
    BY <1>13, <1>14, <1>15, <2>1, InputsOnly
  <2>2. CASE g # h
    <3>1. Playing(g)
      BY <1>15, <1>17, <2>2 DEF Playing, network_connected
    <3> QED
      BY <1>15, <2>2, <3>1, InputsOnly DEF CountInv
  <2> QED
    BY <2>1, <2>2
<1> QED
  BY <1>16, <1>17 DEF CountInv

\* No step loses an input, or gives one twice.
LEMMA NextCounts ==
  ASSUME Types, Fresh, InGame, CountInv, NetNext
  PROVE  CountInv'
<1>1. \/ network_start_server \/ network_connect_client \/ network_client_connect_trap \/ SnapshotFails
      \/ ClientEchoes \/ ServerMeasures \/ ClientIsTold \/ DeltaFails
      \/ \E h \in Hosts : HostSteps(h)
  BY Zenon DEF NetNext, HostSteps
<1>2. ASSUME NEW h \in Hosts, HostSteps(h)
      PROVE  CountInv'
  <2>1. ASSUME NEW type \in Inputs, network_event_record(h, type)
        PROVE  CountInv'
    BY <2>1, CountRecord
  <2>2. CASE SendFails(h) \/ Leave(h) \/ RecvFails(h)
    BY <2>2, CountApart
  <2> QED
    BY <1>2, <2>1, <2>2, CountSuspend, CountSend, CountReceive, Zenon DEF HostSteps
<1> QED
  BY <1>1, <1>2, CountApart, CountMeasures, Zenon

\* At first there are none.
LEMMA InitCounts == NetInit => CountInv
<1> SUFFICES ASSUME NetInit, NEW h \in Hosts
             PROVE  /\ Numbered(h, made[h]) /\ ListsCount(made[h])
                    /\ ~ network_connected(h)
  BY DEF CountInv, Running, Playing
<1>1. ~ network_connected(h)
  BY DEF NetInit, network_connected
<1>2. made[h].inputs = <<>> /\ Len(made[h].sent) = 0
  BY DEF NetInit
<1> QED
  BY <1>1, <1>2 DEF Numbered, ListsCount

\* What the invariant says of the inputs a machine was given.
LEMMA Counted == NetInv /\ CountInv => InputsCountOnce
<1> SUFFICES ASSUME NetInv, CountInv, NEW h \in Hosts, NEW g \in Hosts, Playing(h)
             PROVE  LET given == InputsOf(world[h], g)
                        due   == {i \in ToSet(made[g].inputs) : i.frame + net[h].frame_delta <= made[h].frames}
                    IN  /\ {world[h][i] : i \in given} = {i.event : i \in due}
                        /\ \A i, j \in given : i < j => world[h][i].data < world[h][j].data
  BY DEF InputsCountOnce
<1> DEFINE w == world[h]
           m == made[g]
           r == Len(made[h].past)
           d == net[h].frame_delta
           f == made[h].frames
           I == InputsOf(w, g)
           due == {i \in ToSet(m.inputs) : i.frame + d <= f}
<1>1. HostOk(net[h], made[h], w) /\ made[h] \in AHistory /\ m \in AHistory
  BY DEF NetInv, InGame, GameOf, Types
<1>2. d \in Nat /\ f \in Nat /\ r = RoundsAt(f, d)
  BY <1>1, HostNumbers, HistoryIs
<1>3. Holds(w, I, m, Until(m, r))
  BY DEF CountInv, Given
<1> HIDE DEF w, m, r, d, f, I
<1>4. \A k \in DOMAIN m.inputs : m.inputs[k].frame \in Nat
  BY <1>1, InputsAre
<1>5. \A k \in DOMAIN m.inputs : m.inputs[k].frame + d <= f <=> m.inputs[k].frame < r
  BY <1>2, <1>4 DEF RoundsAt
<1>6. /\ \A k \in Until(m, r) : m.inputs[k] \in due
      /\ \A i \in due : \E k \in Until(m, r) : i = m.inputs[k]
  BY <1>5 DEF Until, ToSet
<1>7. {w[i] : i \in I} = {i.event : i \in due}
  <2>1. ASSUME NEW i \in I
        PROVE  w[i] \in {j.event : j \in due}
    <3>1. PICK k \in Until(m, r) : w[i] = m.inputs[k].event
      BY <1>3 DEF Holds
    <3> QED
      BY <1>6, <3>1
  <2>2. ASSUME NEW j \in due
        PROVE  j.event \in {w[i] : i \in I}
    <3>1. PICK k \in Until(m, r) : j = m.inputs[k]
      BY <1>6
    <3>2. PICK i \in I : w[i] = m.inputs[k].event
      BY <1>3 DEF Holds
    <3> QED
      BY <3>1, <3>2
  <2> QED
    BY <2>1, <2>2
<1>8. \A i, j \in I : i < j => w[i].data < w[j].data
  BY <1>3 DEF Holds
<1> QED
  BY <1>7, <1>8 DEF w, m, d, f, I

\* InputsCountOnce, for every frame_delta and any number of frames and inputs: nothing that either
\* host does is lost, given to a machine twice or out of order, or in any frame but the one
\* frame_delta - 1 frames later.
THEOREM InputsCountedOnce == NetSpec => []InputsCountOnce
<1>1. NetInv /\ CountInv /\ [NetNext]_netVars => CountInv'
  <2> SUFFICES ASSUME NetInv, CountInv, [NetNext]_netVars
               PROVE  CountInv'
    OBVIOUS
  <2>1. CASE NetNext
    BY <2>1, NextCounts DEF NetInv
  <2>2. CASE UNCHANGED netVars
    <3>1. net' = net /\ world' = world /\ made' = made
      BY <2>2 DEF netVars
    <3>2. \A h \in Hosts : (Running(h)' <=> Running(h)) /\ (Playing(h)' <=> Playing(h))
      BY <3>1 DEF Running, Playing, network_connected
    <3> QED
      BY <3>1, <3>2 DEF CountInv
  <2> QED
    BY <2>1, <2>2
<1> QED
  BY <1>1, NetworkInvariant, InitCounts, Counted, PTL DEF NetSpec
=============================================================================
