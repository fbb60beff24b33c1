------------------------------ MODULE Netplay ------------------------------
(***************************************************************************)
(* network.c: two emulators play one machine.  The client starts from the  *)
(* server's snapshot; then neither gives an input to its machine at once,  *)
(* but sends what happened in a frame to the other and plays it, together  *)
(* with what the other sent of the same frame, some frames later.  Each    *)
(* waits for the other when it has to.  (Built with HAVE_NETWORK, where    *)
(* the machine's vsync hook calls network_hook.)                           *)
(***************************************************************************)
EXTENDS Integers, Sequences, FiniteSets, SequencesExt

CONSTANTS
  Server, Client,       \* the two hosts
  Controls,             \* network_control: what inputs of either host count
  Inputs,               \* kinds of inputs
  FrameDeltas,          \* what new_frame_delta may come out as; 0 would take 5 s of round trip
  StackBytes,           \* what new_frame_delta may hold where nothing is assigned to it
  NUM_OF_TESTPACKETS,
  Failures,             \* what goes wrong: "leave", "snapshot"
  MaxFrames, MaxKeys  \* bounds: frames of a host, inputs of each

Hosts == {Server, Client}
ASSUME NetAssumption ==
  /\ Server # Client /\ FrameDeltas \subseteq Nat \ {0} /\ FrameDeltas # {} /\ StackBytes \subseteq Nat
  /\ NUM_OF_TESTPACKETS \in Nat \ {0} /\ MaxFrames \in Nat /\ MaxKeys \in Nat
  /\ Controls \in [Hosts -> SUBSET Inputs]

VARIABLES
  net,    \* network.c's variables of each host, and where it is: "run", or the call of
          \* network_recv_buffer it is blocked in
  chan,   \* the streams: what was sent to a host and not received
  peer,   \* what a host's socket knows of the other's: "none", "open", "fin": it is closed,
          \* "rst": and has said so to something sent to it
  world,  \* what a host's machine was given since the server started
  made    \* history of a host: the frames it has completed, its inputs, each with its frame, the
          \* lists it has sent, and its world after each of the rounds it has played
netVars == <<net, chan, peer, world, made>>

Other(h) == IF h = Server THEN Client ELSE Server
network_connected(h) == net[h].mode \in {"SERVER_CONNECTED", "CLIENT"}
Running(h) == network_connected(h) /\ net[h].at = "run"

\* What a host sends to a closed socket is lost, and answered.
Send(h, messages) ==
  IF peer[h] = "open"
  THEN chan' = [chan EXCEPT ![Other(h)] = @ \o messages] /\ UNCHANGED peer
  ELSE peer' = [peer EXCEPT ![h] = "rst"] /\ UNCHANGED chan
Receive(h) == chan' = [chan EXCEPT ![h] = Tail(@)] /\ UNCHANGED peer
Answer(h, message) ==
  IF peer[h] = "open"
  THEN chan' = [chan EXCEPT ![h] = Tail(@), ![Other(h)] = Append(@, message)] /\ UNCHANGED peer
  ELSE chan' = [chan EXCEPT ![h] = Tail(@)] /\ peer' = [peer EXCEPT ![h] = "rst"]
Got(h, kind) == chan[h] # <<>> /\ Head(chan[h]).kind = kind

Msg(kind, data) == [kind |-> kind, data |-> data]

\* The event list of a frame: the sync test, recorded by a trap as the frame begins, and the
\* host's inputs.
FrameList(w) == [sync |-> w, inputs |-> <<>>]

-----------------------------------------------------------------------------
(* The ring of event lists, one per frame. *)

\* network_init_frame_event_list; the trap it asks for records the first sync test.
InitFrames(h, delta, w) ==
  [net[h] EXCEPT !.frame_delta = delta, !.current_frame = 0, !.frame_buffer_full = FALSE,
                 !.lists = [i \in 0 .. delta - 1 |-> FrameList(IF i = 0 THEN w ELSE <<>>)],
                 !.at = "run"]

\* Mutant: the list played is the one being recorded.
FrameToPlay_Current(n) == n.current_frame

\* network_prepare_next_frame: frame_to_play is what the next receive plays.
FrameToPlay(n) == (n.current_frame + 1) % n.frame_delta

\* Mutant: the slot's old list is not cleared.
NextFrame_Kept(n, w) ==
  LET c == (n.current_frame + 1) % n.frame_delta
  IN  [n EXCEPT !.current_frame = c, !.lists[c].sync = w, !.at = "run"]

NextFrame(n, w) ==
  LET c == (n.current_frame + 1) % n.frame_delta
  IN  [n EXCEPT !.current_frame = c, !.lists[c] = FrameList(w), !.at = "run"]

\* Mutant: a frame without inputs is not worth a message.
FrameMessages_IfAny(list) == IF list.inputs = <<>> THEN <<>> ELSE <<Msg("events", list)>>

FrameMessages(list) == <<Msg("events", list)>>

\* Server first, then client.
Order(h, own, other) == IF h = Server THEN own \o other ELSE other \o own

OutOfSync(a, b) == a.sync # b.sync

network_disconnect(n) ==
  [n EXCEPT !.mode = IF n.mode = "SERVER_CONNECTED" THEN "SERVER" ELSE "IDLE", !.at = "run"]

-----------------------------------------------------------------------------
NetInit ==
  /\ net = [h \in Hosts |-> [ mode |-> "IDLE", at |-> "run", frame_delta |-> 0, current_frame |-> 0,
                              frame_buffer_full |-> FALSE, lists |-> <<>>, suspended |-> FALSE,
                              tests |-> 0 ]]
  /\ chan = [h \in Hosts |-> <<>>]
  /\ peer = [h \in Hosts |-> "none"]
  /\ world = [h \in Hosts |-> <<Msg("own", h)>>]
  /\ made = [h \in Hosts |-> [frames |-> 0, inputs |-> <<>>, sent |-> <<>>, past |-> <<>>]]

network_start_server ==
  /\ net[Server].mode = "IDLE" /\ net[Server].tests = 0
  /\ net' = [net EXCEPT ![Server].mode = "SERVER"]
  /\ UNCHANGED <<chan, peer, world, made>>

\* The client connects and blocks until the snapshot comes; the server's next network_hook
\* accepts it, and its trap sends the snapshot, the settings and the first test packet.
\* (They connect once in a behaviour.)
network_connect_client ==
  /\ net[Server].mode = "SERVER" /\ net[Server].tests = 0
  /\ peer' = [h \in Hosts |-> "open"]
  /\ net' = [net EXCEPT ![Client].at = "snapshot", ![Server].mode = "SERVER_CONNECTED",
                        ![Server].at = "test", ![Server].tests = 1]
  /\ chan' = [chan EXCEPT ![Client] = <<Msg("snapshot", world[Server]), Msg("test", 0)>>]
  /\ UNCHANGED <<world, made>>

\* network_client_connect_trap.
network_client_connect_trap ==
  /\ net[Client].at = "snapshot" /\ Got(Client, "snapshot")
  /\ net' = [net EXCEPT ![Client].mode = "CLIENT", ![Client].at = "test", ![Client].tests = 0]
  /\ world' = [world EXCEPT ![Client] = Head(chan[Client]).data]
  /\ Receive(Client)
  /\ UNCHANGED made

\* If the snapshot cannot be read it returns, and leaves the socket open.
SnapshotFails ==
  /\ "snapshot" \in Failures
  /\ net[Client].at = "snapshot" /\ Got(Client, "snapshot")
  /\ net' = [net EXCEPT ![Client].at = "run"]
  /\ Receive(Client)
  /\ UNCHANGED <<world, made>>

\* network_test_delay.
ClientEchoes ==
  /\ net[Client].at = "test" /\ net[Client].tests < NUM_OF_TESTPACKETS /\ Got(Client, "test")
  /\ net' = [net EXCEPT ![Client].tests = @ + 1]
  /\ Answer(Client, Msg("test", 0))
  /\ UNCHANGED <<world, made>>

ServerMeasures ==
  /\ net[Server].at = "test" /\ Got(Server, "test")
  /\ IF net[Server].tests < NUM_OF_TESTPACKETS
     THEN /\ net' = [net EXCEPT ![Server].tests = @ + 1]
          /\ Answer(Server, Msg("test", 0))
     ELSE \E delta \in FrameDeltas :
            /\ net' = [net EXCEPT ![Server] = InitFrames(Server, delta, world[Server])]
            /\ Answer(Server, Msg("delta", delta))
  /\ UNCHANGED <<world, made>>

ClientIsTold ==
  /\ net[Client].at = "test" /\ Got(Client, "delta")
  /\ net' = [net EXCEPT ![Client] = InitFrames(Client, Head(chan[Client]).data, world[Client])]
  /\ Receive(Client)
  /\ UNCHANGED <<world, made>>

\* Inputs are not given to the machine now.
GivenToMachine(w, e) == w

\* Only those count that network_control grants the host.
network_event_record(h, type) ==
  LET e == [type |-> type, from |-> h, data |-> Len(made[h].inputs)]
  IN  /\ Running(h) /\ type \in Controls[h] /\ Len(made[h].inputs) < MaxKeys
      /\ net' = [net EXCEPT ![h].lists[net[h].current_frame].inputs = Append(@, e)]
      /\ made' = [made EXCEPT ![h].inputs = Append(@, [event |-> e, frame |-> made[h].frames])]
      /\ world' = [world EXCEPT ![h] = GivenToMachine(@, e)]
      /\ UNCHANGED <<chan, peer>>

network_suspend(h) ==
  /\ Running(h) /\ ~net[h].suspended
  /\ net' = [net EXCEPT ![h].suspended = TRUE]
  /\ Send(h, <<Msg("suspend", 0)>>)
  /\ UNCHANGED <<world, made>>

\* The end of a frame.
network_hook_connected_send(h) ==
  LET n == net[h]
      full == n.frame_buffer_full \/ n.current_frame = n.frame_delta - 1
      sent == [n EXCEPT !.suspended = FALSE, !.frame_buffer_full = full]
  IN  /\ Running(h) /\ peer[h] # "rst" /\ made[h].frames < MaxFrames
      /\ Send(h, FrameMessages(n.lists[n.current_frame]))
      /\ net' = [net EXCEPT ![h] = IF full THEN [sent EXCEPT !.at = "events"]
                                   ELSE NextFrame(sent, world[h])]
      /\ made' = [made EXCEPT ![h].sent = Append(@, n.lists[n.current_frame]),
                             ![h].frames = IF full THEN @ ELSE @ + 1]
      /\ UNCHANGED world

\* Sending fails: the game is over, but it goes on to receive, from the socket just closed.
SendFails(h) ==
  LET n == network_disconnect(net[h])
      full == n.frame_buffer_full \/ n.current_frame = n.frame_delta - 1
  IN  /\ Running(h) /\ peer[h] = "rst"
      /\ net' = [net EXCEPT ![h] = IF full THEN network_disconnect(n) ELSE NextFrame(n, world[h])]
      /\ chan' = [chan EXCEPT ![h] = <<>>] /\ peer' = [peer EXCEPT ![h] = "none"]
      /\ UNCHANGED <<world, made>>

\* The other host has suspended emulation: wait on.
RemoteSuspends(h) ==
  /\ net[h].at = "events" /\ Got(h, "suspend")
  /\ net' = [net EXCEPT ![h].suspended = TRUE]
  /\ Receive(h)
  /\ UNCHANGED <<world, made>>

network_hook_connected_receive(h) ==
  LET own   == net[h].lists[FrameToPlay(net[h])]
      other == Head(chan[h]).data
      w     == world[h] \o Order(h, own.inputs, other.inputs)
  IN  /\ net[h].at = "events" /\ Got(h, "events")
      /\ world' = [world EXCEPT ![h] = w]
      /\ made' = [made EXCEPT ![h].frames = @ + 1, ![h].past = Append(@, w)]
      /\ net' = [net EXCEPT ![h] = NextFrame(IF OutOfSync(own, other) THEN network_disconnect(@) ELSE @, w)]
      /\ Receive(h)

\* A host quits, also in the middle of connecting: its socket is closed.
Leave(h) ==
  /\ "leave" \in Failures /\ peer[h] # "none" /\ net[h].at # "gone"
  /\ net' = [net EXCEPT ![h].mode = "IDLE", ![h].at = "gone"]
  /\ peer' = [peer EXCEPT ![h] = "none",
       ![Other(h)] = IF @ = "open" THEN (IF chan[h] = <<>> THEN "fin" ELSE "rst") ELSE @]
  /\ chan' = [chan EXCEPT ![h] = <<>>]
  /\ UNCHANGED <<world, made>>

\* The client waits for the delta, or the error that comes instead.
AwaitsDelta == net[Client].at = "test" /\ net[Client].tests = NUM_OF_TESTPACKETS

\* recv returns an error.  (After "fin" it returns 0, and network_recv_buffer asks again.)
\* Between test packets the host stays connected, without event lists.
RecvFails(h) ==
  /\ peer[h] = "rst" /\ chan[h] = <<>>
  /\ \/ /\ net[h].at = "events"
        /\ net' = [net EXCEPT ![h] = network_disconnect(@)]
        /\ peer' = [peer EXCEPT ![h] = "none"]
     \/ /\ net[h].at = "test" /\ (h = Client => ~AwaitsDelta)
        /\ net' = [net EXCEPT ![h].at = "no lists"] /\ UNCHANGED peer
     \/ net[h].at = "snapshot" /\ net' = [net EXCEPT ![h].at = "run"] /\ peer' = [peer EXCEPT ![h] = "none"]
  /\ UNCHANGED <<chan, world, made>>

\* The client does not ask whether it has received the delta: it makes as many lists as the
\* byte it never got happens to say, and plays alone until its first send fails.
DeltaFails ==
  /\ peer[Client] = "rst" /\ chan[Client] = <<>> /\ AwaitsDelta
  /\ \E byte \in StackBytes :
       net' = [net EXCEPT ![Client] = IF byte = 0 THEN [@ EXCEPT !.at = "no lists"]
                                      ELSE InitFrames(Client, byte, world[Client])]
  /\ UNCHANGED <<chan, peer, world, made>>

NetNext ==
  \/ network_start_server \/ network_connect_client \/ network_client_connect_trap \/ SnapshotFails
  \/ ClientEchoes \/ ServerMeasures \/ ClientIsTold \/ DeltaFails
  \/ \E h \in Hosts :
       \/ \E type \in Inputs : network_event_record(h, type)
       \/ network_suspend(h) \/ network_hook_connected_send(h) \/ SendFails(h) \/ RemoteSuspends(h)
       \/ network_hook_connected_receive(h) \/ Leave(h) \/ RecvFails(h)

NetSpec == NetInit /\ [][NetNext]_netVars

-----------------------------------------------------------------------------
(* Properties *)

Playing(h) == network_connected(h) /\ net[h].at \in {"run", "events"}
\* Where a host's inputs are in what a machine was given; the first is what it was before.
InputsOf(w, h) == {i \in 2 .. Len(w) : w[i].from = h}

\* Types; only a client whose server is gone counts with a frame_delta nobody measured.
NetTypeOK ==
  /\ \A h \in Hosts : Playing(h) =>
       /\ \/ net[h].frame_delta \in FrameDeltas
          \/ h = Client /\ peer[h] = "rst" /\ net[h].frame_delta \in StackBytes \ {0}
       /\ net[h].current_frame \in 0 .. net[h].frame_delta - 1
       /\ \A i \in DOMAIN net[h].lists : Len(net[h].lists[i].inputs) <= MaxKeys
  /\ \A h \in Hosts : Len(chan[h]) <= 2 * MaxFrames + 2

\* The two machines are one: as long as both play, each has been given what the other has,
\* in the same order, and perhaps more of it.
OneMachine ==
  Playing(Server) /\ Playing(Client) =>
    IsPrefix(world[Server], world[Client]) \/ IsPrefix(world[Client], world[Server])

\* After as many frames they are in the same state: never does the sync test fail.
SameFrameSameState ==
  /\ Playing(Server) /\ Playing(Client) /\ made[Server].frames = made[Client].frames
       => world[Server] = world[Client]
  /\ \A h \in Hosts :
       net[h].at = "events" /\ Got(h, "events") =>
         ~OutOfSync(net[h].lists[FrameToPlay(net[h])], Head(chan[h]).data)

\* An input counts frame_delta - 1 frames after the one it was made in, on both machines,
\* once, and not before; the inputs of a host, which are numbered, keep their order.
InputsCountOnce ==
  \A h, g \in Hosts : Playing(h) =>
    LET given == InputsOf(world[h], g)
        due   == {i \in ToSet(made[g].inputs) : i.frame + net[h].frame_delta <= made[h].frames}
    IN  /\ {world[h][i] : i \in given} = {i.event : i \in due}
        /\ \A i, j \in given : i < j => world[h][i].data < world[h][j].data

\* While both play they are not both waiting for the other, and neither gets more than
\* frame_delta frames ahead.
NeitherStalls ==
  Playing(Server) /\ Playing(Client) =>
    /\ \E h \in Hosts : net[h].at = "run" \/ chan[h] # <<>>
    /\ \A h \in Hosts : made[h].frames <= made[Other(h)].frames + net[h].frame_delta

\* The hosts agree: the same inputs in the same order in the same frames.
HostsAgree == OneMachine /\ SameFrameSameState
=============================================================================
