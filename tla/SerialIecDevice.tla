-------------------------- MODULE SerialIecDevice ---------------------------
(***************************************************************************)
(* serial/serial-iec-device.c and serial/fsdrive.c: a device on the serial *)
(* bus that is emulated without its processor.  It is a state machine      *)
(* that makes at most one move each time the computer touches the bus; it  *)
(* has no alarm of its own.  The file system behind it is external.        *)
(*                                                                         *)
(* Everything is an operator on a record s of                              *)
(*   bus  the lines                                                        *)
(*   dev  serial_iec_device_state; a timeout is what is left of it         *)
(*   fs   SerialBuffer, isopen, the drive's channels (file), and as        *)
(*        history what the device passed up (took) and got (given)         *)
(* A byte is a number of BITS bits; under ATN it is an index of Commands.  *)
(***************************************************************************)
EXTENDS IecLines

CONSTANTS
  BITS,      \* of a byte
  Commands,  \* a sequence of [kind, arg]: LISTEN and TALK of a unit; SECOND ($60), CLOSE
             \* ($E0) and OPEN ($F0) of a channel; UNLISTEN and UNTALK
  Channels,  \* those in use, and 0
  CommandChannel,  \* 15
  Files,     \* what can be read: a function from names to contents
  NewNames   \* names that open a file to write

ASSUME DeviceAssumption ==
  /\ BITS \in Nat \ {0} /\ Len(Commands) < 2 ^ BITS
  /\ {0, CommandChannel} \subseteq Channels
  /\ \A n \in DOMAIN Files : Files[n] # <<>>

\* The unit of time is 20 microseconds.
US2CYCLES(us) == us \div 20

NoCommand == [kind |-> "none", arg |-> 0]
Command(byte) == IF byte \in DOMAIN Commands THEN Commands[byte] ELSE NoCommand
Bit(byte, i) == (byte \div 2 ^ i) % 2 = 1

SERIAL_OK == 0
SERIAL_ERROR == 2
SERIAL_EOF == 64

-----------------------------------------------------------------------------
(* The drive behind the device *)

NoFile == [mode |-> "closed", data |-> <<>>]
CommandFile == [mode |-> "command", data |-> <<1>>]
DriveFile(c) == IF c = CommandChannel THEN CommandFile ELSE NoFile

FileOpened(name, c) ==
  IF c = CommandChannel THEN CommandFile
  ELSE IF name \in DOMAIN Files THEN [mode |-> "read", data |-> Files[name]]
  ELSE IF name \in NewNames THEN [mode |-> "write", data |-> <<>>] ELSE NoFile
OpenStatus(name, c) == IF FileOpened(name, c) = NoFile THEN SERIAL_ERROR ELSE SERIAL_OK

-----------------------------------------------------------------------------
(* fsdrive.c: each returns the state and the status given to st_func *)

\* Mutant: the name stays for the next file.
OpenNamed_NameStays(s, u, c) ==
  LET name == s.fs.SerialBuffer
      st == OpenStatus(name, c)
  IN  [ s |-> [s EXCEPT !.fs.isopen[u][c] = IF st = SERIAL_OK THEN 2 ELSE 0,
                        !.fs.file[u][c] = FileOpened(name, c), !.fs.opened = Append(@, name)],
        st |-> st ]

\* The file is opened when the device is told to stop listening.
OpenNamed(s, u, c) ==
  LET name == s.fs.SerialBuffer
      st == OpenStatus(name, c)
  IN  [ s |-> [s EXCEPT !.fs.isopen[u][c] = IF st = SERIAL_OK THEN 2 ELSE 0,
                        !.fs.file[u][c] = FileOpened(name, c),
                        !.fs.SerialBuffer = <<>>, !.fs.opened = Append(@, name)],
        st |-> st ]

\* A channel that was opened without a name gets its name here.
OpenUnnamed(s, u, c) ==
  [ s |-> [s EXCEPT !.fs.isopen[u][c] = 2, !.fs.SerialBuffer = <<>>], st |-> SERIAL_OK ]

CloseChannel(s, u, c) ==
  [ s |-> [s EXCEPT !.fs.isopen[u][c] = 0, !.fs.file[u][c] = DriveFile(c)], st |-> SERIAL_OK ]

serialcommand(s, u, kind, c) ==
  CASE kind = "SECOND" /\ s.fs.isopen[u][c] = 1 -> OpenUnnamed(s, u, c)
    [] kind = "CLOSE" -> CloseChannel(s, u, c)
    [] kind = "OPEN" /\ s.fs.isopen[u][c] # 0 /\ (s.fs.SerialBuffer # <<>> \/ c = CommandChannel) ->
         OpenNamed(s, u, c)
    [] OTHER -> [s |-> s, st |-> SERIAL_OK]

fsdrive_open(s, u, c) == [s EXCEPT !.fs.isopen[u][c] = 1]

fsdrive_unlisten(s, u, kind, c, st) ==
  IF kind = "OPEN" \/ c = CommandChannel THEN serialcommand(s, u, kind, c) ELSE [s |-> s, st |-> st]

\* A byte of the name, or of the file.  (The units are in use; the names are shorter than
\* SERIAL_NAMELENGTH, from which on the code drops what is sent.)
fsdrive_write(s, u, c, byte, st) ==
  LET t == [s EXCEPT !.fs.took = Append(@, [unit |-> u, byte |-> byte])]
  IN  IF s.fs.isopen[u][c] = 1 THEN [s |-> [t EXCEPT !.fs.SerialBuffer = Append(@, byte)], st |-> st]
      ELSE IF s.fs.file[u][c].mode \in {"write", "command"} THEN [s |-> t, st |-> SERIAL_OK]
      ELSE [s |-> s, st |-> SERIAL_ERROR]

fsdrive_read(s, u, c) ==
  LET file == s.fs.file[u][c]
      rest == IF file.mode = "command" THEN file.data ELSE Tail(file.data)
  IN  IF file.mode \notin {"read", "command"} \/ file.data = <<>> THEN [s |-> s, byte |-> 0, st |-> SERIAL_ERROR]
      ELSE [ s |-> [s EXCEPT !.fs.file[u][c].data = rest,
                             !.fs.given = Append(@, [unit |-> u, byte |-> Head(file.data)])],
             byte |-> Head(file.data),
             st |-> IF Len(file.data) = 1 THEN SERIAL_EOF ELSE SERIAL_OK ]

fsdrive_reset(s) ==
  [s EXCEPT !.fs.isopen = [u \in ToSet(Units) |-> [c \in Channels |-> 0]],
            !.fs.file = [u \in ToSet(Units) |->
              [c \in Channels |-> IF s.fs.isopen[u][c] # 0 THEN DriveFile(c) ELSE s.fs.file[u][c]]]]

-----------------------------------------------------------------------------
(* The device's moves *)

Put(s, u, clk, data) == [s EXCEPT !.bus = iecbus_device_write(@, u, [clk |-> clk, data |-> data])]
To(s, u, state) == [s EXCEPT !.dev[u].state = state]
Wait(s, u, us) == [s EXCEPT !.dev[u].timeout = US2CYCLES(us)]
Over(s, u) == s.dev[u].timeout = 0
\* The states of the eight bits and of the gaps between them, by number.
ToBit(s, u, state, i) == [s EXCEPT !.dev[u].state = state, !.dev[u].bit = i]
Channel(s, u) == Command(s.dev[u].secondary).arg
Keep(r, u, c) == [r.s EXCEPT !.dev[u].st[c] = r.st]

\* The computer pulls ATN: everybody answers by pulling DATA.
AtnFalls(s, u) ==
  Put(Wait([s EXCEPT !.dev[u].state = "PRE0", !.dev[u].flags = @ \cup {"ATN"}, !.dev[u].primary = 0,
                     !.dev[u].secondary_prev = s.dev[u].secondary, !.dev[u].secondary = 0], u, 100),
      u, TRUE, FALSE)

\* What the secondary address asks of the drive.
Secondary(s, u, primary, secondary) ==
  CASE secondary.kind = "SECOND" -> serialcommand(s, u, "SECOND", secondary.arg).s
    [] secondary.kind = "CLOSE" -> Keep(serialcommand(s, u, "CLOSE", secondary.arg), u, secondary.arg)
    [] secondary.kind = "OPEN" ->
         Keep([s |-> fsdrive_open(s, u, secondary.arg), st |-> SERIAL_OK], u, secondary.arg)
    [] OTHER -> s

\* A channel whose last command failed is not listened to: that tells the sender.
Listens(s, u) ==
  LET t == [s EXCEPT !.dev[u].flags = @ \ {"TALKING"}]
  IN  Put(IF t.dev[u].st[Channel(t, u)] = SERIAL_OK
          THEN To([t EXCEPT !.dev[u].flags = @ \cup {"LISTENING"}], u, "PRE1") ELSE t,
          u, TRUE, FALSE)

\* Mutant: the machine goes on where it was as a listener.
Talks_StateStays(s, u) == [s EXCEPT !.dev[u].flags = (@ \ {"LISTENING"}) \cup {"TALKING"}]

Talks(s, u) == To([s EXCEPT !.dev[u].flags = (@ \ {"LISTENING"}) \cup {"TALKING"}], u, "PRE0")

Unlisten(s, u) ==
  LET was == Command(s.dev[u].secondary_prev)
      t == [s EXCEPT !.dev[u].flags = @ \ {"LISTENING"}]
  IN  Keep(fsdrive_unlisten(t, u, was.kind, was.arg, s.dev[u].st[was.arg]), u, was.arg)

Release(s, u) ==
  IF s.dev[u].flags \cap {"LISTENING", "TALKING"} = {} THEN Put(s, u, TRUE, TRUE) ELSE s

\* The computer lets ATN go: what it said is done.
AtnRises(s, u) ==
  LET t == [s EXCEPT !.dev[u].flags = @ \ {"ATN"}]
      primary == Command(s.dev[u].primary)
      secondary == Command(s.dev[u].secondary)
      told == Secondary(t, u, primary, secondary)
  IN  Release(CASE primary.kind = "LISTEN" /\ primary.arg = u -> Listens(told, u)
                [] primary.kind = "TALK" /\ primary.arg = u -> Talks(told, u)
                [] primary.kind = "UNLISTEN" /\ "LISTENING" \in t.dev[u].flags -> Unlisten(t, u)
                [] primary.kind = "UNTALK" /\ "TALKING" \in t.dev[u].flags ->
                     [t EXCEPT !.dev[u].flags = @ \ {"TALKING"}]
                [] OTHER -> t, u)

\* The last bit of a byte is over: under ATN the first two bytes are addresses.
AddressHeard(s, u) ==
  LET d == s.dev[u]
      t == IF d.primary = 0 THEN [s EXCEPT !.dev[u].primary = d.byte]
           ELSE IF d.secondary = 0 THEN [s EXCEPT !.dev[u].secondary = d.byte] ELSE s
      primary == Command(t.dev[u].primary)
      ours == primary.kind \in {"UNLISTEN", "UNTALK"} \/ primary.arg = u
  IN  IF ours THEN To(Put(t, u, TRUE, FALSE), u, "PRE2") ELSE To(t, u, "DONE0")

\* Mutant: what the drive refused is acknowledged too.
DataHeard_AcksAll(s, u) ==
  LET c == Channel(s, u)
      t == Keep(fsdrive_write(s, u, c, s.dev[u].byte, s.dev[u].st[c]), u, c)
  IN  To(Put(t, u, TRUE, FALSE), u, "PRE2")

DataHeard(s, u) ==
  LET c == Channel(s, u)
      t == Keep(fsdrive_write(s, u, c, s.dev[u].byte, s.dev[u].st[c]), u, c)
  IN  IF t.dev[u].st[c] # SERIAL_OK THEN To(t, u, "DONE0") ELSE To(Put(t, u, TRUE, FALSE), u, "PRE2")

ByteHeard(s, u) == IF "ATN" \in s.dev[u].flags THEN AddressHeard(s, u) ELSE DataHeard(s, u)

BitHeard(s, u, p) ==
  LET i == s.dev[u].bit
      byte == s.dev[u].byte
  IN  ToBit([s EXCEPT !.dev[u].byte =
               byte - (IF Bit(byte, i) THEN 2 ^ i ELSE 0) + (IF p.data THEN 2 ^ i ELSE 0)], u, "BITw", i)

\* Receiving, under ATN or as a listener.  p is what the bus was when the device looked.
Receive(s, u, p) ==
  LET state == s.dev[u].state
      addressed == "ATN" \in s.dev[u].flags
  IN  CASE state = "PRE0" /\ Over(s, u) -> To(s, u, "PRE1")
        [] state = "PRE1" /\ ~p.clk -> To(s, u, "PRE2")
        [] state = "PRE2" /\ p.clk -> To(Wait(Put(s, u, TRUE, TRUE), u, 200), u, "READY")
        [] state = "READY" /\ ~p.clk -> ToBit(s, u, "BIT", 0)
        [] state = "READY" /\ p.clk /\ ~addressed /\ Over(s, u) ->
             To(Wait(Put(s, u, TRUE, FALSE), u, 60), u, "EOI")
        [] state = "EOI" /\ Over(s, u) -> To(Put(s, u, TRUE, TRUE), u, "EOIw")
        [] state = "EOIw" /\ ~p.clk -> ToBit(s, u, "BIT", 0)
        [] state = "BIT" /\ p.clk -> BitHeard(s, u, p)
        [] state = "BITw" /\ ~p.clk ->
             IF s.dev[u].bit = BITS - 1 THEN ByteHeard(s, u) ELSE ToBit(s, u, "BIT", s.dev[u].bit + 1)
        [] OTHER -> s

\* A byte is fetched when the receiver is ready for it.
FetchByte(s, u) ==
  LET c == Channel(s, u)
      r == fsdrive_read(s, u, c)
      t == Keep([s |-> [r.s EXCEPT !.dev[u].byte = r.byte], st |-> r.st], u, c)
  IN  CASE r.st = SERIAL_OK -> ToBit(Wait(t, u, 0), u, "BIT", 0)
        [] r.st = SERIAL_EOF -> To(t, u, "EOI")
        [] OTHER -> [t EXCEPT !.dev[u].flags = @ \ {"TALKING"}]

ReadyToSend(s, u, p) == IF p.data THEN FetchByte(s, u) ELSE s

ShowBit(s, u) ==
  ToBit(Wait(Put(s, u, FALSE, Bit(s.dev[u].byte, s.dev[u].bit)), u, 60), u, "BITw", s.dev[u].bit)

\* The clock says that the bit is valid.
ClockBit(s, u, p) ==
  LET t == Wait(Put(s, u, TRUE, p.data), u, 60)
  IN  IF s.dev[u].bit = BITS - 1 THEN To(t, u, "DONE0") ELSE ToBit(t, u, "BIT", s.dev[u].bit + 1)

\* The receiver has acknowledged the byte; after the last one the device stops talking.
Acknowledged(s, u) ==
  LET c == Channel(s, u)
  IN  IF s.dev[u].st[c] = SERIAL_EOF
      THEN Put([s EXCEPT !.dev[u].flags = @ \ {"TALKING"}, !.dev[u].st[c] = SERIAL_OK], u, TRUE, TRUE)
      ELSE To(Wait(s, u, 0), u, "PRE1")

Send(s, u, p) ==
  LET state == s.dev[u].state
  IN  CASE state = "PRE0" /\ p.clk -> Wait(To(Put(s, u, FALSE, TRUE), u, "PRE1"), u, 80)
        [] state = "PRE1" /\ Over(s, u) -> To(Put(s, u, TRUE, TRUE), u, "READY")
        [] state = "PRE1" /\ ~Over(s, u) -> ReadyToSend(s, u, p)
        [] state = "READY" -> ReadyToSend(s, u, p)
        [] state = "EOI" /\ ~p.data -> To(s, u, "EOIw")
        [] state = "EOIw" /\ p.data -> ToBit(Wait(s, u, 0), u, "BIT", 0)
        [] state = "BIT" /\ Over(s, u) -> ShowBit(s, u)
        [] state = "BITw" /\ Over(s, u) -> ClockBit(s, u, p)
        [] state = "DONE0" /\ Over(s, u) -> To(Wait(Put(s, u, FALSE, TRUE), u, 1000), u, "DONE1")
        [] state = "DONE1" /\ ~p.data -> Acknowledged(s, u)
        [] state = "DONE1" /\ p.data /\ Over(s, u) -> To(Wait(Put(s, u, TRUE, TRUE), u, 100), u, "FRAMEERR0")
        [] state = "FRAMEERR0" /\ Over(s, u) -> To(Put(s, u, FALSE, TRUE), u, "FRAMEERR1")
        [] state = "FRAMEERR1" /\ ~p.data -> To(Wait(s, u, 0), u, "PRE1")
        [] OTHER -> s

\* One look at the bus: at most one edge of ATN and one move.
serial_iec_device_exec_main(s, u) ==
  LET p == s.bus.drv_port
      atn == "ATN" \in s.dev[u].flags
      t == IF ~atn /\ ~p.atn THEN AtnFalls(s, u) ELSE IF atn /\ p.atn THEN AtnRises(s, u) ELSE s
      flags == t.dev[u].flags
  IN  IF flags \cap {"ATN", "LISTENING"} # {} THEN Receive(t, u, p)
      ELSE IF "TALKING" \in flags THEN Send(t, u, p) ELSE t

-----------------------------------------------------------------------------
(* All devices *)

Enabled(s) == SelectSeq(Units, LAMBDA u : s.dev[u].enabled)

serial_iec_device_exec(s) == FoldLeft(serial_iec_device_exec_main, s, Enabled(s))

\* memset clears 15 of the 16 channels.
ClearStatus(st) == [c \in Channels |-> IF c = CommandChannel THEN st[c] ELSE SERIAL_OK]
Fresh(d) == [d EXCEPT !.flags = {}, !.timeout = 0, !.st = ClearStatus(@)]

serial_iec_device_reset(s) ==
  FoldLeft(LAMBDA t, u : [Put(t, u, TRUE, TRUE) EXCEPT !.dev[u] = Fresh(@)], s, Enabled(s))
serial_iec_device_enable(s, u) ==
  IF s.dev[u].enabled THEN s ELSE [s EXCEPT !.dev[u] = [Fresh(@) EXCEPT !.enabled = TRUE]]
serial_iec_device_disable(s, u) ==
  IF ~s.dev[u].enabled THEN s
  ELSE [Put(s, u, TRUE, TRUE) EXCEPT !.dev[u].enabled = FALSE, !.dev[u].timeout = 0]

SERIAL_init(enabled) ==
  [ bus |-> iecbus_init,
    dev |-> [u \in ToSet(Units) |->
      [ enabled |-> u \in enabled, flags |-> {}, state |-> "PRE0", bit |-> 0, byte |-> 0, timeout |-> 0,
        primary |-> 0, secondary |-> 0, secondary_prev |-> 0, st |-> [c \in Channels |-> SERIAL_OK] ]],
    fs |->
      [ SerialBuffer |-> <<>>, isopen |-> [u \in ToSet(Units) |-> [c \in Channels |-> 0]],
        file |-> [u \in ToSet(Units) |-> [c \in Channels |-> DriveFile(c)]],
        took |-> <<>>, given |-> <<>>, opened |-> <<>> ] ]

\* Time that passes is taken from the timeouts.
Passes(s, units) ==
  [s EXCEPT !.dev = [u \in ToSet(Units) |->
     [s.dev[u] EXCEPT !.timeout = IF @ > units THEN @ - units ELSE 0]]]
=============================================================================
