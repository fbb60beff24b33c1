--------------------------- MODULE SerialTransfer ---------------------------
(***************************************************************************)
(* A computer and the devices of SerialIecDevice on one bus.  The computer *)
(* runs a program of OPEN, PRINT#, GET# and CLOSE with the C64's Kernal,   *)
(* which is external: a ROM image.  The devices move only when the Kernal  *)
(* reads or writes the port of its CIA (iecbus/iecbus.c, c64/c64cia2.c).   *)
(* The user may reset the machine or switch a device on or off at any      *)
(* time.                                                                   *)
(*                                                                         *)
(* kernal.frames are the routines that have been called and not returned,  *)
(* each the sequence of the accesses it still has to make; calls are those *)
(* left in the current operation and ops the operations left; stuck is set *)
(* by a look at the port in vain that changed nothing either.              *)
(***************************************************************************)
EXTENDS SerialIecDevice

CONSTANTS
  Programs,      \* sequences of operations
  InitialUnits,  \* sets of units that may be switched on at the start
  MaxFaults      \* resets and switches

VARIABLES bus, dev, fs, kernal

transferVars == <<bus, dev, fs, kernal>>

Wire == [bus |-> bus, dev |-> dev, fs |-> fs]
WireIs(s) == bus' = s.bus /\ dev' = s.dev /\ fs' = s.fs

-----------------------------------------------------------------------------
(* The port: without any device on the bus the lines are not computed *)

NobodyThere(s) == Enabled(s) = <<>>

iecbus_callback_write(s, lines) ==
  IF NobodyThere(s) THEN [s EXCEPT !.bus.iec_fast_1541 = lines]
  ELSE [serial_iec_device_exec(s) EXCEPT !.bus = iec_update_ports(iec_update_cpu_bus(@, lines))]

iecbus_callback_read(s) == IF NobodyThere(s) THEN s ELSE serial_iec_device_exec(s)
Port(s) == IF NobodyThere(s) THEN s.bus.iec_fast_1541 ELSE s.bus.cpu_port

\* A store is passed on when it changes a bit.
store_ciapa(s, old, lines) == IF lines = old THEN s ELSE iecbus_callback_write(s, lines)

-----------------------------------------------------------------------------
(* The Kernal's routines, as the accesses they make *)

Plain(op) == [op |-> op, arg |-> 0]
With(op, arg) == [op |-> op, arg |-> arg]
CommandByte(kind, arg) == CHOOSE i \in DOMAIN Commands : Commands[i] = [kind |-> kind, arg |-> arg]

SendBit(one) == <<Plain("DataHigh?"), Plain(IF one THEN "DATAHI" ELSE "DATALO"), Plain("CLKHI"), Plain("NextBit")>>

ISOUR(byte, eoi) ==
  <<Plain("DATAHI"), Plain("Present?"), Plain("CLKHI")>>
  \o (IF eoi THEN <<Plain("UntilDataHigh"), Plain("UntilDataLow")>> ELSE <<>>)
  \o <<Plain("UntilDataHigh"), Plain("CLKLO")>>
  \o FlattenSeq([i \in 1..BITS |-> SendBit(Bit(byte, i - 1))])
  \o <<With("Timer", US2CYCLES(1000)), With("UntilTaken", byte)>>
ISOURA(byte) == <<Plain("CLKLO"), Plain("DATAHI"), Plain("W1MS")>> \o ISOUR(byte, FALSE)

DLADLH == <<Plain("Delay"), Plain("CLKHI"), Plain("DATAHI")>>
DLABYE == <<Plain("ATNHI")>> \o DLADLH

Buffered(k) == IF k.C3PO THEN <<ISOUR(k.BSOUR, TRUE)>> ELSE <<>>
LIST1(k, byte) ==
  Append(Buffered(k), <<Plain("DATAHI")>>
                      \o (IF Commands[byte].kind = "UNLISTEN" THEN <<Plain("CLKHI")>> ELSE <<>>)
                      \o <<Plain("ATNLO")>> \o ISOURA(byte))

WaitForBit(count) ==
  <<With("Timer", US2CYCLES(256)), Plain("DATAHI"), With("UntilFirstBit", count)>>
ReceiveBits ==
  FlattenSeq([i \in 1..BITS |-> <<With("UntilBit", i - 1), Plain("UntilClkLow")>>]) \o <<Plain("DATALO"), Plain("Received")>>
ACPTR == <<Plain("CLKHI"), Plain("UntilClkHigh")>> \o WaitForBit(0) \o ReceiveBits

Routine(k, call) ==
  CASE call.op = "LISTEN" -> LIST1(k, CommandByte("LISTEN", call.arg))
    [] call.op = "TALK" -> LIST1(k, CommandByte("TALK", call.arg))
    [] call.op \in {"SECOND", "OPEN", "CLOSE"} ->
         <<ISOURA(CommandByte(call.op, call.arg)), <<Plain("ATNHI")>>>>
    [] call.op = "TKSA" ->
         <<ISOURA(CommandByte("SECOND", call.arg)),
           <<Plain("DATALO"), Plain("ATNHI"), Plain("CLKHI"), Plain("UntilClkLow")>>>>
    [] call.op = "UNLSN" -> Append(LIST1(k, CommandByte("UNLISTEN", 0)), DLABYE)
    [] call.op = "UNTLK" ->
         <<<<Plain("CLKLO"), Plain("ATNLO")>>>> \o Append(LIST1(k, CommandByte("UNTALK", 0)), DLABYE)
    [] call.op = "CIOUT" -> IF k.C3PO THEN <<ISOUR(k.BSOUR, FALSE)>> ELSE <<>>
    [] call.op = "ACPTR" -> IF k.STATUS = {} THEN <<ACPTR>> ELSE <<>>

\* A call that sends what is buffered, or buffers its own byte.
AfterCall(k, call) ==
  CASE call.op = "CIOUT" -> [k EXCEPT !.C3PO = TRUE, !.BSOUR = call.arg]
    [] call.op \in {"LISTEN", "TALK", "UNLSN", "UNTLK"} -> [k EXCEPT !.C3PO = FALSE]
    [] OTHER -> k

Chars(bytes) == [i \in DOMAIN bytes |-> With("CIOUT", bytes[i])]
Calls(o) ==
  CASE o.op = "OPEN" ->
         <<With("LISTEN", o.unit), With("OPEN", o.channel), Plain("Check")>> \o Chars(o.data) \o <<Plain("UNLSN")>>
    [] o.op = "PRINT" ->
         <<With("LISTEN", o.unit), With("SECOND", o.channel), Plain("Check")>> \o Chars(o.data) \o <<Plain("UNLSN")>>
    [] o.op = "GET" ->
         <<With("TALK", o.unit), With("TKSA", o.channel), Plain("Check")>>
         \o [i \in 1..o.data |-> Plain("ACPTR")] \o <<Plain("UNTLK")>>
    [] o.op = "CLOSE" -> <<With("LISTEN", o.unit), With("CLOSE", o.channel), Plain("UNLSN")>>

-----------------------------------------------------------------------------
(* Steps of the Kernal *)

KernalStarts(program) ==
  [ frames |-> <<>>, calls |-> <<>>, ops |-> program, op |-> [op |-> "none"],
    pa |-> [atn |-> TRUE, clk |-> TRUE, data |-> TRUE], timer |-> 0,
    C3PO |-> FALSE, BSOUR |-> 0, STATUS |-> {}, byte |-> 0,
    name |-> <<>>, acked |-> <<>>, got |-> <<>>, stuck |-> FALSE,
    program |-> program, faults |-> 0, switched |-> FALSE, leftover |-> FALSE ]

\* What an access makes of the lines the computer drives.
Driven(pa, op) ==
  CASE op = "CLKLO" -> [pa EXCEPT !.clk = FALSE]
    [] op = "CLKHI" -> [pa EXCEPT !.clk = TRUE]
    [] op = "DATALO" -> [pa EXCEPT !.data = FALSE]
    [] op = "DATAHI" -> [pa EXCEPT !.data = TRUE]
    [] op = "ATNLO" -> [pa EXCEPT !.atn = FALSE]
    [] op = "ATNHI" -> [pa EXCEPT !.atn = TRUE]
    [] op = "NextBit" -> [pa EXCEPT !.clk = FALSE, !.data = TRUE]

Sets == {"CLKLO", "CLKHI", "DATALO", "DATAHI", "ATNLO", "ATNHI", "NextBit"}

Frame == Head(kernal.frames)
Rest == IF Tail(Frame) = <<>> THEN Tail(kernal.frames) ELSE <<Tail(Frame)>> \o Tail(kernal.frames)
Error(k, flag) == [k EXCEPT !.STATUS = @ \cup {flag}, !.frames = <<DLABYE>> \o Tail(@)]

Elapsed(op) ==
  CASE op = "W1MS" -> {US2CYCLES(1000)}
    [] op = "Delay" -> {2, 3}
    [] op \in Sets -> {0, 1}
    [] OTHER -> {1, 2}
Clocked(k, dt) == [k EXCEPT !.timer = IF @ > dt THEN @ - dt ELSE 0]

\* LDA, STA: the devices are run for the load, and for the store if it changes a line.
SetLines(a) ==
  /\ a.op \in Sets
  /\ \E dt \in Elapsed(a.op) :
       LET pa == Driven(kernal.pa, a.op)
       IN  /\ WireIs(store_ciapa(iecbus_callback_read(Passes(Wire, dt)), kernal.pa, pa))
           /\ kernal' = [Clocked(kernal, dt) EXCEPT !.pa = pa, !.frames = Rest]

LetTimePass(a) ==
  /\ a.op \in {"W1MS", "Delay"}
  /\ \E dt \in Elapsed(a.op) :
       WireIs(Passes(Wire, dt)) /\ kernal' = [Clocked(kernal, dt) EXCEPT !.frames = Rest]

LoadTimer(a) ==
  /\ a.op = "Timer"
  /\ kernal' = [kernal EXCEPT !.timer = a.arg, !.frames = Rest]
  /\ UNCHANGED <<bus, dev, fs>>

\* What a poll finds: k is the Kernal once the port p has been read.
Polled(k, a, p) ==
  LET done == [k EXCEPT !.frames = Rest]
  IN  CASE a.op = "Present?" -> IF p.data THEN Error(k, "NODEV") ELSE done
        [] a.op = "DataHigh?" -> IF p.data THEN done ELSE Error(k, "FRAME")
        [] a.op = "UntilDataHigh" -> IF p.data THEN done ELSE k
        [] a.op = "UntilDataLow" -> IF p.data THEN k ELSE done
        [] a.op = "UntilClkHigh" -> IF p.clk THEN done ELSE k
        [] a.op = "UntilClkLow" -> IF p.clk THEN k ELSE done
        [] a.op = "UntilTaken" ->
             IF p.data THEN k
             ELSE IF k.pa.atn THEN [done EXCEPT !.acked = Append(@, a.arg)] ELSE done
        [] a.op = "UntilFirstBit" -> IF p.clk THEN k ELSE [done EXCEPT !.byte = 0]
        [] a.op = "UntilBit" ->
             IF ~p.clk THEN k ELSE [done EXCEPT !.byte = @ + (IF p.data THEN 2 ^ a.arg ELSE 0)]

Polls == {"Present?", "DataHigh?", "UntilDataHigh", "UntilDataLow", "UntilClkHigh", "UntilClkLow", "UntilTaken",
          "UntilFirstBit", "UntilBit"}
TimedOut(k, a) == a.op \in {"UntilTaken", "UntilFirstBit"} /\ k.timer = 0

\* The port is read until it gives the same twice.
Poll(a) ==
  /\ a.op \in Polls /\ ~TimedOut(kernal, a)
  /\ \E dt \in Elapsed(a.op) :
       LET once == iecbus_callback_read(Passes(Wire, dt))
           twice == iecbus_callback_read(once)
           k == Clocked(kernal, dt)
       IN  /\ WireIs(twice)
           /\ LET after == IF Port(once) = Port(twice) THEN Polled(k, a, Port(twice)) ELSE k
              IN  kernal' = [after EXCEPT !.stuck = after = kernal /\ twice = Wire]

\* Nobody took the byte in time, or the talker is late: the first time that means EOI.
TimeIsUp(a) ==
  /\ TimedOut(kernal, a)
  /\ kernal' =
       IF a.op = "UntilTaken" THEN Error(kernal, "FRAME")
       ELSE IF a.arg = 1 THEN Error(kernal, "TIMEOUT")
       ELSE [kernal EXCEPT !.STATUS = @ \cup {"EOI"},
               !.frames = <<<<Plain("DATALO"), Plain("CLKHI")>> \o WaitForBit(1) \o Tail(Frame)>> \o Tail(@)]
  /\ UNCHANGED <<bus, dev, fs>>

TakeByte(a) ==
  /\ a.op = "Received"
  /\ kernal' = [kernal EXCEPT !.got = Append(@, kernal.byte),
                  !.frames = (IF "EOI" \in kernal.STATUS THEN <<DLADLH>> ELSE <<>>) \o Rest]
  /\ UNCHANGED <<bus, dev, fs>>

\* The reset code releases the lines and ends with the clock low.
StartUp(a) ==
  /\ a.op = "IOINIT"
  /\ LET pa == [atn |-> TRUE, clk |-> TRUE, data |-> TRUE]
     IN  WireIs(iecbus_callback_write(Wire, pa)) /\ kernal' = [kernal EXCEPT !.pa = pa, !.frames = Rest]

Access == kernal.frames # <<>> /\
  LET a == Head(Frame)
  IN  SetLines(a) \/ LetTimePass(a) \/ LoadTimer(a) \/ Poll(a) \/ TimeIsUp(a) \/ TakeByte(a) \/ StartUp(a)

Call ==
  /\ kernal.frames = <<>> /\ kernal.calls # <<>>
  /\ LET call == Head(kernal.calls)
     IN  kernal' =
           IF call.op = "Check" THEN [kernal EXCEPT !.calls = IF "NODEV" \in kernal.STATUS THEN <<>> ELSE Tail(@)]
           ELSE [AfterCall(kernal, call) EXCEPT !.calls = Tail(@), !.frames = Routine(kernal, call)]
  /\ UNCHANGED <<bus, dev, fs>>

KernalIdle == kernal.frames = <<>> /\ kernal.calls = <<>>
NextOp ==
  /\ KernalIdle /\ kernal.ops # <<>>
  /\ LET o == Head(kernal.ops)
         k == [kernal EXCEPT !.ops = Tail(@), !.op = o, !.calls = Calls(o)]
     IN  kernal' = IF o.op = "OPEN" THEN [k EXCEPT !.STATUS = {}, !.name = o.data, !.got = <<>>] ELSE k
  /\ UNCHANGED <<bus, dev, fs>>

-----------------------------------------------------------------------------
(* The user *)

\* machine_specific_reset: the drives' channels, then the devices; the CPU starts again and the
\* user types the program again.  The lines stay as they are until the reset code writes them.
Restart ==
  /\ kernal.faults < MaxFaults
  /\ WireIs([serial_iec_device_reset(fsdrive_reset(Wire)) EXCEPT !.fs.took = <<>>, !.fs.opened = <<>>])
  /\ kernal' = [KernalStarts(kernal.program) EXCEPT !.frames = <<<<Plain("IOINIT"), Plain("CLKLO")>>>>, !.pa = kernal.pa,
                  !.faults = kernal.faults + 1, !.switched = kernal.switched,
                  !.leftover = kernal.leftover \/ fs.SerialBuffer # <<>>]

set_iec_device_enable(u) ==
  /\ kernal.faults < MaxFaults
  /\ WireIs(IF dev[u].enabled THEN serial_iec_device_disable(Wire, u) ELSE serial_iec_device_enable(Wire, u))
  /\ kernal' = [kernal EXCEPT !.faults = @ + 1, !.switched = TRUE]

TransferInit ==
  \E program \in Programs, enabled \in InitialUnits :
    LET s == SERIAL_init(enabled)
    IN  bus = s.bus /\ dev = s.dev /\ fs = s.fs /\ kernal = KernalStarts(program)

\* The program is over: the prompt is back.
Finished == KernalIdle /\ kernal.ops = <<>>
Waiting == Finished /\ UNCHANGED transferVars

TransferAtRest ==
  LET s == SERIAL_init({})
  IN  bus = s.bus /\ dev = s.dev /\ fs = s.fs /\ kernal = KernalStarts(<<>>)

TransferNext ==
  \/ Access \/ Call \/ NextOp \/ Waiting
  \/ Restart
  \/ \E u \in ToSet(Units) : set_iec_device_enable(u)

TransferSpec == TransferInit /\ [][TransferNext]_transferVars

-----------------------------------------------------------------------------
Bytes == 0..(2 ^ BITS - 1)

\* Bytes, bits and timeouts are in their ranges, nobody listens and talks at once, and the ports
\* hold the wired-and of the lines.
SerTypeOK ==
  /\ PortsAreWired(bus)
  /\ \A u \in ToSet(Units) :
       /\ dev[u].bit \in 0..(BITS - 1) /\ {dev[u].byte, dev[u].primary, dev[u].secondary} \subseteq Bytes
       /\ dev[u].timeout \in 0..US2CYCLES(1000)
       /\ dev[u].flags \in SUBSET {"ATN", "LISTENING", "TALKING"} /\ ~({"LISTENING", "TALKING"} \subseteq dev[u].flags)
       /\ \A c \in Channels : dev[u].st[c] \in {SERIAL_OK, SERIAL_ERROR, SERIAL_EOF}
  /\ ToSet(kernal.got) \subseteq Bytes /\ kernal.STATUS \subseteq {"NODEV", "FRAME", "TIMEOUT", "EOI"}

TookBytes == [i \in DOMAIN fs.took |-> fs.took[i].byte]

\* A byte that was acknowledged on the bus has been taken by the drive, every byte once and in
\* order, and at most the one on its way is ahead, with resets and devices that come and go.
AckedIsTaken == IsPrefix(kernal.acked, TookBytes) /\ Len(fs.took) <= Len(kernal.acked) + 1

Done(op) == KernalIdle /\ kernal.op.op = op

\* When an OPEN or a PRINT# is over and the status is clear, the unit it was meant for took all
\* of it: what the device or the drive refuses is never acknowledged.
StatusIsHonest ==
  (Done("OPEN") \/ Done("PRINT")) /\ kernal.STATUS = {} =>
    IsSuffix(kernal.op.data, TookBytes) /\ \A i \in DOMAIN fs.took : fs.took[i].unit = kernal.op.unit

\* The name a drive opens is the name that was sent, unless a reset or a switch came in the middle
\* of a name: the buffer is one for all units and channels and nothing else empties it.
NamesWhole == ~kernal.leftover /\ ~kernal.switched /\ Done("OPEN") /\ "NODEV" \notin kernal.STATUS =>
  fs.opened # <<>> /\ Last(fs.opened) = kernal.op.data

\* What the program reads is the file from its start, also when it reads in several turns: no byte
\* is fetched and lost.  The end is announced with the last byte, not before and not after.
ReadAsStored ==
  kernal.got # <<>> /\ kernal.name \in DOMAIN Files =>
    /\ IsPrefix(kernal.got, Files[kernal.name])
    /\ kernal.frames = <<>> /\ ~kernal.switched =>
         ("EOI" \in kernal.STATUS <=> kernal.got = Files[kernal.name])

\* When the program is over, no device holds a line once it has had a look at the bus.
LinesFree == Finished /\ ~kernal.switched =>
  \A u \in ToSet(Units) : iecbus_callback_read(Wire).bus.drv_bus[u] = Released

\* The state machine is fast enough for the Kernal's time limits: a device that is there answers, one
\* that is not does not, and no transfer that the drive accepts ends with an error.
NoFalseAlarm == ~kernal.switched /\ ~kernal.leftover =>
  /\ Done("OPEN") => (kernal.STATUS = {} <=> dev[kernal.op.unit].enabled)
  /\ Done("PRINT") /\ kernal.name \in NewNames => kernal.STATUS = {}
  /\ Done("GET") /\ kernal.name \in DOMAIN Files => kernal.STATUS \subseteq {"EOI"}

\* The Kernal waits without a limit in five places.  Unless a device is switched in between, the
\* device and the computer never wait for each other: a look in vain that left the devices as they
\* were, with no time running, would be repeated for ever.
NeverStuck == kernal.stuck => kernal.switched

\* What the bus says of a transfer is true, both ways: an acknowledged byte was taken, a clear
\* status means the unit took it all, and an error is never reported for what went well.
StatusIsTrue == AckedIsTaken /\ StatusIsHonest /\ NoFalseAlarm

\* Names and files cross the bus whole.
DataIsWhole == NamesWhole /\ ReadAsStored

\* The bus comes to rest: no line is held after the program, and nobody waits for ever.
BusComesFree == LinesFree /\ NeverStuck
=============================================================================
