------------------------------- MODULE Sound --------------------------------
(***************************************************************************)
(* sound.c and sounddrv/soundps3.cpp: the SID's samples on their way to    *)
(* the port.  The emulator makes samples whenever a SID register is used   *)
(* or a frame ends, flushes whole fragments at the end of a frame, and     *)
(* opens and closes the device in the middle of it when the settings say   *)
(* so.  A step ends where the emulator's thread touches the port, because  *)
(* the port's thread goes on meanwhile.                                    *)
(*                                                                         *)
(* The unit of time is the half fragment, 512 frames; as a frame is two    *)
(* 16-bit samples on its way to the port (a mono SID is doubled, a stereo  *)
(* one counted twice), it becomes two of the port's blocks.  The space the *)
(* port tells is in samples, and sound.c takes it for frames.              *)
(***************************************************************************)
EXTENDS AudioPort, FiniteSets

CONSTANTS
  FRAGSIZE, FRAGNR,  \* of ps3_audio_init
  SOUND_BUFSIZE,     \* the chip's buffer
  SuspendTime,       \* resource SoundSuspendTime: is it set
  Settings,          \* what the user does: "warp", "sound", "speed", "device", "pause", "reset", "snapshot"
  SidFails,          \* the SID engine may fail to open
  MaxMade            \* bound: half fragments the SID makes

ASSUME SoundAssumption ==
  /\ {FRAGSIZE, SOUND_BUFSIZE} \subseteq Nat \ {0} /\ MaxMade \in Nat
  /\ FRAGNR \in Nat /\ FRAGNR >= 3 /\ fifo_size = FRAGSIZE * FRAGNR
  /\ SuspendTime \in BOOLEAN /\ SidFails \in BOOLEAN

VARIABLES
  snd,   \* sound.c's variables: buffer (its first bufptr half fragments), playdev, ...
  steps,  \* what the emulator's thread has still to do
  made,  \* history: the half fragments made
  gone   \* history: the blocks that were thrown away: warp, reset, a new device, no speed limit
sndVars == <<port, loop, cond, unwritten, heard, snd, steps, made, gone>>

bufsize == FRAGSIZE * FRAGNR
\* The blocks of a half fragment h are 2 * h - 1 and 2 * h.
Blocks(halves) == [b \in 1 .. 2 * Len(halves) |-> 2 * halves[(b + 1) \div 2] - (b % 2)]
Fill(n) == [i \in 1 .. 2 * n |-> FILL]
Numbers(blocks) == {b \in ToSet(blocks) : b > 0}
Fragments(n) == n - (n % FRAGSIZE)
bufferspace == fifo_size - Len(port.fifo)

SndInit ==
  /\ port = NoPort /\ loop = "ended" /\ cond = "idle" /\ unwritten = <<>> /\ heard = <<>>
  /\ snd = [ playback_enabled |-> TRUE, sound_state_changed |-> FALSE, sid_state_changed |-> FALSE,
             warp |-> FALSE, nolimit |-> FALSE, playdev |-> FALSE, sdev_open |-> FALSE,
             issuspended |-> FALSE, disabletime |-> FALSE, buffer |-> <<>>, nr |-> 0 ]
  /\ steps = <<>> /\ made = 0 /\ gone = {}

\* The emulator's thread runs: it is not in the middle of a write.
Turn(what) == steps # <<>> /\ Head(steps) = what /\ cond = "idle"
Idle == steps = <<>> /\ cond = "idle"
Do(next) == steps' = next \o Tail(steps)
PortKept == UNCHANGED <<port, loop, cond, unwritten, heard>>
Write(blocks) ==
  /\ unwritten' = blocks /\ cond' = IF blocks = <<>> THEN "idle" ELSE "write"
  /\ UNCHANGED <<port, loop, heard>>
Drop(buffer) == gone' = gone \cup Numbers(Blocks(buffer))

-----------------------------------------------------------------------------
(* Opening and closing *)

CanRun == snd.playback_enabled /\ ~(SuspendTime /\ snd.disabletime)

\* sound_open: the port and its thread, then the SID engine.
Open ==
  /\ Turn("open")
  /\ IF SuspendTime /\ snd.disabletime THEN Do(<<"fail">>) /\ PortKept /\ UNCHANGED <<snd, gone>>
     ELSE /\ AudioPort /\ UNCHANGED <<cond, unwritten, heard>>
          /\ snd' = [snd EXCEPT !.playdev = TRUE, !.issuspended = FALSE, !.buffer = <<>>]
          /\ Drop(snd.buffer)
          /\ \/ Do(<<"fill", "opened">>)
             \/ SidFails /\ Do(<<"error", "fail">>)
  /\ UNCHANGED made

\* Fill to bufsize - fragsize: whole fragments.
FillUp ==
  /\ Turn("fill") /\ Do(<<>>)
  /\ LET j == bufferspace - FRAGSIZE IN Write(IF j > 0 THEN Fill(Fragments(j)) ELSE <<>>)
  /\ UNCHANGED <<snd, made, gone>>

Opened ==
  /\ Turn("opened") /\ Do(<<>>) /\ PortKept
  /\ snd' = [snd EXCEPT !.sdev_open = TRUE, !.sound_state_changed = FALSE, !.sid_state_changed = FALSE]
  /\ UNCHANGED <<made, gone>>

\* What failed takes the rest of the frame with it.
Fail == Turn("fail") /\ steps' = <<>> /\ PortKept /\ UNCHANGED <<snd, made, gone>>

sound_error ==
  /\ Turn("error") /\ Do(<<"close">>) /\ PortKept
  /\ snd' = [snd EXCEPT !.playback_enabled = FALSE]
  /\ UNCHANGED <<made, gone>>

\* sound_close: deleting the port waits for its thread.
Close ==
  /\ Turn("close")
  /\ IF snd.playdev THEN Quit /\ Do(<<"join">>) ELSE UNCHANGED port /\ Do(<<"closed">>)
  /\ UNCHANGED <<loop, cond, unwritten, heard, snd, made, gone>>

Join ==
  /\ Turn("join") /\ Joined /\ Do(<<"closed">>) /\ Freed
  /\ gone' = gone \cup Numbers(port.fifo \o port.ahead)
  /\ UNCHANGED <<loop, cond, unwritten, heard, snd, made>>

Closed ==
  /\ Turn("closed") /\ Do(<<>>) /\ PortKept
  /\ snd' = [snd EXCEPT !.playdev = FALSE, !.sdev_open = FALSE, !.sound_state_changed = FALSE]
  /\ UNCHANGED <<made, gone>>

-----------------------------------------------------------------------------
(* Making samples *)

\* sound_run_sound: no more samples than the buffer has room for.
Run ==
  /\ Turn("run")
  /\ IF ~CanRun THEN Do(<<"fail">>) /\ UNCHANGED <<snd, made>>
     ELSE IF ~snd.playdev THEN Do(<<"open", "run">>) /\ UNCHANGED <<snd, made>>
     ELSE \E n \in 0 .. FRAGSIZE :
            LET nr == IF n > SOUND_BUFSIZE - Len(snd.buffer) THEN SOUND_BUFSIZE - Len(snd.buffer) ELSE n
            IN  /\ made + nr <= MaxMade
                /\ snd' = [snd EXCEPT !.buffer = @ \o [i \in 1 .. nr |-> made + i]]
                /\ made' = made + nr /\ Do(<<>>)
  /\ PortKept /\ UNCHANGED gone

\* A register of the SID is read or written.
sound_store ==
  /\ Idle /\ steps' = <<"run">> /\ PortKept /\ UNCHANGED <<snd, made, gone>>

-----------------------------------------------------------------------------
(* sound_flush, at the end of a frame *)

sound_flush ==
  /\ Idle
  /\ steps' = IF ~snd.playback_enabled THEN IF snd.sdev_open THEN <<"close">> ELSE <<>>
             ELSE IF snd.sound_state_changed /\ snd.sdev_open THEN <<"close", "run", "sid">>
             ELSE <<"run", "sid">>
  /\ snd.playback_enabled \/ snd.sdev_open
  /\ \E over \in BOOLEAN :
       snd' = IF ~snd.playback_enabled THEN snd
              ELSE [snd EXCEPT !.sound_state_changed = FALSE, !.disabletime = @ /\ ~(SuspendTime /\ over)]
  /\ PortKept /\ UNCHANGED <<made, gone>>

\* The SID's new parameters; in warp mode everything is thrown away.
Sid ==
  /\ Turn("sid")
  /\ \/ /\ SidFails /\ snd.sid_state_changed
        /\ Do(<<"error", "fail">>) /\ UNCHANGED <<snd, gone>>
     \/ IF snd.warp
        THEN /\ Drop(snd.buffer) /\ Do(<<>>)
             /\ snd' = [snd EXCEPT !.sid_state_changed = FALSE, !.buffer = <<>>]
        ELSE /\ snd' = [snd EXCEPT !.sid_state_changed = FALSE] /\ UNCHANGED gone
             /\ Do(IF snd.issuspended THEN <<"resume", "space">> ELSE <<"space">>)
  /\ PortKept /\ UNCHANGED made

\* How much fits is asked before anything is written.
Space ==
  /\ Turn("space")
  /\ LET nr == Fragments(Len(snd.buffer))
         space == Fragments(bufferspace)
         drained == bufsize - space < FRAGSIZE
     IN  /\ snd' = [snd EXCEPT !.nr = IF nr > space THEN space ELSE nr]
         /\ IF nr = 0 THEN Do(<<>>) /\ Write(<<>>)
            ELSE /\ Write(IF drained THEN Fill(bufsize - nr) ELSE <<>>) /\ Do(<<"write">>)
  /\ UNCHANGED <<made, gone>>

\* With a SoundSuspendTime a second underrun in the same second turns the sound off.
suspendsound ==
  /\ Turn("space") /\ SuspendTime
  /\ Fragments(Len(snd.buffer)) # 0 /\ bufsize - Fragments(bufferspace) < FRAGSIZE
  /\ snd' = [snd EXCEPT !.disabletime = TRUE, !.sound_state_changed = TRUE]
  /\ Do(<<>>) /\ PortKept /\ UNCHANGED <<made, gone>>

WriteFragments ==
  /\ Turn("write") /\ Do(<<"flushed">>)
  /\ Write(Blocks(SubSeq(snd.buffer, 1, snd.nr)))
  /\ UNCHANGED <<snd, made, gone>>

\* Mutant: one half fragment too few is taken out of the buffer.
Flushed_Short ==
  /\ Turn("flushed") /\ Do(<<>>) /\ PortKept
  /\ LET nr == IF snd.nolimit THEN Len(snd.buffer) ELSE IF snd.nr = 0 THEN 0 ELSE snd.nr - 1
     IN  /\ snd' = [snd EXCEPT !.buffer = SubSeq(@, nr + 1, Len(@)), !.nr = 0]
         /\ Drop(SubSeq(snd.buffer, snd.nr + 1, nr))
  /\ UNCHANGED made

\* "No limit" takes the rest of the buffer with it.
Flushed ==
  /\ Turn("flushed") /\ Do(<<>>) /\ PortKept
  /\ LET nr == IF snd.nolimit THEN Len(snd.buffer) ELSE snd.nr
     IN  /\ snd' = [snd EXCEPT !.buffer = SubSeq(@, nr + 1, Len(@)), !.nr = 0]
         /\ Drop(SubSeq(snd.buffer, snd.nr + 1, nr))
  /\ UNCHANGED made

-----------------------------------------------------------------------------
(* Suspending and the settings *)

sound_suspend ==
  /\ Turn("suspend") /\ Do(<<>>)
  /\ Write(IF snd.playdev /\ ~snd.issuspended THEN Fill(FRAGSIZE) ELSE <<>>)
  /\ snd' = [snd EXCEPT !.issuspended = @ \/ snd.playdev]
  /\ UNCHANGED <<made, gone>>

sound_resume ==
  /\ Turn("resume") /\ Do(<<>>)
  /\ Write(IF snd.playdev /\ snd.issuspended THEN Fill(FRAGSIZE) ELSE <<>>)
  /\ snd' = [snd EXCEPT !.issuspended = @ /\ ~snd.playdev]
  /\ UNCHANGED <<made, gone>>

sound_reset ==
  /\ "reset" \in Settings /\ snd' = [snd EXCEPT !.buffer = <<>>] /\ Drop(snd.buffer) /\ UNCHANGED steps

sound_set_warp_mode ==
  /\ "warp" \in Settings /\ snd' = [snd EXCEPT !.warp = ~@] /\ UNCHANGED gone
  /\ steps' = IF snd.warp THEN <<"resume">> ELSE <<"suspend">>

pause == "pause" \in Settings /\ steps' = <<"suspend">> /\ UNCHANGED <<snd, gone>>

set_playback_enabled ==
  "sound" \in Settings /\ snd' = [snd EXCEPT !.playback_enabled = ~@] /\ UNCHANGED <<steps, gone>>

sound_set_relative_speed ==
  /\ "speed" \in Settings /\ snd' = [snd EXCEPT !.nolimit = ~@, !.sid_state_changed = TRUE]
  /\ UNCHANGED <<steps, gone>>

set_device_name ==
  "device" \in Settings /\ snd' = [snd EXCEPT !.sound_state_changed = TRUE] /\ UNCHANGED <<steps, gone>>

\* A snapshot of the SID closes the device and opens it when the snapshot has sound.
sid_snapshot_read_module ==
  /\ "snapshot" \in Settings /\ UNCHANGED gone
  /\ \E sound \in BOOLEAN :
       /\ snd' = [snd EXCEPT !.playback_enabled = sound]
       /\ steps' = IF sound THEN <<"close", "open">> ELSE <<"close">>

\* The user acts between two instructions.
Setting ==
  /\ Idle /\ PortKept /\ UNCHANGED made
  /\ \/ sound_reset \/ sound_set_warp_mode \/ pause \/ set_playback_enabled
     \/ sound_set_relative_speed \/ set_device_name \/ sid_snapshot_read_module

Emulator ==
  \/ Open \/ FillUp \/ Opened \/ Fail \/ sound_error \/ Close \/ Join \/ Closed \/ Run
  \/ Sid \/ Space \/ WriteFragments \/ Flushed \/ sound_suspend \/ sound_resume
Kept == UNCHANGED <<snd, steps, made, gone>>
WriterStep == (fifo_write \/ cond_wait) /\ Kept
ThreadStep == event_loop /\ Kept
HardwareStep == Notify /\ Kept

SndNext ==
  \/ Emulator \/ WriterStep \/ ThreadStep \/ HardwareStep \/ (SpuriousWakeup /\ Kept) \/ suspendsound
  \/ sound_store \/ sound_flush \/ Setting

\* Both threads run, and the hardware asks for blocks as long as the port is open.
SndFairness ==
  /\ WF_sndVars(Emulator) /\ WF_sndVars(WriterStep)
  /\ WF_sndVars(ThreadStep) /\ WF_sndVars(HardwareStep)
SndSpec == SndInit /\ [][SndNext]_sndVars

-----------------------------------------------------------------------------
(* Properties *)

\* What is on its way, nearest to the loudspeaker first.
InBuffer ==
  IF steps # <<>> /\ Head(steps) = "flushed" THEN SubSeq(snd.buffer, snd.nr + 1, Len(snd.buffer)) ELSE snd.buffer
OnTheWay == <<port.out_buffer>> \o port.ahead \o port.fifo \o unwritten \o Blocks(InBuffer)

\* The variables' values: no queue is longer than its size, a writer has something to write,
\* and waits only while there is a port.
SndTypeOK ==
  /\ port.state \in {"none", "started"} /\ port.notified \in 0 .. MaxNotify /\ Len(port.fifo) <= fifo_size
  /\ loop \in {"begin", "test", "receive", "pull", "add", "wake", "ended"}
  /\ cond \in {"idle", "write", "to_wait", "waiting"}
  /\ cond # "idle" <=> unwritten # <<>>
  /\ cond # "idle" => port.state = "started"
  /\ Len(snd.buffer) <= SOUND_BUFSIZE /\ snd.nr \in 0 .. bufsize
  /\ gone \subseteq 1 .. 2 * made

\* What the SID made is heard in the order it was made and at most once: the emulator's
\* buffer, what is left of a write, the queue and the resampler never hold a block twice
\* or before an earlier one (sound.c:1041-1049, stream.hpp:137, 173).
PlayedInOrder ==
  LET way == Reverse(heard) \o OnTheWay
  IN  \A i, j \in DOMAIN way : i < j /\ way[i] > 0 /\ way[j] > 0 => way[i] < way[j]

\* Nothing is lost on the way but what warp mode, a reset, "no limit" and a closed device throw away.
NothingLost == Numbers(heard \o OnTheWay) \cup gone = 1 .. 2 * made

\* The port and its buffers live as long as its thread, and between two calls sound.c's two
\* notions of an open device agree with each other and with the port.
PortOutlivesThread ==
  /\ loop # "ended" => port.state = "started"
  /\ steps = <<>> => snd.sdev_open = snd.playdev /\ (snd.playdev <=> port.state = "started")

\* The emulator never sleeps for ever in a write or while it closes the device: whatever it
\* began it ends, although a signal sent before it waits is lost.
EmulatorGoesOn == ~Idle ~> Idle

\* What the SID made is heard once and in order or was thrown away on purpose, whatever the
\* threads do, and whenever the device is closed.
SoundArrives == PlayedInOrder /\ NothingLost /\ PortOutlivesThread
=============================================================================
