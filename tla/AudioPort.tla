----------------------------- MODULE AudioPort ------------------------------
(***************************************************************************)
(* arch/ps3/cellframework/audio/stream.hpp: the sound device.  The         *)
(* emulator's thread writes into a queue and sleeps on a condition while   *)
(* it is full; a thread of the port takes a block from the queue each time *)
(* the hardware asks for one, and wakes the writer.  The condition is      *)
(* waited on without a predicate under its lock and signalled without the  *)
(* lock, so that a signal may come when nobody waits yet.                  *)
(*                                                                         *)
(* One element of the queue is a block of CELL_AUDIO_BLOCK_SAMPLES frames. *)
(* Every write is a whole number of them.                                  *)
(***************************************************************************)
EXTENDS Integers, Sequences, SequencesExt

CONSTANTS
  fifo_size,  \* of the queue, in blocks
  MaxNotify   \* bound: notifications the event queue holds

ASSUME PortAssumption == {fifo_size, MaxNotify} \subseteq Nat \ {0}

VARIABLES
  port,  \* state, quit_thread, fifo, ahead (the blocks the resampler holds), out_buffer
  loop,  \* where the port's thread is in event_loop
  cond,  \* where the emulator's thread is in write
  unwritten,  \* the blocks it has still to write
  heard  \* history: the blocks the hardware was given that were not FILL or silence, the last first
portVars == <<port, loop, cond, unwritten, heard>>

\* The SID's blocks are numbered from 1; FILL repeats the last sample.
FILL == -1
Silence == 0
NoPort ==
  [state |-> "none", quit_thread |-> FALSE, fifo |-> <<>>, ahead |-> <<>>, out_buffer |-> Silence,
   notified |-> 0]

AudioPort == port' = [NoPort EXCEPT !.state = "started"] /\ loop' = "begin"

\* write: as much as there is room for, and sleep if that was not all.  (The code also cuts
\* what it writes into pieces of the queue's size; it does not sleep between them.)
fifo_write ==
  /\ cond = "write"
  /\ LET room == fifo_size - Len(port.fifo)
         wrote == IF Len(unwritten) < room THEN Len(unwritten) ELSE room
     IN  /\ port' = [port EXCEPT !.fifo = @ \o SubSeq(unwritten, 1, wrote)]
         /\ unwritten' = SubSeq(unwritten, wrote + 1, Len(unwritten))
         /\ cond' = IF wrote = Len(unwritten) THEN "idle" ELSE "to_wait"
  /\ UNCHANGED <<loop, heard>>

cond_wait == cond = "to_wait" /\ cond' = "waiting" /\ UNCHANGED <<port, loop, unwritten, heard>>
\* pthread_cond_wait may return without a signal.
SpuriousWakeup == cond = "waiting" /\ cond' = "write" /\ UNCHANGED <<port, loop, unwritten, heard>>

\* The destructor: tell the thread to end, wait for it, free its buffers and close the port.
Quit == port' = [port EXCEPT !.quit_thread = TRUE]
Joined == loop = "ended"
Freed == port' = NoPort

-----------------------------------------------------------------------------
(* The hardware and the port's thread *)

Notify ==
  /\ port.state = "started" /\ loop \notin {"begin", "ended"} /\ port.notified < MaxNotify
  /\ port' = [port EXCEPT !.notified = @ + 1]
  /\ UNCHANGED <<loop, cond, unwritten, heard>>

CreateNotifyEventQueue ==
  loop = "begin" /\ loop' = "test" /\ UNCHANGED <<port, cond, unwritten, heard>>

TestQuit ==
  /\ loop = "test"
  /\ loop' = IF port.quit_thread THEN "ended" ELSE "receive"
  /\ UNCHANGED <<port, cond, unwritten, heard>>

event_queue_receive ==
  /\ loop = "receive" /\ port.notified > 0
  /\ port' = [port EXCEPT !.notified = @ - 1]
  /\ loop' = "pull"
  /\ UNCHANGED <<cond, unwritten, heard>>

\* One block from the queue, or silence; the resampler holds a block back, so the first time
\* it asks for another.
pull ==
  /\ loop = "pull"
  /\ LET block == IF port.fifo = <<>> THEN Silence ELSE Head(port.fifo)
         rest == IF port.fifo = <<>> THEN <<>> ELSE Tail(port.fifo)
     IN  IF port.ahead = <<>>
         THEN port' = [port EXCEPT !.fifo = rest, !.ahead = <<block>>] /\ UNCHANGED loop
         ELSE /\ port' = [port EXCEPT !.fifo = rest, !.ahead = <<block>>, !.out_buffer = port.ahead[1]]
              /\ loop' = "add"
  /\ UNCHANGED <<cond, unwritten, heard>>

Add2chData ==
  /\ loop = "add" /\ loop' = "wake"
  /\ heard' = IF port.out_buffer > 0 THEN <<port.out_buffer>> \o heard ELSE heard
  /\ port' = [port EXCEPT !.out_buffer = Silence]
  /\ UNCHANGED <<cond, unwritten>>

\* Mutant: the writer is woken only when the queue was full.
wake_IfFull ==
  /\ loop = "wake" /\ loop' = "test"
  /\ cond' = IF cond = "waiting" /\ Len(port.fifo) = fifo_size - 1 THEN "write" ELSE cond
  /\ UNCHANGED <<port, unwritten, heard>>

wake ==
  /\ loop = "wake" /\ loop' = "test"
  /\ cond' = IF cond = "waiting" THEN "write" ELSE cond
  /\ UNCHANGED <<port, unwritten, heard>>

event_loop ==
  CreateNotifyEventQueue \/ TestQuit \/ event_queue_receive \/ pull \/ Add2chData \/ wake
=============================================================================
