------------------------------- MODULE KbdBuf -------------------------------
(***************************************************************************)
(* kbdbuf.c: text the emulator types into the machine.  A ring of          *)
(* QUEUE_SIZE characters is emptied, a chunk at a time, into the keyboard  *)
(* buffer the Kernal keeps in memory, whenever that one is empty.          *)
(*                                                                         *)
(* No variables: a queue is a record k = [queue, head_idx, num_pending,    *)
(* buffer], where buffer is what lies in the Kernal's own buffer at        *)
(* buffer_location (its length is the byte at num_pending_location).       *)
(***************************************************************************)
EXTENDS Naturals, Sequences

CONSTANTS
  QUEUE_SIZE,    \* characters the ring holds
  buffer_size    \* characters the Kernal's buffer holds

ASSUME KbdBufAssumption == QUEUE_SIZE \in Nat \ {0} /\ buffer_size \in Nat \ {0}

\* What has been fed and not been handed to the Kernal, oldest first.
Pending(k) == [i \in 1 .. k.num_pending |-> k.queue[(k.head_idx + i - 1) % QUEUE_SIZE]]

IsQueue(k, chars) ==
  /\ k.queue \in [0 .. QUEUE_SIZE - 1 -> chars]
  /\ k.head_idx \in 0 .. QUEUE_SIZE - 1
  /\ k.num_pending \in 0 .. QUEUE_SIZE
  /\ k.buffer \in Seq(chars) /\ Len(k.buffer) <= buffer_size

kbdbuf_is_empty(k) == k.buffer = <<>>

\* Mutant: the buffer is written although the Kernal has not read it yet.
kbdbuf_flush_Always(k, initialised) ==
  LET n == IF k.num_pending > buffer_size THEN buffer_size ELSE k.num_pending
  IN  IF k.num_pending = 0 \/ ~initialised THEN k
      ELSE [k EXCEPT !.head_idx = (@ + n) % QUEUE_SIZE, !.num_pending = @ - n,
                     !.buffer = SubSeq(Pending(k), 1, n)]

\* initialised: maincpu_clk has reached kernal_init_cycles.
kbdbuf_flush(k, initialised) ==
  LET n == IF k.num_pending > buffer_size THEN buffer_size ELSE k.num_pending
  IN  IF k.num_pending = 0 \/ ~initialised \/ ~kbdbuf_is_empty(k) THEN k
      ELSE [k EXCEPT !.head_idx = (@ + n) % QUEUE_SIZE, !.num_pending = @ - n,
                     !.buffer = SubSeq(Pending(k), 1, n)]

CanFeed(k, string) == k.num_pending + Len(string) <= QUEUE_SIZE

\* Mutant: nobody looks whether the string fits.
kbdbuf_feed_Overflows(k, string, initialised) ==
  LET p == (k.head_idx + k.num_pending) % QUEUE_SIZE
      at(i) == ((i + QUEUE_SIZE - p) % QUEUE_SIZE) + 1
  IN  kbdbuf_flush([k EXCEPT
        !.queue = [i \in DOMAIN @ |-> IF at(i) <= Len(string) THEN string[at(i)] ELSE @[i]],
        !.num_pending = @ + Len(string)], initialised)

\* A string that does not fit is dropped as a whole.
kbdbuf_feed(k, string, initialised) ==
  IF ~CanFeed(k, string) THEN k
  ELSE LET p == (k.head_idx + k.num_pending) % QUEUE_SIZE
           at(i) == ((i + QUEUE_SIZE - p) % QUEUE_SIZE) + 1
       IN  kbdbuf_flush([k EXCEPT
             !.queue = [i \in DOMAIN @ |-> IF at(i) <= Len(string) THEN string[at(i)] ELSE @[i]],
             !.num_pending = @ + Len(string)], initialised)
=============================================================================
