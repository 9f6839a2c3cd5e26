--------------------------- MODULE RingBufClient ---------------------------
(***************************************************************************)
(* One ring (utils/ringbuf.c) under any sequence of calls of a sequential  *)
(* client, as test/test_ring_buf.c drives it, and what the ring promises:  *)
(* the bounded queue of BoundedFifo.                                       *)
(***************************************************************************)
EXTENDS RingBuf

CONSTANTS
  Item,     \* the values an item can have
  Zero      \* the item whose bytes are all zero

ASSUME ZeroAssumption == Zero \in Item

VARIABLES
  ring,     \* the ring
  out,      \* the client's output buffer, *data of ringbuf_pop
  call,     \* the operation last called
  ret       \* its result

vars == <<ring, out, call, ret>>

Init ==
  /\ ring = RING_BUF_DEF(Zero)
  /\ out = Zero
  /\ call = "none"
  /\ ret = 0

Push(item) ==
  LET r == ringbuf_push(ring, item) IN
    /\ ring' = r.buf
    /\ ret' = r.ret
    /\ call' = "push"
    /\ UNCHANGED out

Pop ==
  LET r == ringbuf_pop(ring, out) IN
    /\ ring' = r.buf
    /\ out' = r.data
    /\ ret' = r.ret
    /\ call' = "pop"

\* Either function with a NULL ring or a NULL item returns before it looks.
InvalidInput ==
  /\ call' = "invalid"
  /\ ret' = -1
  /\ UNCHANGED <<ring, out>>

Next == (\E item \in Item : Push(item)) \/ Pop \/ InvalidInput

Spec == Init /\ [][Next]_vars

-----------------------------------------------------------------------------
\* The ring's fields stay in range: an index never leaves the data area.
TypeOK ==
  /\ ring \in RingBufOf(Item)
  /\ out \in Item
  /\ call \in {"none", "push", "pop", "invalid"}
  /\ ret \in {0, -1}

\* The two indexes and the count agree after any sequence of calls
\* (ringbuf.c:30-32 and 56-58 advance them separately).
IndexesAgree == RingOK(ring)

-----------------------------------------------------------------------------
Fifo == INSTANCE BoundedFifo WITH
          Capacity <- NumItemMax, queue <- QueueOf(ring)

\* The ring is the bounded queue: items come out once each and in the order
\* they went in, across every wrap of either index, a push is refused exactly
\* when NumItemMax items are held and a pop exactly when none is.
ImplementsFifo == Fifo!Spec
=============================================================================
