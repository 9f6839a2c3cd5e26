------------------------------ MODULE RingBuf ------------------------------
(***************************************************************************)
(* The ring buffer of the production tool (utils/ringbuf.c, ringbuf.h) as  *)
(* operators on a record: the counted ring in which every slot is usable.  *)
(* The byte area `buf_head' is an array of NumItemMax items of one size,   *)
(* so INDEX_MEM_LOCATION(pbuf, idx) is data[idx].  The field __is_full is  *)
(* never read or written by the code after its initialisation, and is left *)
(* out.  Nothing here synchronises: the callers do.                        *)
(***************************************************************************)
EXTENDS Integers, Sequences

CONSTANT NumItemMax     \* num_item_max of RING_BUF_DEF

ASSUME NumItemMaxAssumption == NumItemMax \in Nat \ {0}

Idx == 0 .. (NumItemMax - 1)

\* struct ring_buf over items drawn from the set S.
RingBufOf(S) ==
  [data       : [Idx -> S],
   idx_read   : Idx,
   idx_write  : Idx,
   item_count : 0 .. NumItemMax]

\* RING_BUF_DEF: a static, zeroed area and both indexes at its start.
RING_BUF_DEF(zero) ==
  [data       |-> [i \in Idx |-> zero],
   idx_read   |-> 0,
   idx_write  |-> 0,
   item_count |-> 0]

NextIdx_NoWrap(i) == i + 1                              \* mutant

NextIdx(i) == (i + 1) % NumItemMax

IsFull_OneSlotFree(b) == b.item_count = NumItemMax - 1  \* mutant

IsFull(b)  == b.item_count = NumItemMax
IsEmpty(b) == b.item_count = 0

\* ringbuf_push with both pointers set: what it returns and the ring it leaves.
ringbuf_push(b, item) ==
  IF IsFull(b)
    THEN [ret |-> -1, buf |-> b]
    ELSE [ret |-> 0,
          buf |-> [data       |-> [b.data EXCEPT ![b.idx_write] = item],
                   idx_read   |-> b.idx_read,
                   idx_write  |-> NextIdx(b.idx_write),
                   item_count |-> b.item_count + 1]]

\* mutant: the count is not decremented
ringbuf_pop_KeepsCount(b, out) ==
  IF IsEmpty(b)
    THEN [ret |-> -1, buf |-> b, data |-> out]
    ELSE [ret  |-> 0,
          buf  |-> [b EXCEPT !.idx_read = NextIdx(@)],
          data |-> b.data[b.idx_read]]

\* mutant: takes the newest item
ringbuf_pop_Newest(b, out) ==
  IF IsEmpty(b)
    THEN [ret |-> -1, buf |-> b, data |-> out]
    ELSE LET last == (b.idx_write + NumItemMax - 1) % NumItemMax IN
         [ret  |-> 0,
          buf  |-> [b EXCEPT !.idx_write = last, !.item_count = @ - 1],
          data |-> b.data[last]]

\* ringbuf_pop with both pointers set.  `out' is what *data holds before the
\* call: an empty ring leaves it as it is.
ringbuf_pop(b, out) ==
  IF IsEmpty(b)
    THEN [ret |-> -1, buf |-> b, data |-> out]
    ELSE [ret  |-> 0,
          buf  |-> [data       |-> b.data,
                    idx_read   |-> NextIdx(b.idx_read),
                    idx_write  |-> b.idx_write,
                    item_count |-> b.item_count - 1],
          data |-> b.data[b.idx_read]]

-----------------------------------------------------------------------------
\* What the ring stands for: the items from the read index on, oldest first.

Slot(b, i) == (b.idx_read + i - 1) % NumItemMax

QueueOf(b) == [i \in 1 .. b.item_count |-> b.data[Slot(b, i)]]

\* The write index is where the count says it is, so a push that finds a slot
\* free can only write over an item that was popped.
RingOK(b) == b.idx_write = (b.idx_read + b.item_count) % NumItemMax
=============================================================================
