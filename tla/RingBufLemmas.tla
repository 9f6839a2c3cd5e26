--------------------------- MODULE RingBufLemmas ---------------------------
(***************************************************************************)
(* Lemmas about the ring (RingBuf), for every capacity and every set of    *)
(* items: what one call does to the queue the ring stands for.             *)
(***************************************************************************)
EXTENDS RingBuf, SequenceTheorems, TLAPS

(***************************************************************************)
(* Arithmetic modulo the capacity.                                         *)
(***************************************************************************)

\* An index in range is its own remainder, and one lap further loses a lap.
LEMMA ModLap ==
  ASSUME NEW n \in Nat \ {0}, NEW i \in 0 .. (2 * n - 1)
  PROVE  i % n = IF i < n THEN i ELSE i - n
OBVIOUS

\* One lap over an index and a count.
LEMMA WrapAdd ==
  ASSUME NEW r \in Idx, NEW k \in 0 .. NumItemMax
  PROVE  (r + k) % NumItemMax =
           IF r + k < NumItemMax THEN r + k ELSE r + k - NumItemMax
<1> DEFINE s == r + k
<1>1. s \in 0 .. (2 * NumItemMax - 1)
  BY NumItemMaxAssumption DEF Idx
<1>2. s % NumItemMax = IF s < NumItemMax THEN s ELSE s - NumItemMax
  <2> HIDE DEF s
  <2> QED
    BY <1>1, ModLap, NumItemMaxAssumption
<1> QED
  BY <1>1, <1>2, NumItemMaxAssumption DEF Idx

\* NextIdx steps to the next slot and wraps after the last one.
LEMMA NextIdxWraps ==
  ASSUME NEW i \in Idx
  PROVE  /\ NextIdx(i) \in Idx
         /\ NextIdx(i) = IF i + 1 = NumItemMax THEN 0 ELSE i + 1
BY NumItemMaxAssumption DEF Idx, NextIdx

\* The slot of the i-th queued item, without the remainder.
LEMMA SlotWraps ==
  ASSUME NEW S, NEW b \in RingBufOf(S), NEW i \in 1 .. (NumItemMax + 1)
  PROVE  /\ Slot(b, i) \in Idx
         /\ Slot(b, i) = IF b.idx_read + i - 1 < NumItemMax
                           THEN b.idx_read + i - 1
                           ELSE b.idx_read + i - 1 - NumItemMax
<1>1. b.idx_read \in 0 .. (NumItemMax - 1)
  BY DEF RingBufOf, Idx
<1>2. b.idx_read + i - 1 \in 0 .. (2 * NumItemMax - 1)
  BY <1>1, NumItemMaxAssumption
<1> QED
  BY <1>1, <1>2, ModLap, NumItemMaxAssumption DEF Slot, Idx

(***************************************************************************)
(* What one call does to the queue the ring stands for.                    *)
(***************************************************************************)

\* The empty ring of RING_BUF_DEF stands for the empty queue.
LEMMA DefIsEmptyQueue ==
  ASSUME NEW S, NEW zero \in S
  PROVE  LET b == RING_BUF_DEF(zero) IN
           /\ b \in RingBufOf(S)
           /\ RingOK(b)
           /\ QueueOf(b) = <<>>
<1> DEFINE b == RING_BUF_DEF(zero)
<1>1. 0 \in Idx /\ 0 % NumItemMax = 0
  BY ModLap, NumItemMaxAssumption DEF Idx
<1>2. b \in RingBufOf(S)
  BY <1>1, NumItemMaxAssumption DEF RING_BUF_DEF, RingBufOf
<1>3. RingOK(b)
  BY <1>1 DEF RING_BUF_DEF, RingOK
<1>4. QueueOf(b) = <<>>
  BY DEF RING_BUF_DEF, QueueOf
<1> QED
  BY <1>2, <1>3, <1>4

\* The queue a ring stands for is a sequence of its items.
LEMMA QueueIsSeq ==
  ASSUME NEW S, NEW b \in RingBufOf(S)
  PROVE  /\ QueueOf(b) \in Seq(S)
         /\ Len(QueueOf(b)) = b.item_count
         /\ \A i \in 1 .. b.item_count : QueueOf(b)[i] = b.data[Slot(b, i)]
<1>1. b.item_count \in Nat /\ b.item_count <= NumItemMax
  BY NumItemMaxAssumption DEF RingBufOf
<1>2. \A i \in 1 .. b.item_count : b.data[Slot(b, i)] \in S
  <2> TAKE i \in 1 .. b.item_count
  <2>1. Slot(b, i) \in Idx
    BY <1>1, SlotWraps, NumItemMaxAssumption
  <2> QED
    BY <2>1 DEF RingBufOf
<1>3. QueueOf(b) \in [1 .. b.item_count -> S]
  BY <1>2 DEF QueueOf
<1>4. QueueOf(b) \in Seq(S) /\ Len(QueueOf(b)) = b.item_count
  BY <1>1, <1>3, SeqDef, LenProperties
<1> QED
  BY <1>4 DEF QueueOf

\* A push on a ring that is not full appends the item: the slot it writes is
\* none of those that hold a queued item.
LEMMA PushAppends ==
  ASSUME NEW S, NEW b \in RingBufOf(S), NEW item \in S, RingOK(b), ~IsFull(b)
  PROVE  LET r == ringbuf_push(b, item) IN
           /\ r.ret = 0
           /\ r.buf \in RingBufOf(S)
           /\ RingOK(r.buf)
           /\ QueueOf(r.buf) = Append(QueueOf(b), item)
<1> DEFINE c == ringbuf_push(b, item).buf
           n == b.item_count
<1>1. /\ b.data \in [Idx -> S] /\ b.idx_read \in Idx /\ b.idx_write \in Idx
      /\ n \in 0 .. NumItemMax /\ n < NumItemMax
  BY NumItemMaxAssumption DEF RingBufOf, IsFull
<1>2. c = [data       |-> [b.data EXCEPT ![b.idx_write] = item],
           idx_read   |-> b.idx_read,
           idx_write  |-> NextIdx(b.idx_write),
           item_count |-> n + 1]
  BY DEF ringbuf_push
<1>9. ringbuf_push(b, item).ret = 0
  BY DEF ringbuf_push
<1> n = b.item_count
  OBVIOUS
<1> HIDE DEF c, n
<1>3. c \in RingBufOf(S)
  BY <1>1, <1>2, NextIdxWraps, NumItemMaxAssumption DEF RingBufOf
<1>4. b.idx_write = Slot(b, n + 1)
  BY <1>1 DEF RingOK, Slot, Idx
<1>5. RingOK(c)
  <2>1. c.idx_write = IF b.idx_write + 1 = NumItemMax THEN 0 ELSE b.idx_write + 1
    BY <1>1, <1>2, NextIdxWraps
  <2>2. b.idx_write = IF b.idx_read + n < NumItemMax
                        THEN b.idx_read + n ELSE b.idx_read + n - NumItemMax
    BY <1>1, <1>4, SlotWraps, NumItemMaxAssumption DEF Idx
  <2>3. (b.idx_read + (n + 1)) % NumItemMax =
          IF b.idx_read + (n + 1) < NumItemMax
            THEN b.idx_read + (n + 1) ELSE b.idx_read + (n + 1) - NumItemMax
    <3>1. n + 1 \in 0 .. NumItemMax
      BY <1>1, NumItemMaxAssumption
    <3> QED
      BY <1>1, <3>1, WrapAdd
  <2>4. c.idx_write = (b.idx_read + (n + 1)) % NumItemMax
    <3>1. b.idx_read \in Nat /\ b.idx_read < NumItemMax
      BY <1>1, NumItemMaxAssumption DEF Idx
    <3>2. n \in Nat /\ n < NumItemMax
      BY <1>1, NumItemMaxAssumption
    <3> QED
      BY <2>1, <2>2, <2>3, <3>1, <3>2, NumItemMaxAssumption
  <2> QED
    BY <1>2, <2>4 DEF RingOK
<1>6. \A i \in 1 .. (n + 1) : Slot(c, i) = Slot(b, i)
  BY <1>2 DEF Slot
<1>7. \A i \in 1 .. n : Slot(b, i) # b.idx_write /\ Slot(b, i) \in Idx
  <2> TAKE i \in 1 .. n
  <2>1. i \in 1 .. (NumItemMax + 1) /\ n + 1 \in 1 .. (NumItemMax + 1)
    BY <1>1, NumItemMaxAssumption
  <2>2. b.idx_read \in Nat /\ b.idx_read < NumItemMax
    BY <1>1, NumItemMaxAssumption DEF Idx
  <2>3. Slot(b, i) = IF b.idx_read + i - 1 < NumItemMax
                       THEN b.idx_read + i - 1 ELSE b.idx_read + i - 1 - NumItemMax
    BY <2>1, SlotWraps
  <2>4. Slot(b, n + 1) =
          IF b.idx_read + (n + 1) - 1 < NumItemMax
            THEN b.idx_read + (n + 1) - 1 ELSE b.idx_read + (n + 1) - 1 - NumItemMax
    BY <2>1, SlotWraps
  <2>5. Slot(b, i) # Slot(b, n + 1)
    BY <1>1, <2>2, <2>3, <2>4, NumItemMaxAssumption
  <2> QED
    BY <1>4, <2>1, <2>5, SlotWraps
<1>8. QueueOf(c) = Append(QueueOf(b), item)
  <2>1. QueueOf(b) \in Seq(S) /\ Len(QueueOf(b)) = n
    BY QueueIsSeq
  <2>2. QueueOf(c) \in Seq(S) /\ Len(QueueOf(c)) = n + 1
    BY <1>2, <1>3, QueueIsSeq
  <2>3. \A i \in 1 .. n : QueueOf(c)[i] = QueueOf(b)[i]
    <3> TAKE i \in 1 .. n
    <3>1. i \in 1 .. (n + 1) /\ c.item_count = n + 1
      BY <1>1, <1>2
    <3>2. QueueOf(c)[i] = c.data[Slot(b, i)]
      BY <1>6, <3>1 DEF QueueOf
    <3>3. c.data[Slot(b, i)] = b.data[Slot(b, i)]
      BY <1>1, <1>2, <1>7
    <3> QED
      BY <3>2, <3>3 DEF QueueOf
  <2>4. QueueOf(c)[n + 1] = item
    BY <1>1, <1>2, <1>4, <1>6 DEF QueueOf
  <2>5. Append(QueueOf(b), item) \in Seq(S)
        /\ Len(Append(QueueOf(b), item)) = n + 1
    BY <2>1, AppendProperties
  <2>6. \A i \in 1 .. (n + 1) : QueueOf(c)[i] = Append(QueueOf(b), item)[i]
    BY <1>1, <2>1, <2>3, <2>4, AppendProperties
  <2> QED
    BY <2>2, <2>5, <2>6, SeqEqual
<1> QED
  BY <1>3, <1>5, <1>8, <1>9 DEF c

\* A pop from a ring that is not empty hands out the oldest item and leaves
\* the others in order.
LEMMA PopTakesHead ==
  ASSUME NEW S, NEW b \in RingBufOf(S), NEW o, RingOK(b), ~IsEmpty(b)
  PROVE  LET r == ringbuf_pop(b, o) IN
           /\ r.ret = 0
           /\ r.buf \in RingBufOf(S)
           /\ RingOK(r.buf)
           /\ QueueOf(b) # <<>>
           /\ r.data = Head(QueueOf(b))
           /\ QueueOf(r.buf) = Tail(QueueOf(b))
<1> DEFINE c == ringbuf_pop(b, o).buf
           n == b.item_count
<1>1. /\ b.data \in [Idx -> S] /\ b.idx_read \in Idx /\ b.idx_write \in Idx
      /\ n \in 1 .. NumItemMax
  BY NumItemMaxAssumption DEF RingBufOf, IsEmpty
<1>2. /\ c = [data       |-> b.data,
              idx_read   |-> NextIdx(b.idx_read),
              idx_write  |-> b.idx_write,
              item_count |-> n - 1]
      /\ ringbuf_pop(b, o).ret = 0
      /\ ringbuf_pop(b, o).data = b.data[b.idx_read]
  BY DEF ringbuf_pop
<1> n = b.item_count
  OBVIOUS
<1> HIDE DEF c, n
<1>3. c \in RingBufOf(S)
  BY <1>1, <1>2, NextIdxWraps, NumItemMaxAssumption DEF RingBufOf
<1>4. c.idx_read = IF b.idx_read + 1 = NumItemMax THEN 0 ELSE b.idx_read + 1
  BY <1>1, <1>2, NextIdxWraps
<1>5. RingOK(c)
  <2>1. b.idx_write = IF b.idx_read + n < NumItemMax
                        THEN b.idx_read + n ELSE b.idx_read + n - NumItemMax
    <3>1. n \in 0 .. NumItemMax
      BY <1>1
    <3> QED
      BY <1>1, <3>1, WrapAdd DEF RingOK
  <2>2. b.idx_read \in Nat /\ b.idx_read < NumItemMax
    BY <1>1, NumItemMaxAssumption DEF Idx
  <2>3. (c.idx_read + (n - 1)) % NumItemMax =
          IF c.idx_read + (n - 1) < NumItemMax
            THEN c.idx_read + (n - 1) ELSE c.idx_read + (n - 1) - NumItemMax
    <3>1. c.idx_read \in Idx /\ n - 1 \in 0 .. NumItemMax
      BY <1>1, <1>2, NextIdxWraps, NumItemMaxAssumption
    <3> QED
      BY <3>1, WrapAdd
  <2>4. b.idx_write = (c.idx_read + (n - 1)) % NumItemMax
    BY <1>1, <1>4, <2>1, <2>2, <2>3, NumItemMaxAssumption
  <2> QED
    BY <1>2, <2>4 DEF RingOK
<1>6. \A i \in 1 .. (n - 1) : Slot(c, i) = Slot(b, i + 1)
  <2> TAKE i \in 1 .. (n - 1)
  <2>1. i \in 1 .. (NumItemMax + 1) /\ i + 1 \in 1 .. (NumItemMax + 1)
    BY <1>1, NumItemMaxAssumption
  <2>2. b.idx_read \in Nat /\ b.idx_read < NumItemMax
    BY <1>1, NumItemMaxAssumption DEF Idx
  <2>3. Slot(c, i) = IF c.idx_read + i - 1 < NumItemMax
                       THEN c.idx_read + i - 1 ELSE c.idx_read + i - 1 - NumItemMax
    BY <1>3, <2>1, SlotWraps
  <2>4. Slot(b, i + 1) =
          IF b.idx_read + (i + 1) - 1 < NumItemMax
            THEN b.idx_read + (i + 1) - 1 ELSE b.idx_read + (i + 1) - 1 - NumItemMax
    BY <2>1, SlotWraps
  <2> QED
    BY <1>1, <1>4, <2>2, <2>3, <2>4, NumItemMaxAssumption
<1>7. Slot(b, 1) = b.idx_read
  BY <1>1, SlotWraps, NumItemMaxAssumption DEF Idx
<1>8. QueueOf(b) \in Seq(S) /\ Len(QueueOf(b)) = n
  BY QueueIsSeq
<1>9. QueueOf(b) # <<>> /\ Head(QueueOf(b)) = b.data[b.idx_read]
  <2>1. QueueOf(b) # <<>>
    BY <1>1, <1>8
  <2>2. Head(QueueOf(b)) = QueueOf(b)[1]
    BY <1>8, <2>1, HeadTailProperties
  <2> QED
    BY <1>1, <1>7, <2>1, <2>2, QueueIsSeq
<1>10. QueueOf(c) = Tail(QueueOf(b))
  <2>1. QueueOf(c) \in Seq(S) /\ Len(QueueOf(c)) = n - 1
    BY <1>2, <1>3, QueueIsSeq
  <2>2. Tail(QueueOf(b)) \in Seq(S) /\ Len(Tail(QueueOf(b))) = n - 1
    BY <1>8, <1>9, HeadTailProperties
  <2>3. \A i \in 1 .. (n - 1) : QueueOf(c)[i] = QueueOf(b)[i + 1]
    BY <1>1, <1>2, <1>6 DEF QueueOf
  <2>4. \A i \in 1 .. (n - 1) : Tail(QueueOf(b))[i] = QueueOf(b)[i + 1]
    BY <1>1, <1>8, <1>9, HeadTailProperties
  <2> QED
    BY <2>1, <2>2, <2>3, <2>4, SeqEqual
<1> QED
  BY <1>2, <1>3, <1>5, <1>9, <1>10 DEF c
=============================================================================
