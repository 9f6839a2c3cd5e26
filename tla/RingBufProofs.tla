--------------------------- MODULE RingBufProofs ---------------------------
(***************************************************************************)
(* Theorems about the ring under any sequence of calls (RingBufClient),    *)
(* for every capacity and every set of items.                              *)
(***************************************************************************)
EXTENDS RingBufClient, RingBufLemmas

Inv == TypeOK /\ IndexesAgree

LEMMA InitInv == Init => Inv
BY DefIsEmptyQueue, ZeroAssumption DEF Init, Inv, TypeOK, IndexesAgree

\* One call of either function, or an invalid one, keeps both invariants.
LEMMA NextInv == Inv /\ [Next]_vars => Inv'
<1> SUFFICES ASSUME Inv, [Next]_vars
             PROVE  Inv'
  OBVIOUS
<1> USE DEF Inv, TypeOK, IndexesAgree
<1>1. ASSUME NEW item \in Item, Push(item)
      PROVE  Inv'
  <2>1. CASE IsFull(ring)
    BY <1>1, <2>1 DEF Push, ringbuf_push
  <2>2. CASE ~IsFull(ring)
    BY <1>1, <2>2, PushAppends DEF Push
  <2> QED
    BY <2>1, <2>2
<1>2. CASE Pop
  <2>1. CASE IsEmpty(ring)
    BY <1>2, <2>1 DEF Pop, ringbuf_pop
  <2>2. CASE ~IsEmpty(ring)
    <3>1. out' \in Item
      <4>1. ring.data \in [Idx -> Item] /\ ring.idx_read \in Idx
        BY DEF RingBufOf
      <4> QED
        BY <1>2, <2>2, <4>1 DEF Pop, ringbuf_pop
    <3> QED
      BY <1>2, <2>2, <3>1, PopTakesHead DEF Pop
  <2> QED
    BY <2>1, <2>2
<1>3. CASE InvalidInput
  BY <1>3 DEF InvalidInput
<1>4. CASE UNCHANGED vars
  BY <1>4 DEF vars
<1> QED
  BY <1>1, <1>2, <1>3, <1>4 DEF Next

LEMMA InvHolds == Spec => []Inv
BY InitInv, NextInv, PTL DEF Spec

\* No index ever leaves the data area and the count stays within the capacity
\* (ringbuf.c:30-32 and 56-58), for every capacity.
THEOREM TypeCorrect == Spec => []TypeOK
BY InvHolds, PTL DEF Inv

\* The write index is always the read index plus the count, modulo the
\* capacity, although push and pop advance the three separately.
THEOREM IndexesAlwaysAgree == Spec => []IndexesAgree
BY InvHolds, PTL DEF Inv

-----------------------------------------------------------------------------
\* Every call of the ring is a step of the bounded queue.
LEMMA NextRefines == Inv /\ [Next]_vars => [Fifo!Next]_Fifo!vars
<1> SUFFICES ASSUME Inv, [Next]_vars
             PROVE  [Fifo!Next]_Fifo!vars
  OBVIOUS
<1> USE DEF Inv, TypeOK, IndexesAgree
<1>0. QueueOf(ring) \in Seq(Item) /\ Len(QueueOf(ring)) = ring.item_count
      /\ ring.item_count \in 0 .. NumItemMax
  BY QueueIsSeq DEF RingBufOf
<1>1. ASSUME NEW item \in Item, Push(item)
      PROVE  Fifo!Push(item)
  <2>1. CASE IsFull(ring)
    BY <1>0, <1>1, <2>1, NumItemMaxAssumption
       DEF Push, ringbuf_push, IsFull, Fifo!Push
  <2>2. CASE ~IsFull(ring)
    <3>1. Len(QueueOf(ring)) < NumItemMax
      BY <1>0, <2>2, NumItemMaxAssumption DEF IsFull
    <3>2. ret' = 0 /\ QueueOf(ring)' = Append(QueueOf(ring), item)
      BY <1>1, <2>2, PushAppends DEF Push
    <3> QED
      BY <1>1, <3>1, <3>2 DEF Push, Fifo!Push
  <2> QED
    BY <2>1, <2>2
<1>2. ASSUME Pop
      PROVE  Fifo!Pop
  <2>1. CASE IsEmpty(ring)
    <3>1. QueueOf(ring) = <<>>
      BY <1>0, <2>1 DEF IsEmpty
    <3> QED
      BY <1>2, <2>1, <3>1 DEF Pop, ringbuf_pop, Fifo!Pop
  <2>2. CASE ~IsEmpty(ring)
    BY <1>2, <2>2, PopTakesHead DEF Pop, Fifo!Pop
  <2> QED
    BY <2>1, <2>2
<1>3. ASSUME InvalidInput
      PROVE  Fifo!Invalid
  BY <1>3 DEF InvalidInput, Fifo!Invalid
<1>4. ASSUME UNCHANGED vars
      PROVE  UNCHANGED Fifo!vars
  BY <1>4 DEF vars, Fifo!vars
<1> QED
  BY <1>1, <1>2, <1>3, <1>4 DEF Next, Fifo!Next

\* The ring is a bounded queue, for every capacity: items come out once each
\* and in order, a push is refused exactly when the ring holds NumItemMax
\* items and a pop exactly when it holds none.
THEOREM RingImplementsFifo == Spec => ImplementsFifo
<1>1. Init => Fifo!Init
  BY DefIsEmptyQueue, ZeroAssumption DEF Init, Fifo!Init
<1> QED
  BY <1>1, NextRefines, InvHolds, PTL DEF Spec, Fifo!Spec, ImplementsFifo
=============================================================================
