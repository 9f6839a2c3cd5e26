---------------------------- MODULE BoundedFifo ----------------------------
(***************************************************************************)
(* What utils/ringbuf.h promises: a queue that copies items in, hands them *)
(* out once each and in order, refuses an item only when it holds Capacity *)
(* of them, and changes nothing when it refuses.                           *)
(***************************************************************************)
EXTENDS Integers, Sequences

CONSTANTS Item, Capacity

VARIABLES
  queue,    \* items pushed and not yet popped, oldest first
  out,      \* what the caller's output buffer holds
  call,     \* the last call: which operation, or one with a NULL argument
  ret       \* what it returned

vars == <<queue, out, call, ret>>

Init == /\ queue = <<>>
        /\ out \in Item
        /\ call = "none"
        /\ ret = 0

Push(item) ==
  /\ call' = "push"
  /\ UNCHANGED out
  /\ IF Len(queue) < Capacity
       THEN queue' = Append(queue, item) /\ ret' = 0
       ELSE queue' = queue /\ ret' = -1

Pop ==
  /\ call' = "pop"
  /\ IF queue # <<>>
       THEN out' = Head(queue) /\ queue' = Tail(queue) /\ ret' = 0
       ELSE UNCHANGED <<queue, out>> /\ ret' = -1

Invalid ==
  /\ call' = "invalid"
  /\ ret' = -1
  /\ UNCHANGED <<queue, out>>

Next == (\E item \in Item : Push(item)) \/ Pop \/ Invalid

Spec == Init /\ [][Next]_vars
=============================================================================
