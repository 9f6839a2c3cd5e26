---------------------------- MODULE EventChannel ----------------------------
(***************************************************************************)
(* What inputmgr_get_event promises its caller, whatever the threads do: a *)
(* queue of at most Capacity events.  Each event goes to the caller once,  *)
(* in the order the events were queued.  An event that meets a full queue  *)
(* is lost, and each loss leaves one wake-up too many; a call fails only   *)
(* when the queue is empty, and uses up such a wake-up.                    *)
(***************************************************************************)
EXTENDS Integers, Sequences

CONSTANTS Event, Capacity, NoEvent

VARIABLES
  queue,      \* events not yet handed to the caller, oldest first
  surplus,    \* wake-ups that no event stands behind
  event,      \* the caller's event
  err         \* what the last call returned

vars == <<queue, surplus, event, err>>

Init ==
  /\ queue = <<>>
  /\ surplus = 0
  /\ event = NoEvent
  /\ err = 0

Send(e) ==
  /\ Len(queue) < Capacity
  /\ queue' = Append(queue, e)
  /\ UNCHANGED <<surplus, event, err>>

Lose ==
  /\ Len(queue) = Capacity
  /\ surplus' = surplus + 1
  /\ UNCHANGED <<queue, event, err>>

Receive ==
  /\ queue # <<>>
  /\ event' = Head(queue)
  /\ queue' = Tail(queue)
  /\ err' = 0
  /\ UNCHANGED surplus

ReceiveFails ==
  /\ queue = <<>>
  /\ surplus > 0
  /\ surplus' = surplus - 1
  /\ err' = -1
  /\ UNCHANGED <<queue, event>>

Next == (\E e \in Event : Send(e)) \/ Lose \/ Receive \/ ReceiveFails

Spec == Init /\ [][Next]_vars
=============================================================================
