--------------------------- MODULE InputMgrProofs ---------------------------
(***************************************************************************)
(* Theorems about the input manager (InputMgr), for any number of devices, *)
(* any capacity of the ring and any heap.                                  *)
(***************************************************************************)
EXTENDS InputMgr, RingBufLemmas

\* What every step of the system is, one disjunct for each action.
LEMMA NextActions ==
  ASSUME [Next]_vars
  PROVE  \/ inputmgr_init
         \/ \E d \in Device : inputmgr_resigter(d)
         \/ StartInitAll
         \/ InitDevice
         \/ EndInitAll
         \/ MainSemWait
         \/ MainLock
         \/ MainPop
         \/ MainUnlock
         \/ Use
         \/ \E d \in Device, v \in Val : d \in TouchDevs /\ TouchRead(d, v)
         \/ \E d \in Device, v \in Val : SocketRecv(d, v)
         \/ \E d \in Device : SocketRecvFails(d)
         \/ \E d \in Device : SocketAlloc(d)
         \/ \E d \in Device : DevLock(d)
         \/ \E d \in Device : DevPush(d)
         \/ \E d \in Device : DevPost(d)
         \/ \E d \in Device : DevUnlock(d)
         \/ UNCHANGED vars
BY DEF Next, MainStep, SetupStep, inputmgr_get_event, InputArrives, DevStep,
       Idle, Device

(***************************************************************************)
(* Types.  The ring is well formed although the threads share it: RingOK   *)
(* is part of what each step preserves.                                    *)
(***************************************************************************)
Typed == TypeOK /\ RingOK(event_ring)

LEMMA InitTyped == Init => Typed
<1> SUFFICES ASSUME Init
             PROVE  Typed
  OBVIOUS
<1>1. ZeroEvent \in Event
  BY MaxEventsAssumption DEF ZeroEvent, Event
<1>2. event_ring \in RingBufOf(Event) /\ RingOK(event_ring)
  BY <1>1, DefIsEmptyQueue DEF Init
<1> QED
  BY <1>1, <1>2, MaxEventsAssumption
     DEF Init, Typed, TypeOK, DevPC, MainPC, Thread

LEMMA NextTyped == Typed /\ [Next]_vars => Typed'
<1> SUFFICES ASSUME Typed, [Next]_vars
             PROVE  Typed'
  OBVIOUS
<1> USE DEF Typed, TypeOK, DevPC, MainPC, setupVars, mainVars, deviceVars
<1>1. CASE inputmgr_init
  BY <1>1 DEF inputmgr_init
<1>2. ASSUME NEW d \in Device, inputmgr_resigter(d)
      PROVE  Typed'
  BY <1>2, ConcatProperties DEF inputmgr_resigter
<1>3. CASE StartInitAll
  BY <1>3 DEF StartInitAll
<1>4. CASE InitDevice
  <2>1. tmp' \in Seq(Device)
    BY <1>4 DEF InitDevice
  <2>2. pc' \in [Device -> DevPC]
    BY <1>4 DEF InitDevice
  <2> QED
    BY <1>4, <2>1, <2>2 DEF InitDevice
<1>5. CASE EndInitAll
  BY <1>5 DEF EndInitAll
<1>6. CASE MainSemWait
  BY <1>6 DEF MainSemWait
<1>7. CASE MainLock
  BY <1>7 DEF MainLock, Thread
<1>8. CASE MainPop
  <2> DEFINE r == ringbuf_pop(event_ring, event)
  <2>1. /\ r.buf \in RingBufOf(Event) /\ RingOK(r.buf)
        /\ r.data \in Event /\ r.ret \in {0, -1}
    <3>1. CASE IsEmpty(event_ring)
      BY <3>1 DEF ringbuf_pop
    <3>2. CASE ~IsEmpty(event_ring)
      <4>1. event_ring.data \in [Idx -> Event] /\ event_ring.idx_read \in Idx
        BY DEF RingBufOf
      <4>2. r.data \in Event
        BY <3>2, <4>1 DEF ringbuf_pop
      <4> QED
        BY <3>2, <4>2, PopTakesHead
    <3> QED
      BY <3>1, <3>2
  <2>2. r.data.time \in 0 .. MaxEvents
    BY <2>1 DEF Event
  <2>3. /\ event_ring' = r.buf /\ event' = r.data /\ err' = r.ret
        /\ delivered' = IF r.ret = 0
                          THEN [delivered EXCEPT ![r.data.dev] = r.data.time]
                          ELSE delivered
    BY <1>8 DEF MainPop
  <2> HIDE DEF r
  <2>4. delivered' \in [Device -> 0 .. MaxEvents]
    BY <2>2, <2>3
  <2> QED
    BY <1>8, <2>1, <2>3, <2>4 DEF MainPop
<1>9. CASE MainUnlock
  BY <1>9 DEF MainUnlock
<1>10. CASE Use
  BY <1>10 DEF Use
<1>11. ASSUME NEW d \in Device, NEW v \in Val, TouchRead(d, v)
       PROVE  Typed'
  <2>1. clock[d] + 1 \in 0 .. MaxEvents
    BY <1>11, MaxEventsAssumption DEF TouchRead
  <2>2. \A b \in Block : NewEvent(d, b, v) \in Event
    BY <2>1 DEF NewEvent, Event
  <2>3. clock' \in [Device -> 0 .. MaxEvents]
    BY <1>11, <2>1 DEF TouchRead
  <2>4. live' \subseteq Block /\ ev' \in [Device -> Event] /\ pc' \in [Device -> DevPC]
    BY <1>11, <2>2 DEF TouchRead
  <2> QED
    BY <1>11, <2>3, <2>4 DEF TouchRead
<1>12. ASSUME NEW d \in Device, NEW v \in Val, SocketRecv(d, v)
       PROVE  Typed'
  <2>1. clock[d] + 1 \in 0 .. MaxEvents
    BY <1>12, MaxEventsAssumption DEF SocketRecv
  <2>2. NewEvent(d, ev[d].data, v) \in Event
    BY <2>1 DEF NewEvent, Event
  <2> QED
    BY <1>12, <2>1, <2>2 DEF SocketRecv
<1>13. ASSUME NEW d \in Device, SocketRecvFails(d)
       PROVE  Typed'
  <2>1. [ev[d] EXCEPT !.data = NULL] \in Event
    BY DEF Event
  <2> QED
    BY <1>13, <2>1 DEF SocketRecvFails
<1>14. ASSUME NEW d \in Device, SocketAlloc(d)
       PROVE  Typed'
  <2>1. \A b \in Block : [ev[d] EXCEPT !.data = b] \in Event
    BY DEF Event
  <2> QED
    BY <1>14, <2>1 DEF SocketAlloc
<1>15. ASSUME NEW d \in Device, DevLock(d)
       PROVE  Typed'
  BY <1>15 DEF DevLock, Thread
<1>16. ASSUME NEW d \in Device, DevPush(d)
       PROVE  Typed'
  <2>1. /\ event_ring' \in RingBufOf(Event) /\ RingOK(event_ring')
    <3>1. CASE IsFull(event_ring)
      BY <1>16, <3>1 DEF DevPush, ringbuf_push
    <3>2. CASE ~IsFull(event_ring)
      BY <1>16, <3>2, PushAppends DEF DevPush
    <3> QED
      BY <3>1, <3>2
  <2> QED
    BY <1>16, <2>1 DEF DevPush
<1>17. ASSUME NEW d \in Device, DevPost(d)
       PROVE  Typed'
  BY <1>17 DEF DevPost
<1>18. ASSUME NEW d \in Device, DevUnlock(d)
       PROVE  Typed'
  BY <1>18 DEF DevUnlock
<1>19. CASE UNCHANGED vars
  BY <1>19 DEF vars
<1> QED
  BY <1>1, <1>2, <1>3, <1>4, <1>5, <1>6, <1>7, <1>8, <1>9, <1>10, <1>11,
     <1>12, <1>13, <1>14, <1>15, <1>16, <1>17, <1>18, <1>19, NextActions

LEMMA TypedHolds == Spec => []Typed
BY InitTyped, NextTyped, PTL DEF Spec

\* Every variable keeps its type in every behaviour: the shared ring stays
\* well formed under any interleaving of the threads (input_mgr.c:26, 93).
THEOREM TypeCorrect == Spec => []TypeOK
BY TypedHolds, PTL DEF Typed

(***************************************************************************)
(* Setup: no device is started twice.                                      *)
(***************************************************************************)
LEMMA InitStarted == Init => StartedOnce
BY DEF Init, StartedOnce

LEMMA NextStarted == Typed /\ StartedOnce /\ [Next]_vars => StartedOnce'
<1> SUFFICES ASSUME Typed, StartedOnce, [Next]_vars
             PROVE  StartedOnce'
  OBVIOUS
<1>0. /\ input_dev \in Seq(Device) /\ tmp \in Seq(Device)
      /\ pc \in [Device -> DevPC] /\ mpc \in MainPC
  BY DEF Typed, TypeOK
\* After the setup nothing is left to show but that the list stays as it is.
<1>1. ASSUME UNCHANGED setupVars, mpc \notin {"init", "register", "init_all"},
             mpc' \notin {"init", "register", "init_all"}
      PROVE  StartedOnce'
  BY <1>1 DEF StartedOnce, setupVars
\* A thread that takes a step is not off, and does not become off.
<1>2. ASSUME UNCHANGED <<setupVars, mpc>>,
             NEW d \in Device, pc[d] # "off",
             NEW p \in DevPC \ {"off"},
             pc' = pc \/ pc' = [pc EXCEPT ![d] = p]
      PROVE  StartedOnce'
  <2>1. \A e \in Device : pc[e] = "off" => pc'[e] = "off"
    BY <1>0, <1>2
  <2>2. \A i \in 1 .. Len(tmp) : tmp[i] \in Device
    BY <1>0, ElementOfSeq
  <2> QED
    BY <1>2, <2>1, <2>2 DEF StartedOnce, setupVars
<1>3. CASE inputmgr_init
  BY <1>3 DEF inputmgr_init, StartedOnce, setupVars, deviceVars
<1>4. ASSUME NEW d \in Device, inputmgr_resigter(d)
      PROVE  StartedOnce'
  <2>1. input_dev' = <<d>> \o input_dev
    BY <1>4 DEF inputmgr_resigter
  <2>2. \A i \in 1 .. Len(input_dev) : input_dev[i] # d
    BY <1>0, <1>4, LenProperties DEF inputmgr_resigter, Registered
  <2>3. /\ <<d>> \in Seq(Device) /\ Len(<<d>>) = 1
        /\ Len(input_dev') = 1 + Len(input_dev) /\ Len(input_dev) \in Nat
        /\ \A i \in 1 .. Len(input_dev') :
             input_dev'[i] = IF i <= 1 THEN d ELSE input_dev[i - 1]
    BY <1>0, <2>1, ConcatProperties, LenProperties
  <2>4. \A i, j \in 1 .. Len(input_dev') : input_dev'[i] = input_dev'[j] => i = j
    <3> TAKE i, j \in 1 .. Len(input_dev')
    <3> HAVE input_dev'[i] = input_dev'[j]
    <3>1. i \in Nat /\ j \in Nat /\ i >= 1 /\ j >= 1
      BY <2>3
    <3>2. CASE i = 1 /\ j = 1
      BY <3>2
    <3>3. CASE i = 1 /\ j # 1
      BY <2>2, <2>3, <3>1, <3>3
    <3>4. CASE i # 1 /\ j = 1
      BY <2>2, <2>3, <3>1, <3>4
    <3>5. CASE i # 1 /\ j # 1
      <4>1. i - 1 \in 1 .. Len(input_dev) /\ j - 1 \in 1 .. Len(input_dev)
        BY <2>3, <3>1, <3>5
      <4>2. input_dev[i - 1] = input_dev[j - 1]
        BY <2>3, <3>1, <3>5
      <4>3. i - 1 = j - 1
        BY <4>1, <4>2 DEF StartedOnce
      <4> QED
        BY <3>1, <4>3
    <3> QED
      BY <3>2, <3>3, <3>4, <3>5
  <2> QED
    BY <1>4, <2>4 DEF inputmgr_resigter, StartedOnce, deviceVars, mainVars
<1>5. CASE StartInitAll
  <2>1. \A i \in 1 .. Len(input_dev) : input_dev[i] \in Device
    BY <1>0, ElementOfSeq
  <2> QED
    BY <1>5, <2>1 DEF StartInitAll, StartedOnce, deviceVars
<1>6. CASE InitDevice
  <2>1. /\ tmp # <<>> /\ tmp' = Tail(tmp) /\ mpc = "init_all" /\ mpc' = mpc
        /\ input_dev' = input_dev
        /\ pc' = pc \/ pc' = [pc EXCEPT ![Head(tmp)] = "get"]
    BY <1>6 DEF InitDevice, mainVars
  <2>2. /\ Len(tmp') = Len(tmp) - 1 /\ Len(tmp) \in Nat
        /\ \A i \in 1 .. Len(tmp') : tmp'[i] = tmp[i + 1]
        /\ Head(tmp) = tmp[1] /\ Head(tmp) \in Device
    BY <1>0, <2>1, HeadTailProperties, LenProperties
  <2>3. \A i \in 1 .. Len(tmp') : i \in Nat /\ i + 1 \in 1 .. Len(tmp) /\ i + 1 # 1
    BY <2>2
  <2>4. 1 \in 1 .. Len(tmp)
    BY <1>0, <2>1, <2>2, EmptySeq
  <2>5. \A i \in 1 .. Len(tmp') : tmp'[i] \in Device /\ tmp'[i] # Head(tmp)
                                 /\ pc[tmp'[i]] = "off"
    BY <1>0, <2>1, <2>2, <2>3, <2>4, ElementOfSeq DEF StartedOnce
  <2>6. \A i \in 1 .. Len(tmp') : pc'[tmp'[i]] = "off"
    BY <1>0, <2>1, <2>2, <2>5
  <2>7. \A i, j \in 1 .. Len(tmp') : tmp'[i] = tmp'[j] => i = j
    <3> TAKE i, j \in 1 .. Len(tmp')
    <3> HAVE tmp'[i] = tmp'[j]
    <3>1. i + 1 = j + 1
      BY <2>1, <2>2, <2>3 DEF StartedOnce
    <3> QED
      BY <2>3, <3>1
  <2> QED
    BY <2>1, <2>6, <2>7 DEF StartedOnce
<1>7. CASE EndInitAll
  BY <1>7 DEF EndInitAll, StartedOnce, setupVars, deviceVars
<1>8. CASE MainSemWait
  BY <1>1, <1>8 DEF MainSemWait
<1>9. CASE MainLock
  BY <1>1, <1>9 DEF MainLock
<1>10. CASE MainPop
  BY <1>1, <1>10 DEF MainPop
<1>11. CASE MainUnlock
  BY <1>1, <1>11 DEF MainUnlock
<1>12. CASE Use
  BY <1>1, <1>12 DEF Use
<1>13. ASSUME NEW d \in Device, NEW v \in Val, TouchRead(d, v)
       PROVE  StartedOnce'
  BY <1>2, <1>13 DEF TouchRead, mainVars, DevPC
<1>14. ASSUME NEW d \in Device, NEW v \in Val, SocketRecv(d, v)
       PROVE  StartedOnce'
  BY <1>2, <1>14 DEF SocketRecv, mainVars, DevPC
<1>15. ASSUME NEW d \in Device, SocketRecvFails(d)
       PROVE  StartedOnce'
  BY <1>2, <1>15 DEF SocketRecvFails, mainVars, DevPC
<1>16. ASSUME NEW d \in Device, SocketAlloc(d)
       PROVE  StartedOnce'
  BY <1>2, <1>16 DEF SocketAlloc, mainVars, DevPC
<1>17. ASSUME NEW d \in Device, DevLock(d)
       PROVE  StartedOnce'
  BY <1>2, <1>17 DEF DevLock, mainVars, DevPC
<1>18. ASSUME NEW d \in Device, DevPush(d)
       PROVE  StartedOnce'
  BY <1>2, <1>18 DEF DevPush, mainVars, DevPC
<1>19. ASSUME NEW d \in Device, DevPost(d)
       PROVE  StartedOnce'
  BY <1>2, <1>19 DEF DevPost, mainVars, DevPC
<1>20. ASSUME NEW d \in Device, DevUnlock(d)
       PROVE  StartedOnce'
  BY <1>2, <1>20 DEF DevUnlock, mainVars, DevPC
<1>21. CASE UNCHANGED vars
  BY <1>21 DEF vars, deviceVars, mainVars, setupVars, StartedOnce
<1> QED
  BY <1>3, <1>4, <1>5, <1>6, <1>7, <1>8, <1>9, <1>10, <1>11, <1>12, <1>13,
     <1>14, <1>15, <1>16, <1>17, <1>18, <1>19, <1>20, <1>21, NextActions

LEMMA StartedHolds == Spec => []StartedOnce
BY InitStarted, NextStarted, TypedHolds, PTL DEF Spec

\* The device whose turn it is has no thread.
LEMMA StartsFromOff ==
  ASSUME Typed, StartedOnce, InitDevice
  PROVE  Head(tmp) \in Device /\ pc[Head(tmp)] = "off"
<1>1. tmp \in Seq(Device) /\ tmp # <<>> /\ mpc = "init_all"
  BY DEF Typed, TypeOK, InitDevice
<1>2. Head(tmp) = tmp[1] /\ 1 \in 1 .. Len(tmp) /\ Head(tmp) \in Device
  BY <1>1, HeadTailProperties, LenProperties, EmptySeq
<1> QED
  BY <1>1, <1>2 DEF StartedOnce

\* No device's thread is started a second time, in whatever order the modules
\* register and whichever devices fail to start (input_mgr.c:53-86).
THEOREM StartedOnceCorrect == Spec => []StartedOnce
BY StartedHolds

(***************************************************************************)
(* Mutual exclusion: the mutex is owned by whoever is inside.              *)
(***************************************************************************)
LEMMA InitExclusion == Init => MutualExclusion
BY DeviceAssumption DEF Init, MutualExclusion, DevInside, MainInside, Thread

LEMMA NextExclusion ==
  Typed /\ StartedOnce /\ MutualExclusion /\ [Next]_vars => MutualExclusion'
<1> SUFFICES ASSUME Typed, StartedOnce, MutualExclusion, [Next]_vars
             PROVE  MutualExclusion'
  OBVIOUS
<1> USE DEF MutualExclusion, DevInside, MainInside
<1>0. pc \in [Device -> DevPC] /\ Main \notin Device /\ NULL \notin Device
      /\ NULL # Main
  BY DeviceAssumption DEF Typed, TypeOK, Thread
\* A step outside the lock and unlock actions moves no thread in or out.
<1>1. ASSUME mutex' = mutex, MainInside' = MainInside,
             \A d \in Device : DevInside(d)' = DevInside(d)
      PROVE  MutualExclusion'
  BY <1>1
<1>2. ASSUME NEW d \in Device, NEW p \in DevPC,
             pc' = [pc EXCEPT ![d] = p],
             p \in {"push", "post", "unlock"} <=> DevInside(d)
      PROVE  \A e \in Device : DevInside(e)' = DevInside(e)
  BY <1>0, <1>2
<1>3. CASE inputmgr_init
  BY <1>1, <1>3 DEF inputmgr_init, deviceVars
<1>4. ASSUME NEW d \in Device, inputmgr_resigter(d)
      PROVE  MutualExclusion'
  BY <1>1, <1>4 DEF inputmgr_resigter, deviceVars, mainVars
<1>5. CASE StartInitAll
  BY <1>1, <1>5 DEF StartInitAll, deviceVars
<1>6. CASE InitDevice
  <2>1. Head(tmp) \in Device /\ pc[Head(tmp)] = "off"
    BY <1>6, StartsFromOff
  <2>2. \A e \in Device : DevInside(e)' = DevInside(e)
    BY <1>0, <1>6, <2>1 DEF InitDevice
  <2> QED
    BY <1>1, <1>6, <2>2 DEF InitDevice, mainVars
<1>7. CASE EndInitAll
  BY <1>1, <1>7 DEF EndInitAll, deviceVars
<1>8. CASE MainSemWait
  BY <1>1, <1>8 DEF MainSemWait, deviceVars
<1>9. CASE MainLock
  BY <1>0, <1>9 DEF MainLock, deviceVars
<1>10. CASE MainPop
  BY <1>1, <1>10 DEF MainPop, deviceVars
<1>11. CASE MainUnlock
  BY <1>0, <1>11 DEF MainUnlock, deviceVars
<1>12. CASE Use
  BY <1>1, <1>12 DEF Use, deviceVars
<1>13. ASSUME NEW d \in Device, NEW v \in Val, TouchRead(d, v)
       PROVE  MutualExclusion'
  <2>1. \A e \in Device : DevInside(e)' = DevInside(e)
    BY <1>0, <1>13 DEF TouchRead
  <2> QED
    BY <1>1, <1>13, <2>1 DEF TouchRead, mainVars
<1>14. ASSUME NEW d \in Device, NEW v \in Val, SocketRecv(d, v)
       PROVE  MutualExclusion'
  <2>1. \A e \in Device : DevInside(e)' = DevInside(e)
    BY <1>0, <1>14 DEF SocketRecv
  <2> QED
    BY <1>1, <1>14, <2>1 DEF SocketRecv, mainVars
<1>15. ASSUME NEW d \in Device, SocketRecvFails(d)
       PROVE  MutualExclusion'
  <2>1. \A e \in Device : DevInside(e)' = DevInside(e)
    BY <1>0, <1>15 DEF SocketRecvFails
  <2> QED
    BY <1>1, <1>15, <2>1 DEF SocketRecvFails, mainVars
<1>16. ASSUME NEW d \in Device, SocketAlloc(d)
       PROVE  MutualExclusion'
  <2>1. \A e \in Device : DevInside(e)' = DevInside(e)
    BY <1>0, <1>16 DEF SocketAlloc
  <2> QED
    BY <1>1, <1>16, <2>1 DEF SocketAlloc, mainVars
<1>17. ASSUME NEW d \in Device, DevLock(d)
       PROVE  MutualExclusion'
  BY <1>0, <1>17 DEF DevLock, mainVars
<1>18. ASSUME NEW d \in Device, DevPush(d)
       PROVE  MutualExclusion'
  <2>1. \A e \in Device : DevInside(e)' = DevInside(e)
    BY <1>0, <1>18 DEF DevPush
  <2> QED
    BY <1>1, <1>18, <2>1 DEF DevPush, mainVars
<1>19. ASSUME NEW d \in Device, DevPost(d)
       PROVE  MutualExclusion'
  <2>1. \A e \in Device : DevInside(e)' = DevInside(e)
    BY <1>0, <1>19 DEF DevPost
  <2> QED
    BY <1>1, <1>19, <2>1 DEF DevPost, mainVars
<1>20. ASSUME NEW d \in Device, DevUnlock(d)
       PROVE  MutualExclusion'
  BY <1>0, <1>20 DEF DevUnlock, mainVars
<1>21. CASE UNCHANGED vars
  BY <1>1, <1>21 DEF vars, deviceVars, mainVars
<1> QED
  BY <1>3, <1>4, <1>5, <1>6, <1>7, <1>8, <1>9, <1>10, <1>11, <1>12, <1>13,
     <1>14, <1>15, <1>16, <1>17, <1>18, <1>19, <1>20, <1>21, NextActions

LEMMA ExclusionHolds == Spec => []MutualExclusion
BY InitExclusion, NextExclusion, TypedHolds, StartedHolds, PTL DEF Spec

\* The ring and the post are only ever touched by the owner of the mutex, for
\* any number of device threads (input_mgr.c:24-30, 91-98).
THEOREM ExclusionCorrect == Spec => []MutualExclusion
BY ExclusionHolds

(***************************************************************************)
(* Wake-ups.  DevPush and DevPost, MainSemWait and MainPop pass a token on *)
(* between the semaphore, the ring and the thread inside; exclusion makes  *)
(* sure at most one device is between its push and its post.               *)
(***************************************************************************)

\* A full ring is left as it is, any other holds one item more.
LEMMA PushCount ==
  ASSUME Typed, NEW d \in Device, DevPush(d)
  PROVE  /\ event_ring.item_count \in 0 .. NumItemMax
         /\ event_ring'.item_count = IF IsFull(event_ring)
                                       THEN event_ring.item_count
                                       ELSE event_ring.item_count + 1
BY DEF Typed, TypeOK, RingBufOf, DevPush, ringbuf_push

\* An empty ring is left as it is, any other holds one item less.
LEMMA PopCount ==
  ASSUME Typed, MainPop
  PROVE  /\ event_ring.item_count \in 0 .. NumItemMax
         /\ event_ring'.item_count = IF IsEmpty(event_ring)
                                       THEN event_ring.item_count
                                       ELSE event_ring.item_count - 1
BY DEF Typed, TypeOK, RingBufOf, MainPop, ringbuf_pop

\* Before inputmgr_init nothing has posted.
FreshSem == mpc = "init" => sem = 0

LEMMA InitFresh == Init => FreshSem
BY DEF Init, FreshSem

LEMMA NextFresh == StartedOnce /\ FreshSem /\ [Next]_vars => FreshSem'
<1> SUFFICES ASSUME StartedOnce, FreshSem, [Next]_vars, mpc' = "init"
             PROVE  sem' = 0
  BY DEF FreshSem
<1>1. \/ mpc = "init" /\ sem' = sem
      \/ inputmgr_init
      \/ \E d \in Device : DevPost(d) /\ mpc = "init"
  BY NextActions
     DEF inputmgr_resigter, StartInitAll, InitDevice, EndInitAll, MainSemWait,
         MainLock, MainPop, MainUnlock, Use, TouchRead, SocketRecv,
         SocketRecvFails, SocketAlloc, DevLock, DevPush, DevPost, DevUnlock,
         vars, setupVars, deviceVars, mainVars
<1> QED
  BY <1>1 DEF StartedOnce, FreshSem, DevPost, inputmgr_init

LEMMA FreshSemHolds == Spec => []FreshSem
BY InitFresh, NextFresh, StartedHolds, PTL DEF Spec

\* The state a lemma about one step may start from.
SafeSoFar == Typed /\ StartedOnce /\ FreshSem /\ MutualExclusion

LEMMA InitSafe == Init => SafeSoFar
BY InitTyped, InitStarted, InitFresh, InitExclusion DEF SafeSoFar

LEMMA NextSafe == SafeSoFar /\ [Next]_vars => SafeSoFar'
BY NextTyped, NextStarted, NextFresh, NextExclusion DEF SafeSoFar

LEMMA SafeSoFarHolds == Spec => []SafeSoFar
BY TypedHolds, StartedHolds, FreshSemHolds, ExclusionHolds, PTL DEF SafeSoFar

\* Of all threads at most one device is inside, and main then is not.
LEMMA OneInside ==
  ASSUME SafeSoFar, NEW d \in Device, DevInside(d)
  PROVE  /\ ~ MainInside
         /\ \A e \in Device \ {d} : ~ DevInside(e)
BY DeviceAssumption DEF SafeSoFar, MutualExclusion, Thread

\* The surplus is a number; a push on a full ring adds one to it.
LEMMA PushSurplus ==
  ASSUME SafeSoFar, NEW d \in Device, DevPush(d)
  PROVE  /\ Surplus \in Int
         /\ Surplus' = IF IsFull(event_ring) THEN Surplus + 1 ELSE Surplus
<1>1. /\ sem \in Nat /\ pc \in [Device -> DevPC]
      /\ event_ring.item_count \in Nat
  BY NumItemMaxAssumption DEF SafeSoFar, Typed, TypeOK, RingBufOf
<1>2. sem' = sem /\ Taken' = Taken /\ pc[d] = "push" /\ pc'[d] = "post"
  BY <1>1 DEF DevPush, mainVars, Taken
<1>3. Owed = 0
  BY <1>2, OneInside DEF DevInside, Owed
<1>4. Owed' = 1
  BY <1>2 DEF Owed
<1>5. Taken \in {0, 1}
  BY DEF Taken
<1>6. event_ring'.item_count = IF IsFull(event_ring)
                                 THEN event_ring.item_count
                                 ELSE event_ring.item_count + 1
  BY PushCount DEF SafeSoFar
<1> QED
  BY <1>1, <1>2, <1>3, <1>4, <1>5, <1>6 DEF Surplus

\* A pop from an empty ring uses up one wake-up of the surplus, and there is
\* one to use up.
LEMMA PopSurplus ==
  ASSUME SafeSoFar, MainPop
  PROVE  /\ Surplus \in Int
         /\ Surplus' = IF IsEmpty(event_ring) THEN Surplus - 1 ELSE Surplus
         /\ IsEmpty(event_ring) => Surplus > 0
<1>1. /\ sem \in Nat /\ event_ring.item_count \in Nat
  BY NumItemMaxAssumption DEF SafeSoFar, Typed, TypeOK, RingBufOf
<1>2. sem' = sem /\ Owed' = Owed /\ Taken = 1 /\ Taken' = 0
  BY DEF MainPop, deviceVars, Taken, Owed
<1>3. Owed \in {0, 1}
  BY DEF Owed
<1>4. event_ring'.item_count = IF IsEmpty(event_ring)
                                 THEN event_ring.item_count
                                 ELSE event_ring.item_count - 1
  BY PopCount DEF SafeSoFar
<1> QED
  BY <1>1, <1>2, <1>3, <1>4 DEF Surplus, IsEmpty

\* Every other step leaves the ring, main's event and the surplus alone: a
\* post only moves a token from the thread to the semaphore, and a wait from
\* the semaphore to main.
LEMMA OtherSteps ==
  ASSUME SafeSoFar, [Next]_vars,
         ~ \E d \in Device : DevPush(d), ~ MainPop
  PROVE  UNCHANGED <<event_ring, event, err, Surplus>>
<1>0. /\ sem \in Nat /\ pc \in [Device -> DevPC]
      /\ event_ring.item_count \in Nat
  BY NumItemMaxAssumption DEF SafeSoFar, Typed, TypeOK, RingBufOf
<1>1. ASSUME UNCHANGED <<sem, event_ring, event, err>>, Taken' = Taken, Owed' = Owed
      PROVE  UNCHANGED <<event_ring, event, err, Surplus>>
  BY <1>1 DEF Surplus
\* A device that moves, neither from nor to its post, owes what it owed.
<1>2. ASSUME NEW d \in Device, pc[d] # "post", NEW p \in DevPC \ {"post"},
             pc' = pc \/ pc' = [pc EXCEPT ![d] = p]
      PROVE  Owed' = Owed
  <2>1. \A e \in Device : (pc'[e] = "post") <=> (pc[e] = "post")
    BY <1>0, <1>2
  <2> QED
    BY <2>1 DEF Owed
<1>3. CASE inputmgr_init
  BY <1>1, <1>3 DEF inputmgr_init, SafeSoFar, FreshSem, deviceVars, Taken, Owed
<1>4. ASSUME NEW d \in Device, inputmgr_resigter(d)
      PROVE  UNCHANGED <<event_ring, event, err, Surplus>>
  BY <1>1, <1>4 DEF inputmgr_resigter, deviceVars, mainVars, Taken, Owed
<1>5. CASE StartInitAll
  BY <1>1, <1>5 DEF StartInitAll, deviceVars, Taken, Owed
<1>6. CASE InitDevice
  <2>1. Head(tmp) \in Device /\ pc[Head(tmp)] = "off"
    BY <1>6, StartsFromOff DEF SafeSoFar
  <2>2. Owed' = Owed
    BY <1>2, <1>6, <2>1 DEF InitDevice, DevPC
  <2> QED
    BY <1>1, <1>6, <2>2 DEF InitDevice, mainVars, Taken
<1>7. CASE EndInitAll
  BY <1>1, <1>7 DEF EndInitAll, deviceVars, Taken, Owed
<1>8. CASE MainSemWait
  <2>1. sem' = sem - 1 /\ Taken = 0 /\ Taken' = 1 /\ Owed' = Owed
        /\ UNCHANGED <<event_ring, event, err>>
    BY <1>8 DEF MainSemWait, deviceVars, Taken, Owed
  <2>2. Owed \in {0, 1}
    BY DEF Owed
  <2> QED
    BY <1>0, <2>1, <2>2 DEF Surplus
<1>9. CASE MainLock
  BY <1>1, <1>9 DEF MainLock, deviceVars, Taken, Owed
<1>10. CASE MainUnlock
  BY <1>1, <1>10 DEF MainUnlock, deviceVars, Taken, Owed
<1>11. CASE Use
  BY <1>1, <1>11 DEF Use, deviceVars, Taken, Owed
<1>12. ASSUME NEW d \in Device, NEW v \in Val, TouchRead(d, v)
       PROVE  UNCHANGED <<event_ring, event, err, Surplus>>
  <2>1. Owed' = Owed
    BY <1>2, <1>12 DEF TouchRead, DevPC
  <2> QED
    BY <1>1, <1>12, <2>1 DEF TouchRead, mainVars, Taken
<1>13. ASSUME NEW d \in Device, NEW v \in Val, SocketRecv(d, v)
       PROVE  UNCHANGED <<event_ring, event, err, Surplus>>
  <2>1. Owed' = Owed
    BY <1>2, <1>13 DEF SocketRecv, DevPC
  <2> QED
    BY <1>1, <1>13, <2>1 DEF SocketRecv, mainVars, Taken
<1>14. ASSUME NEW d \in Device, SocketRecvFails(d)
       PROVE  UNCHANGED <<event_ring, event, err, Surplus>>
  <2>1. Owed' = Owed
    BY <1>2, <1>14 DEF SocketRecvFails, DevPC
  <2> QED
    BY <1>1, <1>14, <2>1 DEF SocketRecvFails, mainVars, Taken
<1>15. ASSUME NEW d \in Device, SocketAlloc(d)
       PROVE  UNCHANGED <<event_ring, event, err, Surplus>>
  <2>1. Owed' = Owed
    BY <1>2, <1>15 DEF SocketAlloc, DevPC
  <2> QED
    BY <1>1, <1>15, <2>1 DEF SocketAlloc, mainVars, Taken
<1>16. ASSUME NEW d \in Device, DevLock(d)
       PROVE  UNCHANGED <<event_ring, event, err, Surplus>>
  <2>1. Owed' = Owed
    BY <1>2, <1>16 DEF DevLock, DevPC
  <2> QED
    BY <1>1, <1>16, <2>1 DEF DevLock, mainVars, Taken
<1>17. ASSUME NEW d \in Device, DevPost(d)
       PROVE  UNCHANGED <<event_ring, event, err, Surplus>>
  <2>1. /\ sem' = sem + 1 /\ Taken' = Taken /\ pc[d] = "post"
        /\ pc' = [pc EXCEPT ![d] = "unlock"]
        /\ UNCHANGED <<event_ring, event, err>>
    BY <1>17 DEF DevPost, mainVars, Taken
  <2>2. Owed = 1
    BY <2>1 DEF Owed
  <2>3. \A e \in Device : pc'[e] # "post"
    BY <1>0, <2>1, OneInside DEF DevInside
  <2>4. Owed' = 0
    BY <2>3 DEF Owed
  <2>5. Taken \in {0, 1}
    BY DEF Taken
  <2> QED
    BY <1>0, <2>1, <2>2, <2>4, <2>5 DEF Surplus
<1>18. ASSUME NEW d \in Device, DevUnlock(d)
       PROVE  UNCHANGED <<event_ring, event, err, Surplus>>
  <2>1. Owed' = Owed
    BY <1>2, <1>18 DEF DevUnlock, DevPC
  <2> QED
    BY <1>1, <1>18, <2>1 DEF DevUnlock, mainVars, Taken
<1>19. CASE UNCHANGED vars
  BY <1>1, <1>19 DEF vars, deviceVars, mainVars, Taken, Owed
<1> QED
  BY <1>3, <1>4, <1>5, <1>6, <1>7, <1>8, <1>9, <1>10, <1>11, <1>12, <1>13,
     <1>14, <1>15, <1>16, <1>17, <1>18, <1>19, NextActions

\* Once an event is in the ring there is a token that will make main fetch it:
\* in the semaphore, with main, or with the device that has still to post it
\* (input_mgr.c:26-29, 90-93).
THEOREM NoLostWakeupCorrect == Spec => []NoLostWakeup
<1>1. Init => NoLostWakeup
  <2> SUFFICES ASSUME Init
               PROVE  NoLostWakeup
    OBVIOUS
  <2>1. sem = 0 /\ Taken = 0 /\ Owed = 0
    BY DEF Init, Taken, Owed
  <2>2. event_ring.item_count = 0
    BY DEF Init, RING_BUF_DEF
  <2> QED
    BY <2>1, <2>2 DEF NoLostWakeup, Surplus
<1>2. SafeSoFar /\ NoLostWakeup /\ [Next]_vars => NoLostWakeup'
  <2> SUFFICES ASSUME SafeSoFar, NoLostWakeup, [Next]_vars
               PROVE  NoLostWakeup'
    OBVIOUS
  <2>1. ASSUME NEW d \in Device, DevPush(d)
        PROVE  NoLostWakeup'
    BY <2>1, PushSurplus DEF NoLostWakeup
  <2>2. CASE MainPop
    BY <2>2, PopSurplus DEF NoLostWakeup
  <2>3. CASE ~ MainPop /\ ~ \E d \in Device : DevPush(d)
    BY <2>3, OtherSteps DEF NoLostWakeup
  <2> QED
    BY <2>1, <2>2, <2>3
<1> QED
  BY <1>1, <1>2, SafeSoFarHolds, PTL DEF Spec

(***************************************************************************)
(* The caller's view: the input manager implements EventChannel.           *)
(***************************************************************************)
LEMMA QueueTyped ==
  ASSUME SafeSoFar
  PROVE  /\ Queue \in Seq(Event)
         /\ Len(Queue) = event_ring.item_count
         /\ Len(Queue) \in 0 .. NumItemMax
BY QueueIsSeq DEF SafeSoFar, Typed, TypeOK, Queue, RingBufOf

\* What a push and a pop do to the queue.
LEMMA PushQueue ==
  ASSUME SafeSoFar, NEW d \in Device, DevPush(d)
  PROVE  Queue' = IF IsFull(event_ring) THEN Queue ELSE Append(Queue, ev[d])
<1>1. event_ring \in RingBufOf(Event) /\ RingOK(event_ring) /\ ev[d] \in Event
  BY DEF SafeSoFar, Typed, TypeOK
<1>2. event_ring' = ringbuf_push(event_ring, ev[d]).buf
  BY DEF DevPush
<1>3. CASE IsFull(event_ring)
  BY <1>2, <1>3 DEF ringbuf_push, Queue
<1>4. CASE ~IsFull(event_ring)
  BY <1>1, <1>2, <1>4, PushAppends DEF Queue
<1> QED
  BY <1>3, <1>4

LEMMA PopQueue ==
  ASSUME SafeSoFar, MainPop
  PROVE  /\ IsEmpty(event_ring) => /\ Queue = <<>> /\ Queue' = Queue
                                   /\ event' = event /\ err' = -1
         /\ ~IsEmpty(event_ring) => /\ Queue # <<>> /\ Queue' = Tail(Queue)
                                    /\ event' = Head(Queue) /\ err' = 0
<1>1. event_ring \in RingBufOf(Event) /\ RingOK(event_ring)
  BY DEF SafeSoFar, Typed, TypeOK
<1>2. /\ event_ring' = ringbuf_pop(event_ring, event).buf
      /\ event' = ringbuf_pop(event_ring, event).data
      /\ err' = ringbuf_pop(event_ring, event).ret
  BY DEF MainPop
<1>3. CASE IsEmpty(event_ring)
  <2>1. Queue = <<>>
    BY <1>1, <1>3 DEF Queue, QueueOf, IsEmpty
  <2> QED
    BY <1>2, <1>3, <2>1 DEF ringbuf_pop, Queue
<1>4. CASE ~IsEmpty(event_ring)
  BY <1>1, <1>2, <1>4, PopTakesHead DEF Queue
<1> QED
  BY <1>3, <1>4

LEMMA NextRefines == SafeSoFar /\ [Next]_vars => [Channel!Next]_Channel!vars
<1> SUFFICES ASSUME SafeSoFar, [Next]_vars
             PROVE  [Channel!Next]_Channel!vars
  OBVIOUS
<1>1. ASSUME NEW d \in Device, DevPush(d)
      PROVE  Channel!Next
  <2>1. ev[d] \in Event /\ UNCHANGED <<event, err>>
    BY <1>1 DEF SafeSoFar, Typed, TypeOK, DevPush, mainVars
  <2>2. CASE IsFull(event_ring)
    <3>1. Channel!Lose
      BY <1>1, <2>1, <2>2, PushQueue, PushSurplus, QueueTyped
         DEF Channel!Lose, IsFull
    <3> QED
      BY <3>1 DEF Channel!Next
  <2>3. CASE ~IsFull(event_ring)
    <3>1. Channel!Send(ev[d])
      BY <1>1, <2>1, <2>3, PushQueue, PushSurplus, QueueTyped, NumItemMaxAssumption
         DEF Channel!Send, IsFull
    <3> QED
      BY <2>1, <3>1 DEF Channel!Next
  <2> QED
    BY <2>2, <2>3
<1>2. CASE MainPop
  <2>1. CASE IsEmpty(event_ring)
    <3>1. Channel!ReceiveFails
      BY <1>2, <2>1, PopQueue, PopSurplus DEF Channel!ReceiveFails
    <3> QED
      BY <3>1 DEF Channel!Next
  <2>2. CASE ~IsEmpty(event_ring)
    <3>1. Channel!Receive
      BY <1>2, <2>2, PopQueue, PopSurplus DEF Channel!Receive
    <3> QED
      BY <3>1 DEF Channel!Next
  <2> QED
    BY <2>1, <2>2
<1>3. CASE ~ MainPop /\ ~ \E d \in Device : DevPush(d)
  BY <1>3, OtherSteps DEF Queue, Channel!vars
<1> QED
  BY <1>1, <1>2, <1>3

\* For its caller the input manager is a lossy bounded queue: an event is lost
\* only when NumItemMax are waiting, the others come out once each in order,
\* and a get fails at most once for each event lost (input_mgr.c:26-29, 88-100).
THEOREM InputMgrImplementsChannel == Spec => ImplementsChannel
<1>1. Init => Channel!Init
  <2> SUFFICES ASSUME Init
               PROVE  Channel!Init
    OBVIOUS
  <2>1. Queue = <<>>
    BY DefIsEmptyQueue DEF Init, Queue
  <2>2. Surplus = 0
    BY DEF Init, Surplus, Taken, Owed, RING_BUF_DEF
  <2> QED
    BY <2>1, <2>2 DEF Init, Channel!Init
<1> QED
  BY <1>1, NextRefines, SafeSoFarHolds, PTL
     DEF Spec, Channel!Spec, ImplementsChannel

(***************************************************************************)
(* Order: the inputs of a device never overtake each other.                *)
(***************************************************************************)
LEMMA InitOrder == Init => InputsInOrder
BY MaxEventsAssumption DEF Init, InputsInOrder, RING_BUF_DEF

\* A step that leaves the ring and main alone, and reads at most a new input.
LEMMA QuietKeepsOrder ==
  ASSUME SafeSoFar, InputsInOrder,
         UNCHANGED <<event_ring, delivered>>,
         \A d \in Device :
           /\ clock'[d] \in {clock[d], clock[d] + 1}
           /\ pc'[d] \in {"lock", "push"} =>
                \/ /\ pc[d] \in {"lock", "push"}
                   /\ ev'[d] = ev[d] /\ clock'[d] = clock[d]
                \/ /\ clock'[d] = clock[d] + 1
                   /\ ev'[d].dev = d /\ ev'[d].time = clock'[d]
  PROVE  InputsInOrder'
<1>0. /\ clock \in [Device -> 0 .. MaxEvents]
      /\ delivered \in [Device -> 0 .. MaxEvents]
      /\ event_ring.item_count \in Nat
      /\ \A i \in 1 .. event_ring.item_count : Queue[i] \in Event
  BY QueueTyped, ElementOfSeq DEF SafeSoFar, Typed, TypeOK
<1>1. Queue' = Queue /\ event_ring'.item_count = event_ring.item_count
  BY DEF Queue
<1>2. \A d \in Device : clock[d] \in Nat /\ delivered[d] \in Nat /\ clock'[d] \in Nat
  BY <1>0, MaxEventsAssumption
<1>3. \A i \in 1 .. event_ring.item_count : Queue[i].time \in Nat
  BY <1>0, MaxEventsAssumption DEF Event
<1>4. ASSUME NEW i \in 1 .. event_ring.item_count
      PROVE  /\ Queue[i].dev \in Device
             /\ delivered[Queue[i].dev] < Queue[i].time
             /\ Queue[i].time <= clock'[Queue[i].dev]
             /\ \A j \in 1 .. (i - 1) :
                  Queue[j].dev = Queue[i].dev => Queue[j].time < Queue[i].time
  BY <1>2, <1>3, <1>4 DEF InputsInOrder
<1>5. ASSUME NEW d \in Device
      PROVE  /\ delivered[d] <= clock'[d]
             /\ pc'[d] \in {"lock", "push"} =>
                  /\ ev'[d].dev = d
                  /\ ev'[d].time = clock'[d]
                  /\ delivered[d] < clock'[d]
                  /\ \A i \in 1 .. event_ring.item_count :
                       Queue[i].dev = d => Queue[i].time < ev'[d].time
  <2>1. delivered[d] <= clock'[d]
    BY <1>2, <1>5 DEF InputsInOrder
  <2>2. CASE pc[d] \in {"lock", "push"} /\ ev'[d] = ev[d] /\ clock'[d] = clock[d]
    BY <2>1, <2>2, <1>5 DEF InputsInOrder
  <2>3. CASE clock'[d] = clock[d] + 1 /\ ev'[d].dev = d /\ ev'[d].time = clock'[d]
    <3>1. delivered[d] < clock'[d]
      BY <1>2, <1>5, <2>3 DEF InputsInOrder
    <3>2. \A i \in 1 .. event_ring.item_count :
            Queue[i].dev = d => Queue[i].time < ev'[d].time
      BY <1>2, <1>3, <1>5, <2>3 DEF InputsInOrder
    <3> QED
      BY <2>1, <2>3, <3>1, <3>2
  <2> QED
    BY <2>1, <2>2, <2>3
<1> QED
  BY <1>1, <1>4, <1>5 DEF InputsInOrder

LEMMA PushKeepsOrder ==
  ASSUME SafeSoFar, InputsInOrder, NEW d \in Device, DevPush(d)
  PROVE  InputsInOrder'
<1>0. /\ pc \in [Device -> DevPC] /\ ev[d] \in Event
      /\ Queue \in Seq(Event) /\ Len(Queue) = event_ring.item_count
      /\ event_ring.item_count \in Nat
  BY QueueTyped DEF SafeSoFar, Typed, TypeOK
<1>1. /\ pc[d] = "push" /\ pc'[d] = "post"
      /\ \A e \in Device \ {d} : pc'[e] = pc[e]
      /\ UNCHANGED <<clock, ev, delivered>>
  BY <1>0 DEF DevPush, mainVars
<1>2. CASE IsFull(event_ring)
  <2>1. Queue' = Queue /\ event_ring' = event_ring
    BY <1>2, PushQueue DEF DevPush, ringbuf_push
  <2> QED
    BY <1>1, <2>1 DEF InputsInOrder
<1>3. CASE ~IsFull(event_ring)
  <2> DEFINE n == event_ring.item_count
  <2>1. Queue' = Append(Queue, ev[d]) /\ event_ring'.item_count = n + 1
    BY <1>3, PushQueue, PushCount DEF SafeSoFar
  <2>2. Queue'[n + 1] = ev[d] /\ \A i \in 1 .. n : Queue'[i] = Queue[i]
    BY <1>0, <2>1, AppendProperties
  <2>3. \A i \in 1 .. (n + 1) : i \in 1 .. n \/ i = n + 1
    BY <1>0
  <2>4. ev[d].dev = d /\ ev[d].time = clock[d] /\ delivered[d] < clock[d]
        /\ \A i \in 1 .. n : Queue[i].dev = d => Queue[i].time < ev[d].time
    BY <1>1 DEF InputsInOrder
  <2>5. clock[d] \in Nat
    BY MaxEventsAssumption DEF SafeSoFar, Typed, TypeOK
  <2>6. ASSUME NEW i \in 1 .. (n + 1)
        PROVE  /\ Queue'[i].dev \in Device
               /\ delivered[Queue'[i].dev] < Queue'[i].time
               /\ Queue'[i].time <= clock[Queue'[i].dev]
               /\ \A j \in 1 .. (i - 1) :
                    Queue'[j].dev = Queue'[i].dev => Queue'[j].time < Queue'[i].time
    <3>1. CASE i \in 1 .. n
      <4>1. \A j \in 1 .. (i - 1) : j \in 1 .. n
        BY <1>0, <3>1
      <4> QED
        BY <2>2, <3>1, <4>1 DEF InputsInOrder
    <3>2. CASE i = n + 1
      <4>1. \A j \in 1 .. (i - 1) : j \in 1 .. n
        BY <1>0, <3>2
      <4> QED
        BY <2>2, <2>4, <2>5, <3>2, <4>1
    <3> QED
      BY <2>3, <3>1, <3>2
  <2>7. ASSUME NEW e \in Device, pc'[e] \in {"lock", "push"}
        PROVE  \A i \in 1 .. (n + 1) : Queue'[i].dev = e => Queue'[i].time < ev[e].time
    <3>1. e # d /\ pc[e] \in {"lock", "push"}
      BY <1>1, <2>7
    <3> QED
      BY <2>2, <2>3, <2>4, <3>1 DEF InputsInOrder
  <2> HIDE DEF n
  <2> QED
    BY <1>1, <2>1, <2>6, <2>7 DEF InputsInOrder
<1> QED
  BY <1>2, <1>3

LEMMA PopKeepsOrder ==
  ASSUME SafeSoFar, InputsInOrder, MainPop
  PROVE  /\ InputsInOrder'
         /\ err' = 0 => event'.time > delivered[event'.dev]
<1>0. /\ Queue \in Seq(Event) /\ Len(Queue) = event_ring.item_count
      /\ event_ring.item_count \in Nat
      /\ delivered \in [Device -> 0 .. MaxEvents]
  BY QueueTyped DEF SafeSoFar, Typed, TypeOK
<1>1. /\ UNCHANGED <<clock, pc, ev>>
      /\ delivered' = IF err' = 0 THEN [delivered EXCEPT ![event'.dev] = event'.time]
                                  ELSE delivered
  BY DEF MainPop, deviceVars
<1>2. CASE IsEmpty(event_ring)
  <2>1. event_ring' = event_ring /\ Queue' = Queue /\ err' = -1
    BY <1>2, PopQueue DEF MainPop, ringbuf_pop
  <2> QED
    BY <1>1, <2>1 DEF InputsInOrder
<1>3. CASE ~IsEmpty(event_ring)
  <2> DEFINE n == event_ring.item_count
             h == Queue[1]
  <2>1. /\ Queue # <<>> /\ Queue' = Tail(Queue) /\ event' = Head(Queue) /\ err' = 0
        /\ event_ring'.item_count = n - 1
    BY <1>3, PopQueue, PopCount DEF SafeSoFar
  <2>2. event' = h /\ 1 \in 1 .. n
        /\ \A i \in 1 .. (n - 1) : Queue'[i] = Queue[i + 1]
    BY <1>0, <2>1, HeadTailProperties, EmptySeq, LenProperties
  <2>3. h \in Event /\ h.dev \in Device /\ delivered[h.dev] < h.time
        /\ h.time <= clock[h.dev]
    BY <1>0, <2>2, ElementOfSeq DEF InputsInOrder
  <2>4. /\ \A e \in Device \ {h.dev} : delivered'[e] = delivered[e]
        /\ delivered'[h.dev] = h.time
    BY <1>0, <1>1, <2>1, <2>2, <2>3
  <2>5. ASSUME NEW i \in 1 .. (n - 1)
        PROVE  /\ Queue'[i].dev \in Device
               /\ delivered'[Queue'[i].dev] < Queue'[i].time
               /\ Queue'[i].time <= clock[Queue'[i].dev]
               /\ \A j \in 1 .. (i - 1) :
                    Queue'[j].dev = Queue'[i].dev => Queue'[j].time < Queue'[i].time
    <3>1. i + 1 \in 1 .. n /\ 1 \in 1 .. ((i + 1) - 1)
          /\ \A j \in 1 .. (i - 1) : j + 1 \in 1 .. ((i + 1) - 1) /\ j \in 1 .. (n - 1)
      BY <1>0
    <3>2. /\ Queue[i + 1].dev \in Device
          /\ delivered[Queue[i + 1].dev] < Queue[i + 1].time
          /\ Queue[i + 1].time <= clock[Queue[i + 1].dev]
          /\ \A j \in 1 .. ((i + 1) - 1) :
               Queue[j].dev = Queue[i + 1].dev => Queue[j].time < Queue[i + 1].time
      BY <3>1 DEF InputsInOrder
    <3>3. delivered'[Queue[i + 1].dev] < Queue[i + 1].time
      BY <2>4, <3>1, <3>2
    <3> QED
      BY <2>2, <3>1, <3>2, <3>3
  <2>6. ASSUME NEW e \in Device
        PROVE  /\ delivered'[e] <= clock[e]
               /\ pc[e] \in {"lock", "push"} =>
                    /\ ev[e].dev = e
                    /\ ev[e].time = clock[e]
                    /\ delivered'[e] < clock[e]
                    /\ \A i \in 1 .. (n - 1) :
                         Queue'[i].dev = e => Queue'[i].time < ev[e].time
    <3>1. \A i \in 1 .. (n - 1) : i + 1 \in 1 .. n
      BY <1>0
    <3>2. CASE e = h.dev
      BY <2>2, <2>3, <2>4, <3>1, <3>2 DEF InputsInOrder
    <3>3. CASE e # h.dev
      BY <2>2, <2>4, <3>1, <3>3 DEF InputsInOrder
    <3> QED
      BY <3>2, <3>3
  <2>7. event'.time > delivered[event'.dev]
    <3>1. h.time \in Nat /\ delivered[h.dev] \in Nat
      BY <1>0, <2>3, MaxEventsAssumption DEF Event
    <3> QED
      BY <2>2, <2>3, <3>1
  <2> HIDE DEF n, h
  <2> QED
    BY <1>1, <2>1, <2>5, <2>6, <2>7 DEF InputsInOrder
<1> QED
  BY <1>2, <1>3

LEMMA NextOrder == SafeSoFar /\ InputsInOrder /\ [Next]_vars => InputsInOrder'
<1> SUFFICES ASSUME SafeSoFar, InputsInOrder, [Next]_vars
             PROVE  InputsInOrder'
  OBVIOUS
<1>0. /\ clock \in [Device -> 0 .. MaxEvents] /\ pc \in [Device -> DevPC]
      /\ ev \in [Device -> Event]
  BY DEF SafeSoFar, Typed, TypeOK
\* Main's own steps, but for the pop.
<1>1. ASSUME UNCHANGED <<event_ring, delivered, deviceVars>>
      PROVE  InputsInOrder'
  BY <1>1, QuietKeepsOrder DEF deviceVars
\* A device that neither reads an input nor comes from or to its push.
<1>2. ASSUME UNCHANGED <<event_ring, delivered, clock>>, NEW d \in Device,
             NEW p \in DevPC,
             pc' = pc \/ pc' = [pc EXCEPT ![d] = p],
             p \in {"lock", "push"} => pc[d] \in {"lock", "push"} /\ ev' = ev,
             \A e \in Device \ {d} : ev'[e] = ev[e],
             pc[d] \in {"lock", "push"} => ev' = ev
      PROVE  InputsInOrder'
  <2>1. \A e \in Device : pc'[e] \in {"lock", "push"} =>
          pc[e] \in {"lock", "push"} /\ ev'[e] = ev[e] /\ clock'[e] = clock[e]
    BY <1>0, <1>2
  <2> QED
    BY <1>2, <2>1, QuietKeepsOrder
<1>3. CASE inputmgr_init \/ StartInitAll \/ EndInitAll \/ MainSemWait \/ MainLock
           \/ MainUnlock \/ Use
  BY <1>1, <1>3 DEF inputmgr_init, StartInitAll, EndInitAll, MainSemWait,
                    MainLock, MainUnlock, Use
<1>4. ASSUME NEW d \in Device, inputmgr_resigter(d)
      PROVE  InputsInOrder'
  BY <1>1, <1>4 DEF inputmgr_resigter, mainVars
<1>5. CASE InitDevice
  <2>1. Head(tmp) \in Device /\ pc[Head(tmp)] = "off"
    BY <1>5, StartsFromOff DEF SafeSoFar
  <2> QED
    BY <1>2, <1>5, <2>1 DEF InitDevice, mainVars, DevPC
<1>6. CASE MainPop
  BY <1>6, PopKeepsOrder
<1>7. ASSUME NEW d \in Device, NEW v \in Val, TouchRead(d, v)
      PROVE  InputsInOrder'
  <2>1. UNCHANGED <<event_ring, delivered>> /\ clock' = [clock EXCEPT ![d] = clock[d] + 1]
    BY <1>7 DEF TouchRead, mainVars
  <2>2. CASE UNCHANGED <<ev, pc>>
    <3>1. pc'[d] = "get"
      BY <1>7, <2>2 DEF TouchRead
    <3> QED
      BY <1>0, <2>1, <2>2, <3>1, QuietKeepsOrder
  <2>3. ASSUME NEW b \in Block, ev' = [ev EXCEPT ![d] = NewEvent(d, b, v)],
               pc' = [pc EXCEPT ![d] = "lock"]
        PROVE  InputsInOrder'
    <3>1. ev'[d].dev = d /\ ev'[d].time = clock[d] + 1
      BY <1>0, <2>3 DEF NewEvent
    <3> QED
      BY <1>0, <2>1, <2>3, <3>1, QuietKeepsOrder
  <2> QED
    BY <1>7, <2>2, <2>3 DEF TouchRead
<1>8. ASSUME NEW d \in Device, NEW v \in Val, SocketRecv(d, v)
      PROVE  InputsInOrder'
  <2>1. /\ UNCHANGED <<event_ring, delivered>>
        /\ clock' = [clock EXCEPT ![d] = clock[d] + 1]
        /\ pc' = [pc EXCEPT ![d] = "lock"]
        /\ ev' = [ev EXCEPT ![d] = NewEvent(d, ev[d].data, v)]
    BY <1>8 DEF SocketRecv, mainVars
  <2>2. ev'[d].dev = d /\ ev'[d].time = clock[d] + 1
    BY <1>0, <2>1 DEF NewEvent
  <2> QED
    BY <1>0, <2>1, <2>2, QuietKeepsOrder
<1>9. ASSUME NEW d \in Device, SocketRecvFails(d)
      PROVE  InputsInOrder'
  <2>1. \A e \in Device \ {d} : ev'[e] = ev[e]
    BY <1>0, <1>9 DEF SocketRecvFails
  <2> QED
    BY <1>2, <1>9, <2>1 DEF SocketRecvFails, mainVars, DevPC
<1>10. ASSUME NEW d \in Device, SocketAlloc(d)
       PROVE  InputsInOrder'
  <2>1. \A e \in Device \ {d} : ev'[e] = ev[e]
    BY <1>0, <1>10 DEF SocketAlloc
  <2> QED
    BY <1>2, <1>10, <2>1 DEF SocketAlloc, mainVars, DevPC
<1>11. ASSUME NEW d \in Device, DevLock(d) \/ DevPost(d) \/ DevUnlock(d)
       PROVE  InputsInOrder'
  BY <1>2, <1>11 DEF DevLock, DevPost, DevUnlock, mainVars, DevPC
<1>12. ASSUME NEW d \in Device, DevPush(d)
       PROVE  InputsInOrder'
  BY <1>12, PushKeepsOrder
<1>13. CASE UNCHANGED vars
  BY <1>1, <1>13 DEF vars, mainVars
<1> QED
  BY <1>3, <1>4, <1>5, <1>6, <1>7, <1>8, <1>9, <1>10, <1>11, <1>12, <1>13,
     NextActions

LEMMA OrderHolds == Spec => []InputsInOrder
BY InitOrder, NextOrder, SafeSoFarHolds, PTL DEF Spec

\* From its thread through the ring to main no input of a device overtakes or
\* repeats another, for any number of threads and inputs (input_mgr.c:18-33).
THEOREM InputsInOrderCorrect == Spec => []InputsInOrder
BY OrderHolds

\* inputmgr_get_event never hands over an input twice, nor an older one after
\* a newer one of the same device (input_mgr.c:88-95).
THEOREM DeliveryCorrect == Spec => DeliveredOnceInOrder
<1>1. SafeSoFar /\ InputsInOrder /\ [Next]_vars
      => [mpc = "pop" /\ mpc' = "unlock" /\ err' = 0
            => event'.time > delivered[event'.dev]]_vars
  <2> SUFFICES ASSUME SafeSoFar, InputsInOrder, [Next]_vars,
                      mpc = "pop", mpc' = "unlock", err' = 0
               PROVE  event'.time > delivered[event'.dev]
    OBVIOUS
  <2>1. MainPop
    BY NextActions
       DEF inputmgr_init, inputmgr_resigter, StartInitAll, InitDevice, EndInitAll,
           MainSemWait, MainLock, MainUnlock, Use, TouchRead, SocketRecv,
           SocketRecvFails, SocketAlloc, DevLock, DevPush, DevPost, DevUnlock,
           vars, mainVars
  <2> QED
    BY <2>1, PopKeepsOrder
<1> QED
  BY <1>1, OrderHolds, SafeSoFarHolds, PTL DEF Spec, DeliveredOnceInOrder
(***************************************************************************)
(* Heap blocks.  Every step hands a block on, takes one that is free, or   *)
(* gives up the only pointer to the one it frees.                          *)
(***************************************************************************)
LEMMA InitOwned == Init => DataOwned
BY DEF Init, DataOwned, RING_BUF_DEF, DevHolds, MainHolds

\* The queue stays.  Who holds a block after the step held it before, but for
\* a device that has just allocated one, and what is held is not freed.
LEMMA KeepsOwned ==
  ASSUME DataOwned, UNCHANGED event_ring,
         \A i \in 1 .. event_ring.item_count : Queue[i].data \in live',
         MainHolds' => MainHolds /\ event' = event /\ event.data \in live',
         \A d \in Device : DevHolds(d)' =>
           /\ ev'[d].data \in live'
           /\ \/ DevHolds(d) /\ ev'[d].data = ev[d].data
              \/ /\ ev'[d].data \notin live
                 /\ \A c \in Device \ {d} :
                      DevHolds(c)' => DevHolds(c) /\ ev'[c].data = ev[c].data
  PROVE  DataOwned'
<1>1. Queue' = Queue /\ event_ring'.item_count = event_ring.item_count
  BY DEF Queue
<1>2. ASSUME NEW i \in 1 .. event_ring.item_count
      PROVE  /\ Queue[i].data \in live'
             /\ \A j \in 1 .. (i - 1) : Queue[j].data # Queue[i].data
             /\ \A d \in Device : DevHolds(d)' => ev'[d].data # Queue[i].data
             /\ MainHolds' => event'.data # Queue[i].data
  BY <1>2 DEF DataOwned
<1>3. ASSUME NEW d \in Device, DevHolds(d)'
      PROVE  /\ ev'[d].data \in live'
             /\ \A c \in Device \ {d} : DevHolds(c)' => ev'[c].data # ev'[d].data
             /\ MainHolds' => event'.data # ev'[d].data
  BY <1>3 DEF DataOwned
<1>4. MainHolds' => event'.data \in live'
  OBVIOUS
<1> QED
  BY <1>1, <1>2, <1>3, <1>4 DEF DataOwned

\* Nobody gets a block, and nobody gives one back.
LEMMA StaysOwned ==
  ASSUME DataOwned, UNCHANGED <<event_ring, live>>,
         MainHolds' => MainHolds /\ event' = event,
         \A d \in Device : DevHolds(d)' => DevHolds(d) /\ ev'[d].data = ev[d].data
  PROVE  DataOwned'
<1>1. /\ \A i \in 1 .. event_ring.item_count : Queue[i].data \in live'
      /\ MainHolds => event.data \in live'
      /\ \A d \in Device : DevHolds(d)' => ev'[d].data \in live'
  BY DEF DataOwned
<1> QED
  BY <1>1, KeepsOwned

\* A device takes a free block.
LEMMA TakesOwned ==
  ASSUME DataOwned, UNCHANGED <<event_ring, event>>, MainHolds' = MainHolds,
         NEW d, NEW b, b \notin live, live' = live \cup {b}, ev'[d].data = b,
         \A e \in Device \ {d} :
           DevHolds(e)' => DevHolds(e) /\ ev'[e].data = ev[e].data
  PROVE  DataOwned'
<1>1. /\ \A i \in 1 .. event_ring.item_count : Queue[i].data \in live'
      /\ MainHolds => event.data \in live'
      /\ \A e \in Device : DevHolds(e)' => ev'[e].data \in live'
  BY DEF DataOwned
<1> QED
  BY <1>1, KeepsOwned

\* A push hands the block on to the queue, or drops the pointer to it.
LEMMA PushKeepsOwned ==
  ASSUME SafeSoFar, DataOwned, NEW d \in Device, DevPush(d)
  PROVE  DataOwned'
<1>0. /\ pc \in [Device -> DevPC] /\ ev[d] \in Event
      /\ Queue \in Seq(Event) /\ Len(Queue) = event_ring.item_count
      /\ event_ring.item_count \in Nat
  BY QueueTyped DEF SafeSoFar, Typed, TypeOK
<1>1. /\ DevHolds(d) /\ ~ DevHolds(d)'
      /\ \A e \in Device \ {d} : DevHolds(e)' = DevHolds(e)
      /\ MainHolds' = MainHolds
      /\ UNCHANGED <<ev, live, event>>
  BY <1>0 DEF DevPush, mainVars, DevHolds, MainHolds
<1>2. CASE IsFull(event_ring)
  <2>1. UNCHANGED event_ring
    BY <1>2 DEF DevPush, ringbuf_push
  <2> QED
    BY <1>1, <2>1, StaysOwned
<1>3. CASE ~IsFull(event_ring)
  <2> DEFINE n == event_ring.item_count
  <2>1. Queue' = Append(Queue, ev[d]) /\ event_ring'.item_count = n + 1
    BY <1>3, PushQueue, PushCount DEF SafeSoFar
  <2>2. Queue'[n + 1] = ev[d] /\ \A i \in 1 .. n : Queue'[i] = Queue[i]
    BY <1>0, <2>1, AppendProperties
  <2>3. \A i \in 1 .. (n + 1) : /\ i \in 1 .. n \/ i = n + 1
                                /\ \A j \in 1 .. (i - 1) : j \in 1 .. n
    BY <1>0
  <2>4. ASSUME NEW i \in 1 .. (n + 1)
        PROVE  /\ Queue'[i].data \in live'
               /\ \A j \in 1 .. (i - 1) : Queue'[j].data # Queue'[i].data
               /\ \A e \in Device : DevHolds(e)' => ev'[e].data # Queue'[i].data
               /\ MainHolds' => event'.data # Queue'[i].data
    <3>1. CASE i \in 1 .. n
      BY <1>1, <2>2, <2>3, <3>1 DEF DataOwned
    <3>2. CASE i = n + 1
      BY <1>1, <2>2, <2>3, <3>2 DEF DataOwned
    <3> QED
      BY <2>3, <3>1, <3>2
  <2> HIDE DEF n
  <2> QED
    BY <1>1, <2>1, <2>4 DEF DataOwned
<1> QED
  BY <1>2, <1>3

\* A pop hands the block of the oldest event on to main.
LEMMA PopKeepsOwned ==
  ASSUME SafeSoFar, DataOwned, MainPop
  PROVE  DataOwned'
<1>0. /\ Queue \in Seq(Event) /\ Len(Queue) = event_ring.item_count
      /\ event_ring.item_count \in Nat
  BY QueueTyped
<1>1. /\ \A d \in Device : DevHolds(d)' = DevHolds(d)
      /\ UNCHANGED <<ev, live>> /\ mpc' = "unlock"
  BY DEF MainPop, deviceVars, DevHolds
<1>2. CASE IsEmpty(event_ring)
  <2>1. UNCHANGED event_ring /\ err' = -1
    BY <1>2, PopQueue DEF MainPop, ringbuf_pop
  <2> QED
    BY <1>1, <2>1, StaysOwned DEF MainHolds
<1>3. CASE ~IsEmpty(event_ring)
  <2> DEFINE n == event_ring.item_count
  <2>1. /\ Queue # <<>> /\ Queue' = Tail(Queue) /\ event' = Head(Queue)
        /\ event_ring'.item_count = n - 1
    BY <1>3, PopQueue, PopCount DEF SafeSoFar
  <2>2. event' = Queue[1] /\ 1 \in 1 .. n
        /\ \A i \in 1 .. (n - 1) : Queue'[i] = Queue[i + 1]
    BY <1>0, <2>1, HeadTailProperties, EmptySeq, LenProperties
  <2>3. \A i \in 1 .. (n - 1) :
          /\ i + 1 \in 1 .. n /\ 1 \in 1 .. ((i + 1) - 1)
          /\ \A j \in 1 .. (i - 1) : j + 1 \in 1 .. ((i + 1) - 1) /\ j \in 1 .. (n - 1)
    BY <1>0
  <2>4. ASSUME NEW i \in 1 .. (n - 1)
        PROVE  /\ Queue'[i].data \in live'
               /\ \A j \in 1 .. (i - 1) : Queue'[j].data # Queue'[i].data
               /\ \A e \in Device : DevHolds(e)' => ev'[e].data # Queue'[i].data
               /\ event'.data # Queue'[i].data
    BY <1>1, <2>2, <2>3 DEF DataOwned
  <2>5. /\ event'.data \in live'
        /\ \A e \in Device : DevHolds(e)' => event'.data # ev'[e].data
    BY <1>1, <2>2 DEF DataOwned
  <2> HIDE DEF n
  <2> QED
    BY <1>1, <2>1, <2>4, <2>5 DEF DataOwned
<1> QED
  BY <1>2, <1>3

LEMMA NextOwned == SafeSoFar /\ DataOwned /\ [Next]_vars => DataOwned'
<1> SUFFICES ASSUME SafeSoFar, DataOwned, [Next]_vars
             PROVE  DataOwned'
  OBVIOUS
<1>0. /\ pc \in [Device -> DevPC] /\ ev \in [Device -> Event]
  BY DEF SafeSoFar, Typed, TypeOK
<1>1. CASE inputmgr_init \/ StartInitAll \/ EndInitAll \/ MainSemWait \/ MainLock
           \/ MainUnlock
  BY StaysOwned, <1>1 DEF inputmgr_init, StartInitAll, EndInitAll, MainSemWait,
                    MainLock, MainUnlock, deviceVars, DevHolds, MainHolds
<1>2. ASSUME NEW d \in Device, inputmgr_resigter(d)
      PROVE  DataOwned'
  BY StaysOwned, <1>2 DEF inputmgr_resigter, deviceVars, mainVars, DevHolds, MainHolds
<1>3. CASE InitDevice
  <2>1. Head(tmp) \in Device /\ pc[Head(tmp)] = "off"
    BY <1>3, StartsFromOff DEF SafeSoFar
  <2> QED
    BY StaysOwned, <1>0, <1>3, <2>1 DEF InitDevice, mainVars, DevHolds, MainHolds
<1>4. CASE MainPop
  BY <1>4, PopKeepsOwned
<1>5. CASE Use
  <2>1. /\ UNCHANGED <<event_ring, pc, ev>> /\ MainHolds /\ ~ MainHolds'
        /\ live' = live \/ live' = live \ {event.data}
    BY <1>5 DEF Use, deviceVars, MainHolds
  <2>2. /\ \A i \in 1 .. event_ring.item_count : Queue[i].data \in live'
        /\ \A d \in Device : DevHolds(d) => ev[d].data \in live'
    BY <2>1 DEF DataOwned
  <2> QED
    BY <2>1, <2>2, KeepsOwned DEF DevHolds
<1>6. ASSUME NEW d \in Device, NEW v \in Val, TouchRead(d, v)
      PROVE  DataOwned'
  <2>1. UNCHANGED <<event_ring, event>> /\ MainHolds' = MainHolds
    BY <1>6 DEF TouchRead, mainVars, MainHolds
  <2>2. CASE UNCHANGED <<live, ev, pc>>
    BY StaysOwned, <2>1, <2>2 DEF DevHolds
  <2>3. ASSUME NEW b \in Block \ live, live' = live \cup {b},
               ev' = [ev EXCEPT ![d] = NewEvent(d, b, v)],
               pc' = [pc EXCEPT ![d] = "lock"]
        PROVE  DataOwned'
    <3>1. ev'[d].data = b /\ \A e \in Device \ {d} : ev'[e] = ev[e] /\ pc'[e] = pc[e]
      BY <1>0, <2>3 DEF NewEvent
    <3> QED
      BY <2>1, <2>3, <3>1, TakesOwned DEF DevHolds
  <2> QED
    BY <1>6, <2>2, <2>3 DEF TouchRead
<1>7. ASSUME NEW d \in Device, SocketAlloc(d)
      PROVE  DataOwned'
  <2>1. UNCHANGED <<event_ring, event>> /\ MainHolds' = MainHolds
    BY <1>7 DEF SocketAlloc, mainVars, MainHolds
  <2>2. PICK b \in Block \ live : live' = live \cup {b} /\ ev' = [ev EXCEPT ![d].data = b]
    BY <1>7 DEF SocketAlloc
  <2>3. ev'[d].data = b
        /\ \A e \in Device \ {d} : ev'[e] = ev[e] /\ pc'[e] = pc[e]
    BY <1>0, <1>7, <2>2 DEF SocketAlloc, Event
  <2> QED
    BY <2>1, <2>2, <2>3, TakesOwned DEF DevHolds
<1>8. ASSUME NEW d \in Device, NEW v \in Val, SocketRecv(d, v)
      PROVE  DataOwned'
  <2>1. /\ UNCHANGED <<event_ring, event, live>> /\ MainHolds' = MainHolds
        /\ pc[d] = "recv" /\ ev'[d].data = ev[d].data
        /\ \A e \in Device \ {d} : ev'[e] = ev[e] /\ pc'[e] = pc[e]
    BY <1>0, <1>8 DEF SocketRecv, mainVars, MainHolds, NewEvent
  <2> QED
    BY StaysOwned, <2>1 DEF DevHolds
<1>9. ASSUME NEW d \in Device, SocketRecvFails(d)
       PROVE  DataOwned'
  <2>1. /\ UNCHANGED <<event_ring, event>> /\ MainHolds' = MainHolds
        /\ live' = live \ {ev[d].data} /\ pc[d] = "recv" /\ pc'[d] = "get"
        /\ \A e \in Device \ {d} : ev'[e] = ev[e] /\ pc'[e] = pc[e]
    BY <1>0, <1>9 DEF SocketRecvFails, mainVars, MainHolds
  <2>2. /\ \A i \in 1 .. event_ring.item_count : Queue[i].data \in live'
        /\ \A e \in Device \ {d} : DevHolds(e) => ev[e].data \in live'
        /\ MainHolds => event.data \in live'
    BY <2>1 DEF DataOwned, DevHolds
  <2> QED
    BY <2>1, <2>2, KeepsOwned DEF DevHolds
<1>10. ASSUME NEW d \in Device, DevLock(d) \/ DevPost(d) \/ DevUnlock(d)
       PROVE  DataOwned'
  <2>1. /\ UNCHANGED <<event_ring, event, live, ev>> /\ MainHolds' = MainHolds
        /\ DevHolds(d)' => DevHolds(d)
        /\ \A e \in Device \ {d} : pc'[e] = pc[e]
    BY <1>0, <1>10 DEF DevLock, DevPost, DevUnlock, mainVars, MainHolds, DevHolds
  <2> QED
    BY StaysOwned, <2>1 DEF DevHolds
<1>11. ASSUME NEW d \in Device, DevPush(d)
       PROVE  DataOwned'
  BY <1>11, PushKeepsOwned
<1>12. CASE UNCHANGED vars
  BY StaysOwned, <1>12 DEF vars, deviceVars, mainVars, DevHolds, MainHolds
<1> QED
  BY <1>1, <1>2, <1>3, <1>4, <1>5, <1>6, <1>7, <1>8, <1>9, <1>10, <1>11, <1>12,
     NextActions

\* Whatever the heap, the ring and the number of devices, a block that a
\* thread, a queued event or main will still read is allocated and has no
\* other owner: nothing is used after it is freed, nor freed twice
\* (touch_screen.c:19, socket_input.c:26 and 39).
THEOREM DataOwnedCorrect == Spec => []DataOwned
BY InitOwned, NextOwned, SafeSoFarHolds, PTL DEF Spec
=============================================================================
