------------------------------ MODULE InputMgr ------------------------------
(***************************************************************************)
(* The input manager (input_mgr/input_mgr.c) with the touch screen and the *)
(* UDP socket below it: one thread per device that waits for an input,     *)
(* puts it in the shared ring under the mutex and posts the semaphore, and *)
(* the main thread, which registers and starts the devices and then takes  *)
(* events out with inputmgr_get_event.                                     *)
(*                                                                         *)
(* A step of a thread ends where another thread can see a difference: a    *)
(* lock, an access to the ring, a semaphore operation, an allocation.      *)
(* What the caller of inputmgr_get_event does with an event is Use, which  *)
(* ProductionTool replaces by the main page.  Main never calls             *)
(* inputmgr_deinit.                                                        *)
(***************************************************************************)
EXTENDS RingBuf, FiniteSets

CONSTANTS
  TouchDevs,    \* devices of touch_screen.c (the program has one)
  SocketDevs,   \* devices of socket_input.c (the program has one)
  Val,          \* what an input says, as far as the caller can tell
  Block,        \* the heap: what malloc and calloc can hand out
  MaxEvents,    \* bound: inputs that reach one device
  Main,         \* the main thread
  NULL

Device == TouchDevs \cup SocketDevs
Thread == Device \cup {Main}

ASSUME DeviceAssumption ==
  /\ TouchDevs \cap SocketDevs = {}
  /\ Main \notin Device
  /\ NULL \notin Thread
  /\ NULL \notin Block
ASSUME MaxEventsAssumption == MaxEvents \in Nat \ {0}

\* struct input_event.  `time' tells the inputs of one device apart; `data'
\* points to a heap block, whose content is `val'.
Event == [dev  : Device \cup {NULL},
          time : 0 .. MaxEvents,
          data : Block \cup {NULL},
          val  : Val \cup {NULL}]

ZeroEvent == [dev |-> NULL, time |-> 0, data |-> NULL, val |-> NULL]

VARIABLES
  input_dev,    \* the registered devices, last registered first
  tmp,          \* what inputmgr_init_all_devices has still to walk
  mutex,        \* the thread that holds it, or NULL
  sem,          \* the semaphore's value
  event_ring,   \* RING_BUF_DEF_STATIC(event, 20, ...)
  live,         \* heap blocks allocated and not freed
  clock,        \* how many inputs each device has read
  pc, ev,       \* each device thread: where it is, its local input_event
  mpc, event,   \* the main thread: where it is, its input_event
  err,          \* what inputmgr_get_event last returned
  delivered     \* time of the last event of each device given to main

\* Parts of the state that change together.
mainVars   == <<mpc, event, err, delivered>>
deviceVars == <<clock, pc, ev>>
setupVars  == <<input_dev, tmp>>
vars == <<setupVars, mutex, sem, event_ring, live, deviceVars, mainVars>>

DevPC  == {"off", "get", "recv", "lock", "push", "post", "unlock"}
MainPC == {"init", "register", "init_all", "sem_wait", "lock", "pop",
           "unlock", "use"}

\* A device thread is between its pthread_mutex_lock and unlock.
DevInside(d) == pc[d] \in {"push", "post", "unlock"}
MainInside   == mpc \in {"pop", "unlock"}

Init ==
  /\ input_dev = <<>>
  /\ tmp = <<>>
  /\ mutex = NULL
  /\ sem = 0
  /\ event_ring = RING_BUF_DEF(ZeroEvent)
  /\ live = {}
  /\ clock = [d \in Device |-> 0]
  /\ pc = [d \in Device |-> "off"]
  /\ ev = [d \in Device |-> ZeroEvent]
  /\ mpc = "init"
  /\ event = ZeroEvent
  /\ err = 0
  /\ delivered = [d \in Device |-> 0]

-----------------------------------------------------------------------------
(* The main thread brings the devices up.                                  *)

inputmgr_init ==
  /\ mpc = "init"
  /\ sem' = 0
  /\ mpc' = "register"
  /\ UNCHANGED <<setupVars, mutex, event_ring, live, deviceVars, event, err,
                 delivered>>

Registered == {input_dev[i] : i \in DOMAIN input_dev}

\* touchscreen_init and socket_input_init, in the order of the link; a device
\* goes to the front of the list.
inputmgr_resigter(d) ==
  /\ mpc = "register"
  /\ d \notin Registered
  /\ input_dev' = <<d>> \o input_dev
  /\ UNCHANGED <<tmp, mutex, sem, event_ring, live, deviceVars, mainVars>>

StartInitAll ==
  /\ mpc = "register"
  /\ Registered = Device
  /\ tmp' = input_dev
  /\ mpc' = "init_all"
  /\ UNCHANGED <<input_dev, mutex, sem, event_ring, live, deviceVars, event,
                 err, delivered>>

\* mutant: walks on after a device only when its thread could not be started
InitDevice_StaysOnStarted ==
  /\ mpc = "init_all"
  /\ tmp # <<>>
  /\ \E started \in BOOLEAN :
       /\ pc' = IF started THEN [pc EXCEPT ![Head(tmp)] = "get"] ELSE pc
       /\ tmp' = IF started THEN tmp ELSE Tail(tmp)
  /\ UNCHANGED <<input_dev, mutex, sem, event_ring, live, clock, ev, mainVars>>

\* One round of the loop.  A device that fails to open, or whose thread fails
\* to start, is skipped; the loop goes on and still returns 0.
InitDevice ==
  /\ mpc = "init_all"
  /\ tmp # <<>>
  /\ tmp' = Tail(tmp)
  /\ \E started \in BOOLEAN :
       pc' = IF started THEN [pc EXCEPT ![Head(tmp)] = "get"] ELSE pc
  /\ UNCHANGED <<input_dev, mutex, sem, event_ring, live, clock, ev, mainVars>>

EndInitAll ==
  /\ mpc = "init_all"
  /\ tmp = <<>>
  /\ mpc' = "sem_wait"
  /\ UNCHANGED <<setupVars, mutex, sem, event_ring, live, deviceVars, event,
                 err, delivered>>

-----------------------------------------------------------------------------
(* get_event of each device.                                               *)

NewEvent(d, block, v) ==
  [dev |-> d, time |-> clock[d] + 1, data |-> block, val |-> v]

\* touch_screen.c: ts_read hands over a sample, then malloc.  Without memory
\* the sample is gone.  (A failing ts_read only makes the loop go round.)
TouchRead(d, v) ==
  /\ pc[d] = "get"
  /\ clock[d] < MaxEvents
  /\ clock' = [clock EXCEPT ![d] = @ + 1]
  /\ \/ \E b \in Block \ live :
          /\ live' = live \cup {b}
          /\ ev' = [ev EXCEPT ![d] = NewEvent(d, b, v)]
          /\ pc' = [pc EXCEPT ![d] = "lock"]
     \/ /\ Block = live
        /\ UNCHANGED <<live, ev, pc>>
  /\ UNCHANGED <<setupVars, mutex, sem, event_ring, mainVars>>

\* socket_input.c: calloc comes before recvfrom, so a thread that waits for a
\* datagram holds a block.  (Without memory the loop spins.)
SocketAlloc(d) ==
  /\ pc[d] = "get"
  /\ \E b \in Block \ live :
       /\ live' = live \cup {b}
       /\ ev' = [ev EXCEPT ![d].data = b]
  /\ pc' = [pc EXCEPT ![d] = "recv"]
  /\ UNCHANGED <<setupVars, mutex, sem, event_ring, clock, mainVars>>

SocketRecv(d, v) ==
  /\ pc[d] = "recv"
  /\ clock[d] < MaxEvents
  /\ clock' = [clock EXCEPT ![d] = @ + 1]
  /\ ev' = [ev EXCEPT ![d] = NewEvent(d, ev[d].data, v)]
  /\ pc' = [pc EXCEPT ![d] = "lock"]
  /\ UNCHANGED <<setupVars, mutex, sem, event_ring, live, mainVars>>

\* recvfrom fails or gives an empty datagram: the block is freed again.
SocketRecvFails(d) ==
  /\ pc[d] = "recv"
  /\ live' = live \ {ev[d].data}
  /\ ev' = [ev EXCEPT ![d].data = NULL]
  /\ pc' = [pc EXCEPT ![d] = "get"]
  /\ UNCHANGED <<setupVars, mutex, sem, event_ring, clock, mainVars>>

-----------------------------------------------------------------------------
(* start_listen_to_input_dev, after a get_event that returned 0.           *)

\* mutant: enters without waiting for the mutex
DevLock_Barges(d) ==
  /\ pc[d] = "lock"
  /\ mutex' = d
  /\ pc' = [pc EXCEPT ![d] = "push"]
  /\ UNCHANGED <<setupVars, sem, event_ring, live, clock, ev, mainVars>>

DevLock(d) ==
  /\ pc[d] = "lock"
  /\ mutex = NULL
  /\ mutex' = d
  /\ pc' = [pc EXCEPT ![d] = "push"]
  /\ UNCHANGED <<setupVars, sem, event_ring, live, clock, ev, mainVars>>

\* A full ring refuses the event: it is logged and forgotten, its block never
\* freed, and the thread goes on to post the semaphore all the same.
DevPush(d) ==
  /\ pc[d] = "push"
  /\ event_ring' = ringbuf_push(event_ring, ev[d]).buf
  /\ pc' = [pc EXCEPT ![d] = "post"]
  /\ UNCHANGED <<setupVars, mutex, sem, live, clock, ev, mainVars>>

\* mutant: posts only when the ring was empty before the push
DevPost_WhenWasEmpty(d) ==
  /\ pc[d] = "post"
  /\ sem' = IF event_ring.item_count = 1 THEN sem + 1 ELSE sem
  /\ pc' = [pc EXCEPT ![d] = "unlock"]
  /\ UNCHANGED <<setupVars, mutex, event_ring, live, clock, ev, mainVars>>

DevPost(d) ==
  /\ pc[d] = "post"
  /\ sem' = sem + 1
  /\ pc' = [pc EXCEPT ![d] = "unlock"]
  /\ UNCHANGED <<setupVars, mutex, event_ring, live, clock, ev, mainVars>>

\* mutant: goes back to push the same event again
DevUnlock_PushesAgain(d) ==
  /\ pc[d] = "unlock"
  /\ mutex' = NULL
  /\ pc' = [pc EXCEPT ![d] = "lock"]
  /\ UNCHANGED <<setupVars, sem, event_ring, live, clock, ev, mainVars>>

\* mutant: frees the data of the event it has queued
DevUnlock_FreesData(d) ==
  /\ pc[d] = "unlock"
  /\ mutex' = NULL
  /\ live' = live \ {ev[d].data}
  /\ pc' = [pc EXCEPT ![d] = "get"]
  /\ UNCHANGED <<setupVars, sem, event_ring, clock, ev, mainVars>>

DevUnlock(d) ==
  /\ pc[d] = "unlock"
  /\ mutex' = NULL
  /\ pc' = [pc EXCEPT ![d] = "get"]
  /\ UNCHANGED <<setupVars, sem, event_ring, live, clock, ev, mainVars>>

-----------------------------------------------------------------------------
(* inputmgr_get_event, and what its caller does.                           *)

MainSemWait ==
  /\ mpc = "sem_wait"
  /\ sem > 0
  /\ sem' = sem - 1
  /\ mpc' = "lock"
  /\ UNCHANGED <<setupVars, mutex, event_ring, live, deviceVars, event, err,
                 delivered>>

MainLock ==
  /\ mpc = "lock"
  /\ mutex = NULL
  /\ mutex' = Main
  /\ mpc' = "pop"
  /\ UNCHANGED <<setupVars, sem, event_ring, live, deviceVars, event, err,
                 delivered>>

MainPop ==
  /\ mpc = "pop"
  /\ LET r == ringbuf_pop(event_ring, event) IN
       /\ event_ring' = r.buf
       /\ event' = r.data
       /\ err' = r.ret
       /\ delivered' = IF r.ret = 0
                         THEN [delivered EXCEPT ![r.data.dev] = r.data.time]
                         ELSE delivered
  /\ mpc' = "unlock"
  /\ UNCHANGED <<setupVars, mutex, sem, live, deviceVars>>

\* mutant: on an error pops again, without unlocking
MainUnlock_RetriesPop ==
  /\ mpc = "unlock"
  /\ mutex' = IF err = 0 THEN NULL ELSE mutex
  /\ mpc' = IF err = 0 THEN "use" ELSE "pop"
  /\ UNCHANGED <<setupVars, sem, event_ring, live, deviceVars, event, err,
                 delivered>>

\* The caller takes an error as no event and asks again.
MainUnlock ==
  /\ mpc = "unlock"
  /\ mutex' = NULL
  /\ mpc' = IF err = 0 THEN "use" ELSE "sem_wait"
  /\ UNCHANGED <<setupVars, sem, event_ring, live, deviceVars, event, err,
                 delivered>>

\* The caller reads the event; a report it may give back with data_used, as
\* test_input_mgr.c does and main_page.c only for an unknown name.
Use ==
  /\ mpc = "use"
  /\ \/ UNCHANGED live
     \/ event.dev \in SocketDevs /\ live' = live \ {event.data}
  /\ mpc' = "sem_wait"
  /\ UNCHANGED <<setupVars, mutex, sem, event_ring, deviceVars, event, err,
                 delivered>>

-----------------------------------------------------------------------------
SetupStep ==
  \/ inputmgr_init
  \/ \E d \in Device : inputmgr_resigter(d)
  \/ StartInitAll
  \/ InitDevice
  \/ EndInitAll

InputArrives ==
  \/ \E d \in TouchDevs, v \in Val : TouchRead(d, v)
  \/ \E d \in SocketDevs, v \in Val : SocketRecv(d, v)
  \/ \E d \in SocketDevs : SocketRecvFails(d)

\* The part of a device thread that does not wait for an input.
DevStep(d) ==
  \/ d \in SocketDevs /\ SocketAlloc(d)
  \/ DevLock(d)
  \/ DevPush(d)
  \/ DevPost(d)
  \/ DevUnlock(d)

inputmgr_get_event ==
  \/ MainSemWait
  \/ MainLock
  \/ MainPop
  \/ MainUnlock

\* Every thread waits for an input, for memory or for a token: the program is
\* idle, not stuck.
Idle ==
  /\ mpc = "sem_wait" /\ sem = 0
  /\ \A d \in Device : pc[d] \in {"off", "get", "recv"}
  /\ UNCHANGED vars

MainStep == SetupStep \/ inputmgr_get_event \/ Use

Next == MainStep \/ InputArrives \/ (\E d \in Device : DevStep(d)) \/ Idle

Spec == Init /\ [][Next]_vars

-----------------------------------------------------------------------------
(* Properties.                                                             *)

\* Every variable keeps its type: in particular the ring's indexes stay in the
\* data area although several threads move them (input_mgr.c:26, 93).
TypeOK ==
  /\ input_dev \in Seq(Device) /\ tmp \in Seq(Device)
  /\ mutex \in Thread \cup {NULL}
  /\ sem \in Nat
  /\ event_ring \in RingBufOf(Event)
  /\ live \subseteq Block
  /\ clock \in [Device -> 0 .. MaxEvents]
  /\ pc \in [Device -> DevPC]
  /\ ev \in [Device -> Event]
  /\ mpc \in MainPC
  /\ event \in Event
  /\ err \in {0, -1}
  /\ delivered \in [Device -> 0 .. MaxEvents]

\* The walk of inputmgr_init_all_devices only ever meets devices whose thread
\* does not run, while the threads it has started already do (input_mgr.c:70).
StartedOnce ==
  /\ mpc \in {"init", "register"} => \A d \in Device : pc[d] = "off"
  /\ \A i, j \in 1 .. Len(input_dev) : input_dev[i] = input_dev[j] => i = j
  /\ mpc = "init_all" =>
       /\ \A i \in 1 .. Len(tmp) : pc[tmp[i]] = "off"
       /\ \A i, j \in 1 .. Len(tmp) : tmp[i] = tmp[j] => i = j

\* The ring, which has no lock of its own, and the semaphore post are touched
\* by one thread at a time (input_mgr.c:24-30, 91-98), and the mutex always
\* belongs to exactly the thread that is inside.
MutualExclusion ==
  /\ \A d \in Device : DevInside(d) <=> mutex = d
  /\ MainInside <=> mutex = Main

\* A wake-up main has taken and not used, one a device has still to post.
Taken == IF mpc \in {"lock", "pop"} THEN 1 ELSE 0
Owed  == IF \E d \in Device : pc[d] = "post" THEN 1 ELSE 0

\* Wake-ups that no queued event stands behind.
Surplus == sem + Taken + Owed - event_ring.item_count

\* No wake-up is lost: an event in the ring has a token that will make main
\* fetch it, at every point between the push, the post and the wait
\* (input_mgr.c:26-29, 90-93).
NoLostWakeup == Surplus >= 0

Queue == QueueOf(event_ring)

\* The inputs of one device stay in the order they were read, and none is in
\* the system twice, from the thread that holds it through the ring to main.
InputsInOrder ==
  /\ \A i \in 1 .. event_ring.item_count :
       /\ Queue[i].dev \in Device
       /\ delivered[Queue[i].dev] < Queue[i].time
       /\ Queue[i].time <= clock[Queue[i].dev]
       /\ \A j \in 1 .. (i - 1) :
            Queue[j].dev = Queue[i].dev => Queue[j].time < Queue[i].time
  /\ \A d \in Device :
       /\ delivered[d] <= clock[d]
       /\ pc[d] \in {"lock", "push"} =>
            /\ ev[d].dev = d
            /\ ev[d].time = clock[d]
            /\ delivered[d] < clock[d]
            /\ \A i \in 1 .. event_ring.item_count :
                 Queue[i].dev = d => Queue[i].time < ev[d].time

\* inputmgr_get_event never hands over an input twice, nor one that is older
\* than what the same device has delivered (input_mgr.c:88-95).
DeliveredOnceInOrder ==
  [][mpc = "pop" /\ mpc' = "unlock" /\ err' = 0
       => event'.time > delivered[event'.dev]]_vars

\* Who still has a pointer to a heap block that it will use.
DevHolds(d) == pc[d] \in {"recv", "lock", "push"}
MainHolds   == mpc = "use" \/ (mpc = "unlock" /\ err = 0)

\* A block that a thread, a queued event or main will still read is allocated,
\* and no two of them have the same one: nothing is used after it is freed nor
\* freed twice (touch_screen.c:19, socket_input.c:26 and 39, input_mgr.h:60).
DataOwned ==
  /\ \A i \in 1 .. event_ring.item_count :
       /\ Queue[i].data \in live
       /\ \A j \in 1 .. (i - 1) : Queue[j].data # Queue[i].data
       /\ \A d \in Device : DevHolds(d) => ev[d].data # Queue[i].data
       /\ MainHolds => event.data # Queue[i].data
  /\ \A d \in Device : DevHolds(d) =>
       /\ ev[d].data \in live
       /\ \A c \in Device \ {d} : DevHolds(c) => ev[c].data # ev[d].data
       /\ MainHolds => event.data # ev[d].data
  /\ MainHolds => event.data \in live

Channel == INSTANCE EventChannel WITH
             Capacity <- NumItemMax, NoEvent <- ZeroEvent,
             queue <- Queue, surplus <- Surplus

\* To its caller the input manager is a queue that loses events only when it
\* is full, and whose get fails at most once for each event lost.
ImplementsChannel == Channel!Spec

Queued(d, t) ==
  \E i \in 1 .. event_ring.item_count : Queue[i].dev = d /\ Queue[i].time = t

\* An event that got into the ring reaches main, whatever the other threads
\* do and however often a get fails in between (input_mgr.c:88-100).
QueuedIsDelivered ==
  \A d \in Device : \A t \in 1 .. MaxEvents :
    Queued(d, t) ~> (delivered[d] = t)

\* A device thread that has read an input always comes back for the next one:
\* whoever is inside gives the mutex back on every path, also main when it has
\* found no event (input_mgr.c:24-30, 91-98).
DeviceComesBack == \A d \in Device : pc[d] = "lock" ~> pc[d] = "get"
=============================================================================
