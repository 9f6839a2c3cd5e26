------------------------------ MODULE Animals ------------------------------
(***************************************************************************)
(* The D-Bus example of 03_dbus: the service 01_server with the skeleton   *)
(* that gdbus-codegen made (dbus_animal.c), object manager clients like    *)
(* 02_client_generated_code, callers of the generated proxy, and clients   *)
(* like 03_client_proxy.                                                   *)
(*                                                                         *)
(* Everything the service does runs in its main loop.  GLib queues each    *)
(* incoming call, and the skeleton its announcement of changed properties, *)
(* as sources of one priority, so the main loop is one queue of tasks.     *)
(* The bus delivers to each client in order.  GLib and the bus are         *)
(* external: they are modelled as this code uses them.                     *)
(***************************************************************************)
EXTENDS Naturals, FiniteSets, SequencesExt

CONSTANTS
  Animal, Cat,  \* the exported objects (000 .. 009), and the odd ones
  Watcher,      \* clients with a GDBusObjectManagerClient
  Caller,       \* clients that call through a generated proxy
  Prober,       \* clients like 03_client_proxy
  Target,       \* TARGET_SERVER_OBJ_PATH, the animal they poke
  MaxCalls,     \* bound: calls of all callers together
  MaxStarts     \* bound: how often the service is started

ASSUME AnimalsAssumption ==
  /\ Cat \subseteq Animal /\ Target \in Animal
  /\ Watcher \cap Caller = {} /\ Watcher \cap Prober = {}
  /\ Caller \cap Prober = {}
  /\ MaxCalls \in Nat /\ MaxStarts \in Nat

VARIABLES
  up,           \* the service runs and owns com.test.animal
  starts,       \* how often it was started
  mood,         \* properties[0] of each animal's skeleton
  orig,         \* orig_value of its ChangedProperty, "none" without one
  idle,         \* changed_properties_idle_source # NULL
  loop,         \* the sources of the service's main loop, oldest first
  pc,           \* where each client is
  inbox,        \* what the bus has sent to each client
  view,         \* each watcher's object proxies with their cached values
  sound,        \* the animals whose cached value the service has announced
  calls         \* calls of the callers so far

serverVars == <<up, starts, mood, orig, idle, loop>>
vars == <<serverVars, pc, inbox, view, sound, calls>>

Client == Watcher \cup Caller \cup Prober
Moods  == {"Happy", "Sad"}

\* An object exports the animal interface, and odd ones the cat's.
Interfaces(a) == {"Animal"} \cup (IF a \in Cat THEN {"Cat"} ELSE {})
Object(a, m)  == [mood |-> m, interfaces |-> Interfaces(a)]

Poke(c, a, s, h) == [task |-> "poke", from |-> c, animal |-> a, sad |-> s, happy |-> h]
SetMoodCall(c, a, m) == [task |-> "set", from |-> c, animal |-> a, mood |-> m]
GetManagedObjects(c) == [task |-> "managed", from |-> c]
GetAll(c)            == [task |-> "getall", from |-> c]
EmitChanged(a)       == [task |-> "emit", animal |-> a]

Reply(r)      == [msg |-> "reply", result |-> r]
Owner(b)      == [msg |-> "owner", up |-> b]
Jumped(a)     == [msg |-> "jumped", animal |-> a]
Changed(a, m) == [msg |-> "changed", animal |-> a, mood |-> m]

\* The clients in C that are subscribed: a watcher from the moment its
\* manager is built, a prober (to Jumped alone) once it has its proxy.
Subscribed(C) == {c \in C : pc[c] \in
                   {"found", "asking", "asking again", "ready", "poking"}}
\* Who hears an animal jump: a prober has subscribed to Target's signal alone.
Hearers(a) == Subscribed(Watcher \cup (IF a = Target THEN Prober ELSE {}))
\* Each client c is sent the messages To[c].
Send(To)   == inbox' = [c \in Client |-> inbox[c] \o To[c]]
Answer(c, ms) == Send([d \in Client |-> IF d = c THEN ms ELSE <<>>])
-----------------------------------------------------------------------------
\* Mutant: every change records the value before it.
Schedule_KeepsLast(a) == mood[a]

\* schedule_emit_changed keeps the value from before the first change.
Schedule(a) == IF orig[a] = "none" THEN mood[a] ELSE orig[a]

\* The skeleton's set_property, then notify, which adds the idle source.
\* It runs inside the task at the head of the loop.
SetMood(a, m) ==
  IF mood[a] = m
  THEN /\ loop' = Tail(loop)
       /\ UNCHANGED <<mood, orig, idle>>
  ELSE /\ orig' = [orig EXCEPT ![a] = Schedule(a)]
       /\ mood' = [mood EXCEPT ![a] = m]
       /\ idle' = [idle EXCEPT ![a] = TRUE]
       /\ loop' = Tail(loop) \o (IF idle[a] THEN <<>> ELSE <<EmitChanged(a)>>)

\* Mutant: the goto after the error is missing.
PokeResult_GoesOn(a, s, h) ==
  IF s = h THEN <<"Failed">>
  ELSE IF s /\ mood[a] = "Sad" THEN <<"SadAnimalIsSad", "ok">>
  ELSE IF h /\ mood[a] = "Happy" THEN <<"HappyAnimalIsHappy">>
  ELSE <<"ok">>

\* What on_animal_poke returns to the caller.
PokeResult(a, s, h) ==
  IF s = h THEN <<"Failed">>
  ELSE IF s /\ mood[a] = "Sad" THEN <<"SadAnimalIsSad">>
  ELSE IF h /\ mood[a] = "Happy" THEN <<"HappyAnimalIsHappy">>
  ELSE <<"ok">>

\* A happy animal jumps: every connection is told, before the reply.
OnAnimalPoke(t) ==
  LET result  == PokeResult(t.animal, t.sad, t.happy)
      jumps   == t.happy /\ "ok" \in Range(result)
      hearing == IF jumps THEN Hearers(t.animal) ELSE {}
  IN  /\ IF "ok" \in Range(result)
         THEN SetMood(t.animal, IF t.sad THEN "Sad" ELSE "Happy")
         ELSE loop' = Tail(loop) /\ UNCHANGED <<mood, orig, idle>>
      /\ Send([c \in Client |->
           (IF c \in hearing THEN <<Jumped(t.animal)>> ELSE <<>>) \o
           (IF c = t.from THEN [i \in DOMAIN result |-> Reply(result[i])] ELSE <<>>)])

\* Mutant: Mood is declared readwrite.
MoodWritable_Yes == TRUE

\* Mood has the flag READABLE alone, and GDBus refuses to set it.
MoodWritable == FALSE

SetProperty(t) ==
  IF MoodWritable
  THEN SetMood(t.animal, t.mood) /\ Answer(t.from, <<Reply("ok")>>)
  ELSE /\ loop' = Tail(loop)
       /\ Answer(t.from, <<Reply("InvalidArgs")>>)
       /\ UNCHANGED <<mood, orig, idle>>

\* get_properties reads the values as they are: nothing is flushed first.
GetProperties(t) ==
  /\ Answer(t.from, <<[msg |-> "objects",
                       objects |-> [a \in Animal |-> Object(a, mood[a])],
                       sound |-> {a \in Animal : orig[a] \in {"none", mood[a]}}]>>)
  /\ loop' = Tail(loop)
  /\ UNCHANGED <<mood, orig, idle>>

\* Mutant: the announcement carries the value from before the change.
Announcement_Old(a) == IF mood[a] # orig[a] THEN <<Changed(a, orig[a])>> ELSE <<>>

\* Mutant: changed_properties_idle_source is not reset.
Emit_KeepsSource(a) ==
  /\ Send([c \in Client |-> IF c \in Subscribed(Watcher) /\ mood[a] # orig[a]
                            THEN <<Changed(a, mood[a])>> ELSE <<>>])
  /\ orig' = [orig EXCEPT ![a] = "none"]
  /\ loop' = Tail(loop)
  /\ UNCHANGED <<mood, idle>>

\* emit_changed: a value that is back where it was is not announced.
Announcement(a) == IF mood[a] # orig[a] THEN <<Changed(a, mood[a])>> ELSE <<>>

\* The source removes itself.
Emit(a) ==
  /\ Send([c \in Client |-> IF c \in Subscribed(Watcher) THEN Announcement(a) ELSE <<>>])
  /\ orig' = [orig EXCEPT ![a] = "none"]
  /\ idle' = [idle EXCEPT ![a] = FALSE]
  /\ loop' = Tail(loop)
  /\ UNCHANGED mood

\* One dispatch of the service's main loop.
Dispatch ==
  /\ up /\ loop # <<>>
  /\ LET t == Head(loop) IN
       \/ t.task = "poke" /\ OnAnimalPoke(t)
       \/ t.task = "set"  /\ SetProperty(t)
       \/ t.task \in {"managed", "getall"} /\ GetProperties(t)
       \/ t.task = "emit" /\ Emit(t.animal)
  /\ UNCHANGED <<up, starts, pc, view, sound, calls>>

\* on_bus_aquired makes and exports the animals, before the connection is
\* set, and then the name is owned.
StartServer ==
  /\ ~up /\ starts < MaxStarts
  /\ up' = TRUE /\ starts' = starts + 1
  /\ mood' = [a \in Animal |-> "Happy"]
  /\ orig' = [a \in Animal |-> "none"]
  /\ idle' = [a \in Animal |-> FALSE]
  /\ loop' = <<>>
  /\ Send([c \in Client |-> IF c \in Subscribed(Watcher) THEN <<Owner(TRUE)>> ELSE <<>>])
  /\ UNCHANGED <<pc, view, sound, calls>>

\* The service ends at any time; the bus answers the calls it leaves.
Waiting(c) == \E i \in DOMAIN loop : loop[i].task # "emit" /\ loop[i].from = c

CrashServer ==
  /\ up
  /\ up' = FALSE /\ loop' = <<>>
  /\ Send([c \in Client |->
       (IF Waiting(c) THEN <<Reply("NoReply")>> ELSE <<>>) \o
       (IF c \in Subscribed(Watcher) THEN <<Owner(FALSE)>> ELSE <<>>)])
  /\ UNCHANGED <<starts, mood, orig, idle, pc, view, sound, calls>>
-----------------------------------------------------------------------------
\* g_dbus_proxy_call: to the service, or the bus answers for a name without
\* an owner.
Call(c, t) ==
  IF up THEN loop' = Append(loop, t) /\ UNCHANGED inbox
        ELSE Answer(c, <<Reply("ServiceUnknown")>>) /\ UNCHANGED loop

GoTo(c, place) == pc' = [pc EXCEPT ![c] = place]

\* A manager subscribes and looks for the owner; without one it is empty.
NewManager(w) ==
  /\ pc[w] = "out"
  /\ GoTo(w, IF up THEN "found" ELSE "ready")
  /\ UNCHANGED <<serverVars, inbox, view, sound, calls>>

AskObjects(w) ==
  /\ pc[w] = "found"
  /\ Call(w, GetManagedObjects(w))
  /\ GoTo(w, "asking")
  /\ UNCHANGED <<up, starts, mood, orig, idle, view, sound, calls>>

\* Without objects the constructor fails and main ends the program; a
\* manager that was ready before stays, without objects.
AfterFailure(w) == IF pc[w] = "asking" THEN "ended" ELSE "ready"

\* The call blocks: it takes its reply out from behind older messages, which
\* the main loop delivers later.
TakeObjects(w) ==
  /\ pc[w] \in {"asking", "asking again"}
  /\ \E i \in DOMAIN inbox[w] :
       LET m == inbox[w][i] IN
         /\ m.msg \in {"objects", "reply"}
         /\ IF m.msg = "objects"
            THEN /\ view'  = [view EXCEPT ![w] = m.objects]
                 /\ sound' = [sound EXCEPT ![w] = m.sound]
                 /\ GoTo(w, "ready")
            ELSE /\ GoTo(w, AfterFailure(w))
                 /\ UNCHANGED <<view, sound>>
         /\ inbox' = [inbox EXCEPT ![w] =
              IF pc'[w] = "ended" THEN <<>> ELSE RemoveAt(@, i)]
  /\ UNCHANGED <<serverVars, calls>>

\* Mutant: a change of an object that is not known is recorded.
Apply_Unknown(cache, m) ==
  IF m.msg = "changed"
  THEN [view  |-> (m.animal :> Object(m.animal, m.mood)) @@ cache.view,
        sound |-> cache.sound \cup {m.animal}]
  ELSE IF m.msg = "owner" THEN [view |-> << >>, sound |-> {}]
  ELSE cache

\* What a message does to the cached values of a watcher: a change of an
\* object it has not is ignored, and a jump changes nothing.
Apply(cache, m) ==
  IF m.msg = "changed" /\ m.animal \in DOMAIN cache.view
  THEN [view  |-> [cache.view EXCEPT ![m.animal].mood = m.mood],
        sound |-> cache.sound \cup {m.animal}]
  ELSE IF m.msg = "owner" THEN [view |-> << >>, sound |-> {}]
  ELSE cache

Cache(w) == [view |-> view[w], sound |-> sound[w]]

\* The watcher's main loop.  When the name has a new owner, the manager asks
\* for its objects, and blocks.
Deliver(w) ==
  /\ pc[w] = "ready" /\ inbox[w] # <<>>
  /\ LET m    == Head(inbox[w])
         next == Apply(Cache(w), m)
         rest == [inbox EXCEPT ![w] = Tail(@)]
     IN  /\ view'  = [view EXCEPT ![w] = next.view]
         /\ sound' = [sound EXCEPT ![w] = next.sound]
         /\ IF m = Owner(TRUE)
            THEN /\ GoTo(w, "asking again")
                 /\ IF up
                    THEN loop' = Append(loop, GetManagedObjects(w)) /\ inbox' = rest
                    ELSE /\ inbox' = [rest EXCEPT ![w] = Append(@, Reply("ServiceUnknown"))]
                         /\ UNCHANGED loop
            ELSE inbox' = rest /\ UNCHANGED <<pc, loop>>
  /\ UNCHANGED <<up, starts, mood, orig, idle, calls>>
-----------------------------------------------------------------------------
\* example_animal_call_poke, with any flags, and example_animal_set_mood of a
\* proxy, which calls Properties.Set.
CallPoke(c) ==
  /\ pc[c] = "ready" /\ calls < MaxCalls
  /\ calls' = calls + 1
  /\ \E a \in Animal, s, h \in BOOLEAN : Call(c, Poke(c, a, s, h))
  /\ GoTo(c, "waiting")
  /\ UNCHANGED <<up, starts, mood, orig, idle, view, sound>>

ProxySetMood(c) ==
  /\ pc[c] = "ready" /\ calls < MaxCalls
  /\ calls' = calls + 1
  /\ \E a \in Animal, m \in Moods : Call(c, SetMoodCall(c, a, m))
  /\ GoTo(c, "waiting")
  /\ UNCHANGED <<up, starts, mood, orig, idle, view, sound>>

\* call_poke_finish, or set_property_cb, which only warns.
FinishCall(c) ==
  /\ pc[c] = "waiting" /\ inbox[c] # <<>>
  /\ inbox' = [inbox EXCEPT ![c] = Tail(@)]
  /\ GoTo(c, "ready")
  /\ UNCHANGED <<serverVars, view, sound, calls>>

\* 03_client_proxy makes a proxy, which loads the properties once.  It has no
\* cached names without them, and main reads through the null pointer.
NewProxy(p) ==
  /\ pc[p] = "out"
  /\ IF up THEN loop' = Append(loop, GetAll(p)) /\ GoTo(p, "loading")
           ELSE GoTo(p, "crashed") /\ UNCHANGED loop
  /\ UNCHANGED <<up, starts, mood, orig, idle, inbox, view, sound, calls>>

\* Then it subscribes to Jumped and pokes once, to make the animal sad.
SubscribeAndPoke(p) ==
  /\ pc[p] = "loading" /\ inbox[p] # <<>>
  /\ LET read == [inbox EXCEPT ![p] = Tail(@)] IN
       IF Head(inbox[p]).msg = "reply"
       THEN GoTo(p, "crashed") /\ inbox' = read /\ UNCHANGED loop
       ELSE /\ GoTo(p, "poking")
            /\ IF up
               THEN loop' = Append(loop, Poke(p, Target, TRUE, FALSE)) /\ inbox' = read
               ELSE /\ inbox' = [read EXCEPT ![p] = <<Reply("ServiceUnknown")>>]
                    /\ UNCHANGED loop
  /\ UNCHANGED <<up, starts, mood, orig, idle, view, sound, calls>>

\* on_call_done and signal_received print what came.
Receive(p) ==
  /\ pc[p] \in {"poking", "ready"} /\ inbox[p] # <<>>
  /\ GoTo(p, IF Head(inbox[p]).msg = "reply" THEN "ready" ELSE pc[p])
  /\ inbox' = [inbox EXCEPT ![p] = Tail(@)]
  /\ UNCHANGED <<serverVars, view, sound, calls>>
-----------------------------------------------------------------------------
Init ==
  /\ up = FALSE /\ starts = 0
  /\ mood = [a \in Animal |-> "Happy"]
  /\ orig = [a \in Animal |-> "none"]
  /\ idle = [a \in Animal |-> FALSE]
  /\ loop = <<>>
  /\ pc = [c \in Client |-> IF c \in Caller THEN "ready" ELSE "out"]
  /\ inbox = [c \in Client |-> <<>>]
  /\ view = [w \in Watcher |-> << >>]
  /\ sound = [w \in Watcher |-> {}]
  /\ calls = 0

WatcherStep(w) == NewManager(w) \/ AskObjects(w) \/ TakeObjects(w) \/ Deliver(w)
ProberStep(p)  == NewProxy(p) \/ SubscribeAndPoke(p) \/ Receive(p)

Next ==
  \/ Dispatch \/ StartServer \/ CrashServer
  \/ \E w \in Watcher : WatcherStep(w)
  \/ \E c \in Caller : CallPoke(c) \/ ProxySetMood(c) \/ FinishCall(c)
  \/ \E p \in Prober : ProberStep(p)

\* Main loops run while they have something to do.  Nobody must start, end or
\* call anything.
Fairness ==
  /\ WF_vars(Dispatch)
  /\ \A w \in Watcher : /\ WF_vars(AskObjects(w))
                        /\ WF_vars(TakeObjects(w))
                        /\ WF_vars(Deliver(w))

-----------------------------------------------------------------------------
\* One type invariant: every variable of the service, the bus and the clients
\* has its type.
AnimalsTypeOK ==
  /\ up \in BOOLEAN /\ starts \in 0 .. MaxStarts /\ calls \in 0 .. MaxCalls
  /\ mood \in [Animal -> Moods]
  /\ orig \in [Animal -> Moods \cup {"none"}]
  /\ idle \in [Animal -> BOOLEAN]
  /\ pc \in [Client -> {"out", "found", "asking", "asking again", "ready", "ended",
                        "waiting", "loading", "poking", "crashed"}]
  /\ DOMAIN inbox = Client
  /\ \A w \in Watcher : /\ DOMAIN view[w] \in {{}, Animal}
                        /\ sound[w] \subseteq DOMAIN view[w]

\* Every call is answered exactly once, by its handler or, when the service
\* is gone, by the bus: a client that waits has one call in the main loop or
\* one answer in its inbox, and no other client has either.
InCall(c) == pc[c] \in {"asking", "asking again", "waiting", "loading", "poking"}
IsAnswer(m) == m.msg \in {"reply", "objects"}

AnsweredOnce ==
  \A c \in Client :
    LET open    == {i \in DOMAIN loop : loop[i].task # "emit" /\ loop[i].from = c}
        answers == {i \in DOMAIN inbox[c] : IsAnswer(inbox[c][i])}
    IN  Cardinality(open) + Cardinality(answers) = IF InCall(c) THEN 1 ELSE 0

\* What the service has told about an animal.
Announced(a) == IF orig[a] = "none" THEN mood[a] ELSE orig[a]
\* The messages that change what a watcher holds: of an animal, and of all.
IsChange(m, a) == m.msg = "changed" /\ m.animal = a
NewsOf(w, a)   == {i \in DOMAIN inbox[w] : IsChange(inbox[w][i], a)}
NewsOfOwner(w) == \E i \in DOMAIN inbox[w] : inbox[w][i].msg = "owner"

\* A watcher's proxies follow the service: when it has read its messages it
\* has the objects if and only if the service runs, with their interfaces,
\* and each value it holds is the one announced, unless its snapshot was
\* taken between a change and the announcement of it.
ViewFollowsService ==
  \A w \in Watcher : (pc[w] = "ready" /\ ~NewsOfOwner(w)) =>
    /\ DOMAIN view[w] = IF up THEN Animal ELSE {}
    /\ \A a \in DOMAIN view[w] :
         /\ view[w][a].interfaces = Interfaces(a)
         /\ \A i \in NewsOf(w, a) :
              (\A j \in NewsOf(w, a) : j <= i) => inbox[w][i].mood = Announced(a)
         /\ NewsOf(w, a) = {} /\ a \in sound[w] => view[w][a].mood = Announced(a)

\* The service announces a property only when it has changed since the last
\* announcement: no watcher is sent the same mood of an animal twice running.
ChangesAlternate ==
  \A w \in Watcher : \A i, j \in DOMAIN inbox[w] :
    LET x == inbox[w][i]  y == inbox[w][j] IN
      (i < j /\ x.msg = "changed" /\ y.msg = "changed" /\ x.animal = y.animal) =>
        \/ x.mood # y.mood
        \/ \E k \in i + 1 .. j - 1 :
             \/ inbox[w][k].msg = "owner"
             \/ inbox[w][k].msg = "changed" /\ inbox[w][k].animal = x.animal

\* While the service runs, a mood changes only in a step that answers a Poke
\* of that animal with success: no proxy's set_mood changes it.
MoodChangesByPoke ==
  [][\A a \in Animal : (starts' = starts /\ mood'[a] # mood[a]) =>
       /\ Head(loop).task = "poke" /\ Head(loop).animal = a
       /\ Last(inbox'[Head(loop).from]) = Reply("ok")]_vars

\* When calls, starts and crashes have ended, every watcher that runs ends up
\* with the moods of the service, unless its snapshot was unsound.
InStep(w) ==
  /\ pc[w] = "ready"
  /\ \A a \in sound[w] : up /\ view[w][a].mood = mood[a]
  /\ up => DOMAIN view[w] = Animal
WatchersCatchUp ==
  \A w \in Watcher : <>[](pc[w] \in {"out", "ended"} \/ InStep(w))

\* What the comment on ExampleAnimal:mood promises (dbus_animal.c:318, the
\* mood is meaningful to read on the client side): a watcher that has read
\* its messages, from a service with nothing to do, has the service's moods.
ClientReadsMood ==
  \A w \in Watcher :
    (pc[w] = "ready" /\ inbox[w] = <<>> /\ up /\ loop = <<>>) =>
      \A a \in DOMAIN view[w] : view[w][a].mood = mood[a]
-----------------------------------------------------------------------------
Spec     == Init /\ [][Next]_vars
FairSpec == Spec /\ Fairness
=============================================================================
