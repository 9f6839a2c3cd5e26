--------------------------- MODULE ProductionTool ---------------------------
(***************************************************************************)
(* The program: the input manager with the main page as its caller         *)
(* (ui/pages/main_page.c), the shared framebuffer, and the processes that  *)
(* a press on a command button forks.                                      *)
(*                                                                         *)
(* A child of fork runs the script with system() and then returns, from    *)
(* btn_on_press into run_page: it goes on as a second main thread, with    *)
(* its own copy of the semaphore, the mutex, the ring and the buttons, no  *)
(* device threads, and the same framebuffer.  What the child does with its *)
(* private memory no one else sees, so one get of a child is one step.     *)
(*                                                                         *)
(* The framebuffer is abstracted to what a reader of the screen sees of    *)
(* each button: the colour of its region and the texts drawn on it since   *)
(* the region was last filled.  Regions of different buttons are disjoint. *)
(***************************************************************************)
EXTENDS InputMgr

CONSTANTS
  Button,       \* the buttons that config.conf defines
  CanBePress,   \* those with can_be_press set
  HasCommand,   \* those with a command
  Nowhere,      \* a touch that hits no button, or a release
  Unknown,      \* a name that no button has
  Progress,     \* statuses that begin with a digit
  Script,       \* the statuses that the script of a button reports, in order
  External,     \* datagrams that other programs may send at any time
  MaxForks      \* bound: processes the system lets the tool have

Status == {"ok", "failed"} \cup Progress
Report == [name : Button \cup {Unknown}, status : Status \cup {"missing"}]

Kid   == 1 .. MaxForks
Color == {"DEFAULT_BUTTON", "BTN_PRESSED", "CMD_START", "CMD_IN_PROGRESS"}
Text  == Button \cup Status

\* One call of dismgr_draw_region and the dismgr_draw_text_in_region after it.
Job == [button : Button, color : Color, text : Text]

ASSUME PageAssumption ==
  /\ CanBePress \subseteq Button /\ HasCommand \subseteq Button
  /\ Nowhere \notin Button /\ Unknown \notin Button
  /\ NULL \notin Button /\ NULL \notin Job
  /\ {"ok", "failed"} \cap Progress = {}
  /\ Script \in [HasCommand -> Seq(Status)]
  /\ External \subseteq Report
  /\ Val = Button \cup {Nowhere} \cup Report
  /\ MaxForks \in Nat

VARIABLES
  ppc,      \* the main thread within run_page, while mpc is "use"
  job,      \* what it is painting
  pressed,  \* is_pressed of every button
  fb,       \* what each button looks like on the screen
  kids,     \* the forked processes, or NULL for a slot not used
  net       \* reports of the scripts on their way to the socket

pageVars == <<ppc, job, pressed, fb, kids, net>>
toolVars == <<vars, pageVars>>

ToolInit ==
  /\ Init
  /\ ppc = "start"
  /\ job = NULL
  /\ pressed = [b \in Button |-> FALSE]
  /\ fb = [b \in Button |-> [color |-> "DEFAULT_BUTTON", text |-> {}]]
  /\ kids = [k \in Kid |-> NULL]
  /\ net = {}

-----------------------------------------------------------------------------
(* What an event does, for whichever process handles it.                   *)

\* mutant: looks for the button of a report among those that can be pressed
get_button_by_event_Pressable(e) ==
  LET target == IF e.dev \in TouchDevs THEN e.val ELSE e.val.name
  IN  IF target \in CanBePress THEN target ELSE NULL

\* A touch is for the first button whose region it hits, if it presses at all;
\* a report for the button it names.
get_button_by_event(e) ==
  LET target == IF e.dev \in TouchDevs THEN e.val ELSE e.val.name
  IN  IF target \in Button THEN target ELSE NULL

Looks(b, color, text) == [button |-> b, color |-> color, text |-> text]

\* How a report makes its button look.
ReportLooks(b, status) ==
  CASE status = "ok"          -> Looks(b, "BTN_PRESSED", b)
    [] status \in Progress    -> Looks(b, "CMD_IN_PROGRESS", status)
    [] OTHER                  -> Looks(b, "DEFAULT_BUTTON", b)

\* mutant: takes the colour from what the button was before the press
ManualLooks_BeforePress(b, p) ==
  Looks(b, IF p[b] THEN "BTN_PRESSED" ELSE "DEFAULT_BUTTON", b)

\* How a press turns a button without a command, given is_pressed before it.
ManualLooks(b, p) ==
  Looks(b, IF p[b] THEN "DEFAULT_BUTTON" ELSE "BTN_PRESSED", b)

\* btn_on_press up to the painting: what becomes of is_pressed, what is to be
\* painted (NULL: nothing) and whether the process forks first.  When the
\* report has no status, sscanf leaves the local buffer as it was, and it may
\* hold anything.
btn_on_press(e, p) ==
  LET b == get_button_by_event(e) IN
  IF e.dev \in TouchDevs
    THEN IF b \notin CanBePress
           THEN {[pressed |-> p, job |-> NULL, forks |-> FALSE]}
         ELSE IF b \in HasCommand
           THEN {[pressed |-> p, job |-> Looks(b, "DEFAULT_BUTTON", b),
                  forks |-> TRUE]}
           ELSE {[pressed |-> [p EXCEPT ![b] = ~ @], job |-> ManualLooks(b, p),
                  forks   |-> FALSE]}
    ELSE {[pressed |-> p, job |-> ReportLooks(b, s), forks |-> FALSE] :
            s \in IF e.val.status = "missing" THEN Status ELSE {e.val.status}}

\* mutant: sets the colour around the text that is there
Filled_KeepsText(screen, j) == [screen EXCEPT ![j.button].color = j.color]

\* dismgr_draw_region, and dismgr_draw_text_in_region on top of what is there.
Filled(screen, j)  == [screen EXCEPT ![j.button] = [color |-> j.color, text |-> {}]]
Written(screen, j) == [screen EXCEPT ![j.button].text = @ \cup {j.text}]

\* mutant: the child takes the token of the press once more
Forked_TakesToken(m, e) ==
  [st |-> "script", cmd |-> e.val, touch |-> e.time, script |-> Script[e.val],
   sem |-> m.sem - 1, mutex |-> m.mutex, ring |-> m.ring, event |-> e,
   pressed |-> m.pressed, job |-> NULL]

\* The child of a process with memory m that handles the press e.
Forked(m, e) ==
  [st |-> "script", cmd |-> e.val, touch |-> e.time, script |-> Script[e.val],
   sem |-> m.sem, mutex |-> m.mutex, ring |-> m.ring, event |-> e,
   pressed |-> m.pressed, job |-> NULL]

FreeKids(ks) == {k \in Kid : ks[k] = NULL}

\* fork: a child in a free slot, or a failure when there is none, which the
\* code takes for the parent's side.
AfterFork(ks, m, e) ==
  IF FreeKids(ks) = {} THEN {ks}
  ELSE {[ks EXCEPT ![k] = Forked(m, e)] : k \in FreeKids(ks)}

-----------------------------------------------------------------------------
(* run_page in the main thread.                                            *)

\* generate_buttons, while the device threads are already at work.
PageStart ==
  /\ mpc = "sem_wait" /\ ppc = "start"
  /\ fb' = [b \in Button |-> [color |-> "DEFAULT_BUTTON", text |-> {b}]]
  /\ ppc' = "handle"
  /\ UNCHANGED <<vars, job, pressed, kids, net>>

\* No button: a report is given back, a touch is forgotten.
PageIgnores ==
  /\ mpc = "use" /\ ppc = "handle"
  /\ get_button_by_event(event) = NULL
  /\ live' = IF event.dev \in SocketDevs THEN live \ {event.data} ELSE live
  /\ mpc' = "sem_wait"
  /\ UNCHANGED <<setupVars, mutex, sem, event_ring, deviceVars, event, err,
                 delivered, pageVars>>

\* mutant: forks again until it succeeds
PageHandles_RetriesFork ==
  /\ mpc = "use" /\ ppc = "handle"
  /\ get_button_by_event(event) # NULL
  /\ \E o \in btn_on_press(event, pressed) :
       IF o.forks /\ FreeKids(kids) = {}
       THEN UNCHANGED <<mpc, ppc, job, pressed, kids>>
       ELSE /\ pressed' = o.pressed
            /\ kids' \in IF o.forks
                           THEN AfterFork(kids, [sem |-> sem, mutex |-> mutex,
                                                 ring |-> event_ring,
                                                 pressed |-> pressed], event)
                           ELSE {kids}
            /\ IF o.job = NULL
                 THEN mpc' = "sem_wait" /\ UNCHANGED <<ppc, job>>
                 ELSE ppc' = "region" /\ job' = o.job /\ UNCHANGED mpc
  /\ UNCHANGED <<setupVars, mutex, sem, event_ring, live, deviceVars, event,
                 err, delivered, fb, net>>

\* The button's on_press, up to the painting.  The event's data is never freed.
PageHandles ==
  /\ mpc = "use" /\ ppc = "handle"
  /\ get_button_by_event(event) # NULL
  /\ \E o \in btn_on_press(event, pressed) :
       /\ pressed' = o.pressed
       /\ kids' \in IF o.forks
                      THEN AfterFork(kids, [sem |-> sem, mutex |-> mutex,
                                            ring |-> event_ring,
                                            pressed |-> pressed], event)
                      ELSE {kids}
       /\ IF o.job = NULL
            THEN mpc' = "sem_wait" /\ UNCHANGED <<ppc, job>>
            ELSE ppc' = "region" /\ job' = o.job /\ UNCHANGED mpc
  /\ UNCHANGED <<setupVars, mutex, sem, event_ring, live, deviceVars, event,
                 err, delivered, fb, net>>

PageFills ==
  /\ mpc = "use" /\ ppc = "region"
  /\ fb' = Filled(fb, job)
  /\ ppc' = "text"
  /\ UNCHANGED <<vars, job, pressed, kids, net>>

PageWrites ==
  /\ mpc = "use" /\ ppc = "text"
  /\ fb' = Written(fb, job)
  /\ ppc' = "handle"
  /\ mpc' = "sem_wait"
  /\ UNCHANGED <<setupVars, mutex, sem, event_ring, live, deviceVars, event,
                 err, delivered, job, pressed, kids, net>>

-----------------------------------------------------------------------------
(* The forked processes.                                                   *)

\* The script reports over UDP, as tools/test_example.sh does.
KidReports(k) ==
  /\ kids[k] # NULL /\ kids[k].st = "script"
  /\ kids[k].script # <<>>
  /\ net' = net \cup {[name |-> kids[k].cmd, status |-> Head(kids[k].script)]}
  /\ kids' = [kids EXCEPT ![k].script = Tail(@)]
  /\ UNCHANGED <<vars, ppc, job, pressed, fb>>

\* system() returns, when the script is through or has failed on the way, and
\* the child goes on to paint.
KidScriptEnds(k) ==
  /\ kids[k] # NULL /\ kids[k].st = "script"
  /\ kids' = [kids EXCEPT ![k].st = "region",
                          ![k].job = Looks(kids[k].cmd, "CMD_START", kids[k].cmd)]
  /\ UNCHANGED <<vars, ppc, job, pressed, fb, net>>

KidFills(k) ==
  /\ kids[k] # NULL /\ kids[k].st = "region"
  /\ fb' = Filled(fb, kids[k].job)
  /\ kids' = [kids EXCEPT ![k].st = "text"]
  /\ UNCHANGED <<vars, ppc, job, pressed, net>>

KidWrites(k) ==
  /\ kids[k] # NULL /\ kids[k].st = "text"
  /\ fb' = Written(fb, kids[k].job)
  /\ kids' = [kids EXCEPT ![k].st = "loop"]
  /\ UNCHANGED <<vars, ppc, job, pressed, net>>

\* mutant: the semaphore is one that parent and child share
KidLocksUp_SharedSem(k) ==
  /\ kids[k] # NULL /\ kids[k].st = "loop"
  /\ sem > 0 /\ kids[k].mutex # NULL
  /\ sem' = sem - 1
  /\ kids' = [kids EXCEPT ![k].st = "locked up"]
  /\ UNCHANGED <<setupVars, mutex, event_ring, live, deviceVars, mainVars,
                 ppc, job, pressed, fb, net>>

\* inputmgr_get_event in a child.  Its tokens are those the parent had; when a
\* device thread held the mutex at the fork nobody is there to give it back.
KidLocksUp(k) ==
  /\ kids[k] # NULL /\ kids[k].st = "loop"
  /\ kids[k].sem > 0 /\ kids[k].mutex # NULL
  /\ kids' = [kids EXCEPT ![k].sem = @ - 1, ![k].st = "locked up"]
  /\ UNCHANGED <<vars, ppc, job, pressed, fb, net>>

KidGets(k) ==
  /\ kids[k] # NULL /\ kids[k].st = "loop"
  /\ kids[k].sem > 0 /\ kids[k].mutex = NULL
  /\ LET me == kids[k]
         r  == ringbuf_pop(me.ring, me.event)
         popped == [me EXCEPT !.sem = @ - 1, !.ring = r.buf, !.event = r.data]
         mine(m) == [kids EXCEPT ![k] = m]
     IN  IF r.ret # 0 \/ get_button_by_event(r.data) = NULL
           THEN kids' = mine(popped)
           ELSE \E o \in btn_on_press(r.data, me.pressed) :
                  LET after == [popped EXCEPT !.pressed = o.pressed,
                                  !.job = o.job,
                                  !.st = IF o.job = NULL THEN "loop" ELSE "region"]
                  IN  kids' \in IF o.forks THEN AfterFork(mine(after), popped, r.data)
                                           ELSE {mine(after)}
  /\ UNCHANGED <<vars, ppc, job, pressed, fb, net>>

\* The child's own code; how long its script takes is up to the script.
KidStep(k) ==
  \/ KidScriptEnds(k)
  \/ KidFills(k)
  \/ KidWrites(k)
  \/ KidLocksUp(k)
  \/ KidGets(k)

-----------------------------------------------------------------------------
\* An input of the user, a datagram of a script or of another program, a
\* failing receive, a datagram lost on the way.
ToolInputArrives ==
  \/ /\ \E d \in TouchDevs, v \in Button \cup {Nowhere} : TouchRead(d, v)
     /\ UNCHANGED pageVars
  \/ /\ \E d \in SocketDevs, v \in External : SocketRecv(d, v)
     /\ UNCHANGED pageVars
  \/ \E d \in SocketDevs, v \in net :
       /\ SocketRecv(d, v)
       /\ net' = net \ {v}
       /\ UNCHANGED <<ppc, job, pressed, fb, kids>>
  \/ /\ \E d \in SocketDevs : SocketRecvFails(d)
     /\ UNCHANGED pageVars

DatagramLost ==
  /\ \E v \in net : net' = net \ {v}
  /\ UNCHANGED <<vars, ppc, job, pressed, fb, kids>>

PageStep == PageStart \/ PageIgnores \/ PageHandles \/ PageFills \/ PageWrites

ToolMainStep ==
  \/ SetupStep /\ UNCHANGED pageVars
  \/ ppc # "start" /\ inputmgr_get_event /\ UNCHANGED pageVars
  \/ PageStep

ToolIdle == Idle /\ ppc = "handle" /\ UNCHANGED pageVars

ToolNext ==
  \/ ToolMainStep
  \/ ToolInputArrives
  \/ \E d \in Device : DevStep(d) /\ UNCHANGED pageVars
  \/ \E k \in Kid : KidReports(k) \/ KidStep(k)
  \/ DatagramLost
  \/ ToolIdle

ToolSpec == ToolInit /\ [][ToolNext]_toolVars

\* The scheduler runs every thread and process that can go on.  Nothing makes
\* an input arrive, and a script may take for ever.
ToolFairness ==
  /\ WF_toolVars(ToolMainStep)
  /\ \A d \in Device : WF_toolVars(DevStep(d) /\ UNCHANGED pageVars)
  /\ \A k \in Kid : WF_toolVars(KidFills(k) \/ KidWrites(k) \/ KidLocksUp(k) \/ KidGets(k))

FairToolSpec == ToolSpec /\ ToolFairness

-----------------------------------------------------------------------------
(* Properties.                                                             *)

KidType ==
  [st : {"script", "region", "text", "loop", "locked up"}, cmd : HasCommand,
   touch : 0 .. MaxEvents, script : Seq(Status), sem : Nat,
   mutex : Device \cup {NULL}, ring : RingBufOf(Event), event : Event,
   pressed : [Button -> BOOLEAN], job : Job \cup {NULL}]

\* Types, in particular of what a child inherits (main_page.c:45): its tokens
\* cover what it takes, and its mutex is free or held by a device thread, never
\* by main, which forks outside inputmgr_get_event.
PageTypeOK ==
  /\ ppc \in {"start", "handle", "region", "text"}
  /\ job \in Job \cup {NULL}
  /\ pressed \in [Button -> BOOLEAN]
  /\ fb \in [Button -> [color : Color, text : SUBSET Text]]
  /\ kids \in [Kid -> KidType \cup {NULL}]
  /\ net \subseteq Report

\* Whatever the page and the processes it forks do, the device threads, the ring
\* and the semaphore of the program behave as InputMgr says, so that all that
\* holds there holds of the program (main_page.c:188-202).
ImplementsInputMgr == Spec

Painting ==
  \/ mpc = "use" /\ ppc \in {"region", "text"}
  \/ \E k \in Kid : kids[k] # NULL /\ kids[k].st \in {"region", "text"}

\* Between two paintings every button carries exactly one text: its percentage
\* while the colour says that it is in progress, otherwise its name
\* (main_page.c:59-75; of pages without forked processes).
OneText ==
  ppc # "start" /\ ~ Painting =>
    \A b \in Button :
      fb[b].text \in {{b}} \cup {{s} : s \in Progress}
        /\ (fb[b].color = "CMD_IN_PROGRESS") = (fb[b].text # {b})

\* A manual button that gets no reports shows whether it is pressed, whatever
\* the reports on others do in between (main_page.c:52-57).
ManualShown ==
  ppc # "start" /\ ~ Painting =>
    \A b \in CanBePress \ HasCommand :
      (\A r \in External : r.name # b)
        => fb[b].color = IF pressed[b] THEN "BTN_PRESSED" ELSE "DEFAULT_BUTTON"

QueuedReport(b, s) ==
  \E i \in 1 .. event_ring.item_count :
    Queue[i].dev \in SocketDevs /\ Queue[i].val = [name |-> b, status |-> s]

Shown(j) == fb[j.button] = [color |-> j.color, text |-> {j.text}]

\* A report that got into the ring is shown on its button, also behind touches of
\* a button or of nothing, and after gets that failed because the ring had refused
\* an event (main_page.c:59-75, 188-201).
ReportIsShown ==
  \A b \in Button, s \in Status : QueuedReport(b, s) ~> Shown(ReportLooks(b, s))

\* The colour of a command that has just started never covers a colour that a
\* report has set: main_page.c:41 says that the colour is set to command start
\* and then waits for updates from the net.
StartNotOverResult ==
  [][\A b \in Button :
       fb'[b].color = "CMD_START" /\ fb[b].color # "CMD_START"
         => fb[b].color = "DEFAULT_BUTTON"]_toolVars

\* A press on a command button runs its script once (README.md:14 of the tool):
\* not when the press was in the ring that a fork copied (main_page.c:45-50).
OneRunPerPress ==
  \A j, k \in Kid :
    kids[j] # NULL /\ kids[k] # NULL /\ kids[j].touch = kids[k].touch => j = k
=============================================================================
