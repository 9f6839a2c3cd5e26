------------------------ MODULE ProductionToolProofs ------------------------
(***************************************************************************)
(* The whole program implements InputMgr: for any buttons, scripts and     *)
(* number of processes, what the page and its children do is, for the      *)
(* device threads and the ring of the program, a step of the caller of     *)
(* inputmgr_get_event or nothing.  All theorems of InputMgrProofs thus     *)
(* hold of the program.  Where no press forks, so that main paints alone,  *)
(* the screen agrees with the reports and with the buttons' state.         *)
(***************************************************************************)
EXTENDS ProductionTool, InputMgrProofs

(***************************************************************************)
(* What a process has before it paints, and what it knows of the button    *)
(* an event is for.                                                        *)
(***************************************************************************)
HasJob ==
  /\ ppc \in {"region", "text"} => job \in Job
  /\ \A k \in Kid :
       kids[k] # NULL /\ kids[k].st \in {"region", "text"} => kids[k].job \in Job

LEMMA ButtonFound ==
  ASSUME NEW e, get_button_by_event(e) # NULL
  PROVE  /\ get_button_by_event(e) \in Button
         /\ e.dev \in TouchDevs => get_button_by_event(e) = e.val
BY DEF get_button_by_event

LEMMA LooksTyped ==
  ASSUME NEW b \in Button, NEW c \in Color, NEW t \in Text
  PROVE  Looks(b, c, t) \in Job
BY DEF Looks, Job

LEMMA ReportLooksTyped ==
  ASSUME NEW b \in Button, NEW s
  PROVE  ReportLooks(b, s) \in Job
<1>1. b \in Text /\ (s \in Progress => s \in Text)
  BY DEF Text, Status
<1>2. {"DEFAULT_BUTTON", "BTN_PRESSED", "CMD_IN_PROGRESS"} \subseteq Color
  BY DEF Color
<1>3. CASE s = "ok"
  BY <1>1, <1>2, <1>3, LooksTyped DEF ReportLooks
<1>4. CASE s # "ok" /\ s \in Progress
  BY <1>1, <1>2, <1>4, LooksTyped DEF ReportLooks
<1>5. CASE s # "ok" /\ s \notin Progress
  BY <1>1, <1>2, <1>5, LooksTyped DEF ReportLooks
<1> QED
  BY <1>3, <1>4, <1>5

LEMMA PressTyped ==
  ASSUME NEW e, NEW p \in [Button -> BOOLEAN],
         get_button_by_event(e) # NULL,
         NEW o \in btn_on_press(e, p)
  PROVE  /\ o.pressed \in [Button -> BOOLEAN]
         /\ o.job \in Job \cup {NULL}
         /\ o.forks \in BOOLEAN
         /\ o.forks => e.val \in HasCommand
<1> DEFINE b == get_button_by_event(e)
<1>1. b \in Button /\ (e.dev \in TouchDevs => b = e.val)
  BY ButtonFound
<1>2. b \in Text /\ "DEFAULT_BUTTON" \in Color /\ "BTN_PRESSED" \in Color
  BY <1>1 DEF Text, Color
<1>3. CASE e.dev \in TouchDevs /\ b \notin CanBePress
  <2>1. o = [pressed |-> p, job |-> NULL, forks |-> FALSE]
    BY <1>3 DEF btn_on_press
  <2> QED
    BY <2>1
<1>4. CASE e.dev \in TouchDevs /\ b \in CanBePress /\ b \in HasCommand
  <2>1. o = [pressed |-> p, job |-> Looks(b, "DEFAULT_BUTTON", b),
             forks |-> TRUE]
    BY <1>4 DEF btn_on_press
  <2>2. Looks(b, "DEFAULT_BUTTON", b) \in Job
    BY <1>1, <1>2, LooksTyped
  <2> QED
    BY <1>1, <1>4, <2>1, <2>2
<1>5. CASE e.dev \in TouchDevs /\ b \in CanBePress /\ b \notin HasCommand
  <2>1. o = [pressed |-> [p EXCEPT ![b] = ~ @], job |-> ManualLooks(b, p),
             forks |-> FALSE]
    BY <1>5 DEF btn_on_press
  <2>2. ManualLooks(b, p) \in Job
    BY <1>1, <1>2, LooksTyped DEF ManualLooks
  <2>3. [p EXCEPT ![b] = ~ @] \in [Button -> BOOLEAN]
    OBVIOUS
  <2> QED
    BY <2>1, <2>2, <2>3
<1>6. CASE e.dev \notin TouchDevs
  <2>1. PICK s : o = [pressed |-> p, job |-> ReportLooks(b, s), forks |-> FALSE]
    BY <1>6 DEF btn_on_press
  <2>2. ReportLooks(b, s) \in Job
    BY <1>1, ReportLooksTyped
  <2> QED
    BY <2>1, <2>2
<1> QED
  BY <1>3, <1>4, <1>5, <1>6

(***************************************************************************)
(* fork.                                                                   *)
(***************************************************************************)
Kids == [Kid -> KidType \cup {NULL}]

LEMMA ForkedTyped ==
  ASSUME NEW m, NEW e \in Event, e.val \in HasCommand,
         m.sem \in Nat, m.mutex \in Device \cup {NULL},
         m.ring \in RingBufOf(Event), m.pressed \in [Button -> BOOLEAN]
  PROVE  Forked(m, e) \in KidType /\ Forked(m, e).st = "script"
<1>1. Script[e.val] \in Seq(Status)
  BY PageAssumption
<1>2. e.time \in 0 .. MaxEvents
  BY DEF Event
<1> QED
  BY <1>1, <1>2 DEF Forked, KidType

LEMMA AfterForkTyped ==
  ASSUME NEW ks \in Kids, NEW m, NEW e, Forked(m, e) \in KidType,
         NEW x \in AfterFork(ks, m, e)
  PROVE  /\ x \in Kids
         /\ \A j \in Kid : x[j] \in {ks[j], Forked(m, e)}
<1>1. CASE FreeKids(ks) = {}
  BY <1>1 DEF AfterFork
<1>2. CASE FreeKids(ks) # {}
  <2>1. PICK k \in Kid : x = [ks EXCEPT ![k] = Forked(m, e)]
    BY <1>2 DEF AfterFork, FreeKids
  <2> QED
    BY <2>1 DEF Kids
<1> QED
  BY <1>1, <1>2

LEMMA KidUpdate ==
  ASSUME NEW ks \in Kids, NEW k \in Kid, NEW m \in KidType
  PROVE  /\ [ks EXCEPT ![k] = m] \in Kids
         /\ [ks EXCEPT ![k] = m][k] = m
         /\ \A j \in Kid \ {k} : [ks EXCEPT ![k] = m][j] = ks[j]
BY DEF Kids

\* A ring that holds events only gives back events, whether it is in order or
\* not.
LEMMA PopTyped ==
  ASSUME NEW b \in RingBufOf(Event), NEW out \in Event
  PROVE  /\ ringbuf_pop(b, out).buf \in RingBufOf(Event)
         /\ ringbuf_pop(b, out).data \in Event
<1>1. /\ b.idx_read \in Idx /\ b.data \in [Idx -> Event]
      /\ b.item_count \in 0 .. NumItemMax
  BY DEF RingBufOf
<1>2. CASE IsEmpty(b)
  BY <1>2 DEF ringbuf_pop
<1>3. CASE ~ IsEmpty(b)
  <2>1. b.item_count - 1 \in 0 .. NumItemMax
    BY <1>1, <1>3, NumItemMaxAssumption DEF IsEmpty
  <2> QED
    BY <1>1, <1>3, <2>1, NextIdxWraps DEF ringbuf_pop, RingBufOf
<1> QED
  BY <1>2, <1>3

(***************************************************************************)
(* A step of the program is one of InputMgr, or leaves its variables alone.*)
(***************************************************************************)
LEMMA StepMaps ==
  ASSUME net \subseteq Report, [ToolNext]_toolVars
  PROVE  [Next]_vars
<1> USE DEF setupVars, deviceVars, mainVars, vars
<1>1. ASSUME ToolMainStep
      PROVE  [Next]_vars
  <2>1. CASE SetupStep \/ inputmgr_get_event
    BY <2>1 DEF Next, MainStep
  <2>2. CASE PageStart \/ PageFills
    BY <2>2 DEF PageStart, PageFills
  <2>3. CASE PageIgnores
    <3>1. Use
      BY <2>3 DEF PageIgnores, Use
    <3> QED
      BY <3>1 DEF Next, MainStep
  <2>4. CASE PageHandles
    <3>1. Use \/ UNCHANGED vars
      BY <2>4 DEF PageHandles, Use
    <3> QED
      BY <3>1 DEF Next, MainStep
  <2>5. CASE PageWrites
    <3>1. Use
      BY <2>5 DEF PageWrites, Use
    <3> QED
      BY <3>1 DEF Next, MainStep
  <2> QED
    BY <1>1, <2>1, <2>2, <2>3, <2>4, <2>5 DEF ToolMainStep, PageStep
<1>2. ASSUME ToolInputArrives
      PROVE  InputArrives
  BY <1>2, PageAssumption DEF ToolInputArrives, InputArrives
<1>3. ASSUME NEW k \in Kid, KidReports(k) \/ KidStep(k)
      PROVE  UNCHANGED vars
  BY <1>3 DEF KidReports, KidStep, KidScriptEnds, KidFills, KidWrites,
              KidLocksUp, KidGets
<1>4. ASSUME DatagramLost \/ ToolIdle \/ UNCHANGED toolVars
      PROVE  UNCHANGED vars
  BY <1>4 DEF DatagramLost, ToolIdle, Idle, toolVars
<1> QED
  BY <1>1, <1>2, <1>3, <1>4 DEF ToolNext, Next

(***************************************************************************)
(* Types of the page and its children.                                     *)
(***************************************************************************)
PageOK == PageTypeOK /\ HasJob

LEMMA InitPageOK == ToolInit => PageOK
BY DEF ToolInit, PageOK, PageTypeOK, HasJob, Color, Kid

\* Painting keeps the screen's type.
LEMMA PaintTyped ==
  ASSUME fb \in [Button -> [color : Color, text : SUBSET Text]], NEW j \in Job
  PROVE  /\ Filled(fb, j) \in [Button -> [color : Color, text : SUBSET Text]]
         /\ Written(fb, j) \in [Button -> [color : Color, text : SUBSET Text]]
<1>1. j.button \in Button /\ j.color \in Color /\ j.text \in Text
  BY DEF Job
<1>2. fb[j.button].color \in Color /\ fb[j.button].text \subseteq Text
  BY <1>1
<1>3. Filled(fb, j) \in [Button -> [color : Color, text : SUBSET Text]]
  BY <1>1 DEF Filled
<1>4. Written(fb, j) \in [Button -> [color : Color, text : SUBSET Text]]
  BY <1>1, <1>2 DEF Written
<1> QED
  BY <1>3, <1>4

\* A child's record after it has taken a token.
LEMMA TakesToken ==
  ASSUME NEW m \in KidType, m.sem > 0
  PROVE  [m EXCEPT !.sem = m.sem - 1] \in KidType
<1>1. m.sem \in Nat
  BY DEF KidType
<1>2. m.sem - 1 \in Nat
  BY <1>1
<1> DEFINE n == m.sem - 1
<1> HIDE DEF n
<1>3. ASSUME n \in Nat
      PROVE  [m EXCEPT !.sem = n] \in KidType
  BY <1>3 DEF KidType
<1> QED
  BY <1>2, <1>3 DEF n

\* A step of child k that only turns its record into m.
LEMMA KidBecomes ==
  ASSUME PageOK, NEW k \in Kid, NEW m \in KidType,
         m.st \in {"region", "text"} => m.job \in Job,
         kids' = [kids EXCEPT ![k] = m], UNCHANGED <<ppc, job>>
  PROVE  kids' \in Kids /\ HasJob'
<1>1. kids \in Kids
  BY DEF PageOK, PageTypeOK, Kids
<1>2. /\ kids' \in Kids
      /\ kids'[k] = m
      /\ \A j \in Kid \ {k} : kids'[j] = kids[j]
  BY <1>1 DEF Kids
<1>3. ppc' \in {"region", "text"} => job' \in Job
  BY DEF PageOK, HasJob
<1>4. ASSUME NEW j \in Kid, kids'[j] # NULL, kids'[j].st \in {"region", "text"}
      PROVE  kids'[j].job \in Job
  BY <1>2, <1>4 DEF PageOK, HasJob
<1> QED
  BY <1>2, <1>3, <1>4 DEF HasJob

LEMMA MainKeepsPage ==
  ASSUME SafeSoFar, PageOK, ToolMainStep
  PROVE  PageOK'
<1> USE DEF PageOK, PageTypeOK, HasJob, pageVars
<1>1. CASE UNCHANGED pageVars
  BY <1>1
<1>2. CASE PageStart
  <2>1. [b \in Button |-> [color |-> "DEFAULT_BUTTON", text |-> {b}]]
          \in [Button -> [color : Color, text : SUBSET Text]]
    BY DEF Color, Text
  <2> QED
    BY <1>2, <2>1 DEF PageStart
<1>3. CASE PageIgnores
  BY <1>3 DEF PageIgnores
<1>4. CASE PageHandles
  <2>1. PICK o \in btn_on_press(event, pressed) :
          /\ pressed' = o.pressed
          /\ kids' \in IF o.forks
                         THEN AfterFork(kids, [sem |-> sem, mutex |-> mutex,
                                               ring |-> event_ring,
                                               pressed |-> pressed], event)
                         ELSE {kids}
          /\ IF o.job = NULL
               THEN mpc' = "sem_wait" /\ UNCHANGED <<ppc, job>>
               ELSE ppc' = "region" /\ job' = o.job /\ UNCHANGED mpc
    BY <1>4 DEF PageHandles
  <2>2. get_button_by_event(event) # NULL /\ mpc = "use" /\ UNCHANGED <<fb, net>>
    BY <1>4 DEF PageHandles
  <2>3. /\ o.pressed \in [Button -> BOOLEAN] /\ o.job \in Job \cup {NULL}
        /\ o.forks \in BOOLEAN /\ (o.forks => event.val \in HasCommand)
    BY <2>2, PressTyped
  <2>4. /\ sem \in Nat /\ event_ring \in RingBufOf(Event) /\ event \in Event
        /\ mutex \in Device \cup {NULL}
    BY <2>2 DEF SafeSoFar, Typed, TypeOK, MutualExclusion, MainInside, Thread
  <2>5. kids' \in Kids /\ \A j \in Kid :
          kids'[j] = kids[j] \/ kids'[j].st = "script"
    <3>1. kids \in Kids
      BY DEF Kids
    <3>2. CASE ~ o.forks
      BY <2>1, <3>1, <3>2
    <3>3. CASE o.forks
      <4> DEFINE m == [sem |-> sem, mutex |-> mutex, ring |-> event_ring,
                       pressed |-> pressed]
      <4>1. Forked(m, event) \in KidType /\ Forked(m, event).st = "script"
        BY <2>3, <2>4, <3>3, ForkedTyped
      <4>2. kids' \in AfterFork(kids, m, event)
        BY <2>1, <3>3
      <4> QED
        BY <3>1, <4>1, <4>2, AfterForkTyped
    <3> QED
      BY <2>3, <3>2, <3>3
  <2>6. ppc' \in {"start", "handle", "region", "text"} /\ job' \in Job \cup {NULL}
        /\ (ppc' \in {"region", "text"} => job' \in Job)
    BY <2>1, <2>3
  <2> QED
    BY <2>1, <2>2, <2>3, <2>5, <2>6 DEF Kids
<1>5. CASE PageFills
  BY <1>5, PaintTyped DEF PageFills
<1>6. CASE PageWrites
  BY <1>6, PaintTyped DEF PageWrites
<1> QED
  BY <1>1, <1>2, <1>3, <1>4, <1>5, <1>6 DEF ToolMainStep, PageStep

LEMMA KidKeepsPage ==
  ASSUME PageOK, NEW k \in Kid, KidReports(k) \/ KidStep(k)
  PROVE  PageOK'
<1> DEFINE me == kids[k]
<1>1. /\ kids \in Kids /\ net \subseteq Report
      /\ fb \in [Button -> [color : Color, text : SUBSET Text]]
      /\ me # NULL => me \in KidType
  BY DEF PageOK, PageTypeOK, Kids
<1>2. ASSUME NEW m \in KidType, m.st \in {"region", "text"} => m.job \in Job,
             kids' = [kids EXCEPT ![k] = m], UNCHANGED <<ppc, job, pressed>>,
             fb' \in [Button -> [color : Color, text : SUBSET Text]],
             net' \subseteq Report
      PROVE  PageOK'
  <2>1. kids' \in Kids /\ HasJob'
    BY <1>2, KidBecomes
  <2> QED
    BY <1>2, <2>1 DEF PageOK, PageTypeOK, Kids
<1>3. CASE KidReports(k)
  <2>1. me \in KidType /\ me.st = "script" /\ me.script # <<>>
    BY <1>1, <1>3 DEF KidReports
  <2>2. Head(me.script) \in Status /\ Tail(me.script) \in Seq(Status)
    BY <2>1, HeadTailProperties DEF KidType
  <2> DEFINE m == [me EXCEPT !.script = Tail(me.script)]
  <2>3. m \in KidType /\ m.st = "script"
    BY <2>1, <2>2 DEF KidType
  <2>4. [name |-> me.cmd, status |-> Head(me.script)] \in Report
    BY <2>1, <2>2, PageAssumption DEF KidType, Report
  <2>5. kids' = [kids EXCEPT ![k] = m] /\ UNCHANGED <<ppc, job, pressed, fb>>
    BY <1>3 DEF KidReports
  <2>6. net' \subseteq Report
    BY <1>1, <1>3, <2>4 DEF KidReports
  <2> HIDE DEF m
  <2> QED
    BY <1>1, <1>2, <2>3, <2>5, <2>6
<1>4. CASE KidScriptEnds(k)
  <2>1. me \in KidType
    BY <1>1, <1>4 DEF KidScriptEnds
  <2> DEFINE j == Looks(me.cmd, "CMD_START", me.cmd)
             m == [me EXCEPT !.st = "region", !.job = j]
  <2>2. j \in Job
    BY <2>1, LooksTyped, PageAssumption DEF KidType, Color, Text
  <2>3. m \in KidType /\ m.job = j
    <3> HIDE DEF j
    <3> QED
      BY <2>1, <2>2 DEF KidType
  <2>4. kids' = [kids EXCEPT ![k] = m] /\ UNCHANGED <<ppc, job, pressed, fb, net>>
    BY <1>1, <1>4 DEF KidScriptEnds, Kids
  <2> HIDE DEF m, j
  <2> QED
    BY <1>1, <1>2, <2>2, <2>3, <2>4
<1>5. CASE KidFills(k)
  <2>1. me \in KidType /\ me.job \in Job
    BY <1>1, <1>5 DEF KidFills, PageOK, HasJob, KidType
  <2> DEFINE m == [me EXCEPT !.st = "text"]
  <2>2. m \in KidType /\ m.job \in Job
    BY <2>1 DEF KidType
  <2>3. kids' = [kids EXCEPT ![k] = m] /\ UNCHANGED <<ppc, job, pressed, net>>
    BY <1>5 DEF KidFills
  <2>4. fb' \in [Button -> [color : Color, text : SUBSET Text]]
    BY <1>1, <1>5, <2>1, PaintTyped DEF KidFills
  <2> HIDE DEF m
  <2> QED
    BY <1>1, <1>2, <2>2, <2>3, <2>4
<1>6. CASE KidWrites(k)
  <2>1. me \in KidType /\ me.job \in Job
    BY <1>1, <1>6 DEF KidWrites, PageOK, HasJob, KidType
  <2> DEFINE m == [me EXCEPT !.st = "loop"]
  <2>2. m \in KidType /\ m.st = "loop"
    BY <2>1 DEF KidType
  <2>3. kids' = [kids EXCEPT ![k] = m] /\ UNCHANGED <<ppc, job, pressed, net>>
    BY <1>6 DEF KidWrites
  <2>4. fb' \in [Button -> [color : Color, text : SUBSET Text]]
    BY <1>1, <1>6, <2>1, PaintTyped DEF KidWrites
  <2> HIDE DEF m
  <2> QED
    BY <1>1, <1>2, <2>2, <2>3, <2>4
<1>7. CASE KidLocksUp(k)
  <2>1. me \in KidType /\ me.sem > 0
    BY <1>1, <1>7 DEF KidLocksUp
  <2> DEFINE t == [me EXCEPT !.sem = me.sem - 1]
             m == [t EXCEPT !.st = "locked up"]
  <2>2. m \in KidType /\ m.st = "locked up"
    <3>1. t \in KidType
      BY <2>1, TakesToken
    <3> HIDE DEF t
    <3> QED
      BY <3>1 DEF KidType
  <2>3. kids' = [kids EXCEPT ![k] = m]
        /\ UNCHANGED <<ppc, job, pressed, fb, net>>
    BY <1>1, <1>7 DEF KidLocksUp, Kids
  <2> HIDE DEF m
  <2> QED
    BY <1>1, <1>2, <2>2, <2>3
<1>8. CASE KidGets(k)
  <2> DEFINE r      == ringbuf_pop(me.ring, me.event)
             popped == [me EXCEPT !.sem = me.sem - 1, !.ring = r.buf,
                                  !.event = r.data]
  <2>1. me \in KidType /\ me.sem > 0 /\ me.mutex = NULL /\ me.st = "loop"
    BY <1>1, <1>8 DEF KidGets
  <2>2. UNCHANGED <<ppc, job, pressed, fb, net>>
    BY <1>8 DEF KidGets
  <2>3. r.buf \in RingBufOf(Event) /\ r.data \in Event
    BY <2>1, PopTyped DEF KidType
  <2>4. popped \in KidType /\ popped.st = "loop"
    <3> DEFINE t == [me EXCEPT !.sem = me.sem - 1]
    <3>1. t \in KidType /\ t.st = "loop"
      BY <2>1, TakesToken DEF KidType
    <3>2. popped = [t EXCEPT !.ring = r.buf, !.event = r.data]
      OBVIOUS
    <3> HIDE DEF r, t, popped
    <3> QED
      BY <2>3, <3>1, <3>2 DEF KidType
  <2>5. CASE kids' = [kids EXCEPT ![k] = popped]
    <3> HIDE DEF popped
    <3> QED
      BY <1>1, <1>2, <2>2, <2>4, <2>5
  <2>6. CASE get_button_by_event(r.data) # NULL
             /\ \E o \in btn_on_press(r.data, me.pressed) :
                  LET after == [popped EXCEPT !.pressed = o.pressed,
                                  !.job = o.job,
                                  !.st = IF o.job = NULL THEN "loop" ELSE "region"]
                  IN  kids' \in IF o.forks
                                  THEN AfterFork([kids EXCEPT ![k] = after],
                                                 popped, r.data)
                                  ELSE {[kids EXCEPT ![k] = after]}
    <3>1. PICK o \in btn_on_press(r.data, me.pressed) :
            LET after == [popped EXCEPT !.pressed = o.pressed,
                            !.job = o.job,
                            !.st = IF o.job = NULL THEN "loop" ELSE "region"]
            IN  kids' \in IF o.forks
                            THEN AfterFork([kids EXCEPT ![k] = after],
                                           popped, r.data)
                            ELSE {[kids EXCEPT ![k] = after]}
      BY <2>6
    <3> DEFINE after == [popped EXCEPT !.pressed = o.pressed, !.job = o.job,
                           !.st = IF o.job = NULL THEN "loop" ELSE "region"]
               mine  == [kids EXCEPT ![k] = after]
    <3>2. /\ o.pressed \in [Button -> BOOLEAN] /\ o.job \in Job \cup {NULL}
          /\ o.forks \in BOOLEAN /\ (o.forks => r.data.val \in HasCommand)
      BY <2>1, <2>6, PressTyped DEF KidType
    <3>3. after \in KidType /\ (after.st \in {"region", "text"} => after.job \in Job)
      <4> HIDE DEF popped
      <4> QED
        BY <2>4, <3>2 DEF KidType
    <3>4. /\ mine \in Kids /\ mine[k] = after
          /\ \A j \in Kid \ {k} : mine[j] = kids[j]
      <4> HIDE DEF after
      <4> QED
        BY <1>1, <3>3, KidUpdate
    <3>5. kids' \in Kids /\ \A j \in Kid :
            kids'[j] = mine[j] \/ kids'[j].st = "script"
      <4>1. CASE ~ o.forks
        <5>1. kids' = mine
          BY <3>1, <4>1
        <5> QED
          BY <3>4, <5>1
      <4>2. CASE o.forks
        <5>1. kids' \in AfterFork(mine, popped, r.data)
          BY <3>1, <4>2
        <5>2. /\ popped.sem \in Nat /\ popped.mutex \in Device \cup {NULL}
              /\ popped.ring \in RingBufOf(Event)
              /\ popped.pressed \in [Button -> BOOLEAN]
          <6> HIDE DEF popped
          <6> QED
            BY <2>4 DEF KidType
        <5> HIDE DEF popped, mine, r
        <5>3. Forked(popped, r.data) \in KidType
              /\ Forked(popped, r.data).st = "script"
          BY <2>3, <3>2, <4>2, <5>2, ForkedTyped
        <5> QED
          BY <3>4, <5>1, <5>3, AfterForkTyped
      <4> QED
        BY <3>2, <4>1, <4>2
    <3>6. HasJob'
      <4>1. ppc' \in {"region", "text"} => job' \in Job
        BY <2>2 DEF PageOK, HasJob
      <4>2. ASSUME NEW j \in Kid, kids'[j] # NULL,
                   kids'[j].st \in {"region", "text"}
            PROVE  kids'[j].job \in Job
        <5> HIDE DEF after, mine
        <5>1. kids'[j] = mine[j]
          BY <3>5, <4>2
        <5> QED
          BY <3>3, <3>4, <4>2, <5>1 DEF PageOK, HasJob
      <4> QED
        BY <4>1, <4>2 DEF HasJob
    <3> QED
      BY <1>1, <2>2, <3>5, <3>6 DEF PageOK, PageTypeOK, Kids
  <2> QED
    BY <1>8, <2>5, <2>6 DEF KidGets
<1> QED
  BY <1>3, <1>4, <1>5, <1>6, <1>7, <1>8 DEF KidStep

LEMMA NextPageOK ==
  ASSUME SafeSoFar, PageOK, [ToolNext]_toolVars
  PROVE  PageOK'
<1>1. CASE ToolMainStep
  BY <1>1, MainKeepsPage
<1>2. CASE \E k \in Kid : KidReports(k) \/ KidStep(k)
  BY <1>2, KidKeepsPage
<1>3. CASE ToolInputArrives \/ DatagramLost
  <2>1. net' \subseteq net /\ UNCHANGED <<ppc, job, pressed, fb, kids>>
    BY <1>3 DEF ToolInputArrives, DatagramLost, pageVars
  <2> QED
    BY <2>1 DEF PageOK, PageTypeOK, HasJob
<1>4. CASE UNCHANGED pageVars
  BY <1>4 DEF PageOK, PageTypeOK, HasJob, pageVars
<1> QED
  BY <1>1, <1>2, <1>3, <1>4 DEF ToolNext, ToolIdle, toolVars

(***************************************************************************)
(* Both together, by induction: the input manager's invariant gives the    *)
(* page what it copies at a fork, and the page's types give the socket     *)
(* what it receives.                                                       *)
(***************************************************************************)
ToolSafe == SafeSoFar /\ PageOK

LEMMA ToolSafeHolds == ToolSpec => []ToolSafe
<1>1. ToolInit => ToolSafe
  BY InitSafe, InitPageOK DEF ToolInit, ToolSafe
<1>2. ToolSafe /\ [ToolNext]_toolVars => ToolSafe'
  <2> SUFFICES ASSUME ToolSafe, [ToolNext]_toolVars
               PROVE  ToolSafe'
    OBVIOUS
  <2>1. [Next]_vars
    BY StepMaps DEF ToolSafe, PageOK, PageTypeOK
  <2> QED
    BY <2>1, NextSafe, NextPageOK DEF ToolSafe
<1> QED
  BY <1>1, <1>2, PTL DEF ToolSpec

\* The page and its children keep their types: in particular a child has at
\* least as many tokens as it takes and never inherits main's own mutex.
THEOREM PageTypeCorrect == ToolSpec => []PageTypeOK
BY ToolSafeHolds, PTL DEF ToolSafe, PageOK

\* Whatever buttons, scripts and processes there are, the program's device
\* threads, ring, mutex and semaphore behave as InputMgr says.
THEOREM ToolImplementsInputMgr == ToolSpec => ImplementsInputMgr
<1>1. ToolInit => Init
  BY DEF ToolInit
<1>2. ToolSafe /\ [ToolNext]_toolVars => [Next]_vars
  BY StepMaps DEF ToolSafe, PageOK, PageTypeOK
<1> QED
  BY <1>1, <1>2, ToolSafeHolds, PTL DEF ToolSpec, Spec, ImplementsInputMgr

(***************************************************************************)
(* What the screen shows when no press forks: the page has no command, or  *)
(* the system lets the tool have no other process.                         *)
(***************************************************************************)
NoFork == HasCommand = {} \/ MaxForks = 0

\* Only main paints, and reports come from other programs alone.
Alone == (\A k \in Kid : kids[k] = NULL) /\ net = {}

\* A text that is no name goes with the colour of progress.
OneTextOn(b) ==
  /\ fb[b].text \in {{b}} \cup {{s} : s \in Progress}
  /\ (fb[b].color = "CMD_IN_PROGRESS") = (fb[b].text # {b})

LooksRight(j) ==
  \/ j.text = j.button /\ j.color # "CMD_IN_PROGRESS"
  \/ j.text \in Progress /\ j.color = "CMD_IN_PROGRESS"

\* At each point of a painting every other button is right, and what main has
\* in hand makes this one right.
TextsRight ==
  /\ ppc \in {"region", "text"} => mpc = "use" /\ LooksRight(job)
  /\ ppc = "text" => fb[job.button] = [color |-> job.color, text |-> {}]
  /\ ppc # "start" => \A b \in Button : OneTextOn(b) \/ (ppc = "text" /\ job.button = b)

\* A report in the tool, wherever it is, is one that other programs send.
Said(e) == e.dev \notin TouchDevs => e.val \in External

AllSaid ==
  /\ \A i \in 1 .. event_ring.item_count : Said(Queue[i])
  /\ \A d \in Device : pc[d] \in {"lock", "push"} => Said(ev[d])
  /\ MainHolds => Said(event)

\* The manual buttons of ManualShown, and their colour.
Quiet == {b \in CanBePress \ HasCommand : \A r \in External : r.name # b}
ColourOf(b) == IF pressed[b] THEN "BTN_PRESSED" ELSE "DEFAULT_BUTTON"

ColoursRight ==
  /\ ppc \in {"region", "text"} => mpc = "use"
  /\ ppc = "start" => \A b \in Button : ~ pressed[b]
  /\ ppc # "start" => \A b \in Quiet :
       IF ppc = "region" /\ job.button = b THEN job.color = ColourOf(b)
                                          ELSE fb[b].color = ColourOf(b)

-----------------------------------------------------------------------------
LEMMA NextAlone ==
  ASSUME NoFork, Alone, PageOK, [ToolNext]_toolVars
  PROVE  Alone'
<1>1. CASE PageHandles
  <2>1. PICK o \in btn_on_press(event, pressed) :
          kids' \in IF o.forks
                      THEN AfterFork(kids, [sem |-> sem, mutex |-> mutex,
                                            ring |-> event_ring,
                                            pressed |-> pressed], event)
                      ELSE {kids}
    BY <1>1 DEF PageHandles
  <2>2. o.forks \in BOOLEAN /\ (o.forks => event.val \in HasCommand)
    BY <1>1, PressTyped DEF PageHandles, PageOK, PageTypeOK
  <2>3. HasCommand = {} => kids' = kids
    BY <2>1, <2>2
  <2>4. MaxForks = 0 => Kid = {}
    BY DEF Kid
  <2>5. UNCHANGED net
    BY <1>1 DEF PageHandles
  <2> QED
    BY <2>3, <2>4, <2>5 DEF NoFork, Alone
<1>2. CASE PageStart \/ PageIgnores \/ PageFills \/ PageWrites \/ UNCHANGED pageVars
  BY <1>2 DEF PageStart, PageIgnores, PageFills, PageWrites, pageVars, Alone
<1>3. CASE ToolInputArrives
  BY <1>3 DEF ToolInputArrives, pageVars, Alone
<1>4. ~ DatagramLost /\ \A k \in Kid : ~ (KidReports(k) \/ KidStep(k))
  BY DEF DatagramLost, Alone, KidReports, KidStep, KidScriptEnds, KidFills,
         KidWrites, KidLocksUp, KidGets
<1> QED
  BY <1>1, <1>2, <1>3, <1>4 DEF ToolNext, ToolMainStep, PageStep, ToolIdle, toolVars

(***************************************************************************)
(* What btn_on_press may ask to be painted.                                *)
(***************************************************************************)
LEMMA PressLooks ==
  ASSUME NEW e, NEW p, get_button_by_event(e) # NULL, NEW o \in btn_on_press(e, p)
  PROVE  \/ o.job = NULL /\ o.pressed = p
         \/ /\ o.job.button = get_button_by_event(e)
            /\ LooksRight(o.job)
            /\ e.dev \notin TouchDevs \/ e.val \in HasCommand
            /\ o.pressed = p
         \/ /\ e.dev \in TouchDevs /\ e.val \in CanBePress \ HasCommand
            /\ o.job = ManualLooks(e.val, p)
            /\ LooksRight(o.job)
            /\ o.pressed = [p EXCEPT ![e.val] = ~ @]
<1> DEFINE b == get_button_by_event(e)
<1>1. b \in Button /\ (e.dev \in TouchDevs => b = e.val)
  BY ButtonFound
<1>2. CASE e.dev \in TouchDevs /\ b \notin CanBePress
  BY <1>2 DEF btn_on_press
<1>3. CASE e.dev \in TouchDevs /\ b \in CanBePress /\ b \in HasCommand
  <2>1. o = [pressed |-> p, job |-> Looks(b, "DEFAULT_BUTTON", b),
             forks |-> TRUE]
    BY <1>3 DEF btn_on_press
  <2> QED
    BY <1>1, <1>3, <2>1 DEF Looks, LooksRight
<1>4. CASE e.dev \in TouchDevs /\ b \in CanBePress /\ b \notin HasCommand
  <2>1. o = [pressed |-> [p EXCEPT ![b] = ~ @], job |-> ManualLooks(b, p),
             forks |-> FALSE]
    BY <1>4 DEF btn_on_press
  <2>2. LooksRight(ManualLooks(b, p))
    BY DEF ManualLooks, Looks, LooksRight
  <2> QED
    BY <1>1, <1>4, <2>1, <2>2
<1>5. CASE e.dev \notin TouchDevs
  <2>1. PICK s : o = [pressed |-> p, job |-> ReportLooks(b, s), forks |-> FALSE]
    BY <1>5 DEF btn_on_press
  <2>2. ReportLooks(b, s).button = b /\ LooksRight(ReportLooks(b, s))
    <3>1. CASE s = "ok"
      BY <3>1 DEF ReportLooks, Looks, LooksRight
    <3>2. CASE s # "ok" /\ s \in Progress
      BY <3>2 DEF ReportLooks, Looks, LooksRight
    <3>3. CASE s # "ok" /\ s \notin Progress
      BY <3>3 DEF ReportLooks, Looks, LooksRight
    <3> QED
      BY <3>1, <3>2, <3>3
  <2> QED
    BY <1>5, <2>1, <2>2
<1> QED
  BY <1>2, <1>3, <1>4, <1>5

\* While main paints it does nothing else, and only PageHandles and PageStart
\* move it there.
LEMMA OthersKeepScreen ==
  ASSUME [ToolNext]_toolVars, Alone, ~ PageStep
  PROVE  /\ UNCHANGED <<ppc, job, pressed, fb>>
         /\ mpc = "use" => mpc' = "use"
<1>1. CASE SetupStep /\ UNCHANGED pageVars
  BY <1>1 DEF SetupStep, inputmgr_init, inputmgr_resigter, StartInitAll,
              InitDevice, EndInitAll, mainVars, pageVars
<1>2. CASE inputmgr_get_event /\ UNCHANGED pageVars
  BY <1>2 DEF inputmgr_get_event, MainSemWait, MainLock, MainPop, MainUnlock, pageVars
<1>3. CASE ToolInputArrives
  BY <1>3 DEF ToolInputArrives, TouchRead, SocketRecv, SocketRecvFails, mainVars,
              pageVars
<1>4. ASSUME NEW d \in Device, DevStep(d), UNCHANGED pageVars
      PROVE  UNCHANGED <<ppc, job, pressed, fb, mpc>>
  BY <1>4 DEF DevStep, SocketAlloc, DevLock, DevPush, DevPost, DevUnlock, mainVars,
              pageVars
<1>5. CASE ToolIdle \/ UNCHANGED toolVars
  BY <1>5 DEF ToolIdle, Idle, toolVars, vars, mainVars, pageVars
<1>6. ~ DatagramLost /\ \A k \in Kid : ~ (KidReports(k) \/ KidStep(k))
  BY DEF DatagramLost, Alone, KidReports, KidStep, KidScriptEnds, KidFills,
         KidWrites, KidLocksUp, KidGets
<1> QED
  BY <1>1, <1>2, <1>3, <1>4, <1>5, <1>6 DEF ToolNext, ToolMainStep

LEMMA NextTexts ==
  ASSUME Button \cap Progress = {}, PageOK, Alone, TextsRight, [ToolNext]_toolVars
  PROVE  TextsRight'
<1>0. /\ ppc \in {"region", "text"} => job \in Job
      /\ fb \in [Button -> [color : Color, text : SUBSET Text]]
  BY DEF PageOK, PageTypeOK, HasJob
<1>1. CASE ~ PageStep
  <2>1. UNCHANGED <<ppc, job, fb>> /\ (mpc = "use" => mpc' = "use")
    BY <1>1, OthersKeepScreen
  <2> QED
    BY <2>1 DEF TextsRight, OneTextOn
<1>2. CASE PageStart
  BY <1>2 DEF PageStart, TextsRight, OneTextOn
<1>3. CASE PageIgnores
  BY <1>3 DEF PageIgnores, pageVars, TextsRight, OneTextOn
<1>4. CASE PageHandles
  <2>1. PICK o \in btn_on_press(event, pressed) :
          IF o.job = NULL THEN mpc' = "sem_wait" /\ UNCHANGED <<ppc, job>>
                          ELSE ppc' = "region" /\ job' = o.job /\ UNCHANGED mpc
    BY <1>4 DEF PageHandles
  <2>2. mpc = "use" /\ ppc = "handle" /\ UNCHANGED fb
        /\ get_button_by_event(event) # NULL
    BY <1>4 DEF PageHandles
  <2>3. o.job = NULL \/ LooksRight(o.job)
    BY <2>2, PressLooks
  <2> QED
    BY <2>1, <2>2, <2>3 DEF TextsRight, OneTextOn
<1>5. CASE PageFills
  <2>1. /\ ppc = "region" /\ ppc' = "text" /\ UNCHANGED <<mpc, job>>
        /\ fb' = Filled(fb, job)
    BY <1>5 DEF PageFills, vars, mainVars
  <2>2. job.button \in Button
    BY <1>0, <2>1 DEF Job
  <2>3. /\ fb'[job.button] = [color |-> job.color, text |-> {}]
        /\ \A b \in Button \ {job.button} : fb'[b] = fb[b]
    BY <1>0, <2>1, <2>2 DEF Filled
  <2> QED
    BY <2>1, <2>3 DEF TextsRight, OneTextOn
<1>6. CASE PageWrites
  <2>1. ppc = "text" /\ ppc' = "handle" /\ job' = job /\ fb' = Written(fb, job)
    BY <1>6 DEF PageWrites
  <2>2. job.button \in Button /\ LooksRight(job)
        /\ fb[job.button] = [color |-> job.color, text |-> {}]
    BY <1>0, <2>1 DEF Job, TextsRight
  <2>3. /\ fb'[job.button].color = job.color
        /\ fb'[job.button].text = {job.text}
        /\ \A b \in Button \ {job.button} : fb'[b] = fb[b]
    <3>1. fb' = [fb EXCEPT ![job.button].text = fb[job.button].text \cup {job.text}]
      BY <2>1 DEF Written
    <3>2. fb[job.button].text \cup {job.text} = {job.text}
      BY <2>2
    <3> QED
      BY <1>0, <2>2, <3>1, <3>2
  <2>4. OneTextOn(job.button)'
    <3>1. CASE job.text = job.button /\ job.color # "CMD_IN_PROGRESS"
      BY <2>1, <2>3, <3>1 DEF OneTextOn
    <3>2. CASE job.text \in Progress /\ job.color = "CMD_IN_PROGRESS"
      <4>1. {job.text} # {job.button}
        BY <2>2, <3>2
      <4> QED
        BY <2>1, <2>3, <3>2, <4>1 DEF OneTextOn
    <3> QED
      BY <2>2, <3>1, <3>2 DEF LooksRight
  <2>5. \A b \in Button \ {job.button} : OneTextOn(b)'
    BY <2>1, <2>3 DEF TextsRight, OneTextOn
  <2> QED
    BY <2>1, <2>4, <2>5 DEF TextsRight
<1> QED
  BY <1>1, <1>2, <1>3, <1>4, <1>5, <1>6 DEF PageStep

\* Between two paintings every button carries one text, and the percentage
\* goes with the colour of progress (main_page.c:59-75), for any buttons and
\* reports, where no press forks and no button is named like a percentage.
THEOREM OneTextCorrect ==
  ASSUME NoFork, Button \cap Progress = {}
  PROVE  ToolSpec => []OneText
<1>1. ToolInit => Alone /\ TextsRight
  BY DEF ToolInit, Alone, TextsRight
<1>2. ToolSafe /\ Alone /\ TextsRight /\ [ToolNext]_toolVars => (Alone /\ TextsRight)'
  BY NextAlone, NextTexts DEF ToolSafe
<1>3. ToolSafe /\ TextsRight => OneText
  <2> SUFFICES ASSUME ToolSafe, TextsRight, ppc # "start", ~ Painting, NEW b \in Button
               PROVE  OneTextOn(b)
    BY DEF OneText, OneTextOn
  <2> QED
    BY DEF TextsRight, Painting
<1> QED
  BY <1>1, <1>2, <1>3, ToolSafeHolds, PTL DEF ToolSpec

(***************************************************************************)
(* Where reports come from: the ring hands on what the socket received.    *)
(***************************************************************************)
LEMMA StaysSaid ==
  ASSUME AllSaid, UNCHANGED event_ring,
         MainHolds' => MainHolds /\ event' = event,
         \A d \in Device : pc'[d] \in {"lock", "push"} =>
           Said(ev'[d]) \/ (pc[d] \in {"lock", "push"} /\ ev'[d] = ev[d])
  PROVE  AllSaid'
<1>1. Queue' = Queue /\ event_ring'.item_count = event_ring.item_count
  BY DEF Queue
<1> QED
  BY <1>1 DEF AllSaid

LEMMA PushSaid ==
  ASSUME SafeSoFar, AllSaid, NEW d \in Device, DevPush(d)
  PROVE  AllSaid'
<1>0. /\ pc \in [Device -> DevPC]
      /\ Queue \in Seq(Event) /\ Len(Queue) = event_ring.item_count
      /\ event_ring.item_count \in Nat /\ ev[d] \in Event
  BY QueueTyped DEF SafeSoFar, Typed, TypeOK
<1>1. /\ \A e \in Device : pc'[e] \in {"lock", "push"} => pc[e] \in {"lock", "push"}
      /\ MainHolds' = MainHolds /\ UNCHANGED <<ev, event>>
  BY <1>0 DEF DevPush, mainVars, MainHolds
<1>2. CASE IsFull(event_ring)
  <2>1. UNCHANGED event_ring
    BY <1>2 DEF DevPush, ringbuf_push
  <2> QED
    BY <1>1, <2>1, StaysSaid
<1>3. CASE ~ IsFull(event_ring)
  <2> DEFINE n == event_ring.item_count
  <2>1. Queue' = Append(Queue, ev[d]) /\ event_ring'.item_count = n + 1
    BY <1>3, PushQueue, PushCount DEF SafeSoFar
  <2>2. Queue'[n + 1] = ev[d] /\ \A i \in 1 .. n : Queue'[i] = Queue[i]
    BY <1>0, <2>1, AppendProperties
  <2>3. \A i \in 1 .. (n + 1) : i \in 1 .. n \/ i = n + 1
    BY <1>0
  <2>4. Said(ev[d])
    BY DEF DevPush, AllSaid
  <2>5. \A i \in 1 .. (n + 1) : Said(Queue'[i])
    BY <2>2, <2>3, <2>4 DEF AllSaid
  <2> HIDE DEF n
  <2> QED
    BY <1>1, <2>1, <2>5 DEF AllSaid
<1> QED
  BY <1>2, <1>3

LEMMA PopSaid ==
  ASSUME SafeSoFar, AllSaid, MainPop
  PROVE  AllSaid'
<1>0. /\ Queue \in Seq(Event) /\ Len(Queue) = event_ring.item_count
      /\ event_ring.item_count \in Nat
  BY QueueTyped
<1>1. UNCHANGED <<pc, ev>> /\ mpc' = "unlock"
  BY DEF MainPop, deviceVars
<1>2. CASE IsEmpty(event_ring)
  <2>1. UNCHANGED event_ring /\ err' = -1
    BY <1>2, PopQueue DEF MainPop, ringbuf_pop
  <2> QED
    BY <1>1, <2>1, StaysSaid DEF MainHolds
<1>3. CASE ~ IsEmpty(event_ring)
  <2> DEFINE n == event_ring.item_count
  <2>1. /\ Queue # <<>> /\ Queue' = Tail(Queue) /\ event' = Head(Queue)
        /\ event_ring'.item_count = n - 1
    BY <1>3, PopQueue, PopCount DEF SafeSoFar
  <2>2. event' = Queue[1] /\ 1 \in 1 .. n
        /\ \A i \in 1 .. (n - 1) : Queue'[i] = Queue[i + 1]
    BY <1>0, <2>1, HeadTailProperties, EmptySeq, LenProperties
  <2>3. \A i \in 1 .. (n - 1) : i + 1 \in 1 .. n
    BY <1>0
  <2>4. Said(event') /\ \A i \in 1 .. (n - 1) : Said(Queue'[i])
    BY <2>2, <2>3 DEF AllSaid
  <2> HIDE DEF n
  <2> QED
    BY <1>1, <2>1, <2>4 DEF AllSaid
<1> QED
  BY <1>2, <1>3

LEMMA NextSaid ==
  ASSUME SafeSoFar, AllSaid, [Next]_vars,
         \A d \in Device : pc[d] = "recv" /\ pc'[d] = "lock" => ev'[d].val \in External
  PROVE  AllSaid'
<1>0. pc \in [Device -> DevPC] /\ ev \in [Device -> Event]
  BY DEF SafeSoFar, Typed, TypeOK
<1>1. CASE inputmgr_init \/ StartInitAll \/ EndInitAll \/ MainSemWait \/ MainLock
           \/ MainUnlock \/ Use
  BY StaysSaid, <1>1 DEF inputmgr_init, StartInitAll, EndInitAll, MainSemWait,
                    MainLock, MainUnlock, Use, deviceVars, MainHolds
<1>2. ASSUME NEW d \in Device, inputmgr_resigter(d)
      PROVE  AllSaid'
  BY StaysSaid, <1>2 DEF inputmgr_resigter, deviceVars, mainVars, MainHolds
<1>3. CASE InitDevice
  BY StaysSaid, <1>0, <1>3 DEF InitDevice, mainVars, MainHolds
<1>4. CASE MainPop
  BY <1>4, PopSaid
<1>5. ASSUME NEW d \in Device, NEW v \in Val,
             \/ d \in TouchDevs /\ TouchRead(d, v)
             \/ SocketRecv(d, v)
      PROVE  AllSaid'
  <2>1. /\ UNCHANGED <<event_ring, event>> /\ MainHolds' = MainHolds
        /\ \A e \in Device \ {d} : ev'[e] = ev[e] /\ pc'[e] = pc[e]
    BY <1>0, <1>5 DEF TouchRead, SocketRecv, mainVars, MainHolds
  <2>2. pc'[d] = "lock" => Said(ev'[d])
    <3>1. CASE d \in TouchDevs /\ TouchRead(d, v)
      BY <1>0, <3>1 DEF TouchRead, NewEvent, Said
    <3>2. CASE SocketRecv(d, v)
      BY <1>0, <3>2 DEF SocketRecv, Said
    <3> QED
      BY <1>5, <3>1, <3>2
  <2>3. pc'[d] # "push"
    BY <1>0, <1>5 DEF TouchRead, SocketRecv
  <2> QED
    BY <2>1, <2>2, <2>3, StaysSaid
<1>6. ASSUME NEW d \in Device,
             SocketAlloc(d) \/ SocketRecvFails(d) \/ DevLock(d) \/ DevPost(d) \/ DevUnlock(d)
      PROVE  AllSaid'
  <2>1. /\ UNCHANGED <<event_ring, event>> /\ MainHolds' = MainHolds
        /\ pc'[d] \in {"lock", "push"} => pc[d] = "lock" /\ UNCHANGED ev
        /\ \A e \in Device \ {d} : ev'[e] = ev[e] /\ pc'[e] = pc[e]
    BY <1>0, <1>6 DEF SocketAlloc, SocketRecvFails, DevLock, DevPost, DevUnlock,
                      mainVars, MainHolds
  <2> QED
    BY <2>1, StaysSaid
<1>7. ASSUME NEW d \in Device, DevPush(d)
      PROVE  AllSaid'
  BY <1>7, PushSaid
<1>8. CASE UNCHANGED vars
  BY StaysSaid, <1>8 DEF vars, deviceVars, mainVars, MainHolds
<1> QED
  BY <1>1, <1>2, <1>3, <1>4, <1>5, <1>6, <1>7, <1>8, NextActions

\* Without children the socket receives what other programs send.
LEMMA ReceivesExternal ==
  ASSUME SafeSoFar, Alone, [ToolNext]_toolVars,
         NEW d \in Device, pc[d] = "recv", pc'[d] = "lock"
  PROVE  ev'[d].val \in External
<1>0. pc \in [Device -> DevPC] /\ ev \in [Device -> Event]
  BY DEF SafeSoFar, Typed, TypeOK
<1>1. CASE ToolInputArrives
  <2>1. ASSUME NEW c \in TouchDevs, NEW v, TouchRead(c, v)
        PROVE  FALSE
    BY <1>0, <2>1 DEF TouchRead
  <2>2. ASSUME NEW c \in SocketDevs, NEW v \in External, SocketRecv(c, v)
        PROVE  ev'[d].val \in External
    BY <1>0, <2>2 DEF SocketRecv, NewEvent
  <2>3. ASSUME NEW c \in SocketDevs, SocketRecvFails(c)
        PROVE  FALSE
    BY <1>0, <2>3 DEF SocketRecvFails
  <2> QED
    BY <1>1, <2>1, <2>2, <2>3 DEF ToolInputArrives, Alone
<1>2. CASE ToolMainStep
  <2>1. CASE SetupStep
    BY <1>0, <2>1 DEF SetupStep, inputmgr_init, inputmgr_resigter, StartInitAll,
                      InitDevice, EndInitAll, deviceVars
  <2>2. CASE inputmgr_get_event
    BY <2>2 DEF inputmgr_get_event, MainSemWait, MainLock, MainPop, MainUnlock,
                deviceVars
  <2>3. CASE PageStep
    BY <2>3 DEF PageStep, PageStart, PageIgnores, PageHandles, PageFills,
                PageWrites, vars, deviceVars
  <2> QED
    BY <1>2, <2>1, <2>2, <2>3 DEF ToolMainStep
<1>3. ASSUME NEW c \in Device, DevStep(c)
      PROVE  FALSE
  BY <1>0, <1>3 DEF DevStep, SocketAlloc, DevLock, DevPush, DevPost, DevUnlock
<1>4. ASSUME NEW k \in Kid, KidReports(k) \/ KidStep(k)
      PROVE  FALSE
  BY <1>4 DEF Alone, KidReports, KidStep, KidScriptEnds, KidFills, KidWrites,
              KidLocksUp, KidGets
<1>5. CASE DatagramLost \/ ToolIdle \/ UNCHANGED toolVars
  BY <1>5 DEF DatagramLost, ToolIdle, Idle, toolVars, vars, deviceVars
<1> QED
  BY <1>1, <1>2, <1>3, <1>4, <1>5 DEF ToolNext

LEMMA NextColours ==
  ASSUME PageOK, Alone, AllSaid, ColoursRight, [ToolNext]_toolVars
  PROVE  ColoursRight'
<1>0. /\ ppc \in {"region", "text"} => job \in Job
      /\ fb \in [Button -> [color : Color, text : SUBSET Text]]
      /\ pressed \in [Button -> BOOLEAN]
      /\ Quiet \subseteq Button
  BY PageAssumption DEF PageOK, PageTypeOK, HasJob, Quiet
<1>1. CASE ~ PageStep
  <2>1. UNCHANGED <<ppc, job, fb, pressed>> /\ (mpc = "use" => mpc' = "use")
    BY <1>1, OthersKeepScreen
  <2> QED
    BY <2>1 DEF ColoursRight, ColourOf
<1>2. CASE PageStart
  BY <1>0, <1>2 DEF PageStart, ColoursRight, ColourOf
<1>3. CASE PageIgnores
  BY <1>3 DEF PageIgnores, pageVars, ColoursRight, ColourOf
<1>4. CASE PageHandles
  <2>1. PICK o \in btn_on_press(event, pressed) :
          /\ pressed' = o.pressed
          /\ IF o.job = NULL THEN mpc' = "sem_wait" /\ UNCHANGED <<ppc, job>>
                             ELSE ppc' = "region" /\ job' = o.job /\ UNCHANGED mpc
    BY <1>4 DEF PageHandles
  <2>2. mpc = "use" /\ ppc = "handle" /\ UNCHANGED fb
        /\ get_button_by_event(event) # NULL
    BY <1>4 DEF PageHandles
  <2>3. \A b \in Quiet : fb'[b].color = ColourOf(b)
    BY <2>2 DEF ColoursRight
  <2>4. CASE o.job = NULL /\ o.pressed = pressed
    BY <2>1, <2>2, <2>3, <2>4 DEF ColoursRight, ColourOf
  <2>5. CASE /\ o.job.button = get_button_by_event(event)
             /\ event.dev \notin TouchDevs \/ event.val \in HasCommand
             /\ o.pressed = pressed
    <3>1. o.job.button \notin Quiet
      <4>1. CASE event.dev \notin TouchDevs
        <5>1. event.val \in External
          BY <2>2, <4>1 DEF AllSaid, MainHolds, Said
        <5>2. o.job.button = event.val.name
          BY <2>2, <2>5, <4>1 DEF get_button_by_event
        <5> QED
          BY <5>1, <5>2 DEF Quiet
      <4>2. CASE event.dev \in TouchDevs /\ event.val \in HasCommand
        BY <2>2, <2>5, <4>2, ButtonFound DEF Quiet
      <4> QED
        BY <2>5, <4>1, <4>2
    <3> QED
      BY <2>1, <2>2, <2>3, <2>5, <3>1 DEF ColoursRight, ColourOf
  <2>6. CASE /\ event.val \in CanBePress \ HasCommand
             /\ o.job = ManualLooks(event.val, pressed)
             /\ o.pressed = [pressed EXCEPT ![event.val] = ~ @]
    <3> DEFINE b == event.val
    <3>1. b \in Button
      BY <2>6, PageAssumption
    <3>2. /\ pressed'[b] = ~ pressed[b]
          /\ \A c \in Button \ {b} : pressed'[c] = pressed[c]
      BY <1>0, <2>1, <2>6, <3>1
    <3>3. o.job \in Job
      BY <1>0, <2>6, <3>1, LooksTyped DEF ManualLooks, Color, Text
    <3>4. ppc' = "region" /\ job' = ManualLooks(b, pressed) /\ mpc' = "use"
      BY <2>1, <2>2, <2>6, <3>3, PageAssumption
    <3>5. /\ job'.button = b
          /\ job'.color = IF pressed[b] THEN "DEFAULT_BUTTON" ELSE "BTN_PRESSED"
      BY <3>4 DEF ManualLooks, Looks
    <3> HIDE DEF b
    <3> QED
      BY <1>0, <2>3, <3>2, <3>4, <3>5, ZenonT(60) DEF ColoursRight, ColourOf
  <2> QED
    BY <2>2, <2>4, <2>5, <2>6, PressLooks
<1>5. CASE PageFills
  <2>1. /\ ppc = "region" /\ ppc' = "text" /\ UNCHANGED <<pressed, job, mpc>>
        /\ fb' = Filled(fb, job)
    BY <1>5 DEF PageFills, vars, mainVars
  <2>2. job.button \in Button
    BY <1>0, <2>1 DEF Job
  <2>3. /\ fb'[job.button].color = job.color
        /\ \A b \in Button \ {job.button} : fb'[b] = fb[b]
    BY <1>0, <2>1, <2>2 DEF Filled
  <2> QED
    BY <1>0, <2>1, <2>3 DEF ColoursRight, ColourOf
<1>6. CASE PageWrites
  <2>1. /\ ppc = "text" /\ ppc' = "handle" /\ UNCHANGED pressed
        /\ fb' = Written(fb, job)
    BY <1>6 DEF PageWrites
  <2>2. job.button \in Button
    BY <1>0, <2>1 DEF Job
  <2>3. \A b \in Button : fb'[b].color = fb[b].color
    BY <1>0, <2>1, <2>2 DEF Written
  <2> QED
    BY <1>0, <2>1, <2>3 DEF ColoursRight, ColourOf
<1> QED
  BY <1>1, <1>2, <1>3, <1>4, <1>5, <1>6 DEF PageStep

\* A manual button that no report names shows whether it is pressed, whatever
\* the queue, the device threads and the reports on other buttons do
\* (main_page.c:52-57), where no press forks.
THEOREM ManualShownCorrect ==
  ASSUME NoFork
  PROVE  ToolSpec => []ManualShown
<1> DEFINE Inv == Alone /\ AllSaid /\ ColoursRight
<1>1. ToolInit => Inv
  BY DEF ToolInit, Init, RING_BUF_DEF, Alone, AllSaid, MainHolds, ColoursRight
<1>2. ToolSafe /\ Inv /\ [ToolNext]_toolVars => Inv'
  <2> SUFFICES ASSUME ToolSafe, Inv, [ToolNext]_toolVars
               PROVE  Inv'
    OBVIOUS
  <2>1. SafeSoFar /\ PageOK /\ Alone /\ AllSaid /\ ColoursRight
    BY DEF ToolSafe
  <2>2. [Next]_vars
    BY <2>1, StepMaps DEF PageOK, PageTypeOK
  <2>3. \A d \in Device : pc[d] = "recv" /\ pc'[d] = "lock" => ev'[d].val \in External
    BY <2>1, ReceivesExternal
  <2>4. AllSaid'
    BY <2>1, <2>2, <2>3, NextSaid
  <2> QED
    BY <2>1, <2>4, NextAlone, NextColours
<1>3. ToolSafe /\ Inv => ManualShown
  <2> SUFFICES ASSUME ToolSafe, ColoursRight, ppc # "start", ~ Painting,
                      NEW b \in CanBePress \ HasCommand,
                      \A r \in External : r.name # b
               PROVE  fb[b].color = ColourOf(b)
    BY DEF ManualShown, ColourOf
  <2>1. b \in Quiet
    BY DEF Quiet
  <2>2. ppc # "region"
    BY DEF Painting, ColoursRight
  <2> QED
    BY <2>1, <2>2 DEF ColoursRight
<1> QED
  BY <1>1, <1>2, <1>3, ToolSafeHolds, PTL DEF ToolSpec
=============================================================================
