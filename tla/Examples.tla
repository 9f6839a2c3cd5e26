------------------------------ MODULE Examples ------------------------------
(***************************************************************************)
(* The example programs: one of them is started and runs alone.  Each has  *)
(* a module of its own, which does nothing when another program runs.      *)
(***************************************************************************)
EXTENDS Integers

CONSTANTS
  Program,                                   \* the programs that may be started
  Reader, MaxInputs, MaxLines, MaxPosts,     \* of EventReaders and Handover
  Client, MaxUnits, MaxFlight, Room, Limit,  \* of Network
  Panel, Glyph, GB2312                       \* of CharDisplay

VARIABLES
  program,
  at, opened, plugged, arrived, taken, watching, request, event, shown,
  mainAt, threadAt, line, input_buf, mutex, sem, read, printedLine,
  server, listening, limit, conn, accepted, client, sent, got, child, recbuf,
  printed, flight,
  step, fds, maps, panel, i, pen, boxes

readers  == <<at, opened, plugged, arrived, taken, watching, request, event, shown>>
handover == <<mainAt, threadAt, line, input_buf, mutex, sem, read, printedLine>>
network  == <<server, listening, limit, conn, accepted, client, sent, got, child,
              recbuf, printed, flight>>
display  == <<step, fds, maps, panel, i, pen, boxes>>
vars     == <<program, readers, handover, network, display>>

Readers  == INSTANCE EventReaders
Threads  == INSTANCE Handover WITH printed <- printedLine
Net      == INSTANCE Network
Display  == INSTANCE CharDisplay

ASSUME ExamplesAssumption ==
  /\ Reader \subseteq Readers!Polling \cup Readers!Aio \cup {"blocking", "nonblock", "tslib",
                                                    "info"}
  /\ {MaxInputs, MaxLines, MaxUnits, MaxFlight} \subseteq Nat /\ MaxPosts \in Nat \ {0}
  /\ Room \in 2 .. MaxUnits /\ Limit \subseteq Nat
  /\ \A s \in Panel : {s.x_res, s.y_res} \subseteq Nat \ {0} /\ s.bpp \in {8, 16, 32}
  /\ \A g \in Glyph : {g.width, g.rows} \subseteq Nat
  /\ GB2312 \in (161 .. 247) \X (161 .. 254)

Init == /\ program \in Program
        /\ Readers!Init /\ Threads!Init /\ Net!Init /\ Display!Init

Next ==
  \/ Readers!Next /\ UNCHANGED <<handover, network, display>>
  \/ Threads!Next /\ UNCHANGED <<readers, network, display>>
  \/ Net!Next /\ UNCHANGED <<readers, handover, display>>
  \/ Display!Next /\ UNCHANGED <<readers, handover, network>>

Spec == Init /\ [][Next]_vars

\* The programs, and the aio library, go on when they can; nobody must send or
\* type anything.
ReaderGoesOn == /\ program \in Reader /\ Readers!ReaderStep
                /\ UNCHANGED <<handover, network, display>>
FairSpec == Spec /\ WF_vars(ReaderGoesOn) /\ Threads!Fairness /\ Net!Fairness
-----------------------------------------------------------------------------
ExamplesTypeOK ==
  /\ program \in Program
  /\ Readers!ReadersTypeOK /\ Threads!HandoverTypeOK
  /\ Net!NetworkTypeOK /\ Display!DisplayTypeOK

\* The properties of the programs, stated in their modules.
ReadInOrder        == Readers!ReadInOrder
InputIsRead        == Readers!InputIsRead
NoTornLine         == Threads!NoTornLine
LastLineShown      == Threads!LastLineShown
PrintedAsSent      == Net!PrintedAsSent
ClientIsServed     == Net!ClientIsServed
ProcessEnds        == Net!ProcessEnds
BoxesInFramebuffer == Display!BoxesInFramebuffer

\* A program that ends has closed the devices and files it has opened, but for
\* two: 00_get_input_info leaves its device open (main.c:30-57) and the freetype
\* program its font (show_free_type.c:117-141).
ClosedAtEnd == Readers!DeviceClosed /\ Display!FilesClosed
=============================================================================
