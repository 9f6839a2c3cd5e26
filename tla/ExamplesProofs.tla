--------------------------- MODULE ExamplesProofs ---------------------------
(***************************************************************************)
(* The example programs, for any number of inputs, lines, clients, units   *)
(* and any screens: the types and every safety property of the runs.  Each *)
(* program has an invariant of its own, which holds as well while another  *)
(* program runs and this one's state stays as it was at first.             *)
(***************************************************************************)
EXTENDS Examples, ArithmeticLemmas, SequenceTheorems, FiniteSetTheorems, TLAPS

\* The program started is the one that runs to the end.
LEMMA ReadersStay == Readers!Next => UNCHANGED program
  BY DEF Readers!Next, Readers!Arrive, Readers!Unplug, Readers!ReaderStep,
         Readers!Open, Readers!List, Readers!TslibSetUp, Readers!SelectReturns,
         Readers!PollReturns, Readers!ReadInput, Readers!ReadFails, Readers!Complete, Readers!Notify,
         Readers!Handler

LEMMA NetStay == Net!Next => UNCHANGED program
  BY DEF Net!Next, Net!SetUp, Net!Accept, Net!Fork, Net!Receive, Net!ChildEnds,
         Net!Connect, Net!Send, Net!Leave, Net!SendTo, Net!ReceiveFrom, Net!Lose

LEMMA DisplayStays == Display!Next => UNCHANGED program
  BY DEF Display!Next, Display!OpenFramebuffer, Display!PutLetters, Display!PutStr,
         Display!OpenCnCharFile, Display!PutChinese, Display!LoadFace, Display!DrawBitmap
LEMMA ThreadsStay == Threads!Next => UNCHANGED program
  BY DEF Threads!Next, Threads!Create, Threads!Gets, Threads!MainLock, Threads!Copy,
         Threads!Signal, Threads!MainUnlock, Threads!Post, Threads!Wait,
         Threads!WakesUp, Threads!ThreadLock, Threads!PrintLine,
         Threads!ThreadUnlock, Threads!MainStep, Threads!ThreadStep

\* The program started is the only one that does anything.
LEMMA OneProgram ==
  ASSUME [Next]_vars
  PROVE  /\ UNCHANGED program
         /\ Readers!Next \/ UNCHANGED readers
         /\ Threads!Next \/ UNCHANGED handover
         /\ Net!Next \/ UNCHANGED network
         /\ Display!Next \/ UNCHANGED display
  BY ReadersStay, ThreadsStay, NetStay, DisplayStays DEF Next, vars

-----------------------------------------------------------------------------
\* The two hand-overs.  Mutual exclusion alone is not inductive: pthread1.c
\* loses the mutex while main is inside.  What saves it is that the thread, on
\* its way to the line, asks for the mutex a second time: while main is inside,
\* a thread at that lock meets a mutex that is not free (SecondLockWaits), be it
\* main's or the thread's own.
Copying  == {"copy", "copy rest", "signal", "unlock"}
Printing == {"print", "print rest", "unlock"}

\* Main is at places of its own program.
OwnPlaces ==
  /\ mainAt = "signal" => program = "condition"
  /\ mainAt = "post" => program = "semaphore"

\* Main, or the thread, is inside, and not both.
Exclusion ==
  /\ mainAt \in Copying => threadAt \notin Printing
  /\ threadAt \in Printing => mutex = "thread"

\* While main is inside, the thread's lock does not succeed; in pthread.c the
\* mutex is then main's.
SecondLockWaits ==
  mainAt \in Copying =>
    /\ threadAt = "lock" => mutex # "free"
    /\ program = "semaphore" => mutex = "main"

\* The two halves differ only in the middle of the copy, and the first half
\* that the thread has read is still there when it reads the second.
Halves ==
  /\ IF mainAt = "copy rest" THEN input_buf[1] = line ELSE input_buf[1] = input_buf[2]
  /\ threadAt = "print rest" => read = input_buf[1]

ThreadsInv == /\ Threads!HandoverTypeOK /\ OwnPlaces /\ Exclusion
              /\ SecondLockWaits /\ Halves /\ Threads!NoTornLine

\* Where main goes from each place where it may be.
LEMMA MainGoesOn ==
  ASSUME Threads!Threaded
  PROVE  /\ Threads!MainAfter["gets"] = "lock" /\ Threads!MainAfter["lock"] = "copy"
         /\ Threads!MainAfter["copy"] = "copy rest"
         /\ program = "semaphore" =>
              /\ Threads!MainAfter["rest"] = "unlock" /\ Threads!MainAfter["unlock"] = "post"
              /\ Threads!MainAfter["post"] = "gets"
         /\ program = "condition" =>
              /\ Threads!MainAfter["rest"] = "signal" /\ Threads!MainAfter["signal"] = "unlock"
              /\ Threads!MainAfter["unlock"] = "gets"
<1>1. CASE program = "semaphore"
  BY <1>1 DEF Threads!MainAfter
<1>2. CASE program = "condition"
  BY <1>2 DEF Threads!MainAfter
<1>3. QED
  BY <1>1, <1>2 DEF Threads!Threaded

LEMMA ThreadsInit == Threads!Init => ThreadsInv
  BY DEF Threads!Init, ThreadsInv, Threads!HandoverTypeOK, OwnPlaces, Exclusion,
         SecondLockWaits, Halves, Threads!NoTornLine, Copying, Printing

LEMMA ThreadsNext == ThreadsInv /\ [Next]_vars => ThreadsInv'
<1> SUFFICES ASSUME ThreadsInv, [Next]_vars  PROVE ThreadsInv'
  OBVIOUS
<1>0. UNCHANGED program /\ (Threads!Next \/ UNCHANGED handover)
  BY OneProgram
<1>13. CASE UNCHANGED handover
  BY <1>0, <1>13 DEF handover, ThreadsInv, Threads!HandoverTypeOK, OwnPlaces, Exclusion,
     SecondLockWaits, Halves, Threads!NoTornLine, Copying, Printing
<1> SUFFICES ASSUME Threads!Next  PROVE ThreadsInv'
  BY <1>0, <1>13
<1>14. line \in Nat /\ sem \in Nat
  BY DEF ThreadsInv, Threads!HandoverTypeOK
<1>15. Threads!Gets => line' \in Nat
  BY <1>14 DEF Threads!Gets
<1>16. Threads!Post => sem' \in Nat
  BY <1>14 DEF Threads!Post
<1>17. Threads!Wait => sem' \in Nat
  BY <1>14 DEF Threads!Wait
<1>18. Threads!Threaded
  BY DEF Threads!Next
<1> USE <1>18 DEF ThreadsInv, Threads!HandoverTypeOK, Threads!Threaded,
            OwnPlaces, Exclusion, SecondLockWaits, Halves, Threads!NoTornLine,
            Copying, Printing, Threads!mainVars, Threads!threadVars
<1>1. CASE Threads!Create
  BY <1>1 DEF Threads!Create
<1>2. CASE Threads!Gets
  <2>1. mainAt' = "lock"
    BY <1>2, MainGoesOn DEF Threads!Gets
  <2>2. line' \in Nat
    BY <1>2, <1>15
  <2>3. QED
    BY <1>2, <2>1, <2>2 DEF Threads!Gets
<1>3. CASE Threads!MainLock
  BY <1>3, MainGoesOn DEF Threads!MainLock
<1>4. CASE Threads!Copy
  <2>1. CASE mainAt = "copy"
    <3>1. mainAt' = "copy rest" /\ input_buf' = <<line, input_buf[2]>>
      BY <1>4, <2>1, MainGoesOn DEF Threads!Copy
    <3>2. Halves'
      BY <1>4, <2>1, <3>1 DEF Threads!Copy
    <3>3. QED
      BY <1>4, <2>1, <3>1, <3>2 DEF Threads!Copy
  <2>2. CASE mainAt = "copy rest"
    <3>1. input_buf' = <<input_buf[1], line>> /\ mainAt' \in {"unlock", "signal"}
      BY <1>4, <2>2, MainGoesOn DEF Threads!Copy
    <3>2. Halves'
      BY <1>4, <2>2, <3>1 DEF Threads!Copy
    <3>3. QED
      BY <1>4, <2>2, <3>1, <3>2, MainGoesOn DEF Threads!Copy
  <2>3. QED
    BY <1>4, <2>1, <2>2 DEF Threads!Copy
<1>5. CASE Threads!Signal
  BY <1>5, MainGoesOn DEF Threads!Signal
<1>6. CASE Threads!MainUnlock
  BY <1>6, MainGoesOn DEF Threads!MainUnlock
<1>7. CASE Threads!Post
  <2>1. mainAt' = "gets"
    BY <1>7, MainGoesOn DEF Threads!Post
  <2>2. sem' \in Nat
    BY <1>7, <1>16
  <2>3. QED
    BY <1>7, <2>1, <2>2 DEF Threads!Post
<1>8. CASE Threads!Wait
  <2>1. sem' \in Nat
    BY <1>8, <1>17
  <2>2. QED
    BY <1>8, <2>1 DEF Threads!Wait
<1>9. CASE Threads!WakesUp
  BY <1>9 DEF Threads!WakesUp
<1>10. CASE Threads!ThreadLock
  BY <1>10 DEF Threads!ThreadLock
<1>11. CASE Threads!PrintLine
  <2>1. mainAt \notin Copying
    BY <1>11 DEF Threads!PrintLine
  <2>2. CASE threadAt = "print"
    BY <1>11, <2>1, <2>2 DEF Threads!PrintLine
  <2>3. CASE threadAt = "print rest"
    <3>1. printedLine' = <<read, input_buf[2]>> /\ read = input_buf[2] /\ read' = read
      BY <1>11, <2>1, <2>3 DEF Threads!PrintLine
    <3>2. Threads!NoTornLine' /\ printedLine' \in Nat \X Nat
      BY <3>1
    <3>3. QED
      BY <1>11, <2>1, <2>3, <3>2 DEF Threads!PrintLine
  <2>4. QED
    BY <1>11, <2>2, <2>3 DEF Threads!PrintLine
<1>12. CASE Threads!ThreadUnlock
  BY <1>12 DEF Threads!ThreadUnlock
<1>19. QED
  BY <1>1, <1>2, <1>3, <1>4, <1>5, <1>6, <1>7, <1>8, <1>9, <1>10, <1>11, <1>12
  DEF Threads!Next, Threads!MainStep, Threads!ThreadStep

\* Whatever is typed, whenever the thread is woken, the thread prints no line
\* torn from two, in pthread.c with its semaphore and in pthread1.c with its
\* wait on a mutex it does not hold.
THEOREM NoTornLineCorrect == Spec => []NoTornLine
<1>1. Init => ThreadsInv
  BY ThreadsInit DEF Init
<1>2. ThreadsInv => NoTornLine
  BY DEF ThreadsInv, NoTornLine
<1>3. QED
  BY <1>1, ThreadsNext, <1>2, PTL DEF Spec

\* While main copies, the thread is not printing.
THEOREM OneInside == Spec => [](mainAt \in Copying => threadAt \notin Printing)
<1>1. Init => ThreadsInv
  BY ThreadsInit DEF Init
<1>2. ThreadsInv => (mainAt \in Copying => threadAt \notin Printing)
  BY DEF ThreadsInv, Exclusion
<1>3. QED
  BY <1>1, ThreadsNext, <1>2, PTL DEF Spec

-----------------------------------------------------------------------------
\* The input programs.  The aio programs have one buffer: the invariant says
\* when its contents are still to be printed (Pending), and that no request is
\* running then.

\* The request of an aio program runs, or is done, only between its handlers;
\* the other programs have none.
Places ==
  IF program \in Readers!Aio
  THEN /\ at \in {"open", "idle", "print", "again"}
       /\ at # "idle" => request = "none"
  ELSE at \notin {"idle", "print", "again"} /\ request = "none"

\* An input is in the buffer that is not printed.
Pending == request = "done" \/ at = "print"

\* The inputs printed are the inputs taken, but for the one in the buffer.
Counted == IF Pending THEN Len(shown) + 1 = taken /\ event = taken ELSE Len(shown) = taken

\* What tslib's program has opened at each step of its set-up.
SetUpSoFar ==
  /\ at = "open" => opened = {}
  /\ at = "list" => program = "info"
  /\ at \in {"slots", "malloc"} => opened = {"dev"}
  /\ at = "calloc" => opened = {"dev", "samp_mt"}

ReadersInv ==
  /\ Readers!ReadersTypeOK /\ Places /\ Counted /\ SetUpSoFar
  /\ Readers!DeviceClosed /\ Readers!ReadInOrder

\* Input n is printed as the n-th.
LEMMA PrintNext ==
  ASSUME NEW n \in 1 .. MaxInputs, shown \in Seq(1 .. MaxInputs), Readers!ReadInOrder,
         n = Len(shown) + 1, shown' = Append(shown, n)
  PROVE  /\ shown' \in Seq(1 .. MaxInputs) /\ Len(shown') = n
         /\ Readers!ReadInOrder'
<1>1. /\ shown' \in Seq(1 .. MaxInputs) /\ Len(shown') = n /\ DOMAIN shown' = 1 .. n
      /\ \A k \in 1 .. n : shown'[k] = IF k = n THEN n ELSE shown[k]
      /\ DOMAIN shown = 1 .. n - 1
  OBVIOUS
<1>2. QED
  BY <1>1 DEF Readers!ReadInOrder

LEMMA EmptyIn == <<>> \in Seq(1 .. MaxInputs) /\ Len(<<>>) = 0 /\ DOMAIN <<>> = {}
  OBVIOUS

LEMMA ReadersInit == Readers!Init => ReadersInv
<1>1. MaxInputs \in Nat
  BY ExamplesAssumption
<1>2. Readers!Init => Readers!ReadersTypeOK
  <2>1. Readers!Init => shown \in Seq(1 .. MaxInputs)
    BY EmptyIn DEF Readers!Init
  <2>2. Readers!Init => plugged \in BOOLEAN /\ watching \in BOOLEAN /\ opened = {}
    BY Zenon DEF Readers!Init
  <2>3. Readers!Init => /\ at = "open" /\ request = "none" /\ arrived = 0 /\ taken = 0
                        /\ event = 0
    BY Zenon DEF Readers!Init
  <2>4. QED
    BY <1>1, <2>1, <2>2, <2>3 DEF Readers!ReadersTypeOK
<1>5. Readers!Init => Counted /\ Readers!ReadInOrder
  BY EmptyIn DEF Readers!Init, Counted, Pending, Readers!ReadInOrder
<1>3. Readers!Init => Places /\ SetUpSoFar /\ Readers!DeviceClosed
  BY DEF Readers!Init, Places, SetUpSoFar, Readers!DeviceClosed
<1>4. QED
  BY <1>2, <1>3, <1>5 DEF ReadersInv

LEMMA ReadersNext == ReadersInv /\ [Next]_vars => ReadersInv'
<1> SUFFICES ASSUME ReadersInv, [Next]_vars  PROVE ReadersInv'
  OBVIOUS
<1>a. UNCHANGED program /\ (Readers!Next \/ UNCHANGED readers)
  BY OneProgram
<1>b. MaxInputs \in Nat
  BY ExamplesAssumption
<1> USE <1>b DEF ReadersInv, Readers!ReadersTypeOK, Places, Counted, Pending, SetUpSoFar,
                 Readers!DeviceClosed, Readers!aioVars
<1>1. CASE Readers!Arrive
  BY <1>1 DEF Readers!Arrive, Readers!ReadInOrder
<1>2. CASE Readers!Unplug
  BY <1>2 DEF Readers!Unplug, Readers!ReadInOrder
<1>3. CASE Readers!Open
  <2>1. /\ at' \in {"wait", "idle", "slots", "list", "read", "end"}
        /\ at' = "list" => program = "info"
        /\ program \in Readers!Aio => at' = "idle"
        /\ program \notin Readers!Aio => at' # "idle" /\ request' = "none"
        /\ at' = "slots" => opened' = {"dev"}
        /\ at' = "end" => opened' = {}
        /\ program = "tslib" => at' # "read"
    BY <1>3 DEF Readers!Open, Readers!FirstStep, Readers!Polling, Readers!Aio
  <2>2. request' \in {"none", "started", "failed"} /\ opened' \subseteq {"dev"}
    BY <1>3 DEF Readers!Open
  <2>3. watching' \in BOOLEAN
    <3>1. watching' = (program \in Readers!Polling) \/ watching' = watching
      BY <1>3 DEF Readers!Open
    <3>2. CASE program \in Readers!Polling
      BY <3>1, <3>2, Zenon
    <3>3. CASE program \notin Readers!Polling
      <4>1. (program \in Readers!Polling) = FALSE
        BY <3>3
      <4>2. FALSE \in BOOLEAN
        OBVIOUS
      <4>3. QED
        BY <3>1, <4>1, <4>2, Zenon
    <3>4. QED
      BY <3>2, <3>3
  <2>4. QED
    BY <1>3, <2>1, <2>2, <2>3 DEF Readers!Open, Readers!ReadInOrder
<1>14. CASE Readers!List
  BY <1>14 DEF Readers!List, Readers!ReadInOrder
<1>4. CASE Readers!TslibSetUp
  BY <1>4 DEF Readers!TslibSetUp, Readers!ReadInOrder
<1>5. CASE Readers!SelectReturns
  BY <1>5 DEF Readers!SelectReturns, Readers!ReadInOrder, Readers!Aio
<1>6. CASE Readers!PollReturns
  BY <1>6 DEF Readers!PollReturns, Readers!ReadInOrder, Readers!Aio
<1>7. CASE Readers!ReadInput
  <2>1. taken' \in 1 .. MaxInputs /\ taken' <= arrived
    BY <1>7 DEF Readers!ReadInput, Readers!Waiting
  <2>2. taken' = Len(shown) + 1 /\ shown' = Append(shown, taken')
    BY <1>7 DEF Readers!ReadInput
  <2>3. shown' \in Seq(1 .. MaxInputs) /\ Len(shown') = taken' /\ Readers!ReadInOrder'
    BY <2>1, <2>2, PrintNext
  <2>4. QED
    BY <1>7, <2>1, <2>2, <2>3 DEF Readers!ReadInput
<1>8. CASE Readers!ReadFails
  BY <1>8 DEF Readers!ReadFails, Readers!ReadInOrder, Readers!Aio, Readers!Polling
<1>9. CASE Readers!Complete
  BY <1>9 DEF Readers!Complete, Readers!ReadInOrder, Readers!Waiting
<1>10. CASE Readers!Notify
  BY <1>10 DEF Readers!Notify, Readers!ReadInOrder
<1>11. CASE Readers!Handler
  <2>1. CASE at = "print"
    <3>1. shown' = Append(shown, event) /\ event = Len(shown) + 1 /\ taken' = event
      BY <1>11, <2>1 DEF Readers!Handler
    <3>2. event \in 1 .. MaxInputs
      BY <3>1
    <3>3. shown' \in Seq(1 .. MaxInputs) /\ Len(shown') = event /\ Readers!ReadInOrder'
      BY <3>1, <3>2, PrintNext
    <3>4. QED
      BY <1>11, <2>1, <3>1, <3>3 DEF Readers!Handler, Readers!Aio
  <2>2. CASE at = "again"
    BY <1>11, <2>2 DEF Readers!Handler, Readers!ReadInOrder
  <2>3. QED
    BY <1>11, <2>1, <2>2 DEF Readers!Handler
<1>12. CASE UNCHANGED readers
  BY <1>a, <1>12 DEF readers, Readers!ReadInOrder
<1>13. QED
  BY <1>a, <1>1, <1>2, <1>3, <1>4, <1>5, <1>6, <1>7, <1>8, <1>9, <1>10, <1>11, <1>12,
     <1>14
  DEF Readers!Next, Readers!ReaderStep

\* However many inputs come, and however the device answers, the programs print
\* each input once and in its turn: the buffer of the aio programs is not
\* filled again before it is printed.
THEOREM ReadInOrderCorrect == Spec => []ReadInOrder
<1>1. Init => ReadersInv
  BY ReadersInit DEF Init
<1>2. ReadersInv => ReadInOrder
  BY DEF ReadersInv, ReadInOrder
<1>3. QED
  BY <1>1, ReadersNext, <1>2, PTL DEF Spec

-----------------------------------------------------------------------------
\* The character displays.  The letters of the pixel program lie on a grid of
\* 8 x 16 pixels that begins in the middle of the screen, 10 columns wide and 4
\* rows high, whichever of them are put; the Chinese character is left of them.
Middle(x) == x \div 2

Letter(p, q) == Display!Box(Middle(panel.x_res) + 8 * p, Middle(panel.y_res) + 16 * q, 8, 16)
Chinese      == Display!Box(panel.x_res \div 8, panel.y_res \div 8, 16, 16)
Glyphs       == {Display!Box(Middle(panel.x_res), Middle(panel.y_res), w, h) :
                   w \in 0 .. panel.x_res - Middle(panel.x_res),
                   h \in 0 .. panel.y_res - Middle(panel.y_res)}

\* Where the next letter goes: a newline begins a row.
NextLetter ==
  LET At(p, q) == <<Middle(panel.x_res) + 8 * p, Middle(panel.y_res) + 16 * q>>
  IN  \/ i \in 0 .. 10 /\ pen = At(i, 1)
      \/ i \in 11 .. 15 /\ pen = At(i - 11, 2)
      \/ i \in 16 .. 22 /\ pen = At(i - 16, 3)

Drawing == step \in {"draw", "string", "stat", "map file", "chinese", "render"}

Drawn ==
  /\ Drawing \/ step = "map" \/ boxes # {} => panel \in Panel
  /\ step \in {"open", "info", "map", "draw", "render"} => i = 0 /\ boxes = {}
  /\ step = "open" => fds = {}
  /\ step = "render" => program = "freetype" /\ fds = {"font"}
  /\ step \in {"stat", "map file", "chinese"} => program = "pixel"
  /\ step = "string" => NextLetter /\ program = "pixel"
  /\ \A b \in boxes :
       IF program = "freetype" THEN b \in Glyphs /\ boxes = {b}
       ELSE b = Chinese \/ \E p \in 0 .. 9, q \in 0 .. 3 : b = Letter(p, q)

DisplayInv == Display!DisplayTypeOK /\ Display!FilesClosed /\ Drawn

\* A screen is as ExamplesAssumption has it.
LEMMA PanelType ==
  ASSUME NEW s \in Panel
  PROVE  /\ s.x_res \in Nat /\ s.y_res \in Nat /\ s.bpp \div 8 \in Nat
         /\ s.x_res > 0 /\ s.y_res > 0
<1>1. {s.x_res, s.y_res} \subseteq Nat \ {0} /\ s.bpp \in {8, 16, 32}
  BY ExamplesAssumption
<1>2. 8 \div 8 \in Nat /\ 16 \div 8 \in Nat /\ 32 \div 8 \in Nat
  OBVIOUS
<1>3. QED
  BY <1>1, <1>2

LEMMA HalfType ==
  ASSUME NEW x \in Nat
  PROVE  /\ Middle(x) \in Nat /\ 2 * Middle(x) <= x /\ x <= 2 * Middle(x) + 1
         /\ x \div 8 \in Nat /\ 8 * (x \div 8) <= x
  BY DEF Middle

\* The bytes of the character are in HZK16.
LEMMA GlyphInFile == Display!GlyphOffset + 32 <= Display!FileSize
<1>1. GB2312[1] \in 161 .. 247 /\ GB2312[2] \in 161 .. 254
  BY ExamplesAssumption
<1> DEFINE a == GB2312[1]
           b == GB2312[2]
<1>2. /\ Display!GlyphOffset = ((a - 161) * 94 + b - 161) * 32
      /\ Display!FileSize = 87 * 94 * 32
  BY DEF Display!GlyphOffset, Display!FileSize
<1>3. a \in 161 .. 247 /\ b \in 161 .. 254
  BY <1>1
<1> HIDE DEF a, b
<1>4. (a - 161) * 94 + b - 161 \in Nat /\ (a - 161) * 94 + b - 161 <= 8177
  BY <1>3
<1>5. QED
  BY <1>2, <1>4

\* What of a bitmap is on the screen is no wider than the screen's half.
LEMMA Clipped ==
  ASSUME NEW x \in Nat, NEW seen, x > 0, \A k \in seen : k \in Nat /\ Middle(x) + k < x
  PROVE  Cardinality(seen) \in 0 .. x - Middle(x)
<1> DEFINE room == 0 .. (x - Middle(x) - 1)
<1>1. Middle(x) \in Nat /\ 2 * Middle(x) <= x
  BY HalfType
<1>2. seen \in SUBSET room
  BY <1>1
<1>3. IsFiniteSet(room) /\ Cardinality(room) = x - Middle(x)
  <2>1. 0 \in Int /\ x - Middle(x) - 1 \in Int /\ 0 <= x - Middle(x) - 1
    BY <1>1
  <2> QED
    BY <2>1, FS_Interval, <1>1
<1> HIDE DEF room
<1>4. Cardinality(seen) \in Nat /\ Cardinality(seen) <= Cardinality(room)
  BY <1>2, <1>3, FS_Subset, FS_CardinalityType
<1>5. QED
  BY <1>1, <1>3, <1>4

\* CharDisplay's name for the size of a set, and this module's.
LEMMA SameCardinality == \A S : Display!Cardinality(S) = Cardinality(S)
  BY DEF Cardinality, Display!Cardinality

LEMMA DisplayInit == Display!Init => DisplayInv
  BY DEF Display!Init, DisplayInv, Display!DisplayTypeOK, Display!FilesClosed, Drawn,
         Drawing, Display!StrLen

\* The next letter is on the grid, and is put there or begins a row.
LEMMA PutsOnGrid ==
  ASSUME panel \in Panel, NextLetter, i \in 0 .. 21
  PROVE  /\ \E p \in 0 .. 9, q \in 0 .. 3 : i + 1 \notin {11, 16} =>
              Letter(p, q) = Display!Box(pen[1], pen[2], 8, 16)
         /\ LET x == Middle(panel.x_res)
                next == IF i + 1 \in {11, 16} THEN <<x, pen[2] + 16>>
                                              ELSE <<pen[1] + 8, pen[2]>>
            IN  (pen' = next /\ i' = i + 1 /\ UNCHANGED panel) => NextLetter'
<1> DEFINE x == Middle(panel.x_res)
           y == Middle(panel.y_res)
<1>1. x \in Nat /\ y \in Nat
  BY PanelType, HalfType
<1> HIDE DEF x, y
<1>2. \/ i \in 0 .. 10 /\ pen[1] = x + 8 * i /\ pen[2] = y + 16
      \/ i \in 11 .. 15 /\ pen[1] = x + 8 * (i - 11) /\ pen[2] = y + 32
      \/ i \in 16 .. 22 /\ pen[1] = x + 8 * (i - 16) /\ pen[2] = y + 48
  BY DEF NextLetter, x, y
<1>3. \E p \in 0 .. 9, q \in 0 .. 3 : i + 1 \notin {11, 16} =>
        x + 8 * p = pen[1] /\ y + 16 * q = pen[2]
  <2>1. CASE i \in 0 .. 9
    BY <1>1, <1>2, <2>1
  <2>2. CASE i \in 11 .. 14
    <3>1. i - 11 \in 0 .. 9 /\ 2 \in 0 .. 3
      BY <2>2
    <3>2. x + 8 * (i - 11) = pen[1] /\ y + 16 * 2 = pen[2]
      BY <1>1, <1>2, <2>2
    <3>3. QED
      BY <3>1, <3>2
  <2>3. CASE i \in 16 .. 21
    <3>1. i - 16 \in 0 .. 9 /\ 3 \in 0 .. 3
      BY <2>3
    <3>2. x + 8 * (i - 16) = pen[1] /\ y + 16 * 3 = pen[2]
      BY <1>1, <1>2, <2>3
    <3>3. QED
      BY <3>1, <3>2
  <2>4. CASE i + 1 \in {11, 16}
    BY <2>4
  <2>5. QED
    BY <2>1, <2>2, <2>3, <2>4
<1>4. ASSUME pen' = (IF i + 1 \in {11, 16} THEN <<x, pen[2] + 16>>
                                           ELSE <<pen[1] + 8, pen[2]>>),
             i' = i + 1
      PROVE  \/ i' \in 0 .. 10 /\ pen' = <<x + 8 * i', y + 16 * 1>>
             \/ i' \in 11 .. 15 /\ pen' = <<x + 8 * (i' - 11), y + 16 * 2>>
             \/ i' \in 16 .. 22 /\ pen' = <<x + 8 * (i' - 16), y + 16 * 3>>
  <2>1. CASE i \in 0 .. 9 \/ i \in 11 .. 14 \/ i \in 16 .. 21
    <3>1. pen' = <<pen[1] + 8, pen[2]>>
      BY <1>4, <2>1
    <3>2. QED
      BY <1>1, <1>2, <1>4, <2>1, <3>1
  <2>2. CASE i \in {10, 15}
    <3>1. pen' = <<x, pen[2] + 16>>
      BY <1>4, <2>2
    <3>2. QED
      BY <1>1, <1>2, <1>4, <2>2, <3>1
  <2>3. QED
    BY <2>1, <2>2
<1>5. QED
  BY <1>3, <1>4 DEF NextLetter, Letter, x, y

LEMMA DisplayNext == DisplayInv /\ [Next]_vars => DisplayInv'
<1> SUFFICES ASSUME DisplayInv, [Next]_vars  PROVE DisplayInv'
  OBVIOUS
<1>0. UNCHANGED program /\ (Display!Next \/ UNCHANGED display)
  BY OneProgram
<1>1. CASE UNCHANGED display
  <2>1. UNCHANGED <<program, step, fds, maps, panel, i, pen, boxes>>
    BY <1>0, <1>1 DEF display
  <2>2. UNCHANGED <<NextLetter, Chinese, Glyphs>> /\ \A p, q : Letter(p, q)' = Letter(p, q)
    BY <2>1 DEF NextLetter, Glyphs, Letter, Chinese
  <2>3. Drawn'
    BY <2>1, <2>2 DEF DisplayInv, Drawn, Drawing
  <2>4. QED
    BY <2>1, <2>3 DEF DisplayInv, Display!DisplayTypeOK, Display!FilesClosed
<1>2. CASE Display!OpenFramebuffer
  <2>1. boxes' = {} /\ i' = 0 /\ i = 0 /\ boxes = {}
    BY <1>2 DEF Display!OpenFramebuffer, Drawn,
    DisplayInv, Display!DisplayTypeOK, Display!FilesClosed, Display!StrLen, Drawing
  <2>2. QED
    BY <1>2, <2>1 DEF Display!OpenFramebuffer, Drawn,
    DisplayInv, Display!DisplayTypeOK, Display!FilesClosed, Display!StrLen, Drawing
<1>3. CASE Display!PutLetters
  <2> DEFINE x == Middle(panel.x_res)
             y == Middle(panel.y_res)
  <2>1. panel \in Panel /\ panel' = panel /\ program' = program /\ program = "pixel"
        /\ i = 0 /\ i' = 0 /\ step' = "string"
    BY <1>3 DEF Display!PutLetters, Drawn,
    DisplayInv, Display!DisplayTypeOK, Display!FilesClosed, Display!StrLen, Drawing
  <2>2. x \in Nat /\ y \in Nat
    BY <2>1, PanelType, HalfType
  <2>3. /\ pen' = <<x, y + 16>>
        /\ boxes' = {Display!Box(x, y, 8, 16), Display!Box(x + 8, y, 8, 16)}
    BY <1>3 DEF Display!PutLetters, Middle
  <2>4. NextLetter'
    BY <2>1, <2>2, <2>3 DEF NextLetter
  <2>5. Display!Box(x, y, 8, 16) = Letter(0, 0) /\ Display!Box(x + 8, y, 8, 16) = Letter(1, 0)
    BY <2>2 DEF Letter
  <2>6. \A p, q : Letter(p, q)' = Letter(p, q)
    BY <2>1 DEF Letter
  <2>7. \A b \in boxes' : \E p \in 0 .. 9, q \in 0 .. 3 : b = Letter(p, q)'
    <3>1. 0 \in 0 .. 9 /\ 1 \in 0 .. 9 /\ 0 \in 0 .. 3
      OBVIOUS
    <3> HIDE DEF x, y
    <3>2. QED
      BY <2>3, <2>5, <2>6, <3>1
  <2> HIDE DEF x, y
  <2>8. Drawn'
    BY <2>1, <2>4, <2>7 DEF Drawn, Drawing
  <2>9. QED
    BY <1>3, <2>1, <2>8 DEF Display!PutLetters,
    DisplayInv, Display!DisplayTypeOK, Display!FilesClosed, Display!StrLen, Drawing
<1>4. CASE Display!PutStr
  <2>1. panel \in Panel /\ panel' = panel /\ program' = program /\ program = "pixel"
        /\ i \in 0 .. 21 /\ i' = i + 1 /\ step' = "string" /\ NextLetter
    BY <1>4 DEF Display!PutStr, Drawn,
    DisplayInv, Display!DisplayTypeOK, Display!FilesClosed, Display!StrLen, Drawing
  <2>2. pen' = IF i + 1 \in {11, 16} THEN <<Middle(panel.x_res), pen[2] + 16>>
                                     ELSE <<pen[1] + 8, pen[2]>>
    BY <1>4 DEF Display!PutStr, Display!Newlines, Middle
  <2>3. NextLetter'
    BY <2>1, <2>2, PutsOnGrid
  <2>4. \A b \in boxes' \ boxes : b = Display!Box(pen[1], pen[2], 8, 16)
                                  /\ i + 1 \notin {11, 16}
    BY <1>4 DEF Display!PutStr, Display!Newlines
  <2>5. \A b \in boxes' \ boxes : \E p \in 0 .. 9, q \in 0 .. 3 : b = Letter(p, q)
    BY <2>1, <2>4, PutsOnGrid
  <2>6. Chinese' = Chinese /\ \A p, q : Letter(p, q)' = Letter(p, q)
    BY <2>1 DEF Letter, Chinese
  <2>7. \A b \in boxes' : b = Chinese' \/ \E p \in 0 .. 9, q \in 0 .. 3 : b = Letter(p, q)'
    BY <2>1, <2>5, <2>6 DEF DisplayInv, Drawn
  <2>8. Drawn'
    BY <2>1, <2>3, <2>7 DEF Drawn, Drawing
  <2>9. QED
    BY <1>4, <2>1, <2>8 DEF Display!PutStr,
    DisplayInv, Display!DisplayTypeOK, Display!FilesClosed, Display!StrLen, Drawing
<1>5. CASE Display!OpenCnCharFile
  <2>1. UNCHANGED <<program, panel, boxes>> /\ program = "pixel" /\ Drawing
        /\ step' \in {"stat", "map file", "chinese", "end"}
    BY <1>5 DEF Display!OpenCnCharFile,
    DisplayInv, Display!DisplayTypeOK, Display!FilesClosed, Display!StrLen, Drawing
  <2>2. Drawn'
    BY <2>1 DEF DisplayInv, Drawn, Drawing, Letter, Chinese
  <2>3. QED
    BY <1>5, <2>2, GlyphInFile DEF Display!OpenCnCharFile,
    DisplayInv, Display!DisplayTypeOK, Display!FilesClosed, Display!StrLen, Drawing
<1>6. CASE Display!PutChinese
  <2>1. UNCHANGED <<program, panel>> /\ program = "pixel" /\ Drawing /\ step' = "end"
        /\ boxes' = boxes \cup {Chinese} /\ Chinese' = Chinese
        /\ \A p, q : Letter(p, q)' = Letter(p, q)
    BY <1>6 DEF Display!PutChinese, Letter, Chinese, Drawing
  <2>2. Drawn'
    BY <2>1 DEF DisplayInv, Drawn, Drawing
  <2>3. QED
    BY <1>6, <2>2 DEF Display!PutChinese,
    DisplayInv, Display!DisplayTypeOK, Display!FilesClosed, Display!StrLen, Drawing
<1>9. CASE Display!LoadFace
  <2>1. /\ UNCHANGED <<program, panel, boxes, i>> /\ program = "freetype" /\ step = "draw"
        /\ step' \in {"render", "undefined"}
        /\ step' = "render" => fds' = {"font"}
    BY <1>9 DEF Display!LoadFace
  <2>2. panel \in Panel /\ boxes = {} /\ i = 0
    BY <2>1 DEF DisplayInv, Drawn, Drawing
  <2>3. Drawn'
    BY <2>1, <2>2 DEF Drawn, Drawing
  <2>4. QED
    BY <1>9, <2>3 DEF Display!LoadFace, DisplayInv, Display!DisplayTypeOK, Display!FilesClosed
<1>7. CASE Display!DrawBitmap
  <2>1. UNCHANGED <<program, panel>> /\ program = "freetype" /\ step = "render"
        /\ step' \in {"end", "undefined"} /\ panel \in Panel /\ boxes = {}
    BY <1>7 DEF Display!DrawBitmap, Drawn,
    DisplayInv, Display!DisplayTypeOK, Display!FilesClosed, Display!StrLen, Drawing
  <2>2. CASE boxes' = {}
    BY <1>7, <2>1, <2>2 DEF Display!DrawBitmap, Drawn,
    DisplayInv, Display!DisplayTypeOK, Display!FilesClosed, Display!StrLen, Drawing
  <2>3. CASE boxes' # {}
    <3> DEFINE x == Middle(panel.x_res)
               y == Middle(panel.y_res)
    <3>1. PICK g \in Glyph :
            boxes' = {Display!Box(x, y,
              Cardinality({k \in 0 .. g.width - 1 : Display!Shown(panel, x + k, 0)}),
              Cardinality({k \in 0 .. g.rows - 1 : Display!Shown(panel, 0, y + k)}))}
      <4>1. boxes' # boxes
        BY <2>1, <2>3
      <4>2. QED
        BY <1>7, <4>1, SameCardinality, Zenon DEF Display!DrawBitmap, Middle
    <3> DEFINE on == {k \in 0 .. g.width - 1 : Display!Shown(panel, x + k, 0)}
               of == {k \in 0 .. g.rows - 1 : Display!Shown(panel, 0, y + k)}
    <3>2. {g.width, g.rows} \subseteq Nat
      BY ExamplesAssumption
    <3>3. Cardinality(on) \in 0 .. panel.x_res - x
      <4>1. \A k \in on : k \in Nat /\ x + k < panel.x_res
        BY <3>2 DEF Display!Shown
      <4> HIDE DEF on
      <4>2. QED
        BY <2>1, <4>1, PanelType, Clipped
    <3>4. Cardinality(of) \in 0 .. panel.y_res - y
      <4>1. \A k \in of : k \in Nat /\ y + k < panel.y_res
        BY <3>2 DEF Display!Shown
      <4> HIDE DEF of
      <4>2. QED
        BY <2>1, <4>1, PanelType, Clipped
    <3>5. boxes' = {Display!Box(x, y, Cardinality(on), Cardinality(of))}
      BY <3>1
    <3> HIDE DEF on, of
    <3>6. \A b \in boxes' : b \in Glyphs /\ boxes' = {b}
      BY <3>3, <3>4, <3>5 DEF Glyphs
    <3>7. Glyphs' = Glyphs
      BY <2>1 DEF Glyphs
    <3>8. Drawn'
      BY <2>1, <3>6, <3>7 DEF Drawn, Drawing
    <3>9. UNCHANGED <<fds, i>> /\ fds = {"font"} /\ program' = "freetype"
      BY <1>7, <2>1 DEF Display!DrawBitmap, DisplayInv, Drawn
    <3>10. Display!FilesClosed'
      BY <2>1, <2>3, <3>9 DEF Display!FilesClosed
    <3>11. maps' \subseteq {"fb", "HZK16"}
      BY <1>7 DEF Display!DrawBitmap, DisplayInv, Display!DisplayTypeOK
    <3>12. QED
      BY <2>1, <3>8, <3>9, <3>10, <3>11 DEF DisplayInv, Display!DisplayTypeOK, Display!StrLen
  <2>4. QED
    BY <2>2, <2>3
<1>8. QED
  BY <1>0, <1>1, <1>2, <1>3, <1>4, <1>5, <1>6, <1>7, <1>9 DEF Display!Next

\* A box on the screen ends in the framebuffer's mapping.
LEMMA BoxMapped ==
  ASSUME panel \in Panel, NEW b, b.x \in Nat, b.y \in Nat, b.width \in Nat \ {0},
         b.height \in Nat \ {0}, b.x + b.width <= panel.x_res,
         b.y + b.height <= panel.y_res
  PROVE  Display!PixelOffset(panel, b.x + b.width - 1, b.y + b.height - 1) + panel.bpp \div 8
           <= panel.x_res * (panel.bpp \div 8) * panel.y_res
<1> DEFINE x     == panel.x_res
           y     == panel.y_res
           bytes == panel.bpp \div 8
           px    == b.x + b.width - 1
           py    == b.y + b.height - 1
<1>1. x \in Nat /\ y \in Nat /\ bytes \in Nat
  BY PanelType
<1>2. px \in 0 .. x - 1 /\ py \in 0 .. y - 1
  BY <1>1
<1>3. py * (x * bytes) + px * bytes + bytes <= x * bytes * y
  <2> HIDE DEF x, y, bytes, px, py
  <2>1. QED
    BY <1>1, <1>2, PixelInside
<1>4. Display!PixelOffset(panel, px, py) = py * (x * bytes) + px * bytes
  BY DEF Display!PixelOffset
<1>5. QED
  BY <1>3, <1>4

\* A letter, and the Chinese character, on a screen that is large enough.
LEMMA LetterOnScreen ==
  ASSUME panel \in Panel, Display!Fits, NEW p \in 0 .. 9, NEW q \in 0 .. 3
  PROVE  LET b == Letter(p, q)
         IN  /\ b.x \in Nat /\ b.y \in Nat /\ b.width = 8 /\ b.height = 16
             /\ b.x = Middle(panel.x_res) + 8 * p /\ b.y = Middle(panel.y_res) + 16 * q
             /\ b.x + 8 <= panel.x_res /\ b.y + 16 <= panel.y_res
<1>1. panel.x_res \in Nat /\ panel.y_res \in Nat
  BY PanelType
<1>2. /\ Middle(panel.x_res) \in Nat /\ 2 * Middle(panel.x_res) <= panel.x_res
      /\ Middle(panel.y_res) \in Nat /\ 2 * Middle(panel.y_res) <= panel.y_res
  BY <1>1, HalfType
<1>3. panel.x_res >= 160 /\ panel.y_res >= 128
  BY DEF Display!Fits
<1>4. QED
  BY <1>1, <1>2, <1>3 DEF Letter, Display!Box

LEMMA ChineseOnScreen ==
  ASSUME panel \in Panel, Display!Fits
  PROVE  /\ Chinese.x \in Nat /\ Chinese.y \in Nat
         /\ Chinese.width = 16 /\ Chinese.height = 16
         /\ Chinese.x + 16 <= Middle(panel.x_res) /\ Chinese.x + 16 <= panel.x_res
         /\ Chinese.y + 16 <= panel.y_res
<1>1. panel.x_res \in Nat /\ panel.y_res \in Nat
  BY PanelType
<1>2. /\ Middle(panel.x_res) \in Nat /\ panel.x_res <= 2 * Middle(panel.x_res) + 1
      /\ 2 * Middle(panel.x_res) <= panel.x_res
      /\ panel.x_res \div 8 \in Nat /\ 8 * (panel.x_res \div 8) <= panel.x_res
      /\ panel.y_res \div 8 \in Nat /\ 8 * (panel.y_res \div 8) <= panel.y_res
  BY <1>1, HalfType
<1>3. panel.x_res >= 160 /\ panel.y_res >= 128
  BY DEF Display!Fits
<1>4. QED
  BY <1>1, <1>2, <1>3 DEF Chinese, Display!Box

\* Boxes that share no pixel.
SideBySide(b, c) == \/ b.x + b.width <= c.x \/ c.x + c.width <= b.x
                    \/ b.y + b.height <= c.y \/ c.y + c.height <= b.y

LEMMA LettersApart ==
  ASSUME panel \in Panel, Display!Fits, NEW p \in 0 .. 9, NEW q \in 0 .. 3,
         NEW r \in 0 .. 9, NEW s \in 0 .. 3
  PROVE  Letter(p, q) = Letter(r, s) \/ SideBySide(Letter(p, q), Letter(r, s))
<1> DEFINE b == Letter(p, q)
           c == Letter(r, s)
<1>1. CASE p = r /\ q = s
  BY <1>1
<1>2. CASE p # r \/ q # s
  <2>1. /\ b.x = Middle(panel.x_res) + 8 * p /\ b.y = Middle(panel.y_res) + 16 * q
        /\ c.x = Middle(panel.x_res) + 8 * r /\ c.y = Middle(panel.y_res) + 16 * s
        /\ b.width = 8 /\ b.height = 16 /\ c.width = 8 /\ c.height = 16
    BY LetterOnScreen
  <2>2. Middle(panel.x_res) \in Nat /\ Middle(panel.y_res) \in Nat
    BY PanelType, HalfType
  <2> HIDE DEF b, c
  <2>3. SideBySide(b, c)
    BY <1>2, <2>1, <2>2 DEF SideBySide
  <2>4. QED
    BY <2>3 DEF b, c
<1>3. QED
  BY <1>1, <1>2

\* Every box that is drawn ends in the framebuffer, and no character is drawn
\* over another: for freetype on every screen, for the pixel program on every
\* one that is large enough for its string.
THEOREM BoxesInFramebufferCorrect == Spec => []BoxesInFramebuffer
<1>1. Init => DisplayInv
  BY DisplayInit DEF Init
<1>2. DisplayInv => BoxesInFramebuffer
  <2> SUFFICES ASSUME DisplayInv, boxes # {}, program = "freetype" \/ Display!Fits
               PROVE  /\ \A b \in boxes : b.width > 0 /\ b.height > 0 =>
                           /\ b.x + b.width <= panel.x_res
                           /\ Display!PixelOffset(panel, b.x + b.width - 1,
                                                  b.y + b.height - 1) + panel.bpp \div 8
                                <= panel.x_res * (panel.bpp \div 8) * panel.y_res
                      /\ \A b, c \in boxes : b = c \/ SideBySide(b, c)
    BY DEF BoxesInFramebuffer, Display!BoxesInFramebuffer, SideBySide
  <2>1. panel \in Panel
    BY DEF DisplayInv, Drawn
  <2>2. CASE program = "freetype"
    <3>1. PICK b : boxes = {b} /\ b \in Glyphs
      BY <2>2 DEF DisplayInv, Drawn
    <3>2. /\ b.x = Middle(panel.x_res) /\ b.width \in 0 .. panel.x_res - Middle(panel.x_res)
          /\ b.y = Middle(panel.y_res) /\ b.height \in 0 .. panel.y_res - Middle(panel.y_res)
      BY <3>1 DEF Glyphs, Display!Box
    <3>3. /\ panel.x_res \in Nat /\ Middle(panel.x_res) \in Nat
          /\ panel.y_res \in Nat /\ Middle(panel.y_res) \in Nat
      BY <2>1, PanelType, HalfType
    <3>4. b.x + b.width <= panel.x_res /\ b.y + b.height <= panel.y_res
      BY <3>2, <3>3
    <3>5. b.x \in Nat /\ b.y \in Nat /\ b.width \in Nat /\ b.height \in Nat
      BY <3>2, <3>3
    <3>6. QED
      BY <2>1, <3>1, <3>4, <3>5, BoxMapped
  <2>3. CASE program # "freetype"
    <3>1. Display!Fits
      BY <2>3
    <3>2. \A b \in boxes : b = Chinese \/ \E p \in 0 .. 9, q \in 0 .. 3 : b = Letter(p, q)
      BY <2>3 DEF DisplayInv, Drawn
    <3>3. ASSUME NEW b \in boxes
          PROVE  /\ b.x \in Nat /\ b.y \in Nat
                 /\ b.width \in Nat \ {0} /\ b.height \in Nat \ {0}
                 /\ b.x + b.width <= panel.x_res /\ b.y + b.height <= panel.y_res
      <4>1. CASE b = Chinese
        BY <2>1, <3>1, <4>1, ChineseOnScreen
      <4>2. CASE b # Chinese
        <5>1. PICK p \in 0 .. 9, q \in 0 .. 3 : b = Letter(p, q)
          BY <3>2, <4>2
        <5>2. QED
          BY <2>1, <3>1, <5>1, LetterOnScreen
      <4>3. QED
        BY <4>1, <4>2
    <3>4. ASSUME NEW p \in 0 .. 9, NEW q \in 0 .. 3
          PROVE  SideBySide(Chinese, Letter(p, q)) /\ SideBySide(Letter(p, q), Chinese)
      <4>1. /\ Chinese.width = 16 /\ Chinese.x \in Nat
            /\ Chinese.x + 16 <= Middle(panel.x_res)
        BY <2>1, <3>1, ChineseOnScreen
      <4>2. Letter(p, q).x = Middle(panel.x_res) + 8 * p
        BY <2>1, <3>1, LetterOnScreen
      <4>3. Middle(panel.x_res) \in Nat
        BY <2>1, PanelType, HalfType
      <4>4. Chinese.x + Chinese.width <= Letter(p, q).x
        BY <4>1, <4>2, <4>3
      <4>5. QED
        BY <4>4 DEF SideBySide
    <3>5. \A b, c \in boxes : b = c \/ SideBySide(b, c)
      BY <2>1, <3>1, <3>2, <3>4, LettersApart, SMTT(30)
    <3>6. QED
      BY <2>1, <3>3, <3>5, BoxMapped
  <2>4. QED
    BY <2>2, <2>3
<1>3. QED
  BY <1>1, DisplayNext, <1>2, PTL DEF Spec

\* What the programs have opened they close before they end, with the two
\* exceptions that ClosedAtEnd names; tslib's program reads with room for the
\* samples, and what is drawn is drawn into mapped memory.
THEOREM ClosedAtEndCorrect == Spec => []ClosedAtEnd
<1>1. Init => ReadersInv /\ DisplayInv
  BY ReadersInit, DisplayInit DEF Init
<1>2. ReadersInv /\ DisplayInv /\ [Next]_vars => ReadersInv' /\ DisplayInv'
  BY ReadersNext, DisplayNext
<1>3. ReadersInv /\ DisplayInv => ClosedAtEnd
  BY DEF ReadersInv, DisplayInv, ClosedAtEnd
<1>4. QED
  BY <1>1, <1>2, <1>3, PTL DEF Spec

-----------------------------------------------------------------------------
\* The network examples.  First, what the buffers do with runs of units.
LEMMA NetBounds == MaxUnits \in Nat /\ Room \in Nat /\ Room >= 2
  BY ExamplesAssumption

LEMMA UnitsAre ==
  ASSUME NEW k \in Nat \ {0}, NEW m \in Nat, k <= m + 1
  PROVE  /\ Net!Units(k, m) \in Seq(Nat \ {0}) /\ Net!Units(k, m) \in Seq(Nat)
         /\ Len(Net!Units(k, m)) = m - k + 1
         /\ \A j \in 1 .. m - k + 1 : Net!Units(k, m)[j] = k + j - 1
<1>1. m - k + 1 \in Nat
  OBVIOUS
<1>2. \A j \in 1 .. m - k + 1 : k + j - 1 \in Nat \ {0}
  OBVIOUS
<1>3. QED
  BY <1>1, <1>2 DEF Net!Units

LEMMA RunOf ==
  ASSUME NEW g \in Nat, NEW n \in Nat
  PROVE  /\ Net!Units(g + 1, g + n) \in Seq(Nat) /\ Len(Net!Units(g + 1, g + n)) = n
         /\ \A j \in 1 .. n : Net!Units(g + 1, g + n)[j] = g + j
         /\ Net!Units(1, g) \in Seq(Nat) /\ Len(Net!Units(1, g)) = g
         /\ \A j \in 1 .. g : Net!Units(1, g)[j] = j
<1>1. g + 1 \in Nat \ {0} /\ g + n \in Nat /\ g + 1 <= g + n + 1 /\ g + n - (g + 1) + 1 = n
  OBVIOUS
<1>2. \A j \in 1 .. n : Net!Units(g + 1, g + n)[j] = g + 1 + j - 1
  BY <1>1, UnitsAre
<1>3. 1 \in Nat \ {0} /\ 1 <= g + 1 /\ g - 1 + 1 = g
  OBVIOUS
<1>4. \A j \in 1 .. g : Net!Units(1, g)[j] = 1 + j - 1
  BY <1>3, UnitsAre
<1>5. Net!Units(g + 1, g + n) \in Seq(Nat) /\ Len(Net!Units(g + 1, g + n)) = n
  BY <1>1, UnitsAre
<1>6. Net!Units(1, g) \in Seq(Nat) /\ Len(Net!Units(1, g)) = g
  BY <1>3, UnitsAre
<1>7. QED
  BY <1>2, <1>4, <1>5, <1>6

LEMMA UnitsJoin ==
  ASSUME NEW g \in Nat, NEW n \in Nat
  PROVE  Net!Units(1, g) \o Net!Units(g + 1, g + n) = Net!Units(1, g + n)
<1> DEFINE a == Net!Units(1, g)
           b == Net!Units(g + 1, g + n)
           c == Net!Units(1, g + n)
<1>1. /\ a \in Seq(Nat) /\ Len(a) = g /\ \A j \in 1 .. g : a[j] = j
  BY RunOf
<1>2. b \in Seq(Nat) /\ Len(b) = n /\ \A j \in 1 .. n : b[j] = g + j
  BY RunOf
<1>3. c \in Seq(Nat) /\ Len(c) = g + n /\ \A j \in 1 .. g + n : c[j] = j
  BY RunOf
<1> HIDE DEF a, b, c
<1>4. a \o b \in Seq(Nat) /\ Len(a \o b) = g + n
  BY <1>1, <1>2
<1>5. \A j \in 1 .. g + n : (a \o b)[j] = j
  BY <1>1, <1>2
<1>6. a \o b = c
  BY <1>3, <1>4, <1>5, SeqEqual
<1>7. QED
  BY <1>6 DEF a, b, c

\* The bytes received, their end, and what is left of the buffer; printf stops
\* at the end.
LEMMA ReceivedIs ==
  ASSUME NEW buf \in Seq(Nat), Len(buf) = Room + 1,
         NEW data \in Seq(Nat \ {0}), Len(data) <= Room
  PROVE  /\ Net!Received(buf, data) \in Seq(Nat) /\ Len(Net!Received(buf, data)) = Room + 1
         /\ Net!String(Net!Received(buf, data)) = data
<1> DEFINE n    == Len(data)
           rest == SubSeq(buf, n + 2, Room + 1)
           all  == data \o <<0>> \o rest
           Ends(j) == /\ j \in DOMAIN all => all[j] = 0
                      /\ \A l \in 1 .. j - 1 : all[l] # 0
           end  == CHOOSE j \in DOMAIN all \cup {Len(all) + 1} : Ends(j)
<1>1. n \in Nat /\ n <= Room /\ Room \in Nat
  BY NetBounds
<1>2. rest \in Seq(Nat) /\ Len(rest) = Room - n
  BY <1>1
<1> HIDE DEF rest
<1>3. /\ all \in Seq(Nat) /\ Len(all) = Room + 1 /\ DOMAIN all = 1 .. Room + 1
      /\ all[n + 1] = 0 /\ \A l \in 1 .. n : all[l] = data[l] /\ all[l] # 0
  <2>1. data \in Seq(Nat) /\ <<0>> \in Seq(Nat) /\ Len(<<0>>) = 1
    OBVIOUS
  <2>2. data \o <<0>> \in Seq(Nat) /\ Len(data \o <<0>>) = n + 1 /\ (data \o <<0>>)[n + 1] = 0
        /\ \A l \in 1 .. n : (data \o <<0>>)[l] = data[l]
    BY <2>1
  <2>3. \A l \in 1 .. n : data[l] # 0
    OBVIOUS
  <2>4. all \in Seq(Nat) /\ Len(all) = Room + 1
        /\ \A l \in 1 .. n + 1 : all[l] = (data \o <<0>>)[l]
    BY <1>1, <1>2, <2>2
  <2>5. all[n + 1] = 0
    BY <1>1, <2>2, <2>4
  <2>6. \A l \in 1 .. n : all[l] = data[l] /\ all[l] # 0
    <3>1. \A l \in 1 .. n : l \in 1 .. n + 1
      BY <1>1
    <3>2. QED
      BY <2>2, <2>3, <2>4, <3>1
  <2>7. DOMAIN all = 1 .. Room + 1
    BY <2>4, LenProperties
  <2>8. QED
    BY <2>4, <2>5, <2>6, <2>7
<1>4. Ends(n + 1) /\ n + 1 \in DOMAIN all
  BY <1>1, <1>3
<1>5. \A j \in DOMAIN all \cup {Len(all) + 1} : Ends(j) => j = n + 1
  <2>4. DOMAIN all \cup {Len(all) + 1} = 1 .. Room + 2
    <3>1. 1 .. Room + 1 \cup {Room + 1 + 1} = 1 .. Room + 2
      BY <1>1
    <3> HIDE DEF all
    <3>2. QED
      BY <1>3, <3>1
  <2> SUFFICES ASSUME NEW j \in 1 .. Room + 2, Ends(j)  PROVE j = n + 1
    BY <2>4
  <2> HIDE DEF all
  <2>1. CASE j < n + 1
    BY <1>1, <1>3, <2>1
  <2>2. CASE j > n + 1
    BY <1>1, <1>3, <2>2
  <2>3. QED
    BY <1>1, <2>1, <2>2
<1>6. end = n + 1
  <2> HIDE DEF all, Ends
  <2>1. QED
    BY <1>4, <1>5
<1>7. SubSeq(all, 1, end - 1) = data
  <2> HIDE DEF all, end
  <2>1. end - 1 = n
    BY <1>1, <1>6
  <2> HIDE DEF n
  <2>2. SubSeq(all, 1, n) \in Seq(Nat) /\ Len(SubSeq(all, 1, n)) = n
    BY <1>1, <1>3
  <2>3. \A l \in 1 .. n : SubSeq(all, 1, n)[l] = data[l]
    BY <1>1, <1>3
  <2>4. data \in Seq(Nat) /\ Len(data) = n
    BY DEF n
  <2>5. QED
    BY <2>1, <2>2, <2>3, <2>4, SeqEqual
<1>8. Net!Received(buf, data) = all
  BY DEF Net!Received, Net!Nul, rest
<1>9. Net!String(all) = SubSeq(all, 1, end - 1)
  BY DEF Net!String, Net!Nul
<1> HIDE DEF all, end
<1>10. QED
  BY <1>3, <1>7, <1>8, <1>9

\* A datagram is a run of one or two units that its client has sent.
Datagram(d) == \E c \in Client, k, m \in Nat \ {0} :
                 k <= m /\ m <= k + 1 /\ m <= sent[c] /\ d = <<c, Net!Units(k, m)>>

NetTyped ==
  /\ Net!NetworkTypeOK
  /\ sent \in [Client -> Nat] /\ got \in [Client -> Nat]
  /\ child \in [Client -> {"none", "reads", "failed", "ended"}]
  /\ recbuf \in [Net!Process -> Seq(Nat)] /\ printed \in [Client -> Seq(Nat)]
  /\ server = "fork" => conn \in Client
  /\ program = "tcp" => flight = {}

InFlight == \A d \in flight : Datagram(d)

NetInv == NetTyped /\ InFlight /\ Net!PrintedAsSent

LEMMA NetInit == Net!Init => NetInv
<1> SUFFICES ASSUME Net!Init  PROVE NetInv
  OBVIOUS
<1>1. MaxUnits \in Nat /\ Room \in Nat
  BY NetBounds
<1>2. Net!Empty \in Seq(Nat) /\ Len(Net!Empty) = Room + 1
  <2>1. Room + 1 \in Nat
    BY <1>1
  <2>2. QED
    BY <2>1 DEF Net!Empty, Net!Nul
<1>3. Net!Units(1, 0) = <<>> /\ <<>> \in Seq(Nat)
  <2>1. Net!Units(1, 0) \in Seq(Nat) /\ Len(Net!Units(1, 0)) = 0
    BY RunOf
  <2>2. QED
    BY <2>1, EmptySeq
<1>4. /\ server = "setup" /\ listening = {} /\ limit = 0 /\ conn = "none"
      /\ accepted = {} /\ flight = {} /\ client = [c \in Client |-> "off"]
      /\ sent = [c \in Client |-> 0] /\ got = [c \in Client |-> 0]
      /\ child = [c \in Client |-> "none"] /\ recbuf = [p \in Net!Process |-> Net!Empty]
      /\ printed = [c \in Client |-> <<>>]
  BY DEF Net!Init, Net!NoClient
<1>5. Net!NetworkTypeOK
  BY <1>1, <1>2, <1>4 DEF Net!NetworkTypeOK, Net!NoClient
<1>6. NetTyped
  BY <1>2, <1>3, <1>4, <1>5 DEF NetTyped
<1>7. Net!PrintedAsSent
  BY <1>3, <1>4 DEF Net!PrintedAsSent
<1>8. QED
  BY <1>4, <1>6, <1>7 DEF NetInv, InFlight

\* recv of what a client has sent: it is added to what was printed of it.
LEMMA ReceivesNext ==
  ASSUME NetInv, NEW c \in Client, Net!Receive(c), program' = program, program = "tcp"
  PROVE  NetInv'
<1>1. PICK n \in 1 .. Room :
        /\ got[c] + n <= sent[c] /\ got' = [got EXCEPT ![c] = @ + n]
        /\ recbuf' = [recbuf EXCEPT ![c] =
                        Net!Received(@, Net!Units(got[c] + 1, got[c] + n))]
  BY DEF Net!Receive
<1>2. /\ printed' = [printed EXCEPT ![c] = @ \o Net!String(recbuf'[c])]
      /\ UNCHANGED <<server, listening, limit, conn, accepted, client, sent, child, flight>>
  BY DEF Net!Receive, Net!serverVars
<1> DEFINE g    == got[c]
           data == Net!Units(g + 1, g + n)
           buf  == recbuf[c]
<1>3. g \in Nat /\ n \in Nat /\ n <= Room /\ g \in 0 .. sent[c] /\ sent[c] \in 0 .. MaxUnits
  BY NetBounds DEF NetInv, NetTyped, Net!NetworkTypeOK
<1>4. buf \in Seq(Nat) /\ Len(buf) = Room + 1 /\ c \in Net!Process
  BY DEF NetInv, NetTyped, Net!NetworkTypeOK, Net!Process
<1>5. data \in Seq(Nat \ {0}) /\ Len(data) = n
  <2>1. g + 1 \in Nat \ {0} /\ g + n \in Nat /\ g + 1 <= g + n + 1
    BY <1>3
  <2> HIDE DEF g
  <2>2. data \in Seq(Nat \ {0})
    BY <2>1, UnitsAre
  <2>3. Len(data) = n
    BY <1>3, RunOf
  <2>4. QED
    BY <2>2, <2>3
<1>6. /\ Net!Received(buf, data) \in Seq(Nat) /\ Len(Net!Received(buf, data)) = Room + 1
      /\ Net!String(Net!Received(buf, data)) = data
  <2> HIDE DEF data, buf
  <2>1. QED
    BY <1>3, <1>4, <1>5, ReceivedIs
<1>7. recbuf' = [recbuf EXCEPT ![c] = Net!Received(buf, data)]
  BY <1>1
<1>8. recbuf'[c] = Net!Received(buf, data)
  BY <1>4, <1>7 DEF NetInv, NetTyped
<1>9. printed[c] = Net!Units(1, g)
  BY DEF NetInv, Net!PrintedAsSent
<1>10. Net!Units(1, g) \o data = Net!Units(1, g + n) /\ Net!Units(1, g + n) \in Seq(Nat)
  <2> HIDE DEF g
  <2>1. Net!Units(1, g) \o data = Net!Units(1, g + n)
    BY <1>3, UnitsJoin
  <2>2. g + n \in Nat
    BY <1>3
  <2>3. QED
    BY <2>1, <2>2, RunOf
<1>11. got' = [got EXCEPT ![c] = g + n] /\ g + n \in 0 .. sent[c] /\ g + n \in Nat
  BY <1>1, <1>3
<1>12. printed' = [printed EXCEPT ![c] = Net!Units(1, g + n)]
  BY <1>2, <1>6, <1>8, <1>9, <1>10
<1> HIDE DEF g, data, buf
<1>13. Net!PrintedAsSent'
  BY <1>11, <1>12 DEF NetInv, NetTyped, Net!PrintedAsSent
<1>14. NetTyped'
  <2>1. recbuf' \in [Net!Process -> Seq(Nat)]
        /\ \A p \in Net!Process : Len(recbuf'[p]) = Room + 1
    BY <1>6, <1>7 DEF NetInv, NetTyped, Net!NetworkTypeOK
  <2>2. got' \in [Client -> Nat] /\ printed' \in [Client -> Seq(Nat)]
        /\ \A b \in Client : got'[b] \in 0 .. sent[b]
    BY <1>10, <1>11, <1>12 DEF NetInv, NetTyped, Net!NetworkTypeOK
  <2>3. QED
    BY <1>2, <2>1, <2>2 DEF NetInv, NetTyped, Net!NetworkTypeOK, Net!Process
<1>15. InFlight'
  BY <1>2 DEF NetInv, InFlight, Datagram
<1>16. QED
  BY <1>13, <1>14, <1>15 DEF NetInv

\* recvfrom: what is printed is the datagram, of its sender.
LEMMA ReceivesDatagram ==
  ASSUME NetInv, Net!ReceiveFrom, program' = program, program = "udp"
  PROVE  NetInv'
<1>1. PICK d \in flight :
        /\ flight' \in {flight, flight \ {d}}
        /\ got' = [[c \in Client |-> 0] EXCEPT ![d[1]] = Net!Last(d[2])]
        /\ recbuf' = [recbuf EXCEPT !["server"] = Net!Received(@, d[2])]
        /\ printed' = [[c \in Client |-> <<>>] EXCEPT ![d[1]] = Net!String(recbuf'["server"])]
  BY DEF Net!ReceiveFrom
<1>2. UNCHANGED <<server, listening, limit, conn, accepted, client, sent, child>>
  BY DEF Net!ReceiveFrom, Net!serverVars
<1>3. PICK c \in Client, k \in Nat \ {0}, m \in Nat \ {0} :
        k <= m /\ m <= k + 1 /\ m <= sent[c] /\ d = <<c, Net!Units(k, m)>>
  BY DEF NetInv, InFlight, Datagram
<1> DEFINE data == Net!Units(k, m)
           buf  == recbuf["server"]
<1>4. /\ data \in Seq(Nat \ {0}) /\ data \in Seq(Nat) /\ Len(data) = m - k + 1
      /\ \A j \in 1 .. m - k + 1 : data[j] = k + j - 1
  <2>1. k <= m + 1
    BY <1>3
  <2>2. QED
    BY <2>1, UnitsAre
<1>5. d[1] = c /\ d[2] = data
  BY <1>3
<1>6. Net!Last(data) = m
  <2> HIDE DEF data
  <2>1. m - k + 1 \in 1 .. m - k + 1 /\ k + (m - k + 1) - 1 = m
    BY <1>3
  <2>2. QED
    BY <1>4, <2>1 DEF Net!Last
<1>7. buf \in Seq(Nat) /\ Len(buf) = Room + 1 /\ "server" \in Net!Process
  BY DEF NetInv, NetTyped, Net!NetworkTypeOK, Net!Process
<1>8. /\ Net!Received(buf, data) \in Seq(Nat) /\ Len(Net!Received(buf, data)) = Room + 1
      /\ Net!String(Net!Received(buf, data)) = data
  <2>1. Len(data) <= Room
    BY <1>3, <1>4, NetBounds
  <2> HIDE DEF data, buf
  <2>2. QED
    BY <1>4, <1>7, <2>1, ReceivedIs
<1>9. recbuf' = [recbuf EXCEPT !["server"] = Net!Received(buf, data)]
  BY <1>1, <1>5
<1>10. recbuf'["server"] = Net!Received(buf, data)
  BY <1>7, <1>9 DEF NetInv, NetTyped
<1> HIDE DEF buf
<1>11. /\ got' = [[b \in Client |-> 0] EXCEPT ![c] = m]
       /\ printed' = [[b \in Client |-> <<>>] EXCEPT ![c] = data]
  BY <1>1, <1>5, <1>6, <1>8, <1>10
<1>12. Net!PrintedAsSent'
  <2> SUFFICES ASSUME NEW b \in Client
               PROVE  printed'[b] = <<>> \/ \E from \in 1 .. got'[b] :
                                              printed'[b] = Net!Units(from, got'[b])
    BY DEF Net!PrintedAsSent
  <2>1. CASE b = c
    <3>1. got'[b] = m /\ printed'[b] = Net!Units(k, m) /\ k \in 1 .. m
      BY <1>3, <1>11, <2>1
    <3>2. QED
      BY <3>1
  <2>2. CASE b # c
    BY <1>11, <2>2
  <2>3. QED
    BY <2>1, <2>2
<1>13. NetTyped'
  <2> HIDE DEF data
  <2>1. recbuf' \in [Net!Process -> Seq(Nat)]
        /\ \A p \in Net!Process : Len(recbuf'[p]) = Room + 1
    BY <1>8, <1>9 DEF NetInv, NetTyped, Net!NetworkTypeOK
  <2>2. <<>> \in Seq(Nat)
    BY EmptySeq
  <2>3. \A b \in Client : sent[b] \in 0 .. MaxUnits /\ sent[b] \in Nat
    BY DEF NetInv, NetTyped, Net!NetworkTypeOK
  <2>4. got' \in [Client -> Nat] /\ printed' \in [Client -> Seq(Nat)]
    BY <1>4, <1>11, <2>2
  <2>5. \A b \in Client : got'[b] = IF b = c THEN m ELSE 0
    BY <1>11
  <2>6. \A b \in Client : got'[b] \in 0 .. sent[b]
    BY <1>3, <2>3, <2>5
  <2>7. QED
    BY <1>2, <2>1, <2>4, <2>6 DEF NetInv, NetTyped, Net!NetworkTypeOK, Net!Process
<1>14. InFlight'
  BY <1>1, <1>2 DEF NetInv, InFlight, Datagram
<1>15. QED
  BY <1>12, <1>13, <1>14 DEF NetInv

\* Sending more leaves the datagrams on their way what they were.
LEMMA SentGrows ==
  ASSUME NetInv, sent' \in [Client -> Nat], flight' \subseteq flight,
         \A c \in Client : sent[c] <= sent'[c]
  PROVE  InFlight'
<1> SUFFICES ASSUME NEW d \in flight'  PROVE Datagram(d)'
  BY DEF InFlight
<1>1. PICK c \in Client, k \in Nat \ {0}, m \in Nat \ {0} :
        k <= m /\ m <= k + 1 /\ m <= sent[c] /\ d = <<c, Net!Units(k, m)>>
  BY DEF NetInv, InFlight, Datagram
<1>2. m <= sent'[c]
  <2>1. sent[c] \in Nat /\ sent'[c] \in Nat /\ sent[c] <= sent'[c]
    BY DEF NetInv, NetTyped
  <2>2. QED
    BY <1>1, <2>1
<1>3. QED
  BY <1>1, <1>2 DEF Datagram

LEMMA SendsNext ==
  ASSUME NetInv, NEW c \in Client, NEW n \in 1 .. 2, sent[c] + n <= MaxUnits,
         sent' = [sent EXCEPT ![c] = @ + n]
  PROVE  /\ sent' \in [Client -> Nat] /\ \A b \in Client : sent[b] <= sent'[b]
         /\ \A b \in Client : sent'[b] \in 0 .. MaxUnits /\ got[b] \in 0 .. sent'[b]
<1>1. \A b \in Client : sent[b] \in 0 .. MaxUnits /\ got[b] \in 0 .. sent[b]
  BY DEF NetInv, NetTyped, Net!NetworkTypeOK
<1>2. MaxUnits \in Nat
  BY NetBounds
<1>3. \A b \in Client : sent'[b] = IF b = c THEN sent[c] + n ELSE sent[b]
  BY DEF NetInv, NetTyped
<1>4. sent' \in [Client -> Nat]
  BY <1>1 DEF NetInv, NetTyped
<1>5. QED
  BY <1>1, <1>2, <1>3, <1>4

LEMMA NetNext == NetInv /\ [Next]_vars => NetInv'
<1> SUFFICES ASSUME NetInv, [Next]_vars  PROVE NetInv'
  OBVIOUS
<1>0. UNCHANGED program /\ (Net!Next \/ UNCHANGED network)
  BY OneProgram
<1>1. Net!PrintedAsSent /\ NetTyped /\ InFlight
  BY DEF NetInv
<1>2. CASE UNCHANGED network
  <2>1. UNCHANGED <<server, listening, limit, conn, accepted, client, sent, got, child,
                    recbuf, printed, flight, program>>
    BY <1>0, <1>2 DEF network
  <2>2. Net!PrintedAsSent'
    BY <1>1, <2>1 DEF Net!PrintedAsSent
  <2>3. NetTyped'
    BY <1>1, <2>1 DEF NetTyped, Net!NetworkTypeOK, Net!Process
  <2>4. InFlight'
    BY <1>1, <2>1 DEF InFlight, Datagram
  <2>5. QED
    BY <2>2, <2>3, <2>4 DEF NetInv
<1>3. ASSUME UNCHANGED <<sent, flight, got, printed, recbuf>>, NetTyped'  PROVE NetInv'
  <2>1. Net!PrintedAsSent'
    BY <1>0, <1>1, <1>3 DEF Net!PrintedAsSent
  <2>2. InFlight'
    BY <1>1, <1>3 DEF InFlight, Datagram
  <2>3. QED
    BY <1>3, <2>1, <2>2 DEF NetInv
<1>4. CASE Net!SetUp
  BY <1>1, <1>3, <1>4 DEF Net!SetUp, NetTyped, Net!NetworkTypeOK, Net!Process
<1>5. CASE Net!Accept
  BY <1>1, <1>3, <1>5 DEF Net!Accept, NetTyped, Net!NetworkTypeOK, Net!Process
<1>6. CASE Net!Fork
  BY <1>1, <1>3, <1>6 DEF Net!Fork, NetTyped, Net!NetworkTypeOK, Net!Process
<1>7. CASE program = "tcp" /\ \E c \in Client :
             Net!Receive(c) \/ Net!ChildEnds(c) \/ Net!Connect(c) \/ Net!Send(c) \/ Net!Leave(c)
  <2>1. PICK c \in Client :
          Net!Receive(c) \/ Net!ChildEnds(c) \/ Net!Connect(c) \/ Net!Send(c) \/ Net!Leave(c)
    BY <1>7
  <2>2. CASE Net!Receive(c)
    BY <1>0, <1>7, <2>2, ReceivesNext
  <2>3. CASE Net!ChildEnds(c)
    BY <1>1, <1>3, <2>3 DEF Net!ChildEnds, NetTyped, Net!NetworkTypeOK, Net!Process
  <2>4. CASE Net!Connect(c)
    BY <1>1, <1>3, <2>4 DEF Net!Connect, Net!serverVars, NetTyped, Net!NetworkTypeOK,
                            Net!Process
  <2>5. CASE Net!Send(c)
    <3>1. UNCHANGED <<server, listening, limit, conn, accepted, got, child, recbuf, printed,
                      flight>>
      BY <2>5 DEF Net!Send, Net!serverVars
    <3>2. CASE UNCHANGED sent
      BY <1>1, <1>3, <2>5, <3>1, <3>2 DEF Net!Send, NetTyped, Net!NetworkTypeOK, Net!Process
    <3>3. CASE UNCHANGED client /\ \E n \in 1 .. 2 :
                 sent[c] + n <= MaxUnits /\ sent' = [sent EXCEPT ![c] = @ + n]
      <4>1. /\ sent' \in [Client -> Nat] /\ \A b \in Client : sent[b] <= sent'[b]
            /\ \A b \in Client : sent'[b] \in 0 .. MaxUnits /\ got[b] \in 0 .. sent'[b]
        BY <3>3, SendsNext
      <4>2. NetTyped'
        BY <1>0, <1>1, <3>1, <3>3, <4>1 DEF NetTyped, Net!NetworkTypeOK, Net!Process
      <4>3. InFlight'
        BY <3>1, <4>1, SentGrows
      <4>4. Net!PrintedAsSent'
        BY <1>0, <1>1, <3>1 DEF Net!PrintedAsSent
      <4>5. QED
        BY <4>2, <4>3, <4>4 DEF NetInv
    <3>4. QED
      BY <2>5, <3>2, <3>3 DEF Net!Send
  <2>6. CASE Net!Leave(c)
    <3>1. UNCHANGED <<server, listening, limit, conn, accepted, got, child, recbuf, printed,
                      flight>> /\ flight' = {}
      BY <1>1, <1>7, <2>6 DEF Net!Leave, Net!serverVars, NetTyped
    <3>2. PICK n \in got[c] .. sent[c] : sent' = [sent EXCEPT ![c] = n]
      BY <2>6 DEF Net!Leave
    <3>3. client' \in [Client -> {"off", "connected", "refused", "closed", "reset", "vanished",
                                  "gone"}]
      BY <1>1, <2>6 DEF Net!Leave, NetTyped, Net!NetworkTypeOK
    <3>4. \A b \in Client : sent[b] \in 0 .. MaxUnits /\ got[b] \in 0 .. sent[b]
      BY <1>1 DEF NetTyped, Net!NetworkTypeOK
    <3>5. \A b \in Client : sent'[b] = IF b = c THEN n ELSE sent[b]
      BY <1>1, <3>2 DEF NetTyped
    <3>6. \A b \in Client : sent'[b] \in 0 .. MaxUnits /\ got[b] \in 0 .. sent'[b]
      BY <3>4, <3>5, NetBounds
    <3>7. sent' \in [Client -> Nat]
      BY <1>1, <3>2, <3>4 DEF NetTyped
    <3>8. NetTyped'
      BY <1>1, <3>1, <3>3, <3>6, <3>7 DEF NetTyped, Net!NetworkTypeOK, Net!Process
    <3>9. InFlight'
      BY <3>1 DEF InFlight
    <3>10. Net!PrintedAsSent'
      BY <1>0, <1>1, <3>1 DEF Net!PrintedAsSent
    <3>11. QED
      BY <3>8, <3>9, <3>10 DEF NetInv
  <2>7. QED
    BY <2>1, <2>2, <2>3, <2>4, <2>5, <2>6
<1>8. CASE program = "udp" /\ Net!ReceiveFrom
  BY <1>0, <1>8, ReceivesDatagram
<1>9. CASE Net!Lose
  <2>1. UNCHANGED <<server, listening, limit, conn, accepted, client, sent, got, child,
                    recbuf, printed>> /\ flight' \subseteq flight
    BY <1>9 DEF Net!Lose, Net!serverVars
  <2>2. NetTyped'
    BY <1>0, <1>1, <2>1 DEF NetTyped, Net!NetworkTypeOK, Net!Process
  <2>3. InFlight'
    BY <1>1, <2>1 DEF InFlight, Datagram
  <2>4. Net!PrintedAsSent'
    BY <1>0, <1>1, <2>1 DEF Net!PrintedAsSent
  <2>5. QED
    BY <2>2, <2>3, <2>4 DEF NetInv
<1>10. CASE program = "udp" /\ \E c \in Client : Net!SendTo(c)
  <2>0. program' = "udp"
    BY <1>0, <1>10
  <2>1. PICK c \in Client : Net!SendTo(c)
    BY <1>10
  <2>2. UNCHANGED <<server, listening, limit, conn, accepted, got, child, recbuf, printed>>
    BY <2>1 DEF Net!SendTo, Net!serverVars
  <2>3. CASE client' = [client EXCEPT ![c] = "gone"] /\ UNCHANGED <<sent, flight>>
    BY <1>1, <1>3, <2>0, <2>2, <2>3 DEF NetTyped, Net!NetworkTypeOK, Net!Process
  <2>4. CASE UNCHANGED client /\ \E n \in 1 .. 2 :
               /\ sent[c] + n <= MaxUnits /\ sent' = [sent EXCEPT ![c] = @ + n]
               /\ flight' = flight \cup {<<c, Net!Units(sent[c] + 1, sent[c] + n)>>}
    <3>1. PICK n \in 1 .. 2 :
            /\ sent[c] + n <= MaxUnits /\ sent' = [sent EXCEPT ![c] = @ + n]
            /\ flight' = flight \cup {<<c, Net!Units(sent[c] + 1, sent[c] + n)>>}
      BY <2>4
    <3>2. /\ sent' \in [Client -> Nat] /\ \A b \in Client : sent[b] <= sent'[b]
          /\ \A b \in Client : sent'[b] \in 0 .. MaxUnits /\ got[b] \in 0 .. sent'[b]
      BY <3>1, SendsNext
    <3>3. NetTyped'
      BY <1>1, <2>0, <2>2, <2>4, <3>2 DEF NetTyped, Net!NetworkTypeOK, Net!Process
    <3>4. Net!PrintedAsSent'
      BY <1>0, <1>1, <2>2 DEF Net!PrintedAsSent
    <3>5. InFlight'
      <4> SUFFICES ASSUME NEW d \in flight'  PROVE Datagram(d)'
        BY DEF InFlight
      <4>1. CASE d \in flight
        <5>1. PICK b \in Client, k \in Nat \ {0}, m \in Nat \ {0} :
                k <= m /\ m <= k + 1 /\ m <= sent[b] /\ d = <<b, Net!Units(k, m)>>
          BY <1>1, <4>1 DEF InFlight, Datagram
        <5>2. sent[b] \in Nat /\ sent'[b] \in Nat /\ sent[b] <= sent'[b]
          BY <1>1, <3>2 DEF NetTyped
        <5>3. m <= sent'[b]
          BY <5>1, <5>2
        <5>4. QED
          BY <5>1, <5>3 DEF Datagram
      <4>2. CASE d = <<c, Net!Units(sent[c] + 1, sent[c] + n)>>
        <5>1. sent[c] \in Nat /\ sent'[c] = sent[c] + n
          BY <1>1, <3>1 DEF NetTyped
        <5>2. /\ sent[c] + 1 \in Nat \ {0} /\ sent[c] + n \in Nat \ {0}
              /\ sent[c] + 1 <= sent[c] + n /\ sent[c] + n <= sent[c] + 1 + 1
              /\ sent[c] + n <= sent'[c]
          BY <5>1
        <5>3. QED
          BY <4>2, <5>2 DEF Datagram
      <4>3. QED
        BY <3>1, <4>1, <4>2
    <3>6. QED
      BY <3>3, <3>4, <3>5 DEF NetInv
  <2>5. QED
    BY <2>1, <2>3, <2>4 DEF Net!SendTo
<1>11. QED
  BY <1>0, <1>2, <1>4, <1>5, <1>6, <1>7, <1>8, <1>9, <1>10 DEF Net!Next

\* What is printed of a TCP connection is what was sent, however recv cuts it;
\* what is printed of a datagram is that datagram, without what a longer one
\* has left in the buffer, for any number of clients and any buffer.
THEOREM PrintedAsSentCorrect == Spec => []PrintedAsSent
<1>1. Init => NetInv
  BY NetInit DEF Init
<1>2. NetInv => PrintedAsSent
  BY DEF NetInv, PrintedAsSent
<1>3. QED
  BY <1>1, NetNext, <1>2, PTL DEF Spec

-----------------------------------------------------------------------------
\* Every program keeps its types, whichever of them is started.
THEOREM ExamplesTypeCorrect == Spec => []ExamplesTypeOK
<1> DEFINE IInv == program \in Program /\ ReadersInv /\ ThreadsInv /\ NetInv /\ DisplayInv
<1>1. Init => IInv
  BY ReadersInit, ThreadsInit, NetInit, DisplayInit DEF Init
<1>2. IInv /\ [Next]_vars => IInv'
  BY OneProgram, ReadersNext, ThreadsNext, NetNext, DisplayNext
<1>3. IInv => ExamplesTypeOK
  BY DEF ExamplesTypeOK, ReadersInv, ThreadsInv, NetInv, NetTyped, DisplayInv
<1>4. QED
  BY <1>1, <1>2, <1>3, PTL DEF Spec
=============================================================================
