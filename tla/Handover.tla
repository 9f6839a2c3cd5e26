------------------------------ MODULE Handover ------------------------------
(***************************************************************************)
(* 05_thread: main types lines into input_buf, which a thread prints.      *)
(* pthread.c ("semaphore") posts a semaphore for each line; pthread1.c     *)
(* ("condition") signals a condition variable, on which the thread waits   *)
(* without the mutex, to lock it once more when it wakes up.               *)
(*                                                                         *)
(* pthread_cond_wait with a mutex the caller does not hold is undefined;   *)
(* glibc sets the mutex free, whoever holds it.  A default mutex does not  *)
(* notice an unlock by another thread, or a second lock by its holder.     *)
(* A line is copied and printed in two halves.                             *)
(***************************************************************************)
EXTENDS Naturals

CONSTANTS MaxLines,  \* bound: lines typed before the end of the input
          MaxPosts   \* bound: posts the thread has not taken

VARIABLES
  program,           \* "semaphore" or "condition"
  mainAt, threadAt,  \* where main and the thread are
  line,              \* the line in temp_buf, 0 for the empty one
  input_buf,         \* the halves of the line in input_buf
  mutex,             \* who holds it, or "free"
  sem,               \* posts not taken
  read,              \* the first half, as printf has read it
  printed            \* the line printed last

vars == <<program, mainAt, threadAt, line, input_buf, mutex, sem, read, printed>>
mainVars   == <<mainAt, line, input_buf>>
threadVars == <<threadAt, read, printed>>

Init ==
  /\ mainAt = "create" /\ threadAt = "none" /\ line = 0 /\ input_buf = <<0, 0>>
  /\ mutex = "free" /\ sem = 0 /\ read = 0 /\ printed = <<0, 0>>

\* mutant: the semaphore is posted before the line is copied
MainAfter_PostsFirst ==
  [gets |-> "post", post |-> "lock", lock |-> "copy", copy |-> "copy rest",
   rest |-> "unlock", unlock |-> "gets"]

\* What main does next.  pthread_cond_signal comes before the unlock, sem_post
\* after it.
MainAfter ==
  IF program = "semaphore"
  THEN [gets |-> "lock", lock |-> "copy", copy |-> "copy rest", rest |-> "unlock",
        unlock |-> "post", post |-> "gets"]
  ELSE [gets |-> "lock", lock |-> "copy", copy |-> "copy rest", rest |-> "signal",
        signal |-> "unlock", unlock |-> "gets"]
-----------------------------------------------------------------------------
\* pthread_create, without which main returns.
Create ==
  /\ mainAt = "create"
  /\ \/ mainAt' = "gets" /\ threadAt' = "wait"
     \/ mainAt' = "end" /\ UNCHANGED threadAt
  /\ UNCHANGED <<program, line, input_buf, mutex, sem, read, printed>>

\* fgets; at the end of the input temp_buf keeps the last line, which is
\* handed over again and again.
Gets ==
  /\ mainAt = "gets" /\ mainAt' = MainAfter["gets"]
  /\ \/ line < MaxLines /\ line' = line + 1
     \/ UNCHANGED line
  /\ UNCHANGED <<program, input_buf, mutex, sem, threadVars>>

\* mutant: main does not wait for the mutex
MainLock_NoWait ==
  /\ mainAt = "lock" /\ mainAt' = MainAfter["lock"] /\ mutex' = "main"
  /\ UNCHANGED <<program, line, input_buf, sem, threadVars>>

MainLock ==
  /\ mainAt = "lock" /\ mutex = "free"
  /\ mainAt' = MainAfter["lock"] /\ mutex' = "main"
  /\ UNCHANGED <<program, line, input_buf, sem, threadVars>>

Copy ==
  /\ \/ /\ mainAt = "copy" /\ mainAt' = MainAfter["copy"]
        /\ input_buf' = <<line, input_buf[2]>>
     \/ /\ mainAt = "copy rest" /\ mainAt' = MainAfter["rest"]
        /\ input_buf' = <<input_buf[1], line>>
  /\ UNCHANGED <<program, line, mutex, sem, threadVars>>

\* A signal wakes the thread if it waits, and is forgotten if it does not.
Signal ==
  /\ mainAt = "signal" /\ mainAt' = MainAfter["signal"]
  /\ threadAt' = IF threadAt = "waiting" THEN "woken" ELSE threadAt
  /\ UNCHANGED <<program, line, input_buf, mutex, sem, read, printed>>

MainUnlock ==
  /\ mainAt = "unlock" /\ mainAt' = MainAfter["unlock"] /\ mutex' = "free"
  /\ UNCHANGED <<program, line, input_buf, sem, threadVars>>

Post ==
  /\ mainAt = "post" /\ sem < MaxPosts
  /\ mainAt' = MainAfter["post"] /\ sem' = sem + 1
  /\ UNCHANGED <<program, line, input_buf, mutex, threadVars>>
-----------------------------------------------------------------------------
\* mutant: a wait that does not wait
Wait_Tries ==
  /\ threadAt = "wait"
  /\ IF program = "semaphore"
     THEN sem' = sem - 1 /\ threadAt' = "lock" /\ UNCHANGED mutex
     ELSE mutex' = "free" /\ threadAt' = "waiting" /\ UNCHANGED sem
  /\ UNCHANGED <<program, mainVars, read, printed>>

\* sem_wait, or pthread_cond_wait, which unlocks the mutex.
Wait ==
  /\ threadAt = "wait"
  /\ IF program = "semaphore"
     THEN sem > 0 /\ sem' = sem - 1 /\ threadAt' = "lock" /\ UNCHANGED mutex
     ELSE mutex' = "free" /\ threadAt' = "waiting" /\ UNCHANGED sem
  /\ UNCHANGED <<program, mainVars, read, printed>>

\* pthread_cond_wait may wake up for no reason, and returns with the mutex.
WakesUp ==
  /\ \/ threadAt = "waiting" /\ threadAt' = "woken" /\ UNCHANGED mutex
     \/ threadAt = "woken" /\ mutex = "free" /\ mutex' = "thread" /\ threadAt' = "lock"
  /\ UNCHANGED <<program, mainVars, sem, read, printed>>

\* With the mutex in its own hands the thread waits here until main unlocks it.
ThreadLock ==
  /\ threadAt = "lock" /\ mutex = "free"
  /\ mutex' = "thread" /\ threadAt' = "print"
  /\ UNCHANGED <<program, mainVars, sem, read, printed>>

PrintLine ==
  /\ \/ threadAt = "print" /\ threadAt' = "print rest" /\ read' = input_buf[1]
        /\ UNCHANGED printed
     \/ threadAt = "print rest" /\ threadAt' = "unlock"
        /\ printed' = <<read, input_buf[2]>> /\ UNCHANGED read
  /\ UNCHANGED <<program, mainVars, mutex, sem>>

ThreadUnlock ==
  /\ threadAt = "unlock" /\ threadAt' = "wait" /\ mutex' = "free"
  /\ UNCHANGED <<program, mainVars, sem, read, printed>>

MainStep   == Create \/ MainLock \/ Copy \/ Signal \/ MainUnlock \/ Post
ThreadStep == Wait \/ PrintLine \/ ThreadUnlock

Threaded == program \in {"semaphore", "condition"}
Next == Threaded /\ (Gets \/ MainStep \/ ThreadStep \/ WakesUp \/ ThreadLock)

Spec == Threaded /\ Init /\ [][Next]_vars

\* Both threads run; nobody need type; a mutex that is free again and again
\* is had at last.
Fairness ==
  /\ WF_vars(Threaded /\ MainStep) /\ WF_vars(Threaded /\ ThreadStep)
  /\ SF_vars(Threaded /\ ThreadLock)
-----------------------------------------------------------------------------
HandoverTypeOK ==
  /\ mainAt \in {"create", "gets", "lock", "copy", "copy rest", "signal", "unlock",
                 "post", "end"}
  /\ threadAt \in {"none", "wait", "waiting", "woken", "lock", "print", "print rest",
                   "unlock"}
  /\ line \in Nat /\ input_buf \in Nat \X Nat /\ printed \in Nat \X Nat
  /\ mutex \in {"free", "main", "thread"} /\ sem \in Nat /\ read \in Nat

\* The thread prints lines as they were typed, never the beginning of one and
\* the end of another: with the condition too, although its wait takes the
\* mutex away from main.
NoTornLine == printed[1] = printed[2]

\* pthread.c: the line typed last is printed, however often the thread was
\* late, when the next one is not typed.
LastLineShown ==
  \A n \in 1 .. MaxLines :
    (program = "semaphore" /\ line = n) ~> (line > n \/ printed = <<n, n>>)
=============================================================================
