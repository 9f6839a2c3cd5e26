---------------------------- MODULE EventReaders ----------------------------
(***************************************************************************)
(* The programs of 04_input_touchscreen: they read an input device by      *)
(* blocking and non-blocking read, after select or poll, by aio with a     *)
(* callback or a signal, or with tslib; one ("info") only lists what the   *)
(* device is.  Inputs are numbered as they arrive.  The kernel is external:*)
(* it queues the inputs of an open device, and a read of a device that is  *)
(* gone fails.                                                             *)
(*                                                                         *)
(* Left out: what is listed of the device's identity and event types,      *)
(* which is printed once and decides nothing.                              *)
(***************************************************************************)
EXTENDS Naturals, Sequences

CONSTANTS Reader,     \* the programs of this module that may be started
          MaxInputs   \* bound: inputs that arrive

Polling == {"select", "poll"}
Aio     == {"aio_callback", "aio_signal"}

VARIABLES
  program,         \* the program that runs
  at,              \* where it is
  opened,          \* what it has opened or allocated
  plugged,         \* the device is there
  arrived, taken,  \* inputs queued by the kernel, and read from it
  watching,        \* fd is in readfds
  request, event,  \* the state of aiocbp, and the buffer it reads into
  shown            \* the inputs printed

vars == <<program, at, opened, plugged, arrived, taken, watching, request, event, shown>>
aioVars == <<request, event>>

Init ==
  /\ at = "open" /\ opened = {} /\ plugged = TRUE /\ arrived = 0 /\ taken = 0
  /\ watching = FALSE /\ request = "none" /\ event = 0 /\ shown = <<>>

Waiting == taken < arrived /\ plugged
-----------------------------------------------------------------------------
\* The kernel queues an input for the program; the device is pulled out.
Arrive ==
  /\ plugged /\ "dev" \in opened /\ arrived < MaxInputs
  /\ arrived' = arrived + 1
  /\ UNCHANGED <<program, at, opened, plugged, taken, watching, aioVars, shown>>

Unplug ==
  /\ plugged /\ "dev" \in opened /\ plugged' = FALSE
  /\ UNCHANGED <<program, at, opened, arrived, taken, watching, aioVars, shown>>

FirstStep == IF program \in Polling THEN "wait"
             ELSE IF program \in Aio THEN "idle"
             ELSE IF program = "tslib" THEN "slots"
             ELSE IF program = "info" THEN "list" ELSE "read"

\* open, or ts_setup.  The aio programs only print that it has failed, and
\* start a request on descriptor -1, which fails in its turn.
Open ==
  /\ at = "open"
  /\ \/ /\ at' = FirstStep /\ opened' = {"dev"} /\ watching' = (program \in Polling)
        /\ request' = IF program \in Aio THEN "started" ELSE "none"
     \/ /\ IF program \in Aio THEN at' = "idle" /\ request' = "failed"
                              ELSE at' = "end" /\ UNCHANGED request
        /\ UNCHANGED <<opened, watching>>
  /\ UNCHANGED <<program, plugged, arrived, taken, event, shown>>

\* 00_get_input_info is through, and leaves its device to the kernel.
List ==
  /\ at = "list" /\ at' = "end"
  /\ UNCHANGED <<program, opened, plugged, arrived, taken, watching, aioVars, shown>>

\* mutant: a failed calloc frees samp_mt and forgets the device
TslibSetUp_KeepsDevice ==
  /\ \/ at = "slots"  /\ at' = "malloc" /\ UNCHANGED opened
     \/ at = "malloc" /\ at' = "calloc" /\ opened' = opened \cup {"samp_mt"}
     \/ at = "calloc" /\ at' = "read"   /\ opened' = opened \cup {"samp_mt[0]"}
     \/ at \in {"slots", "malloc"} /\ at' = "end" /\ opened' = {}
     \/ at = "calloc" /\ at' = "end" /\ opened' = opened \ {"samp_mt"}
  /\ UNCHANGED <<program, plugged, arrived, taken, watching, aioVars, shown>>

\* tslib: the ioctl for the slots, malloc, calloc; each failure gives back
\* what was there before it.
TslibSetUp ==
  /\ \/ at = "slots"  /\ at' = "malloc" /\ UNCHANGED opened
     \/ at = "malloc" /\ at' = "calloc" /\ opened' = opened \cup {"samp_mt"}
     \/ at = "calloc" /\ at' = "read"   /\ opened' = opened \cup {"samp_mt[0]"}
     \/ at \in {"slots", "malloc", "calloc"} /\ at' = "end" /\ opened' = {}
  /\ UNCHANGED <<program, plugged, arrived, taken, watching, aioVars, shown>>

\* select answers, and leaves in readfds what is readable: nothing, when the
\* time is over.  readfds and timeout are set before the loop, so that all
\* later calls return at once.  poll is given its fds anew each time.
SelectReturns ==
  /\ program = "select" /\ at = "wait"
  /\ \/ watching /\ (Waiting \/ ~plugged) /\ at' = "read" /\ UNCHANGED watching
     \/ ~Waiting /\ plugged /\ watching' = FALSE /\ UNCHANGED at
  /\ UNCHANGED <<program, opened, plugged, arrived, taken, aioVars, shown>>

\* A device that is gone has POLLHUP in its revents too: it is not read.
PollReturns ==
  /\ program = "poll" /\ at = "wait" /\ Waiting /\ at' = "read"
  /\ UNCHANGED <<program, opened, plugged, arrived, taken, watching, aioVars, shown>>

\* A read that takes an input prints it.
ReadInput ==
  /\ at = "read" /\ Waiting
  /\ taken' = taken + 1 /\ shown' = Append(shown, taken')
  /\ UNCHANGED <<program, at, opened, plugged, arrived, watching, aioVars>>

\* A read that fails: select and poll are called again, tslib closes the
\* device, the others print an error and go round.
ReadFails ==
  /\ at = "read" /\ ~Waiting
  /\ \/ program \in Polling /\ at' = "wait" /\ UNCHANGED opened
     \/ program = "tslib" /\ ~plugged /\ at' = "end" /\ opened' = opened \ {"dev"}
  /\ UNCHANGED <<program, plugged, arrived, taken, watching, aioVars, shown>>
-----------------------------------------------------------------------------
\* aio: the library reads into event and completes the request.
Complete ==
  /\ request = "started"
  /\ \/ Waiting /\ taken' = taken + 1 /\ event' = taken' /\ request' = "done"
     \/ ~plugged /\ request' = "failed" /\ UNCHANGED <<taken, event>>
  /\ UNCHANGED <<program, at, opened, plugged, arrived, watching, shown>>

\* The thread or the signal that tells of it, which waits while the handler
\* runs.  A failed request is the last one.
Notify ==
  /\ at = "idle" /\ request \in {"done", "failed"}
  /\ at' = IF request = "done" THEN "print" ELSE "idle"
  /\ request' = "none"
  /\ UNCHANGED <<program, opened, plugged, arrived, taken, watching, event, shown>>

\* mutant: the next read is started before the input is printed
Handler_StartsFirst ==
  /\ \/ at = "print" /\ at' = "again" /\ request' = "started" /\ UNCHANGED shown
     \/ at = "again" /\ at' = "idle" /\ shown' = Append(shown, event) /\ UNCHANGED request
  /\ UNCHANGED <<program, opened, plugged, arrived, taken, watching, event>>

\* mutant: the handler starts no other read
Handler_Once ==
  /\ \/ at = "print" /\ at' = "again" /\ shown' = Append(shown, event) /\ UNCHANGED request
     \/ at = "again" /\ at' = "idle" /\ UNCHANGED <<request, shown>>
  /\ UNCHANGED <<program, opened, plugged, arrived, taken, watching, event>>

\* aio_complete_handler prints what is in the buffer and reads again.
Handler ==
  /\ \/ at = "print" /\ at' = "again" /\ shown' = Append(shown, event) /\ UNCHANGED request
     \/ at = "again" /\ at' = "idle" /\ request' = "started" /\ UNCHANGED shown
  /\ UNCHANGED <<program, opened, plugged, arrived, taken, watching, event>>

ReaderStep ==
  \/ Open \/ List \/ TslibSetUp \/ SelectReturns \/ PollReturns \/ ReadInput
  \/ ReadFails \/ Complete \/ Notify \/ Handler

Next == program \in Reader /\ (Arrive \/ Unplug \/ ReaderStep)

Spec == program \in Reader /\ Init /\ [][Next]_vars
-----------------------------------------------------------------------------
ReadersTypeOK ==
  /\ at \in {"open", "list", "slots", "malloc", "calloc", "wait", "read", "idle",
             "print", "again", "end"}
  /\ opened \subseteq {"dev", "samp_mt", "samp_mt[0]"} /\ plugged \in BOOLEAN
  /\ arrived \in 0 .. MaxInputs /\ taken \in 0 .. arrived /\ event \in 0 .. taken
  /\ watching \in BOOLEAN /\ request \in {"none", "started", "done", "failed"}
  /\ shown \in Seq(1 .. MaxInputs)

\* The inputs are printed in the order they came, none twice and none left
\* out: the one buffer of the aio programs is not filled again before it is
\* printed.
ReadInOrder == \A i \in DOMAIN shown : shown[i] = i

\* On every way out the device is closed, but for 00_get_input_info, which never
\* closes it; and tslib's program has room for
\* the samples while it reads them.
DeviceClosed ==
  /\ at = "end" /\ "dev" \in opened => program = "info"
  /\ program = "tslib" /\ at = "read" => opened = {"dev", "samp_mt", "samp_mt[0]"}

\* An input of a device that stays is printed at last, unless the program has
\* ended: 00_get_input_info, or tslib's when it could not be set up.
InputIsRead ==
  \A n \in 1 .. MaxInputs :
    arrived >= n ~> (Len(shown) >= n \/ ~plugged \/ at = "end")
=============================================================================
