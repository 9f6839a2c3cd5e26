------------------------------ MODULE Network ------------------------------
(***************************************************************************)
(* 02_network: a TCP server that forks a process for each connection, a    *)
(* UDP server, and their clients.  What a client sends is a run of numbered*)
(* units (bytes).  The kernel is external: TCP keeps the order and splits  *)
(* or joins what is sent, a reset throws away what was not received, UDP   *)
(* may lose, repeat and reorder datagrams.                                 *)
(***************************************************************************)
EXTENDS Naturals, FiniteSets, SequencesExt

CONSTANTS Client,       \* the clients
          MaxUnits,     \* bound: units a client sends, in lines of 1 or 2
          MaxFlight,    \* bound: datagrams on their way
          Room,         \* what recv takes at most (999)
          Limit         \* connections the server's descriptors are enough for

VARIABLES
  program,       \* "tcp" or "udp"
  server,        \* where the server is
  listening,     \* the processes that have the listening socket open
  limit,         \* connections there are descriptors for, 0 before the set-up
  conn,          \* fd_client of the server
  accepted,      \* the connections the server holds open
  client,        \* where each client is
  sent, got,     \* the last unit sent and received, for each client
  child,         \* the process of each connection
  recbuf,        \* the buffer of each process
  printed,       \* the units printed of each client
  flight         \* datagrams on their way

vars == <<program, server, listening, limit, conn, accepted, client, sent, got,
          child, recbuf, printed, flight>>
serverVars == <<server, listening, limit, conn, accepted>>

Nul   == 0
Empty == [i \in 1 .. Room + 1 |-> Nul]
NoClient == "none"

\* The server, and the children named after their connections.
Process == {"server"} \cup Client

Init ==
  /\ server = "setup" /\ listening = {} /\ limit = 0 /\ conn = NoClient
  /\ accepted = {} /\ flight = {}
  /\ client = [c \in Client |-> "off"]
  /\ sent = [c \in Client |-> 0] /\ got = [c \in Client |-> 0]
  /\ child = [c \in Client |-> "none"] /\ recbuf = [p \in Process |-> Empty]
  /\ printed = [c \in Client |-> <<>>]

Units(from, to) == [i \in 1 .. to - from + 1 |-> from + i - 1]

\* mutant: the end of what was received is not marked
Received_NoEnd(buf, data) == data \o SubSeq(buf, Len(data) + 1, Room + 1)

\* recv into recbuf, and recbuf[rec_len] = '\0'.
Received(buf, data) == data \o <<Nul>> \o SubSeq(buf, Len(data) + 2, Room + 1)

\* printf("%s") prints what is before the first '\0'.
String(buf) == LET end == CHOOSE i \in DOMAIN buf \cup {Len(buf) + 1} :
                            /\ i \in DOMAIN buf => buf[i] = Nul
                            /\ \A j \in 1 .. i - 1 : buf[j] # Nul
               IN  SubSeq(buf, 1, end - 1)
-----------------------------------------------------------------------------
\* socket, bind, listen; when one fails the server returns.
SetUp ==
  /\ server = "setup"
  /\ \/ server' = "accept" /\ listening' = {"server"} /\ limit' \in Limit
     \/ server' = "end" /\ UNCHANGED <<listening, limit>>
  /\ UNCHANGED <<program, conn, accepted, client, sent, got, child, recbuf,
                 printed, flight>>

\* accept.  The server closes no connection: when its descriptors are used
\* up accept fails for ever.
Accept ==
  /\ server = "accept" /\ "server" \in listening /\ Cardinality(accepted) < limit
  /\ \E c \in Client :
       /\ client[c] \notin {"off", "refused", "gone"} /\ c \notin accepted
       /\ accepted' = accepted \cup {c} /\ conn' = c /\ server' = "fork"
  /\ UNCHANGED <<program, listening, limit, client, sent, got, child, recbuf, printed,
                 flight>>

\* fork gives the child a copy of each descriptor; without a child, -1 is
\* taken for a child's number, and nobody reads the connection.
Fork ==
  /\ server = "fork" /\ server' = "accept"
  /\ \/ child' = [child EXCEPT ![conn] = "reads"] /\ listening' = listening \cup {conn}
     \/ child' = [child EXCEPT ![conn] = "failed"] /\ UNCHANGED listening
  /\ UNCHANGED <<program, limit, conn, accepted, client, sent, got, recbuf, printed, flight>>

\* recv takes what is there, up to its room, and it is printed.
Receive(c) ==
  /\ child[c] = "reads" /\ got[c] < sent[c] /\ client[c] # "reset"
  /\ \E n \in 1 .. Room :
       /\ got[c] + n <= sent[c]
       /\ got' = [got EXCEPT ![c] = @ + n]
       /\ recbuf' = [recbuf EXCEPT ![c] = Received(@, Units(got[c] + 1, got[c] + n))]
  /\ printed' = [printed EXCEPT ![c] = @ \o String(recbuf'[c])]
  /\ UNCHANGED <<program, serverVars, client, sent, child, flight>>

\* mutant: the end of the connection is not taken for an end
ChildEnds_OnError(c) ==
  /\ child[c] = "reads" /\ client[c] = "reset"
  /\ child' = [child EXCEPT ![c] = "ended"] /\ listening' = listening \ {c}
  /\ UNCHANGED <<program, server, limit, conn, accepted, client, sent, got, recbuf,
                 printed, flight>>

\* mutant: the socket is closed for all
ChildEnds_ClosesForAll(c) ==
  /\ child[c] = "reads"
  /\ client[c] = "reset" \/ (client[c] = "closed" /\ got[c] = sent[c])
  /\ child' = [child EXCEPT ![c] = "ended"] /\ listening' = {}
  /\ UNCHANGED <<program, server, limit, conn, accepted, client, sent, got, recbuf, printed,
                 flight>>

\* recv answers 0 at the end of the connection and -1 after a reset: the
\* child closes its copy of the listening socket and ends.
ChildEnds(c) ==
  /\ child[c] = "reads"
  /\ client[c] = "reset" \/ (client[c] = "closed" /\ got[c] = sent[c])
  /\ child' = [child EXCEPT ![c] = "ended"] /\ listening' = listening \ {c}
  /\ UNCHANGED <<program, server, limit, conn, accepted, client, sent, got, recbuf,
                 printed, flight>>
-----------------------------------------------------------------------------
\* The TCP client: a failed connect is only printed, and the first send ends
\* the program.
Connect(c) ==
  /\ client[c] = "off"
  /\ client' = [client EXCEPT ![c] = IF listening # {} THEN "connected" ELSE "refused"]
  /\ UNCHANGED <<program, serverVars, sent, got, child, recbuf, printed, flight>>

Send(c) ==
  /\ \/ /\ client[c] = "connected" /\ UNCHANGED client
        /\ \E n \in 1 .. 2 : sent[c] + n <= MaxUnits /\ sent' = [sent EXCEPT ![c] = @ + n]
     \/ client[c] = "refused" /\ client' = [client EXCEPT ![c] = "gone"] /\ UNCHANGED sent
  /\ UNCHANGED <<program, serverVars, got, child, recbuf, printed, flight>>

\* The client is stopped, or its machine is.  When the machine vanishes the
\* server is told nothing, and gets no more than what has reached it by then.
Leave(c) ==
  /\ client[c] = "connected"
  /\ \E end \in {"closed", "reset", "vanished"} :
       /\ client' = [client EXCEPT ![c] = end]
       /\ \E n \in got[c] .. sent[c] :
            /\ end # "vanished" => n = sent[c]
            /\ sent' = [sent EXCEPT ![c] = n]
  /\ UNCHANGED <<program, serverVars, got, child, recbuf, printed, flight>>
-----------------------------------------------------------------------------
\* The UDP client sends a line in a datagram, or ends when sending fails.
SendTo(c) ==
  /\ client[c] = "off"
  /\ \/ \E n \in 1 .. 2 :
          /\ Cardinality(flight) < MaxFlight
          /\ sent[c] + n <= MaxUnits /\ sent' = [sent EXCEPT ![c] = @ + n]
          /\ flight' = flight \cup {<<c, Units(sent[c] + 1, sent[c] + n)>>}
          /\ UNCHANGED client
     \/ client' = [client EXCEPT ![c] = "gone"] /\ UNCHANGED <<sent, flight>>
  /\ UNCHANGED <<program, serverVars, got, child, recbuf, printed>>

\* The UDP server has one buffer for all clients, and prints the datagram with
\* its sender; got and printed keep the last one.  A datagram that stays in
\* flight comes again.
ReceiveFrom ==
  /\ server = "accept"
  /\ \E d \in flight :
       /\ flight' \in {flight, flight \ {d}}
       /\ got' = [[c \in Client |-> 0] EXCEPT ![d[1]] = Last(d[2])]
       /\ recbuf' = [recbuf EXCEPT !["server"] = Received(@, d[2])]
       /\ printed' = [[c \in Client |-> <<>>] EXCEPT ![d[1]] = String(recbuf'["server"])]
  /\ UNCHANGED <<program, serverVars, client, sent, child>>

Lose ==
  /\ \E d \in flight : flight' = flight \ {d}
  /\ UNCHANGED <<program, serverVars, client, sent, got, child, recbuf, printed>>

Next ==
  \/ program \in {"tcp", "udp"} /\ SetUp
  \/ program = "tcp" /\ (Accept \/ Fork)
  \/ program = "tcp" /\ \E c \in Client :
       Receive(c) \/ ChildEnds(c) \/ Connect(c) \/ Send(c) \/ Leave(c)
  \/ program = "udp" /\ (ReceiveFrom \/ Lose \/ \E c \in Client : SendTo(c))

\* The server and its children go on when they can.
Fairness ==
  /\ WF_vars(program = "tcp" /\ (Accept \/ Fork))
  /\ \A c \in Client : WF_vars(program = "tcp" /\ (Receive(c) \/ ChildEnds(c)))
-----------------------------------------------------------------------------
NetworkTypeOK ==
  /\ server \in {"setup", "accept", "fork", "end"}
  /\ listening \subseteq Process /\ limit \in Limit \cup {0}
  /\ accepted \subseteq Client /\ conn \in Client \cup {NoClient}
  /\ client \in [Client -> {"off", "connected", "refused", "closed", "reset",
                         "vanished", "gone"}]
  /\ \A c \in Client :
       /\ sent[c] \in 0 .. MaxUnits /\ got[c] \in 0 .. sent[c]
       /\ child[c] \in {"none", "reads", "failed", "ended"}
  /\ \A p \in Process : Len(recbuf[p]) = Room + 1

\* What is printed of a TCP connection is what was sent, from its first byte
\* and without a gap, however recv cuts it; what is printed of a datagram is
\* of its sender and ends where it ends: nothing is left in recbuf of a longer
\* one before it, perhaps of another client.
PrintedAsSent ==
  \A c \in Client :
    IF program = "udp"
    THEN printed[c] = <<>> \/ \E from \in 1 .. got[c] : printed[c] = Units(from, got[c])
    ELSE printed[c] = Units(1, got[c])

\* A connection whose client has sent something and stays is served, unless
\* the server has no descriptor or had no process left for it.  The clients
\* served before, gone or still there, and the children that have ended and
\* closed the listening socket, do not change that.
ClientIsServed ==
  \A c \in Client :
    (client[c] = "connected" /\ sent[c] > 0) ~>
      \/ printed[c] # <<>> \/ client[c] # "connected"
      \/ child[c] = "failed" \/ (c \notin accepted /\ Cardinality(accepted) = limit)

\* A process ends when its client has closed or reset the connection.  (One
\* whose client's machine has vanished is never told: keepalive is not set.)
ProcessEnds ==
  \A c \in Client :
    (child[c] = "reads" /\ client[c] \in {"closed", "reset"}) ~> child[c] = "ended"
=============================================================================
