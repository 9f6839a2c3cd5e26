--------------------------- MODULE AnimalsProofs ---------------------------
(***************************************************************************)
(* The D-Bus example for any number of animals, watchers, callers, probers,*)
(* calls and starts of the service: the types and every safety property of *)
(* the run.  Three invariants carry the proof: every call is somewhere     *)
(* between its client and its answer (Calls), the service has one source   *)
(* for each animal whose change it has not told (Sources), and what is in  *)
(* a watcher's inbox, read in order, leads to the truth (Informed).        *)
(***************************************************************************)
EXTENDS Animals, SequenceTheorems, FiniteSetTheorems, TLAPS

\* Where the messages of a sequence that are in T stand, and how many.
Places(s, T) == {i \in DOMAIN s : s[i] \in T}
Count(s, T)  == Cardinality(Places(s, T))

\* t is s without the element at k.
Without(s, t, k) ==
  /\ Len(t) = Len(s) - 1
  /\ \A i \in DOMAIN t : t[i] = s[IF i < k THEN i ELSE i + 1]

\* s, then x if p, then y if q.
Then(s, p, x, q, y) ==
  LET r == IF p THEN Append(s, x) ELSE s IN IF q THEN Append(r, y) ELSE r
-----------------------------------------------------------------------------
\* The sources of the service's main loop: calls, of the clients that make
\* them, and announcements.
Pokes    == [task : {"poke"}, from : Caller \cup Prober, animal : Animal,
             sad : BOOLEAN, happy : BOOLEAN]
Sets     == [task : {"set"}, from : Caller, animal : Animal, mood : Moods]
Manageds == [task : {"managed"}, from : Watcher]
GetAlls  == [task : {"getall"}, from : Prober]
Emits    == [task : {"emit"}, animal : Animal]
Task     == Pokes \cup Sets \cup Manageds \cup GetAlls \cup Emits

GetAllsOf(p) == [task : {"getall"}, from : {p}]
CallsOf(c) == {t \in Task : t.task # "emit" /\ t.from = c}

\* What the bus sends.
Objects   == {o \in [Animal -> [mood : Moods, interfaces : {Interfaces(a) : a \in Animal}]] :
                \A a \in Animal : o[a].interfaces = Interfaces(a)}
Results   == {"ok", "Failed", "SadAnimalIsSad", "HappyAnimalIsHappy", "InvalidArgs",
              "NoReply", "ServiceUnknown"}
Replies   == [msg : {"reply"}, result : Results]
Owners    == [msg : {"owner"}, up : BOOLEAN]
Jumps     == [msg : {"jumped"}, animal : Animal]
Changes   == [msg : {"changed"}, animal : Animal, mood : Moods]
Snapshots == [msg : {"objects"}, objects : Objects, sound : SUBSET Animal]
Answers   == Replies \cup Snapshots
Message   == Answers \cup Owners \cup Jumps \cup Changes

\* Every variable has its type, and a service that is down has no calls.
Place == {"out", "found", "asking", "asking again", "ready", "ended",
              "waiting", "loading", "poking", "crashed"}
Types ==
  /\ up \in BOOLEAN /\ starts \in 0 .. MaxStarts /\ calls \in 0 .. MaxCalls
  /\ mood \in [Animal -> Moods]
  /\ orig \in [Animal -> Moods \cup {"none"}]
  /\ idle \in [Animal -> BOOLEAN]
  /\ loop \in Seq(Task) /\ (~up => loop = << >>)
  /\ pc \in [Client -> Place]
  /\ inbox \in [Client -> Seq(Message)]
  /\ view \in [Watcher -> {<< >>} \cup Objects]
  /\ sound \in [Watcher -> SUBSET Animal]

\* Where each kind of client may be, and what it is sent.
Roles ==
  /\ \A w \in Watcher :
       pc[w] \in {"out", "found", "asking", "asking again", "ready", "ended"}
  /\ \A c \in Caller : pc[c] \in {"ready", "waiting"} /\ inbox[c] \in Seq(Replies)
  /\ \A p \in Prober :
       /\ pc[p] \in {"out", "loading", "poking", "ready", "crashed"}
       /\ pc[p] \in {"out", "loading"} => inbox[p] \in Seq(Answers)
       /\ pc[p] \notin {"out", "loading"} => inbox[p] \in Seq(Replies \cup Jumps)
       /\ pc[p] # "loading" => Count(loop, GetAllsOf(p)) = 0

\* Every call is in the main loop or answered.
Calls ==
  \A c \in Client :
    Count(loop, CallsOf(c)) + Count(inbox[c], Answers) = IF InCall(c) THEN 1 ELSE 0

\* An animal with a change that was not announced has a source in the main
\* loop, and no other has.
Sources ==
  up => \A a \in Animal :
    /\ Count(loop, {EmitChanged(a)}) = IF idle[a] THEN 1 ELSE 0
    /\ idle[a] <=> orig[a] # "none"
-----------------------------------------------------------------------------
\* What the service told last of each animal.
Told == [a \in Animal |-> Announced(a)]

\* Who has v and snd and reads s is right in the end, when the service is up
\* or not and told the moods: no new owner comes, then it has the
\* objects of a service that runs, with the moods told.
Right(s, v, snd, u, told) ==
  (\A i \in DOMAIN s : s[i].msg # "owner") =>
    /\ DOMAIN v = IF u THEN Animal ELSE {}
    /\ \A a \in snd : (\A i \in DOMAIN s : ~IsChange(s[i], a)) => v[a].mood = told[a]

\* The values that an answer brings.
ViewIn(m)  == IF m.msg = "objects" THEN m.objects ELSE << >>
SoundIn(m) == IF m.msg = "objects" THEN m.sound ELSE {}

\* Nothing after i concerns the animal a.
Newest(s, i, a) ==
  \A j \in DOMAIN s : j > i => s[j].msg # "owner" /\ ~IsChange(s[j], a)

\* The newest change of an animal has the mood told; the newest owner is the
\* service that is up, or nobody; an answer is right with what came besides.
Informed(s, u, told) ==
  /\ \A i \in DOMAIN s : s[i].msg = "changed" /\ Newest(s, i, s[i].animal) =>
       u /\ s[i].mood = told[s[i].animal]
  /\ \A i \in DOMAIN s :
       s[i].msg = "owner" /\ (\A j \in DOMAIN s : j > i => s[j].msg # "owner") =>
         s[i].up = u
  /\ \A i \in DOMAIN s : IsAnswer(s[i]) => Right(s, ViewIn(s[i]), SoundIn(s[i]), u, told)

\* No two changes of an animal to the same mood without one between them.
Alternates(s) ==
  \A i, j \in DOMAIN s :
    (i < j /\ s[i].msg = "changed" /\ IsChange(s[j], s[i].animal)) =>
      \/ s[i].mood # s[j].mood
      \/ \E k \in DOMAIN s : /\ i < k /\ k < j
                             /\ s[k].msg = "owner" \/ IsChange(s[k], s[i].animal)

\* What must hold of a watcher at the place p that reads s and has v and snd.
Knows(s, p, v, snd, u, told) ==
  /\ Informed(s, u, told) /\ Alternates(s)
  /\ p = "ready" => Right(s, v, snd, u, told)
  /\ p # "ready" => v = << >> /\ snd = {}
  /\ p \in {"out", "ended"} => s = << >>
  /\ snd \subseteq DOMAIN v

WatcherInv ==
  \A w \in Watcher : Knows(inbox[w], pc[w], view[w], sound[w], up, Told)

Inv == Types /\ Roles /\ Calls /\ Sources /\ WatcherInv
-----------------------------------------------------------------------------
\* Counting in sequences.
LEMMA CountZero ==
  ASSUME NEW S, NEW s \in Seq(S), NEW T
  PROVE  /\ IsFiniteSet(Places(s, T)) /\ Count(s, T) \in Nat
         /\ Count(s, T) = 0 <=> \A i \in DOMAIN s : s[i] \notin T
<1>1. DOMAIN s = 1 .. Len(s) /\ Len(s) \in Nat
  BY LenProperties
<1>2. IsFiniteSet(1 .. Len(s))
  BY <1>1, FS_Interval
<1>3. Places(s, T) \in SUBSET (1 .. Len(s))
  BY <1>1 DEF Places
<1>4. IsFiniteSet(Places(s, T))
  BY <1>2, <1>3, FS_Subset
<1>5. Count(s, T) \in Nat /\ (Count(s, T) = 0 <=> Places(s, T) = {})
  BY <1>4, FS_CardinalityType, FS_EmptySet DEF Count
<1>6. QED
  BY <1>4, <1>5 DEF Places

LEMMA CountLess ==
  ASSUME NEW S, NEW s \in Seq(S), NEW T, NEW U, T \cap S \subseteq U
  PROVE  Count(s, T) <= Count(s, U)
<1>1. \A i \in DOMAIN s : s[i] \in S
  BY LenProperties
<1>2. Places(s, T) \in SUBSET Places(s, U)
  BY <1>1 DEF Places
<1>3. QED
  BY <1>2, CountZero, FS_Subset DEF Count

LEMMA CountEmpty ==
  ASSUME NEW T
  PROVE  Count(<< >>, T) = 0
<1>1. Places(<< >>, T) = {}
  BY DEF Places
<1>2. QED
  BY <1>1, FS_EmptySet DEF Count

LEMMA CountAppend ==
  ASSUME NEW S, NEW s \in Seq(S), NEW x \in S, NEW T
  PROVE  /\ x \in T => Count(Append(s, x), T) = Count(s, T) + 1
         /\ x \notin T => Count(Append(s, x), T) = Count(s, T)
<1> DEFINE n == Len(s) + 1
<1>1. Len(s) \in Nat /\ DOMAIN s = 1 .. Len(s)
  BY LenProperties
<1>2. /\ DOMAIN Append(s, x) = 1 .. n
      /\ \A i \in 1 .. Len(s) : Append(s, x)[i] = s[i]
      /\ Append(s, x)[n] = x
  BY AppendProperties, LenProperties
<1>3. n \notin Places(s, T)
  BY <1>1 DEF Places
<1>4. CASE x \in T
  <2>1. Places(Append(s, x), T) = Places(s, T) \cup {n}
    BY <1>1, <1>2, <1>4 DEF Places
  <2>2. QED
    BY <1>3, <1>4, <2>1, CountZero, FS_AddElement DEF Count
<1>5. CASE x \notin T
  <2>1. Places(Append(s, x), T) = Places(s, T)
    BY <1>1, <1>2, <1>5 DEF Places
  <2>2. QED
    BY <1>5, <2>1, CountZero DEF Count
<1>6. QED
  BY <1>4, <1>5

LEMMA CountWithout ==
  ASSUME NEW S, NEW s \in Seq(S), NEW t \in Seq(S), NEW k \in DOMAIN s,
         Without(s, t, k), NEW T
  PROVE  /\ s[k] \in T => Count(t, T) = Count(s, T) - 1
         /\ s[k] \notin T => Count(t, T) = Count(s, T)
<1> DEFINE P == Places(s, T) \ {k}
           Q == Places(t, T)
           f == [i \in Q |-> IF i < k THEN i ELSE i + 1]
<1>1. /\ Len(s) \in Nat /\ DOMAIN s = 1 .. Len(s)
      /\ Len(t) \in Nat /\ DOMAIN t = 1 .. Len(t) /\ Len(t) = Len(s) - 1
  BY LenProperties DEF Without
<1>2. \A i \in DOMAIN t : t[i] = s[IF i < k THEN i ELSE i + 1]
  BY DEF Without
<1>3. f \in [Q -> P]
  BY <1>1, <1>2 DEF Places
<1>4. \A i, j \in Q : f[i] = f[j] => i = j
  BY <1>1 DEF Places
<1>5. ASSUME NEW j \in P  PROVE \E i \in Q : f[i] = j
  <2>1. CASE j < k
    <3>1. j \in Q
      BY <1>1, <1>2, <2>1 DEF Places
    <3>2. QED
      BY <2>1, <3>1
  <2>2. CASE j > k
    <3>1. j - 1 \in DOMAIN t /\ ~(j - 1 < k) /\ (j - 1) + 1 = j
      BY <1>1, <2>2 DEF Places
    <3>2. t[j - 1] = s[j]
      BY <1>2, <3>1
    <3>3. j - 1 \in Q
      BY <3>1, <3>2 DEF Places
    <3>4. QED
      BY <3>1, <3>3
  <2>3. j \in 1 .. Len(s) /\ j # k /\ k \in 1 .. Len(s)
    BY <1>1 DEF Places
  <2>4. QED
    BY <2>1, <2>2, <2>3
<1> HIDE DEF f
<1>6. f \in Bijection(Q, P)
  BY <1>3, <1>4, <1>5 DEF Bijection, Injection, Surjection, IsInjective
<1>7. IsFiniteSet(Q) /\ IsFiniteSet(Places(s, T)) /\ Count(s, T) \in Nat
  BY CountZero
<1>8. Cardinality(P) = Cardinality(Q)
  BY <1>6, <1>7, FS_Bijection DEF ExistsBijection
<1>9. Cardinality(P) = IF k \in Places(s, T) THEN Count(s, T) - 1 ELSE Count(s, T)
  BY <1>7, FS_RemoveElement DEF Count
<1>10. k \in Places(s, T) <=> s[k] \in T
  BY DEF Places
<1>11. QED
  BY <1>7, <1>8, <1>9, <1>10 DEF Count

LEMMA TailWithout ==
  ASSUME NEW S, NEW s \in Seq(S), s # << >>
  PROVE  /\ Tail(s) \in Seq(S) /\ Without(s, Tail(s), 1)
         /\ 1 \in DOMAIN s /\ Head(s) = s[1] /\ Head(s) \in S
<1>1. /\ Tail(s) \in Seq(S) /\ Len(Tail(s)) = Len(s) - 1 /\ Head(s) \in S
      /\ \A i \in 1 .. Len(Tail(s)) : Tail(s)[i] = s[i + 1]
  BY HeadTailProperties
<1>2. DOMAIN Tail(s) = 1 .. Len(Tail(s)) /\ Len(Tail(s)) \in Nat
  BY <1>1, LenProperties
<1>3. Len(s) \in Nat /\ Len(s) > 0 /\ DOMAIN s = 1 .. Len(s)
  BY EmptySeq, LenProperties
<1>4. QED
  BY <1>1, <1>2, <1>3 DEF Without

LEMMA CountTail ==
  ASSUME NEW S, NEW s \in Seq(S), s # << >>, NEW T
  PROVE  /\ Head(s) \in T => Count(Tail(s), T) = Count(s, T) - 1
         /\ Head(s) \notin T => Count(Tail(s), T) = Count(s, T)
<1> DEFINE u == Tail(s)
           h == Head(s)
<1>1. u \in Seq(S) /\ Without(s, u, 1) /\ 1 \in DOMAIN s /\ h = s[1]
  BY TailWithout
<1> HIDE DEF u, h
<1>2. /\ s[1] \in T => Count(u, T) = Count(s, T) - 1
      /\ s[1] \notin T => Count(u, T) = Count(s, T)
  BY <1>1, CountWithout
<1>3. QED
  BY <1>1, <1>2 DEF u, h

LEMMA RemoveAtWithout ==
  ASSUME NEW S, NEW s \in Seq(S), NEW k \in DOMAIN s
  PROVE  RemoveAt(s, k) \in Seq(S) /\ Without(s, RemoveAt(s, k), k)
<1> DEFINE a == SubSeq(s, 1, k - 1)
           b == SubSeq(s, k + 1, Len(s))
<1>1. Len(s) \in Nat /\ DOMAIN s = 1 .. Len(s) /\ \A i \in 1 .. Len(s) : s[i] \in S
  BY LenProperties
<1>2. a \in Seq(S) /\ Len(a) = k - 1 /\ \A i \in 1 .. k - 1 : a[i] = s[i]
  <2>1. \A i \in 1 .. k - 1 : s[i] \in S
    BY <1>1
  <2>2. /\ a \in Seq(S) /\ Len(a) = (IF 1 <= k - 1 THEN (k - 1) - 1 + 1 ELSE 0)
        /\ \A i \in 1 .. (k - 1) - 1 + 1 : a[i] = s[1 + i - 1]
    BY <1>1, <2>1, SubSeqProperties
  <2>3. QED
    BY <1>1, <2>2
<1>3. /\ b \in Seq(S) /\ Len(b) = Len(s) - k
      /\ \A i \in 1 .. Len(s) - k : b[i] = s[k + i]
  <2>1. \A i \in k + 1 .. Len(s) : s[i] \in S
    BY <1>1
  <2>2. /\ b \in Seq(S) /\ Len(b) = (IF k + 1 <= Len(s) THEN Len(s) - (k + 1) + 1 ELSE 0)
        /\ \A i \in 1 .. Len(s) - (k + 1) + 1 : b[i] = s[(k + 1) + i - 1]
    BY <1>1, <2>1, SubSeqProperties
  <2>3. k \in Nat /\ k <= Len(s) /\ Len(s) - (k + 1) + 1 = Len(s) - k
    BY <1>1
  <2>4. \A i \in 1 .. Len(s) - k : (k + 1) + i - 1 = k + i
    BY <2>3, <1>1
  <2>5. Len(b) = Len(s) - k
    BY <1>1, <2>2, <2>3
  <2>6. \A i \in 1 .. Len(s) - k : b[i] = s[k + i]
    BY <2>2, <2>3, <2>4
  <2>7. QED
    BY <2>2, <2>5, <2>6
<1> HIDE DEF a, b
<1>4. /\ a \o b \in Seq(S) /\ Len(a \o b) = Len(a) + Len(b)
      /\ \A i \in 1 .. Len(a) + Len(b) : (a \o b)[i] = IF i <= Len(a) THEN a[i] ELSE b[i - Len(a)]
  BY <1>2, <1>3, ConcatProperties
<1>9. k \in Nat /\ 1 <= k /\ k <= Len(s)
  BY <1>1
<1>5. Len(a \o b) = Len(s) - 1 /\ DOMAIN (a \o b) = 1 .. Len(s) - 1
  <2>1. Len(a) + Len(b) = Len(s) - 1
    BY <1>1, <1>2, <1>3, <1>9
  <2>2. QED
    BY <1>4, <2>1, LenProperties
<1>6. ASSUME NEW i \in 1 .. Len(s) - 1
      PROVE  (a \o b)[i] = s[IF i < k THEN i ELSE i + 1]
  <2>1. CASE i < k
    BY <1>1, <1>2, <1>3, <1>4, <1>9, <2>1
  <2>2. CASE ~(i < k)
    <3>1. ~(i <= Len(a)) /\ i - Len(a) \in 1 .. Len(s) - k /\ k + (i - Len(a)) = i + 1
      BY <1>1, <1>2, <1>9, <2>2
    <3>2. b[i - Len(a)] = s[i + 1]
      BY <1>3, <3>1
    <3>3. i \in 1 .. Len(a) + Len(b)
      BY <1>1, <1>2, <1>3, <1>9
    <3>4. (a \o b)[i] = b[i - Len(a)]
      BY <1>4, <3>1, <3>3
    <3>5. QED
      BY <2>2, <3>2, <3>4
  <2>3. QED
    BY <2>1, <2>2
<1>7. RemoveAt(s, k) = a \o b
  BY DEF RemoveAt, a, b
<1>8. QED
  BY <1>4, <1>5, <1>6, <1>7 DEF Without

\* What is sent to a client in one step.
LEMMA TwoMore ==
  ASSUME NEW S, NEW s \in Seq(S), NEW x \in S, NEW y \in S
  PROVE  /\ s \o (<< >> \o << >>) = s
         /\ s \o (<<x>> \o << >>) = Append(s, x)
         /\ s \o (<< >> \o <<y>>) = Append(s, y)
         /\ s \o (<<x>> \o <<y>>) = Append(Append(s, x), y)
<1>1. /\ << >> \o << >> = << >> /\ << >> \o <<y>> = <<y>> /\ <<x>> \o << >> = <<x>>
      /\ s \o << >> = s
  BY ConcatEmptySeq, EmptySeq
<1>2. Append(s, x) = s \o <<x>> /\ Append(s, y) = s \o <<y>> /\ Append(s, x) \in Seq(S)
  BY AppendIsConcat, AppendProperties
<1>3. Append(Append(s, x), y) = (s \o <<x>>) \o <<y>>
  BY <1>2, AppendIsConcat
<1>4. (s \o <<x>>) \o <<y>> = s \o (<<x>> \o <<y>>)
  BY ConcatAssociative
<1>5. QED
  BY <1>1, <1>2, <1>3, <1>4

LEMMA CountThen ==
  ASSUME NEW S, NEW s \in Seq(S), NEW x \in S, NEW y \in S, NEW c, NEW J, NEW K, NEW T
  PROVE  /\ Then(s, c \in J, x, c \in K, y) \in Seq(S)
         /\ ~(c \in J /\ x \in T) /\ ~(c \in K /\ y \in T) =>
              Count(Then(s, c \in J, x, c \in K, y), T) = Count(s, T)
         /\ ~(c \in J /\ x \in T) /\ c \in K /\ y \in T =>
              Count(Then(s, c \in J, x, c \in K, y), T) = Count(s, T) + 1
         /\ c \in J /\ x \in T /\ ~(c \in K /\ y \in T) =>
              Count(Then(s, c \in J, x, c \in K, y), T) = Count(s, T) + 1
<1> DEFINE r == IF c \in J THEN Append(s, x) ELSE s
<1>1. r \in Seq(S)
  BY AppendProperties
<1>2. /\ c \in J /\ x \in T => Count(r, T) = Count(s, T) + 1
      /\ ~(c \in J /\ x \in T) => Count(r, T) = Count(s, T)
  BY CountAppend
<1>3. Then(s, c \in J, x, c \in K, y) = IF c \in K THEN Append(r, y) ELSE r
  BY DEF Then
<1> HIDE DEF r
<1>4. (IF c \in K THEN Append(r, y) ELSE r) \in Seq(S)
  BY <1>1, AppendProperties
<1>5. CASE c \in K
  <2>1. Then(s, c \in J, x, c \in K, y) = Append(r, y)
    BY <1>3, <1>5
  <2>2. /\ y \in T => Count(Append(r, y), T) = Count(r, T) + 1
        /\ y \notin T => Count(Append(r, y), T) = Count(r, T)
    BY <1>1, CountAppend
  <2>3. QED
    BY <1>2, <1>3, <1>4, <1>5, <2>1, <2>2
<1>6. CASE c \notin K
  <2>1. Then(s, c \in J, x, c \in K, y) = r
    BY <1>3, <1>6
  <2>2. QED
    BY <1>1, <1>2, <1>6, <2>1
<1>7. QED
  BY <1>5, <1>6
-----------------------------------------------------------------------------
\* Sequences of messages with one more, and with one less.
LEMMA AppendAt ==
  ASSUME NEW s \in Seq(Message), NEW m \in Message
  PROVE  /\ DOMAIN Append(s, m) = DOMAIN s \cup {Len(s) + 1} /\ Len(s) + 1 \in Nat
         /\ Append(s, m)[Len(s) + 1] = m
         /\ \A i \in DOMAIN s : /\ i \in Nat /\ i < Len(s) + 1 /\ s[i] \in Message
                                /\ Append(s, m)[i] = s[i]
<1>1. Len(s) \in Nat /\ DOMAIN s = 1 .. Len(s) /\ s \in [1 .. Len(s) -> Message]
  BY LenProperties
<1>2. Append(s, m) \in Seq(Message) /\ Len(Append(s, m)) = Len(s) + 1
  BY AppendProperties
<1>3. DOMAIN Append(s, m) = 1 .. Len(s) + 1
  BY <1>2, LenProperties
<1>4. 1 .. Len(s) + 1 = (1 .. Len(s)) \cup {Len(s) + 1}
  BY <1>1
<1>5. QED
  BY <1>1, <1>3, <1>4, AppendProperties

LEMMA WithoutAt ==
  ASSUME NEW s \in Seq(Message), NEW t \in Seq(Message), NEW k \in DOMAIN s,
         Without(s, t, k)
  PROVE  \E f \in [DOMAIN t -> DOMAIN s \ {k}] :
           /\ \A i \in DOMAIN t : t[i] = s[f[i]]
           /\ \A i, j \in DOMAIN t : i < j <=> f[i] < f[j]
           /\ \A j \in DOMAIN s \ {k} : \E i \in DOMAIN t : f[i] = j
<1> DEFINE f == [i \in DOMAIN t |-> IF i < k THEN i ELSE i + 1]
<1>1. /\ Len(s) \in Nat /\ DOMAIN s = 1 .. Len(s)
      /\ Len(t) \in Nat /\ DOMAIN t = 1 .. Len(t) /\ Len(t) = Len(s) - 1
  BY LenProperties DEF Without
<1>2. f \in [DOMAIN t -> DOMAIN s \ {k}]
  BY <1>1
<1>3. \A i \in DOMAIN t : t[i] = s[f[i]]
  BY DEF Without
<1>4. \A i, j \in DOMAIN t : i < j <=> f[i] < f[j]
  BY <1>1
<1>5. ASSUME NEW j \in DOMAIN s \ {k}  PROVE \E i \in DOMAIN t : f[i] = j
  <2>1. CASE j < k
    <3>1. j \in DOMAIN t
      BY <1>1, <2>1
    <3>2. QED
      BY <2>1, <3>1
  <2>2. CASE j > k
    <3>1. j - 1 \in DOMAIN t /\ ~(j - 1 < k) /\ (j - 1) + 1 = j
      BY <1>1, <2>2
    <3>2. QED
      BY <3>1
  <2>3. QED
    BY <1>1, <2>1, <2>2
<1> HIDE DEF f
<1>6. QED
  BY <1>2, <1>3, <1>4, <1>5

LEMMA MessageKinds ==
  ASSUME NEW m \in Message
  PROVE  /\ IsAnswer(m) <=> m \in Answers
         /\ m.msg = "owner" <=> m \in Owners
         /\ m.msg = "changed" <=> m \in Changes
         /\ m.msg = "objects" <=> m \in Snapshots
         /\ m.msg = "reply" <=> m \in Replies
<1>1. /\ m \in Replies => m.msg = "reply"
      /\ m \in Snapshots => m.msg = "objects"
      /\ m \in Owners => m.msg = "owner"
      /\ m \in Jumps => m.msg = "jumped"
      /\ m \in Changes => m.msg = "changed"
  BY DEF Replies, Snapshots, Owners, Jumps, Changes
<1>2. QED
  BY <1>1 DEF Message, Answers, IsAnswer

LEMMA RightAppend ==
  ASSUME NEW s \in Seq(Message), NEW m \in Message, NEW v, NEW snd, NEW u,
         NEW told, NEW now, Right(s, v, snd, u, told), m.msg # "owner",
         \A a \in snd : now[a] = told[a] \/ IsChange(m, a)
  PROVE  Right(Append(s, m), v, snd, u, now)
  BY AppendAt DEF Right

LEMMA RightWithout ==
  ASSUME NEW s \in Seq(Message), NEW t \in Seq(Message), NEW k \in DOMAIN s,
         Without(s, t, k), s[k].msg \notin {"owner", "changed"},
         NEW v, NEW snd, NEW u, NEW told, Right(s, v, snd, u, told)
  PROVE  Right(t, v, snd, u, told)
<1>1. PICK f \in [DOMAIN t -> DOMAIN s \ {k}] :
           /\ \A i \in DOMAIN t : t[i] = s[f[i]]
           /\ \A j \in DOMAIN s \ {k} : \E i \in DOMAIN t : f[i] = j
  BY WithoutAt
<1>2. QED
  BY <1>1, SMTT(30) DEF Right, IsChange

\* A new owner makes the rest old.
LEMMA InformedOwner ==
  ASSUME NEW s \in Seq(Message), NEW u \in BOOLEAN, NEW told
  PROVE  Informed(Append(s, Owner(u)), u, told)
<1> DEFINE m == Owner(u)
           n == Len(s) + 1
           t == Append(s, m)
<1>1. m \in Message /\ m.msg = "owner" /\ m.up = u
  BY DEF Owner, Message, Owners
<1>2. /\ DOMAIN t = DOMAIN s \cup {n} /\ t[n] = m /\ n \in Nat
      /\ \A i \in DOMAIN s : i \in Nat /\ i < n
  BY <1>1, AppendAt
<1> HIDE DEF m, n, t
<1>3. \A i \in DOMAIN t : i = n \/ (i < n /\ n \in DOMAIN t)
  BY <1>2
<1>4. \A i \in DOMAIN t : t[i].msg = "changed" => ~Newest(t, i, t[i].animal)
  BY <1>1, <1>2, <1>3 DEF Newest
<1>5. ASSUME NEW v, NEW snd  PROVE Right(t, v, snd, u, told)
  BY <1>1, <1>2 DEF Right
<1>6. QED
  BY <1>1, <1>2, <1>3, <1>4, <1>5 DEF Informed, m, t

\* A jump or an answer changes nothing for the rest.
LEMMA InformedQuiet ==
  ASSUME NEW s \in Seq(Message), NEW u \in BOOLEAN, NEW told, Informed(s, u, told),
         NEW m \in Message, m.msg \notin {"owner", "changed"},
         IsAnswer(m) => Right(s, ViewIn(m), SoundIn(m), u, told)
  PROVE  Informed(Append(s, m), u, told)
<1> DEFINE n == Len(s) + 1
           t == Append(s, m)
<1>1. /\ DOMAIN t = DOMAIN s \cup {n} /\ t[n] = m
      /\ \A i \in DOMAIN s : t[i] = s[i]
  BY AppendAt
<1>2. \A v, snd : Right(s, v, snd, u, told) => Right(t, v, snd, u, told)
  BY RightAppend
<1> HIDE DEF n, t
<1>3. \A i \in DOMAIN s : \A a : Newest(t, i, a) => Newest(s, i, a)
  BY <1>1 DEF Newest
<1>4. \A i \in DOMAIN t : t[i].msg = "changed" /\ Newest(t, i, t[i].animal) =>
         u /\ t[i].mood = told[t[i].animal]
  BY <1>1, <1>3 DEF Informed
<1>5. \A i \in DOMAIN t :
       t[i].msg = "owner" /\ (\A j \in DOMAIN t : j > i => t[j].msg # "owner") =>
         t[i].up = u
  BY <1>1 DEF Informed
<1>6. \A i \in DOMAIN t : IsAnswer(t[i]) => Right(t, ViewIn(t[i]), SoundIn(t[i]), u, told)
  BY <1>1, <1>2 DEF Informed
<1>7. Informed(t, u, told)
  BY <1>4, <1>5, <1>6 DEF Informed
<1>8. QED
  BY <1>7 DEF t

\* A change is told to all at once.
LEMMA InformedChange ==
  ASSUME NEW s \in Seq(Message), NEW told \in [Animal -> Moods], Informed(s, TRUE, told),
         NEW a \in Animal, NEW x \in Moods
  PROVE  Informed(Append(s, Changed(a, x)), TRUE, [told EXCEPT ![a] = x])
<1> DEFINE m == Changed(a, x)
           n == Len(s) + 1
           t == Append(s, m)
           now == [told EXCEPT ![a] = x]
<1>1. /\ m \in Message /\ m.msg = "changed" /\ m.animal = a /\ m.mood = x
      /\ ~IsAnswer(m) /\ \A b : IsChange(m, b) <=> b = a
  BY DEF Changed, Message, Changes, IsAnswer, IsChange
<1>2. /\ DOMAIN t = DOMAIN s \cup {n} /\ t[n] = m /\ n \in Nat
      /\ \A i \in DOMAIN s : i \in Nat /\ i < n /\ s[i] \in Message /\ t[i] = s[i]
  BY <1>1, AppendAt
<1>3. now[a] = x /\ \A b \in Animal \ {a} : now[b] = told[b]
  OBVIOUS
<1>4. \A y \in Answers : SoundIn(y) \subseteq Animal
  BY DEF Answers, Snapshots, Replies, SoundIn
<1>5. \A y \in Message : /\ IsAnswer(y) => y \in Answers
                         /\ y.msg = "changed" => y.animal \in Animal
  BY MessageKinds DEF Changes
<1>6. ASSUME NEW v, NEW snd \in SUBSET Animal, Right(s, v, snd, TRUE, told)
      PROVE  Right(t, v, snd, TRUE, now)
  <2>1. \A b \in snd : now[b] = told[b] \/ IsChange(m, b)
    BY <1>1, <1>3
  <2>2. QED
    BY <1>1, <1>6, <2>1, RightAppend
<1> HIDE DEF m, n, t, now
<1>7. \A i \in DOMAIN s : \A b : Newest(t, i, b) => Newest(s, i, b) /\ b # a
  BY <1>1, <1>2 DEF Newest
<1>8. \A i \in DOMAIN t : t[i].msg = "changed" /\ Newest(t, i, t[i].animal) =>
         t[i].mood = now[t[i].animal]
  BY <1>1, <1>2, <1>3, <1>5, <1>7 DEF Informed
<1>9. \A i \in DOMAIN t :
       t[i].msg = "owner" /\ (\A j \in DOMAIN t : j > i => t[j].msg # "owner") =>
         t[i].up = TRUE
  BY <1>1, <1>2 DEF Informed
<1>10. \A i \in DOMAIN t : IsAnswer(t[i]) => Right(t, ViewIn(t[i]), SoundIn(t[i]), TRUE, now)
  BY <1>1, <1>2, <1>4, <1>5, <1>6 DEF Informed
<1>11. Informed(t, TRUE, now)
  BY <1>8, <1>9, <1>10 DEF Informed
<1>12. QED
  BY <1>11 DEF t, m, now

\* An answer is taken out, or the oldest message when no answer is there.
LEMMA InformedWithout ==
  ASSUME NEW s \in Seq(Message), NEW t \in Seq(Message), NEW k \in DOMAIN s,
         Without(s, t, k), NEW u \in BOOLEAN, NEW told, Informed(s, u, told),
         IsAnswer(s[k]) \/ \A i \in DOMAIN s : ~IsAnswer(s[i]),
         IsAnswer(s[k]) \/ k = 1
  PROVE  Informed(t, u, told)
<1>1. PICK f \in [DOMAIN t -> DOMAIN s \ {k}] :
           /\ \A i \in DOMAIN t : t[i] = s[f[i]]
           /\ \A i, j \in DOMAIN t : i < j <=> f[i] < f[j]
           /\ \A j \in DOMAIN s \ {k} : \E i \in DOMAIN t : f[i] = j
  BY WithoutAt
<1>2. DOMAIN s = 1 .. Len(s) /\ Len(s) \in Nat /\ DOMAIN t = 1 .. Len(t) /\ Len(t) \in Nat
  BY LenProperties
<1>3. \A i \in DOMAIN t : f[i] \in DOMAIN s \ {k}
  BY <1>1
<1>4. IsAnswer(s[k]) => s[k].msg # "owner" /\ \A a : ~IsChange(s[k], a)
  BY DEF IsAnswer, IsChange
<1>5. ~IsAnswer(s[k]) => \A i \in DOMAIN s : ~(k > i)
  BY <1>2
<1>6. \A i \in DOMAIN t : \A a : Newest(t, i, a) => Newest(s, f[i], a)
  <2> SUFFICES ASSUME NEW i \in DOMAIN t, NEW a, Newest(t, i, a),
                      NEW j \in DOMAIN s, j > f[i]
               PROVE  s[j].msg # "owner" /\ ~IsChange(s[j], a)
    BY DEF Newest
  <2>1. CASE j = k
    BY <1>3, <1>4, <1>5, <2>1
  <2>2. CASE j # k
    <3>1. PICK e \in DOMAIN t : f[e] = j
      BY <1>1, <2>2
    <3>2. e > i
      BY <1>1, <1>2, <1>3, <3>1
    <3>3. QED
      BY <1>1, <3>1, <3>2 DEF Newest
  <2>3. QED
    BY <2>1, <2>2
<1>7. \A i \in DOMAIN t : t[i].msg = "changed" /\ Newest(t, i, t[i].animal) =>
         u /\ t[i].mood = told[t[i].animal]
  BY <1>1, <1>3, <1>6 DEF Informed
<1>8. ASSUME NEW i \in DOMAIN t, t[i].msg = "owner",
             \A j \in DOMAIN t : j > i => t[j].msg # "owner"
      PROVE  t[i].up = u
  <2>1. ASSUME NEW j \in DOMAIN s, j > f[i]  PROVE s[j].msg # "owner"
    <3>1. CASE j = k
      BY <1>3, <1>4, <1>5, <2>1, <3>1
    <3>2. CASE j # k
      <4>1. PICK e \in DOMAIN t : f[e] = j
        BY <1>1, <3>2
      <4>2. e > i
        BY <1>1, <1>2, <1>3, <2>1, <4>1
      <4>3. QED
        BY <1>1, <1>8, <4>1, <4>2
    <3>3. QED
      BY <3>1, <3>2
  <2>2. t[i] = s[f[i]] /\ f[i] \in DOMAIN s
    BY <1>1, <1>3
  <2>3. QED
    BY <1>8, <2>1, <2>2 DEF Informed
<1>9. ASSUME NEW i \in DOMAIN t, IsAnswer(t[i])
      PROVE  Right(t, ViewIn(t[i]), SoundIn(t[i]), u, told)
  <2>1. t[i] = s[f[i]] /\ f[i] \in DOMAIN s
    BY <1>1, <1>3
  <2>2. IsAnswer(s[k])
    BY <1>9, <2>1
  <2>3. s[k].msg \notin {"owner", "changed"}
    BY <2>2 DEF IsAnswer
  <2>4. Right(s, ViewIn(t[i]), SoundIn(t[i]), u, told)
    BY <1>9, <2>1 DEF Informed
  <2>5. QED
    BY <2>3, <2>4, RightWithout
<1>10. QED
  BY <1>7, <1>8, <1>9 DEF Informed

LEMMA AlternatesAppend ==
  ASSUME NEW s \in Seq(Message), NEW m \in Message, Alternates(s),
         \/ m.msg # "changed"
         \/ \E u, told : Informed(s, u, told) /\ told[m.animal] # m.mood
  PROVE  Alternates(Append(s, m))
<1> DEFINE n == Len(s) + 1
           t == Append(s, m)
<1>1. /\ DOMAIN t = DOMAIN s \cup {n} /\ t[n] = m /\ n \in Nat
      /\ \A i \in DOMAIN s : i \in Nat /\ i < n /\ t[i] = s[i]
  BY AppendAt
<1> HIDE DEF n, t
<1> SUFFICES ASSUME NEW i \in DOMAIN t, NEW j \in DOMAIN t, i < j,
                    t[i].msg = "changed", IsChange(t[j], t[i].animal)
             PROVE  \/ t[i].mood # t[j].mood
                    \/ \E k \in DOMAIN t : /\ i < k /\ k < j
                                           /\ t[k].msg = "owner" \/ IsChange(t[k], t[i].animal)
  BY DEF Alternates, t
<1>2. i \in DOMAIN s
  BY <1>1
<1>3. CASE j \in DOMAIN s
  BY <1>1, <1>2, <1>3 DEF Alternates
<1>4. CASE j = n
  <2>1. m.msg = "changed" /\ m.animal = s[i].animal
    BY <1>1, <1>2, <1>4 DEF IsChange
  <2>2. PICK u, told : Informed(s, u, told) /\ told[m.animal] # m.mood
    BY <2>1
  <2>3. CASE Newest(s, i, s[i].animal)
    <3>1. s[i].mood = told[s[i].animal]
      BY <1>1, <1>2, <2>2, <2>3 DEF Informed
    <3>2. QED
      BY <1>1, <1>2, <1>4, <2>1, <2>2, <3>1
  <2>4. CASE ~Newest(s, i, s[i].animal)
    BY <1>1, <1>2, <1>4, <2>4 DEF Newest
  <2>5. QED
    BY <2>3, <2>4
<1>5. QED
  BY <1>1, <1>3, <1>4

LEMMA AlternatesWithout ==
  ASSUME NEW s \in Seq(Message), NEW t \in Seq(Message), NEW k \in DOMAIN s,
         Without(s, t, k), Alternates(s), IsAnswer(s[k]) \/ k = 1
  PROVE  Alternates(t)
<1>1. PICK f \in [DOMAIN t -> DOMAIN s \ {k}] :
           /\ \A i \in DOMAIN t : t[i] = s[f[i]]
           /\ \A i, j \in DOMAIN t : i < j <=> f[i] < f[j]
           /\ \A j \in DOMAIN s \ {k} : \E i \in DOMAIN t : f[i] = j
  BY WithoutAt
<1>2. DOMAIN s = 1 .. Len(s) /\ Len(s) \in Nat
  BY LenProperties
<1>3. \A i \in DOMAIN t : f[i] \in DOMAIN s \ {k}
  BY <1>1
<1>4. \A e \in DOMAIN s : \A a : s[e].msg = "owner" \/ IsChange(s[e], a) =>
         e # k \/ k = 1
  BY DEF IsAnswer, IsChange
<1> SUFFICES ASSUME NEW i \in DOMAIN t, NEW j \in DOMAIN t, i < j,
                    t[i].msg = "changed", IsChange(t[j], t[i].animal),
                    t[i].mood = t[j].mood
             PROVE  \E e \in DOMAIN t : /\ i < e /\ e < j
                                        /\ t[e].msg = "owner" \/ IsChange(t[e], t[i].animal)
  BY DEF Alternates
<1>5. /\ t[i] = s[f[i]] /\ t[j] = s[f[j]] /\ f[i] < f[j]
      /\ f[i] \in DOMAIN s /\ f[j] \in DOMAIN s
  BY <1>1, <1>3
<1>6. PICK e \in DOMAIN s : /\ f[i] < e /\ e < f[j]
                            /\ s[e].msg = "owner" \/ IsChange(s[e], t[i].animal)
  BY <1>5 DEF Alternates
<1>7. e # k
  <2>1. e # 1
    BY <1>2, <1>5, <1>6
  <2>2. QED
    BY <1>4, <1>6, <2>1
<1>8. PICK d \in DOMAIN t : f[d] = e
  BY <1>1, <1>7
<1>9. i < d /\ d < j /\ t[d] = s[e]
  BY <1>1, <1>6, <1>8
<1>10. QED
  BY <1>6, <1>9

-----------------------------------------------------------------------------
\* What a step sends: x to the clients in J, then y to those in K.
Sent(J, x, K, y) == [c \in Client |-> Then(inbox[c], c \in J, x, c \in K, y)]

LEMMA SentIs ==
  ASSUME Types, NEW x \in Message, NEW y \in Message, NEW J, NEW K,
         inbox' = Sent(J, x, K, y)
  PROVE  /\ inbox' \in [Client -> Seq(Message)]
         /\ \A c \in Client : inbox'[c] = Then(inbox[c], c \in J, x, c \in K, y)
<1>1. \A c \in Client : inbox'[c] = Then(inbox[c], c \in J, x, c \in K, y)
  BY DEF Sent
<1>2. ASSUME NEW c \in Client
      PROVE  inbox'[c] \in Seq(Message)
  <2>1. inbox[c] \in Seq(Message) /\ inbox'[c] = Then(inbox[c], c \in J, x, c \in K, y)
    BY <1>1 DEF Types
  <2>2. QED
    BY <2>1, CountThen
<1>3. inbox' \in [Client -> Seq(Message)]
  BY <1>2 DEF Sent
<1>4. QED
  BY <1>1, <1>3

LEMMA SentCounts ==
  ASSUME Types, NEW x \in Message, NEW y \in Message, NEW J, NEW K,
         inbox' = Sent(J, x, K, y), NEW c \in Client, NEW T
  PROVE  /\ ~(c \in J /\ x \in T) /\ ~(c \in K /\ y \in T) =>
              Count(inbox'[c], T) = Count(inbox[c], T)
         /\ ~(c \in J /\ x \in T) /\ c \in K /\ y \in T =>
              Count(inbox'[c], T) = Count(inbox[c], T) + 1
         /\ c \in J /\ x \in T /\ ~(c \in K /\ y \in T) =>
              Count(inbox'[c], T) = Count(inbox[c], T) + 1
<1>1. inbox[c] \in Seq(Message) /\ inbox'[c] = Then(inbox[c], c \in J, x, c \in K, y)
  BY DEF Types, Sent
<1>2. QED
  BY <1>1, CountThen

LEMMA AnswerIs ==
  ASSUME Types, NEW c, NEW y \in Message, Answer(c, <<y>>)
  PROVE  inbox' = Sent({}, y, {c}, y)
<1>1. ASSUME NEW d \in Client
      PROVE  inbox[d] \o (IF d = c THEN <<y>> ELSE << >>) =
               Then(inbox[d], d \in {}, y, d \in {c}, y)
  <2>1. inbox[d] \in Seq(Message) /\ inbox[d] \o << >> = inbox[d]
    BY ConcatEmptySeq DEF Types
  <2>2. Append(inbox[d], y) = inbox[d] \o <<y>>
    BY <2>1, AppendIsConcat
  <2>3. QED
    BY <2>1, <2>2 DEF Then
<1>2. inbox' = [d \in Client |-> inbox[d] \o (IF d = c THEN <<y>> ELSE << >>)]
  BY DEF Answer, Send
<1>3. QED
  BY <1>1, <1>2 DEF Sent

\* The same, to many at once.
LEMMA AllAre ==
  ASSUME Types, NEW K, NEW y \in Message,
         inbox' = [c \in Client |-> inbox[c] \o (IF c \in K THEN <<y>> ELSE << >>)]
  PROVE  inbox' = Sent({}, y, K, y)
<1>1. ASSUME NEW d \in Client
      PROVE  inbox[d] \o (IF d \in K THEN <<y>> ELSE << >>) =
               Then(inbox[d], d \in {}, y, d \in K, y)
  <2>1. inbox[d] \in Seq(Message) /\ inbox[d] \o << >> = inbox[d]
    BY ConcatEmptySeq DEF Types
  <2>2. Append(inbox[d], y) = inbox[d] \o <<y>>
    BY <2>1, AppendIsConcat
  <2>3. QED
    BY <2>1, <2>2 DEF Then
<1>2. QED
  BY <1>1 DEF Sent

LEMMA BothAre ==
  ASSUME Types, NEW J, NEW K, NEW x \in Message, NEW y \in Message,
         inbox' = [c \in Client |-> inbox[c] \o ((IF c \in J THEN <<x>> ELSE << >>) \o
                                               (IF c \in K THEN <<y>> ELSE << >>))]
  PROVE  inbox' = Sent(J, x, K, y)
<1>1. ASSUME NEW c \in Client
      PROVE  inbox[c] \o ((IF c \in J THEN <<x>> ELSE << >>) \o
                          (IF c \in K THEN <<y>> ELSE << >>)) =
               Then(inbox[c], c \in J, x, c \in K, y)
  <2>1. inbox[c] \in Seq(Message)
    BY DEF Types
  <2>2. /\ inbox[c] \o (<< >> \o << >>) = inbox[c]
        /\ inbox[c] \o (<<x>> \o << >>) = Append(inbox[c], x)
        /\ inbox[c] \o (<< >> \o <<y>>) = Append(inbox[c], y)
        /\ inbox[c] \o (<<x>> \o <<y>>) = Append(Append(inbox[c], x), y)
    BY <2>1, TwoMore
  <2>3. CASE c \in J /\ c \in K
    BY <2>2, <2>3 DEF Then
  <2>4. CASE c \in J /\ c \notin K
    BY <2>2, <2>4 DEF Then
  <2>5. CASE c \notin J /\ c \in K
    BY <2>2, <2>5 DEF Then
  <2>6. CASE c \notin J /\ c \notin K
    BY <2>2, <2>6 DEF Then
  <2>7. QED
    BY <2>3, <2>4, <2>5, <2>6
<1>2. QED
  BY <1>1 DEF Sent

LEMMA MessagesMade ==
  /\ \A x \in Results : Reply(x) \in Replies
  /\ \A b \in BOOLEAN : Owner(b) \in Owners
  /\ \A a \in Animal : Jumped(a) \in Jumps
  /\ \A a \in Animal, m \in Moods : Changed(a, m) \in Changes
  BY DEF Reply, Replies, Owner, Owners, Jumped, Jumps, Changed, Changes

LEMMA TasksMade ==
  /\ \A c \in Caller, a \in Animal, s, h \in BOOLEAN : Poke(c, a, s, h) \in Task
  /\ \A c \in Caller, a \in Animal, m \in Moods : SetMoodCall(c, a, m) \in Task
  /\ \A w \in Watcher : GetManagedObjects(w) \in Task
  /\ \A p \in Prober : GetAll(p) \in Task /\ Poke(p, Target, TRUE, FALSE) \in Task
  /\ \A a \in Animal : EmitChanged(a) \in Task
<1>1. \A c \in Caller \cup Prober, a \in Animal, s, h \in BOOLEAN : Poke(c, a, s, h) \in Pokes
  BY DEF Poke, Pokes
<1>2. \A c \in Caller, a \in Animal, m \in Moods : SetMoodCall(c, a, m) \in Sets
  BY DEF SetMoodCall, Sets
<1>3. \A w \in Watcher : GetManagedObjects(w) \in Manageds
  BY DEF GetManagedObjects, Manageds
<1>4. \A p \in Prober : GetAll(p) \in GetAlls
  BY DEF GetAll, GetAlls
<1>5. \A a \in Animal : EmitChanged(a) \in Emits
  BY DEF EmitChanged, Emits
<1>6. QED
  BY <1>1, <1>2, <1>3, <1>4, <1>5, AnimalsAssumption DEF Task

LEMMA TaskKinds ==
  ASSUME NEW t \in Task
  PROVE  /\ t.task = "poke" <=> t \in Pokes
         /\ t.task = "set" <=> t \in Sets
         /\ t.task = "managed" <=> t \in Manageds
         /\ t.task = "getall" <=> t \in GetAlls
         /\ t.task = "emit" <=> t \in Emits
<1>1. /\ t \in Pokes => t.task = "poke"
      /\ t \in Sets => t.task = "set"
      /\ t \in Manageds => t.task = "managed"
      /\ t \in GetAlls => t.task = "getall"
      /\ t \in Emits => t.task = "emit"
  BY DEF Pokes, Sets, Manageds, GetAlls, Emits
<1>2. QED
  BY <1>1 DEF Task
-----------------------------------------------------------------------------
\* What the handlers of the service do.
LEMMA SetMoodIs ==
  ASSUME Types, loop # << >>, NEW a \in Animal, NEW m \in Moods, SetMood(a, m)
  PROVE  /\ mood' = [mood EXCEPT ![a] = m]
         /\ Told' = Told
         /\ \/ loop' = Tail(loop) /\ UNCHANGED <<mood, orig, idle>>
            \/ /\ loop' = Tail(loop) /\ idle[a] /\ UNCHANGED idle
               /\ \A b \in Animal \ {a} : orig'[b] = orig[b]
               /\ orig' \in [Animal -> Moods \cup {"none"}] /\ orig'[a] # "none"
            \/ /\ loop' = Append(Tail(loop), EmitChanged(a))
               /\ ~idle[a] /\ idle' = [idle EXCEPT ![a] = TRUE]
               /\ \A b \in Animal \ {a} : orig'[b] = orig[b]
               /\ orig' \in [Animal -> Moods \cup {"none"}] /\ orig'[a] # "none"
<1>1. /\ mood \in [Animal -> Moods] /\ idle \in [Animal -> BOOLEAN]
      /\ orig \in [Animal -> Moods \cup {"none"}] /\ loop \in Seq(Task)
  BY DEF Types
<1>2. "none" \notin Moods
  BY DEF Moods
<1>3. Tail(loop) \in Seq(Task) /\ EmitChanged(a) \in Task
  BY <1>1, TailWithout, TasksMade
<1>4. /\ Tail(loop) \o <<EmitChanged(a)>> = Append(Tail(loop), EmitChanged(a))
      /\ Tail(loop) \o << >> = Tail(loop)
  BY <1>3, AppendIsConcat, ConcatEmptySeq
<1>5. CASE mood[a] = m
  <2>1. mood' = mood /\ orig' = orig /\ idle' = idle /\ loop' = Tail(loop)
    BY <1>5 DEF SetMood
  <2>2. mood' = [mood EXCEPT ![a] = m]
    BY <1>1, <1>5, <2>1
  <2>3. Told' = Told
    BY <2>1 DEF Told, Announced
  <2>4. QED
    BY <2>1, <2>2, <2>3
<1>6. CASE mood[a] # m
  <2>1. /\ orig' = [orig EXCEPT ![a] = Schedule(a)]
        /\ mood' = [mood EXCEPT ![a] = m]
        /\ idle' = [idle EXCEPT ![a] = TRUE]
        /\ loop' = Tail(loop) \o (IF idle[a] THEN << >> ELSE <<EmitChanged(a)>>)
    BY <1>6 DEF SetMood
  <2>2. Schedule(a) \in Moods /\ Schedule(a) = Announced(a)
    BY <1>1 DEF Schedule, Announced
  <2>3. /\ orig' \in [Animal -> Moods \cup {"none"}] /\ orig'[a] # "none"
        /\ orig'[a] = Announced(a)
        /\ \A b \in Animal \ {a} : orig'[b] = orig[b] /\ mood'[b] = mood[b]
    BY <1>1, <1>2, <2>1, <2>2
  <2>4. \A b \in Animal : Announced(b)' = Announced(b)
    BY <1>1, <2>3 DEF Announced
  <2>5. Told' = Told
    BY <2>4 DEF Told
  <2>6. CASE idle[a]
    <3>1. idle' = idle
      BY <1>1, <2>1, <2>6
    <3>2. QED
      BY <1>4, <2>1, <2>3, <2>5, <2>6, <3>1
  <2>7. CASE ~idle[a]
    BY <1>4, <2>1, <2>3, <2>5, <2>7
  <2>8. QED
    BY <2>6, <2>7
<1>7. QED
  BY <1>5, <1>6

LEMMA HearersAre ==
  ASSUME NEW a
  PROVE  Hearers(a) \in SUBSET Subscribed(Watcher \cup Prober)
<1>1. CASE a = Target
  BY <1>1 DEF Hearers
<1>2. CASE a # Target
  BY <1>2 DEF Hearers, Subscribed
<1>3. QED
  BY <1>1, <1>2

LEMMA PokeIs ==
  ASSUME Types, loop # << >>, NEW t \in Pokes, OnAnimalPoke(t)
  PROVE  \E x \in Results :
           /\ inbox' = Sent(IF x = "ok" /\ t.happy THEN Hearers(t.animal) ELSE {},
                            Jumped(t.animal), {t.from}, Reply(x))
           /\ IF x = "ok" THEN SetMood(t.animal, IF t.sad THEN "Sad" ELSE "Happy")
              ELSE loop' = Tail(loop) /\ UNCHANGED <<mood, orig, idle>>
<1> DEFINE result == PokeResult(t.animal, t.sad, t.happy)
<1>1. PICK x \in Results : result = <<x>>
  BY DEF PokeResult, Results
<1>2. "ok" \in Range(result) <=> x = "ok"
  <2>1. Range(result) = {x}
    BY <1>1 DEF Range
  <2>2. QED
    BY <2>1
<1>3. [i \in DOMAIN result |-> Reply(result[i])] = <<Reply(x)>>
  BY <1>1
<1> HIDE DEF result
<1> DEFINE J == IF x = "ok" /\ t.happy THEN Hearers(t.animal) ELSE {}
           K == {t.from}
<1>4. inbox' = [c \in Client |-> inbox[c] \o
           ((IF c \in J THEN <<Jumped(t.animal)>> ELSE <<>>) \o
            (IF c \in K THEN <<Reply(x)>> ELSE << >>))]
  BY <1>2, <1>3 DEF OnAnimalPoke, result, Send
<1> HIDE DEF J, K
<1>5. t.animal \in Animal
  BY DEF Pokes
<1>6. Jumped(t.animal) \in Message /\ Reply(x) \in Message
  BY <1>5, MessagesMade DEF Message, Answers
<1>8. inbox' = Sent(J, Jumped(t.animal), K, Reply(x))
  BY <1>4, <1>6, BothAre
<1>9. IF x = "ok" THEN SetMood(t.animal, IF t.sad THEN "Sad" ELSE "Happy")
      ELSE loop' = Tail(loop) /\ UNCHANGED <<mood, orig, idle>>
  BY <1>2 DEF OnAnimalPoke, result
<1>10. QED
  BY <1>8, <1>9 DEF J, K

LEMMA GetPropertiesIs ==
  ASSUME Types, NEW t, GetProperties(t)
  PROVE  \E y \in Snapshots :
           /\ inbox' = Sent({}, y, {t.from}, y)
           /\ \A b \in y.sound : y.objects[b].mood = Told[b]
           /\ loop' = Tail(loop) /\ UNCHANGED <<mood, orig, idle>>
<1> DEFINE o == [a \in Animal |-> Object(a, mood[a])]
           d == {a \in Animal : orig[a] \in {"none", mood[a]}}
           y == [msg |-> "objects", objects |-> o, sound |-> d]
<1>1. Answer(t.from, <<y>>) /\ loop' = Tail(loop) /\ UNCHANGED <<mood, orig, idle>>
  BY DEF GetProperties
<1>2. \A a \in Animal : o[a].mood = mood[a] /\ o[a].interfaces = Interfaces(a)
  BY DEF Object
<1>3. o \in Objects
  <2>1. \A a \in Animal : mood[a] \in Moods
    BY DEF Types
  <2>2. \A a \in Animal : o[a] \in [mood : Moods, interfaces : {Interfaces(b) : b \in Animal}]
    BY <2>1 DEF Object
  <2>3. o \in [Animal -> [mood : Moods, interfaces : {Interfaces(b) : b \in Animal}]]
    BY <2>2
  <2> HIDE DEF o
  <2>4. QED
    BY <1>2, <2>3 DEF Objects
<1>4. \A b \in d : o[b].mood = Told[b]
  <2>1. \A b \in d : b \in Animal /\ orig[b] \in {"none", mood[b]}
    OBVIOUS
  <2>2. \A b \in d : Told[b] = mood[b]
    BY <2>1 DEF Told, Announced
  <2> HIDE DEF o, d
  <2>3. QED
    BY <1>2, <2>1, <2>2
<1>5. d \in SUBSET Animal
  OBVIOUS
<1> HIDE DEF o, d
<1>6. y \in Snapshots
  BY <1>3, <1>5 DEF Snapshots
<1>7. y.objects = o /\ y.sound = d
  OBVIOUS
<1> HIDE DEF y
<1>8. y \in Message
  BY <1>6 DEF Message, Answers
<1>9. inbox' = Sent({}, y, {t.from}, y)
  BY <1>1, <1>8, AnswerIs
<1>10. QED
  BY <1>1, <1>4, <1>6, <1>7, <1>9

LEMMA EmitIs ==
  ASSUME Types, NEW a \in Animal, orig[a] # "none", Emit(a)
  PROVE  IF mood[a] # orig[a]
         THEN /\ inbox' = Sent({}, Changed(a, mood[a]), Subscribed(Watcher), Changed(a, mood[a]))
              /\ Told' = [Told EXCEPT ![a] = mood[a]] /\ Told[a] # mood[a]
         ELSE inbox' = inbox /\ Told' = Told
<1>1. /\ mood \in [Animal -> Moods] /\ orig \in [Animal -> Moods \cup {"none"}]
      /\ mood' = mood /\ orig' = [orig EXCEPT ![a] = "none"]
  BY DEF Types, Emit
<1>2. \A b \in Animal : Announced(b)' = IF b = a THEN mood[a] ELSE Announced(b)
  BY <1>1 DEF Announced
<1>3. Told[a] = orig[a]
  BY DEF Told, Announced
<1>4. Told' = [Told EXCEPT ![a] = mood[a]]
  BY <1>2 DEF Told
<1>5. CASE mood[a] # orig[a]
  <2>1. Changed(a, mood[a]) \in Message
    BY <1>1, MessagesMade DEF Message
  <2>2. inbox' = [c \in Client |-> inbox[c] \o
           (IF c \in Subscribed(Watcher) THEN <<Changed(a, mood[a])>> ELSE << >>)]
    BY <1>5 DEF Emit, Send, Announcement
  <2>3. inbox' = Sent({}, Changed(a, mood[a]), Subscribed(Watcher), Changed(a, mood[a]))
    BY <2>1, <2>2, AllAre
  <2>4. QED
    BY <1>3, <1>4, <1>5, <2>3
<1>6. CASE mood[a] = orig[a]
  <2>1. \A c \in Client : inbox[c] \o << >> = inbox[c]
    BY ConcatEmptySeq DEF Types
  <2>2. inbox' = [c \in Client |-> inbox[c] \o << >>]
    BY <1>6 DEF Emit, Send, Announcement
  <2>3. inbox' = inbox
    BY <2>1, <2>2 DEF Types
  <2>4. \A b \in Animal : Announced(b)' = Announced(b)
    BY <1>2, <1>3, <1>6 DEF Told
  <2>5. QED
    BY <1>6, <2>3, <2>4 DEF Told
<1>7. QED
  BY <1>5, <1>6

\* The dispatch of a call: one answer, and at most one change.
Handled(t) ==
  \E J \in SUBSET Subscribed(Watcher \cup Prober), a \in Animal, y \in Answers :
    /\ inbox' = Sent(J, Jumped(a), {t.from}, y)
    /\ y \in Snapshots <=> t.task \in {"managed", "getall"}
    /\ y \in Snapshots => \A b \in y.sound : y.objects[b].mood = Told[b]
    /\ \/ loop' = Tail(loop) /\ UNCHANGED <<mood, orig, idle>>
       \/ t.task = "poke" /\ \E m \in Moods : SetMood(t.animal, m)

LEMMA DispatchIs ==
  ASSUME Types, Dispatch
  PROVE  LET t == Head(loop) IN
           /\ up /\ loop # << >> /\ t \in Task /\ Tail(loop) \in Seq(Task)
           /\ UNCHANGED <<up, starts, pc, view, sound, calls>>
           /\ \/ t \notin Emits /\ t.from \in Client /\ Handled(t) /\ Told' = Told
              \/ t \in Emits /\ Emit(t.animal)
<1> DEFINE t == Head(loop)
<1>1. up /\ loop # << >> /\ UNCHANGED <<up, starts, pc, view, sound, calls>>
  BY DEF Dispatch
<1>2. t \in Task /\ Tail(loop) \in Seq(Task)
  BY <1>1, TailWithout DEF Types
<1>3. \/ t.task = "poke" /\ OnAnimalPoke(t)
      \/ t.task = "set"  /\ SetProperty(t)
      \/ t.task \in {"managed", "getall"} /\ GetProperties(t)
      \/ t.task = "emit" /\ Emit(t.animal)
  BY DEF Dispatch
<1>u. UNCHANGED <<mood, orig, idle>> => Told' = Told
  BY DEF Told, Announced
<1> HIDE DEF t
<1>4. CASE t.task = "poke" /\ OnAnimalPoke(t)
  <2>1. t \in Pokes /\ t \notin Emits
    BY <1>2, <1>4, TaskKinds
  <2>2. t.animal \in Animal /\ t.from \in Client
    BY <2>1 DEF Pokes, Client
  <2>3. PICK x \in Results :
           /\ inbox' = Sent(IF x = "ok" /\ t.happy THEN Hearers(t.animal) ELSE {},
                            Jumped(t.animal), {t.from}, Reply(x))
           /\ IF x = "ok" THEN SetMood(t.animal, IF t.sad THEN "Sad" ELSE "Happy")
              ELSE loop' = Tail(loop) /\ UNCHANGED <<mood, orig, idle>>
    BY <1>1, <1>4, <2>1, PokeIs
  <2>4. (IF x = "ok" /\ t.happy THEN Hearers(t.animal) ELSE {})
           \in SUBSET Subscribed(Watcher \cup Prober)
    BY HearersAre
  <2>5. Reply(x) \in Answers /\ Reply(x) \notin Snapshots
    BY MessagesMade DEF Answers, Replies, Snapshots
  <2>6. (IF t.sad THEN "Sad" ELSE "Happy") \in Moods
    BY DEF Moods
  <2>7. \/ loop' = Tail(loop) /\ UNCHANGED <<mood, orig, idle>>
        \/ \E m \in Moods : SetMood(t.animal, m)
    BY <2>3, <2>6
  <2>8. Handled(t)
    BY <1>4, <2>2, <2>3, <2>4, <2>5, <2>7 DEF Handled
  <2>9. Told' = Told
    BY <1>1, <1>u, <2>2, <2>7, SetMoodIs
  <2>10. QED
    BY <1>1, <1>2, <2>1, <2>2, <2>8, <2>9 DEF t
<1>5. CASE t.task = "set" /\ SetProperty(t)
  <2>1. t \in Sets /\ t \notin Emits
    BY <1>2, <1>5, TaskKinds
  <2>2. t.animal \in Animal /\ t.from \in Client
    BY <2>1 DEF Sets, Client
  <2>3. /\ Answer(t.from, <<Reply("InvalidArgs")>>)
        /\ loop' = Tail(loop) /\ UNCHANGED <<mood, orig, idle>>
    BY <1>5 DEF SetProperty, MoodWritable
  <2>4. Reply("InvalidArgs") \in Answers /\ Reply("InvalidArgs") \notin Snapshots
    BY MessagesMade DEF Answers, Replies, Snapshots, Results
  <2>5. inbox' = Sent({}, Reply("InvalidArgs"), {t.from}, Reply("InvalidArgs"))
    BY <2>3, <2>4, AnswerIs DEF Message
  <2>6. inbox' = Sent({}, Jumped(t.animal), {t.from}, Reply("InvalidArgs"))
    BY <2>5 DEF Sent, Then
  <2>7. Handled(t)
    BY <1>5, <2>2, <2>3, <2>4, <2>6 DEF Handled
  <2>8. QED
    BY <1>1, <1>2, <1>u, <2>1, <2>2, <2>3, <2>7 DEF t
<1>6. CASE t.task \in {"managed", "getall"} /\ GetProperties(t)
  <2>1. t \in Manageds \cup GetAlls /\ t \notin Emits
    BY <1>2, <1>6, TaskKinds
  <2>2. t.from \in Client
    BY <2>1 DEF Manageds, GetAlls, Client
  <2>3. PICK y \in Snapshots :
           /\ inbox' = Sent({}, y, {t.from}, y)
           /\ \A b \in y.sound : y.objects[b].mood = Told[b]
           /\ loop' = Tail(loop) /\ UNCHANGED <<mood, orig, idle>>
    BY <1>6, GetPropertiesIs
  <2>4. inbox' = Sent({}, Jumped(Target), {t.from}, y)
    BY <2>3 DEF Sent, Then
  <2>5. y \in Answers /\ Target \in Animal
    BY AnimalsAssumption DEF Answers
  <2>6. Handled(t)
    BY <1>6, <2>3, <2>4, <2>5 DEF Handled
  <2>7. QED
    BY <1>1, <1>2, <1>u, <2>1, <2>2, <2>3, <2>6 DEF t
<1>7. CASE t.task = "emit" /\ Emit(t.animal)
  <2>1. t \in Emits
    BY <1>2, <1>7, TaskKinds
  <2>2. QED
    BY <1>1, <1>2, <1>7, <2>1 DEF t
<1>8. QED
  BY <1>3, <1>4, <1>5, <1>6, <1>7

LEMMA StartIs ==
  ASSUME Types, StartServer
  PROVE  inbox' = Sent({}, Owner(TRUE), Subscribed(Watcher), Owner(TRUE))
<1>1. Owner(TRUE) \in Message
  BY MessagesMade DEF Message
<1>2. inbox' = [c \in Client |-> inbox[c] \o
         (IF c \in Subscribed(Watcher) THEN <<Owner(TRUE)>> ELSE << >>)]
  BY DEF StartServer, Send
<1>3. QED
  BY <1>1, <1>2, AllAre

LEMMA CrashIs ==
  ASSUME Types, CrashServer
  PROVE  /\ inbox' = Sent({c \in Client : Waiting(c)}, Reply("NoReply"),
                          Subscribed(Watcher), Owner(FALSE))
         /\ Told' = Told
<1> DEFINE J == {c \in Client : Waiting(c)}
<1>1. Owner(FALSE) \in Message /\ Reply("NoReply") \in Message
  BY MessagesMade DEF Message, Answers, Results
<1>2. inbox' = [c \in Client |-> inbox[c] \o
         ((IF c \in J THEN <<Reply("NoReply")>> ELSE << >>) \o
          (IF c \in Subscribed(Watcher) THEN <<Owner(FALSE)>> ELSE << >>))]
  BY DEF CrashServer, Send
<1> HIDE DEF J
<1>3. inbox' = Sent(J, Reply("NoReply"), Subscribed(Watcher), Owner(FALSE))
  BY <1>1, <1>2, BothAre
<1>4. QED
  BY <1>3 DEF J, CrashServer, Told, Announced

LEMMA CallIs ==
  ASSUME Types, NEW c \in Client, NEW t \in Task, Call(c, t)
  PROVE  IF up THEN loop' = Append(loop, t) /\ inbox' = inbox
         ELSE /\ loop' = loop
              /\ inbox' = Sent({}, Reply("ServiceUnknown"), {c}, Reply("ServiceUnknown"))
<1>1. Reply("ServiceUnknown") \in Message
  BY MessagesMade DEF Message, Answers, Results
<1>2. QED
  BY <1>1, AnswerIs DEF Call

-----------------------------------------------------------------------------
\* The source of an announcement is there for a change.
LEMMA EmitHasSource ==
  ASSUME Types, Sources, up, loop # << >>, NEW t, t = Head(loop), t \in Emits
  PROVE  /\ t.animal \in Animal /\ t = EmitChanged(t.animal)
         /\ idle[t.animal] /\ orig[t.animal] # "none"
<1>1. t.animal \in Animal /\ t = EmitChanged(t.animal)
  BY DEF Emits, EmitChanged
<1>2. loop \in Seq(Task) /\ 1 \in DOMAIN loop /\ loop[1] = t
  BY TailWithout DEF Types
<1>3. Count(loop, {EmitChanged(t.animal)}) # 0
  BY <1>1, <1>2, CountZero
<1>4. QED
  BY <1>1, <1>3 DEF Sources

LEMMA TypesInit == Init => Types
<1> SUFFICES ASSUME Init  PROVE Types
  OBVIOUS
<1>1. << >> \in Seq(Task) /\ << >> \in Seq(Message)
  BY EmptySeq
<1>2. /\ mood \in [Animal -> Moods] /\ orig \in [Animal -> Moods \cup {"none"}]
      /\ idle \in [Animal -> BOOLEAN]
  BY DEF Init, Moods
<1>3. pc \in [Client -> Place]
  BY DEF Init, Place
<1>4. /\ inbox \in [Client -> Seq(Message)] /\ view \in [Watcher -> {<< >>} \cup Objects]
      /\ sound \in [Watcher -> SUBSET Animal]
  BY <1>1 DEF Init
<1>5. up = FALSE /\ starts = 0 /\ calls = 0 /\ loop = << >>
  BY DEF Init
<1>6. starts \in 0 .. MaxStarts /\ calls \in 0 .. MaxCalls
  BY <1>5, AnimalsAssumption
<1>7. QED
  BY <1>1, <1>2, <1>3, <1>4, <1>5, <1>6 DEF Types

\* A watcher's cache keeps its type.
LEMMA ApplyTyped ==
  ASSUME NEW v \in {<< >>} \cup Objects, NEW snd \in SUBSET Animal, NEW m \in Message
  PROVE  LET next == Apply([view |-> v, sound |-> snd], m)
         IN  next.view \in {<< >>} \cup Objects /\ next.sound \in SUBSET Animal
<1>1. CASE m.msg = "changed" /\ m.animal \in DOMAIN v
  <2> DEFINE w == [v EXCEPT ![m.animal].mood = m.mood]
  <2>1. m.animal \in Animal /\ m.mood \in Moods
    BY <1>1, MessageKinds DEF Changes
  <2>2. v \in Objects
    BY <1>1
  <2>3. /\ v \in [Animal -> [mood : Moods, interfaces : {Interfaces(b) : b \in Animal}]]
        /\ \A b \in Animal : v[b].interfaces = Interfaces(b)
    BY <2>2 DEF Objects
  <2>4. \A b \in Animal : /\ w[b] \in [mood : Moods, interfaces : {Interfaces(c) : c \in Animal}]
                          /\ w[b].interfaces = Interfaces(b)
    BY <2>1, <2>3
  <2>5. w \in [Animal -> [mood : Moods, interfaces : {Interfaces(b) : b \in Animal}]]
    BY <2>3, <2>4
  <2>6. Apply([view |-> v, sound |-> snd], m) = [view |-> w, sound |-> snd \cup {m.animal}]
    BY <1>1 DEF Apply
  <2> HIDE DEF w
  <2>7. w \in Objects
    BY <2>4, <2>5 DEF Objects
  <2>8. QED
    BY <2>1, <2>6, <2>7
<1>2. CASE ~(m.msg = "changed" /\ m.animal \in DOMAIN v)
  BY <1>2 DEF Apply
<1>3. QED
  BY <1>1, <1>2

LEMMA TypesNext == Types /\ Sources /\ Next => Types'
<1> SUFFICES ASSUME Types, Sources, Next  PROVE Types'
  OBVIOUS
<1>0. /\ up \in BOOLEAN /\ starts \in 0 .. MaxStarts /\ calls \in 0 .. MaxCalls
      /\ mood \in [Animal -> Moods]
      /\ orig \in [Animal -> Moods \cup {"none"}]
      /\ idle \in [Animal -> BOOLEAN]
      /\ loop \in Seq(Task) /\ (~up => loop = << >>)
      /\ pc \in [Client -> Place]
      /\ inbox \in [Client -> Seq(Message)]
      /\ view \in [Watcher -> {<< >>} \cup Objects]
      /\ sound \in [Watcher -> SUBSET Animal]
  BY DEF Types
<1>p. /\ \A c, x : x \in Place /\ GoTo(c, x) => pc' \in [Client -> Place]
      /\ {"found", "ready", "asking", "asking again", "ended", "waiting", "loading",
          "crashed", "poking"} \subseteq Place
  BY <1>0 DEF GoTo, Place
<1>c. ASSUME NEW c \in Client, NEW t \in Task, Call(c, t)
      PROVE  /\ inbox' \in [Client -> Seq(Message)] /\ loop' \in Seq(Task)
             /\ ~up => loop' = << >>
  <2>1. Reply("ServiceUnknown") \in Message
    BY MessagesMade DEF Message, Answers, Results
  <2>2. Append(loop, t) \in Seq(Task)
    BY <1>0, AppendProperties
  <2>3. CASE up
    BY <1>0, <1>c, <2>2, <2>3 DEF Call
  <2>4. CASE ~up
    <3>1. /\ loop' = loop
          /\ inbox' = Sent({}, Reply("ServiceUnknown"), {c}, Reply("ServiceUnknown"))
      BY <1>c, <2>4, CallIs
    <3>2. inbox' \in [Client -> Seq(Message)]
      BY <2>1, <3>1, SentIs
    <3>3. QED
      BY <1>0, <2>4, <3>1, <3>2
  <2>5. QED
    BY <2>3, <2>4
<1>t. ASSUME NEW c \in Client, inbox[c] # << >>
      PROVE  /\ [inbox EXCEPT ![c] = Tail(@)] \in [Client -> Seq(Message)]
             /\ Head(inbox[c]) \in Message /\ Tail(inbox[c]) \in Seq(Message)
  <2>1. Tail(inbox[c]) \in Seq(Message) /\ Head(inbox[c]) \in Message
    BY <1>0, <1>t, TailWithout
  <2>2. QED
    BY <1>0, <2>1
<1>1. CASE Dispatch
  <2> DEFINE t == Head(loop)
  <2>1. /\ up /\ loop # << >> /\ t \in Task /\ Tail(loop) \in Seq(Task)
        /\ UNCHANGED <<up, starts, pc, view, sound, calls>>
        /\ \/ t.from \in Client /\ Handled(t)
           \/ t \in Emits /\ Emit(t.animal)
    BY <1>1, DispatchIs
  <2> HIDE DEF t
  <2>2. CASE t.from \in Client /\ Handled(t)
    <3>1. PICK J \in SUBSET Subscribed(Watcher \cup Prober), a \in Animal, y \in Answers :
            /\ inbox' = Sent(J, Jumped(a), {t.from}, y)
            /\ \/ loop' = Tail(loop) /\ UNCHANGED <<mood, orig, idle>>
               \/ t.task = "poke" /\ \E m \in Moods : SetMood(t.animal, m)
      BY <2>2 DEF Handled
    <3>2. Jumped(a) \in Message /\ y \in Message
      BY MessagesMade DEF Message
    <3>3. inbox' \in [Client -> Seq(Message)]
      BY <3>1, <3>2, SentIs
    <3>4. CASE loop' = Tail(loop) /\ UNCHANGED <<mood, orig, idle>>
      BY <1>0, <2>1, <3>3, <3>4 DEF Types
    <3>5. CASE t.task = "poke" /\ \E m \in Moods : SetMood(t.animal, m)
      <4>1. t.animal \in Animal
        BY <2>1, <3>5, TaskKinds DEF Pokes
      <4>2. PICK m \in Moods : SetMood(t.animal, m)
        BY <3>5
      <4>3. /\ mood' = [mood EXCEPT ![t.animal] = m]
            /\ \/ loop' = Tail(loop) /\ UNCHANGED <<mood, orig, idle>>
               \/ /\ loop' = Tail(loop) /\ UNCHANGED idle
                  /\ orig' \in [Animal -> Moods \cup {"none"}]
               \/ /\ loop' = Append(Tail(loop), EmitChanged(t.animal))
                  /\ idle' = [idle EXCEPT ![t.animal] = TRUE]
                  /\ orig' \in [Animal -> Moods \cup {"none"}]
        BY <2>1, <4>1, <4>2, SetMoodIs
      <4>4. Append(Tail(loop), EmitChanged(t.animal)) \in Seq(Task)
        BY <2>1, <4>1, TasksMade, AppendProperties
      <4>5. mood' \in [Animal -> Moods]
        BY <1>0, <4>3
      <4>6. /\ loop' \in Seq(Task) /\ idle' \in [Animal -> BOOLEAN]
            /\ orig' \in [Animal -> Moods \cup {"none"}]
        BY <1>0, <2>1, <4>3, <4>4
      <4>7. QED
        BY <1>0, <2>1, <3>3, <4>5, <4>6 DEF Types
    <3>6. QED
      BY <3>1, <3>4, <3>5
  <2>3. CASE t \in Emits /\ Emit(t.animal)
    <3>1. t.animal \in Animal /\ orig[t.animal] # "none"
      BY <2>1, <2>3, EmitHasSource DEF t
    <3>2. /\ inbox' = inbox \/ inbox' = Sent({}, Changed(t.animal, mood[t.animal]),
                            Subscribed(Watcher), Changed(t.animal, mood[t.animal]))
      BY <2>3, <3>1, EmitIs
    <3>3. Changed(t.animal, mood[t.animal]) \in Message
      BY <1>0, <3>1, MessagesMade DEF Message
    <3>4. inbox' \in [Client -> Seq(Message)]
      BY <1>0, <3>2, <3>3, SentIs
    <3>5. /\ orig' = [orig EXCEPT ![t.animal] = "none"]
          /\ idle' = [idle EXCEPT ![t.animal] = FALSE]
          /\ loop' = Tail(loop) /\ mood' = mood
      BY <2>3 DEF Emit
    <3>6. orig' \in [Animal -> Moods \cup {"none"}] /\ idle' \in [Animal -> BOOLEAN]
      BY <1>0, <3>5
    <3>7. QED
      BY <1>0, <2>1, <3>4, <3>5, <3>6 DEF Types
  <2>4. QED
    BY <2>1, <2>2, <2>3
<1>2. CASE StartServer
  <2>1. Owner(TRUE) \in Message
    BY MessagesMade DEF Message
  <2>2. inbox' \in [Client -> Seq(Message)]
    BY <1>2, <2>1, StartIs, SentIs
  <2>3. /\ mood' \in [Animal -> Moods] /\ orig' \in [Animal -> Moods \cup {"none"}]
        /\ idle' \in [Animal -> BOOLEAN] /\ loop' = << >> /\ up' = TRUE
    BY <1>2 DEF StartServer, Moods
  <2>4. starts' \in 0 .. MaxStarts
    BY <1>0, <1>2, AnimalsAssumption DEF StartServer
  <2>5. UNCHANGED <<pc, view, sound, calls>>
    BY <1>2 DEF StartServer
  <2>6. QED
    BY <1>0, <2>2, <2>3, <2>4, <2>5, EmptySeq DEF Types
<1>3. CASE CrashServer
  <2>1. Owner(FALSE) \in Message /\ Reply("NoReply") \in Message
    BY MessagesMade DEF Message, Answers, Results
  <2>2. inbox' \in [Client -> Seq(Message)]
    BY <1>3, <2>1, CrashIs, SentIs
  <2>3. /\ up' = FALSE /\ loop' = << >>
        /\ UNCHANGED <<starts, mood, orig, idle, pc, view, sound, calls>>
    BY <1>3 DEF CrashServer
  <2>4. QED
    BY <1>0, <2>2, <2>3, EmptySeq DEF Types
<1>4. ASSUME NEW w \in Watcher, WatcherStep(w)  PROVE Types'
  <2>0. w \in Client
    BY DEF Client
  <2>1. CASE NewManager(w)
    <3>1. pc' \in [Client -> Place]
      BY <1>p, <2>1 DEF NewManager
    <3>2. UNCHANGED <<serverVars, inbox, view, sound, calls>>
      BY <2>1 DEF NewManager
    <3>3. QED
      BY <1>0, <3>1, <3>2 DEF Types, serverVars
  <2>2. CASE AskObjects(w)
    <3>1. pc' \in [Client -> Place]
      BY <1>p, <2>2 DEF AskObjects
    <3>2. /\ Call(w, GetManagedObjects(w)) /\ GetManagedObjects(w) \in Task
          /\ UNCHANGED <<up, starts, mood, orig, idle, view, sound, calls>>
      BY <2>2, TasksMade DEF AskObjects
    <3>3. /\ inbox' \in [Client -> Seq(Message)] /\ loop' \in Seq(Task)
          /\ ~up => loop' = << >>
      BY <1>c, <2>0, <3>2
    <3>4. QED
      BY <1>0, <3>1, <3>2, <3>3 DEF Types
  <2>3. CASE TakeObjects(w)
    <3>1. PICK i \in DOMAIN inbox[w] :
            LET m == inbox[w][i] IN
              /\ IF m.msg = "objects"
                 THEN /\ view'  = [view EXCEPT ![w] = m.objects]
                      /\ sound' = [sound EXCEPT ![w] = m.sound]
                      /\ GoTo(w, "ready")
                 ELSE /\ GoTo(w, AfterFailure(w))
                      /\ UNCHANGED <<view, sound>>
              /\ inbox' = [inbox EXCEPT ![w] =
                   IF pc'[w] = "ended" THEN << >> ELSE RemoveAt(@, i)]
      BY <2>3 DEF TakeObjects
    <3>2. inbox[w][i] \in Message /\ RemoveAt(inbox[w], i) \in Seq(Message)
      <4>1. inbox[w] \in Seq(Message)
        BY <1>0, <2>0
      <4>2. QED
        BY <4>1, LenProperties, RemoveAtWithout
    <3>3. inbox[w][i].msg = "objects" =>
            inbox[w][i].objects \in Objects /\ inbox[w][i].sound \in SUBSET Animal
      BY <3>2, MessageKinds DEF Snapshots
    <3>4. inbox' \in [Client -> Seq(Message)]
      BY <1>0, <3>1, <3>2, EmptySeq
    <3>5. AfterFailure(w) \in Place
      BY DEF AfterFailure, Place
    <3>6. pc' \in [Client -> Place]
      BY <1>p, <3>1, <3>5
    <3>7. view' \in [Watcher -> {<< >>} \cup Objects] /\ sound' \in [Watcher -> SUBSET Animal]
      BY <1>0, <3>1, <3>3
    <3>8. UNCHANGED <<up, starts, mood, orig, idle, loop, calls>>
      BY <2>3 DEF TakeObjects, serverVars
    <3>9. QED
      BY <1>0, <3>4, <3>6, <3>7, <3>8 DEF Types
  <2>4. CASE Deliver(w)
    <3> DEFINE m == Head(inbox[w])
               next == Apply(Cache(w), m)
               rest == [inbox EXCEPT ![w] = Tail(@)]
    <3>1. inbox[w] # << >>
      BY <2>4 DEF Deliver
    <3>2. rest \in [Client -> Seq(Message)] /\ m \in Message /\ Tail(inbox[w]) \in Seq(Message)
      BY <1>t, <2>0, <3>1
    <3>3. next.view \in {<< >>} \cup Objects /\ next.sound \in SUBSET Animal
      <4>1. view[w] \in {<< >>} \cup Objects /\ sound[w] \in SUBSET Animal
        BY <1>0
      <4>2. QED
        BY <3>2, <4>1, ApplyTyped DEF Cache
    <3>4. /\ view'  = [view EXCEPT ![w] = next.view]
          /\ sound' = [sound EXCEPT ![w] = next.sound]
          /\ UNCHANGED <<up, starts, mood, orig, idle, calls>>
      BY <2>4 DEF Deliver
    <3>5. \/ inbox' = rest /\ UNCHANGED <<pc, loop>>
          \/ /\ GoTo(w, "asking again")
             /\ \/ up /\ loop' = Append(loop, GetManagedObjects(w)) /\ inbox' = rest
                \/ /\ inbox' = [rest EXCEPT ![w] = Append(@, Reply("ServiceUnknown"))]
                   /\ UNCHANGED loop
      BY <2>4 DEF Deliver
    <3> HIDE DEF next, rest, m
    <3>6. view' \in [Watcher -> {<< >>} \cup Objects] /\ sound' \in [Watcher -> SUBSET Animal]
      BY <1>0, <3>3, <3>4
    <3>7. Reply("ServiceUnknown") \in Message
      BY MessagesMade DEF Message, Answers, Results
    <3>8. Append(loop, GetManagedObjects(w)) \in Seq(Task)
      BY <1>0, TasksMade, AppendProperties
    <3>9. Append(rest[w], Reply("ServiceUnknown")) \in Seq(Message)
      BY <2>0, <3>2, <3>7, AppendProperties
    <3>10. inbox' \in [Client -> Seq(Message)]
      BY <2>0, <3>2, <3>5, <3>9
    <3>11. loop' \in Seq(Task) /\ (~up => loop' = << >>)
      BY <1>0, <3>5, <3>8
    <3>12. pc' \in [Client -> Place]
      BY <1>0, <1>p, <3>5
    <3>13. QED
      BY <1>0, <3>4, <3>6, <3>10, <3>11, <3>12 DEF Types
  <2>5. QED
    BY <1>4, <2>1, <2>2, <2>3, <2>4 DEF WatcherStep
<1>5. ASSUME NEW c \in Caller, CallPoke(c) \/ ProxySetMood(c) \/ FinishCall(c)
      PROVE  Types'
  <2>0. c \in Client
    BY DEF Client
  <2>1. CASE CallPoke(c) \/ ProxySetMood(c)
    <3>1. /\ pc[c] = "ready" /\ calls < MaxCalls /\ calls' = calls + 1
          /\ GoTo(c, "waiting")
          /\ UNCHANGED <<up, starts, mood, orig, idle, view, sound>>
      BY <2>1 DEF CallPoke, ProxySetMood
    <3>2. PICK t \in Task : Call(c, t)
      BY <2>1, TasksMade DEF CallPoke, ProxySetMood
    <3>3. /\ inbox' \in [Client -> Seq(Message)] /\ loop' \in Seq(Task)
          /\ ~up => loop' = << >>
      BY <1>c, <2>0, <3>2
    <3>4. pc' \in [Client -> Place]
      BY <1>p, <3>1
    <3>5. calls' \in 0 .. MaxCalls
      BY <1>0, <3>1, AnimalsAssumption
    <3>6. QED
      BY <1>0, <3>1, <3>3, <3>4, <3>5 DEF Types
  <2>2. CASE FinishCall(c)
    <3>1. /\ inbox[c] # << >> /\ inbox' = [inbox EXCEPT ![c] = Tail(@)]
          /\ GoTo(c, "ready") /\ UNCHANGED <<serverVars, view, sound, calls>>
      BY <2>2 DEF FinishCall
    <3>2. pc' \in [Client -> Place] /\ inbox' \in [Client -> Seq(Message)]
      BY <1>p, <1>t, <2>0, <3>1
    <3>3. QED
      BY <1>0, <3>1, <3>2 DEF Types, serverVars
  <2>3. QED
    BY <1>5, <2>1, <2>2
<1>6. ASSUME NEW p \in Prober, ProberStep(p)  PROVE Types'
  <2>0. p \in Client
    BY DEF Client
  <2>1. CASE NewProxy(p)
    <3>1. /\ \/ up /\ loop' = Append(loop, GetAll(p)) /\ GoTo(p, "loading")
             \/ GoTo(p, "crashed") /\ UNCHANGED loop
          /\ UNCHANGED <<up, starts, mood, orig, idle, inbox, view, sound, calls>>
      BY <2>1 DEF NewProxy
    <3>2. Append(loop, GetAll(p)) \in Seq(Task)
      BY <1>0, TasksMade, AppendProperties
    <3>3. pc' \in [Client -> Place]
      BY <1>p, <3>1
    <3>4. QED
      BY <1>0, <3>1, <3>2, <3>3 DEF Types
  <2>2. CASE SubscribeAndPoke(p)
    <3> DEFINE read == [inbox EXCEPT ![p] = Tail(@)]
               poke == Poke(p, Target, TRUE, FALSE)
    <3>1. /\ inbox[p] # << >>
          /\ \/ GoTo(p, "crashed") /\ inbox' = read /\ UNCHANGED loop
             \/ /\ GoTo(p, "poking")
                /\ \/ up /\ loop' = Append(loop, poke) /\ inbox' = read
                   \/ /\ inbox' = [read EXCEPT ![p] = <<Reply("ServiceUnknown")>>]
                      /\ UNCHANGED loop
          /\ UNCHANGED <<up, starts, mood, orig, idle, view, sound, calls>>
      BY <2>2 DEF SubscribeAndPoke
    <3>2. read \in [Client -> Seq(Message)]
      BY <1>t, <2>0, <3>1
    <3>3. <<Reply("ServiceUnknown")>> \in Seq(Message)
      BY MessagesMade DEF Message, Answers, Results
    <3>4. Append(loop, poke) \in Seq(Task)
      BY <1>0, TasksMade, AppendProperties
    <3> HIDE DEF read, poke
    <3>5. inbox' \in [Client -> Seq(Message)]
      BY <3>1, <3>2, <3>3
    <3>6. loop' \in Seq(Task) /\ (~up => loop' = << >>)
      BY <1>0, <3>1, <3>4
    <3>7. pc' \in [Client -> Place]
      BY <1>p, <3>1
    <3>8. QED
      BY <1>0, <3>1, <3>5, <3>6, <3>7 DEF Types
  <2>3. CASE Receive(p)
    <3>1. /\ inbox[p] # << >> /\ inbox' = [inbox EXCEPT ![p] = Tail(@)]
          /\ GoTo(p, "ready") \/ GoTo(p, pc[p])
          /\ UNCHANGED <<serverVars, view, sound, calls>>
      BY <2>3 DEF Receive
    <3>2. pc' \in [Client -> Place] /\ inbox' \in [Client -> Seq(Message)]
      BY <1>0, <1>p, <1>t, <2>0, <3>1
    <3>3. QED
      BY <1>0, <3>1, <3>2 DEF Types, serverVars
  <2>4. QED
    BY <1>6, <2>1, <2>2, <2>3 DEF ProberStep
<1>7. QED
  BY <1>1, <1>2, <1>3, <1>4, <1>5, <1>6 DEF Next

-----------------------------------------------------------------------------
\* Every call is answered once.
LEMMA CallsOfIs ==
  ASSUME NEW t \in Task, NEW c
  PROVE  t \in CallsOf(c) <=> t \notin Emits /\ t.from = c
  BY TaskKinds DEF CallsOf

LEMMA CallsMade ==
  /\ \A c \in Caller, a \in Animal, s, h \in BOOLEAN : Poke(c, a, s, h) \in CallsOf(c) \ GetAlls
  /\ \A c \in Caller, a \in Animal, m \in Moods : SetMoodCall(c, a, m) \in CallsOf(c) \ GetAlls
  /\ \A w \in Watcher : GetManagedObjects(w) \in CallsOf(w) \ GetAlls
  /\ \A p \in Prober : /\ GetAll(p) \in CallsOf(p)
                       /\ Poke(p, Target, TRUE, FALSE) \in CallsOf(p) \ GetAlls
<1>1. \A c, a, s, h : /\ Poke(c, a, s, h).from = c /\ Poke(c, a, s, h).task = "poke"
  BY DEF Poke
<1>2. \A c, a, m : SetMoodCall(c, a, m).from = c /\ SetMoodCall(c, a, m).task = "set"
  BY DEF SetMoodCall
<1>3. \A c : GetManagedObjects(c).from = c /\ GetManagedObjects(c).task = "managed"
  BY DEF GetManagedObjects
<1>4. \A c : GetAll(c).from = c /\ GetAll(c).task = "getall"
  BY DEF GetAll
<1>5. \A t \in GetAlls : t.task = "getall"
  BY DEF GetAlls
<1>6. ASSUME NEW t \in Task, t.task # "emit"
      PROVE  t \in CallsOf(t.from) /\ (t.task # "getall" => t \notin GetAlls)
  BY <1>5, <1>6 DEF CallsOf
<1>7. \A c \in Caller, a \in Animal, s, h \in BOOLEAN : Poke(c, a, s, h) \in CallsOf(c) \ GetAlls
  BY <1>1, <1>6, TasksMade
<1>8. \A c \in Caller, a \in Animal, m \in Moods : SetMoodCall(c, a, m) \in CallsOf(c) \ GetAlls
  BY <1>2, <1>6, TasksMade
<1>9. \A w \in Watcher : GetManagedObjects(w) \in CallsOf(w) \ GetAlls
  BY <1>3, <1>6, TasksMade
<1>10. ASSUME NEW p \in Prober
       PROVE  /\ GetAll(p) \in CallsOf(p)
              /\ Poke(p, Target, TRUE, FALSE) \in CallsOf(p) \ GetAlls
  <2>1. GetAll(p) \in Task /\ GetAll(p).from = p /\ GetAll(p).task = "getall"
    BY <1>4, TasksMade
  <2> DEFINE k == Poke(p, Target, TRUE, FALSE)
  <2>2. k \in Task /\ k.from = p /\ k.task = "poke"
    BY <1>1, TasksMade, ZenonT(60)
  <2> HIDE DEF k
  <2>3. k \in CallsOf(p) \ GetAlls
    BY <1>6, <2>2
  <2>4. QED
    BY <1>6, <2>1, <2>3 DEF k
<1>11. QED
  BY <1>7, <1>8, <1>9, <1>10

\* A dispatch takes one source out, and puts at most an announcement in.
LEMMA DispatchLoop ==
  ASSUME Types, Dispatch, NEW T, T \cap Emits = {}
  PROVE  /\ Head(loop) \in T => Count(loop', T) = Count(loop, T) - 1
         /\ Head(loop) \notin T => Count(loop', T) = Count(loop, T)
<1> DEFINE t == Head(loop)
<1>1. /\ loop # << >> /\ t \in Task /\ Tail(loop) \in Seq(Task) /\ loop \in Seq(Task)
      /\ \/ t \notin Emits /\ Handled(t)
         \/ Emit(t.animal)
  BY DispatchIs DEF Types
<1>2. /\ t \in T => Count(Tail(loop), T) = Count(loop, T) - 1
      /\ t \notin T => Count(Tail(loop), T) = Count(loop, T)
  BY <1>1, CountTail
<1> HIDE DEF t
<1>3. CASE loop' = Tail(loop)
  BY <1>2, <1>3 DEF t
<1>4. CASE t.task = "poke" /\ \E m \in Moods : SetMood(t.animal, m)
  <2>1. t.animal \in Animal
    BY <1>1, <1>4, TaskKinds DEF Pokes
  <2>2. loop' = Tail(loop) \/ loop' = Append(Tail(loop), EmitChanged(t.animal))
    BY <1>1, <1>4, <2>1, SetMoodIs
  <2>3. EmitChanged(t.animal) \in Emits /\ EmitChanged(t.animal) \in Task
    BY <2>1, TasksMade DEF EmitChanged, Emits
  <2>4. Count(Append(Tail(loop), EmitChanged(t.animal)), T) = Count(Tail(loop), T)
    <3>1. EmitChanged(t.animal) \notin T /\ Count(Tail(loop), T) \in Nat
      BY <1>1, <2>3, CountZero
    <3>2. QED
      BY <1>1, <2>3, <3>1, CountAppend
  <2>5. QED
    BY <1>2, <2>2, <2>4 DEF t
<1>5. QED
  BY <1>1, <1>3, <1>4 DEF Handled, Emit

\* What a step of the client d changes for the calls.
LEMMA OthersKeep ==
  ASSUME Types, Calls, NEW d \in Client,
         loop' = loop \/ \E t \in CallsOf(d) : loop' = Append(loop, t),
         \A c \in Client \ {d} : inbox'[c] = inbox[c] /\ pc'[c] = pc[c],
         Count(loop', CallsOf(d)) + Count(inbox'[d], Answers) = IF InCall(d)' THEN 1 ELSE 0
  PROVE  Calls'
<1> SUFFICES ASSUME NEW c \in Client
             PROVE  Count(loop', CallsOf(c)) + Count(inbox'[c], Answers) =
                      IF InCall(c)' THEN 1 ELSE 0
  BY DEF Calls
<1>1. CASE c = d
  BY <1>1
<1>2. CASE c # d
  <2>1. loop \in Seq(Task)
    BY DEF Types
  <2>2. ASSUME NEW t \in CallsOf(d), loop' = Append(loop, t)
        PROVE  Count(loop', CallsOf(c)) = Count(loop, CallsOf(c))
    <3>1. t \in Task /\ t \notin CallsOf(c)
      BY <1>2 DEF CallsOf
    <3>2. QED
      BY <2>1, <2>2, <3>1, CountAppend, CountZero
  <2>3. Count(loop', CallsOf(c)) = Count(loop, CallsOf(c))
    BY <2>2
  <2>4. inbox'[c] = inbox[c] /\ (InCall(c)' <=> InCall(c))
    BY <1>2 DEF InCall
  <2>5. QED
    BY <2>3, <2>4 DEF Calls
<1>3. QED
  BY <1>1, <1>2

LEMMA CallCounts ==
  ASSUME Types, NEW c \in Client, NEW t \in CallsOf(c), Call(c, t)
  PROVE  /\ loop' = loop \/ loop' = Append(loop, t)
         /\ \A d \in Client \ {c} : inbox'[d] = inbox[d]
         /\ inbox'[c] = inbox[c] \/ inbox'[c] = Append(inbox[c], Reply("ServiceUnknown"))
         /\ Count(loop', CallsOf(c)) + Count(inbox'[c], Answers)
              = Count(loop, CallsOf(c)) + Count(inbox[c], Answers) + 1
<1> DEFINE m == Reply("ServiceUnknown")
<1>1. m \in Answers /\ m \in Message /\ t \in Task
  BY MessagesMade DEF Message, Answers, Results, CallsOf
<1>2. /\ loop \in Seq(Task) /\ inbox[c] \in Seq(Message)
      /\ Count(loop, CallsOf(c)) \in Nat /\ Count(inbox[c], Answers) \in Nat
  BY CountZero DEF Types
<1> HIDE DEF m
<1>3. CASE up
  <2>1. loop' = Append(loop, t) /\ inbox' = inbox
    BY <1>1, <1>3, CallIs
  <2>2. Count(loop', CallsOf(c)) = Count(loop, CallsOf(c)) + 1
    BY <1>1, <1>2, <2>1, CountAppend
  <2>3. QED
    BY <1>2, <2>1, <2>2
<1>4. CASE ~up
  <2>1. loop' = loop /\ inbox' = Sent({}, m, {c}, m)
    BY <1>1, <1>4, CallIs DEF m
  <2>2. \A d \in Client : inbox'[d] = Then(inbox[d], d \in {}, m, d \in {c}, m)
    BY <1>1, <2>1, SentIs
  <2>4. inbox'[c] = Append(inbox[c], m) /\ \A d \in Client \ {c} : inbox'[d] = inbox[d]
    BY <2>2 DEF Then
  <2>3. Count(inbox'[c], Answers) = Count(inbox[c], Answers) + 1
    BY <1>1, <1>2, <2>4, CountAppend
  <2>5. Count(loop', CallsOf(c)) + Count(inbox'[c], Answers)
              = Count(loop, CallsOf(c)) + Count(inbox[c], Answers) + 1
    BY <1>2, <2>1, <2>3
  <2>6. QED
    BY <2>1, <2>4, <2>5 DEF m
<1>5. QED
  BY <1>3, <1>4

\* Taking a message out of an inbox.
LEMMA HeadCounts ==
  ASSUME Types, NEW c \in Client, inbox[c] # << >>
  PROVE  /\ Head(inbox[c]) \in Answers =>
              Count(Tail(inbox[c]), Answers) = Count(inbox[c], Answers) - 1
         /\ Head(inbox[c]) \notin Answers =>
              Count(Tail(inbox[c]), Answers) = Count(inbox[c], Answers)
         /\ Head(inbox[c]) \in Message /\ Count(inbox[c], Answers) \in Nat
         /\ Head(inbox[c]) \in Answers => Count(inbox[c], Answers) # 0
<1>1. inbox[c] \in Seq(Message)
  BY DEF Types
<1>2. /\ Tail(inbox[c]) \in Seq(Message) /\ Without(inbox[c], Tail(inbox[c]), 1)
      /\ 1 \in DOMAIN inbox[c] /\ Head(inbox[c]) = inbox[c][1] /\ Head(inbox[c]) \in Message
  BY <1>1, TailWithout
<1>3. QED
  BY <1>1, <1>2, CountTail, CountZero

LEMMA CallsService ==
  ASSUME Types, Sources, Calls, Dispatch \/ StartServer \/ CrashServer
  PROVE  Calls'
<1> SUFFICES ASSUME NEW c \in Client
             PROVE  Count(loop', CallsOf(c)) + Count(inbox'[c], Answers) =
                      IF InCall(c)' THEN 1 ELSE 0
  BY DEF Calls
<1> DEFINE N == Count(loop, CallsOf(c))
           A == Count(inbox[c], Answers)
<1>1. N \in Nat /\ A \in Nat /\ N + A = (IF InCall(c) THEN 1 ELSE 0)
  BY CountZero DEF Types, Calls
<1>2. pc' = pc
  BY DEF Dispatch, StartServer, CrashServer
<1>3. InCall(c)' <=> InCall(c)
  BY <1>2 DEF InCall
<1>4. /\ \A a \in Animal : Jumped(a) \in Message \ Answers
      /\ \A a \in Animal, m \in Moods : Changed(a, m) \in Message \ Answers
      /\ \A b \in BOOLEAN : Owner(b) \in Message \ Answers
      /\ Reply("NoReply") \in Message \cap Answers
  BY MessagesMade DEF Message, Answers, Jumps, Changes, Owners, Replies, Snapshots, Results
<1>5. CallsOf(c) \cap Emits = {}
  BY TaskKinds DEF CallsOf
<1> HIDE DEF N, A
<1>6. CASE Dispatch
  <2> DEFINE t == Head(loop)
  <2>1. /\ t \in CallsOf(c) => Count(loop', CallsOf(c)) = N - 1
        /\ t \notin CallsOf(c) => Count(loop', CallsOf(c)) = N
    BY <1>5, <1>6, DispatchLoop DEF N
  <2>2. /\ up /\ loop # << >> /\ t \in Task
        /\ \/ t \notin Emits /\ t.from \in Client /\ Handled(t)
           \/ t \in Emits /\ Emit(t.animal)
    BY <1>6, DispatchIs
  <2>3. t \in CallsOf(c) <=> t \notin Emits /\ t.from = c
    BY <2>2, CallsOfIs
  <2>4. t \in CallsOf(c) => N # 0
    <3>1. 1 \in DOMAIN loop /\ t = loop[1] /\ loop \in Seq(Task)
      BY <2>2, TailWithout DEF Types
    <3>2. QED
      BY <3>1, CountZero DEF N
  <2> HIDE DEF t
  <2>5. CASE t \notin Emits /\ t.from \in Client /\ Handled(t)
    <3>1. PICK J \in SUBSET Subscribed(Watcher \cup Prober), a \in Animal, y \in Answers :
            inbox' = Sent(J, Jumped(a), {t.from}, y)
      BY <2>5 DEF Handled
    <3>2. y \in Message
      BY DEF Message
    <3>3. Jumped(a) \in Message /\ Jumped(a) \notin Answers
      BY <1>4
    <3>4. /\ c = t.from => Count(inbox'[c], Answers) = A + 1
          /\ c # t.from => Count(inbox'[c], Answers) = A
      BY <3>1, <3>2, <3>3, SentCounts DEF A
    <3>5. QED
      BY <1>1, <1>3, <2>1, <2>3, <2>5, <3>4
  <2>6. CASE t \in Emits /\ Emit(t.animal)
    <3>1. t.animal \in Animal /\ orig[t.animal] # "none" /\ mood[t.animal] \in Moods
      BY <2>2, <2>6, EmitHasSource DEF t, Types
    <3> DEFINE m == Changed(t.animal, mood[t.animal])
    <3>2. inbox' = inbox \/ inbox' = Sent({}, m, Subscribed(Watcher), m)
      BY <2>6, <3>1, EmitIs
    <3>3. m \in Message \ Answers
      BY <1>4, <3>1
    <3> HIDE DEF m
    <3>4. CASE inbox' = Sent({}, m, Subscribed(Watcher), m)
      <4>1. Count(inbox'[c], Answers) = A
        BY <3>3, <3>4, SentCounts DEF A
      <4>2. QED
        BY <1>1, <1>3, <2>1, <2>3, <2>6, <3>3, <4>1
    <3>5. CASE inbox' = inbox
      BY <1>1, <1>3, <2>1, <2>3, <2>6, <3>5 DEF A
    <3>6. QED
      BY <3>2, <3>4, <3>5
  <2>7. QED
    BY <2>2, <2>5, <2>6
<1>7. CASE StartServer
  <2>1. ~up /\ loop' = << >>
    BY <1>7 DEF StartServer
  <2>2. loop' = loop
    BY <2>1 DEF Types
  <2>3. Count(inbox'[c], Answers) = A
    <3> DEFINE m == Owner(TRUE)
    <3>1. inbox' = Sent({}, m, Subscribed(Watcher), m) /\ m \in Message /\ m \notin Answers
      BY <1>4, <1>7, StartIs
    <3> HIDE DEF m
    <3>2. QED
      BY <3>1, SentCounts DEF A
  <2>4. QED
    BY <1>1, <1>3, <1>4, <2>2, <2>3 DEF N
<1>8. CASE CrashServer
  <2>1. loop' = << >> /\ Count(loop', CallsOf(c)) = 0
    BY <1>8, CountEmpty DEF CrashServer
  <2>2. Waiting(c) <=> N # 0
    <3>1. loop \in Seq(Task) /\ \A i \in DOMAIN loop : loop[i] \in Task
      BY LenProperties DEF Types
    <3>2. \A i \in DOMAIN loop : loop[i] \in CallsOf(c) <=> loop[i].task # "emit" /\ loop[i].from = c
      BY <3>1 DEF CallsOf
    <3>3. QED
      BY <3>1, <3>2, CountZero DEF Waiting, N
  <2>4. /\ Waiting(c) => Count(inbox'[c], Answers) = A + 1
        /\ ~Waiting(c) => Count(inbox'[c], Answers) = A
    <3> DEFINE m == Reply("NoReply")
               n == Owner(FALSE)
               J == {d \in Client : Waiting(d)}
    <3>1. /\ inbox' = Sent(J, m, Subscribed(Watcher), n)
          /\ m \in Message /\ m \in Answers /\ n \in Message /\ n \notin Answers
      BY <1>4, <1>8, CrashIs
    <3>2. Waiting(c) <=> c \in J
      OBVIOUS
    <3> HIDE DEF m, n, J
    <3>3. QED
      BY <3>1, <3>2, SentCounts DEF A
  <2>5. QED
    BY <1>1, <1>3, <2>1, <2>2, <2>4
<1>9. QED
  BY <1>6, <1>7, <1>8

LEMMA CallsClients ==
  ASSUME Types, Roles, Calls,
         \/ \E w \in Watcher : WatcherStep(w)
         \/ \E c \in Caller : CallPoke(c) \/ ProxySetMood(c) \/ FinishCall(c)
         \/ \E p \in Prober : ProberStep(p)
  PROVE  Calls'
<1>1. ASSUME NEW c \in Client
      PROVE  /\ Count(loop, CallsOf(c)) \in Nat /\ Count(inbox[c], Answers) \in Nat
             /\ inbox[c] \in Seq(Message)
             /\ Count(loop, CallsOf(c)) + Count(inbox[c], Answers) =
                  IF InCall(c) THEN 1 ELSE 0
  BY CountZero DEF Types, Calls
<1>2. ASSUME NEW c \in Client, NEW place, GoTo(c, place)
      PROVE  pc'[c] = place /\ \A d \in Client \ {c} : pc'[d] = pc[d]
  BY <1>2 DEF GoTo, Types
<1>3. ASSUME NEW c \in Client, NEW s, inbox' = [inbox EXCEPT ![c] = s]
      PROVE  inbox'[c] = s /\ \A d \in Client \ {c} : inbox'[d] = inbox[d]
  BY <1>3 DEF Types
<1>f. ASSUME NEW c \in Client, ~InCall(c)
      PROVE  Count(loop, CallsOf(c)) = 0 /\ Count(inbox[c], Answers) = 0
  BY <1>1, <1>f
\* A client that is free makes a call.
<1>4. ASSUME NEW c \in Client, ~InCall(c), NEW t \in CallsOf(c), Call(c, t),
             NEW place \in {"asking", "waiting"}, GoTo(c, place)
      PROVE  Calls'
  <2>1. pc'[c] = place /\ \A d \in Client \ {c} : pc'[d] = pc[d]
    BY <1>2, <1>4
  <2>2. /\ loop' = loop \/ loop' = Append(loop, t)
        /\ \A d \in Client \ {c} : inbox'[d] = inbox[d]
        /\ Count(loop', CallsOf(c)) + Count(inbox'[c], Answers)
              = Count(loop, CallsOf(c)) + Count(inbox[c], Answers) + 1
    BY <1>4, CallCounts
  <2>3. Count(loop', CallsOf(c)) + Count(inbox'[c], Answers) = 1
    BY <1>1, <1>4, <2>2
  <2>4. InCall(c)'
    BY <2>1 DEF InCall
  <2>5. QED
    BY <2>1, <2>2, <2>3, <2>4, OthersKeep
<1>5. ASSUME NEW w \in Watcher, WatcherStep(w)  PROVE Calls'
  <2>0. w \in Client
    BY DEF Client
  <2>1. CASE NewManager(w)
    <3>1. /\ pc[w] = "out" /\ pc'[w] \in {"found", "ready"}
          /\ \A d \in Client \ {w} : pc'[d] = pc[d]
          /\ UNCHANGED <<loop, inbox>>
      BY <1>2, <2>0, <2>1 DEF NewManager, serverVars
    <3>2. ~InCall(w) /\ ~InCall(w)'
      BY <3>1 DEF InCall
    <3>3. Count(loop', CallsOf(w)) + Count(inbox'[w], Answers) = 0
      BY <1>1, <2>0, <3>1, <3>2
    <3>4. QED
      BY <2>0, <3>1, <3>2, <3>3, OthersKeep
  <2>2. CASE AskObjects(w)
    <3>1. ~InCall(w) /\ GetManagedObjects(w) \in CallsOf(w)
      BY <2>2, CallsMade DEF AskObjects, InCall
    <3>2. QED
      BY <1>4, <2>0, <2>2, <3>1 DEF AskObjects
  <2>3. CASE TakeObjects(w)
    <3>1. PICK i \in DOMAIN inbox[w] :
            LET m == inbox[w][i] IN
              /\ m.msg \in {"objects", "reply"}
              /\ IF m.msg = "objects" THEN GoTo(w, "ready") ELSE GoTo(w, AfterFailure(w))
              /\ inbox' = [inbox EXCEPT ![w] =
                   IF pc'[w] = "ended" THEN << >> ELSE RemoveAt(@, i)]
      BY <2>3 DEF TakeObjects
    <3>2. inbox[w][i] \in Answers
      <4>1. inbox[w][i] \in Message
        BY <1>1, <2>0, LenProperties
      <4>2. QED
        BY <3>1, <4>1, MessageKinds DEF IsAnswer
    <3>3. Count(loop, CallsOf(w)) = 0 /\ Count(inbox[w], Answers) = 1
      <4>1. Count(inbox[w], Answers) # 0
        BY <1>1, <2>0, <3>2, CountZero
      <4>2. QED
        BY <1>1, <2>0, <4>1
    <3>4. /\ pc'[w] \in {"ready", "ended"} /\ \A d \in Client \ {w} : pc'[d] = pc[d]
          /\ loop' = loop
      BY <1>2, <2>0, <2>3, <3>1 DEF AfterFailure, TakeObjects, serverVars
    <3>5. /\ inbox'[w] = (IF pc'[w] = "ended" THEN << >> ELSE RemoveAt(inbox[w], i))
          /\ \A d \in Client \ {w} : inbox'[d] = inbox[d]
      BY <1>3, <2>0, <3>1
    <3>6. Count(inbox'[w], Answers) = 0
      <4>1. CASE pc'[w] = "ended"
        BY <3>5, <4>1, CountEmpty
      <4>2. CASE pc'[w] # "ended"
        <5> DEFINE s == inbox[w]
                   t == RemoveAt(inbox[w], i)
        <5>1. t \in Seq(Message) /\ s \in Seq(Message) /\ Without(s, t, i) /\ i \in DOMAIN s
          BY <1>1, <2>0, RemoveAtWithout
        <5>2. s[i] \in Answers /\ Count(s, Answers) = 1 /\ inbox'[w] = t
          BY <3>2, <3>3, <3>5, <4>2
        <5> HIDE DEF s, t
        <5>3. QED
          BY <5>1, <5>2, CountWithout
      <4>3. QED
        BY <4>1, <4>2
    <3>7. ~InCall(w)'
      BY <3>4 DEF InCall
    <3>8. Count(loop', CallsOf(w)) + Count(inbox'[w], Answers) = 0
      BY <3>3, <3>4, <3>6
    <3>9. QED
      BY <2>0, <3>4, <3>5, <3>7, <3>8, OthersKeep
  <2>4. CASE Deliver(w)
    <3> DEFINE r == Reply("ServiceUnknown")
               k == GetManagedObjects(w)
    <3>1. /\ pc[w] = "ready" /\ inbox[w] # << >>
          /\ \/ inbox' = [inbox EXCEPT ![w] = Tail(@)] /\ UNCHANGED <<pc, loop>>
             \/ /\ GoTo(w, "asking again")
                /\ loop' = Append(loop, k) /\ inbox' = [inbox EXCEPT ![w] = Tail(@)]
             \/ /\ GoTo(w, "asking again")
                /\ inbox' = [[inbox EXCEPT ![w] = Tail(@)] EXCEPT ![w] = Append(@, r)]
                /\ UNCHANGED loop
      BY <2>4 DEF Deliver
    <3>10. ~InCall(w)
      BY <3>1 DEF InCall
    <3>2. Count(loop, CallsOf(w)) = 0 /\ Count(inbox[w], Answers) = 0
      BY <1>f, <2>0, <3>10
    <3>3. Count(Tail(inbox[w]), Answers) = 0 /\ Tail(inbox[w]) \in Seq(Message)
      BY <1>1, <2>0, <3>1, <3>2, HeadCounts, TailWithout
    <3>4. r \in Message /\ r \in Answers /\ k \in CallsOf(w) /\ k \in Task
      BY MessagesMade, CallsMade DEF Message, Answers, Results, CallsOf
    <3>5. loop \in Seq(Task)
      BY DEF Types
    <3> HIDE DEF r, k
    <3>6. CASE inbox' = [inbox EXCEPT ![w] = Tail(@)] /\ UNCHANGED <<pc, loop>>
      <4>1. inbox'[w] = Tail(inbox[w]) /\ \A d \in Client \ {w} : inbox'[d] = inbox[d]
        BY <1>3, <2>0, <3>6
      <4>2. ~InCall(w)'
        BY <3>1, <3>6 DEF InCall
      <4>3. Count(loop', CallsOf(w)) + Count(inbox'[w], Answers) = 0
        BY <3>2, <3>3, <3>6, <4>1
      <4>4. QED
        BY <2>0, <3>6, <4>1, <4>2, <4>3, OthersKeep
    <3>7. CASE /\ GoTo(w, "asking again")
               /\ loop' = Append(loop, k) /\ inbox' = [inbox EXCEPT ![w] = Tail(@)]
      <4>1. inbox'[w] = Tail(inbox[w]) /\ \A d \in Client \ {w} : inbox'[d] = inbox[d]
        BY <1>3, <2>0, <3>7
      <4>2. pc'[w] = "asking again" /\ \A d \in Client \ {w} : pc'[d] = pc[d]
        BY <1>2, <2>0, <3>7
      <4>3. Count(loop', CallsOf(w)) = 1
        <5>1. Count(Append(loop, k), CallsOf(w)) = Count(loop, CallsOf(w)) + 1
          BY <3>4, <3>5, CountAppend
        <5>2. Count(Append(loop, k), CallsOf(w)) = 1
          BY <3>2, <5>1
        <5>3. loop' = Append(loop, k)
          BY <3>7
        <5>4. QED
          BY <5>2, <5>3
      <4>4. Count(loop', CallsOf(w)) + Count(inbox'[w], Answers) = 1
        BY <3>3, <4>1, <4>3
      <4>5. InCall(w)'
        BY <4>2 DEF InCall
      <4>6. QED
        BY <2>0, <3>4, <3>7, <4>1, <4>2, <4>4, <4>5, OthersKeep
    <3>8. CASE /\ GoTo(w, "asking again")
               /\ inbox' = [[inbox EXCEPT ![w] = Tail(@)] EXCEPT ![w] = Append(@, r)]
               /\ UNCHANGED loop
      <4>1. /\ inbox'[w] = Append(Tail(inbox[w]), r)
            /\ \A d \in Client \ {w} : inbox'[d] = inbox[d]
        BY <2>0, <3>8 DEF Types
      <4>2. pc'[w] = "asking again" /\ \A d \in Client \ {w} : pc'[d] = pc[d]
        BY <1>2, <2>0, <3>8
      <4>3. Count(inbox'[w], Answers) = 1
        <5> DEFINE s == Tail(inbox[w])
        <5>1. s \in Seq(Message) /\ Count(s, Answers) = 0 /\ inbox'[w] = Append(s, r)
          BY <3>3, <4>1
        <5> HIDE DEF s
        <5>2. Count(Append(s, r), Answers) = Count(s, Answers) + 1
          BY <3>4, <5>1, CountAppend
        <5>3. QED
          BY <5>1, <5>2
      <4>7. Count(loop', CallsOf(w)) = 0
        BY <3>2, <3>8
      <4>4. Count(loop', CallsOf(w)) + Count(inbox'[w], Answers) = 1
        BY <4>3, <4>7
      <4>5. InCall(w)'
        BY <4>2 DEF InCall
      <4>6. QED
        BY <2>0, <3>8, <4>1, <4>2, <4>4, <4>5, OthersKeep
    <3>9. QED
      BY <3>1, <3>6, <3>7, <3>8
  <2>5. QED
    BY <1>5, <2>1, <2>2, <2>3, <2>4 DEF WatcherStep
<1>6. ASSUME NEW c \in Caller, CallPoke(c) \/ ProxySetMood(c) \/ FinishCall(c)
      PROVE  Calls'
  <2>0. c \in Client
    BY DEF Client
  <2>1. CASE CallPoke(c) \/ ProxySetMood(c)
    <3>1. ~InCall(c) /\ GoTo(c, "waiting")
      BY <2>1 DEF CallPoke, ProxySetMood, InCall
    <3>2. PICK t \in CallsOf(c) : Call(c, t)
      BY <2>1, CallsMade DEF CallPoke, ProxySetMood
    <3>3. QED
      BY <1>4, <2>0, <3>1, <3>2
  <2>2. CASE FinishCall(c)
    <3>1. /\ pc[c] = "waiting" /\ inbox[c] # << >> /\ inbox' = [inbox EXCEPT ![c] = Tail(@)]
          /\ GoTo(c, "ready") /\ loop' = loop
      BY <2>2 DEF FinishCall, serverVars
    <3>2. Head(inbox[c]) \in Answers
      BY <3>1, TailWithout DEF Roles, Answers
    <3>3. /\ inbox'[c] = Tail(inbox[c]) /\ \A d \in Client \ {c} : inbox'[d] = inbox[d]
          /\ pc'[c] = "ready" /\ \A d \in Client \ {c} : pc'[d] = pc[d]
      BY <1>2, <1>3, <2>0, <3>1
    <3>4. InCall(c) /\ ~InCall(c)'
      BY <3>1, <3>3 DEF InCall
    <3>5. Count(loop', CallsOf(c)) + Count(inbox'[c], Answers) = 0
      <4>1. /\ Count(Tail(inbox[c]), Answers) = Count(inbox[c], Answers) - 1
            /\ Count(inbox[c], Answers) # 0
        BY <2>0, <3>1, <3>2, HeadCounts
      <4>2. QED
        BY <1>1, <2>0, <3>1, <3>3, <3>4, <4>1
    <3>6. QED
      BY <2>0, <3>1, <3>3, <3>4, <3>5, OthersKeep
  <2>3. QED
    BY <1>6, <2>1, <2>2
<1>7. ASSUME NEW p \in Prober, ProberStep(p)  PROVE Calls'
  <2>0. p \in Client
    BY DEF Client
  <2>1. CASE NewProxy(p)
    <3> DEFINE k == GetAll(p)
    <3>1. /\ pc[p] = "out" /\ inbox' = inbox
          /\ \/ loop' = Append(loop, k) /\ GoTo(p, "loading")
             \/ GoTo(p, "crashed") /\ UNCHANGED loop
      BY <2>1 DEF NewProxy
    <3>7. ~InCall(p)
      BY <3>1 DEF InCall
    <3>2. Count(loop, CallsOf(p)) = 0 /\ Count(inbox[p], Answers) = 0
      BY <1>f, <2>0, <3>7
    <3>3. k \in CallsOf(p) /\ k \in Task /\ loop \in Seq(Task)
      BY CallsMade DEF CallsOf, Types
    <3> HIDE DEF k
    <3>4. CASE loop' = Append(loop, k) /\ GoTo(p, "loading")
      <4>1. pc'[p] = "loading" /\ \A d \in Client \ {p} : pc'[d] = pc[d]
        BY <1>2, <2>0, <3>4
      <4>2. Count(loop', CallsOf(p)) = 1
        BY <3>2, <3>3, <3>4, CountAppend
      <4>3. Count(loop', CallsOf(p)) + Count(inbox'[p], Answers) = 1
        BY <3>1, <3>2, <4>2
      <4>4. InCall(p)'
        BY <4>1 DEF InCall
      <4>5. QED
        BY <2>0, <3>1, <3>3, <3>4, <4>1, <4>3, <4>4, OthersKeep
    <3>5. CASE GoTo(p, "crashed") /\ UNCHANGED loop
      <4>1. pc'[p] = "crashed" /\ \A d \in Client \ {p} : pc'[d] = pc[d]
        BY <1>2, <2>0, <3>5
      <4>2. Count(loop', CallsOf(p)) + Count(inbox'[p], Answers) = 0
        BY <3>1, <3>2, <3>5
      <4>3. ~InCall(p)'
        BY <4>1 DEF InCall
      <4>4. QED
        BY <2>0, <3>1, <3>5, <4>1, <4>2, <4>3, OthersKeep
    <3>6. QED
      BY <3>1, <3>4, <3>5
  <2>2. CASE SubscribeAndPoke(p)
    <3> DEFINE r == Reply("ServiceUnknown")
               k == Poke(p, Target, TRUE, FALSE)
               read == [inbox EXCEPT ![p] = Tail(@)]
    <3>1. /\ pc[p] = "loading" /\ inbox[p] # << >>
          /\ \/ GoTo(p, "crashed") /\ inbox' = read /\ UNCHANGED loop
             \/ GoTo(p, "poking") /\ loop' = Append(loop, k) /\ inbox' = read
             \/ GoTo(p, "poking") /\ inbox' = [read EXCEPT ![p] = <<r>>] /\ UNCHANGED loop
      BY <2>2 DEF SubscribeAndPoke
    <3>2. Head(inbox[p]) \in Answers
      BY <3>1, TailWithout DEF Roles
    <3>3. /\ Count(loop, CallsOf(p)) = 0 /\ Count(Tail(inbox[p]), Answers) = 0
      <4>1. /\ Count(Tail(inbox[p]), Answers) = Count(inbox[p], Answers) - 1
            /\ Count(inbox[p], Answers) # 0
        BY <2>0, <3>1, <3>2, HeadCounts
      <4>2. InCall(p)
        BY <3>1 DEF InCall
      <4>3. QED
        BY <1>1, <2>0, <4>1, <4>2
    <3>4. k \in CallsOf(p) /\ k \in Task /\ loop \in Seq(Task)
      BY CallsMade DEF CallsOf, Types
    <3>5. r \in Message /\ r \in Answers
      BY MessagesMade DEF Message, Answers, Results
    <3>6. read[p] = Tail(inbox[p]) /\ \A d \in Client \ {p} : read[d] = inbox[d]
      BY <2>0 DEF Types
    <3>7. DOMAIN read = Client
      BY DEF Types
    <3> HIDE DEF r, k, read
    <3>8. CASE GoTo(p, "crashed") /\ inbox' = read /\ UNCHANGED loop
      <4>1. pc'[p] = "crashed" /\ \A d \in Client \ {p} : pc'[d] = pc[d]
        BY <1>2, <2>0, <3>8
      <4>2. Count(loop', CallsOf(p)) + Count(inbox'[p], Answers) = 0
        BY <3>3, <3>6, <3>8
      <4>3. ~InCall(p)'
        BY <4>1 DEF InCall
      <4>4. QED
        BY <2>0, <3>6, <3>8, <4>1, <4>2, <4>3, OthersKeep
    <3>9. CASE GoTo(p, "poking") /\ loop' = Append(loop, k) /\ inbox' = read
      <4>1. pc'[p] = "poking" /\ \A d \in Client \ {p} : pc'[d] = pc[d]
        BY <1>2, <2>0, <3>9
      <4>2. Count(loop', CallsOf(p)) = 1
        BY <3>3, <3>4, <3>9, CountAppend
      <4>3. Count(loop', CallsOf(p)) + Count(inbox'[p], Answers) = 1
        BY <3>3, <3>6, <3>9, <4>2
      <4>4. InCall(p)'
        BY <4>1 DEF InCall
      <4>5. QED
        BY <2>0, <3>4, <3>6, <3>9, <4>1, <4>3, <4>4, OthersKeep
    <3>10. CASE GoTo(p, "poking") /\ inbox' = [read EXCEPT ![p] = <<r>>] /\ UNCHANGED loop
      <4>1. pc'[p] = "poking" /\ \A d \in Client \ {p} : pc'[d] = pc[d]
        BY <1>2, <2>0, <3>10
      <4>2. inbox'[p] = <<r>> /\ \A d \in Client \ {p} : inbox'[d] = inbox[d]
        BY <2>0, <3>6, <3>7, <3>10
      <4>3. Count(<<r>>, Answers) = 1
        <5>1. << >> \in Seq(Message) /\ Append(<< >>, r) = <<r>>
          OBVIOUS
        <5>2. Count(Append(<< >>, r), Answers) = Count(<< >>, Answers) + 1
          BY <3>5, <5>1, CountAppend
        <5>3. QED
          BY <5>1, <5>2, CountEmpty
      <4>4. Count(loop', CallsOf(p)) + Count(inbox'[p], Answers) = 1
        BY <3>3, <3>10, <4>2, <4>3
      <4>5. InCall(p)'
        BY <4>1 DEF InCall
      <4>6. QED
        BY <2>0, <3>10, <4>1, <4>2, <4>4, <4>5, OthersKeep
    <3>11. QED
      BY <3>1, <3>8, <3>9, <3>10
  <2>3. CASE Receive(p)
    <3>1. /\ pc[p] \in {"poking", "ready"} /\ inbox[p] # << >>
          /\ GoTo(p, IF Head(inbox[p]).msg = "reply" THEN "ready" ELSE pc[p])
          /\ inbox' = [inbox EXCEPT ![p] = Tail(@)] /\ loop' = loop
      BY <2>3 DEF Receive, serverVars
    <3>2. /\ inbox'[p] = Tail(inbox[p]) /\ \A d \in Client \ {p} : inbox'[d] = inbox[d]
          /\ pc'[p] = (IF Head(inbox[p]).msg = "reply" THEN "ready" ELSE pc[p])
          /\ \A d \in Client \ {p} : pc'[d] = pc[d]
      BY <1>2, <1>3, <2>0, <3>1
    <3>3. Head(inbox[p]) \in Replies \cup Jumps
      BY <3>1, TailWithout DEF Roles
    <3>4. Head(inbox[p]) \in Answers <=> Head(inbox[p]).msg = "reply"
      BY <3>3 DEF Replies, Jumps, Answers, Snapshots
    <3>5. CASE Head(inbox[p]).msg = "reply"
      <4>1. /\ Count(Tail(inbox[p]), Answers) = Count(inbox[p], Answers) - 1
            /\ Count(inbox[p], Answers) # 0
        BY <2>0, <3>1, <3>4, <3>5, HeadCounts
      <4>2. ~InCall(p)'
        BY <3>2, <3>5 DEF InCall
      <4>5. Count(loop, CallsOf(p)) = 0 /\ Count(inbox[p], Answers) = 1
        BY <1>1, <2>0, <4>1
      <4>3. Count(loop', CallsOf(p)) + Count(inbox'[p], Answers) = 0
        BY <3>1, <3>2, <4>1, <4>5
      <4>4. QED
        BY <2>0, <3>1, <3>2, <4>2, <4>3, OthersKeep
    <3>6. CASE Head(inbox[p]).msg # "reply"
      <4>1. Count(Tail(inbox[p]), Answers) = Count(inbox[p], Answers)
        BY <2>0, <3>1, <3>4, <3>6, HeadCounts
      <4>2. InCall(p)' <=> InCall(p)
        BY <3>2, <3>6 DEF InCall
      <4>3. Count(loop', CallsOf(p)) + Count(inbox'[p], Answers) = IF InCall(p)' THEN 1 ELSE 0
        BY <1>1, <2>0, <3>1, <3>2, <4>1, <4>2
      <4>4. QED
        BY <2>0, <3>1, <3>2, <4>3, OthersKeep
    <3>7. QED
      BY <3>5, <3>6
  <2>4. QED
    BY <1>7, <2>1, <2>2, <2>3 DEF ProberStep
<1>8. QED
  BY <1>5, <1>6, <1>7

-----------------------------------------------------------------------------
\* A client is sent only what its kind understands.
LEMMA GetAllsOfIs ==
  ASSUME NEW p \in Prober
  PROVE  /\ GetAllsOf(p) \subseteq CallsOf(p) /\ GetAllsOf(p) \cap Emits = {}
         /\ \A t \in GetAlls : t.from = p => t \in GetAllsOf(p)
         /\ \A t \in GetAllsOf(p) : t.from = p /\ t \in GetAlls
<1>1. \A t \in GetAllsOf(p) : t.from = p /\ t.task = "getall"
  BY DEF GetAllsOf
<1>2. GetAllsOf(p) \subseteq GetAlls
  BY DEF GetAllsOf, GetAlls
<1>3. \A t \in GetAlls : t.from = p => t \in GetAllsOf(p)
  BY DEF GetAllsOf, GetAlls
<1>4. \A t \in Emits : t.task = "emit"
  BY DEF Emits
<1>5. QED
  BY <1>1, <1>2, <1>3, <1>4 DEF CallsOf, Task

LEMMA ThenTyped ==
  ASSUME NEW S, NEW s \in Seq(S), NEW x, NEW y, NEW c, NEW J, NEW K,
         c \in J => x \in S, c \in K => y \in S
  PROVE  Then(s, c \in J, x, c \in K, y) \in Seq(S)
<1> DEFINE r == IF c \in J THEN Append(s, x) ELSE s
<1>1. r \in Seq(S)
  BY AppendProperties
<1>2. Then(s, c \in J, x, c \in K, y) = IF c \in K THEN Append(r, y) ELSE r
  BY DEF Then
<1> HIDE DEF r
<1>3. CASE c \in K
  <2>1. y \in S /\ Append(r, y) \in Seq(S)
    BY <1>1, <1>3, AppendProperties
  <2>2. QED
    BY <1>2, <1>3, <2>1
<1>4. CASE c \notin K
  BY <1>1, <1>2, <1>4
<1>5. QED
  BY <1>3, <1>4

LEMMA RolesService ==
  ASSUME Types, Sources, Roles, Dispatch \/ StartServer \/ CrashServer
  PROVE  Roles'
<1>0. pc' = pc
  BY DEF Dispatch, StartServer, CrashServer
<1>1. /\ Watcher \cap Caller = {} /\ Watcher \cap Prober = {} /\ Caller \cap Prober = {}
      /\ Watcher \subseteq Client /\ Caller \subseteq Client /\ Prober \subseteq Client
  BY AnimalsAssumption DEF Client
<1>2. /\ \A c \in Caller : c \notin Subscribed(Watcher) /\ c \notin Subscribed(Watcher \cup Prober)
      /\ \A p \in Prober : /\ p \notin Subscribed(Watcher)
                           /\ pc[p] \in {"out", "loading"} => p \notin Subscribed(Watcher \cup Prober)
  BY <1>1 DEF Subscribed
<1>3. /\ \A a \in Animal : Jumped(a) \in Message /\ Jumped(a) \in Jumps
      /\ Owner(TRUE) \in Message /\ Owner(FALSE) \in Message
      /\ Reply("NoReply") \in Message /\ Reply("NoReply") \in Replies
  BY MessagesMade DEF Message, Answers, Results
<1>4. CASE Dispatch
  <2> DEFINE t == Head(loop)
  <2>1. /\ up /\ loop # << >> /\ t \in Task /\ loop \in Seq(Task) /\ t = loop[1] /\ 1 \in DOMAIN loop
        /\ \/ t \notin Emits /\ t.from \in Client /\ Handled(t)
           \/ t \in Emits /\ Emit(t.animal)
    BY <1>4, DispatchIs, TailWithout DEF Types
  <2>2. ASSUME NEW p \in Prober, pc[p] # "loading"
        PROVE  t \notin GetAllsOf(p)
    <3>1. Count(loop, GetAllsOf(p)) = 0
      BY <2>2 DEF Roles
    <3>2. loop[1] \notin GetAllsOf(p)
      BY <2>1, <3>1, CountZero
    <3>3. QED
      BY <2>1, <3>2
  <2>3. ASSUME NEW p \in Prober, pc[p] # "loading"
        PROVE  Count(loop', GetAllsOf(p)) = 0
    <3>1. GetAllsOf(p) \cap Emits = {} /\ Count(loop, GetAllsOf(p)) = 0
      BY <2>3, GetAllsOfIs DEF Roles
    <3>2. Head(loop) \notin GetAllsOf(p)
      BY <2>2, <2>3
    <3>3. QED
      BY <1>4, <3>1, <3>2, DispatchLoop
  <2> HIDE DEF t
  <2>4. CASE t \notin Emits /\ t.from \in Client /\ Handled(t)
    <3>1. PICK J \in SUBSET Subscribed(Watcher \cup Prober), a \in Animal, y \in Answers :
            /\ inbox' = Sent(J, Jumped(a), {t.from}, y)
            /\ y \in Snapshots <=> t.task \in {"managed", "getall"}
      BY <2>4 DEF Handled
    <3> DEFINE x == Jumped(a)
               K == {t.from}
    <3>2. /\ x \in Message /\ x \in Jumps /\ y \in Message
          /\ y \in Answers /\ (y \notin Snapshots => y \in Replies)
      BY <1>3 DEF Message, Answers
    <3>3. \A c \in Client : inbox'[c] = Then(inbox[c], c \in J, x, c \in K, y)
      BY <3>1, <3>2, SentIs, ZenonT(60)
    <3>4. \A c \in Client : c \in K <=> c = t.from
      OBVIOUS
    <3> HIDE DEF x, K
    <3>5. ASSUME NEW c \in Caller  PROVE inbox'[c] \in Seq(Replies)
      <4>1. c \notin J
        BY <1>2
      <4>2. c = t.from => y \in Replies
        <5>1. c = t.from => t \notin Manageds /\ t \notin GetAlls
          BY <1>1 DEF Manageds, GetAlls
        <5>2. QED
          BY <2>1, <3>1, <3>2, <5>1, TaskKinds
      <4>3. inbox[c] \in Seq(Replies) /\ inbox'[c] = Then(inbox[c], c \in J, x, c \in K, y)
        BY <1>1, <3>3 DEF Roles
      <4>4. (c \in J => x \in Replies) /\ (c \in K => y \in Replies)
        BY <1>1, <3>4, <4>1, <4>2
      <4>5. QED
        BY <4>3, <4>4, ThenTyped
    <3>6. ASSUME NEW p \in Prober, pc[p] \in {"out", "loading"}  PROVE inbox'[p] \in Seq(Answers)
      <4>1. (p \in J => x \in Answers) /\ (p \in K => y \in Answers)
        BY <1>2, <3>6, <3>2
      <4>2. inbox[p] \in Seq(Answers) /\ inbox'[p] = Then(inbox[p], p \in J, x, p \in K, y)
        BY <1>1, <3>3, <3>6 DEF Roles
      <4>3. QED
        BY <4>1, <4>2, ThenTyped
    <3>7. ASSUME NEW p \in Prober, pc[p] \notin {"out", "loading"}
          PROVE  inbox'[p] \in Seq(Replies \cup Jumps)
      <4>1. p = t.from => y \in Replies
        <5>1. p = t.from => t \notin Manageds
          BY <1>1 DEF Manageds
        <5>2. p = t.from => t \notin GetAlls
          BY <2>2, <3>7, GetAllsOfIs
        <5>3. QED
          BY <2>1, <3>1, <3>2, <5>1, <5>2, TaskKinds
      <4>2. (p \in J => x \in Replies \cup Jumps) /\ (p \in K => y \in Replies \cup Jumps)
        BY <1>1, <3>2, <3>4, <4>1
      <4>3. /\ inbox[p] \in Seq(Replies \cup Jumps)
            /\ inbox'[p] = Then(inbox[p], p \in J, x, p \in K, y)
        BY <1>1, <3>3, <3>7 DEF Roles
      <4>4. QED
        BY <4>2, <4>3, ThenTyped
    <3>8. QED
      BY <1>0, <2>3, <3>5, <3>6, <3>7 DEF Roles
  <2>5. CASE t \in Emits /\ Emit(t.animal)
    <3>1. t.animal \in Animal /\ orig[t.animal] # "none" /\ mood[t.animal] \in Moods
      BY <2>1, <2>5, EmitHasSource DEF t, Types
    <3> DEFINE m == Changed(t.animal, mood[t.animal])
    <3>2. inbox' = inbox \/ inbox' = Sent({}, m, Subscribed(Watcher), m)
      BY <2>5, <3>1, EmitIs
    <3>3. m \in Message
      BY <3>1, MessagesMade DEF Message
    <3> HIDE DEF m
    <3>4. \A c \in Client : inbox' = inbox \/ inbox'[c] = Then(inbox[c], c \in {}, m, c \in Subscribed(Watcher), m)
      BY <3>2, <3>3, SentIs
    <3>5. \A c \in Caller \cup Prober : inbox'[c] = inbox[c]
      BY <1>1, <1>2, <3>4 DEF Then
    <3>6. QED
      BY <1>0, <2>3, <3>5 DEF Roles
  <2>6. QED
    BY <2>1, <2>4, <2>5
<1>5. CASE StartServer
  <2> DEFINE m == Owner(TRUE)
  <2>1. inbox' = Sent({}, m, Subscribed(Watcher), m) /\ m \in Message
    BY <1>3, <1>5, StartIs
  <2> HIDE DEF m
  <2>2. \A c \in Client : inbox'[c] = Then(inbox[c], c \in {}, m, c \in Subscribed(Watcher), m)
    BY <2>1, SentIs
  <2>3. \A c \in Caller \cup Prober : inbox'[c] = inbox[c]
    BY <1>1, <1>2, <2>2 DEF Then
  <2>4. \A p \in Prober : Count(loop', GetAllsOf(p)) = 0
    BY <1>5, CountEmpty DEF StartServer
  <2>5. QED
    BY <1>0, <2>3, <2>4 DEF Roles
<1>6. CASE CrashServer
  <2> DEFINE m == Reply("NoReply")
             n == Owner(FALSE)
             J == {c \in Client : Waiting(c)}
             K == Subscribed(Watcher)
  <2>1. inbox' = Sent(J, m, K, n) /\ m \in Message /\ n \in Message /\ m \in Replies
    BY <1>3, <1>6, CrashIs
  <2>2. \A c \in Caller \cup Prober : c \notin K
    BY <1>2
  <2> HIDE DEF m, n, J, K
  <2>3. \A c \in Client : inbox'[c] = Then(inbox[c], c \in J, m, c \in K, n)
    BY <2>1, SentIs
  <2>4. ASSUME NEW c \in Caller \cup Prober, NEW S, inbox[c] \in Seq(S), Replies \subseteq S
        PROVE  inbox'[c] \in Seq(S)
    <3>1. inbox'[c] = Then(inbox[c], c \in J, m, c \in K, n)
      BY <1>1, <2>3
    <3>2. (c \in J => m \in S) /\ (c \in K => n \in S)
      BY <2>1, <2>2, <2>4
    <3>3. QED
      BY <2>4, <3>1, <3>2, ThenTyped
  <2>5. \A p \in Prober : Count(loop', GetAllsOf(p)) = 0
    BY <1>6, CountEmpty DEF CrashServer
  <2>6. Replies \subseteq Answers
    BY DEF Answers
  <2>7. \A c \in Caller : inbox'[c] \in Seq(Replies)
    BY <2>4 DEF Roles
  <2>8. \A p \in Prober : pc[p] \in {"out", "loading"} => inbox'[p] \in Seq(Answers)
    BY <2>4, <2>6 DEF Roles
  <2>9. \A p \in Prober : pc[p] \notin {"out", "loading"} => inbox'[p] \in Seq(Replies \cup Jumps)
    BY <2>4 DEF Roles
  <2>10. QED
    BY <1>0, <2>5, <2>7, <2>8, <2>9 DEF Roles
<1>7. QED
  BY <1>4, <1>5, <1>6

\* What the step of one client must keep for the roles.
LEMMA OthersRoles ==
  ASSUME Types, Roles, NEW d \in Client,
         loop' = loop \/ \E t \in CallsOf(d) : loop' = Append(loop, t),
         \A c \in Client \ {d} : inbox'[c] = inbox[c] /\ pc'[c] = pc[c],
         d \in Watcher =>
           pc'[d] \in {"out", "found", "asking", "asking again", "ready", "ended"},
         d \in Caller => pc'[d] \in {"ready", "waiting"} /\ inbox'[d] \in Seq(Replies),
         d \in Prober =>
           /\ pc'[d] \in {"out", "loading", "poking", "ready", "crashed"}
           /\ pc'[d] \in {"out", "loading"} => inbox'[d] \in Seq(Answers)
           /\ pc'[d] \notin {"out", "loading"} => inbox'[d] \in Seq(Replies \cup Jumps)
           /\ pc'[d] # "loading" => Count(loop', GetAllsOf(d)) = 0
  PROVE  Roles'
<1>1. Watcher \subseteq Client /\ Caller \subseteq Client /\ Prober \subseteq Client
  BY DEF Client
<1>2. ASSUME NEW p \in Prober, p # d  PROVE Count(loop', GetAllsOf(p)) = Count(loop, GetAllsOf(p))
  <2>1. ASSUME NEW t \in CallsOf(d)
        PROVE  Count(Append(loop, t), GetAllsOf(p)) = Count(loop, GetAllsOf(p))
    <3>1. t \in Task /\ t.from = d /\ loop \in Seq(Task)
      BY DEF CallsOf, Types
    <3>2. t \notin GetAllsOf(p)
      BY <1>2, <3>1, GetAllsOfIs
    <3>3. QED
      BY <3>1, <3>2, CountAppend
  <2>2. CASE loop' = loop
    BY <2>2
  <2>3. CASE \E t \in CallsOf(d) : loop' = Append(loop, t)
    <3>1. PICK t \in CallsOf(d) : loop' = Append(loop, t)
      BY <2>3
    <3>2. QED
      BY <2>1, <3>1
  <2>4. QED
    BY <2>2, <2>3
<1>3. \A w \in Watcher :
       pc'[w] \in {"out", "found", "asking", "asking again", "ready", "ended"}
  BY <1>1 DEF Roles
<1>4. \A c \in Caller : pc'[c] \in {"ready", "waiting"} /\ inbox'[c] \in Seq(Replies)
  BY <1>1 DEF Roles
<1>5. ASSUME NEW p \in Prober
      PROVE  /\ pc'[p] \in {"out", "loading", "poking", "ready", "crashed"}
             /\ pc'[p] \in {"out", "loading"} => inbox'[p] \in Seq(Answers)
             /\ pc'[p] \notin {"out", "loading"} => inbox'[p] \in Seq(Replies \cup Jumps)
             /\ pc'[p] # "loading" => Count(loop', GetAllsOf(p)) = 0
  <2>1. CASE p = d
    BY <2>1
  <2>2. CASE p # d
    BY <1>1, <1>2, <2>2 DEF Roles
  <2>3. QED
    BY <2>1, <2>2
<1>6. QED
  BY <1>3, <1>4, <1>5 DEF Roles

LEMMA NoneEmpty ==
  ASSUME NEW S, NEW s \in Seq(S), Count(s, S) = 0
  PROVE  s = << >>
<1>1. \A i \in DOMAIN s : s[i] \in S
  BY LenProperties
<1>2. \A i \in DOMAIN s : s[i] \notin S
  BY CountZero
<1>3. CASE s # << >>
  BY <1>1, <1>2, <1>3, TailWithout
<1>4. QED
  BY <1>3

LEMMA RolesClients ==
  ASSUME Types, Roles, Calls,
         \/ \E w \in Watcher : WatcherStep(w)
         \/ \E c \in Caller : CallPoke(c) \/ ProxySetMood(c) \/ FinishCall(c)
         \/ \E p \in Prober : ProberStep(p)
  PROVE  Roles'
<1>1. /\ Watcher \cap Caller = {} /\ Watcher \cap Prober = {} /\ Caller \cap Prober = {}
      /\ Watcher \subseteq Client /\ Caller \subseteq Client /\ Prober \subseteq Client
  BY AnimalsAssumption DEF Client
<1>2. ASSUME NEW c \in Client, NEW place, GoTo(c, place)
      PROVE  pc'[c] = place /\ \A d \in Client \ {c} : pc'[d] = pc[d]
  BY <1>2 DEF GoTo, Types
<1>3. ASSUME NEW c \in Client, NEW s, inbox' = [inbox EXCEPT ![c] = s]
      PROVE  inbox'[c] = s /\ \A d \in Client \ {c} : inbox'[d] = inbox[d]
  BY <1>3 DEF Types
<1>4. Reply("ServiceUnknown") \in Replies
  BY MessagesMade DEF Results
<1>5. ASSUME NEW w \in Watcher, WatcherStep(w)  PROVE Roles'
  <2>0. w \in Client /\ w \notin Caller /\ w \notin Prober
    BY <1>1
  <2>1. CASE NewManager(w)
    <3>1. /\ pc'[w] \in {"found", "ready"} /\ \A d \in Client \ {w} : pc'[d] = pc[d]
          /\ UNCHANGED <<loop, inbox>>
      BY <1>2, <2>0, <2>1 DEF NewManager, serverVars
    <3>2. QED
      BY <2>0, <3>1, OthersRoles
  <2>2. CASE AskObjects(w)
    <3>1. Call(w, GetManagedObjects(w)) /\ GetManagedObjects(w) \in CallsOf(w)
      BY <2>2, CallsMade DEF AskObjects
    <3>2. /\ loop' = loop \/ \E t \in CallsOf(w) : loop' = Append(loop, t)
          /\ \A d \in Client \ {w} : inbox'[d] = inbox[d]
      BY <2>0, <3>1, CallCounts
    <3>3. pc'[w] = "asking" /\ \A d \in Client \ {w} : pc'[d] = pc[d]
      BY <1>2, <2>0, <2>2 DEF AskObjects
    <3>4. QED
      BY <2>0, <3>2, <3>3, OthersRoles
  <2>3. CASE TakeObjects(w)
    <3>1. /\ GoTo(w, "ready") \/ GoTo(w, AfterFailure(w))
          /\ \E s : inbox' = [inbox EXCEPT ![w] = s]
          /\ loop' = loop
      BY <2>3 DEF TakeObjects, serverVars
    <3>2. pc'[w] \in {"ready", "ended"} /\ \A d \in Client \ {w} : pc'[d] = pc[d]
      BY <1>2, <2>0, <3>1 DEF AfterFailure
    <3>3. \A d \in Client \ {w} : inbox'[d] = inbox[d]
      BY <1>3, <2>0, <3>1
    <3>4. QED
      BY <2>0, <3>1, <3>2, <3>3, OthersRoles
  <2>4. CASE Deliver(w)
    <3> DEFINE rest == [inbox EXCEPT ![w] = Tail(@)]
    <3>1. /\ \/ UNCHANGED <<pc, loop>>
             \/ GoTo(w, "asking again") /\ loop' = loop
             \/ GoTo(w, "asking again") /\ loop' = Append(loop, GetManagedObjects(w))
          /\ \/ inbox' = rest
             \/ inbox' = [rest EXCEPT ![w] = Append(@, Reply("ServiceUnknown"))]
      BY <2>4 DEF Deliver
    <3>2. \A d \in Client \ {w} : inbox'[d] = inbox[d]
      BY <2>0, <3>1 DEF Types
    <3>3. /\ pc' = pc \/ pc'[w] = "asking again"
          /\ \A d \in Client \ {w} : pc'[d] = pc[d]
      BY <1>2, <2>0, <3>1
    <3>4. loop' = loop \/ \E t \in CallsOf(w) : loop' = Append(loop, t)
      BY <3>1, CallsMade
    <3>5. pc'[w] \in {"out", "found", "asking", "asking again", "ready", "ended"}
      BY <3>3 DEF Roles
    <3>6. QED
      BY <2>0, <3>2, <3>3, <3>4, <3>5, OthersRoles
  <2>5. QED
    BY <1>5, <2>1, <2>2, <2>3, <2>4 DEF WatcherStep
<1>6. ASSUME NEW c \in Caller, CallPoke(c) \/ ProxySetMood(c) \/ FinishCall(c)
      PROVE  Roles'
  <2>0. c \in Client /\ c \notin Watcher /\ c \notin Prober /\ inbox[c] \in Seq(Replies)
    BY <1>1 DEF Roles
  <2>1. CASE CallPoke(c) \/ ProxySetMood(c)
    <3>1. PICK t \in CallsOf(c) : Call(c, t)
      BY <2>1, CallsMade DEF CallPoke, ProxySetMood
    <3>2. /\ loop' = loop \/ loop' = Append(loop, t)
          /\ \A d \in Client \ {c} : inbox'[d] = inbox[d]
          /\ inbox'[c] = inbox[c] \/ inbox'[c] = Append(inbox[c], Reply("ServiceUnknown"))
      BY <2>0, <3>1, CallCounts
    <3>3. inbox'[c] \in Seq(Replies)
      BY <1>4, <2>0, <3>2, AppendProperties, SMTT(30)
    <3>4. pc'[c] = "waiting" /\ \A d \in Client \ {c} : pc'[d] = pc[d]
      BY <1>2, <2>0, <2>1 DEF CallPoke, ProxySetMood
    <3>5. QED
      BY <2>0, <3>2, <3>3, <3>4, OthersRoles
  <2>2. CASE FinishCall(c)
    <3>1. /\ inbox[c] # << >> /\ inbox' = [inbox EXCEPT ![c] = Tail(@)]
          /\ GoTo(c, "ready") /\ loop' = loop
      BY <2>2 DEF FinishCall, serverVars
    <3>2. /\ inbox'[c] = Tail(inbox[c]) /\ \A d \in Client \ {c} : inbox'[d] = inbox[d]
          /\ pc'[c] = "ready" /\ \A d \in Client \ {c} : pc'[d] = pc[d]
      BY <1>2, <1>3, <2>0, <3>1
    <3>3. inbox'[c] \in Seq(Replies)
      BY <2>0, <3>1, <3>2, TailWithout
    <3>4. QED
      BY <2>0, <3>1, <3>2, <3>3, OthersRoles
  <2>3. QED
    BY <1>6, <2>1, <2>2
<1>7. ASSUME NEW p \in Prober, ProberStep(p)  PROVE Roles'
  <2>0. p \in Client /\ p \notin Watcher /\ p \notin Caller
    BY <1>1
  <2>1. CASE NewProxy(p)
    <3>1. /\ pc[p] = "out" /\ inbox' = inbox
          /\ \/ loop' = Append(loop, GetAll(p)) /\ GoTo(p, "loading")
             \/ GoTo(p, "crashed") /\ UNCHANGED loop
      BY <2>1 DEF NewProxy
    <3>2. Count(loop, GetAllsOf(p)) = 0
      BY <3>1 DEF Roles
    <3>3. CASE loop' = Append(loop, GetAll(p)) /\ GoTo(p, "loading")
      <4>1. pc'[p] = "loading" /\ \A d \in Client \ {p} : pc'[d] = pc[d]
        BY <1>2, <2>0, <3>3
      <4>2. inbox[p] \in Seq(Answers)
        BY <3>1 DEF Roles
      <4>3. \E t \in CallsOf(p) : loop' = Append(loop, t)
        BY <3>3, CallsMade
      <4>4. QED
        BY <2>0, <3>1, <4>1, <4>2, <4>3, OthersRoles
    <3>4. CASE GoTo(p, "crashed") /\ UNCHANGED loop
      <4>1. pc'[p] = "crashed" /\ \A d \in Client \ {p} : pc'[d] = pc[d]
        BY <1>2, <2>0, <3>4
      <4>2. inbox[p] = << >>
        <5>1. ~InCall(p)
          BY <3>1 DEF InCall
        <5>2. /\ Count(loop, CallsOf(p)) + Count(inbox[p], Answers) = 0
              /\ Count(loop, CallsOf(p)) \in Nat /\ Count(inbox[p], Answers) \in Nat
          BY <2>0, <5>1, CountZero DEF Calls, Types
        <5>3. Count(inbox[p], Answers) = 0
          BY <5>2
        <5>4. inbox[p] \in Seq(Answers)
          BY <3>1 DEF Roles
        <5>5. QED
          BY <5>3, <5>4, NoneEmpty
      <4>3. inbox'[p] \in Seq(Replies \cup Jumps)
        BY <3>1, <4>2, EmptySeq
      <4>4. QED
        BY <2>0, <3>1, <3>2, <3>4, <4>1, <4>3, OthersRoles
    <3>5. QED
      BY <3>1, <3>3, <3>4
  <2>2. CASE SubscribeAndPoke(p)
    <3> DEFINE r == Reply("ServiceUnknown")
               k == Poke(p, Target, TRUE, FALSE)
               read == [inbox EXCEPT ![p] = Tail(@)]
    <3>1. /\ pc[p] = "loading" /\ inbox[p] # << >>
          /\ \/ GoTo(p, "crashed") /\ inbox' = read /\ UNCHANGED loop
             \/ GoTo(p, "poking") /\ loop' = Append(loop, k) /\ inbox' = read
             \/ GoTo(p, "poking") /\ inbox' = [read EXCEPT ![p] = <<r>>] /\ UNCHANGED loop
      BY <2>2 DEF SubscribeAndPoke
    <3>2. Head(inbox[p]) \in Answers /\ Tail(inbox[p]) \in Seq(Answers)
      BY <3>1, TailWithout DEF Roles
    <3>3. Count(loop, CallsOf(p)) = 0 /\ Count(Tail(inbox[p]), Answers) = 0
      <4>1. /\ Count(Tail(inbox[p]), Answers) = Count(inbox[p], Answers) - 1
            /\ Count(inbox[p], Answers) # 0
        BY <2>0, <3>1, <3>2, HeadCounts
      <4>2. InCall(p)
        BY <3>1 DEF InCall
      <4>3. /\ Count(loop, CallsOf(p)) + Count(inbox[p], Answers) = 1
            /\ Count(loop, CallsOf(p)) \in Nat /\ Count(inbox[p], Answers) \in Nat
        BY <2>0, <4>2, CountZero DEF Calls, Types
      <4>4. QED
        BY <4>1, <4>3
    <3>4. Tail(inbox[p]) = << >>
      BY <3>2, <3>3, NoneEmpty
    <3>5. k \in CallsOf(p) /\ k \in Task /\ k \notin GetAlls /\ loop \in Seq(Task)
      BY CallsMade DEF CallsOf, Types
    <3>6. Count(loop, GetAllsOf(p)) = 0
      <4>1. /\ Count(loop, GetAllsOf(p)) <= Count(loop, CallsOf(p))
            /\ Count(loop, GetAllsOf(p)) \in Nat
        BY <3>5, GetAllsOfIs, CountLess, CountZero
      <4>2. QED
        BY <3>3, <4>1
    <3>7. Count(Append(loop, k), GetAllsOf(p)) = 0
      <4>1. k \notin GetAllsOf(p)
        BY <3>5, GetAllsOfIs
      <4>2. Count(Append(loop, k), GetAllsOf(p)) = Count(loop, GetAllsOf(p))
        BY <3>5, <4>1, CountAppend
      <4>3. QED
        BY <3>6, <4>2
    <3>8. read[p] = << >> /\ DOMAIN read = Client /\ \A d \in Client \ {p} : read[d] = inbox[d]
      BY <2>0, <3>4 DEF Types
    <3>9. << >> \in Seq(Replies \cup Jumps) /\ <<r>> \in Seq(Replies \cup Jumps)
      BY <1>4, EmptySeq
    <3> HIDE DEF r, k, read
    <3>10. inbox'[p] \in Seq(Replies \cup Jumps) /\ \A d \in Client \ {p} : inbox'[d] = inbox[d]
      BY <2>0, <3>1, <3>8, <3>9
    <3>11. pc'[p] \in {"crashed", "poking"} /\ \A d \in Client \ {p} : pc'[d] = pc[d]
      BY <1>2, <2>0, <3>1
    <3>12. loop' = loop \/ loop' = Append(loop, k)
      BY <3>1
    <3>13. Count(loop', GetAllsOf(p)) = 0
      BY <3>6, <3>7, <3>12
    <3>14. QED
      BY <2>0, <3>5, <3>10, <3>11, <3>12, <3>13, OthersRoles
  <2>3. CASE Receive(p)
    <3>1. /\ pc[p] \in {"poking", "ready"} /\ inbox[p] # << >>
          /\ GoTo(p, IF Head(inbox[p]).msg = "reply" THEN "ready" ELSE pc[p])
          /\ inbox' = [inbox EXCEPT ![p] = Tail(@)] /\ loop' = loop
      BY <2>3 DEF Receive, serverVars
    <3>2. /\ inbox'[p] = Tail(inbox[p]) /\ \A d \in Client \ {p} : inbox'[d] = inbox[d]
          /\ pc'[p] \in {"ready", "poking"} /\ \A d \in Client \ {p} : pc'[d] = pc[d]
      BY <1>2, <1>3, <2>0, <3>1
    <3>3. Tail(inbox[p]) \in Seq(Replies \cup Jumps) /\ Count(loop, GetAllsOf(p)) = 0
      BY <3>1, TailWithout DEF Roles
    <3>4. QED
      BY <2>0, <3>1, <3>2, <3>3, OthersRoles
  <2>4. QED
    BY <1>7, <2>1, <2>2, <2>3 DEF ProberStep
<1>8. QED
  BY <1>5, <1>6, <1>7

-----------------------------------------------------------------------------
\* The sources of the announcements.
LEMMA ClientsLoop ==
  ASSUME Types,
         \/ \E w \in Watcher : WatcherStep(w)
         \/ \E c \in Caller : CallPoke(c) \/ ProxySetMood(c) \/ FinishCall(c)
         \/ \E p \in Prober : ProberStep(p)
  PROVE  /\ UNCHANGED <<up, starts, mood, orig, idle>>
         /\ loop' = loop \/ \E t \in Task \ Emits : loop' = Append(loop, t)
<1>1. ASSUME NEW c, NEW t, Call(c, t)
      PROVE  loop' = loop \/ loop' = Append(loop, t)
  BY <1>1 DEF Call
<1>2. \A c, t : t \in CallsOf(c) => t \in Task \ Emits
  BY TaskKinds DEF CallsOf
<1>3. ASSUME NEW w \in Watcher, WatcherStep(w)
      PROVE  /\ UNCHANGED <<up, starts, mood, orig, idle>>
             /\ loop' = loop \/ loop' = Append(loop, GetManagedObjects(w))
  <2>1. CASE NewManager(w) \/ TakeObjects(w)
    BY <2>1 DEF NewManager, TakeObjects, serverVars
  <2>2. CASE AskObjects(w)
    BY <1>1, <2>2 DEF AskObjects
  <2>3. CASE Deliver(w)
    BY <2>3 DEF Deliver
  <2>4. QED
    BY <1>3, <2>1, <2>2, <2>3 DEF WatcherStep
<1>4. ASSUME NEW c \in Caller, CallPoke(c) \/ ProxySetMood(c) \/ FinishCall(c)
      PROVE  /\ UNCHANGED <<up, starts, mood, orig, idle>>
             /\ loop' = loop \/ \E t \in CallsOf(c) : loop' = Append(loop, t)
  <2>1. CASE CallPoke(c) \/ ProxySetMood(c)
    <3>1. PICK t \in CallsOf(c) : Call(c, t)
      BY <2>1, CallsMade DEF CallPoke, ProxySetMood
    <3>2. UNCHANGED <<up, starts, mood, orig, idle>>
      BY <2>1 DEF CallPoke, ProxySetMood
    <3>3. QED
      BY <1>1, <3>1, <3>2
  <2>2. CASE FinishCall(c)
    BY <2>2 DEF FinishCall, serverVars
  <2>3. QED
    BY <1>4, <2>1, <2>2
<1>5. ASSUME NEW p \in Prober, ProberStep(p)
      PROVE  /\ UNCHANGED <<up, starts, mood, orig, idle>>
             /\ \/ loop' = loop \/ loop' = Append(loop, GetAll(p))
                \/ loop' = Append(loop, Poke(p, Target, TRUE, FALSE))
  <2>1. CASE NewProxy(p)
    BY <2>1 DEF NewProxy
  <2>2. CASE SubscribeAndPoke(p)
    BY <2>2 DEF SubscribeAndPoke
  <2>3. CASE Receive(p)
    BY <2>3 DEF Receive, serverVars
  <2>4. QED
    BY <1>5, <2>1, <2>2, <2>3 DEF ProberStep
<1>6. CASE \E w \in Watcher : WatcherStep(w)
  BY <1>2, <1>3, <1>6, CallsMade
<1>7. CASE \E c \in Caller : CallPoke(c) \/ ProxySetMood(c) \/ FinishCall(c)
  <2>1. PICK c \in Caller : CallPoke(c) \/ ProxySetMood(c) \/ FinishCall(c)
    BY <1>7
  <2>2. QED
    BY <1>2, <1>4, <2>1
<1>8. CASE \E p \in Prober : ProberStep(p)
  BY <1>2, <1>5, <1>8, CallsMade
<1>9. QED
  BY <1>6, <1>7, <1>8

LEMMA SourcesNext == Types /\ Sources /\ Next => Sources'
<1> SUFFICES ASSUME Types, Sources, Next, up', NEW b \in Animal
             PROVE  /\ Count(loop', {EmitChanged(b)}) = IF idle'[b] THEN 1 ELSE 0
                    /\ idle'[b] <=> orig'[b] # "none"
  BY DEF Sources
<1> DEFINE T == {EmitChanged(b)}
<1>1. /\ loop \in Seq(Task) /\ idle \in [Animal -> BOOLEAN]
      /\ orig \in [Animal -> Moods \cup {"none"}] /\ Count(loop, T) \in Nat
  BY CountZero DEF Types
<1>2. \A t \in T : t \in Emits /\ t \in Task /\ t.animal = b /\ t = EmitChanged(b)
  BY TasksMade DEF EmitChanged, Emits
<1>3. \A a \in Animal : EmitChanged(a) \in T <=> a = b
  BY DEF EmitChanged
<1>4. up => /\ Count(loop, T) = IF idle[b] THEN 1 ELSE 0
            /\ idle[b] <=> orig[b] # "none"
  BY DEF Sources
<1> HIDE DEF T
<1>5. Count(loop', T) = (IF idle'[b] THEN 1 ELSE 0) /\ (idle'[b] <=> orig'[b] # "none")
  <2>1. CASE Dispatch
    <3> DEFINE t == Head(loop)
    <3>1. /\ up /\ loop # << >> /\ t \in Task /\ Tail(loop) \in Seq(Task)
          /\ \/ t \notin Emits /\ Handled(t)
             \/ t \in Emits /\ Emit(t.animal)
      BY <2>1, DispatchIs
    <3>2. /\ t \in T => Count(Tail(loop), T) = Count(loop, T) - 1
          /\ t \notin T => Count(Tail(loop), T) = Count(loop, T)
      BY <1>1, <3>1, CountTail
    <3> HIDE DEF t
    <3>3. CASE t \notin Emits /\ Handled(t)
      <4>1. t \notin T /\ Count(Tail(loop), T) = Count(loop, T)
        BY <1>2, <3>2, <3>3
      <4>2. CASE loop' = Tail(loop) /\ UNCHANGED <<mood, orig, idle>>
        <5>1. Count(loop', T) = Count(loop, T)
          BY <4>1, <4>2
        <5>2. QED
          BY <1>4, <3>1, <4>2, <5>1
      <4>3. CASE t.task = "poke" /\ \E m \in Moods : SetMood(t.animal, m)
        <5>1. t.animal \in Animal
          BY <3>1, <4>3, TaskKinds DEF Pokes
        <5> DEFINE a == t.animal
                   e == EmitChanged(a)
        <5>2. \/ loop' = Tail(loop) /\ UNCHANGED <<mood, orig, idle>>
              \/ /\ loop' = Tail(loop) /\ idle[a] /\ UNCHANGED idle
                 /\ \A d \in Animal \ {a} : orig'[d] = orig[d]
                 /\ orig'[a] # "none"
              \/ /\ loop' = Append(Tail(loop), e)
                 /\ ~idle[a] /\ idle' = [idle EXCEPT ![a] = TRUE]
                 /\ \A d \in Animal \ {a} : orig'[d] = orig[d]
                 /\ orig'[a] # "none"
          BY <3>1, <4>3, <5>1, SetMoodIs
        <5>3. e \in Task /\ (e \in T <=> a = b)
          BY <1>3, <5>1, TasksMade
        <5> HIDE DEF a, e
        <5>4. CASE loop' = Tail(loop) /\ UNCHANGED <<mood, orig, idle>>
          BY <4>2, <5>4
        <5>5. CASE /\ loop' = Tail(loop) /\ idle[a] /\ UNCHANGED idle
                   /\ \A d \in Animal \ {a} : orig'[d] = orig[d]
                   /\ orig'[a] # "none"
          <6>1. Count(loop', T) = Count(loop, T)
            BY <4>1, <5>5
          <6>2. idle'[b] <=> orig'[b] # "none"
            BY <1>4, <3>1, <5>5
          <6>3. QED
            BY <1>4, <3>1, <5>5, <6>1, <6>2
        <5>6. CASE /\ loop' = Append(Tail(loop), e)
                   /\ ~idle[a] /\ idle' = [idle EXCEPT ![a] = TRUE]
                   /\ \A d \in Animal \ {a} : orig'[d] = orig[d]
                   /\ orig'[a] # "none"
          <6> DEFINE s == Tail(loop)
          <6>1. s \in Seq(Task) /\ Count(s, T) = Count(loop, T) /\ loop' = Append(s, e)
            BY <3>1, <4>1, <5>6
          <6> HIDE DEF s
          <6>2. /\ e \in T => Count(Append(s, e), T) = Count(s, T) + 1
                /\ e \notin T => Count(Append(s, e), T) = Count(s, T)
            BY <5>3, <6>1, CountAppend
          <6>3. CASE a = b
            <7>1. Count(loop, T) = 0
              BY <1>4, <3>1, <5>6, <6>3
            <7>2. Count(loop', T) = 1
              BY <5>3, <6>1, <6>2, <6>3, <7>1
            <7>3. idle'[b] = TRUE /\ orig'[b] # "none"
              BY <1>1, <5>6, <6>3
            <7>4. QED
              BY <7>2, <7>3
          <6>4. CASE a # b
            <7>1. Count(loop', T) = Count(loop, T)
              BY <5>3, <6>1, <6>2, <6>4
            <7>2. idle'[b] = idle[b] /\ orig'[b] = orig[b]
              BY <1>1, <5>6, <6>4
            <7>3. QED
              BY <1>4, <3>1, <7>1, <7>2
          <6>5. QED
            BY <6>3, <6>4
        <5>7. QED
          BY <5>2, <5>4, <5>5, <5>6 DEF a
      <4>4. QED
        BY <3>3, <4>2, <4>3 DEF Handled
    <3>4. CASE t \in Emits /\ Emit(t.animal)
      <4>1. t.animal \in Animal /\ t = EmitChanged(t.animal)
        BY <3>4 DEF Emits, EmitChanged
      <4>2. /\ orig' = [orig EXCEPT ![t.animal] = "none"]
            /\ idle' = [idle EXCEPT ![t.animal] = FALSE]
            /\ loop' = Tail(loop)
        BY <3>4 DEF Emit
      <4>3. CASE t.animal = b
        <5>1. t \in T /\ Count(loop, T) # 0
          <6>1. t \in T
            BY <1>3, <4>1, <4>3
          <6>2. 1 \in DOMAIN loop /\ t = loop[1]
            BY <1>1, <3>1, TailWithout DEF t
          <6>3. QED
            BY <1>1, <6>1, <6>2, CountZero
        <5>2. Count(loop, T) = 1
          BY <1>4, <3>1, <5>1
        <5>3. Count(loop', T) = 0
          BY <3>2, <4>2, <5>1, <5>2
        <5>4. idle'[b] = FALSE /\ orig'[b] = "none"
          BY <1>1, <4>2, <4>3
        <5>5. QED
          BY <5>3, <5>4
      <4>4. CASE t.animal # b
        <5>1. t \notin T
          BY <1>3, <4>1, <4>4
        <5>2. Count(loop', T) = Count(loop, T)
          BY <3>2, <4>2, <5>1
        <5>3. idle'[b] = idle[b] /\ orig'[b] = orig[b]
          BY <1>1, <4>2, <4>4
        <5>4. QED
          BY <1>4, <3>1, <5>2, <5>3
      <4>5. QED
        BY <4>3, <4>4
    <3>5. QED
      BY <3>1, <3>3, <3>4
  <2>2. CASE StartServer
    <3>1. loop' = << >> /\ idle'[b] = FALSE /\ orig'[b] = "none"
      BY <2>2 DEF StartServer
    <3>2. Count(loop', T) = 0
      BY <3>1, CountEmpty
    <3>3. QED
      BY <3>1, <3>2
  <2>3. CASE CrashServer
    BY <2>3 DEF CrashServer
  <2>4. CASE \/ \E w \in Watcher : WatcherStep(w)
             \/ \E c \in Caller : CallPoke(c) \/ ProxySetMood(c) \/ FinishCall(c)
             \/ \E p \in Prober : ProberStep(p)
    <3>1. /\ UNCHANGED <<up, starts, mood, orig, idle>>
          /\ loop' = loop \/ \E t \in Task \ Emits : loop' = Append(loop, t)
      BY <2>4, ClientsLoop
    <3>2. ASSUME NEW t \in Task \ Emits
          PROVE  Count(Append(loop, t), T) = Count(loop, T)
      <4>1. t \notin T
        BY <1>2
      <4>2. QED
        BY <1>1, <4>1, CountAppend
    <3>3. Count(loop', T) = Count(loop, T)
      <4>1. CASE loop' = loop
        BY <4>1
      <4>2. CASE \E t \in Task \ Emits : loop' = Append(loop, t)
        <5>1. PICK t \in Task \ Emits : loop' = Append(loop, t)
          BY <4>2
        <5>2. QED
          BY <3>2, <5>1
      <4>3. QED
        BY <3>1, <4>1, <4>2
    <3>4. QED
      BY <1>4, <3>1, <3>3
  <2>5. QED
    BY <2>1, <2>2, <2>3, <2>4 DEF Next
<1>6. QED
  BY <1>5 DEF T

-----------------------------------------------------------------------------
\* What a watcher knows, message by message.
LEMMA KnowsQuiet ==
  ASSUME NEW s \in Seq(Message), NEW p, NEW v, NEW snd, NEW u \in BOOLEAN, NEW told,
         Knows(s, p, v, snd, u, told), p \notin {"out", "ended"},
         NEW m \in Message, m.msg \notin {"owner", "changed"},
         IsAnswer(m) => Right(s, ViewIn(m), SoundIn(m), u, told)
  PROVE  Knows(Append(s, m), p, v, snd, u, told)
<1>1. Informed(s, u, told) /\ Alternates(s)
  BY DEF Knows
<1>2. Informed(Append(s, m), u, told)
  BY <1>1, InformedQuiet
<1>3. Alternates(Append(s, m))
  BY <1>1, AlternatesAppend
<1>4. p = "ready" => Right(Append(s, m), v, snd, u, told)
  <2>1. p = "ready" => Right(s, v, snd, u, told)
    BY DEF Knows
  <2>2. QED
    BY <2>1, RightAppend
<1>5. QED
  BY <1>2, <1>3, <1>4 DEF Knows

LEMMA KnowsOwner ==
  ASSUME NEW s \in Seq(Message), NEW p, NEW v, NEW snd, NEW u \in BOOLEAN, NEW told,
         Alternates(s), p \notin {"out", "ended"},
         p # "ready" => v = << >> /\ snd = {}, snd \subseteq DOMAIN v
  PROVE  Knows(Append(s, Owner(u)), p, v, snd, u, told)
<1>1. Owner(u) \in Message /\ Owner(u).msg = "owner"
  BY DEF Owner, Message, Owners
<1>2. Informed(Append(s, Owner(u)), u, told)
  BY InformedOwner
<1>3. Alternates(Append(s, Owner(u)))
  BY <1>1, AlternatesAppend
<1>4. Right(Append(s, Owner(u)), v, snd, u, told)
  BY <1>1, AppendAt DEF Right
<1>5. QED
  BY <1>2, <1>3, <1>4 DEF Knows

LEMMA KnowsChange ==
  ASSUME NEW s \in Seq(Message), NEW p, NEW v, NEW snd \in SUBSET Animal,
         NEW told \in [Animal -> Moods], Knows(s, p, v, snd, TRUE, told),
         p \notin {"out", "ended"}, NEW a \in Animal, NEW x \in Moods, told[a] # x
  PROVE  Knows(Append(s, Changed(a, x)), p, v, snd, TRUE, [told EXCEPT ![a] = x])
<1> DEFINE m == Changed(a, x)
           now == [told EXCEPT ![a] = x]
<1>1. /\ m \in Message /\ m.msg = "changed" /\ m.animal = a /\ m.mood = x
      /\ IsChange(m, a)
  BY DEF Changed, Message, Changes, IsChange
<1>2. Informed(s, TRUE, told) /\ Alternates(s)
  BY DEF Knows
<1>3. Informed(Append(s, m), TRUE, now)
  BY <1>2, InformedChange
<1>5. \A b \in snd : now[b] = told[b] \/ IsChange(m, b)
  <2>1. \A b \in snd : b # a => now[b] = told[b]
    OBVIOUS
  <2>2. QED
    BY <1>1, <2>1
<1> HIDE DEF m, now
<1>4. Alternates(Append(s, m))
  BY <1>1, <1>2, AlternatesAppend
<1>6. p = "ready" => Right(Append(s, m), v, snd, TRUE, now)
  <2>1. p = "ready" => Right(s, v, snd, TRUE, told)
    BY DEF Knows
  <2>2. QED
    BY <1>1, <1>5, <2>1, RightAppend
<1>7. Knows(Append(s, m), p, v, snd, TRUE, now)
  BY <1>3, <1>4, <1>6 DEF Knows
<1>8. QED
  BY <1>7 DEF m, now

LEMMA KnowsEmpty ==
  ASSUME NEW p, NEW u, NEW told, p = "ready" => ~u
  PROVE  Knows(<< >>, p, << >>, {}, u, told)
<1>1. DOMAIN << >> = {}
  OBVIOUS
<1>2. Informed(<< >>, u, told) /\ Alternates(<< >>)
  BY <1>1 DEF Informed, Alternates
<1>3. p = "ready" => Right(<< >>, << >>, {}, u, told)
  BY <1>1 DEF Right
<1>4. QED
  BY <1>2, <1>3 DEF Knows

LEMMA KnowsPlace ==
  ASSUME NEW s, NEW p, NEW v, NEW snd, NEW u, NEW told, Knows(s, p, v, snd, u, told),
         p # "ready", NEW q, q \notin {"ready", "out", "ended"}
  PROVE  Knows(s, q, v, snd, u, told)
  BY DEF Knows

\* A watcher that asked has its answer.
LEMMA KnowsTake ==
  ASSUME NEW s \in Seq(Message), NEW p, NEW v, NEW snd, NEW u \in BOOLEAN, NEW told,
         Knows(s, p, v, snd, u, told), NEW k \in DOMAIN s, IsAnswer(s[k])
  PROVE  Knows(RemoveAt(s, k), "ready", ViewIn(s[k]), SoundIn(s[k]), u, told)
<1> DEFINE t == RemoveAt(s, k)
           m == s[k]
<1>1. t \in Seq(Message) /\ Without(s, t, k)
  BY RemoveAtWithout
<1>2. Informed(s, u, told) /\ Alternates(s)
  BY DEF Knows
<1>3. m \in Message /\ m.msg \notin {"owner", "changed"}
  <2>1. m \in Message
    BY LenProperties
  <2>2. QED
    BY <2>1 DEF IsAnswer
<1>4. SoundIn(m) \subseteq DOMAIN ViewIn(m)
  <2>1. CASE m.msg = "objects"
    <3>1. m \in Snapshots
      BY <1>3, <2>1, MessageKinds
    <3>2. m.sound \subseteq Animal /\ DOMAIN m.objects = Animal
      BY <3>1 DEF Snapshots, Objects
    <3>3. QED
      BY <2>1, <3>2 DEF SoundIn, ViewIn
  <2>2. CASE m.msg # "objects"
    BY <2>2 DEF SoundIn
  <2>3. QED
    BY <2>1, <2>2
<1>5. Right(s, ViewIn(m), SoundIn(m), u, told)
  BY <1>2 DEF Informed
<1> HIDE DEF t
<1>6. Informed(t, u, told)
  BY <1>1, <1>2, InformedWithout
<1>7. Alternates(t)
  BY <1>1, <1>2, AlternatesWithout
<1>8. Right(t, ViewIn(m), SoundIn(m), u, told)
  BY <1>1, <1>3, <1>5, RightWithout
<1>9. Knows(t, "ready", ViewIn(m), SoundIn(m), u, told)
  BY <1>4, <1>6, <1>7, <1>8 DEF Knows
<1>10. QED
  BY <1>9 DEF t


\* A watcher reads the oldest message: what it says, and all that comes
\* after it, leads from the cache it makes to the truth.
LEMMA KnowsDeliver ==
  ASSUME NEW s \in Seq(Message), s # << >>, \A i \in DOMAIN s : ~IsAnswer(s[i]),
         NEW v \in {<< >>} \cup Objects, NEW snd \in SUBSET Animal,
         NEW u \in BOOLEAN, NEW told, Knows(s, "ready", v, snd, u, told)
  PROVE  LET next == Apply([view |-> v, sound |-> snd], Head(s)) IN
           IF Head(s) = Owner(TRUE)
           THEN /\ next.view = << >> /\ next.sound = {}
                /\ Knows(Tail(s), "asking again", << >>, {}, u, told)
           ELSE Knows(Tail(s), "ready", next.view, next.sound, u, told)
<1> DEFINE m == Head(s)
           t == Tail(s)
           cache == [view |-> v, sound |-> snd]
           next == Apply(cache, m)
<1>1. /\ t \in Seq(Message) /\ Without(s, t, 1) /\ 1 \in DOMAIN s
      /\ m = s[1] /\ m \in Message
  BY TailWithout
<1>2. Informed(s, u, told) /\ Alternates(s) /\ snd \subseteq DOMAIN v /\ Right(s, v, snd, u, told)
  BY DEF Knows
<1>3. cache.view = v /\ cache.sound = snd
  OBVIOUS
<1>4. /\ m.msg = "changed" /\ m.animal \in DOMAIN v =>
           /\ next.view = [v EXCEPT ![m.animal].mood = m.mood]
           /\ next.sound = snd \cup {m.animal}
      /\ m.msg = "owner" => next.view = << >> /\ next.sound = {}
      /\ m.msg # "owner" /\ ~(m.msg = "changed" /\ m.animal \in DOMAIN v) =>
           next.view = v /\ next.sound = snd
  BY <1>3 DEF Apply
<1>s. Head(s) = m /\ Tail(s) = t /\ Apply([view |-> v, sound |-> snd], Head(s)) = next
  OBVIOUS
<1> HIDE DEF t, m, cache, next
<1>5. Informed(t, u, told)
  BY <1>1, <1>2, InformedWithout
<1>6. Alternates(t)
  BY <1>1, <1>2, AlternatesWithout
<1>7. PICK f \in [DOMAIN t -> DOMAIN s \ {1}] :
           /\ \A i \in DOMAIN t : t[i] = s[f[i]]
           /\ \A j \in DOMAIN s \ {1} : \E i \in DOMAIN t : f[i] = j
  BY <1>1, WithoutAt, SMTT(30)
<1>8. DOMAIN s = 1 .. Len(s) /\ Len(s) \in Nat
  BY LenProperties
<1>9. CASE m.msg = "owner"
  <2>1. m \in Owners
    BY <1>1, <1>9, MessageKinds
  <2>2. m.up \in BOOLEAN /\ m = [msg |-> "owner", up |-> m.up]
    BY <2>1 DEF Owners
  <2>3. CASE m = Owner(TRUE)
    <3>1. Knows(t, "asking again", << >>, {}, u, told)
      BY <1>5, <1>6 DEF Knows
    <3>2. QED
      BY <1>4, <1>9, <1>s, <2>3, <3>1
  <2>4. CASE m # Owner(TRUE)
    <3>1. ~m.up
      BY <2>2, <2>4 DEF Owner
    <3>2. Right(t, << >>, {}, u, told)
      <4> SUFFICES ASSUME \A i \in DOMAIN t : t[i].msg # "owner"
                   PROVE  ~u
        BY DEF Right
      <4>1. \A j \in DOMAIN s : j > 1 => s[j].msg # "owner"
        BY <1>7, <1>8
      <4>2. m.up = u
        BY <1>1, <1>2, <1>9, <4>1 DEF Informed
      <4>3. QED
        BY <3>1, <4>2
    <3>3. Knows(t, "ready", << >>, {}, u, told)
      BY <1>5, <1>6, <3>2 DEF Knows
    <3>4. QED
      BY <1>4, <1>9, <1>s, <2>4, <3>3
  <2>5. QED
    BY <2>3, <2>4
<1>10. CASE m.msg # "owner"
  <2>0. m # Owner(TRUE)
    BY <1>10 DEF Owner
  <2>1. (\A i \in DOMAIN t : t[i].msg # "owner") => \A i \in DOMAIN s : s[i].msg # "owner"
    BY <1>1, <1>7, <1>10
  <2>2. CASE m.msg = "changed" /\ m.animal \in DOMAIN v
    <3> DEFINE a == m.animal
    <3>1. v \in Objects /\ a \in Animal
      BY <2>2, EmptySeq DEF Objects
    <3>2. /\ next.view = [v EXCEPT ![a].mood = m.mood] /\ next.sound = snd \cup {a}
          /\ a \in DOMAIN v
      BY <1>4, <2>2
    <3>3. v \in [Animal -> [mood : Moods, interfaces : {Interfaces(b) : b \in Animal}]]
      BY <3>1 DEF Objects
    <3>4. /\ DOMAIN next.view = DOMAIN v
          /\ next.view[a].mood = m.mood
          /\ \A b \in DOMAIN v : b # a => next.view[b] = v[b]
      BY <3>2, <3>3
    <3>5. IsChange(m, a)
      BY <2>2 DEF IsChange
    <3> HIDE DEF a
    <3>6. next.sound \subseteq DOMAIN next.view
      BY <1>2, <3>2, <3>4
    <3>7. Right(t, next.view, next.sound, u, told)
      <4> SUFFICES ASSUME \A i \in DOMAIN t : t[i].msg # "owner"
                   PROVE  /\ DOMAIN next.view = IF u THEN Animal ELSE {}
                          /\ \A b \in next.sound : (\A i \in DOMAIN t : ~IsChange(t[i], b)) =>
                               next.view[b].mood = told[b]
        BY DEF Right
      <4>1. /\ DOMAIN v = IF u THEN Animal ELSE {}
            /\ \A b \in snd : (\A i \in DOMAIN s : ~IsChange(s[i], b)) => v[b].mood = told[b]
            /\ \A i \in DOMAIN s : s[i].msg # "owner"
        BY <1>2, <2>1 DEF Right
      <4>2. ASSUME NEW b \in next.sound, \A i \in DOMAIN t : ~IsChange(t[i], b)
            PROVE  next.view[b].mood = told[b]
        <5>0. \A j \in DOMAIN s : j # 1 => ~IsChange(s[j], b)
          BY <1>7, <4>2
        <5>1. CASE b = a
          <6>1. Newest(s, 1, a)
            BY <1>8, <4>1, <5>0, <5>1 DEF Newest
          <6>2. s[1].mood = told[s[1].animal] /\ s[1].animal = a
            BY <1>1, <1>2, <2>2, <6>1 DEF Informed, a
          <6>3. QED
            BY <1>1, <3>4, <5>1, <6>2
        <5>2. CASE b # a
          <6>1. ~IsChange(s[1], b)
            BY <1>1, <2>2, <5>2 DEF IsChange, a
          <6>2. b \in snd /\ b \in DOMAIN v
            BY <1>2, <3>2, <5>2
          <6>3. v[b].mood = told[b]
            BY <4>1, <5>0, <6>1, <6>2
          <6>4. QED
            BY <3>4, <5>2, <6>2, <6>3
        <5>3. QED
          BY <5>1, <5>2
      <4>3. QED
        BY <3>4, <4>1, <4>2
    <3>8. Knows(t, "ready", next.view, next.sound, u, told)
      BY <1>5, <1>6, <3>6, <3>7 DEF Knows
    <3>9. QED
      BY <1>s, <2>0, <3>8
  <2>3. CASE ~(m.msg = "changed" /\ m.animal \in DOMAIN v)
    <3>1. next.view = v /\ next.sound = snd
      BY <1>4, <1>10, <2>3
    <3>2. \A b \in snd : ~IsChange(m, b)
      BY <1>2, <2>3 DEF IsChange
    <3>3. \A b \in snd : (\A i \in DOMAIN t : ~IsChange(t[i], b)) =>
                           \A i \in DOMAIN s : ~IsChange(s[i], b)
      BY <1>1, <1>7, <3>2
    <3>4. Right(t, v, snd, u, told)
      BY <1>2, <2>1, <3>3 DEF Right
    <3>5. Knows(t, "ready", v, snd, u, told)
      BY <1>2, <1>5, <1>6, <3>4 DEF Knows
    <3>6. QED
      BY <1>s, <2>0, <3>1, <3>5
  <2>4. QED
    BY <2>2, <2>3
<1>11. QED
  BY <1>9, <1>10

-----------------------------------------------------------------------------
\* A client with a call in the service's main loop waits for the answer.
LEMMA CallerWaits ==
  ASSUME Types, Calls, NEW i \in DOMAIN loop, loop[i].task # "emit", loop[i].from \in Client
  PROVE  InCall(loop[i].from)
<1> DEFINE t == loop[i]
           c == t.from
<1>1. t \in Task
  BY LenProperties DEF Types
<1>2. t \in CallsOf(c)
  BY <1>1 DEF CallsOf
<1>3. Count(loop, CallsOf(c)) \in Nat /\ Count(loop, CallsOf(c)) # 0
  BY <1>2, CountZero DEF Types
<1>4. Count(inbox[c], Answers) \in Nat
  BY CountZero DEF Types
<1>5. Count(loop, CallsOf(c)) + Count(inbox[c], Answers) = IF InCall(c) THEN 1 ELSE 0
  BY DEF Calls
<1> HIDE DEF c
<1>6. InCall(c)
  BY <1>3, <1>4, <1>5
<1>7. QED
  BY <1>6 DEF c

\* A watcher is subscribed unless it has not started or has ended.
LEMMA WatchersSubscribe ==
  ASSUME Types, Roles, NEW w \in Watcher
  PROVE  /\ w \in Subscribed(Watcher) <=> pc[w] \notin {"out", "ended"}
         /\ w \in Subscribed(Watcher \cup Prober) <=> pc[w] \notin {"out", "ended"}
         /\ InCall(w) => pc[w] \notin {"out", "ended", "ready"}
<1>1. pc[w] \in {"out", "found", "asking", "asking again", "ready", "ended"}
  BY DEF Roles
<1>2. QED
  BY <1>1 DEF Subscribed, InCall

\* A step of the service moves no client and reads no inbox.
LEMMA WatchersService ==
  ASSUME Types, Sources, Roles, Calls, WatcherInv, Dispatch \/ StartServer \/ CrashServer
  PROVE  WatcherInv'
<1>t. /\ inbox \in [Client -> Seq(Message)] /\ up \in BOOLEAN /\ loop \in Seq(Task)
      /\ sound \in [Watcher -> SUBSET Animal] /\ mood \in [Animal -> Moods]
      /\ orig \in [Animal -> Moods \cup {"none"}]
  BY DEF Types
<1>c. Watcher \subseteq Client
  BY DEF Client
<1>k. \A w \in Watcher : Knows(inbox[w], pc[w], view[w], sound[w], up, Told)
  BY DEF WatcherInv
<1>o. Told \in [Animal -> Moods]
  BY <1>t DEF Told, Announced
<1>e. \A w \in Watcher : pc[w] \in {"out", "ended"} =>
        inbox[w] = << >> /\ view[w] = << >> /\ sound[w] = {} /\ pc[w] # "ready"
  <2>1. ASSUME NEW w \in Watcher, pc[w] \in {"out", "ended"}
        PROVE  inbox[w] = << >> /\ view[w] = << >> /\ sound[w] = {} /\ pc[w] # "ready"
    <3>1. Knows(inbox[w], pc[w], view[w], sound[w], up, Told)
      BY <1>k
    <3>2. QED
      BY <2>1, <3>1 DEF Knows
  <2>2. QED
    BY <2>1
<1>s. ASSUME UNCHANGED <<pc, view, sound>>,
             \A w \in Watcher : Knows(inbox'[w], pc[w], view[w], sound[w], up', Told')
      PROVE  WatcherInv'
  BY <1>s DEF WatcherInv
<1>1. CASE Dispatch
  <2> DEFINE t == Head(loop)
  <2>1. /\ up /\ loop # << >> /\ t \in Task
        /\ UNCHANGED <<up, starts, pc, view, sound, calls>>
        /\ \/ t \notin Emits /\ t.from \in Client /\ Handled(t) /\ Told' = Told
           \/ t \in Emits /\ Emit(t.animal)
    BY <1>1, DispatchIs
  <2>2. t = loop[1] /\ 1 \in DOMAIN loop
    BY <1>t, <2>1, TailWithout
  <2>u. up = TRUE /\ up' = TRUE
    BY <1>t, <2>1
  <2>h. Head(loop) = t
    OBVIOUS
  <2> HIDE DEF t
  <2>3. CASE t \notin Emits /\ t.from \in Client /\ Handled(t) /\ Told' = Told
    <3>1. PICK J \in SUBSET Subscribed(Watcher \cup Prober), a \in Animal, y \in Answers :
            /\ inbox' = Sent(J, Jumped(a), {t.from}, y)
            /\ y \in Snapshots <=> t.task \in {"managed", "getall"}
            /\ y \in Snapshots => \A b \in y.sound : y.objects[b].mood = Told[b]
      BY <2>3 DEF Handled
    <3> DEFINE x == Jumped(a)
               K == {t.from}
    <3>2. x \in Message /\ x.msg = "jumped" /\ y \in Message /\ ~IsAnswer(x)
      BY MessagesMade DEF Message, Jumped, IsAnswer
    <3>3. InCall(t.from)
      <4>1. t.task # "emit"
        BY <2>1, <2>3, TaskKinds
      <4>2. QED
        BY <2>2, <2>3, <4>1, CallerWaits
    <3>4. ASSUME NEW w \in Watcher
          PROVE  Knows(inbox'[w], pc[w], view[w], sound[w], TRUE, Told)
      <4> DEFINE s == inbox[w]
                 r == IF w \in J THEN Append(s, x) ELSE s
      <4>1. inbox'[w] = (IF w \in K THEN Append(r, y) ELSE r)
        <5>1. inbox'[w] = Then(s, w \in J, x, w \in K, y)
          BY <1>c, <3>1, <3>2, SentIs, ZenonT(60)
        <5>2. QED
          BY <5>1 DEF Then
      <4>2. s \in Seq(Message) /\ Knows(s, pc[w], view[w], sound[w], TRUE, Told)
        BY <1>c, <1>k, <1>t, <2>u
      <4>3. w \in J => pc[w] \notin {"out", "ended"}
        BY WatchersSubscribe
      <4>4. w \in K => w = t.from
        OBVIOUS
      <4> HIDE DEF s, x, K
      <4>5. r \in Seq(Message) /\ Knows(r, pc[w], view[w], sound[w], TRUE, Told)
        <5>1. CASE w \in J
          <6>1. Knows(Append(s, x), pc[w], view[w], sound[w], TRUE, Told)
            BY <3>2, <4>2, <4>3, <5>1, KnowsQuiet
          <6>2. Append(s, x) \in Seq(Message)
            BY <3>2, <4>2, AppendProperties
          <6>3. QED
            BY <5>1, <6>1, <6>2
        <5>2. CASE w \notin J
          BY <4>2, <5>2
        <5>3. QED
          BY <5>1, <5>2
      <4> HIDE DEF r
      <4>6. CASE w \in K
        <5>1. pc[w] \notin {"out", "ended"}
          BY <3>3, <4>4, <4>6, WatchersSubscribe
        <5>2. t.task = "managed"
          <6>1. t.from \in Watcher /\ t \in Task \ Emits
            BY <2>1, <2>3, <4>4, <4>6
          <6>2. t \notin Pokes /\ t \notin Sets /\ t \notin GetAlls
            BY <6>1, AnimalsAssumption DEF Pokes, Sets, GetAlls
          <6>3. t \in Manageds
            BY <6>1, <6>2 DEF Task
          <6>4. QED
            BY <6>3 DEF Manageds
        <5>3. y \in Snapshots
          BY <3>1, <5>2
        <5>4. y.msg = "objects" /\ DOMAIN y.objects = Animal
          BY <5>3 DEF Snapshots, Objects
        <5>5. Right(r, ViewIn(y), SoundIn(y), TRUE, Told)
          BY <3>1, <5>3, <5>4 DEF Right, ViewIn, SoundIn
        <5>6. Knows(Append(r, y), pc[w], view[w], sound[w], TRUE, Told)
          BY <3>2, <4>5, <5>1, <5>4, <5>5, KnowsQuiet
        <5>7. QED
          BY <4>1, <4>6, <5>6
      <4>7. CASE w \notin K
        BY <4>1, <4>5, <4>7
      <4>8. QED
        BY <4>6, <4>7
    <3>5. QED
      BY <1>s, <2>1, <2>3, <2>u, <3>4
  <2>4. CASE t \in Emits /\ Emit(t.animal)
    <3> DEFINE a == t.animal
    <3>1. a \in Animal /\ orig[a] # "none" /\ Emit(a)
      BY <2>1, <2>4, <2>h, EmitHasSource
    <3> HIDE DEF a
    <3>2. IF mood[a] # orig[a]
          THEN /\ inbox' = Sent({}, Changed(a, mood[a]), Subscribed(Watcher), Changed(a, mood[a]))
               /\ Told' = [Told EXCEPT ![a] = mood[a]] /\ Told[a] # mood[a]
          ELSE inbox' = inbox /\ Told' = Told
      BY <3>1, EmitIs
    <3>3. CASE mood[a] # orig[a]
      <4> DEFINE x == mood[a]
                 m == Changed(a, x)
                 K == Subscribed(Watcher)
      <4>1. x \in Moods /\ m \in Message
        BY <1>t, <3>1, MessagesMade DEF Message
      <4>2. /\ inbox' = Sent({}, m, K, m) /\ Told' = [Told EXCEPT ![a] = x] /\ Told[a] # x
        BY <3>2, <3>3
      <4> HIDE DEF x, K
      <4>3. ASSUME NEW w \in Watcher
            PROVE  Knows(inbox'[w], pc[w], view[w], sound[w], TRUE, Told')
        <5>1. inbox'[w] = Then(inbox[w], w \in {}, m, w \in K, m)
          BY <1>c, <4>1, <4>2, SentIs
        <5>2. inbox'[w] = IF w \in K THEN Append(inbox[w], m) ELSE inbox[w]
          BY <5>1 DEF Then
        <5>3. CASE w \in K
          <6>1. pc[w] \notin {"out", "ended"}
            BY <5>3, WatchersSubscribe DEF K
          <6>2. Knows(inbox[w], pc[w], view[w], sound[w], TRUE, Told)
            BY <1>k, <2>u
          <6>3. inbox[w] \in Seq(Message) /\ sound[w] \in SUBSET Animal
            BY <1>c, <1>t
          <6>4. Knows(Append(inbox[w], m), pc[w], view[w], sound[w], TRUE, [Told EXCEPT ![a] = x])
            BY <1>o, <3>1, <4>1, <4>2, <6>1, <6>2, <6>3, KnowsChange
          <6>5. QED
            BY <4>2, <5>2, <5>3, <6>4
        <5>4. CASE w \notin K
          <6>1. pc[w] \in {"out", "ended"}
            BY <5>4, WatchersSubscribe DEF K
          <6>2. inbox'[w] = << >> /\ view[w] = << >> /\ sound[w] = {} /\ pc[w] # "ready"
            BY <1>e, <5>2, <5>4, <6>1
          <6>3. QED
            BY <6>2, KnowsEmpty
        <5>5. QED
          BY <5>3, <5>4
      <4>4. QED
        BY <1>s, <2>1, <2>u, <4>3
    <3>4. CASE mood[a] = orig[a]
      <4>1. inbox' = inbox /\ Told' = Told /\ up' = up
        BY <2>1, <3>2, <3>4
      <4>2. QED
        BY <1>k, <1>s, <2>1, <4>1
    <3>5. QED
      BY <3>3, <3>4
  <2>5. QED
    BY <2>1, <2>3, <2>4
<1>n. \A w \in Watcher :
        /\ Alternates(inbox[w]) /\ sound[w] \subseteq DOMAIN view[w]
        /\ pc[w] # "ready" => view[w] = << >> /\ sound[w] = {}
  BY <1>k DEF Knows
<1>2. CASE StartServer
  <2> DEFINE m == Owner(TRUE)
             K == Subscribed(Watcher)
  <2>1. inbox' = Sent({}, m, K, m) /\ up' = TRUE /\ UNCHANGED <<pc, view, sound>>
    BY <1>2, StartIs DEF StartServer
  <2>2. m \in Message
    BY MessagesMade DEF Message
  <2> HIDE DEF K
  <2>3. ASSUME NEW w \in Watcher
        PROVE  Knows(inbox'[w], pc[w], view[w], sound[w], TRUE, Told')
    <3>1. inbox'[w] = Then(inbox[w], w \in {}, m, w \in K, m)
      BY <1>c, <2>1, <2>2, SentIs
    <3>2. inbox'[w] = IF w \in K THEN Append(inbox[w], m) ELSE inbox[w]
      BY <3>1 DEF Then
    <3>3. CASE w \in K
      <4>1. pc[w] \notin {"out", "ended"}
        BY <3>3, WatchersSubscribe DEF K
      <4>2. inbox[w] \in Seq(Message)
        BY <1>c, <1>t
      <4>3. Knows(Append(inbox[w], m), pc[w], view[w], sound[w], TRUE, Told')
        BY <1>n, <4>1, <4>2, KnowsOwner
      <4>4. QED
        BY <3>2, <3>3, <4>3
    <3>4. CASE w \notin K
      <4>1. pc[w] \in {"out", "ended"}
        BY <3>4, WatchersSubscribe DEF K
      <4>2. inbox'[w] = << >> /\ view[w] = << >> /\ sound[w] = {} /\ pc[w] # "ready"
        BY <1>e, <3>2, <3>4, <4>1
      <4>3. QED
        BY <4>2, KnowsEmpty
    <3>5. QED
      BY <3>3, <3>4
  <2>4. QED
    BY <1>s, <2>1, <2>3
<1>3. CASE CrashServer
  <2> DEFINE x == Reply("NoReply")
             m == Owner(FALSE)
             J == {c \in Client : Waiting(c)}
             K == Subscribed(Watcher)
  <2>1. /\ inbox' = Sent(J, x, K, m) /\ up' = FALSE /\ UNCHANGED <<pc, view, sound>>
        /\ Told' = Told
    BY <1>3, CrashIs DEF CrashServer
  <2>2. m \in Message /\ x \in Message /\ x.msg = "reply"
    BY MessagesMade DEF Message, Answers, Results, Reply
  <2>3. \A w \in Watcher : w \in J => InCall(w)
    BY <1>c, CallerWaits DEF Waiting
  <2> HIDE DEF J, K, x
  <2>4. ASSUME NEW w \in Watcher
        PROVE  Knows(inbox'[w], pc[w], view[w], sound[w], FALSE, Told')
    <3> DEFINE r == IF w \in J THEN Append(inbox[w], x) ELSE inbox[w]
    <3>1. inbox'[w] = Then(inbox[w], w \in J, x, w \in K, m)
      BY <1>c, <2>1, <2>2, SentIs, ZenonT(60)
    <3>2. inbox'[w] = IF w \in K THEN Append(r, m) ELSE r
      BY <3>1 DEF Then
    <3>6. inbox[w] \in Seq(Message)
      BY <1>c, <1>t
    <3>3. CASE w \in K
      <4>1. pc[w] \notin {"out", "ended"}
        BY <3>3, WatchersSubscribe DEF K
      <4>2. r \in Seq(Message) /\ Alternates(r)
        <5>1. CASE w \in J
          <6>1. Append(inbox[w], x) \in Seq(Message)
            BY <2>2, <3>6, AppendProperties
          <6>2. Alternates(Append(inbox[w], x))
            BY <1>n, <2>2, <3>6, AlternatesAppend
          <6>3. QED
            BY <5>1, <6>1, <6>2
        <5>2. CASE w \notin J
          BY <1>n, <3>6, <5>2
        <5>3. QED
          BY <5>1, <5>2
      <4> HIDE DEF r
      <4>3. Knows(Append(r, m), pc[w], view[w], sound[w], FALSE, Told')
        BY <1>n, <4>1, <4>2, KnowsOwner
      <4>4. QED
        BY <3>2, <3>3, <4>3
    <3>4. CASE w \notin K
      <4>1. pc[w] \in {"out", "ended"}
        BY <3>4, WatchersSubscribe DEF K
      <4>3. w \notin J
        BY <2>3, <4>1, WatchersSubscribe
      <4>2. inbox'[w] = << >> /\ view[w] = << >> /\ sound[w] = {} /\ pc[w] # "ready"
        BY <1>e, <3>2, <3>4, <4>1, <4>3
      <4>4. QED
        BY <4>2, KnowsEmpty
    <3>5. QED
      BY <3>3, <3>4
  <2>5. QED
    BY <1>s, <2>1, <2>4
<1>4. QED
  BY <1>1, <1>2, <1>3


\* A step of a client reads and moves that client alone.
LEMMA WatchersClients ==
  ASSUME Types, Roles, Calls, WatcherInv,
         \/ \E w \in Watcher : WatcherStep(w)
         \/ \E c \in Caller : CallPoke(c) \/ ProxySetMood(c) \/ FinishCall(c)
         \/ \E p \in Prober : ProberStep(p)
  PROVE  WatcherInv'
<1>t. /\ inbox \in [Client -> Seq(Message)] /\ up \in BOOLEAN /\ pc \in [Client -> Place]
      /\ sound \in [Watcher -> SUBSET Animal] /\ view \in [Watcher -> {<< >>} \cup Objects]
  BY DEF Types
<1>c. Watcher \subseteq Client /\ Caller \subseteq Client /\ Prober \subseteq Client
  BY DEF Client
<1>d. \A w \in Watcher : w \notin Caller /\ w \notin Prober
  BY AnimalsAssumption
<1>k. \A w \in Watcher : Knows(inbox[w], pc[w], view[w], sound[w], up, Told)
  BY DEF WatcherInv
<1>u. up' = up /\ Told' = Told
  <2>1. UNCHANGED <<up, starts, mood, orig, idle>>
    BY ClientsLoop
  <2>2. QED
    BY <2>1 DEF Told, Announced
<1>s. ASSUME NEW d \in Client,
             \A w \in Watcher \ {d} : /\ inbox'[w] = inbox[w] /\ pc'[w] = pc[w]
                                      /\ view'[w] = view[w] /\ sound'[w] = sound[w],
             d \in Watcher => Knows(inbox'[d], pc'[d], view'[d], sound'[d], up, Told)
      PROVE  WatcherInv'
  <2>1. ASSUME NEW w \in Watcher
        PROVE  Knows(inbox'[w], pc'[w], view'[w], sound'[w], up', Told')
    <3>1. CASE w = d
      BY <1>s, <1>u, <3>1
    <3>2. CASE w # d
      <4>1. /\ inbox'[w] = inbox[w] /\ pc'[w] = pc[w]
            /\ view'[w] = view[w] /\ sound'[w] = sound[w]
        BY <1>s, <3>2
      <4>2. QED
        BY <1>k, <1>u, <4>1
    <3>3. QED
      BY <3>1, <3>2
  <2>2. QED
    BY <2>1 DEF WatcherInv
<1>p. ASSUME NEW d \in Client, NEW place, GoTo(d, place)
      PROVE  pc'[d] = place /\ \A w \in Client \ {d} : pc'[w] = pc[w]
  BY <1>p, <1>t DEF GoTo
<1>i. ASSUME NEW d \in Client, NEW x, inbox' = [inbox EXCEPT ![d] = x]
      PROVE  inbox'[d] = x /\ \A w \in Client \ {d} : inbox'[w] = inbox[w]
  BY <1>i, <1>t
<1>1. ASSUME NEW w \in Watcher, WatcherStep(w)  PROVE WatcherInv'
  <2> DEFINE s == inbox[w]
  <2>0. /\ w \in Client /\ s \in Seq(Message) /\ Knows(s, pc[w], view[w], sound[w], up, Told)
        /\ sound[w] \in SUBSET Animal /\ view[w] \in {<< >>} \cup Objects
    BY <1>c, <1>k, <1>t
  <2> HIDE DEF s
  <2>s. s = inbox[w]
    BY DEF s
  <2>1. CASE NewManager(w)
    <3>1. /\ pc[w] = "out" /\ GoTo(w, IF up THEN "found" ELSE "ready")
          /\ UNCHANGED <<inbox, view, sound>>
      BY <2>1 DEF NewManager
    <3>2. s = << >> /\ view[w] = << >> /\ sound[w] = {}
      BY <2>0, <3>1 DEF Knows
    <3>3. /\ pc'[w] = (IF up THEN "found" ELSE "ready")
          /\ \A x \in Client \ {w} : pc'[x] = pc[x]
      BY <1>p, <2>0, <3>1
    <3>4. Knows(<< >>, pc'[w], << >>, {}, up, Told)
      BY <3>3, KnowsEmpty
    <3>5. QED
      BY <1>c, <1>s, <2>0, <2>s, <3>1, <3>2, <3>3, <3>4
  <2>2. CASE AskObjects(w)
    <3> DEFINE r == Reply("ServiceUnknown")
               k == GetManagedObjects(w)
    <3>1. /\ pc[w] = "found" /\ GoTo(w, "asking") /\ Call(w, k)
          /\ UNCHANGED <<view, sound>>
      BY <2>2 DEF AskObjects
    <3>2. pc'[w] = "asking" /\ \A x \in Client \ {w} : pc'[x] = pc[x]
      BY <1>p, <2>0, <3>1
    <3>3. Knows(s, "asking", view[w], sound[w], up, Told)
      BY <2>0, <3>1, KnowsPlace
    <3>4. r \in Message /\ r.msg = "reply" /\ k \in Task
      BY MessagesMade, TasksMade DEF Message, Answers, Results, Reply
    <3> HIDE DEF r, k
    <3>5. IF up THEN inbox' = inbox
          ELSE inbox' = Sent({}, Reply("ServiceUnknown"), {w}, Reply("ServiceUnknown"))
      BY <2>0, <3>1, <3>4, CallIs
    <3>6. CASE up
      BY <1>s, <1>c, <2>0, <2>s, <3>1, <3>2, <3>3, <3>5, <3>6
    <3>7. CASE ~up
      <4>1. inbox' = Sent({}, r, {w}, r)
        BY <3>5, <3>7 DEF r
      <4>2. \A c \in Client : inbox'[c] = Then(inbox[c], c \in {}, r, c \in {w}, r)
        BY <3>4, <4>1, SentIs
      <4>3. inbox'[w] = Append(s, r) /\ \A x \in Client \ {w} : inbox'[x] = inbox[x]
        BY <2>0, <2>s, <4>2 DEF Then
      <4>4. Right(s, ViewIn(r), SoundIn(r), up, Told)
        BY <3>4, <3>7 DEF Right, ViewIn, SoundIn
      <4>5. Knows(Append(s, r), "asking", view[w], sound[w], up, Told)
        BY <1>t, <2>0, <3>3, <3>4, <4>4, KnowsQuiet
      <4>6. QED
        BY <1>s, <1>c, <2>0, <3>1, <3>2, <4>3, <4>5
    <3>8. QED
      BY <3>6, <3>7
  <2>3. CASE TakeObjects(w)
    <3>1. PICK i \in DOMAIN s :
            /\ s[i].msg \in {"objects", "reply"}
            /\ IF s[i].msg = "objects"
               THEN /\ view'  = [view EXCEPT ![w] = s[i].objects]
                    /\ sound' = [sound EXCEPT ![w] = s[i].sound]
                    /\ GoTo(w, "ready")
               ELSE /\ GoTo(w, AfterFailure(w))
                    /\ UNCHANGED <<view, sound>>
            /\ inbox' = [inbox EXCEPT ![w] =
                 IF pc'[w] = "ended" THEN << >> ELSE RemoveAt(@, i)]
      BY <2>3 DEF TakeObjects, s
    <3>2. pc[w] \in {"asking", "asking again"} /\ view[w] = << >> /\ sound[w] = {}
      <4>1. pc[w] \in {"asking", "asking again"}
        BY <2>3 DEF TakeObjects
      <4>2. QED
        BY <2>0, <4>1 DEF Knows
    <3> DEFINE m == s[i]
    <3>3. m.msg \in {"objects", "reply"} /\ IsAnswer(m)
      BY <3>1 DEF IsAnswer
    <3>4. Knows(RemoveAt(s, i), "ready", ViewIn(m), SoundIn(m), up, Told)
      BY <1>t, <2>0, <3>3, KnowsTake
    <3>5. /\ inbox'[w] = (IF pc'[w] = "ended" THEN << >> ELSE RemoveAt(s, i))
          /\ \A x \in Client \ {w} : inbox'[x] = inbox[x]
      BY <1>t, <2>0, <2>s, <3>1
    <3>6. CASE m.msg = "objects"
      <4>1. /\ view'[w] = ViewIn(m) /\ sound'[w] = SoundIn(m)
            /\ \A x \in Watcher \ {w} : view'[x] = view[x] /\ sound'[x] = sound[x]
        BY <1>t, <3>1, <3>6 DEF ViewIn, SoundIn
      <4>2. pc'[w] = "ready" /\ \A x \in Client \ {w} : pc'[x] = pc[x]
        BY <1>p, <2>0, <3>1, <3>6
      <4>3. inbox'[w] = RemoveAt(s, i)
        BY <3>5, <4>2
      <4>4. QED
        BY <1>s, <1>c, <2>0, <3>4, <3>5, <4>1, <4>2, <4>3
    <3>7. CASE m.msg # "objects"
      <4>1. UNCHANGED <<view, sound>> /\ GoTo(w, AfterFailure(w))
        BY <3>1, <3>7
      <4>2. pc'[w] = AfterFailure(w) /\ \A x \in Client \ {w} : pc'[x] = pc[x]
        BY <1>p, <2>0, <4>1
      <4>3. Knows(inbox'[w], pc'[w], << >>, {}, up, Told)
        <5>1. CASE pc[w] = "asking"
          <6>1. pc'[w] = "ended" /\ inbox'[w] = << >>
            BY <3>5, <4>2, <5>1 DEF AfterFailure
          <6>2. QED
            BY <6>1, KnowsEmpty
        <5>2. CASE pc[w] # "asking"
          <6>1. pc'[w] = "ready" /\ inbox'[w] = RemoveAt(s, i)
            BY <3>5, <4>2, <5>2 DEF AfterFailure
          <6>2. ViewIn(m) = << >> /\ SoundIn(m) = {}
            BY <3>7 DEF ViewIn, SoundIn
          <6>3. QED
            BY <3>4, <6>1, <6>2
        <5>3. QED
          BY <5>1, <5>2
      <4>4. QED
        BY <1>s, <1>c, <2>0, <3>2, <3>5, <4>1, <4>2, <4>3
    <3>8. QED
      BY <3>6, <3>7
  <2>4. CASE Deliver(w)
    <3> DEFINE m == Head(s)
               t == Tail(s)
               r == Reply("ServiceUnknown")
               next == Apply([view |-> view[w], sound |-> sound[w]], m)
               rest == [inbox EXCEPT ![w] = Tail(@)]
    <3>1. /\ pc[w] = "ready" /\ s # << >>
          /\ view'  = [view EXCEPT ![w] = next.view]
          /\ sound' = [sound EXCEPT ![w] = next.sound]
          /\ IF m = Owner(TRUE)
             THEN /\ GoTo(w, "asking again")
                  /\ IF up THEN inbox' = rest
                     ELSE inbox' = [rest EXCEPT ![w] = Append(@, r)]
             ELSE inbox' = rest /\ UNCHANGED pc
      BY <2>4, <2>s DEF Deliver, Cache
    <3>2. \A i \in DOMAIN s : ~IsAnswer(s[i])
      <4>1. ~InCall(w)
        BY <3>1 DEF InCall
      <4>2. Count(loop, CallsOf(w)) \in Nat /\ Count(s, Answers) \in Nat
        BY <2>0, CountZero DEF Types
      <4>3. Count(s, Answers) = 0
        BY <2>0, <2>s, <4>1, <4>2 DEF Calls
      <4>4. \A i \in DOMAIN s : s[i] \notin Answers
        BY <2>0, <4>3, CountZero
      <4>5. \A i \in DOMAIN s : s[i] \in Message
        BY <2>0, LenProperties
      <4>6. QED
        BY <4>4, <4>5, MessageKinds
    <3>3. /\ view'[w] = next.view /\ sound'[w] = next.sound
          /\ \A x \in Watcher \ {w} : view'[x] = view[x] /\ sound'[x] = sound[x]
      BY <1>t, <3>1
    <3>4. Knows(s, "ready", view[w], sound[w], up, Told)
      BY <2>0, <3>1
    <3>5. IF m = Owner(TRUE)
          THEN /\ next.view = << >> /\ next.sound = {}
               /\ Knows(t, "asking again", << >>, {}, up, Told)
          ELSE Knows(t, "ready", next.view, next.sound, up, Told)
      BY <1>t, <2>0, <3>1, <3>2, <3>4, KnowsDeliver, ZenonT(60)
    <3>6. /\ rest[w] = t /\ \A x \in Client \ {w} : rest[x] = inbox[x]
          /\ DOMAIN rest = Client
      BY <1>t, <2>0, <2>s
    <3>7. t \in Seq(Message)
      BY <2>0, <3>1, TailWithout
    <3>8. r \in Message /\ r.msg = "reply"
      BY MessagesMade DEF Message, Answers, Results, Reply
    <3> HIDE DEF m, t, r, next, rest
    <3>9. CASE m = Owner(TRUE)
      <4>1. pc'[w] = "asking again" /\ \A x \in Client \ {w} : pc'[x] = pc[x]
        BY <1>p, <2>0, <3>1, <3>9
      <4>2. /\ view'[w] = << >> /\ sound'[w] = {}
            /\ Knows(t, "asking again", << >>, {}, up, Told)
        BY <3>3, <3>5, <3>9
      <4>3. CASE up
        <5>1. inbox' = rest
          BY <3>1, <3>9, <4>3
        <5>2. Knows(inbox'[w], pc'[w], view'[w], sound'[w], up, Told)
          BY <3>6, <4>1, <4>2, <5>1
        <5>3. \A x \in Client \ {w} : inbox'[x] = inbox[x]
          BY <3>6, <5>1
        <5>4. QED
          BY <1>s, <1>c, <2>0, <3>3, <4>1, <5>2, <5>3
      <4>4. CASE ~up
        <5>1. inbox' = [rest EXCEPT ![w] = Append(@, r)]
          BY <3>1, <3>9, <4>4
        <5>2. inbox'[w] = Append(t, r) /\ \A x \in Client \ {w} : inbox'[x] = inbox[x]
          BY <2>0, <3>6, <5>1
        <5>3. Right(t, ViewIn(r), SoundIn(r), up, Told)
          BY <3>8, <4>4 DEF Right, ViewIn, SoundIn
        <5>4. Knows(Append(t, r), "asking again", << >>, {}, up, Told)
          <6>1. r.msg \notin {"owner", "changed"} /\ "asking again" \notin {"out", "ended"}
            BY <3>8
          <6>2. Knows(t, "asking again", << >>, {}, up, Told) /\ up \in BOOLEAN
            BY <1>t, <4>2
          <6>3. QED
            BY <3>7, <3>8, <5>3, <6>1, <6>2, KnowsQuiet
        <5>5. QED
          BY <1>s, <1>c, <2>0, <3>3, <4>1, <4>2, <5>2, <5>4
      <4>5. QED
        BY <4>3, <4>4
    <3>10. CASE m # Owner(TRUE)
      <4>1. inbox' = rest /\ pc' = pc
        BY <3>1, <3>10
      <4>2. Knows(t, "ready", view'[w], sound'[w], up, Told)
        BY <3>3, <3>5, <3>10
      <4>3. Knows(inbox'[w], pc'[w], view'[w], sound'[w], up, Told)
        BY <3>1, <3>6, <4>1, <4>2
      <4>4. \A x \in Client \ {w} : inbox'[x] = inbox[x]
        BY <3>6, <4>1
      <4>5. QED
        BY <1>s, <1>c, <2>0, <3>3, <4>1, <4>3, <4>4
    <3>11. QED
      BY <3>9, <3>10
  <2>5. QED
    BY <1>1, <2>1, <2>2, <2>3, <2>4 DEF WatcherStep
<1>2. ASSUME NEW c \in Caller, CallPoke(c) \/ ProxySetMood(c) \/ FinishCall(c)
      PROVE  WatcherInv'
  <2>0. c \in Client /\ c \notin Watcher
    BY <1>c, <1>d
  <2>1. UNCHANGED <<view, sound>> /\ \A w \in Client \ {c} : pc'[w] = pc[w]
    <3>1. UNCHANGED <<view, sound>> /\ (GoTo(c, "waiting") \/ GoTo(c, "ready"))
      BY <1>2 DEF CallPoke, ProxySetMood, FinishCall
    <3>2. QED
      BY <1>p, <2>0, <3>1
  <2>2. \A w \in Client \ {c} : inbox'[w] = inbox[w]
    <3>1. CASE CallPoke(c) \/ ProxySetMood(c)
      <4>1. PICK t \in CallsOf(c) : Call(c, t)
        BY <3>1, CallsMade DEF CallPoke, ProxySetMood
      <4>2. QED
        BY <2>0, <4>1, CallCounts
    <3>2. CASE FinishCall(c)
      <4>1. inbox' = [inbox EXCEPT ![c] = Tail(inbox[c])]
        BY <3>2 DEF FinishCall
      <4>2. QED
        BY <1>i, <2>0, <4>1
    <3>3. QED
      BY <1>2, <3>1, <3>2
  <2>3. QED
    BY <1>s, <1>c, <2>0, <2>1, <2>2
<1>3. ASSUME NEW p \in Prober, ProberStep(p)  PROVE WatcherInv'
  <2>0. p \in Client /\ p \notin Watcher
    BY <1>c, <1>d
  <2> DEFINE rest == [inbox EXCEPT ![p] = Tail(@)]
  <2>1. /\ UNCHANGED <<view, sound>> /\ \E place : GoTo(p, place)
        /\ \/ inbox' = inbox \/ inbox' = rest
           \/ inbox' = [rest EXCEPT ![p] = <<Reply("ServiceUnknown")>>]
    <3>1. CASE NewProxy(p)
      BY <3>1 DEF NewProxy
    <3>2. CASE SubscribeAndPoke(p)
      BY <3>2 DEF SubscribeAndPoke
    <3>3. CASE Receive(p)
      BY <3>3 DEF Receive
    <3>4. QED
      BY <1>3, <3>1, <3>2, <3>3 DEF ProberStep
  <2>2. \A w \in Client \ {p} : pc'[w] = pc[w]
    BY <1>p, <2>0, <2>1
  <2>3. \A w \in Client \ {p} : inbox'[w] = inbox[w]
    <3>1. DOMAIN rest = Client /\ \A w \in Client \ {p} : rest[w] = inbox[w]
      BY <1>t
    <3> HIDE DEF rest
    <3>2. QED
      BY <2>1, <3>1
  <2>4. QED
    BY <1>s, <1>c, <2>0, <2>1, <2>2, <2>3
<1>4. QED
  BY <1>1, <1>2, <1>3

-----------------------------------------------------------------------------
\* The invariant holds at the start, and every step keeps it.
LEMMA InvInit == Init => Inv
<1> SUFFICES ASSUME Init  PROVE Inv
  OBVIOUS
<1>1. Types
  BY TypesInit
<1>2. /\ up = FALSE /\ loop = << >>
      /\ \A c \in Client : inbox[c] = << >>
      /\ \A c \in Client : pc[c] = (IF c \in Caller THEN "ready" ELSE "out")
      /\ \A w \in Watcher : view[w] = << >> /\ sound[w] = {}
  BY DEF Init
<1>3. Watcher \subseteq Client /\ Caller \subseteq Client /\ Prober \subseteq Client
  BY DEF Client
<1>4. \A S : << >> \in Seq(S)
  BY EmptySeq
<1>5. \A T : Count(<< >>, T) = 0
  BY CountEmpty
<1>6. Roles
  <2>1. \A w \in Watcher : pc[w] = "out"
    BY <1>2, <1>3, AnimalsAssumption
  <2>2. \A c \in Caller : pc[c] = "ready" /\ inbox[c] \in Seq(Replies)
    BY <1>2, <1>3, <1>4
  <2>3. \A p \in Prober : pc[p] = "out" /\ inbox[p] \in Seq(Answers)
    BY <1>2, <1>3, <1>4, AnimalsAssumption
  <2>4. \A p \in Prober : Count(loop, GetAllsOf(p)) = 0
    BY <1>2, <1>5
  <2>5. QED
    BY <2>1, <2>2, <2>3, <2>4 DEF Roles
<1>7. Calls
  <2>1. \A c \in Client : ~InCall(c)
    BY <1>2 DEF InCall
  <2>2. \A c \in Client : Count(loop, CallsOf(c)) = 0 /\ Count(inbox[c], Answers) = 0
    BY <1>2, <1>5
  <2>3. QED
    BY <2>1, <2>2 DEF Calls
<1>8. Sources
  BY <1>2 DEF Sources
<1>9. WatcherInv
  <2>1. ASSUME NEW w \in Watcher
        PROVE  Knows(inbox[w], pc[w], view[w], sound[w], up, Told)
    <3>1. inbox[w] = << >> /\ view[w] = << >> /\ sound[w] = {}
      BY <1>2, <1>3
    <3>2. Knows(<< >>, pc[w], << >>, {}, up, Told)
      BY <1>2, KnowsEmpty
    <3>3. QED
      BY <3>1, <3>2
  <2>2. QED
    BY <2>1 DEF WatcherInv
<1>10. QED
  BY <1>1, <1>6, <1>7, <1>8, <1>9 DEF Inv

LEMMA InvNext == Inv /\ [Next]_vars => Inv'
<1> SUFFICES ASSUME Inv, [Next]_vars  PROVE Inv'
  OBVIOUS
<1>1. Types /\ Roles /\ Calls /\ Sources /\ WatcherInv
  BY DEF Inv
<1>2. CASE Next
  <2>1. Types' /\ Sources'
    BY <1>1, <1>2, TypesNext, SourcesNext
  <2>2. \/ Dispatch \/ StartServer \/ CrashServer
        \/ \E w \in Watcher : WatcherStep(w)
        \/ \E c \in Caller : CallPoke(c) \/ ProxySetMood(c) \/ FinishCall(c)
        \/ \E p \in Prober : ProberStep(p)
    BY <1>2 DEF Next
  <2>3. CASE Dispatch \/ StartServer \/ CrashServer
    <3>1. Roles' /\ Calls' /\ WatcherInv'
      BY <1>1, <2>3, RolesService, CallsService, WatchersService
    <3>2. QED
      BY <2>1, <3>1 DEF Inv
  <2>4. CASE \/ \E w \in Watcher : WatcherStep(w)
             \/ \E c \in Caller : CallPoke(c) \/ ProxySetMood(c) \/ FinishCall(c)
             \/ \E p \in Prober : ProberStep(p)
    <3>1. Roles' /\ Calls' /\ WatcherInv'
      BY <1>1, <2>4, RolesClients, CallsClients, WatchersClients
    <3>2. QED
      BY <2>1, <3>1 DEF Inv
  <2>5. QED
    BY <2>2, <2>3, <2>4
<1>3. CASE UNCHANGED vars
  <2>1. UNCHANGED <<up, starts, mood, orig, idle, loop, pc, inbox, view, sound, calls>>
    BY <1>3 DEF vars, serverVars
  <2>2. Types'
    BY <1>1, <2>1 DEF Types
  <2>3. Roles'
    BY <1>1, <2>1 DEF Roles
  <2>4. Calls'
    BY <1>1, <2>1 DEF Calls, InCall
  <2>5. Sources'
    BY <1>1, <2>1 DEF Sources
  <2>6. WatcherInv'
    BY <1>1, <2>1 DEF WatcherInv, Told, Announced
  <2>7. QED
    BY <2>2, <2>3, <2>4, <2>5, <2>6 DEF Inv
<1>4. QED
  BY <1>2, <1>3

LEMMA InvAlways == Spec => []Inv
  BY InvInit, InvNext, PTL DEF Spec

\* Every variable of the service, the bus and the clients has its type: a
\* watcher has the objects of a whole service or none, and has been told
\* only of objects that it has.
THEOREM AnimalsTypeCorrect == Spec => []AnimalsTypeOK
<1>1. Inv => AnimalsTypeOK
  <2> SUFFICES ASSUME Inv  PROVE AnimalsTypeOK
    OBVIOUS
  <2>1. Types /\ WatcherInv
    BY DEF Inv
  <2>2. ASSUME NEW w \in Watcher
        PROVE  DOMAIN view[w] \in {{}, Animal} /\ sound[w] \subseteq DOMAIN view[w]
    <3>1. view[w] \in {<< >>} \cup Objects
      BY <2>1 DEF Types
    <3>2. DOMAIN view[w] \in {{}, Animal}
      BY <3>1 DEF Objects
    <3>3. sound[w] \subseteq DOMAIN view[w]
      BY <2>1 DEF WatcherInv, Knows
    <3>4. QED
      BY <3>2, <3>3
  <2>3. DOMAIN inbox = Client
    BY <2>1 DEF Types
  <2>4. QED
    BY <2>1, <2>2, <2>3 DEF AnimalsTypeOK, Types, Place
<1>2. QED
  BY <1>1, InvAlways, PTL

\* Every call of every client, to a service that may end and start again, is
\* answered exactly once.
THEOREM AnsweredOnceCorrect == Spec => []AnsweredOnce
<1>1. Inv => AnsweredOnce
  <2> SUFFICES ASSUME Inv, NEW c \in Client
               PROVE  LET open    == {i \in DOMAIN loop : loop[i].task # "emit" /\ loop[i].from = c}
                          answers == {i \in DOMAIN inbox[c] : IsAnswer(inbox[c][i])}
                      IN  Cardinality(open) + Cardinality(answers) = IF InCall(c) THEN 1 ELSE 0
    BY DEF AnsweredOnce
  <2>1. Types /\ Calls
    BY DEF Inv
  <2>2. /\ \A i \in DOMAIN loop : loop[i] \in Task
        /\ \A i \in DOMAIN inbox[c] : inbox[c][i] \in Message
    BY <2>1, LenProperties DEF Types
  <2>3. Places(loop, CallsOf(c)) = {i \in DOMAIN loop : loop[i].task # "emit" /\ loop[i].from = c}
    BY <2>2 DEF Places, CallsOf
  <2>4. Places(inbox[c], Answers) = {i \in DOMAIN inbox[c] : IsAnswer(inbox[c][i])}
    BY <2>2, MessageKinds DEF Places
  <2>5. Count(loop, CallsOf(c)) + Count(inbox[c], Answers) = IF InCall(c) THEN 1 ELSE 0
    BY <2>1 DEF Calls
  <2>6. QED
    BY <2>3, <2>4, <2>5 DEF Count
<1>2. QED
  BY <1>1, InvAlways, PTL

\* What a watcher holds when it has read its messages is what the service
\* announced last, and what it has still to read ends with that.
THEOREM ViewFollowsServiceCorrect == Spec => []ViewFollowsService
<1>1. Inv => ViewFollowsService
  <2> SUFFICES ASSUME Inv, NEW w \in Watcher, pc[w] = "ready", ~NewsOfOwner(w)
               PROVE  /\ DOMAIN view[w] = IF up THEN Animal ELSE {}
                      /\ \A a \in DOMAIN view[w] :
                           /\ view[w][a].interfaces = Interfaces(a)
                           /\ \A i \in NewsOf(w, a) :
                                (\A j \in NewsOf(w, a) : j <= i) => inbox[w][i].mood = Announced(a)
                           /\ NewsOf(w, a) = {} /\ a \in sound[w] => view[w][a].mood = Announced(a)
    BY DEF ViewFollowsService
  <2> DEFINE s == inbox[w]
  <2>1. /\ Knows(s, "ready", view[w], sound[w], up, Told) /\ s \in Seq(Message)
        /\ view[w] \in {<< >>} \cup Objects
    BY DEF Inv, Types, WatcherInv, Client
  <2>2. Informed(s, up, Told) /\ Right(s, view[w], sound[w], up, Told)
    BY <2>1 DEF Knows
  <2>3. \A i \in DOMAIN s : s[i].msg # "owner"
    BY DEF NewsOfOwner
  <2>4. /\ DOMAIN view[w] = IF up THEN Animal ELSE {}
        /\ \A a \in sound[w] : (\A i \in DOMAIN s : ~IsChange(s[i], a)) =>
             view[w][a].mood = Told[a]
    BY <2>2, <2>3 DEF Right
  <2>5. ASSUME NEW a \in DOMAIN view[w]
        PROVE  /\ view[w][a].interfaces = Interfaces(a)
               /\ \A i \in NewsOf(w, a) :
                    (\A j \in NewsOf(w, a) : j <= i) => inbox[w][i].mood = Announced(a)
               /\ NewsOf(w, a) = {} /\ a \in sound[w] => view[w][a].mood = Announced(a)
    <3>0. view[w] # << >>
      BY <2>5
    <3>1. view[w] \in Objects /\ a \in Animal
      BY <2>1, <2>5, <3>0 DEF Objects
    <3>2. Told[a] = Announced(a)
      BY <3>1 DEF Told
    <3>3. view[w][a].interfaces = Interfaces(a)
      BY <3>1 DEF Objects
    <3>4. ASSUME NEW i \in NewsOf(w, a), \A j \in NewsOf(w, a) : j <= i
          PROVE  s[i].mood = Announced(a)
      <4>1. i \in DOMAIN s /\ s[i].msg = "changed" /\ s[i].animal = a
        BY DEF NewsOf, IsChange
      <4>2. \A j \in DOMAIN s : IsChange(s[j], a) => j \in NewsOf(w, a)
        BY DEF NewsOf
      <4>3. DOMAIN s = 1 .. Len(s) /\ Len(s) \in Nat
        BY <2>1, LenProperties
      <4>4. \A j \in DOMAIN s : j > i => ~IsChange(s[j], a)
        BY <3>4, <4>1, <4>2, <4>3
      <4>5. Newest(s, i, a)
        BY <2>3, <4>4 DEF Newest
      <4>6. QED
        BY <2>2, <3>2, <4>1, <4>5 DEF Informed
    <3>5. NewsOf(w, a) = {} /\ a \in sound[w] => view[w][a].mood = Announced(a)
      BY <2>4, <3>2 DEF NewsOf
    <3>6. QED
      BY <3>3, <3>4, <3>5
  <2>6. QED
    BY <2>4, <2>5
<1>2. QED
  BY <1>1, InvAlways, PTL

\* No watcher is sent the same mood of an animal twice running.
THEOREM ChangesAlternateCorrect == Spec => []ChangesAlternate
<1>1. Inv => ChangesAlternate
  <2> SUFFICES ASSUME Inv, NEW w \in Watcher, NEW i \in DOMAIN inbox[w], NEW j \in DOMAIN inbox[w],
                      i < j, inbox[w][i].msg = "changed", inbox[w][j].msg = "changed",
                      inbox[w][i].animal = inbox[w][j].animal
               PROVE  \/ inbox[w][i].mood # inbox[w][j].mood
                      \/ \E k \in i + 1 .. j - 1 :
                           \/ inbox[w][k].msg = "owner"
                           \/ inbox[w][k].msg = "changed" /\ inbox[w][k].animal = inbox[w][i].animal
    BY DEF ChangesAlternate
  <2> DEFINE s == inbox[w]
  <2>1. Knows(s, pc[w], view[w], sound[w], up, Told) /\ s \in Seq(Message)
    BY DEF Inv, Types, WatcherInv, Client
  <2>2. Alternates(s)
    BY <2>1 DEF Knows
  <2>3. DOMAIN s = 1 .. Len(s) /\ Len(s) \in Nat
    BY <2>1, LenProperties
  <2>4. \/ s[i].mood # s[j].mood
        \/ \E k \in DOMAIN s : /\ i < k /\ k < j
                               /\ s[k].msg = "owner" \/ IsChange(s[k], s[i].animal)
    BY <2>2 DEF Alternates, IsChange
  <2>5. \A k \in DOMAIN s : i < k /\ k < j => k \in i + 1 .. j - 1
    BY <2>3
  <2>6. QED
    BY <2>4, <2>5 DEF IsChange
<1>2. QED
  BY <1>1, InvAlways, PTL

\* A handler changes a mood only for the animal of a Poke that it answers
\* with success.
LEMMA DispatchMoods ==
  ASSUME Types, Dispatch, NEW a \in Animal, mood'[a] # mood[a]
  PROVE  /\ Head(loop).task = "poke" /\ Head(loop).animal = a
         /\ Last(inbox'[Head(loop).from]) = Reply("ok")
<1> DEFINE t == Head(loop)
<1>1. loop # << >> /\ t \in Task
  BY DispatchIs
<1>2. mood' # mood
  OBVIOUS
<1>3. \/ t.task = "poke" /\ OnAnimalPoke(t)
      \/ t.task = "set"  /\ SetProperty(t)
      \/ t.task \in {"managed", "getall"} /\ GetProperties(t)
      \/ t.task = "emit" /\ Emit(t.animal)
  BY DEF Dispatch
<1> HIDE DEF t
<1>4. t.task = "poke" /\ OnAnimalPoke(t)
  BY <1>2, <1>3 DEF SetProperty, MoodWritable, GetProperties, Emit
<1>5. t \in Pokes
  BY <1>1, <1>4, TaskKinds
<1>6. PICK x \in Results :
         /\ inbox' = Sent(IF x = "ok" /\ t.happy THEN Hearers(t.animal) ELSE {},
                          Jumped(t.animal), {t.from}, Reply(x))
         /\ IF x = "ok" THEN SetMood(t.animal, IF t.sad THEN "Sad" ELSE "Happy")
            ELSE loop' = Tail(loop) /\ UNCHANGED <<mood, orig, idle>>
  BY <1>1, <1>4, <1>5, PokeIs
<1>7. x = "ok"
  BY <1>2, <1>6
<1>8. t.animal \in Animal /\ t.from \in Client
  BY <1>5 DEF Pokes, Client
<1> DEFINE m == IF t.sad THEN "Sad" ELSE "Happy"
<1>9. m \in Moods
  BY DEF Moods
<1>10. SetMood(t.animal, m)
  BY <1>6, <1>7
<1> HIDE DEF m
<1>11. mood' = [mood EXCEPT ![t.animal] = m]
  BY <1>1, <1>8, <1>9, <1>10, SetMoodIs
<1>12. t.animal = a
  BY <1>11
<1> DEFINE J == IF x = "ok" /\ t.happy THEN Hearers(t.animal) ELSE {}
           K == {t.from}
           y == Reply("ok")
           s == inbox[t.from]
           r == IF t.from \in J THEN Append(s, Jumped(t.animal)) ELSE s
<1>13. y \in Message /\ Jumped(t.animal) \in Message /\ s \in Seq(Message)
  BY <1>8, MessagesMade DEF Message, Answers, Results, Types
<1>14. inbox' = Sent(J, Jumped(t.animal), K, y) /\ t.from \in K
  BY <1>6, <1>7
<1> HIDE DEF J, K, y
<1>15. inbox'[t.from] = Then(s, t.from \in J, Jumped(t.animal), t.from \in K, y)
  BY <1>8, <1>13, <1>14, SentIs
<1>16. inbox'[t.from] = Append(r, y)
  BY <1>14, <1>15 DEF Then
<1>17. r \in Seq(Message)
  BY <1>13, AppendProperties
<1> HIDE DEF r, s
<1>18. Append(r, y)[Len(r) + 1] = y /\ Len(Append(r, y)) = Len(r) + 1
  BY <1>13, <1>17, AppendProperties
<1>19. Last(inbox'[t.from]) = y
  BY <1>16, <1>18 DEF Last
<1>20. QED
  BY <1>4, <1>12, <1>19 DEF t, y

\* While the service runs, nothing but an answered Poke of an animal changes
\* its mood: no set_mood of a proxy does, and no announcement.
THEOREM MoodChangesByPokeCorrect == Spec => MoodChangesByPoke
<1> DEFINE A == \A a \in Animal : (starts' = starts /\ mood'[a] # mood[a]) =>
                  /\ Head(loop).task = "poke" /\ Head(loop).animal = a
                  /\ Last(inbox'[Head(loop).from]) = Reply("ok")
<1>1. ASSUME Inv, Next  PROVE A
  <2> SUFFICES ASSUME NEW a \in Animal, starts' = starts, mood'[a] # mood[a]
               PROVE  /\ Head(loop).task = "poke" /\ Head(loop).animal = a
                      /\ Last(inbox'[Head(loop).from]) = Reply("ok")
    OBVIOUS
  <2>1. Types
    BY <1>1 DEF Inv
  <2>2. ~StartServer
    BY <2>1 DEF StartServer, Types
  <2>3. CrashServer => mood' = mood
    BY DEF CrashServer
  <2>4. (\/ \E w \in Watcher : WatcherStep(w)
         \/ \E c \in Caller : CallPoke(c) \/ ProxySetMood(c) \/ FinishCall(c)
         \/ \E p \in Prober : ProberStep(p)) => mood' = mood
    BY <2>1, ClientsLoop
  <2>5. Dispatch
    BY <1>1, <2>2, <2>3, <2>4 DEF Next
  <2>6. QED
    BY <2>1, <2>5, DispatchMoods
<1>2. Inv /\ [Next]_vars => [A]_vars
  BY <1>1
<1>3. Spec => [][A]_vars
  BY <1>2, InvAlways, PTL DEF Spec
<1>4. QED
  BY <1>3 DEF MoodChangesByPoke
=============================================================================
