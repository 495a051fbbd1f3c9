----------------------------- MODULE Server_proofs -----------------------------
(***************************************************************************)
(* Theorems about the server process and its sessions, for every number of *)
(* connections and workers and every backlog.                              *)
(***************************************************************************)
EXTENDS Server, TLAPS, SequenceTheorems, FiniteSetTheorems, WellFoundedInduction

-----------------------------------------------------------------------------
(* The inductive invariant *)

\* Element x is in the sequence q, and no element is in it twice.
In(x, q) == \E i \in DOMAIN q : q[i] = x
Once(q)  == \A i, j \in DOMAIN q : q[i] = q[j] => i = j

\* A worker has the session of c.
Runs(c) == \E w \in Slots : running[w] = c

\* What the main thread's place says of the connection it holds and of the pool.
MainHolds ==
    /\ accepted # NoTask <=> mainPc \in {"create", "link", "submit"}
    /\ closed <=> mainPc \in {"drain", "stopped"}
    /\ mainPc = "stopped" => \A c \in Clients : ~Runs(c)

\* A connection is in one place at most: it waits in the kernel, the main thread
\* holds it, it waits in the pool's queue, or a worker has it, which is then
\* inside handle_client for it.  One that was not made yet is nowhere.
OnePlace ==
    \A c \in Clients :
        /\ peer[c] = "idle" \/ In(c, backlog) => c # accepted /\ ~Queued(c) /\ ~Runs(c)
        /\ peer[c] = "idle" => ~In(c, backlog)
        /\ c = accepted => ~Queued(c) /\ ~Runs(c)
        /\ Queued(c) => ~Runs(c)
        /\ stage[c] # "none" <=> Runs(c)

\* ... and no place holds it twice.
NoPlaceTwice ==
    /\ Once(backlog) /\ Once(pending)
    /\ \A v, w \in Slots : running[v] = running[w] => running[v] = NoTask \/ v = w

\* The next session number is greater than all that were given.
NumbersBelow == \A c \in Clients : sessionId[c] < nextSessionId

\* A session that is not listed yet has a number above those of the list.
NewestNumber ==
    mainPc = "link" =>
        \A i \in DOMAIN sessions : sessionId[sessions[i]] < sessionId[accepted]

Places == MainHolds /\ OnePlace /\ NoPlaceTwice

IInv == TypeOK /\ Places /\ SessionsAccounted /\ RegistryOrdered /\ NumbersBelow /\ NewestNumber

-----------------------------------------------------------------------------
(* Sequences *)

\* An element joins at the end of a queue.
LEMMA AppendIn ==
  ASSUME NEW S, NEW q \in Seq(S), NEW x \in S
  PROVE  /\ Append(q, x) \in Seq(S)
         /\ \A y : In(y, Append(q, x)) <=> In(y, q) \/ y = x
         /\ Once(q) /\ ~In(x, q) => Once(Append(q, x))
<1>. DEFINE r == Append(q, x)
<1>1. /\ r \in Seq(S) /\ DOMAIN q = 1 .. Len(q) /\ Len(q) \in Nat
      /\ DOMAIN r = 1 .. Len(q) + 1
      /\ \A i \in 1 .. Len(q) : r[i] = q[i]
      /\ r[Len(q) + 1] = x
  BY AppendProperties
<1>. HIDE DEF r
<1>2. ASSUME NEW y PROVE In(y, r) <=> In(y, q) \/ y = x
  BY <1>1 DEF In
<1>3. Once(q) /\ ~In(x, q) => Once(r)
  BY <1>1 DEF In, Once
<1>. QED
  BY <1>1, <1>2, <1>3 DEF r

\* The first element leaves a queue.
LEMMA TailIn ==
  ASSUME NEW S, NEW q \in Seq(S), q # <<>>
  PROVE  /\ Head(q) \in S /\ Tail(q) \in Seq(S) /\ In(Head(q), q)
         /\ \A y : In(y, Tail(q)) => In(y, q)
         /\ \A y : In(y, q) => In(y, Tail(q)) \/ y = Head(q)
         /\ Once(q) => Once(Tail(q)) /\ ~In(Head(q), Tail(q))
<1>. DEFINE r == Tail(q)
<1>1. /\ Head(q) \in S /\ r \in Seq(S) /\ DOMAIN q = 1 .. Len(q) /\ Len(q) \in Nat \ {0}
      /\ Head(q) = q[1] /\ DOMAIN r = 1 .. Len(q) - 1
      /\ \A i \in 1 .. Len(q) - 1 : r[i] = q[i + 1]
  BY HeadTailProperties, EmptySeq
<1>. HIDE DEF r
<1>2. In(Head(q), q)
  BY <1>1 DEF In
<1>3. ASSUME NEW y, In(y, r) PROVE In(y, q)
  <2>1. PICK i \in DOMAIN r : r[i] = y
    BY <1>3 DEF In
  <2>2. i + 1 \in DOMAIN q /\ q[i + 1] = y
    BY <2>1, <1>1
  <2>. QED
    BY <2>2 DEF In
<1>4. ASSUME NEW y, In(y, q), y # Head(q) PROVE In(y, r)
  <2>1. PICK i \in DOMAIN q : q[i] = y
    BY <1>4 DEF In
  <2>2. i - 1 \in DOMAIN r /\ r[i - 1] = y
    BY <2>1, <1>1, <1>4
  <2>. QED
    BY <2>2 DEF In
<1>5. ASSUME Once(q) PROVE Once(r) /\ ~In(Head(q), r)
  <2>1. \A i \in DOMAIN r : i + 1 \in DOMAIN q /\ r[i] = q[i + 1] /\ i \in Nat \ {0}
    BY <1>1
  <2>2. 1 \in DOMAIN q
    BY <1>1
  <2>3. Once(r)
    BY <1>5, <2>1 DEF Once
  <2>4. ~In(Head(q), r)
    BY <1>1, <1>5, <2>1, <2>2 DEF Once, In
  <2>. QED
    BY <2>3, <2>4
<1>. QED
  BY <1>1, <1>2, <1>3, <1>4, <1>5 DEF r

\* An element becomes the head of a list: a list on which f decreases still is
\* one if the value of f is greater at the new head.
Decreasing(q, f) == \A i, j \in DOMAIN q : i < j => f[q[i]] > f[q[j]]

LEMMA ConsIn ==
  ASSUME NEW S, NEW q \in Seq(S), NEW x \in S, NEW f
  PROVE  /\ Cons(x, q) \in Seq(S)
         /\ \A y : In(y, Cons(x, q)) <=> In(y, q) \/ y = x
         /\ Decreasing(q, f) /\ (\A y : In(y, q) => f[x] > f[y])
              => Decreasing(Cons(x, q), f)
<1>. DEFINE r == Cons(x, q)
<1>1. /\ <<x>> \in Seq(S) /\ Len(<<x>>) = 1 /\ <<x>>[1] = x
  OBVIOUS
<1>2. /\ r \in Seq(S) /\ Len(r) = Len(q) + 1
      /\ \A i \in 1 .. Len(q) + 1 : r[i] = IF i = 1 THEN x ELSE q[i - 1]
  BY <1>1, ConcatProperties DEF Cons
<1>. HIDE DEF r
<1>3. /\ DOMAIN r = 1 .. Len(q) + 1 /\ DOMAIN q = 1 .. Len(q) /\ Len(q) \in Nat
  BY <1>2
<1>4. r[1] = x /\ 1 \in DOMAIN r
  BY <1>2, <1>3
<1>5. \A i \in DOMAIN r : i # 1 => i - 1 \in DOMAIN q /\ r[i] = q[i - 1]
  BY <1>2, <1>3
<1>6. \A i \in DOMAIN q : i + 1 \in DOMAIN r /\ r[i + 1] = q[i]
  BY <1>2, <1>3
<1>7. ASSUME NEW y PROVE In(y, r) <=> In(y, q) \/ y = x
  BY <1>4, <1>5, <1>6 DEF In
<1>8. ASSUME Decreasing(q, f), \A y : In(y, q) => f[x] > f[y]
      PROVE  Decreasing(r, f)
  <2>1. SUFFICES ASSUME NEW i \in DOMAIN r, NEW j \in DOMAIN r, i < j
                 PROVE  f[r[i]] > f[r[j]]
    BY DEF Decreasing
  <2>2. j # 1 /\ i \in Nat /\ j \in Nat
    BY <1>3, <2>1
  <2>3. j - 1 \in DOMAIN q /\ r[j] = q[j - 1]
    BY <2>2, <1>5
  <2>4. CASE i = 1
    BY <2>3, <2>4, <1>4, <1>8 DEF In
  <2>5. CASE i # 1
    BY <2>1, <2>2, <2>3, <2>5, <1>5, <1>8, i - 1 < j - 1 DEF Decreasing
  <2>. QED
    BY <2>4, <2>5
<1>. QED
  BY <1>2, <1>7, <1>8 DEF r

\* A non-empty set of natural numbers has a smallest element.
LEMMA Smallest ==
  ASSUME NEW A \in SUBSET Nat, A # {}
  PROVE  \E m \in A : \A k \in A : m <= k
<1>1. PICK m \in A : \A k \in A : <<k, m>> \notin OpToRel(<, Nat)
  BY WFMin, NatLessThanWellFounded, Zenon
<1>2. \A k \in A : ~(k < m)
  BY <1>1, Zenon DEF OpToRel
<1>. QED
  BY <1>2

\* The first occurrence of an element has a number.
LEMMA FirstPosition ==
  ASSUME NEW q, Len(q) \in Nat, DOMAIN q = 1 .. Len(q), NEW x, In(x, q)
  PROVE  LET k == SelectInSeq(q, LAMBDA v : v = x)
         IN  k \in DOMAIN q /\ q[k] = x
<1>. DEFINE I == {i \in 1 .. Len(q) : q[i] = x}
<1>1. I # {} /\ I \in SUBSET Nat /\ I \in SUBSET DOMAIN q
  BY DEF In
<1>2. \E m \in I : \A k \in I : m <= k
  BY <1>1, Smallest
<1>3. Min(I) \in I
  BY <1>2, Zenon DEF Min
<1>4. SelectInSeq(q, LAMBDA v : v = x) = Min(I)
  BY <1>1 DEF SelectInSeq
<1>. QED
  BY <1>1, <1>3, <1>4

\* An element is taken out of a list that holds it once at most: the others
\* stay, in their order.
LEMMA RemoveIn ==
  ASSUME NEW S, NEW q \in Seq(S), Once(q), NEW x \in S, NEW f
  PROVE  /\ RemoveFirst(q, x) \in Seq(S)
         /\ \A y : In(y, RemoveFirst(q, x)) <=> In(y, q) /\ y # x
         /\ Decreasing(q, f) => Decreasing(RemoveFirst(q, x), f)
<1>1. DOMAIN q = 1 .. Len(q) /\ Len(q) \in Nat /\ \A i \in 1 .. Len(q) : q[i] \in S
  OBVIOUS
<1>2. CASE ~In(x, q)
  <2>1. RemoveFirst(q, x) = q
    BY <1>1, <1>2 DEF In, RemoveFirst
  <2>. QED
    BY <2>1, <1>2
<1>3. CASE In(x, q)
  <2>. DEFINE p == SelectInSeq(q, LAMBDA v : v = x)
              a == SubSeq(q, 1, p - 1)
              b == SubSeq(q, p + 1, Len(q))
              r == RemoveFirst(q, x)
  <2>1. p \in DOMAIN q /\ q[p] = x
    BY <1>1, <1>3, FirstPosition
  <2>2. r = a \o b
    BY <1>1, <1>3 DEF RemoveFirst, RemoveAt, In
  <2>. HIDE DEF p
  <2>3. /\ a \in Seq(S) /\ Len(a) = p - 1
        /\ \A i \in 1 .. p - 1 : a[i] = q[i]
    <3>1. \A i \in 1 .. p - 1 : q[i] \in S
      BY <1>1, <2>1
    <3>2. /\ a \in Seq(S) /\ Len(a) = IF 1 <= p - 1 THEN p - 1 - 1 + 1 ELSE 0
          /\ \A i \in 1 .. p - 1 - 1 + 1 : a[i] = q[1 + i - 1]
      BY <1>1, <2>1, <3>1, SubSeqProperties
    <3>. HIDE DEF a
    <3>. QED
      BY <1>1, <2>1, <3>2
  <2>4. /\ b \in Seq(S) /\ Len(b) = Len(q) - p
        /\ \A i \in 1 .. Len(q) - p : b[i] = q[p + i]
    <3>1. \A i \in p + 1 .. Len(q) : q[i] \in S
      BY <1>1, <2>1
    <3>2. /\ b \in Seq(S) /\ Len(b) = IF p + 1 <= Len(q) THEN Len(q) - (p + 1) + 1 ELSE 0
          /\ \A i \in 1 .. Len(q) - (p + 1) + 1 : b[i] = q[p + 1 + i - 1]
      BY <1>1, <2>1, <3>1, SubSeqProperties
    <3>. HIDE DEF b
    <3>3. ASSUME NEW i \in 1 .. Len(q) - p PROVE b[i] = q[p + i]
      BY <1>1, <2>1, <3>2, p + 1 + i - 1 = p + i, i \in 1 .. Len(q) - (p + 1) + 1
    <3>. QED
      BY <1>1, <2>1, <3>2, <3>3
  <2>. HIDE DEF a, b, r
  <2>5. /\ r \in Seq(S) /\ DOMAIN r = 1 .. Len(q) - 1
        /\ \A i \in 1 .. Len(q) - 1 : r[i] = IF i < p THEN q[i] ELSE q[i + 1]
    <3>1. /\ r \in Seq(S) /\ Len(r) = Len(a) + Len(b)
          /\ \A i \in 1 .. Len(a) + Len(b) :
                r[i] = IF i <= Len(a) THEN a[i] ELSE b[i - Len(a)]
      BY <2>2, <2>3, <2>4, ConcatProperties
    <3>2. Len(r) = Len(q) - 1 /\ DOMAIN r = 1 .. Len(q) - 1
      BY <3>1, <2>1, <2>3, <2>4, <1>1
    <3>3. ASSUME NEW i \in 1 .. Len(q) - 1 PROVE r[i] = IF i < p THEN q[i] ELSE q[i + 1]
      <4>1. CASE i < p
        BY <1>1, <2>1, <2>3, <2>4, <3>1, <4>1
      <4>2. CASE ~(i < p)
        <5>1. r[i] = b[i - (p - 1)]
          BY <1>1, <2>1, <2>3, <2>4, <3>1, <4>2
        <5>2. i - (p - 1) \in 1 .. Len(q) - p /\ p + (i - (p - 1)) = i + 1
          BY <1>1, <2>1, <4>2
        <5>. QED
          BY <2>4, <4>2, <5>1, <5>2
      <4>. QED
        BY <4>1, <4>2
    <3>. QED
      BY <3>1, <3>2, <3>3
  <2>. DEFINE from(i) == IF i < p THEN i ELSE i + 1
  <2>6. \A i \in DOMAIN r : from(i) \in DOMAIN q /\ from(i) # p /\ r[i] = q[from(i)]
    BY <1>1, <2>1, <2>5
  <2>7. \A i, j \in DOMAIN r : i < j => from(i) < from(j)
    BY <1>1, <2>1, <2>5
  <2>8. \A k \in DOMAIN q : k # p => \E i \in DOMAIN r : from(i) = k
    <3>1. ASSUME NEW k \in DOMAIN q, k # p
          PROVE  \E i \in DOMAIN r : from(i) = k
      <4>1. CASE k < p
        BY <1>1, <2>1, <2>5, <3>1, <4>1, k \in DOMAIN r
      <4>2. CASE ~(k < p)
        BY <1>1, <2>1, <2>5, <3>1, <4>2, k - 1 \in DOMAIN r
      <4>. QED
        BY <4>1, <4>2
    <3>. QED
      BY <3>1
  <2>. HIDE DEF from
  <2>9. ASSUME NEW y PROVE In(y, r) <=> In(y, q) /\ y # x
    <3>1. \A k \in DOMAIN q : q[k] = x => k = p
      BY <2>1 DEF Once
    <3>. QED
      BY <2>1, <2>6, <2>8, <3>1 DEF In
  <2>10. Decreasing(q, f) => Decreasing(r, f)
    BY <2>6, <2>7 DEF Decreasing
  <2>. QED
    BY <2>5, <2>9, <2>10 DEF r
<1>. QED
  BY <1>2, <1>3

-----------------------------------------------------------------------------
(* session.c *)

\* Every client's session is in the registry if and only if somebody owns it,
\* and the open descriptors are those of the sessions and of the connection
\* that has no session yet.
Registered == \A c \in Clients : In(c, sessions) <=> Owned(c)
OpenOnes   ==
    sockets = {c \in Clients : Owned(c) \/ (c = accepted /\ mainPc \in {"create", "link"})}

LEMMA AccountedParts ==
  SessionsAccounted <=> (mainPc # "stopped" => Registered /\ OpenOnes)
BY DEF SessionsAccounted, Registered, OpenOnes, In

\* No session is listed twice, as the numbers decrease from the head on.
LEMMA ListedOnce ==
  ASSUME TypeOK, RegistryOrdered
  PROVE  Once(sessions)
<1>1. SUFFICES ASSUME NEW i \in DOMAIN sessions, NEW j \in DOMAIN sessions,
                      sessions[i] = sessions[j], i < j
               PROVE  FALSE
  <2>1. \A i, j \in DOMAIN sessions : i = j \/ i < j \/ j < i
    BY DEF TypeOK
  <2>. QED
    BY <1>1, <2>1 DEF Once
<1>2. sessions[i] \in Clients /\ sessionId[sessions[i]] \in Nat
  BY DEF TypeOK
<1>. QED
  BY <1>1, <1>2 DEF RegistryOrdered

\* session_create draws the greatest number of all ...
LEMMA NumberIsGreatest ==
  ASSUME TypeOK, RegistryOrdered, NumbersBelow, NEW c \in Clients,
         ~In(c, sessions), GenerateSessionId(c), sessions' = sessions
  PROVE  /\ sessionId' \in [Clients -> Nat] /\ nextSessionId' \in Nat
         /\ RegistryOrdered' /\ NumbersBelow'
         /\ \A i \in DOMAIN sessions : sessionId'[sessions[i]] < sessionId'[c]
<1>1. /\ sessionId' \in [Clients -> Nat] /\ nextSessionId' = nextSessionId + 1
      /\ nextSessionId' \in Nat
      /\ sessionId'[c] = nextSessionId /\ nextSessionId \in Nat
      /\ \A d \in Clients : d # c => sessionId'[d] = sessionId[d]
  BY DEF TypeOK, GenerateSessionId
<1>2. \A d \in Clients : sessionId[d] \in Nat /\ sessionId[d] < nextSessionId
  BY DEF TypeOK, NumbersBelow
<1>3. NumbersBelow'
  BY <1>1, <1>2 DEF NumbersBelow
<1>4. \A i \in DOMAIN sessions : sessions[i] \in Clients /\ sessions[i] # c
  BY DEF In, TypeOK
<1>5. \A i \in DOMAIN sessions : sessionId'[sessions[i]] = sessionId[sessions[i]]
  BY <1>1, <1>4
<1>6. RegistryOrdered'
  BY <1>5 DEF RegistryOrdered
<1>7. \A i \in DOMAIN sessions : sessionId'[sessions[i]] < sessionId'[c]
  BY <1>1, <1>2, <1>4, <1>5
<1>. QED
  BY <1>1, <1>3, <1>6, <1>7

\* ... and registers the session under it.
LEMMA LinkRegisters ==
  ASSUME TypeOK, RegistryOrdered, NEW c \in Clients,
         \A i \in DOMAIN sessions : sessionId[sessions[i]] < sessionId[c],
         sessions' = Cons(c, sessions), sessionId' = sessionId
  PROVE  /\ sessions' \in Seq(Clients) /\ RegistryOrdered'
         /\ \A d : In(d, sessions') <=> In(d, sessions) \/ d = c
<1>1. sessions \in Seq(Clients) /\ Decreasing(sessions, sessionId)
  BY DEF TypeOK, Decreasing, RegistryOrdered
<1>2. \A d : In(d, sessions) => sessionId[c] > sessionId[d]
  <2>1. \A i \in DOMAIN sessions : sessionId[sessions[i]] \in Nat /\ sessionId[c] \in Nat
    BY DEF TypeOK
  <2>. QED
    BY <2>1 DEF In
<1>3. Decreasing(Cons(c, sessions), sessionId)
  BY <1>1, <1>2, ConsIn
<1>4. RegistryOrdered'
  BY <1>3 DEF Decreasing, RegistryOrdered
<1>5. sessions' \in Seq(Clients) /\ \A d : In(d, sessions') <=> In(d, sessions) \/ d = c
  BY <1>1, ConsIn
<1>. QED
  BY <1>4, <1>5

\* session_destroy takes one session out and closes its descriptor.
LEMMA DestroyUnregisters ==
  ASSUME TypeOK, RegistryOrdered, NumbersBelow, NEW c \in Clients, SessionDestroy(c)
  PROVE  /\ sessions' \in Seq(Clients) /\ sessionId' \in [Clients -> Nat]
         /\ nextSessionId' \in Nat /\ auth' \in [Clients -> BOOLEAN]
         /\ RegistryOrdered' /\ NumbersBelow'
         /\ \A d \in Clients : In(d, sessions') <=> In(d, sessions) /\ d # c
         /\ sockets' = sockets \ {c}
         /\ (mainPc' = "link" => mainPc = "link" /\ accepted' = accepted /\ accepted \in Clients \ {c})
              /\ NewestNumber => NewestNumber'
<1>1. /\ sessionId' \in [Clients -> Nat] /\ nextSessionId' = nextSessionId
      /\ nextSessionId \in Nat /\ auth' \in [Clients -> BOOLEAN]
      /\ sessionId'[c] = 0
      /\ \A d \in Clients : d # c => sessionId'[d] = sessionId[d]
      /\ sockets' = sockets \ {c}
  BY DEF TypeOK, SessionDestroy
<1>2. \A d \in Clients : sessionId[d] \in Nat /\ sessionId[d] < nextSessionId
  BY DEF TypeOK, NumbersBelow
<1>3. NumbersBelow'
  BY <1>1, <1>2 DEF NumbersBelow
<1>4. /\ sessions \in Seq(Clients) /\ sessions' = RemoveFirst(sessions, c)
      /\ Decreasing(sessions, sessionId)
  BY DEF TypeOK, SessionDestroy, Decreasing, RegistryOrdered
<1>5. /\ sessions' \in Seq(Clients)
      /\ \A d : In(d, sessions') <=> In(d, sessions) /\ d # c
      /\ Decreasing(sessions', sessionId)
  BY <1>4, ListedOnce, RemoveIn
<1>6. \A i \in DOMAIN sessions' : sessionId'[sessions'[i]] = sessionId[sessions'[i]]
  <2>1. \A i \in DOMAIN sessions' : In(sessions'[i], sessions') /\ sessions'[i] \in Clients
    BY <1>5 DEF In
  <2>. QED
    BY <2>1, <1>1, <1>5
<1>7. RegistryOrdered'
  BY <1>5, <1>6 DEF Decreasing, RegistryOrdered
<1>8. ASSUME mainPc = "link", accepted' = accepted, accepted \in Clients \ {c}, NewestNumber
      PROVE  NewestNumber'
  <2>1. sessionId'[accepted] = sessionId[accepted]
    BY <1>1, <1>8
  <2>2. \A i \in DOMAIN sessions' : In(sessions'[i], sessions)
    <3>1. \A i \in DOMAIN sessions' : In(sessions'[i], sessions') /\ sessions'[i] \in Clients
      BY <1>5 DEF In
    <3>. QED
      BY <1>5, <3>1
  <2>3. \A d : In(d, sessions) => sessionId[d] < sessionId[accepted]
    BY <1>8 DEF NewestNumber, In
  <2>. QED
    BY <1>6, <1>8, <2>1, <2>2, <2>3 DEF NewestNumber
<1>. QED
  BY <1>1, <1>3, <1>5, <1>7, <1>8 DEF NewestNumber

-----------------------------------------------------------------------------
(* Steps that leave every connection in its place *)

Registry == SessionsAccounted /\ RegistryOrdered /\ NumbersBelow /\ NewestNumber

\* A step that moves no connection and changes no session's number keeps the
\* invariant, if it lets nobody into or out of handle_client.
LEMMA Quiet ==
  ASSUME IInv,
         UNCHANGED <<pending, running, closed, accepted, backlog, registryVars>>,
         \A c \in Clients : peer'[c] = "idle" => peer[c] = "idle",
         \A c \in Clients : stage'[c] = "none" <=> stage[c] = "none",
         \A c \in Clients : stage'[c] = "freed" <=> stage[c] = "freed",
         mainPc' = mainPc \/ {mainPc, mainPc'} \subseteq {"check", "call", "accept", "close"}
  PROVE  Places' /\ Registry'
<1>1. /\ \A c \in Clients : Queued(c)' = Queued(c)
      /\ \A c \in Clients : Runs(c)' = Runs(c)
      /\ \A c \in Clients : In(c, backlog)' = In(c, backlog)
      /\ \A c \in Clients : In(c, sessions)' = In(c, sessions)
  BY DEF Queued, Runs, In, registryVars
<1>2. MainHolds'
  BY <1>1 DEF IInv, Places, MainHolds
<1>3. OnePlace'
  BY <1>1 DEF IInv, Places, OnePlace
<1>4. NoPlaceTwice'
  BY DEF IInv, Places, NoPlaceTwice, Once
<1>5. ASSUME NEW c \in Clients
      PROVE  /\ Owned(c)' = Owned(c)
             /\ (c = accepted /\ mainPc \in {"create", "link"})'
                  = (c = accepted /\ mainPc \in {"create", "link"})
  BY <1>1 DEF Owned
<1>6. SessionsAccounted'
  <2>1. (mainPc' = "stopped") = (mainPc = "stopped")
    OBVIOUS
  <2>2. Registered => Registered'
    BY <1>1, <1>5 DEF Registered
  <2>3. OpenOnes => OpenOnes'
    BY <1>5 DEF OpenOnes, registryVars
  <2>4. (SessionsAccounted <=> (mainPc # "stopped" => Registered /\ OpenOnes))'
    BY AccountedParts, PTL
  <2>. QED
    BY <2>1, <2>2, <2>3, <2>4, AccountedParts DEF IInv
<1>7. RegistryOrdered' /\ NumbersBelow' /\ NewestNumber'
  BY DEF IInv, RegistryOrdered, NumbersBelow, NewestNumber, registryVars
<1>. QED
  BY <1>2, <1>3, <1>4, <1>6, <1>7 DEF Places, Registry

\* The client closes its connection.
LEMMA DepartKeeps ==
  ASSUME IInv, NEW c \in Clients, Depart(c)
  PROVE  IInv'
<1>1. TypeOK'
  BY DEF IInv, TypeOK, Depart, tqVars, mainVars, registryVars, handlerVars
<1>2. Places' /\ Registry'
  BY Quiet DEF IInv, TypeOK, Depart, tqVars, mainVars, handlerVars
<1>. QED
  BY <1>1, <1>2 DEF IInv, Registry

\* The main loop goes round.
LEMMA LoopKeeps ==
  ASSUME IInv, CheckRunning \/ CallAccept \/ AcceptFails
  PROVE  IInv'
<1>1. TypeOK'
  BY DEF IInv, TypeOK, CheckRunning, CallAccept, AcceptFails, tqVars, networkVars, registryVars, handlerVars
<1>2. Places' /\ Registry'
  BY Quiet DEF CheckRunning, CallAccept, AcceptFails, tqVars, networkVars, handlerVars
<1>. QED
  BY <1>1, <1>2 DEF IInv, Registry

\* A signal: the main thread or one worker falls out of its system call.
LEMMA SignalKeeps ==
  ASSUME IInv, SignalHandler
  PROVE  IInv'
<1>1. /\ signalled' = TRUE /\ keepRunning' = FALSE
      /\ UNCHANGED <<tqVars, accepted, networkVars, registryVars, auth>>
  BY DEF SignalHandler
<1>2. \/ mainPc' = mainPc
      \/ mainPc = "accept" /\ mainPc' = "check"
  BY DEF SignalHandler
<1>3. \/ stage' = stage
      \/ \E c \in Clients : stage[c] = "recv" /\ stage' = [stage EXCEPT ![c] = "destroy"]
  <2>1. CASE UNCHANGED stage
    BY <2>1
  <2>2. ASSUME NEW s \in Slots,
               stage' = [c \in Clients |->
                    IF c = running[s] /\ stage[c] = "recv" THEN "destroy" ELSE stage[c]]
        PROVE  \/ stage' = stage
               \/ \E c \in Clients : stage[c] = "recv" /\ stage' = [stage EXCEPT ![c] = "destroy"]
    <3>1. CASE running[s] \in Clients /\ stage[running[s]] = "recv"
      <4>. PICK c \in Clients : c = running[s]
        BY <3>1
      <4>1. stage \in [Clients -> {"none", "loop", "recv", "destroy", "freed"}]
        BY DEF IInv, TypeOK
      <4>2. stage' = [d \in Clients |-> IF d = c THEN "destroy" ELSE stage[d]]
        BY <2>2, <3>1
      <4>3. stage' = [stage EXCEPT ![c] = "destroy"]
        BY <4>1, <4>2
      <4>. QED
        BY <3>1, <4>3
    <3>2. CASE ~(running[s] \in Clients /\ stage[running[s]] = "recv")
      BY <2>2, <3>2 DEF IInv, TypeOK
    <3>. QED
      BY <3>1, <3>2
  <2>. QED
    BY <2>1, <2>2 DEF SignalHandler
<1>4. TypeOK'
  <2>1. mainPc' \in {"check", "call", "accept", "create", "link", "submit",
                     "close", "destroy", "drain", "stopped"}
    BY <1>2 DEF IInv, TypeOK
  <2>2. stage' \in [Clients -> {"none", "loop", "recv", "destroy", "freed"}]
    BY <1>3 DEF IInv, TypeOK
  <2>. QED
    BY <1>1, <2>1, <2>2 DEF IInv, TypeOK, tqVars, networkVars, registryVars
<1>5. /\ \A c \in Clients : stage'[c] = "none" <=> stage[c] = "none"
      /\ \A c \in Clients : stage'[c] = "freed" <=> stage[c] = "freed"
  BY <1>3 DEF IInv, TypeOK
<1>6. Places' /\ Registry'
  BY <1>1, <1>2, <1>5, Quiet DEF tqVars, networkVars
<1>. QED
  BY <1>4, <1>6 DEF IInv, Registry

\* The loop of handle_client, up to the end of the session.
LEMMA HandlerKeeps ==
  ASSUME IInv, NEW c \in Clients,
         LoopTest(c) \/ RecvFails(c) \/ LoginRequest(c) \/ LogoutRequest(c) \/ OtherRequest(c)
  PROVE  IInv'
<1>1. /\ stage[c] \in {"loop", "recv"}
      /\ \E t \in {"loop", "recv", "destroy"} : stage' = [stage EXCEPT ![c] = t]
      /\ UNCHANGED <<tqVars, mainVars, networkVars, registryVars>>
  BY DEF LoopTest, RecvFails, LoginRequest, LogoutRequest, OtherRequest, Request
<1>2. auth' \in [Clients -> BOOLEAN]
  <2>1. auth' = auth \/ \E a \in BOOLEAN : auth' = [auth EXCEPT ![c] = a]
    BY DEF IInv, TypeOK, LoopTest, RecvFails, LoginRequest, LogoutRequest, OtherRequest, Request
  <2>. QED
    BY <2>1 DEF IInv, TypeOK
<1>3. /\ stage' \in [Clients -> {"none", "loop", "recv", "destroy", "freed"}]
      /\ \A d \in Clients : stage'[d] = "none" <=> stage[d] = "none"
      /\ \A d \in Clients : stage'[d] = "freed" <=> stage[d] = "freed"
  BY <1>1 DEF IInv, TypeOK
<1>4. TypeOK'
  BY <1>1, <1>2, <1>3 DEF IInv, TypeOK, tqVars, mainVars, networkVars, registryVars
<1>5. Places' /\ Registry'
  BY <1>1, <1>3, Quiet DEF tqVars, mainVars, networkVars
<1>. QED
  BY <1>4, <1>5 DEF IInv, Registry

-----------------------------------------------------------------------------
(* Steps that move a connection *)

\* A place that does not change holds what it held.
LEMMA SamePlaces ==
  ASSUME NEW c
  PROVE  /\ UNCHANGED pending => (Queued(c)' <=> Queued(c))
         /\ UNCHANGED running => (Runs(c)' <=> Runs(c))
         /\ UNCHANGED backlog => (In(c, backlog)' <=> In(c, backlog))
         /\ UNCHANGED sessions => (In(c, sessions)' <=> In(c, sessions))
BY DEF Queued, Runs, In

LEMMA AccountedNext ==
  (SessionsAccounted <=> (mainPc # "stopped" => Registered /\ OpenOnes))'
BY AccountedParts, PTL

\* Who owns a session, by its place.
LEMMA OwnedParts ==
  ASSUME NEW CONSTANT c
  PROVE  Owned(c) <=> \/ c = accepted /\ mainPc = "submit"
                      \/ Queued(c)
                      \/ Runs(c) /\ stage[c] # "freed"
BY DEF Owned, Runs

LEMMA OwnedNext ==
  ASSUME NEW CONSTANT c
  PROVE  (Owned(c) <=> \/ c = accepted /\ mainPc = "submit"
                       \/ Queued(c)
                       \/ Runs(c) /\ stage[c] # "freed")'
BY OwnedParts, PTL

\* Numbers and order depend on the registry alone.
LEMMA SameNumbers ==
  ASSUME RegistryOrdered, NumbersBelow, NewestNumber,
         UNCHANGED <<sessions, sessionId, nextSessionId>>,
         mainPc' = "link" => UNCHANGED <<mainPc, accepted>>
  PROVE  RegistryOrdered' /\ NumbersBelow' /\ NewestNumber'
BY DEF RegistryOrdered, NumbersBelow, NewestNumber

\* A connection comes into the kernel's queue.
LEMMA ConnectKeeps ==
  ASSUME IInv, NEW c \in Clients, Connect(c)
  PROVE  IInv'
<1>. USE DEF tqVars, mainVars, registryVars, handlerVars
<1>1. /\ peer[c] = "idle" /\ peer' = [peer EXCEPT ![c] = "connected"]
      /\ backlog' = Append(backlog, c)
      /\ UNCHANGED <<tqVars, mainVars, registryVars, handlerVars>>
  BY DEF Connect
<1>2. ~In(c, backlog) /\ c # accepted /\ ~Queued(c) /\ ~Runs(c)
  BY <1>1 DEF IInv, Places, OnePlace
<1>3. /\ backlog' \in Seq(Clients) /\ Once(backlog)'
      /\ \A d : In(d, backlog)' <=> In(d, backlog) \/ d = c
  BY <1>1, <1>2, AppendIn DEF IInv, TypeOK, Places, NoPlaceTwice
<1>4. \A d : /\ Queued(d)' <=> Queued(d)
             /\ Runs(d)' <=> Runs(d)
             /\ In(d, sessions)' <=> In(d, sessions)
  BY <1>1, SamePlaces
<1>5. TypeOK'
  BY <1>1, <1>3 DEF IInv, TypeOK
<1>6. MainHolds'
  BY <1>1, <1>4 DEF IInv, Places, MainHolds
<1>7. OnePlace'
  BY <1>1, <1>2, <1>3, <1>4 DEF IInv, TypeOK, Places, OnePlace
<1>8. NoPlaceTwice'
  BY <1>1, <1>3 DEF IInv, Places, NoPlaceTwice, Once
<1>9. \A d : Owned(d)' <=> Owned(d)
  BY <1>1, <1>4 DEF Owned
<1>10. SessionsAccounted'
  BY <1>1, <1>4, <1>9, AccountedParts, AccountedNext DEF IInv, Registered, OpenOnes
<1>. QED
  BY <1>1, <1>5, <1>6, <1>7, <1>8, <1>10, SameNumbers DEF IInv, Places

\* accept(2) hands the oldest one to the main thread.
LEMMA AcceptKeeps ==
  ASSUME IInv, Accept
  PROVE  IInv'
<1>. USE DEF tqVars, mainVars, registryVars, handlerVars
<1>. PICK c : c = Head(backlog)
  OBVIOUS
<1>1. /\ mainPc = "accept" /\ backlog # <<>> /\ mainPc' = "create"
      /\ accepted' = c /\ backlog' = Tail(backlog) /\ sockets' = sockets \cup {c}
      /\ UNCHANGED <<tqVars, keepRunning, signalled, peer, sessions, sessionId, nextSessionId,
                     handlerVars>>
  BY DEF Accept
<1>2. /\ c \in Clients /\ backlog' \in Seq(Clients) /\ In(c, backlog)
      /\ \A d : In(d, backlog)' => In(d, backlog)
      /\ Once(backlog)' /\ ~In(c, backlog)'
  BY <1>1, TailIn DEF IInv, TypeOK, Places, NoPlaceTwice
<1>3. /\ accepted = NoTask /\ c # NoTask /\ ~closed
      /\ peer[c] # "idle" /\ ~Queued(c) /\ ~Runs(c)
  BY <1>1, <1>2, NoTaskAssumption DEF IInv, Places, MainHolds, OnePlace, Clients
<1>4. \A d : /\ Queued(d)' <=> Queued(d)
             /\ Runs(d)' <=> Runs(d)
             /\ In(d, sessions)' <=> In(d, sessions)
  BY <1>1, SamePlaces
<1>5. TypeOK'
  BY <1>1, <1>2 DEF IInv, TypeOK
<1>6. MainHolds'
  BY <1>1, <1>3 DEF IInv, Places, MainHolds
<1>7. OnePlace'
  BY <1>1, <1>2, <1>3, <1>4 DEF IInv, Places, OnePlace
<1>8. NoPlaceTwice'
  BY <1>1, <1>2 DEF IInv, Places, NoPlaceTwice, Once
<1>9. \A d : Owned(d)' <=> Owned(d)
  BY <1>1, <1>4 DEF Owned
<1>10. Registered' /\ OpenOnes'
  BY <1>1, <1>2, <1>4, <1>9, AccountedParts DEF IInv, Registered, OpenOnes
<1>. QED
  BY <1>1, <1>5, <1>6, <1>7, <1>8, <1>10, AccountedNext, SameNumbers DEF IInv, Places

\* The main thread makes the session and numbers it ...
LEMMA CreateSessionKeeps ==
  ASSUME IInv, CreateSession
  PROVE  IInv'
<1>. USE DEF tqVars, mainVars, networkVars
<1>1. /\ mainPc = "create" /\ mainPc' = "link" /\ GenerateSessionId(accepted)
      /\ auth' = [auth EXCEPT ![accepted] = FALSE]
      /\ UNCHANGED <<tqVars, accepted, keepRunning, signalled, networkVars, sessions, sockets, stage>>
  BY DEF CreateSession
<1>2. /\ accepted \in Clients /\ ~closed
      /\ ~Queued(accepted) /\ ~Runs(accepted)
  BY <1>1 DEF IInv, TypeOK, Places, MainHolds, OnePlace
<1>3. ~Owned(accepted)
  BY <1>1, <1>2 DEF Owned, Runs
<1>4. Registered /\ OpenOnes
  BY <1>1, AccountedParts DEF IInv
<1>5. ~In(accepted, sessions)
  BY <1>2, <1>3, <1>4 DEF Registered
<1>6. /\ sessionId' \in [Clients -> Nat] /\ nextSessionId' \in Nat
      /\ RegistryOrdered' /\ NumbersBelow'
      /\ \A i \in DOMAIN sessions : sessionId'[sessions[i]] < sessionId'[accepted]
  BY <1>1, <1>2, <1>5, NumberIsGreatest DEF IInv
<1>7. NewestNumber'
  BY <1>1, <1>6 DEF NewestNumber
<1>8. \A d : /\ Queued(d)' <=> Queued(d)
             /\ Runs(d)' <=> Runs(d)
             /\ In(d, backlog)' <=> In(d, backlog)
             /\ In(d, sessions)' <=> In(d, sessions)
  BY <1>1, SamePlaces
<1>9. TypeOK'
  BY <1>1, <1>6 DEF IInv, TypeOK
<1>10. MainHolds'
  BY <1>1, <1>8 DEF IInv, Places, MainHolds
<1>11. OnePlace'
  BY <1>1, <1>8 DEF IInv, Places, OnePlace
<1>12. NoPlaceTwice'
  BY <1>1 DEF IInv, Places, NoPlaceTwice, Once
<1>13. \A d : Owned(d)' <=> Owned(d)
  BY <1>1, <1>8 DEF Owned
<1>14. Registered' /\ OpenOnes'
  BY <1>1, <1>4, <1>8, <1>13 DEF Registered, OpenOnes
<1>. QED
  BY <1>6, <1>7, <1>9, <1>10, <1>11, <1>12, <1>14, AccountedNext DEF IInv, Places

\* ... and lists it ...
LEMMA LinkSessionKeeps ==
  ASSUME IInv, LinkSession
  PROVE  IInv'
<1>. USE DEF tqVars, mainVars, networkVars, handlerVars
<1>1. /\ mainPc = "link" /\ mainPc' = "submit" /\ sessions' = Cons(accepted, sessions)
      /\ UNCHANGED <<tqVars, accepted, keepRunning, signalled, networkVars, sessionId,
                     nextSessionId, sockets, handlerVars>>
  BY DEF LinkSession
<1>2. /\ accepted \in Clients /\ ~closed
      /\ ~Queued(accepted) /\ ~Runs(accepted)
  BY <1>1 DEF IInv, TypeOK, Places, MainHolds, OnePlace
<1>3. Registered /\ OpenOnes
  BY <1>1, AccountedParts DEF IInv
<1>4. /\ sessions' \in Seq(Clients) /\ RegistryOrdered'
      /\ \A d : In(d, sessions') <=> In(d, sessions) \/ d = accepted
  <2>1. \A i \in DOMAIN sessions : sessionId[sessions[i]] < sessionId[accepted]
    BY <1>1 DEF IInv, NewestNumber
  <2>. QED
    BY <1>1, <1>2, <2>1, LinkRegisters DEF IInv
<1>5. NumbersBelow' /\ NewestNumber'
  BY <1>1 DEF IInv, NumbersBelow, NewestNumber
<1>6. \A d : /\ Queued(d)' <=> Queued(d)
             /\ Runs(d)' <=> Runs(d)
             /\ In(d, backlog)' <=> In(d, backlog)
  BY <1>1, SamePlaces
<1>7. TypeOK'
  BY <1>1, <1>4 DEF IInv, TypeOK
<1>8. MainHolds'
  BY <1>1, <1>6 DEF IInv, Places, MainHolds
<1>9. OnePlace'
  BY <1>1, <1>6 DEF IInv, Places, OnePlace
<1>10. NoPlaceTwice'
  BY <1>1 DEF IInv, Places, NoPlaceTwice, Once
<1>11. \A d : Owned(d)' <=> Owned(d) \/ d = accepted
  BY <1>1, <1>6 DEF Owned
<1>12. Registered'
  BY <1>3, <1>4, <1>11 DEF Registered, In
<1>13. OpenOnes'
  BY <1>1, <1>2, <1>3, <1>11 DEF OpenOnes
<1>. QED
  BY <1>4, <1>5, <1>7, <1>8, <1>9, <1>10, <1>12, <1>13, AccountedNext DEF IInv, Places

\* ... or fails to make it, and closes the descriptor.
LEMMA CreateFailsKeeps ==
  ASSUME IInv, CreateFails
  PROVE  IInv'
<1>. USE DEF tqVars, mainVars, networkVars, handlerVars
<1>1. /\ mainPc = "create" /\ mainPc' = "check" /\ accepted' = NoTask
      /\ sockets' = sockets \ {accepted}
      /\ UNCHANGED <<tqVars, keepRunning, signalled, networkVars, sessions, sessionId,
                     nextSessionId, handlerVars>>
  BY DEF CreateFails
<1>2. /\ accepted \in Clients /\ ~closed /\ \A c \in Clients : c # NoTask
      /\ ~Queued(accepted) /\ ~Runs(accepted)
  BY <1>1, NoTaskAssumption DEF IInv, TypeOK, Places, MainHolds, OnePlace, Clients
<1>3. \A d : /\ Queued(d)' <=> Queued(d)
             /\ Runs(d)' <=> Runs(d)
             /\ In(d, backlog)' <=> In(d, backlog)
             /\ In(d, sessions)' <=> In(d, sessions)
  BY <1>1, SamePlaces
<1>4. TypeOK'
  BY <1>1 DEF IInv, TypeOK
<1>5. MainHolds'
  BY <1>1, <1>2, <1>3 DEF IInv, Places, MainHolds
<1>6. OnePlace'
  BY <1>1, <1>2, <1>3 DEF IInv, Places, OnePlace
<1>7. NoPlaceTwice'
  BY <1>1 DEF IInv, Places, NoPlaceTwice, Once
<1>8. /\ \A d : Owned(d)' <=> Owned(d)
      /\ ~Owned(accepted)
  BY <1>1, <1>2, <1>3 DEF Owned, Runs
<1>9. Registered' /\ OpenOnes'
  BY <1>1, <1>2, <1>3, <1>8, AccountedParts DEF IInv, Registered, OpenOnes
<1>. QED
  BY <1>1, <1>4, <1>5, <1>6, <1>7, <1>9, AccountedNext, SameNumbers DEF IInv, Places

\* The session goes to the pool's queue ...
LEMMA SubmitKeeps ==
  ASSUME IInv, Submit
  PROVE  IInv'
<1>. USE DEF networkVars, registryVars, handlerVars
<1>. PICK c : c = accepted
  OBVIOUS
<1>1. /\ mainPc = "submit" /\ mainPc' = "check" /\ accepted' = NoTask
      /\ pending' = Append(pending, c)
      /\ UNCHANGED <<running, finished, closed, keepRunning, signalled, networkVars,
                     registryVars, handlerVars>>
  BY DEF Submit, SubmitTask
<1>2. /\ c \in Clients /\ ~closed /\ \A d \in Clients : d # NoTask
      /\ ~Queued(c) /\ ~Runs(c) /\ ~In(c, backlog) /\ peer[c] # "idle"
  BY <1>1, NoTaskAssumption DEF IInv, TypeOK, Places, MainHolds, OnePlace, Clients
<1>3. /\ pending' \in Seq(Clients) /\ Once(pending)'
      /\ \A d : Queued(d)' <=> Queued(d) \/ d = c
  <2>1. \A d : In(d, pending) <=> Queued(d)
    BY DEF In, Queued
  <2>2. \A d : In(d, pending)' <=> Queued(d)'
    BY DEF In, Queued
  <2>. QED
    BY <1>1, <1>2, <2>1, <2>2, AppendIn DEF IInv, TypeOK, Places, NoPlaceTwice
<1>4. \A d : /\ Runs(d)' <=> Runs(d)
             /\ In(d, backlog)' <=> In(d, backlog)
             /\ In(d, sessions)' <=> In(d, sessions)
  BY <1>1, SamePlaces
<1>5. TypeOK'
  BY <1>1, <1>3 DEF IInv, TypeOK
<1>6. MainHolds'
  BY <1>1, <1>2, <1>4 DEF IInv, Places, MainHolds
<1>7. OnePlace'
  BY <1>1, <1>2, <1>3, <1>4 DEF IInv, Places, OnePlace
<1>8. NoPlaceTwice'
  BY <1>1, <1>3 DEF IInv, Places, NoPlaceTwice, Once
<1>9. \A d \in Clients : Owned(d)' <=> Owned(d)
  BY <1>1, <1>2, <1>3, <1>4 DEF Owned
<1>10. Registered' /\ OpenOnes'
  BY <1>1, <1>2, <1>4, <1>9, AccountedParts DEF IInv, Registered, OpenOnes
<1>. QED
  BY <1>1, <1>5, <1>6, <1>7, <1>8, <1>10, AccountedNext, SameNumbers DEF IInv, Places

\* ... or, when it is refused there, is destroyed by the main thread.
LEMMA SubmitFailsKeeps ==
  ASSUME IInv, SubmitFails
  PROVE  IInv'
<1>. USE DEF tqVars, mainVars, networkVars
<1>. PICK c : c = accepted
  OBVIOUS
<1>1. /\ mainPc = "submit" /\ mainPc' = "check" /\ accepted' = NoTask
      /\ SessionDestroy(c)
      /\ UNCHANGED <<tqVars, keepRunning, signalled, networkVars, stage>>
  BY DEF SubmitFails
<1>2. /\ c \in Clients /\ ~closed /\ \A d \in Clients : d # NoTask
      /\ ~Queued(c) /\ ~Runs(c)
  BY <1>1, NoTaskAssumption DEF IInv, TypeOK, Places, MainHolds, OnePlace, Clients
<1>3. /\ sessions' \in Seq(Clients) /\ sessionId' \in [Clients -> Nat]
      /\ nextSessionId' \in Nat /\ auth' \in [Clients -> BOOLEAN]
      /\ RegistryOrdered' /\ NumbersBelow' /\ NewestNumber'
      /\ \A d \in Clients : In(d, sessions') <=> In(d, sessions) /\ d # c
      /\ sockets' = sockets \ {c}
  BY <1>1, <1>2, DestroyUnregisters DEF IInv, NewestNumber
<1>4. \A d : /\ Queued(d)' <=> Queued(d)
             /\ Runs(d)' <=> Runs(d)
             /\ In(d, backlog)' <=> In(d, backlog)
  BY <1>1, SamePlaces
<1>5. TypeOK'
  BY <1>1, <1>3 DEF IInv, TypeOK
<1>6. MainHolds'
  BY <1>1, <1>2, <1>4 DEF IInv, Places, MainHolds
<1>7. OnePlace'
  BY <1>1, <1>2, <1>4 DEF IInv, Places, OnePlace
<1>8. NoPlaceTwice'
  BY <1>1 DEF IInv, Places, NoPlaceTwice, Once
<1>9. \A d \in Clients : Owned(d)' <=> Owned(d) /\ d # c
  BY <1>1, <1>2, <1>4 DEF Owned, Runs
<1>10. Registered /\ OpenOnes
  BY <1>1, AccountedParts DEF IInv
<1>11. Registered'
  BY <1>3, <1>9, <1>10 DEF Registered, In
<1>12. OpenOnes'
  BY <1>1, <1>3, <1>9, <1>10 DEF OpenOnes
<1>. QED
  BY <1>3, <1>5, <1>6, <1>7, <1>8, <1>11, <1>12, AccountedNext DEF IInv, Places

\* The kernel resets what waits, the pool closes, and what waits there is forgotten.
LEMMA CleanupKeeps ==
  ASSUME IInv, CloseListener \/ DestroyPool \/ DrainPool
  PROVE  IInv'
<1>. USE DEF tqVars, mainVars, networkVars, registryVars, handlerVars
<1>1. /\ mainPc \in {"close", "destroy", "drain"}
      /\ backlog' \in {backlog, <<>>} /\ pending' \in {pending, <<>>}
      /\ UNCHANGED <<running, accepted, keepRunning, signalled, peer, registryVars, handlerVars>>
      /\ finished' = finished
  BY DEF CloseListener, DestroyPool, DrainPool, Close, DropPending
<1>2. /\ backlog' \in Seq(Clients) /\ pending' \in Seq(Clients)
      /\ \A d : In(d, backlog)' => In(d, backlog)
      /\ \A d : Queued(d)' => Queued(d)
      /\ Once(backlog)' /\ Once(pending)'
  <2>1. backlog' = backlog \/ backlog' = <<>>
    BY <1>1
  <2>2. pending' = pending \/ pending' = <<>>
    BY <1>1
  <2>3. <<>> \in Seq(Clients) /\ DOMAIN <<>> = {}
    OBVIOUS
  <2>4. backlog' \in Seq(Clients) /\ pending' \in Seq(Clients)
    BY <2>1, <2>2, <2>3 DEF IInv, TypeOK
  <2>5. Once(backlog)' /\ \A d : In(d, backlog)' => In(d, backlog)
    BY <2>1, <2>3 DEF IInv, Places, NoPlaceTwice, Once, In
  <2>6. Once(pending)' /\ \A d : Queued(d)' => Queued(d)
    BY <2>2, <2>3 DEF IInv, Places, NoPlaceTwice, Once, Queued
  <2>. QED
    BY <2>4, <2>5, <2>6
<1>3. \A d : /\ Runs(d)' <=> Runs(d)
             /\ In(d, sessions)' <=> In(d, sessions)
  BY <1>1, SamePlaces
<1>4. closed' \in BOOLEAN /\ mainPc' \in {"destroy", "drain", "stopped"}
      /\ (closed' <=> mainPc' \in {"drain", "stopped"})
      /\ (mainPc' = "stopped" <=> mainPc = "drain")
  <2>1. closed \in BOOLEAN /\ (closed <=> mainPc \in {"drain", "stopped"})
    BY DEF IInv, TypeOK, Places, MainHolds
  <2>2. CASE CloseListener
    BY <2>1, <2>2 DEF CloseListener
  <2>3. CASE DestroyPool
    BY <2>1, <2>3 DEF DestroyPool, Close
  <2>4. CASE DrainPool
    BY <2>1, <2>4 DEF DrainPool, DropPending
  <2>. QED
    BY <2>2, <2>3, <2>4
<1>5. mainPc' = "stopped" => \A c \in Clients : ~Runs(c)
  BY <1>1, NoTaskAssumption DEF CloseListener, DestroyPool, DrainPool, DropPending, Runs, Clients
<1>6. TypeOK'
  BY <1>1, <1>2, <1>4 DEF IInv, TypeOK
<1>7. MainHolds'
  BY <1>1, <1>3, <1>4, <1>5 DEF IInv, Places, MainHolds
<1>8. OnePlace'
  BY <1>1, <1>2, <1>3 DEF IInv, Places, OnePlace
<1>9. NoPlaceTwice'
  BY <1>1, <1>2 DEF IInv, Places, NoPlaceTwice
<1>10. ASSUME mainPc' # "stopped" PROVE Registered' /\ OpenOnes'
  <2>1. mainPc \in {"close", "destroy"} /\ pending' = pending
    BY <1>1, <1>4, <1>10 DEF CloseListener, DestroyPool, DrainPool, Close
  <2>2. \A d : Queued(d)' <=> Queued(d)
    BY <2>1, SamePlaces
  <2>3. \A d : Owned(d)' <=> Owned(d)
    BY <1>1, <1>4, <2>1, <2>2 DEF Owned
  <2>. QED
    BY <1>1, <1>3, <1>4, <2>1, <2>3, AccountedParts DEF IInv, Registered, OpenOnes
<1>11. RegistryOrdered' /\ NumbersBelow' /\ NewestNumber'
  BY <1>1, <1>4, SameNumbers DEF IInv
<1>. QED
  BY <1>6, <1>7, <1>8, <1>9, <1>10, <1>11, AccountedNext DEF IInv, Places

\* A worker takes the oldest session of the queue ...
LEMMA EnterKeeps ==
  ASSUME IInv, NEW w \in Slots, EnterHandler(w)
  PROVE  IInv'
<1>. USE DEF mainVars, networkVars, registryVars
<1>. PICK c : c = Head(pending)
  OBVIOUS
<1>1. /\ ~closed /\ pending # <<>> /\ running[w] = NoTask
      /\ running' = [running EXCEPT ![w] = c] /\ pending' = Tail(pending)
      /\ stage' = [stage EXCEPT ![c] = "loop"]
      /\ UNCHANGED <<finished, closed, mainVars, networkVars, registryVars, auth>>
  BY DEF EnterHandler, StartTask
<1>2. /\ c \in Clients /\ pending' \in Seq(Clients) /\ Queued(c)
      /\ \A d : Queued(d)' => Queued(d)
      /\ \A d : Queued(d) => Queued(d)' \/ d = c
      /\ Once(pending)' /\ ~Queued(c)'
  <2>1. \A d : In(d, pending) <=> Queued(d)
    BY DEF In, Queued
  <2>2. \A d : In(d, pending)' <=> Queued(d)'
    BY DEF In, Queued
  <2>. QED
    BY <1>1, <2>1, <2>2, TailIn DEF IInv, TypeOK, Places, NoPlaceTwice
<1>3. /\ c # NoTask /\ \A d \in Clients : d # NoTask
      /\ ~Runs(c) /\ c # accepted /\ ~In(c, backlog) /\ peer[c] # "idle" /\ stage[c] = "none"
  BY <1>1, <1>2, NoTaskAssumption DEF IInv, Places, MainHolds, OnePlace, Clients
<1>4. \A d : /\ In(d, backlog)' <=> In(d, backlog)
             /\ In(d, sessions)' <=> In(d, sessions)
  BY <1>1, SamePlaces
<1>5. \A d \in Clients : Runs(d)' <=> Runs(d) \/ d = c
  BY <1>1, <1>3 DEF IInv, TypeOK, Runs
<1>6. TypeOK'
  BY <1>1, <1>2 DEF IInv, TypeOK
<1>7. MainHolds'
  BY <1>1 DEF IInv, Places, MainHolds
<1>8. OnePlace'
  BY <1>1, <1>2, <1>3, <1>4, <1>5 DEF IInv, TypeOK, Places, OnePlace
<1>9. NoPlaceTwice'
  <2>1. \A v \in Slots : running[v] # c
    BY <1>3 DEF Runs
  <2>. QED
    BY <1>1, <1>2, <2>1 DEF IInv, TypeOK, Places, NoPlaceTwice, Once
<1>10. \A d \in Clients : Owned(d)' <=> Owned(d)
  <2>1. SUFFICES ASSUME NEW d \in Clients PROVE Owned(d)' <=> Owned(d)
    OBVIOUS
  <2>. QED
    BY <1>1, <1>2, <1>3, <1>5, OwnedParts, OwnedNext DEF IInv, TypeOK
<1>11. mainPc # "stopped" => Registered' /\ OpenOnes'
  BY <1>1, <1>4, <1>10, AccountedParts DEF IInv, Registered, OpenOnes
<1>. QED
  BY <1>1, <1>6, <1>7, <1>8, <1>9, <1>11, AccountedNext, SameNumbers DEF IInv, Places

\* ... destroys it ...
LEMMA DestroyKeeps ==
  ASSUME IInv, NEW c \in Clients, DestroySession(c)
  PROVE  IInv'
<1>. USE DEF tqVars, mainVars, networkVars
<1>1. /\ stage[c] = "destroy" /\ SessionDestroy(c)
      /\ stage' = [stage EXCEPT ![c] = "freed"]
      /\ UNCHANGED <<tqVars, mainVars, networkVars>>
  BY DEF DestroySession
<1>2. Runs(c) /\ c # accepted /\ ~Queued(c)
  BY <1>1 DEF IInv, Places, OnePlace
<1>3. /\ sessions' \in Seq(Clients) /\ sessionId' \in [Clients -> Nat]
      /\ nextSessionId' \in Nat /\ auth' \in [Clients -> BOOLEAN]
      /\ RegistryOrdered' /\ NumbersBelow' /\ NewestNumber'
      /\ \A d \in Clients : In(d, sessions') <=> In(d, sessions) /\ d # c
      /\ sockets' = sockets \ {c}
  <2>1. mainPc' = "link" => mainPc = "link" /\ accepted' = accepted /\ accepted \in Clients \ {c}
    BY <1>1, <1>2 DEF IInv, TypeOK, Places, MainHolds
  <2>. QED
    BY <1>1, <2>1, DestroyUnregisters DEF IInv
<1>4. \A d : /\ Queued(d)' <=> Queued(d)
             /\ Runs(d)' <=> Runs(d)
             /\ In(d, backlog)' <=> In(d, backlog)
  BY <1>1, SamePlaces
<1>5. /\ stage' \in [Clients -> {"none", "loop", "recv", "destroy", "freed"}]
      /\ stage'[c] = "freed" /\ \A d \in Clients : d # c => stage'[d] = stage[d]
  BY <1>1 DEF IInv, TypeOK
<1>6. TypeOK'
  BY <1>1, <1>3, <1>5 DEF IInv, TypeOK
<1>7. MainHolds'
  BY <1>1, <1>4 DEF IInv, Places, MainHolds
<1>8. OnePlace'
  BY <1>1, <1>4, <1>5 DEF IInv, Places, OnePlace
<1>9. NoPlaceTwice'
  BY <1>1 DEF IInv, Places, NoPlaceTwice, Once
<1>10. \A d \in Clients : Owned(d)' <=> Owned(d) /\ d # c
  <2>1. SUFFICES ASSUME NEW d \in Clients PROVE Owned(d)' <=> Owned(d) /\ d # c
    OBVIOUS
  <2>. QED
    BY <1>1, <1>2, <1>4, <1>5, OwnedParts, OwnedNext
<1>11. ASSUME mainPc' # "stopped" PROVE Registered' /\ OpenOnes'
  <2>1. Registered /\ OpenOnes
    BY <1>1, <1>11, AccountedParts DEF IInv
  <2>2. Registered'
    BY <1>3, <1>10, <2>1 DEF Registered, In
  <2>3. OpenOnes'
    BY <1>1, <1>2, <1>3, <1>10, <2>1 DEF OpenOnes
  <2>. QED
    BY <2>2, <2>3
<1>. QED
  BY <1>3, <1>6, <1>7, <1>8, <1>9, <1>11, AccountedNext DEF IInv, Places

\* ... and is idle again.
LEMMA LeaveKeeps ==
  ASSUME IInv, NEW w \in Slots, LeaveHandler(w)
  PROVE  IInv'
<1>. USE DEF mainVars, networkVars, registryVars
<1>. PICK c : c = running[w]
  OBVIOUS
<1>1. /\ c # NoTask /\ running[w] = c /\ stage[c] = "freed"
      /\ running' = [running EXCEPT ![w] = NoTask]
      /\ finished' = finished \cup {c}
      /\ stage' = [stage EXCEPT ![c] = "none"]
      /\ UNCHANGED <<pending, closed, mainVars, networkVars, registryVars, auth>>
  BY DEF LeaveHandler, FinishTask
<1>2. c \in Clients /\ Runs(c) /\ \A d \in Clients : d # NoTask
  BY <1>1, NoTaskAssumption DEF IInv, TypeOK, Runs, Clients
<1>3. c # accepted /\ ~Queued(c) /\ ~In(c, backlog) /\ peer[c] # "idle"
  BY <1>2 DEF IInv, Places, OnePlace
<1>4. \A d : /\ Queued(d)' <=> Queued(d)
             /\ In(d, backlog)' <=> In(d, backlog)
             /\ In(d, sessions)' <=> In(d, sessions)
  BY <1>1, SamePlaces
<1>5. \A d \in Clients : Runs(d)' <=> Runs(d) /\ d # c
  <2>1. \A v \in Slots : running[v] = c => v = w
    BY <1>1 DEF IInv, Places, NoPlaceTwice
  <2>2. \A v \in Slots : running'[v] = IF v = w THEN NoTask ELSE running[v]
    BY <1>1 DEF IInv, TypeOK
  <2>. QED
    BY <1>1, <1>2, <2>1, <2>2 DEF Runs
<1>6. /\ stage' \in [Clients -> {"none", "loop", "recv", "destroy", "freed"}]
      /\ stage'[c] = "none" /\ \A d \in Clients : d # c => stage'[d] = stage[d]
  BY <1>1, <1>2 DEF IInv, TypeOK
<1>7. TypeOK'
  BY <1>1, <1>2, <1>6 DEF IInv, TypeOK
<1>8. MainHolds'
  BY <1>1, <1>5 DEF IInv, Places, MainHolds
<1>9. OnePlace'
  BY <1>1, <1>4, <1>5, <1>6 DEF IInv, Places, OnePlace
<1>10. NoPlaceTwice'
  BY <1>1 DEF IInv, TypeOK, Places, NoPlaceTwice, Once
<1>11. \A d \in Clients : Owned(d)' <=> Owned(d)
  <2>1. SUFFICES ASSUME NEW d \in Clients PROVE Owned(d)' <=> Owned(d)
    OBVIOUS
  <2>. QED
    BY <1>1, <1>3, <1>4, <1>5, <1>6, OwnedParts, OwnedNext
<1>12. mainPc' # "stopped" => Registered' /\ OpenOnes'
  BY <1>1, <1>4, <1>11, AccountedParts DEF IInv, Registered, OpenOnes
<1>. QED
  BY <1>1, <1>7, <1>8, <1>9, <1>10, <1>12, AccountedNext, SameNumbers DEF IInv, Places

-----------------------------------------------------------------------------
(* Theorems *)

\* In the beginning there is no session, and nobody has connected.
LEMMA InitHolds == Init => IInv
<1>1. SUFFICES ASSUME Init PROVE IInv
  OBVIOUS
<1>. USE DEF Init, TQInit
<1>2. <<>> \in Seq(Clients) /\ DOMAIN <<>> = {}
  OBVIOUS
<1>3. \A c \in Clients : c # NoTask
  BY NoTaskAssumption DEF Clients
<1>4. TypeOK
  BY <1>1, <1>2 DEF TypeOK
<1>5. \A c \in Clients : ~Queued(c) /\ ~Runs(c) /\ ~In(c, backlog) /\ ~In(c, sessions)
  BY <1>1, <1>2, <1>3 DEF Queued, Runs, In
<1>6. MainHolds
  BY <1>1 DEF MainHolds
<1>7. OnePlace
  BY <1>1, <1>3, <1>5 DEF OnePlace
<1>8. NoPlaceTwice
  BY <1>1, <1>2 DEF NoPlaceTwice, Once
<1>9. \A c \in Clients : ~Owned(c)
  BY <1>1, <1>5 DEF Owned, Runs
<1>10. SessionsAccounted
  BY <1>1, <1>5, <1>9, AccountedParts DEF Registered, OpenOnes
<1>11. RegistryOrdered /\ NumbersBelow /\ NewestNumber
  BY <1>1, <1>2 DEF RegistryOrdered, NumbersBelow, NewestNumber
<1>. QED
  BY <1>4, <1>6, <1>7, <1>8, <1>10, <1>11 DEF IInv, Places

\* Every step of the main thread, of a worker, of a client and of the signal
\* handler keeps the invariant.
LEMMA StepKeeps == IInv /\ [Next]_vars => IInv'
<1>1. SUFFICES ASSUME IInv, [Next]_vars PROVE IInv'
  OBVIOUS
<1>2. CASE UNCHANGED vars
  <2>. USE DEF vars, tqVars, mainVars, networkVars, registryVars, handlerVars
  <2>1. TypeOK'
    BY <1>1, <1>2 DEF IInv, TypeOK
  <2>2. Places' /\ Registry'
    BY <1>1, <1>2, Quiet
  <2>. QED
    BY <2>1, <2>2 DEF IInv, Registry
<1>3. ASSUME NEW c \in Clients, Connect(c) \/ Depart(c) \/ HandlerStep(c) PROVE IInv'
  BY <1>1, <1>3, ConnectKeeps, DepartKeeps, HandlerKeeps, DestroyKeeps DEF HandlerStep
<1>4. ASSUME NEW w \in Slots, EnterHandler(w) \/ LeaveHandler(w) PROVE IInv'
  BY <1>1, <1>4, EnterKeeps, LeaveKeeps
<1>5. CASE MainStep
  BY <1>1, <1>5, LoopKeeps, AcceptKeeps, CreateSessionKeeps, LinkSessionKeeps, CreateFailsKeeps,
     SubmitKeeps, SubmitFailsKeeps, CleanupKeeps DEF MainStep
<1>6. CASE AcceptFails \/ SignalHandler
  BY <1>1, <1>6, LoopKeeps, SignalKeeps
<1>7. CASE AtRest
  BY <1>2, <1>7 DEF AtRest
<1>. QED
  BY <1>1, <1>2, <1>3, <1>4, <1>5, <1>6, <1>7 DEF Next

\* The invariant holds in every state main, the handlers and their clients can reach.
THEOREM Invariance == Spec => []IInv
BY InitHolds, StepKeeps, PTL DEF Spec

\* Every variable has its type: main never leaves its states, and the handler's
\* stages are those of handle_client.
THEOREM TypeCorrect == Spec => []TypeOK
<1>1. IInv => TypeOK
  BY DEF IInv
<1>. QED
  BY <1>1, Invariance, PTL

\* As long as the pool lives no session is lost, none is freed twice, and no
\* descriptor stays open without an owner.
THEOREM AccountedCorrect == Spec => []SessionsAccounted
<1>1. IInv => SessionsAccounted
  BY DEF IInv
<1>. QED
  BY <1>1, Invariance, PTL

\* The registry has the newest session first and all numbers are different, although
\* session_create draws the number in one critical section and links in another, and
\* workers take sessions out between them.
THEOREM RegistryCorrect == Spec => []RegistryOrdered
<1>1. IInv => RegistryOrdered
  BY DEF IInv
<1>. QED
  BY <1>1, Invariance, PTL

\* A set whose elements are all equal has one at most.
LEMMA AtMostOne ==
  ASSUME NEW S, \A x, y \in S : x = y
  PROVE  Cardinality(S) <= 1
<1>1. CASE S = {}
  BY <1>1, FS_EmptySet
<1>2. CASE S # {}
  <2>1. PICK x \in S : TRUE
    BY <1>2
  <2>2. S = {x}
    BY <2>1
  <2>3. Cardinality({x}) = 1
    BY FS_Singleton
  <2>. QED
    BY <2>2, <2>3
<1>. QED
  BY <1>1, <1>2

\* A session is in one place at most, and there once: handle_client has its own
\* session to itself.
THEOREM OwnerCorrect == Spec => []OneOwner
<1>1. IInv => OneOwner
  <2>1. SUFFICES ASSUME IInv, NEW c \in Clients
                 PROVE  /\ Cardinality({w \in Slots : running[w] = c}) <= 1
                        /\ Cardinality({i \in DOMAIN pending : pending[i] = c}) <= 1
                        /\ Queued(c) => \A w \in Slots : running[w] # c
                        /\ c = accepted => ~Queued(c) /\ \A w \in Slots : running[w] # c
    BY DEF OneOwner
  <2>2. Cardinality({w \in Slots : running[w] = c}) <= 1
    <3>1. \A v, w \in {w \in Slots : running[w] = c} : v = w
      BY <2>1, NoTaskAssumption DEF IInv, Places, NoPlaceTwice, Clients
    <3>. QED
      BY <3>1, AtMostOne
  <2>3. Cardinality({i \in DOMAIN pending : pending[i] = c}) <= 1
    <3>1. \A i, j \in {i \in DOMAIN pending : pending[i] = c} : i = j
      BY <2>1 DEF IInv, Places, NoPlaceTwice, Once
    <3>. QED
      BY <3>1, AtMostOne
  <2>. QED
    BY <2>1, <2>2, <2>3 DEF IInv, Places, OnePlace, Runs
<1>. QED
  BY <1>1, Invariance, PTL

\* main.c and the handler use the thread pool as TaskQueue specifies it: they
\* submit only while it is open, and destroy it once.
THEOREM PoolUsedAsSpecified == Spec => TQSpec
<1>1. Init => TQInit
  BY DEF Init
<1>2. IInv /\ [Next]_vars => [TQNext]_tqVars
  <2>1. SUFFICES ASSUME IInv, [Next]_vars, ~UNCHANGED tqVars PROVE TQNext
    OBVIOUS
  <2>2. CASE Submit
    <3>1. accepted \in Tasks
      BY <2>1, <2>2 DEF IInv, TypeOK, Places, MainHolds, Submit, Clients
    <3>. QED
      BY <3>1, <2>2 DEF Submit, TQNext
  <2>3. CASE DestroyPool \/ DrainPool
    BY <2>3 DEF DestroyPool, DrainPool, TQNext
  <2>4. CASE \E w \in Slots : EnterHandler(w) \/ LeaveHandler(w)
    BY <2>4 DEF EnterHandler, LeaveHandler, TQNext
  <2>5. Submit \/ DestroyPool \/ DrainPool \/ \E w \in Slots : EnterHandler(w) \/ LeaveHandler(w)
    BY <2>1 DEF Next, vars, Connect, Depart, HandlerStep, LoopTest, RecvFails, LoginRequest,
       LogoutRequest, OtherRequest, Request, DestroySession, MainStep, CheckRunning, CallAccept,
       Accept, AcceptFails, CreateSession, LinkSession, CreateFails, SubmitFails, CloseListener, SignalHandler, AtRest
  <2>. QED
    BY <2>2, <2>3, <2>4, <2>5
<1>. QED
  BY <1>1, <1>2, Invariance, PTL DEF Spec, TQSpec
================================================================================
