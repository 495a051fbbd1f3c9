--------------------------- MODULE Transfers_proofs ---------------------------
(***************************************************************************)
(* Theorems about the transfers, for every number of sessions, paths,      *)
(* files, handles and blocks and every limit.  A handler does one of four  *)
(* things to the tasks (Effect): it keeps them all, opens one, closes some *)
(* of its own session or changes one of them.  One lemma per handler shows *)
(* its effect, and that what concerns its session alone is preserved; the  *)
(* rest of the invariant, the action property and the refinement of        *)
(* Streams follow from the effect.                                         *)
(***************************************************************************)
EXTENDS Transfers, TLAPS, SequenceTheorems, WellFoundedInduction

-----------------------------------------------------------------------------
(* Numbers and sequences *)

\* A non-empty set of natural numbers has a smallest element.
LEMMA Smallest ==
  ASSUME NEW S \in SUBSET Nat, S # {}
  PROVE  \E m \in S : \A k \in S : m <= k
<1>1. PICK m \in S : \A k \in S : <<k, m>> \notin OpToRel(<, Nat)
  BY WFMin, NatLessThanWellFounded, Zenon
<1>2. \A k \in S : ~(k < m)
  BY <1>1, Zenon DEF OpToRel
<1>. QED
  BY <1>2

\* The greatest of some blocks is one of them.
LEMMA Greatest ==
  ASSUME NEW n \in Nat, NEW S \in SUBSET (1..n), S # {}
  PROVE  Max(S) \in S
<1>. DEFINE T == {m \in Nat : \A x \in S : x <= m}
<1>1. n \in T /\ T \in SUBSET Nat
  OBVIOUS
<1>2. PICK m \in T : \A k \in T : m <= k
  BY <1>1, Smallest
<1>3. \E x \in S : x = m
  <2>1. SUFFICES ASSUME m \notin S PROVE FALSE
    OBVIOUS
  <2>2. \A x \in S : x <= m - 1
    BY <2>1, <1>2
  <2>3. m - 1 \in Nat
    <3>1. PICK x \in S : TRUE
      OBVIOUS
    <3>. QED
      BY <1>2, <2>2, <3>1
  <2>. QED
    BY <1>2, <2>2, <2>3
<1>4. \E x \in S : \A y \in S : x >= y
  BY <1>2, <1>3
<1>. QED
  BY <1>4, Zenon DEF Max

\* The elements of a list, and the lists in which no two tasks share a file.
Elements(q) == {q[i] : i \in DOMAIN q}
FilesDiffer(q) == \A i, j \in DOMAIN q : q[i].file = q[j].file => i = j

\* A task in front of a list.
LEMMA ConsTask ==
  ASSUME NEW q \in Seq(Task), NEW t \in Task
  PROVE  /\ <<t>> \o q \in Seq(Task)
         /\ Len(<<t>> \o q) = Len(q) + 1
         /\ Elements(<<t>> \o q) = Elements(q) \cup {t}
         /\ FilesDiffer(q) /\ (\A u \in Elements(q) : u.file # t.file)
              => FilesDiffer(<<t>> \o q)
<1>. DEFINE r == <<t>> \o q
<1>1. /\ <<t>> \in Seq(Task) /\ Len(<<t>>) = 1 /\ <<t>>[1] = t
  OBVIOUS
<1>2. /\ r \in Seq(Task) /\ Len(r) = Len(q) + 1
      /\ \A i \in 1 .. Len(q) + 1 : r[i] = IF i = 1 THEN t ELSE q[i - 1]
  BY <1>1, ConcatProperties
<1>. HIDE DEF r
<1>3. DOMAIN r = 1 .. Len(q) + 1 /\ DOMAIN q = 1 .. Len(q) /\ Len(q) \in Nat
  BY <1>2
<1>4. Elements(r) = Elements(q) \cup {t}
  <2>1. ASSUME NEW i \in DOMAIN q PROVE q[i] \in Elements(r)
    BY <1>2, <1>3, i + 1 \in DOMAIN r, r[i + 1] = q[i] DEF Elements
  <2>2. t \in Elements(r)
    BY <1>2, <1>3, 1 \in DOMAIN r DEF Elements
  <2>3. ASSUME NEW i \in DOMAIN r PROVE r[i] \in Elements(q) \cup {t}
    BY <1>2, <1>3 DEF Elements
  <2>. QED
    BY <2>1, <2>2, <2>3 DEF Elements
<1>5. ASSUME FilesDiffer(q), \A u \in Elements(q) : u.file # t.file PROVE FilesDiffer(r)
  <2>1. \A i \in DOMAIN q : q[i].file # t.file
    BY <1>5 DEF Elements
  <2>2. SUFFICES ASSUME NEW i \in DOMAIN r, NEW j \in DOMAIN r, r[i].file = r[j].file
                 PROVE  i = j
    BY DEF FilesDiffer
  <2>3. CASE i = 1
    BY <2>1, <2>2, <2>3, <1>2, <1>3
  <2>4. CASE j = 1
    BY <2>1, <2>2, <2>4, <1>2, <1>3
  <2>5. CASE i # 1 /\ j # 1
    <3>1. i - 1 \in DOMAIN q /\ j - 1 \in DOMAIN q /\ q[i - 1].file = q[j - 1].file
      BY <2>2, <2>5, <1>2, <1>3
    <3>. QED
      BY <3>1, <1>3, <1>5 DEF FilesDiffer
  <2>. QED
    BY <2>3, <2>4, <2>5
<1>. QED
  BY <1>2, <1>4, <1>5 DEF r

\* A task is taken out of a list whose tasks have different files.
LEMMA RemoveTaskAt ==
  ASSUME NEW q \in Seq(Task), FilesDiffer(q), NEW k \in DOMAIN q
  PROVE  /\ RemoveAt(q, k) \in Seq(Task)
         /\ Len(RemoveAt(q, k)) = Len(q) - 1
         /\ Elements(RemoveAt(q, k)) = Elements(q) \ {q[k]}
         /\ FilesDiffer(RemoveAt(q, k))
<1>. DEFINE a == SubSeq(q, 1, k - 1)
            b == SubSeq(q, k + 1, Len(q))
            r == RemoveAt(q, k)
<1>1. /\ DOMAIN q = 1 .. Len(q) /\ Len(q) \in Nat /\ k \in 1 .. Len(q)
      /\ \A i \in 1 .. Len(q) : q[i] \in Task
  OBVIOUS
<1>2. /\ a \in Seq(Task) /\ Len(a) = k - 1
      /\ \A i \in 1 .. k - 1 : a[i] = q[i]
  <2>1. \A i \in 1 .. k - 1 : q[i] \in Task
    BY <1>1
  <2>2. /\ a \in Seq(Task) /\ Len(a) = IF 1 <= k - 1 THEN k - 1 - 1 + 1 ELSE 0
        /\ \A i \in 1 .. k - 1 - 1 + 1 : a[i] = q[1 + i - 1]
    BY <1>1, <2>1, SubSeqProperties
  <2>. HIDE DEF a
  <2>. QED
    BY <1>1, <2>2
<1>3. /\ b \in Seq(Task) /\ Len(b) = Len(q) - k
      /\ \A i \in 1 .. Len(q) - k : b[i] = q[k + i]
  <2>1. \A i \in k + 1 .. Len(q) : q[i] \in Task
    BY <1>1
  <2>2. /\ b \in Seq(Task) /\ Len(b) = IF k + 1 <= Len(q) THEN Len(q) - (k + 1) + 1 ELSE 0
        /\ \A i \in 1 .. Len(q) - (k + 1) + 1 : b[i] = q[k + 1 + i - 1]
    BY <1>1, <2>1, SubSeqProperties
  <2>. HIDE DEF b
  <2>3. ASSUME NEW i \in 1 .. Len(q) - k PROVE b[i] = q[k + i]
    BY <1>1, <2>2, k + 1 + i - 1 = k + i, i \in 1 .. Len(q) - (k + 1) + 1
  <2>. QED
    BY <1>1, <2>2, <2>3
<1>4. r = a \o b
  BY DEF RemoveAt
<1>. HIDE DEF a, b, r
<1>5. /\ r \in Seq(Task) /\ Len(r) = Len(q) - 1 /\ DOMAIN r = 1 .. Len(q) - 1
      /\ \A i \in 1 .. Len(q) - 1 : r[i] = IF i < k THEN q[i] ELSE q[i + 1]
  <2>1. /\ r \in Seq(Task) /\ Len(r) = Len(a) + Len(b)
        /\ \A i \in 1 .. Len(a) + Len(b) : r[i] = IF i <= Len(a) THEN a[i] ELSE b[i - Len(a)]
    BY <1>2, <1>3, <1>4, ConcatProperties
  <2>2. ASSUME NEW i \in 1 .. Len(q) - 1 PROVE r[i] = IF i < k THEN q[i] ELSE q[i + 1]
    <3>1. CASE i < k
      BY <1>1, <1>2, <1>3, <2>1, <3>1
    <3>2. CASE ~(i < k)
      <4>1. r[i] = b[i - (k - 1)] /\ i - (k - 1) \in 1 .. Len(q) - k
        BY <1>1, <1>2, <1>3, <2>1, <3>2
      <4>2. k + (i - (k - 1)) = i + 1
        BY <1>1
      <4>. QED
        BY <1>3, <3>2, <4>1, <4>2
    <3>. QED
      BY <3>1, <3>2
  <2>. QED
    BY <1>1, <1>2, <1>3, <2>1, <2>2
<1>6. ASSUME NEW i \in DOMAIN r
      PROVE  \E j \in DOMAIN q : j # k /\ r[i] = q[j] /\ j = IF i < k THEN i ELSE i + 1
  BY <1>1, <1>5
<1>7. \A i \in DOMAIN q : i # k => q[i] # q[k]
  BY DEF FilesDiffer
<1>8. Elements(r) = Elements(q) \ {q[k]}
  <2>1. ASSUME NEW i \in DOMAIN q, i # k PROVE q[i] \in Elements(r)
    <3>1. CASE i < k
      BY <1>1, <1>5, <3>1, i \in DOMAIN r, r[i] = q[i] DEF Elements
    <3>2. CASE i > k
      BY <1>1, <1>5, <3>2, i - 1 \in DOMAIN r, r[i - 1] = q[i] DEF Elements
    <3>. QED
      BY <1>1, <2>1, <3>1, <3>2
  <2>2. ASSUME NEW i \in DOMAIN r PROVE r[i] \in Elements(q) \ {q[k]}
    BY <1>6, <1>7 DEF Elements
  <2>. QED
    BY <2>1, <2>2 DEF Elements
<1>9. FilesDiffer(r)
  <2>1. SUFFICES ASSUME NEW i \in DOMAIN r, NEW j \in DOMAIN r, r[i].file = r[j].file
                 PROVE  i = j
    BY DEF FilesDiffer
  <2>2. PICK x \in DOMAIN q : r[i] = q[x] /\ x = IF i < k THEN i ELSE i + 1
    BY <1>6
  <2>3. PICK y \in DOMAIN q : r[j] = q[y] /\ y = IF j < k THEN j ELSE j + 1
    BY <1>6
  <2>4. x = y
    BY <2>1, <2>2, <2>3 DEF FilesDiffer
  <2>. QED
    BY <1>1, <1>5, <2>2, <2>3, <2>4
<1>. QED
  BY <1>5, <1>8, <1>9 DEF r

\* A task of such a list changes, but not its file.
LEMMA ReplaceTask ==
  ASSUME NEW q \in Seq(Task), FilesDiffer(q), NEW k \in DOMAIN q,
         NEW t \in Task, t.file = q[k].file
  PROVE  /\ [q EXCEPT ![k] = t] \in Seq(Task)
         /\ Len([q EXCEPT ![k] = t]) = Len(q)
         /\ Elements([q EXCEPT ![k] = t]) = (Elements(q) \ {q[k]}) \cup {t}
         /\ FilesDiffer([q EXCEPT ![k] = t])
<1>. DEFINE r == [q EXCEPT ![k] = t]
<1>1. r \in Seq(Task) /\ Len(r) = Len(q)
  BY ExceptSeq
<1>2. DOMAIN r = DOMAIN q /\ r[k] = t /\ \A i \in DOMAIN q : i # k => r[i] = q[i]
  OBVIOUS
<1>3. \A i \in DOMAIN q : i # k => q[i] # q[k]
  BY DEF FilesDiffer
<1>. HIDE DEF r
<1>4. Elements(r) = (Elements(q) \ {q[k]}) \cup {t}
  BY <1>2, <1>3 DEF Elements
<1>5. FilesDiffer(r)
  BY <1>2 DEF FilesDiffer
<1>. QED
  BY <1>1, <1>4, <1>5 DEF r

-----------------------------------------------------------------------------
(* The inductive invariant, and what a step does to the tasks *)

ListsApart ==
    \A s \in Sessions : FilesDiffer(tasks[s]) /\ inHand[s] \notin Listed(s)

Accounted ==
    /\ open = {t.file : t \in AllTasks}
    /\ \A s, r \in Sessions : \A t \in Holding(s), u \in Holding(r) :
          t.file = u.file => s = r /\ t = u

\* What concerns a session alone.
SessionsInv == TypeOK /\ TransferLimit /\ TransfersNeedLogin /\ ListsApart

IInv == SessionsInv /\ Accounted /\ DownloadPrefix /\ AckedStored

LEMMA HandlesAccountedParts == HandlesAccounted <=> Accounted /\ ListsApart
  BY DEF HandlesAccounted, Accounted, ListsApart, FilesDiffer

\* What AckedStored says of one task, before and after a step.
Safe(t) ==
    t.direction # "download" =>
        \A b \in t.acked \ t.buffered :
            content[t.inode][b] = t.sent[b] \/ <<t.file, b>> \in overwritten \cup refused

SafeNext(t) ==
    t.direction # "download" =>
        \A b \in t.acked \ t.buffered :
            content'[t.inode][b] = t.sent[b] \/ <<t.file, b>> \in overwritten' \cup refused'

\* What is told of through the FILE of t stays as it is, or is noted as overwritten.
KeptFile(t) ==
    t.direction # "download" =>
        \A b \in t.acked \ t.buffered :
            /\ <<t.file, b>> \in overwritten => <<t.file, b>> \in overwritten'
            /\ content'[t.inode][b] = content[t.inode][b] \/ <<t.file, b>> \in overwritten'

Kept(t) == KeptFile(t) /\ \A b \in Blocks : <<t.file, b>> \in refused => <<t.file, b>> \in refused'

\* The file of t has got what its FILE still held, or the disk has refused that.
Written(t) ==
    \A b \in Blocks :
        /\ <<t.file, b>> \in refused => <<t.file, b>> \in refused'
        /\ b \notin t.buffered => content'[t.inode][b] = content[t.inode][b]
        /\ b \in t.buffered =>
              content'[t.inode][b] = t.sent[b] \/ <<t.file, b>> \in refused'

\* The task t becomes u: its next block moves, or only its id, its status or what
\* its FILE holds changes.
Moved(t, u) ==
    /\ t.status = "running" /\ u.status = "running" /\ u.transferred = t.transferred + 1
    /\ \E b \in Blocks : /\ u.acked = t.acked \cup {b}
                         /\ t.direction = "download" => b = t.transferred + 1

Became(t, u) ==
    /\ u.file = t.file /\ u.inode = t.inode /\ u.direction = t.direction
    /\ \/ Moved(t, u)
       \/ u.transferred = t.transferred /\ u.acked = t.acked
       \/ t.direction = "edit" /\ u.transferred = t.transferred
    /\ Safe(t) => SafeNext(u)

\* The other sessions hold what they held.
OthersHold(s) == \A r \in Sessions \ {s} : Holding(r)' = Holding(r)

Keeps(s) ==
    /\ OthersHold(s) /\ Holding(s)' = Holding(s) /\ open' = open
    /\ \A t \in AllTasks : Kept(t)

Opens(s, t) ==
    /\ OthersHold(s) /\ Holding(s)' = Holding(s) \cup {t} /\ open' = open \cup {t.file}
    /\ t.file \in Handles \ open
    /\ t.status = "running" /\ t.transferred = 0 /\ t.acked = {}
    /\ \A u \in AllTasks : Kept(u)

Closes(s, T) ==
    /\ OthersHold(s) /\ Holding(s)' = Holding(s) \ T /\ open' = open \ {t.file : t \in T}
    /\ \A t \in AllTasks \ T : Kept(t)
    /\ \A t \in T : Written(t)

Changes(s, t, u) ==
    /\ OthersHold(s) /\ Holding(s)' = (Holding(s) \ {t}) \cup {u} /\ open' = open
    /\ Became(t, u)
    /\ \A v \in AllTasks \ {t} : Kept(v)

\* Every step of a session keeps, opens, closes or changes tasks of its own.
Effect(s) ==
    \/ Keeps(s)
    \/ \E t \in Task : Opens(s, t)
    \/ \E T \in SUBSET Holding(s) : Closes(s, T)
    \/ \E t \in Holding(s), u \in Task : Changes(s, t, u)

-----------------------------------------------------------------------------
(* What follows from the effect alone *)

LEMMA AccountedStep ==
  ASSUME Accounted, NEW s \in Sessions, Effect(s)
  PROVE  Accounted'
<1>. USE DEF Accounted, AllTasks, OthersHold
<1>1. CASE Keeps(s)
  BY <1>1 DEF Keeps
<1>2. ASSUME NEW t \in Task, Opens(s, t) PROVE Accounted'
  <2>1. \A r \in Sessions : \A u \in Holding(r) : u.file \in open /\ u.file # t.file
    BY <1>2 DEF Opens
  <2>2. AllTasks' = AllTasks \cup {t}
    BY <1>2 DEF Opens
  <2>3. open' = {u.file : u \in AllTasks'}
    BY <1>2, <2>2 DEF Opens
  <2>. QED
    BY <1>2, <2>1, <2>3 DEF Opens
<1>3. ASSUME NEW T \in SUBSET Holding(s), Closes(s, T) PROVE Accounted'
  <2>1. \A r \in Sessions \ {s} : \A u \in Holding(r) : u \notin T
    BY <1>3
  <2>2. AllTasks' = AllTasks \ T
    BY <1>3, <2>1 DEF Closes
  <2>3. \A u \in AllTasks \ T : \A t \in T : u.file # t.file
    BY <1>3
  <2>4. open' = {u.file : u \in AllTasks'}
    BY <1>3, <2>2, <2>3 DEF Closes
  <2>. QED
    BY <1>3, <2>4 DEF Closes
<1>4. ASSUME NEW t \in Holding(s), NEW u \in Task, Changes(s, t, u) PROVE Accounted'
  <2>1. u.file = t.file
    BY <1>4 DEF Changes, Became
  <2>2. \A r \in Sessions : \A v \in Holding(r) : v.file = t.file => r = s /\ v = t
    BY <1>4
  <2>3. AllTasks' = (AllTasks \ {t}) \cup {u}
    BY <1>4, <2>2 DEF Changes
  <2>4. open' = {v.file : v \in AllTasks'}
    BY <1>4, <2>1, <2>3 DEF Changes
  <2>. QED
    BY <1>4, <2>1, <2>2, <2>4 DEF Changes
<1>. QED
  BY <1>1, <1>2, <1>3, <1>4 DEF Effect

\* What sessions hold are tasks.
LEMMA HoldingType ==
  ASSUME TypeOK, NEW s \in Sessions
  PROVE  /\ Listed(s) = Elements(tasks[s]) /\ Listed(s) \subseteq Task
         /\ inHand[s] # None => Holding(s) = Listed(s) \cup {inHand[s]} /\ inHand[s] \in Task
         /\ inHand[s] = None => Holding(s) = Listed(s)
         /\ Holding(s) \subseteq Task
         /\ stage[s] \in {"closed", "serving", "logout", "leaving"} => inHand[s] = None
<1>1. tasks[s] \in Seq(Task) /\ inHand[s] \in Task \cup {None}
  BY DEF TypeOK
<1>2. Listed(s) = Elements(tasks[s]) /\ Listed(s) \subseteq Task
  BY <1>1 DEF Listed, Elements
<1>3. stage[s] \in {"closed", "serving", "logout", "leaving"} => inHand[s] = None
  BY DEF TypeOK
<1>. QED
  BY <1>1, <1>2, <1>3 DEF Holding

LEMMA DownloadPrefixStep ==
  ASSUME TypeOK, DownloadPrefix, NEW s \in Sessions, Effect(s)
  PROVE  DownloadPrefix'
<1>. USE DEF DownloadPrefix, AllTasks, OthersHold
<1>1. CASE Keeps(s)
  BY <1>1 DEF Keeps
<1>2. ASSUME NEW t \in Task, Opens(s, t) PROVE DownloadPrefix'
  <2>1. t.acked = 1 .. t.transferred
    BY <1>2 DEF Opens
  <2>. QED
    BY <1>2, <2>1 DEF Opens
<1>3. ASSUME NEW T \in SUBSET Holding(s), Closes(s, T) PROVE DownloadPrefix'
  BY <1>3 DEF Closes
<1>4. ASSUME NEW t \in Holding(s), NEW u \in Task, Changes(s, t, u) PROVE DownloadPrefix'
  <2>1. t.transferred \in Nat
    BY HoldingType DEF Task
  <2>2. u.direction = "download" => u.acked = 1 .. u.transferred
    <3>1. SUFFICES ASSUME u.direction = "download" PROVE u.acked = 1 .. u.transferred
      OBVIOUS
    <3>2. t.acked = 1 .. t.transferred
      BY <1>4, <3>1 DEF Changes, Became
    <3>3. CASE Moved(t, u)
      <4>1. u.transferred = t.transferred + 1 /\ u.acked = t.acked \cup {t.transferred + 1}
        BY <1>4, <3>1, <3>3 DEF Changes, Became, Moved
      <4>2. 1 .. t.transferred + 1 = (1 .. t.transferred) \cup {t.transferred + 1}
        BY <2>1
      <4>. QED
        BY <3>2, <4>1, <4>2
    <3>4. CASE ~Moved(t, u)
      <4>1. Became(t, u)
        BY <1>4 DEF Changes
      <4>2. u.direction = t.direction /\ t.direction # "edit"
        BY <3>1, <4>1 DEF Became
      <4>3. u.transferred = t.transferred /\ u.acked = t.acked
        BY <3>4, <4>1, <4>2 DEF Became
      <4>. QED
        BY <3>2, <4>3
    <3>. QED
      BY <3>3, <3>4
  <2>. QED
    BY <1>4, <2>2 DEF Changes
<1>. QED
  BY <1>1, <1>2, <1>3, <1>4 DEF Effect

LEMMA KeptSafe ==
  ASSUME TypeOK, NEW t \in AllTasks, Safe(t), Kept(t)
  PROVE  SafeNext(t)
<1>1. t.acked \subseteq Blocks
  BY HoldingType DEF AllTasks, Task
<1>. QED
  BY <1>1 DEF Safe, SafeNext, Kept, KeptFile

LEMMA AckedStoredStep ==
  ASSUME TypeOK, Accounted, AckedStored, NEW s \in Sessions, Effect(s)
  PROVE  AckedStored'
<1>1. \A t \in AllTasks : Safe(t)
  BY DEF AckedStored, Safe
<1>2. SUFFICES \A t \in AllTasks' : SafeNext(t)
  BY DEF AckedStored, SafeNext
<1>3. CASE Keeps(s)
  BY <1>1, <1>3, KeptSafe DEF Keeps, AllTasks, OthersHold
<1>4. ASSUME NEW t \in Task, Opens(s, t) PROVE \A u \in AllTasks' : SafeNext(u)
  <2>1. SafeNext(t)
    BY <1>4 DEF Opens, SafeNext
  <2>2. AllTasks' = AllTasks \cup {t}
    BY <1>4 DEF Opens, AllTasks, OthersHold
  <2>. QED
    BY <1>1, <1>4, <2>1, <2>2, KeptSafe DEF Opens
<1>5. ASSUME NEW T \in SUBSET Holding(s), Closes(s, T) PROVE \A u \in AllTasks' : SafeNext(u)
  <2>1. \A u \in AllTasks' : u \in AllTasks \ T
    BY <1>5 DEF Closes, Accounted, AllTasks, OthersHold
  <2>. QED
    BY <1>1, <1>5, <2>1, KeptSafe DEF Closes
<1>6. ASSUME NEW t \in Holding(s), NEW u \in Task, Changes(s, t, u)
      PROVE  \A v \in AllTasks' : SafeNext(v)
  <2>1. t \in AllTasks
    BY DEF AllTasks
  <2>2. SafeNext(u)
    BY <1>1, <1>6, <2>1 DEF Changes, Became
  <2>3. \A v \in AllTasks' : v = u \/ v \in AllTasks \ {t}
    BY <1>6 DEF Changes, Accounted, AllTasks, OthersHold
  <2>. QED
    BY <1>1, <1>6, <2>2, <2>3, KeptSafe DEF Changes
<1>. QED
  BY <1>3, <1>4, <1>5, <1>6 DEF Effect

\* A task whose file is open no more was closed by this step.
LEMMA ClosedMeansStoredStep ==
  ASSUME TypeOK, Accounted, AckedStored, NEW s \in Sessions, Effect(s),
         NEW t \in AllTasks, t.direction # "download", t.file \notin open', NEW b \in t.acked
  PROVE  content'[t.inode][b] = t.sent[b] \/ <<t.file, b>> \in overwritten \cup refused'
<1>1. t.file \in open /\ b \in Blocks
  BY HoldingType DEF Accounted, AllTasks, Task
<1>2. b \notin t.buffered =>
        content[t.inode][b] = t.sent[b] \/ <<t.file, b>> \in overwritten \cup refused
  BY DEF AckedStored
<1>3. PICK T \in SUBSET Holding(s) : Closes(s, T)
  BY <1>1 DEF Effect, Keeps, Opens, Changes
<1>4. PICK u \in T : u.file = t.file
  BY <1>1, <1>3 DEF Closes
<1>5. u = t
  BY <1>4 DEF Accounted, AllTasks
<1>6. Written(t)
  BY <1>3, <1>4, <1>5 DEF Closes
<1>. QED
  BY <1>1, <1>2, <1>6 DEF Written

-----------------------------------------------------------------------------
(* What the steps have in common *)

FilesType ==
    /\ entry \in [Paths -> Inodes \cup {None}]
    /\ content \in [Inodes -> [Blocks -> Data \cup {None}]]
    /\ open \in SUBSET Handles
    /\ overwritten \in SUBSET (Handles \X Blocks) /\ refused \in SUBSET (Handles \X Blocks)

\* SessionsInv, for one session.
SessionOK(s) ==
    /\ stage[s] \in {"closed", "serving", "opened", "numbered",
                     "editing", "edited", "logout", "leaving"}
    /\ auth[s] \in BOOLEAN
    /\ perm[s] \in {"none", "ro", "rw"}
    /\ tasks[s] \in Seq(Task)
    /\ inHand[s] \in Task \cup {None}
    /\ inHand[s] # None <=> stage[s] \in {"opened", "numbered", "editing", "edited"}
    /\ stage[s] \in {"editing", "edited"} => inHand[s].direction = "edit"
    /\ taskCount[s] = Len(tasks[s])
    /\ taskCount[s] + (IF stage[s] \in {"opened", "numbered"} THEN 1 ELSE 0) <= MaxTransfers
    /\ ~auth[s] \/ stage[s] = "closed" => Holding(s) = {}
    /\ FilesDiffer(tasks[s]) /\ inHand[s] \notin Listed(s)

\* Only the session s may change.
OnlySession(s) ==
    /\ stage' = [stage EXCEPT ![s] = stage'[s]]
    /\ auth' = [auth EXCEPT ![s] = auth'[s]]
    /\ perm' = [perm EXCEPT ![s] = perm'[s]]
    /\ tasks' = [tasks EXCEPT ![s] = tasks'[s]]
    /\ taskCount' = [taskCount EXCEPT ![s] = taskCount'[s]]
    /\ inHand' = [inHand EXCEPT ![s] = inHand'[s]]

LEMMA SessionsInvParts ==
  ASSUME SessionsInv
  PROVE  /\ \A s \in Sessions : SessionOK(s)
         /\ FilesType /\ nextTaskId \in Nat
  BY DEF SessionsInv, TypeOK, TransferLimit, TransfersNeedLogin, ListsApart, SessionOK, FilesType

LEMMA OthersUntouched ==
  ASSUME SessionsInv, NEW s \in Sessions, OnlySession(s), NEW r \in Sessions, r # s
  PROVE  /\ stage'[r] = stage[r] /\ auth'[r] = auth[r] /\ perm'[r] = perm[r]
         /\ tasks'[r] = tasks[r] /\ taskCount'[r] = taskCount[r] /\ inHand'[r] = inHand[r]
         /\ Listed(r)' = Listed(r) /\ Holding(r)' = Holding(r)
<1>1. /\ stage'[r] = stage[r] /\ auth'[r] = auth[r] /\ perm'[r] = perm[r]
      /\ tasks'[r] = tasks[r] /\ taskCount'[r] = taskCount[r] /\ inHand'[r] = inHand[r]
  BY DEF OnlySession, SessionsInv, TypeOK
<1>. QED
  BY <1>1 DEF Listed, Holding

LEMMA SessionsInvStep ==
  ASSUME SessionsInv, NEW s \in Sessions, OnlySession(s),
         SessionOK(s)', FilesType', nextTaskId' \in Nat
  PROVE  SessionsInv' /\ OthersHold(s)
<1>1. \A r \in Sessions \ {s} : SessionOK(r)'
  <2>. SUFFICES ASSUME NEW r \in Sessions \ {s} PROVE SessionOK(r)'
    OBVIOUS
  <2>1. SessionOK(r)
    BY SessionsInvParts
  <2>. QED
    <3>1. /\ stage'[r] = stage[r] /\ auth'[r] = auth[r] /\ perm'[r] = perm[r]
          /\ tasks'[r] = tasks[r] /\ taskCount'[r] = taskCount[r] /\ inHand'[r] = inHand[r]
          /\ Listed(r)' = Listed(r) /\ Holding(r)' = Holding(r)
      BY OthersUntouched
    <3>. QED
      BY <2>1, <3>1 DEF SessionOK, FilesDiffer
<1>2. \A r \in Sessions : SessionOK(r)'
  BY <1>1
<1>3. TypeOK'
  <2>1. \A r \in Sessions : taskCount'[r] \in Int
    BY <1>2, LenProperties DEF SessionOK
  <2>. QED
    BY <1>2, <2>1 DEF SessionsInv, TypeOK, OnlySession, SessionOK, FilesType
<1>4. TransferLimit' /\ TransfersNeedLogin' /\ ListsApart'
  BY <1>2 DEF SessionOK, TransferLimit, TransfersNeedLogin, ListsApart
<1>. QED
  BY <1>3, <1>4, OthersUntouched DEF SessionsInv, OthersHold

\* A write of data through the FILE of t: what the file holds then, and that every other
\* FILE's blocks are kept or noted.
LEMMA Writing ==
  ASSUME SessionsInv, Accounted, NEW t \in AllTasks, NEW D,
         DOMAIN D \subseteq Blocks, \A b \in DOMAIN D : D[b] \in Data \cup {None},
         NEW anew \in SUBSET Blocks, Write(t, D, anew)
  PROVE  /\ content' \in [Inodes -> [Blocks -> Data \cup {None}]]
         /\ overwritten' \in SUBSET (Handles \X Blocks)
         /\ \A b \in Blocks : content'[t.inode][b] = IF b \in DOMAIN D THEN D[b]
                                                     ELSE content[t.inode][b]
         /\ \A b \in Blocks \ anew : <<t.file, b>> \in overwritten => <<t.file, b>> \in overwritten'
         /\ \A u \in AllTasks \ {t} : KeptFile(u)
<1>. USE DEF Write
<1>1. AllTasks \subseteq Task /\ \A u \in AllTasks \ {t} : u.file # t.file
  BY HoldingType DEF SessionsInv, AllTasks, Accounted
<1>2. t.inode \in Inodes /\ t.file \in Handles
  BY <1>1 DEF Task
<1>3. /\ content \in [Inodes -> [Blocks -> Data \cup {None}]]
      /\ overwritten \in SUBSET (Handles \X Blocks)
  BY SessionsInvParts DEF FilesType
<1>4. Laid(t.inode, D) \in [Blocks -> Data \cup {None}]
  BY <1>2, <1>3 DEF Laid
<1>5. content' \in [Inodes -> [Blocks -> Data \cup {None}]] /\ content'[t.inode] = Laid(t.inode, D)
  BY <1>2, <1>3, <1>4
<1>6. \A b \in Blocks : content'[t.inode][b] = IF b \in DOMAIN D THEN D[b]
                                               ELSE content[t.inode][b]
  BY <1>5 DEF Laid
<1>7. ASSUME NEW T \in SUBSET AllTasks, NEW B \in SUBSET Blocks
      PROVE  Told(T, B) \in SUBSET (Handles \X Blocks)
  <2>1. \A u \in T : u.file \in Handles
    BY <1>1 DEF Task
  <2>. QED
    BY <2>1 DEF Told
<1>8. overwritten' \in SUBSET (Handles \X Blocks)
  <2>1. Told(Beside(t), DOMAIN D) \in SUBSET (Handles \X Blocks)
    BY <1>7 DEF Beside
  <2>. QED
    BY <1>3, <2>1
<1>9. ASSUME NEW u \in AllTasks \ {t} PROVE KeptFile(u)
  <2>1. SUFFICES ASSUME u.direction # "download", NEW b \in u.acked \ u.buffered
                 PROVE  /\ <<u.file, b>> \in overwritten => <<u.file, b>> \in overwritten'
                        /\ \/ content'[u.inode][b] = content[u.inode][b]
                           \/ <<u.file, b>> \in overwritten'
    BY DEF KeptFile
  <2>2. u.inode \in Inodes /\ b \in Blocks /\ u.file # t.file
    BY <1>1 DEF Task
  <2>3. <<u.file, b>> \notin {t.file} \X anew
    BY <2>2
  <2>4. CASE u.inode # t.inode
    BY <1>3, <2>2, <2>3, <2>4
  <2>5. CASE u.inode = t.inode
    <3>1. CASE b \notin DOMAIN D
      BY <1>6, <2>2, <2>3, <2>5, <3>1
    <3>2. CASE b \in DOMAIN D
      <4>1. u \in {v \in Beside(t) : v.direction # "download"}
        BY <2>1, <2>5 DEF Beside
      <4>2. <<u.file, b>> \in {u.file} \X (DOMAIN D \cap (u.acked \ u.buffered))
        BY <3>2
      <4>3. <<u.file, b>> \in Told(Beside(t), DOMAIN D)
        BY <4>1, <4>2 DEF Told
      <4>. QED
        BY <2>3, <4>3
    <3>. QED
      BY <3>1, <3>2
  <2>. QED
    BY <2>4, <2>5
<1>10. \A b \in Blocks \ anew : <<t.file, b>> \in overwritten => <<t.file, b>> \in overwritten'
  OBVIOUS
<1>. QED
  BY <1>5, <1>6, <1>8, <1>9, <1>10

LEMMA GarbledType ==
  ASSUME NEW G, NEW D \in Garbled(G)
  PROVE  DOMAIN D \subseteq G /\ \A b \in DOMAIN D : D[b] \in Data
<1>1. PICK H \in SUBSET G : D \in [H -> Data]
  BY DEF Garbled
<1>. QED
  BY <1>1

LEMMA ClosingFile ==
  ASSUME SessionsInv, Accounted, NEW t \in AllTasks, CloseFile(t)
  PROVE  /\ FilesType'
         /\ open' = open \ {t.file}
         /\ \A u \in AllTasks \ {t} : Kept(u)
         /\ Written(t)
<1>. USE DEF CloseFile
<1>1. t \in Task /\ t.buffered \in SUBSET Blocks /\ t.file \in Handles
  BY HoldingType DEF SessionsInv, AllTasks, Task
<1>2. CASE Write(t, [b \in t.buffered |-> t.sent[b]], Blocks) /\ UNCHANGED refused
  <2>. DEFINE D == [b \in t.buffered |-> t.sent[b]]
  <2>1. /\ DOMAIN D = t.buffered
        /\ \A b \in DOMAIN D : D[b] = t.sent[b] /\ D[b] \in Data \cup {None}
    BY <1>1 DEF Task
  <2>2. Write(t, D, Blocks)
    BY <1>2
  <2>. HIDE DEF D
  <2>3. /\ content' \in [Inodes -> [Blocks -> Data \cup {None}]]
        /\ overwritten' \in SUBSET (Handles \X Blocks)
        /\ \A b \in Blocks : content'[t.inode][b] = IF b \in DOMAIN D THEN D[b]
                                                    ELSE content[t.inode][b]
        /\ \A u \in AllTasks \ {t} : KeptFile(u)
    BY <1>1, <2>1, <2>2, Writing
  <2>4. Written(t)
    BY <1>2, <2>1, <2>3 DEF Written
  <2>. QED
    BY <1>2, <2>3, <2>4, SessionsInvParts DEF FilesType, Kept
<1>3. ASSUME DiskCanFill /\ t.buffered # {}, NEW D \in Garbled(t.buffered), Write(t, D, Blocks),
             refused' = refused \cup ({t.file} \X t.buffered)
      PROVE  FilesType' /\ (\A u \in AllTasks \ {t} : Kept(u)) /\ Written(t)
  <2>1. DOMAIN D \subseteq t.buffered /\ \A b \in DOMAIN D : D[b] \in Data \cup {None}
    BY GarbledType
  <2>2. /\ content' \in [Inodes -> [Blocks -> Data \cup {None}]]
        /\ overwritten' \in SUBSET (Handles \X Blocks)
        /\ \A b \in Blocks : content'[t.inode][b] = IF b \in DOMAIN D THEN D[b]
                                                    ELSE content[t.inode][b]
        /\ \A u \in AllTasks \ {t} : KeptFile(u)
    BY <1>1, <1>3, <2>1, Writing
  <2>3. Written(t)
    BY <1>3, <2>1, <2>2 DEF Written
  <2>. QED
    BY <1>1, <1>3, <2>2, <2>3, SessionsInvParts DEF FilesType, Kept
<1>. QED
  BY <1>2, <1>3

LEMMA OpeningForWriting ==
  ASSUME SessionsInv, Accounted, NEW p \in Paths, NEW i \in Inodes, OpenForWriting(p, i)
  PROVE  /\ entry' \in [Paths -> Inodes \cup {None}]
         /\ content' \in [Inodes -> [Blocks -> Data \cup {None}]]
         /\ overwritten' \in SUBSET (Handles \X Blocks)
         /\ \A u \in AllTasks : KeptFile(u)
<1>. USE DEF OpenForWriting
<1>1. AllTasks \subseteq Task
  BY HoldingType DEF SessionsInv, AllTasks
<1>2. \A u \in AllTasks : u.file \in Handles /\ u.inode \in Inodes /\ u.acked \subseteq Blocks
  BY <1>1 DEF Task
<1>3. /\ entry' \in [Paths -> Inodes \cup {None}]
      /\ content' \in [Inodes -> [Blocks -> Data \cup {None}]]
  BY SessionsInvParts DEF FilesType
<1>. DEFINE T == {t \in AllTasks : t.inode = i}
<1>4. Told(T, Blocks) \in SUBSET (Handles \X Blocks)
  BY <1>2 DEF Told
<1>5. overwritten' \in SUBSET (Handles \X Blocks)
  BY <1>4, SessionsInvParts DEF FilesType
<1>6. ASSUME NEW u \in AllTasks PROVE KeptFile(u)
  <2>1. CASE u.inode # i
    <3>1. content'[u.inode] = content[u.inode]
      BY <1>2, <2>1, SessionsInvParts DEF FilesType
    <3>. QED
      BY <3>1 DEF KeptFile
  <2>2. CASE u.inode = i
    <3>1. ASSUME u.direction # "download", NEW b \in u.acked \ u.buffered
          PROVE  <<u.file, b>> \in overwritten'
      <4>1. u \in {v \in T : v.direction # "download"}
        BY <2>2, <3>1
      <4>2. <<u.file, b>> \in {u.file} \X (Blocks \cap (u.acked \ u.buffered))
        BY <1>2
      <4>3. <<u.file, b>> \in Told(T, Blocks)
        BY <4>1, <4>2 DEF Told
      <4>. QED
        BY <4>3
    <3>. QED
      BY <3>1 DEF KeptFile
  <2>. QED
    BY <2>1, <2>2
<1>. QED
  BY <1>3, <1>5, <1>6

-----------------------------------------------------------------------------
(* One lemma per handler: it preserves what concerns its session, and has an effect *)

\* Nothing happens to the files.
LEMMA FilesUntouched ==
  ASSUME SessionsInv, UNCHANGED fileVars
  PROVE  FilesType' /\ open' = open /\ \A t \in AllTasks : Kept(t)
  BY SessionsInvParts DEF fileVars, FilesType, Kept, KeptFile

\* A session that holds nothing is in order.
LEMMA EmptyHanded ==
  ASSUME NEW s \in Sessions, stage'[s] \in {"closed", "serving", "leaving"},
         auth'[s] \in BOOLEAN, perm'[s] \in {"none", "ro", "rw"},
         tasks'[s] = <<>>, taskCount'[s] = 0, inHand'[s] = None
  PROVE  SessionOK(s)' /\ Holding(s)' = {}
<1>1. Elements(<<>>) = {} /\ FilesDiffer(<<>>) /\ Len(<<>>) = 0 /\ <<>> \in Seq(Task)
  BY DEF Elements, FilesDiffer
<1>2. Listed(s)' = {} /\ Holding(s)' = {}
  BY <1>1 DEF Listed, Holding, Elements
<1>3. (FilesDiffer(tasks[s]) /\ inHand[s] \notin Listed(s))'
  BY <1>1, <1>2
<1>4. /\ taskCount'[s] = Len(tasks'[s])
      /\ taskCount'[s] + (IF stage'[s] \in {"opened", "numbered"} THEN 1 ELSE 0) <= MaxTransfers
  BY <1>1, TransfersAssumption
<1>. QED
  BY <1>1, <1>2, <1>3, <1>4 DEF SessionOK

LEMMA ConnectStep ==
  ASSUME SessionsInv, NEW s \in Sessions, Connect(s)
  PROVE  SessionsInv' /\ Effect(s)
<1>. USE DEF Connect, taskVars
<1>1. SessionOK(s) /\ inHand[s] = None /\ Holding(s) = {}
  BY SessionsInvParts, HoldingType DEF SessionsInv, SessionOK
<1>2. OnlySession(s)
  BY DEF OnlySession, SessionsInv, TypeOK
<1>3. /\ stage'[s] = "serving" /\ auth'[s] = FALSE /\ perm'[s] = "none"
      /\ tasks'[s] = <<>> /\ taskCount'[s] = 0 /\ inHand'[s] = None
  BY <1>1 DEF SessionsInv, TypeOK
<1>4. SessionOK(s)' /\ Holding(s)' = {}
  BY <1>3, EmptyHanded
<1>5. FilesType' /\ open' = open /\ \A t \in AllTasks : Kept(t)
  BY FilesUntouched
<1>6. SessionsInv' /\ OthersHold(s)
  BY <1>2, <1>4, <1>5, SessionsInvParts, SessionsInvStep
<1>. QED
  BY <1>1, <1>4, <1>5, <1>6 DEF Effect, Keeps

\* The task lists and the files are left alone.
LEMMA OnlyTheLogin ==
  ASSUME SessionsInv, NEW s \in Sessions, UNCHANGED <<taskVars, fileVars>>,
         OnlySession(s), SessionOK(s)'
  PROVE  SessionsInv' /\ Effect(s)
<1>1. FilesType' /\ open' = open /\ \A t \in AllTasks : Kept(t)
  BY FilesUntouched
<1>2. Holding(s)' = Holding(s)
  BY DEF taskVars, Holding, Listed
<1>3. SessionsInv' /\ OthersHold(s)
  BY <1>1, SessionsInvParts, SessionsInvStep DEF taskVars
<1>. QED
  BY <1>1, <1>2, <1>3 DEF Effect, Keeps

\* The session goes to stage g, with login a and permission q.
LEMMA OnlyTheStage ==
  ASSUME SessionsInv, NEW s \in Sessions, UNCHANGED <<taskVars, fileVars>>,
         stage[s] \in {"serving", "logout", "leaving"},
         NEW g \in {"closed", "serving", "logout", "leaving"}, NEW a \in BOOLEAN,
         NEW q \in {"none", "ro", "rw"},
         stage' = [stage EXCEPT ![s] = g], auth' = [auth EXCEPT ![s] = a],
         perm' = [perm EXCEPT ![s] = q],
         (~a /\ auth[s]) \/ g = "closed" => tasks[s] = <<>>
  PROVE  SessionsInv' /\ Effect(s)
<1>1. SessionOK(s) /\ inHand[s] = None
  BY SessionsInvParts, HoldingType DEF SessionsInv
<1>2. OnlySession(s)
  BY DEF OnlySession, taskVars, SessionsInv, TypeOK
<1>3. /\ stage'[s] = g /\ auth'[s] = a /\ perm'[s] = q
      /\ Holding(s)' = Holding(s) /\ Listed(s)' = Listed(s)
      /\ tasks'[s] = tasks[s] /\ taskCount'[s] = taskCount[s] /\ inHand'[s] = None
  BY <1>1 DEF SessionsInv, TypeOK, taskVars, Holding, Listed
<1>4. tasks[s] = <<>> => Holding(s) = {}
  BY <1>1 DEF Holding, Listed
<1>5. SessionOK(s)'
  BY <1>1, <1>3, <1>4 DEF SessionOK, FilesDiffer
<1>. QED
  BY <1>2, <1>5, OnlyTheLogin

\* The count of a session is within the limit, whatever its stage.
LEMMA CountWithinLimit ==
  ASSUME NEW s \in Sessions, SessionOK(s)
  PROVE  /\ taskCount[s] = Len(tasks[s]) /\ Len(tasks[s]) \in Nat
         /\ MaxTransfers \in Nat /\ taskCount[s] <= MaxTransfers
<1>1. tasks[s] \in Seq(Task) /\ taskCount[s] = Len(tasks[s])
      /\ taskCount[s] + (IF stage[s] \in {"opened", "numbered"} THEN 1 ELSE 0) <= MaxTransfers
  BY DEF SessionOK
<1>2. Len(tasks[s]) \in Nat /\ MaxTransfers \in Nat
  BY <1>1, LenProperties, TransfersAssumption
<1>3. taskCount[s] <= MaxTransfers
  <2>1. CASE stage[s] \in {"opened", "numbered"}
    <3>1. taskCount[s] + 1 <= MaxTransfers /\ taskCount[s] \in Nat
      BY <1>1, <1>2, <2>1, Zenon
    <3>. QED
      BY <1>2, <3>1
  <2>2. CASE stage[s] \notin {"opened", "numbered"}
    <3>1. taskCount[s] + 0 <= MaxTransfers /\ taskCount[s] \in Nat
      BY <1>1, <1>2, <2>2, Zenon
    <3>. QED
      BY <1>2, <3>1
  <2>. QED
    BY <2>1, <2>2
<1>. QED
  BY <1>1, <1>2, <1>3, Zenon

\* The task at position k is closed and taken out of the list.
LEMMA TaskCloses ==
  ASSUME SessionsInv, Accounted, NEW s \in Sessions, NEW k \in DOMAIN tasks[s],
         stage[s] \in {"serving", "logout", "leaving"},
         CloseFile(tasks[s][k]), RemoveTask(s, k), UNCHANGED <<sessionVars, inHand, nextTaskId>>
  PROVE  SessionsInv' /\ Effect(s)
<1>. DEFINE t == tasks[s][k]
<1>1. SessionOK(s) /\ inHand[s] = None /\ Holding(s) = Listed(s) /\ Listed(s) = Elements(tasks[s])
  BY SessionsInvParts, HoldingType DEF SessionsInv
<1>2. t \in Task /\ t \in Holding(s)
  BY <1>1 DEF SessionOK, Elements
<1>3. OnlySession(s)
  BY DEF OnlySession, RemoveTask, SessionsInv, TypeOK, sessionVars
<1>4. /\ stage'[s] = stage[s] /\ auth'[s] = auth[s] /\ perm'[s] = perm[s]
      /\ tasks'[s] = RemoveAt(tasks[s], k)
      /\ taskCount'[s] = taskCount[s] - 1 /\ inHand'[s] = None
  BY <1>1 DEF RemoveTask, SessionsInv, TypeOK, sessionVars
<1>5. /\ tasks'[s] \in Seq(Task) /\ Len(tasks'[s]) = Len(tasks[s]) - 1
      /\ Elements(tasks'[s]) = Listed(s) \ {t} /\ FilesDiffer(tasks'[s])
  BY <1>1, <1>4, RemoveTaskAt DEF SessionOK
<1>6. Listed(s)' = Listed(s) \ {t} /\ Holding(s)' = Holding(s) \ {t}
  BY <1>1, <1>4, <1>5 DEF Listed, Holding, Elements
<1>7. SessionOK(s)'
  <2>1. None \notin Listed(s)'
    BY <1>1, <1>6, NoneAssumption, HoldingType DEF SessionsInv
  <2>2. taskCount'[s] = Len(tasks'[s]) /\ taskCount'[s] + 0 <= MaxTransfers
    <3>1. Len(tasks'[s]) \in Nat
      BY <1>5, LenProperties
    <3>. QED
      BY <1>1, <1>4, <1>5, <3>1, CountWithinLimit
  <2>3. auth'[s] \in BOOLEAN /\ (~auth'[s] \/ stage'[s] = "closed" => Holding(s)' = {})
        /\ perm'[s] \in {"none", "ro", "rw"} /\ stage'[s] \in {"serving", "logout", "leaving"}
    BY <1>1, <1>4, <1>6 DEF SessionOK
  <2>4. inHand'[s] = None /\ inHand'[s] \notin Listed(s)'
    BY <1>4, <2>1
  <2>. QED
    BY <1>5, <2>2, <2>3, <2>4 DEF SessionOK
<1>8. t \in AllTasks
  BY <1>2 DEF AllTasks
<1>9. FilesType' /\ open' = open \ {t.file} /\ (\A u \in AllTasks \ {t} : Kept(u)) /\ Written(t)
  BY <1>8, ClosingFile
<1>10. SessionsInv' /\ OthersHold(s)
  BY <1>3, <1>7, <1>9, SessionsInvParts, SessionsInvStep
<1>11. Closes(s, {t})
  BY <1>6, <1>9, <1>10 DEF Closes
<1>. QED
  BY <1>2, <1>10, <1>11 DEF Effect

LEMMA SessionStepEffect ==
  ASSUME SessionsInv, Accounted, NEW s \in Sessions, SessionStep(s)
  PROVE  SessionsInv' /\ Effect(s)
<1>1. SessionOK(s) /\ auth \in [Sessions -> BOOLEAN] /\ perm \in [Sessions -> {"none", "ro", "rw"}]
  BY SessionsInvParts DEF SessionsInv, TypeOK
<1>2. auth = [auth EXCEPT ![s] = auth[s]] /\ perm = [perm EXCEPT ![s] = perm[s]]
      /\ stage = [stage EXCEPT ![s] = stage[s]]
  BY <1>1 DEF SessionsInv, TypeOK
<1>3. CASE Connect(s)
  BY <1>3, ConnectStep
<1>4. CASE ConnectionEnds(s) \/ Refuse(s)
  <2>1. UNCHANGED <<auth, perm, taskVars, fileVars>> /\ stage' = [stage EXCEPT ![s] = "leaving"]
        /\ stage[s] = "serving"
    BY <1>4 DEF ConnectionEnds, Refuse
  <2>2. auth' = [auth EXCEPT ![s] = auth[s]] /\ perm' = [perm EXCEPT ![s] = perm[s]]
    BY <1>2, <2>1
  <2>. QED
    BY <1>1, <2>1, <2>2, OnlyTheStage
<1>5. CASE Logout(s)
  <2>1. auth' = [auth EXCEPT ![s] = auth[s]] /\ perm' = [perm EXCEPT ![s] = perm[s]]
    BY <1>2, <1>5 DEF Logout
  <2>. QED
    BY <1>1, <1>5, <2>1, OnlyTheStage DEF Logout
<1>6. CASE LoggedOut(s)
  BY <1>6, OnlyTheStage DEF LoggedOut
<1>7. CASE Destroy(s)
  <2>1. auth' = [auth EXCEPT ![s] = auth[s]] /\ perm' = [perm EXCEPT ![s] = perm[s]]
    BY <1>2, <1>7 DEF Destroy
  <2>. QED
    BY <1>1, <1>7, <2>1, OnlyTheStage DEF Destroy
<1>8. CASE CleanupTask(s)
  <2>1. 1 \in DOMAIN tasks[s]
    BY <1>1, <1>8, EmptySeq, LenProperties DEF CleanupTask, SessionOK
  <2>. QED
    BY <1>8, <2>1, TaskCloses DEF CleanupTask
<1>9. ASSUME NEW p \in Perms, Login(s, p) PROVE SessionsInv' /\ Effect(s)
  <2>1. stage' = [stage EXCEPT ![s] = stage[s]] /\ p \in {"none", "ro", "rw"}
    BY <1>2, <1>9, TransfersAssumption DEF Login
  <2>2. UNCHANGED <<taskVars, fileVars>> /\ stage[s] = "serving"
        /\ auth' = [auth EXCEPT ![s] = TRUE] /\ perm' = [perm EXCEPT ![s] = p]
    BY <1>9 DEF Login
  <2>. QED
    BY <2>1, <2>2, OnlyTheStage
<1>. QED
  BY <1>3, <1>4, <1>5, <1>6, <1>7, <1>8, <1>9 DEF SessionStep

\* A handler has opened a file: h is new, the task t is in its hand.
LEMMA FileOpens ==
  ASSUME SessionsInv, Accounted, NEW s \in Sessions, stage[s] = "serving", auth[s],
         NEW h \in Handles, OpenHandle(h), NEW i \in Inodes,
         NEW d \in {"upload", "download", "edit"}, NEW g \in {"opened", "editing"},
         g = "opened" => taskCount[s] < MaxTransfers, g = "editing" => d = "edit",
         inHand' = [inHand EXCEPT ![s] = NewTask(d, i, h)],
         stage' = [stage EXCEPT ![s] = g],
         UNCHANGED <<auth, perm, tasks, taskCount, nextTaskId>>,
         entry' \in [Paths -> Inodes \cup {None}],
         content' \in [Inodes -> [Blocks -> Data \cup {None}]],
         overwritten' \in SUBSET (Handles \X Blocks),
         \A t \in AllTasks : KeptFile(t)
  PROVE  SessionsInv' /\ Effect(s)
<1>. DEFINE t == NewTask(d, i, h)
<1>1. /\ t \in Task /\ t.file = h /\ t.status = "running" /\ t.transferred = 0 /\ t.acked = {}
      /\ t.direction = d
  BY DEF NewTask, Task
<1>. HIDE DEF t
<1>2. t # None /\ h \notin open /\ open' = open \cup {h} /\ refused' = refused \ ({h} \X Blocks)
  BY <1>1, NoneAssumption DEF OpenHandle
<1>3. SessionOK(s) /\ inHand[s] = None
  BY SessionsInvParts, HoldingType DEF SessionsInv
<1>4. OnlySession(s)
  BY DEF OnlySession, SessionsInv, TypeOK
<1>5. /\ stage'[s] = g /\ auth'[s] = auth[s] /\ perm'[s] = perm[s]
      /\ tasks'[s] = tasks[s] /\ taskCount'[s] = taskCount[s] /\ inHand'[s] = t
  BY DEF SessionsInv, TypeOK, t
<1>6. Listed(s)' = Listed(s) /\ Holding(s)' = Holding(s) \cup {t}
  BY <1>2, <1>3, <1>5 DEF Listed, Holding
<1>7. \A u \in AllTasks : u.file \in open /\ u.file # h
  BY <1>2 DEF Accounted
<1>8. t \notin Listed(s)
  BY <1>1, <1>3, <1>7, HoldingType DEF SessionsInv, AllTasks
<1>9. SessionOK(s)'
  <2>1. taskCount'[s] = Len(tasks'[s])
        /\ taskCount'[s] + (IF stage'[s] \in {"opened", "numbered"} THEN 1 ELSE 0) <= MaxTransfers
    <3>1. taskCount[s] = Len(tasks[s]) /\ taskCount'[s] = taskCount[s] /\ tasks'[s] = tasks[s]
      BY <1>3, <1>5, CountWithinLimit
    <3>2. taskCount[s] \in Nat /\ MaxTransfers \in Nat /\ taskCount[s] <= MaxTransfers
      BY <1>3, CountWithinLimit
    <3>3. CASE g = "opened"
      <4>1. taskCount'[s] + 1 <= MaxTransfers
        BY <3>1, <3>2, <3>3
      <4>. QED
        BY <1>5, <3>1, <3>3, <4>1, Zenon
    <3>4. CASE g = "editing"
      <4>1. taskCount'[s] + 0 <= MaxTransfers
        BY <3>1, <3>2
      <4>2. stage'[s] \notin {"opened", "numbered"}
        BY <1>5, <3>4
      <4>. QED
        BY <3>1, <4>1, <4>2, Zenon
    <3>. QED
      BY <3>3, <3>4
  <2>2. FilesDiffer(tasks'[s]) /\ tasks'[s] \in Seq(Task)
    BY <1>3, <1>5 DEF SessionOK
  <2>3. auth'[s] \in BOOLEAN /\ perm'[s] \in {"none", "ro", "rw"} /\ auth'[s]
    BY <1>3, <1>5 DEF SessionOK
  <2>4. inHand'[s] \notin Listed(s)'
    BY <1>5, <1>6, <1>8
  <2>. QED
    BY <1>1, <1>2, <1>5, <2>1, <2>2, <2>3, <2>4 DEF SessionOK
<1>10. FilesType'
  BY <1>2, SessionsInvParts DEF FilesType
<1>11. \A u \in AllTasks : Kept(u)
  BY <1>2, <1>7 DEF Kept
<1>12. SessionsInv' /\ OthersHold(s)
  BY <1>4, <1>9, <1>10, SessionsInvParts, SessionsInvStep
<1>13. Opens(s, t)
  BY <1>1, <1>2, <1>6, <1>11, <1>12 DEF Opens
<1>. QED
  BY <1>1, <1>12, <1>13 DEF Effect

\* session_add_task fails, or an edit is over: the file in hand is closed.
LEMMA FileInHandCloses ==
  ASSUME SessionsInv, Accounted, NEW s \in Sessions,
         stage[s] \in {"opened", "edited"}, CloseFile(inHand[s]),
         inHand' = [inHand EXCEPT ![s] = None], stage' = [stage EXCEPT ![s] = "serving"],
         UNCHANGED <<auth, perm, tasks, taskCount, nextTaskId>>
  PROVE  SessionsInv' /\ Effect(s)
<1>. DEFINE t == inHand[s]
<1>1. SessionOK(s) /\ t # None /\ t \notin Listed(s)
  BY SessionsInvParts DEF SessionOK
<1>2. Holding(s) = Listed(s) \cup {t} /\ t \in Task
  BY <1>1, HoldingType DEF SessionsInv
<1>3. OnlySession(s)
  BY DEF OnlySession, SessionsInv, TypeOK
<1>4. /\ stage'[s] = "serving" /\ auth'[s] = auth[s] /\ perm'[s] = perm[s]
      /\ tasks'[s] = tasks[s] /\ taskCount'[s] = taskCount[s] /\ inHand'[s] = None
  BY DEF SessionsInv, TypeOK
<1>5. Listed(s)' = Listed(s) /\ Holding(s)' = Holding(s) \ {t}
  BY <1>1, <1>2, <1>4 DEF Listed, Holding
<1>6. SessionOK(s)'
  <2>1. None \notin Listed(s)
    BY NoneAssumption, HoldingType DEF SessionsInv
  <2>2. taskCount'[s] = Len(tasks'[s]) /\ taskCount'[s] + 0 <= MaxTransfers
    BY <1>1, <1>4, CountWithinLimit
  <2>3. FilesDiffer(tasks'[s]) /\ tasks'[s] \in Seq(Task)
    BY <1>1, <1>4 DEF SessionOK
  <2>4. auth'[s] \in BOOLEAN /\ auth'[s] /\ perm'[s] \in {"none", "ro", "rw"}
    BY <1>1, <1>2, <1>4 DEF SessionOK
  <2>5. inHand'[s] = None /\ inHand'[s] \notin Listed(s)'
    BY <1>4, <1>5, <2>1
  <2>. QED
    BY <1>4, <2>2, <2>3, <2>4, <2>5 DEF SessionOK
<1>7. t \in AllTasks
  BY <1>2 DEF AllTasks
<1>8. FilesType' /\ open' = open \ {t.file} /\ (\A u \in AllTasks \ {t} : Kept(u)) /\ Written(t)
  BY <1>7, ClosingFile
<1>9. SessionsInv' /\ OthersHold(s)
  BY <1>3, <1>6, <1>8, SessionsInvParts, SessionsInvStep
<1>10. Closes(s, {t})
  BY <1>5, <1>8, <1>9 DEF Closes
<1>. QED
  BY <1>2, <1>9, <1>10 DEF Effect

\* The task in hand becomes u.
LEMMA FileInHandChanges ==
  ASSUME SessionsInv, Accounted, NEW s \in Sessions, NEW u \in Task, NEW g,
         \/ stage[s] = "opened" /\ g = "numbered"
         \/ stage[s] = "editing" /\ g = "edited",
         Became(inHand[s], u),
         inHand' = [inHand EXCEPT ![s] = u], stage' = [stage EXCEPT ![s] = g],
         UNCHANGED <<auth, perm, tasks, taskCount, nextTaskId>>,
         FilesType', open' = open, \A v \in AllTasks \ {inHand[s]} : Kept(v)
  PROVE  SessionsInv' /\ Effect(s)
<1>. DEFINE t == inHand[s]
<1>1. SessionOK(s) /\ t # None /\ t \notin Listed(s)
  BY SessionsInvParts DEF SessionOK
<1>2. Holding(s) = Listed(s) \cup {t} /\ t \in Task
  BY <1>1, HoldingType DEF SessionsInv
<1>3. u.file = t.file /\ u.direction = t.direction /\ u # None
  BY NoneAssumption DEF Became
<1>4. OnlySession(s)
  BY DEF OnlySession, SessionsInv, TypeOK
<1>5. /\ stage'[s] = g /\ auth'[s] = auth[s] /\ perm'[s] = perm[s]
      /\ tasks'[s] = tasks[s] /\ taskCount'[s] = taskCount[s] /\ inHand'[s] = u
  BY DEF SessionsInv, TypeOK
<1>6. u \notin Listed(s)
  <2>1. \A v \in Listed(s) : v.file = t.file => v = t
    BY <1>2 DEF Accounted
  <2>. QED
    BY <1>1, <1>3, <2>1
<1>7. Listed(s)' = Listed(s) /\ Holding(s)' = (Holding(s) \ {t}) \cup {u}
  BY <1>1, <1>2, <1>3, <1>5, <1>6 DEF Listed, Holding
<1>8. SessionOK(s)'
  <2>1. /\ taskCount'[s] = Len(tasks'[s]) /\ FilesDiffer(tasks'[s]) /\ tasks'[s] \in Seq(Task)
        /\ taskCount'[s] + (IF stage'[s] \in {"opened", "numbered"} THEN 1 ELSE 0) <= MaxTransfers
    BY <1>1, <1>5 DEF SessionOK
  <2>2. auth[s]
    BY <1>1, <1>2 DEF SessionOK
  <2>3. g = "edited" => u.direction = "edit"
    BY <1>1, <1>3 DEF SessionOK
  <2>. QED
    BY <1>1, <1>3, <1>5, <1>6, <1>7, <2>1, <2>2, <2>3 DEF SessionOK
<1>9. SessionsInv' /\ OthersHold(s)
  BY <1>4, <1>8, SessionsInvParts, SessionsInvStep
<1>10. Changes(s, t, u)
  BY <1>7, <1>9 DEF Changes
<1>. QED
  BY <1>2, <1>9, <1>10 DEF Effect

LEMMA ReadTaskIdStep ==
  ASSUME SessionsInv, Accounted, NEW s \in Sessions, ReadTaskId(s)
  PROVE  SessionsInv' /\ Effect(s)
<1>. USE DEF ReadTaskId
<1>. DEFINE t == inHand[s]
            u == [inHand[s] EXCEPT !.id = nextTaskId]
<1>1. t \in Task
  BY SessionsInvParts, HoldingType DEF SessionsInv, SessionOK
<1>2. /\ u \in Task /\ u.file = t.file /\ u.inode = t.inode /\ u.direction = t.direction
      /\ u.status = t.status /\ u.transferred = t.transferred /\ u.acked = t.acked
      /\ u.buffered = t.buffered /\ u.sent = t.sent
  BY <1>1, SessionsInvParts DEF Task
<1>3. inHand' = [inHand EXCEPT ![s] = u]
  OBVIOUS
<1>. HIDE DEF u
<1>4. FilesType' /\ open' = open /\ \A v \in AllTasks : Kept(v)
  BY FilesUntouched
<1>5. Became(t, u)
  BY <1>2 DEF Became, Safe, SafeNext, fileVars
<1>. QED
  BY <1>2, <1>3, <1>4, <1>5, FileInHandChanges

LEMMA AddTaskStep ==
  ASSUME SessionsInv, Accounted, NEW s \in Sessions, AddTask(s)
  PROVE  SessionsInv' /\ Effect(s)
<1>. USE DEF AddTask
<1>. DEFINE t == inHand[s]
<1>1. SessionOK(s) /\ t # None /\ t \notin Listed(s)
  BY SessionsInvParts DEF SessionOK
<1>2. Holding(s) = Listed(s) \cup {t} /\ t \in Task /\ Listed(s) = Elements(tasks[s])
  BY <1>1, HoldingType DEF SessionsInv
<1>3. OnlySession(s)
  BY DEF OnlySession, SessionsInv, TypeOK
<1>4. /\ stage'[s] = "serving" /\ auth'[s] = auth[s] /\ perm'[s] = perm[s]
      /\ tasks'[s] = <<t>> \o tasks[s] /\ taskCount'[s] = taskCount[s] + 1 /\ inHand'[s] = None
  BY DEF SessionsInv, TypeOK
<1>5. \A u \in Elements(tasks[s]) : u.file # t.file
  BY <1>1, <1>2 DEF Accounted
<1>6. /\ tasks'[s] \in Seq(Task) /\ Len(tasks'[s]) = Len(tasks[s]) + 1
      /\ Elements(tasks'[s]) = Listed(s) \cup {t} /\ FilesDiffer(tasks'[s])
  BY <1>1, <1>2, <1>4, <1>5, ConsTask DEF SessionOK
<1>7. Listed(s)' = Listed(s) \cup {t} /\ Holding(s)' = Holding(s)
  BY <1>2, <1>4, <1>6 DEF Listed, Holding, Elements
<1>8. SessionOK(s)'
  <2>1. None \notin Listed(s)'
    BY <1>2, <1>7, NoneAssumption, HoldingType DEF SessionsInv
  <2>2. taskCount'[s] = Len(tasks'[s]) /\ taskCount'[s] <= MaxTransfers
    BY <1>1, <1>4, <1>6, LenProperties, TransfersAssumption DEF SessionOK
  <2>3. auth[s] /\ Len(tasks'[s]) \in Nat
    BY <1>1, <1>2, <1>6, LenProperties DEF SessionOK
  <2>. QED
    BY <1>1, <1>4, <1>6, <2>1, <2>2, <2>3 DEF SessionOK
<1>9. FilesType' /\ open' = open /\ \A v \in AllTasks : Kept(v)
  BY FilesUntouched
<1>10. nextTaskId' \in Nat
  BY <1>2 DEF Task
<1>11. SessionsInv' /\ OthersHold(s)
  BY <1>3, <1>8, <1>9, <1>10, SessionsInvStep
<1>. QED
  BY <1>7, <1>9, <1>11 DEF Effect, Keeps

LEMMA StartStepEffect ==
  ASSUME SessionsInv, Accounted, NEW s \in Sessions, StartStep(s)
  PROVE  SessionsInv' /\ Effect(s)
<1>1. ASSUME NEW p \in Paths, UploadStart(s, p) PROVE SessionsInv' /\ Effect(s)
  <2>1. PICK i \in Inodes, h \in Handles :
          /\ OpenForWriting(p, i)
          /\ OpenHandle(h)
          /\ inHand' = [inHand EXCEPT ![s] = NewTask("upload", i, h)]
    BY <1>1 DEF UploadStart
  <2>. QED
    BY <1>1, <2>1, FileOpens, OpeningForWriting DEF UploadStart, MayStart
<1>2. ASSUME NEW p \in Paths, DownloadStart(s, p) PROVE SessionsInv' /\ Effect(s)
  <2>1. PICK h \in Handles :
          /\ OpenHandle(h)
          /\ inHand' = [inHand EXCEPT ![s] = NewTask("download", entry[p], h)]
    BY <1>2 DEF DownloadStart
  <2>2. entry[p] \in Inodes
    BY <1>2, SessionsInvParts DEF DownloadStart, FilesType
  <2>3. \A t \in AllTasks : KeptFile(t)
    BY <1>2 DEF DownloadStart, KeptFile
  <2>4. /\ entry' \in [Paths -> Inodes \cup {None}]
        /\ content' \in [Inodes -> [Blocks -> Data \cup {None}]]
        /\ overwritten' \in SUBSET (Handles \X Blocks)
    BY <1>2, SessionsInvParts DEF DownloadStart, FilesType
  <2>. QED
    BY <1>2, <2>1, <2>2, <2>3, <2>4, FileOpens DEF DownloadStart, MayStart
<1>3. CASE AddTaskFails(s)
  BY <1>3, FileInHandCloses DEF AddTaskFails
<1>. QED
  BY <1>1, <1>2, <1>3, ReadTaskIdStep, AddTaskStep DEF StartStep

\* The handlers find a task with the id they look for.
LEMMA FoundTask ==
  ASSUME SessionsInv, NEW s \in Sessions, NEW id, Found(s, id)
  PROVE  /\ Position(s, id) \in DOMAIN tasks[s] /\ tasks[s][Position(s, id)].id = id
         /\ tasks[s][Position(s, id)] \in Task /\ tasks[s][Position(s, id)] \in Holding(s)
         /\ stage[s] = "serving" /\ auth[s] /\ inHand[s] = None
<1>1. SessionOK(s) /\ stage[s] = "serving" /\ auth[s] /\ inHand[s] = None
  BY SessionsInvParts DEF Found, SessionOK
<1>2. Matches(s, id) \in SUBSET Nat /\ Matches(s, id) # {}
  BY <1>1, LenProperties DEF Found, Matches, SessionOK
<1>3. \E m \in Matches(s, id) : \A k \in Matches(s, id) : m <= k
  BY <1>2, Smallest
<1>4. Position(s, id) \in Matches(s, id)
  BY <1>3, Zenon DEF Position
<1>5. Position(s, id) \in DOMAIN tasks[s] /\ tasks[s][Position(s, id)].id = id
  BY <1>4 DEF Matches
<1>6. tasks[s][Position(s, id)] \in Task /\ tasks[s][Position(s, id)] \in Holding(s)
  BY <1>1, <1>5, HoldingType DEF SessionsInv, Elements, SessionOK
<1>. QED
  BY <1>1, <1>5, <1>6

\* One task of a list changes, its file does not.
LEMMA ListedTaskChanges ==
  ASSUME SessionsInv, Accounted, NEW s \in Sessions, NEW id, Found(s, id),
         NEW u \in Task, Became(tasks[s][Position(s, id)], u),
         tasks' = [tasks EXCEPT ![s] = [tasks[s] EXCEPT ![Position(s, id)] = u]],
         UNCHANGED <<sessionVars, taskCount, inHand, nextTaskId>>,
         FilesType', open' = open, \A v \in AllTasks \ {tasks[s][Position(s, id)]} : Kept(v)
  PROVE  SessionsInv' /\ Effect(s)
<1>. DEFINE k == Position(s, id)
            t == tasks[s][k]
<1>1. /\ k \in DOMAIN tasks[s] /\ t \in Task /\ t \in Holding(s)
      /\ stage[s] = "serving" /\ auth[s] /\ inHand[s] = None
  BY FoundTask
<1>2. SessionOK(s) /\ Holding(s) = Listed(s) /\ Listed(s) = Elements(tasks[s])
  BY <1>1, SessionsInvParts, HoldingType DEF SessionsInv
<1>. HIDE DEF k
<1>3. OnlySession(s)
  BY DEF OnlySession, SessionsInv, TypeOK, sessionVars
<1>4. /\ stage'[s] = stage[s] /\ auth'[s] = auth[s] /\ perm'[s] = perm[s]
      /\ tasks'[s] = [tasks[s] EXCEPT ![k] = u]
      /\ taskCount'[s] = taskCount[s] /\ inHand'[s] = None
  BY <1>1 DEF SessionsInv, TypeOK, sessionVars, k
<1>5. u.file = t.file
  BY DEF Became, k
<1>6. /\ tasks'[s] \in Seq(Task) /\ Len(tasks'[s]) = Len(tasks[s])
      /\ Elements(tasks'[s]) = (Listed(s) \ {t}) \cup {u} /\ FilesDiffer(tasks'[s])
  <2>1. tasks[s] \in Seq(Task) /\ FilesDiffer(tasks[s])
    BY <1>2 DEF SessionOK
  <2>2. /\ [tasks[s] EXCEPT ![k] = u] \in Seq(Task)
        /\ Len([tasks[s] EXCEPT ![k] = u]) = Len(tasks[s])
        /\ Elements([tasks[s] EXCEPT ![k] = u]) = (Elements(tasks[s]) \ {t}) \cup {u}
        /\ FilesDiffer([tasks[s] EXCEPT ![k] = u])
    BY <1>1, <1>5, <2>1, ReplaceTask
  <2>. QED
    BY <1>2, <1>4, <2>2
<1>7. Listed(s)' = (Listed(s) \ {t}) \cup {u} /\ Holding(s)' = (Holding(s) \ {t}) \cup {u}
  BY <1>2, <1>4, <1>6 DEF Listed, Holding, Elements
<1>8. SessionOK(s)'
  <2>1. None \notin Listed(s)'
    BY <1>2, <1>7, NoneAssumption, HoldingType DEF SessionsInv
  <2>2. taskCount'[s] = Len(tasks'[s]) /\ taskCount'[s] <= MaxTransfers /\ Len(tasks'[s]) \in Nat
    BY <1>1, <1>2, <1>4, <1>6, LenProperties, TransfersAssumption DEF SessionOK
  <2>. QED
    BY <1>1, <1>2, <1>4, <1>6, <2>1, <2>2 DEF SessionOK
<1>9. SessionsInv' /\ OthersHold(s)
  BY <1>3, <1>8, SessionsInvParts, SessionsInvStep
<1>10. Changes(s, t, u)
  BY <1>7, <1>9 DEF Changes, k
<1>. QED
  BY <1>1, <1>9, <1>10 DEF Effect

LEMMA UploadDataStep ==
  ASSUME SessionsInv, Accounted, NEW s \in Sessions, NEW id, NEW b \in Blocks, NEW d \in Data,
         UploadData(s, id, b, d)
  PROVE  SessionsInv' /\ Effect(s)
<1>. DEFINE k == Position(s, id)
            t == tasks[s][k]
<1>1. Found(s, id) /\ t \in Task /\ t \in Holding(s) /\ t.direction = "upload" /\ t.status = "running"
  BY FoundTask DEF UploadData
<1>2. PICK kept \in {{}, {b}} :
        /\ Write(t, [c \in t.buffered \cup ({b} \ kept) |->
                         IF c \in {b} \ kept THEN d ELSE t.sent[c]], {b})
        /\ Tell(s, k, b, d, kept)
  BY DEF UploadData
<1>. DEFINE n == t.transferred + 1
            A == t.acked \cup {b}
            S == [t.sent EXCEPT ![b] = d]
            D == [c \in t.buffered \cup ({b} \ kept) |-> IF c \in {b} \ kept THEN d ELSE t.sent[c]]
            u == [t EXCEPT !.transferred = n, !.acked = A, !.sent = S, !.buffered = kept]
<1>3. /\ n \in Nat /\ A \in SUBSET Blocks /\ kept \in SUBSET Blocks /\ t.buffered \subseteq Blocks
      /\ S \in [Blocks -> Data \cup {None}]
      /\ \A c \in Blocks : S[c] = IF c = b THEN d ELSE t.sent[c]
  BY <1>1 DEF Task
<1>4. tasks' = [tasks EXCEPT ![s] = [tasks[s] EXCEPT ![k] = u]]
  BY <1>2 DEF Tell
<1>5. /\ UNCHANGED <<sessionVars, taskCount, inHand, nextTaskId, entry, open>>
      /\ refused' = refused \ {<<t.file, b>>}
  BY DEF UploadData
<1>6. /\ DOMAIN D = t.buffered \cup ({b} \ kept)
      /\ \A c \in DOMAIN D : D[c] = IF c \in {b} \ kept THEN d ELSE t.sent[c]
      /\ \A c \in DOMAIN D : D[c] \in Data \cup {None}
  BY <1>1, <1>3 DEF Task
<1>7. Write(t, D, {b}) /\ t \in AllTasks /\ DOMAIN D \subseteq Blocks
  BY <1>1, <1>2, <1>3, <1>6 DEF AllTasks
<1>. HIDE DEF k, n, A, S, D
<1>8. /\ u \in Task /\ u.file = t.file /\ u.inode = t.inode /\ u.direction = t.direction
      /\ u.status = "running" /\ u.transferred = n /\ u.acked = A /\ u.buffered = kept
      /\ u.sent = S
  BY <1>1, <1>3 DEF Task
<1>. HIDE DEF u
<1>9. /\ content' \in [Inodes -> [Blocks -> Data \cup {None}]]
      /\ overwritten' \in SUBSET (Handles \X Blocks)
      /\ \A c \in Blocks : content'[t.inode][c] = IF c \in DOMAIN D THEN D[c]
                                                  ELSE content[t.inode][c]
      /\ \A c \in Blocks \ {b} : <<t.file, c>> \in overwritten => <<t.file, c>> \in overwritten'
      /\ \A v \in AllTasks \ {t} : KeptFile(v)
  BY <1>6, <1>7, Writing
<1>10. FilesType'
  BY <1>5, <1>9, SessionsInvParts DEF FilesType
<1>11. Moved(t, u)
  BY <1>1, <1>8 DEF Moved, n, A
<1>12. ASSUME Safe(t), NEW c \in u.acked \ u.buffered
       PROVE  content'[u.inode][c] = u.sent[c] \/ <<u.file, c>> \in overwritten' \cup refused'
  <2>1. c \in Blocks /\ c \in A \ kept
    BY <1>3, <1>8, <1>12
  <2>2. CASE c = b
    BY <1>3, <1>6, <1>8, <1>9, <2>1, <2>2
  <2>3. CASE c # b
    <3>1. c \in t.acked /\ S[c] = t.sent[c]
      BY <1>3, <2>1, <2>3 DEF A
    <3>2. CASE c \in t.buffered
      BY <1>6, <1>8, <1>9, <2>1, <2>3, <3>1, <3>2
    <3>3. CASE c \notin t.buffered
      <4>1. content'[t.inode][c] = content[t.inode][c]
        BY <1>6, <1>9, <2>1, <2>3, <3>3
      <4>2. content[t.inode][c] = t.sent[c] \/ <<t.file, c>> \in overwritten \cup refused
        BY <1>1, <1>12, <3>1, <3>3 DEF Safe
      <4>3. <<t.file, c>> \in overwritten \cup refused => <<t.file, c>> \in overwritten' \cup refused'
        BY <1>5, <1>9, <2>1, <2>3
      <4>. QED
        BY <1>8, <3>1, <4>1, <4>2, <4>3
    <3>. QED
      BY <3>2, <3>3
  <2>. QED
    BY <2>2, <2>3
<1>13. Became(t, u)
  BY <1>8, <1>11, <1>12 DEF Became, SafeNext
<1>14. \A v \in AllTasks \ {t} : Kept(v)
  <2>1. \A v \in AllTasks \ {t} : v.file # t.file
    BY <1>7 DEF Accounted, AllTasks
  <2>. QED
    BY <1>5, <1>9, <2>1 DEF Kept
<1>. QED
  BY <1>1, <1>4, <1>5, <1>8, <1>10, <1>13, <1>14, ListedTaskChanges DEF k

LEMMA UploadDataMisplacedStep ==
  ASSUME SessionsInv, Accounted, NEW s \in Sessions, NEW id, NEW b \in Blocks, NEW d \in Data,
         UploadDataMisplaced(s, id, b, d)
  PROVE  SessionsInv' /\ Effect(s)
<1>. DEFINE k == Position(s, id)
            t == tasks[s][k]
<1>1. Found(s, id) /\ t \in Task /\ t \in Holding(s) /\ t.direction = "upload" /\ t.status = "running"
  BY FoundTask DEF UploadDataMisplaced
<1>2. PICK D \in Garbled(Adrift(t)) : Write(t, D, {})
  BY DEF UploadDataMisplaced
<1>. DEFINE n == t.transferred + 1
            A == t.acked \cup {b}
            S == [t.sent EXCEPT ![b] = d]
            u == [t EXCEPT !.transferred = n, !.acked = A, !.sent = S, !.buffered = {}]
<1>3. /\ n \in Nat /\ A \in SUBSET Blocks /\ t.buffered \subseteq Blocks
      /\ S \in [Blocks -> Data \cup {None}]
      /\ \A c \in Blocks : S[c] = IF c = b THEN d ELSE t.sent[c]
  BY <1>1 DEF Task
<1>4. tasks' = [tasks EXCEPT ![s] = [tasks[s] EXCEPT ![k] = u]]
  BY DEF Tell, UploadDataMisplaced
<1>5. /\ UNCHANGED <<sessionVars, taskCount, inHand, nextTaskId, entry, open>>
      /\ refused' = refused \cup ({t.file} \X (Adrift(t) \cup {b}))
  BY DEF UploadDataMisplaced
<1>6. /\ Adrift(t) \subseteq Blocks /\ t.buffered \subseteq Adrift(t)
      /\ DOMAIN D \subseteq Adrift(t) /\ \A c \in DOMAIN D : D[c] \in Data \cup {None}
  BY <1>3, GarbledType DEF Adrift
<1>7. t \in AllTasks /\ DOMAIN D \subseteq Blocks
  BY <1>1, <1>6 DEF AllTasks
<1>. HIDE DEF k, n, A, S
<1>8. /\ u \in Task /\ u.file = t.file /\ u.inode = t.inode /\ u.direction = t.direction
      /\ u.status = "running" /\ u.transferred = n /\ u.acked = A /\ u.buffered = {}
      /\ u.sent = S
  BY <1>1, <1>3 DEF Task
<1>. HIDE DEF u
<1>9. /\ content' \in [Inodes -> [Blocks -> Data \cup {None}]]
      /\ overwritten' \in SUBSET (Handles \X Blocks)
      /\ \A c \in Blocks : content'[t.inode][c] = IF c \in DOMAIN D THEN D[c]
                                                  ELSE content[t.inode][c]
      /\ \A c \in Blocks \ {} : <<t.file, c>> \in overwritten => <<t.file, c>> \in overwritten'
      /\ \A v \in AllTasks \ {t} : KeptFile(v)
  BY <1>2, <1>6, <1>7, Writing
<1>10. FilesType'
  <2>1. refused' \in SUBSET (Handles \X Blocks)
    BY <1>1, <1>5, <1>6, SessionsInvParts DEF FilesType, Task
  <2>. QED
    BY <1>5, <1>9, <2>1, SessionsInvParts DEF FilesType
<1>11. Moved(t, u)
  BY <1>1, <1>8 DEF Moved, n, A
<1>12. ASSUME Safe(t), NEW c \in u.acked \ u.buffered
       PROVE  content'[u.inode][c] = u.sent[c] \/ <<u.file, c>> \in overwritten' \cup refused'
  <2>1. c \in Blocks /\ c \in A
    BY <1>3, <1>8, <1>12
  <2>2. CASE c \in Adrift(t) \cup {b}
    BY <1>5, <1>8, <2>2
  <2>3. CASE c \notin Adrift(t) \cup {b}
    <3>1. c \in t.acked /\ S[c] = t.sent[c] /\ c \notin t.buffered /\ c \notin DOMAIN D
      BY <1>3, <1>6, <2>1, <2>3 DEF A
    <3>2. content'[t.inode][c] = content[t.inode][c]
      BY <1>9, <2>1, <3>1
    <3>3. content[t.inode][c] = t.sent[c] \/ <<t.file, c>> \in overwritten \cup refused
      BY <1>1, <1>12, <3>1 DEF Safe
    <3>. QED
      BY <1>5, <1>8, <1>9, <2>1, <3>1, <3>2, <3>3
  <2>. QED
    BY <2>2, <2>3
<1>13. Became(t, u)
  BY <1>8, <1>11, <1>12 DEF Became, SafeNext
<1>14. \A v \in AllTasks \ {t} : Kept(v)
  BY <1>5, <1>9 DEF Kept
<1>. QED
  BY <1>1, <1>4, <1>5, <1>8, <1>10, <1>13, <1>14, ListedTaskChanges DEF k

\* After a failed write through the FILE of t: E is what was written, R are the blocks
\* that the disk refused.
TakenInPart(t, E, R) ==
    /\ R \in SUBSET Blocks
    /\ Write(t, E, {}) /\ refused' = refused \cup ({t.file} \X R)
    /\ DOMAIN E \subseteq Blocks /\ \A c \in DOMAIN E : E[c] \in Data \cup {None}
    /\ \A c \in t.acked \ R : c \in t.buffered => c \in DOMAIN E
    /\ \A c \in t.acked \ R : c \in DOMAIN E => E[c] = t.sent[c] /\ c \in t.buffered

LEMMA UploadDataFailsStep ==
  ASSUME SessionsInv, Accounted, NEW s \in Sessions, NEW id, NEW b \in Blocks,
         UploadDataFails(s, id, b)
  PROVE  SessionsInv' /\ Effect(s)
<1>. DEFINE k == Position(s, id)
            t == tasks[s][k]
            u == [t EXCEPT !.buffered = {}]
<1>1. Found(s, id) /\ t \in Task /\ t \in Holding(s) /\ t.direction = "upload"
  BY FoundTask DEF UploadDataFails
<1>2. t.buffered \subseteq Blocks /\ t \in AllTasks /\ t.file \in Handles /\ t.acked \subseteq Blocks
      /\ t.sent \in [Blocks -> Data \cup {None}]
  BY <1>1 DEF AllTasks, Task
<1>3. tasks' = [tasks EXCEPT ![s] = [tasks[s] EXCEPT ![k] = u]]
  BY DEF UploadDataFails
<1>4. UNCHANGED <<sessionVars, taskCount, inHand, nextTaskId, entry, open>>
  BY DEF UploadDataFails
<1>5. \/ \E D \in Garbled({b}) :
            /\ Write(t, [c \in DOMAIN D \cup t.buffered |-> IF c \in DOMAIN D THEN D[c] ELSE t.sent[c]], {})
            /\ refused' = refused \cup ({t.file} \X (DOMAIN D \cap t.acked))
      \/ \E D \in Garbled(Adrift(t)) :
            Write(t, D, {}) /\ refused' = refused \cup ({t.file} \X Adrift(t))
  BY DEF UploadDataFails
<1>6. \E E, R : TakenInPart(t, E, R)
  <2>1. ASSUME NEW D \in Garbled({b}),
               Write(t, [c \in DOMAIN D \cup t.buffered |-> IF c \in DOMAIN D THEN D[c] ELSE t.sent[c]], {}),
               refused' = refused \cup ({t.file} \X (DOMAIN D \cap t.acked))
        PROVE  \E E, R : TakenInPart(t, E, R)
    <3>. DEFINE E == [c \in DOMAIN D \cup t.buffered |-> IF c \in DOMAIN D THEN D[c] ELSE t.sent[c]]
                R == DOMAIN D \cap t.acked
    <3>1. DOMAIN D \subseteq {b} /\ \A c \in DOMAIN D : D[c] \in Data
      BY GarbledType
    <3>2. /\ DOMAIN E = DOMAIN D \cup t.buffered
          /\ \A c \in DOMAIN E : E[c] = IF c \in DOMAIN D THEN D[c] ELSE t.sent[c]
      OBVIOUS
    <3>3. Write(t, E, {}) /\ refused' = refused \cup ({t.file} \X R) /\ R \in SUBSET Blocks
      BY <1>2, <2>1
    <3>. HIDE DEF E
    <3>4. /\ DOMAIN E \subseteq Blocks /\ \A c \in DOMAIN E : E[c] \in Data \cup {None}
      BY <1>2, <3>1, <3>2
    <3>5. /\ \A c \in t.acked \ R : c \in t.buffered => c \in DOMAIN E
          /\ \A c \in t.acked \ R : c \in DOMAIN E => E[c] = t.sent[c] /\ c \in t.buffered
      BY <3>2
    <3>. HIDE DEF R
    <3>6. TakenInPart(t, E, R)
      BY <3>3, <3>4, <3>5 DEF TakenInPart
    <3>. QED
      BY <3>6, Zenon
  <2>2. ASSUME NEW D \in Garbled(Adrift(t)),
               Write(t, D, {}), refused' = refused \cup ({t.file} \X Adrift(t))
        PROVE  \E E, R : TakenInPart(t, E, R)
    <3>1. /\ Adrift(t) \subseteq Blocks /\ t.buffered \subseteq Adrift(t)
          /\ DOMAIN D \subseteq Adrift(t) /\ \A c \in DOMAIN D : D[c] \in Data \cup {None}
      BY <1>2, GarbledType DEF Adrift
    <3>2. TakenInPart(t, D, Adrift(t))
      BY <2>2, <3>1 DEF TakenInPart
    <3>. QED
      BY <3>2, Zenon
  <2>. QED
    BY <1>5, <2>1, <2>2, Zenon
<1>7. PICK E, R : TakenInPart(t, E, R)
  BY <1>6, Zenon
<1>8. /\ Write(t, E, {})
      /\ DOMAIN E \subseteq Blocks /\ \A c \in DOMAIN E : E[c] \in Data \cup {None}
  BY <1>7 DEF TakenInPart
<1>9. refused' = refused \cup ({t.file} \X R) /\ R \in SUBSET Blocks
  BY <1>7 DEF TakenInPart
<1>10. /\ \A c \in t.acked \ R : c \in t.buffered => c \in DOMAIN E
       /\ \A c \in t.acked \ R : c \in DOMAIN E => E[c] = t.sent[c] /\ c \in t.buffered
  BY <1>7 DEF TakenInPart
<1>. HIDE DEF k, t
<1>11. /\ u \in Task /\ u.file = t.file /\ u.inode = t.inode /\ u.direction = t.direction
       /\ u.transferred = t.transferred /\ u.acked = t.acked /\ u.buffered = {} /\ u.sent = t.sent
  BY <1>1 DEF Task
<1>. HIDE DEF u
<1>12. /\ content' \in [Inodes -> [Blocks -> Data \cup {None}]]
       /\ overwritten' \in SUBSET (Handles \X Blocks)
       /\ \A c \in Blocks : content'[t.inode][c] = IF c \in DOMAIN E THEN E[c]
                                                   ELSE content[t.inode][c]
       /\ \A c \in Blocks \ {} : <<t.file, c>> \in overwritten => <<t.file, c>> \in overwritten'
       /\ \A v \in AllTasks \ {t} : KeptFile(v)
  <2>1. t \in AllTasks /\ {} \in SUBSET Blocks
    BY <1>2
  <2>. QED
    BY <1>8, <2>1, Writing, Zenon
<1>13. FilesType'
  <2>1. refused' \in SUBSET (Handles \X Blocks)
    BY <1>2, <1>9, SessionsInvParts DEF FilesType
  <2>. QED
    BY <1>4, <1>12, <2>1, SessionsInvParts DEF FilesType
<1>14. ASSUME Safe(t), NEW c \in t.acked
       PROVE  content'[t.inode][c] = t.sent[c] \/ <<t.file, c>> \in overwritten' \cup refused'
  <2>1. c \in Blocks
    BY <1>2
  <2>2. CASE c \in R
    BY <1>9, <2>2
  <2>3. CASE c \notin R /\ c \in DOMAIN E
    BY <1>12, <1>10, <2>1, <2>3
  <2>4. CASE c \notin R /\ c \notin DOMAIN E
    <3>1. content'[t.inode][c] = content[t.inode][c]
      BY <1>12, <2>1, <2>4, Zenon
    <3>2. c \notin t.buffered
      BY <1>14, <1>10, <2>4
    <3>3. content[t.inode][c] = t.sent[c] \/ <<t.file, c>> \in overwritten \cup refused
      BY <1>1, <1>14, <3>2 DEF Safe
    <3>. QED
      <4>1. <<t.file, c>> \in overwritten => <<t.file, c>> \in overwritten'
        BY <1>12, <2>1, Zenon
      <4>2. <<t.file, c>> \in refused => <<t.file, c>> \in refused'
        BY <1>9
      <4>. QED
        BY <3>1, <3>3, <4>1, <4>2
  <2>. QED
    BY <2>2, <2>3, <2>4
<1>15. Became(t, u)
  BY <1>11, <1>14 DEF Became, SafeNext
<1>16. \A v \in AllTasks \ {t} : Kept(v)
  <2>1. \A v \in AllTasks \ {t} : KeptFile(v)
    BY <1>12, Zenon
  <2>2. refused \subseteq refused'
    BY <1>9
  <2>. QED
    BY <2>1, <2>2 DEF Kept
<1>. QED
  BY <1>1, <1>3, <1>4, <1>11, <1>13, <1>15, <1>16, ListedTaskChanges DEF k, t

LEMMA DownloadDataStep ==
  ASSUME SessionsInv, Accounted, NEW s \in Sessions, NEW id, DownloadData(s, id)
  PROVE  SessionsInv' /\ Effect(s)
<1>. DEFINE k == Position(s, id)
            t == tasks[s][k]
            n == t.transferred + 1
            A == t.acked \cup {t.transferred + 1}
            u == [t EXCEPT !.transferred = n, !.acked = A]
<1>1. Found(s, id) /\ t \in Task /\ t.direction = "download" /\ t.status = "running"
  BY FoundTask DEF DownloadData
<1>2. n \in Blocks
  <2>1. Filled(t.inode) \in SUBSET Blocks
    BY DEF Filled
  <2>2. t.transferred \in Nat /\ t.transferred < Length(t.inode)
    BY <1>1 DEF DownloadData, Task
  <2>3. Filled(t.inode) # {} /\ Length(t.inode) = Max(Filled(t.inode))
    BY <2>2 DEF Length
  <2>4. Length(t.inode) \in 1 .. MaxBlocks
    BY <2>1, <2>3, Greatest, TransfersAssumption DEF Blocks
  <2>. QED
    BY <2>2, <2>4, TransfersAssumption DEF Blocks
<1>3. n \in Nat /\ A \in SUBSET Blocks
  BY <1>1, <1>2 DEF Task
<1>4. tasks' = [tasks EXCEPT ![s] = [tasks[s] EXCEPT ![k] = u]]
  BY DEF DownloadData
<1>5. UNCHANGED <<sessionVars, taskCount, inHand, nextTaskId, fileVars>>
  BY DEF DownloadData
<1>. HIDE DEF k, n, A
<1>6. /\ u \in Task /\ u.file = t.file /\ u.inode = t.inode /\ u.direction = t.direction
      /\ u.status = "running" /\ u.transferred = n /\ u.acked = A /\ u.buffered = t.buffered
  BY <1>1, <1>3 DEF Task
<1>. HIDE DEF u
<1>7. Moved(t, u)
  BY <1>1, <1>2, <1>6 DEF Moved, n, A
<1>8. Became(t, u)
  BY <1>1, <1>6, <1>7 DEF Became, SafeNext
<1>. QED
  BY <1>1, <1>4, <1>5, <1>6, <1>8, FilesUntouched, ListedTaskChanges DEF k, fileVars

LEMMA SetStatusStep ==
  ASSUME SessionsInv, Accounted, NEW s \in Sessions, NEW id, NEW status \in {"running", "paused"},
         SetStatus(s, id, status)
  PROVE  SessionsInv' /\ Effect(s)
<1>. DEFINE k == Position(s, id)
            t == tasks[s][k]
            u == [t EXCEPT !.status = status]
<1>1. Found(s, id) /\ t \in Task
  BY FoundTask DEF SetStatus
<1>2. tasks' = [tasks EXCEPT ![s] = [tasks[s] EXCEPT ![k] = u]]
  BY DEF SetStatus
<1>3. UNCHANGED <<sessionVars, taskCount, inHand, nextTaskId, fileVars>>
  BY DEF SetStatus
<1>. HIDE DEF k
<1>4. /\ u \in Task /\ u.file = t.file /\ u.inode = t.inode /\ u.direction = t.direction
      /\ u.transferred = t.transferred /\ u.acked = t.acked /\ u.buffered = t.buffered
      /\ u.sent = t.sent
  BY <1>1 DEF Task
<1>. HIDE DEF u
<1>5. Became(t, u)
  BY <1>3, <1>4 DEF Became, Safe, SafeNext, fileVars
<1>. QED
  BY <1>1, <1>2, <1>3, <1>4, <1>5, FilesUntouched, ListedTaskChanges DEF k, fileVars

LEMMA UploadEndStep ==
  ASSUME SessionsInv, Accounted, NEW s \in Sessions, NEW id, UploadEnd(s, id)
  PROVE  SessionsInv' /\ Effect(s)
  BY FoundTask, TaskCloses DEF UploadEnd

LEMMA TransferStepEffect ==
  ASSUME SessionsInv, Accounted, NEW s \in Sessions, TransferStep(s)
  PROVE  SessionsInv' /\ Effect(s)
  BY UploadDataStep, UploadDataMisplacedStep, UploadDataFailsStep, DownloadDataStep,
     SetStatusStep, UploadEndStep
  DEF TransferStep, UploadPause, UploadResume, DownloadPause, DownloadResume, DownloadEnd

\* handle_file_delete, handle_file_rename: no task changes, and no file.
LEMMA OnlyTheDirectory ==
  ASSUME SessionsInv, NEW s \in Sessions, entry' \in [Paths -> Inodes \cup {None}],
         UNCHANGED <<sessionVars, taskVars, content, open, overwritten, refused>>
  PROVE  SessionsInv' /\ Effect(s)
<1>1. FilesType' /\ \A t \in AllTasks : Kept(t)
  BY SessionsInvParts DEF FilesType, Kept, KeptFile
<1>2. OnlySession(s)
  BY DEF OnlySession, SessionsInv, TypeOK, sessionVars, taskVars
<1>3. Listed(s)' = Listed(s) /\ Holding(s)' = Holding(s)
  BY DEF taskVars, Listed, Holding
<1>4. SessionOK(s)'
  <2>1. SessionOK(s)
    BY SessionsInvParts
  <2>. QED
    BY <1>3, <2>1 DEF SessionOK, sessionVars, taskVars
<1>5. SessionsInv' /\ OthersHold(s)
  BY <1>1, <1>2, <1>4, SessionsInvParts, SessionsInvStep DEF taskVars
<1>. QED
  BY <1>1, <1>3, <1>5 DEF Effect, Keeps

\* The file of an edit is in the handler's hand.
LEMMA Editing ==
  ASSUME SessionsInv, NEW s \in Sessions, stage[s] = "editing"
  PROVE  /\ inHand[s] \in Task /\ inHand[s] \in AllTasks /\ inHand[s].direction = "edit"
<1>1. inHand[s] \in Task /\ inHand[s] # None /\ inHand[s].direction = "edit"
  BY SessionsInvParts, HoldingType DEF SessionsInv, SessionOK
<1>. QED
  BY <1>1, HoldingType DEF SessionsInv, AllTasks

LEMMA EditWriteStep ==
  ASSUME SessionsInv, Accounted, NEW s \in Sessions, NEW n \in 0..MaxBlocks, NEW d \in Data,
         EditWrite(s, n, d)
  PROVE  SessionsInv' /\ Effect(s)
<1>. DEFINE t == inHand[s]
            S == [b \in Blocks |-> IF b <= n THEN d ELSE None]
<1>1. PICK k \in 0..n :
        /\ Write(t, [b \in 1..k |-> d], {})
        /\ inHand' = [inHand EXCEPT ![s].acked = 1..n, ![s].buffered = (k + 1)..n, ![s].sent = S]
  BY DEF EditWrite
<1>2. t \in Task /\ t \in AllTasks /\ t.direction = "edit" /\ stage[s] = "editing"
  BY Editing DEF EditWrite
<1>. DEFINE A == 1..n
            B == (k + 1)..n
            D == [b \in 1..k |-> d]
            u == [t EXCEPT !.acked = A, !.buffered = B, !.sent = S]
<1>3. /\ DOMAIN D \subseteq Blocks /\ DOMAIN D = A \ B /\ \A b \in DOMAIN D : D[b] = d
      /\ A \in SUBSET Blocks /\ B \in SUBSET Blocks /\ S \in [Blocks -> Data \cup {None}]
      /\ \A b \in A : S[b] = d
  BY TransfersAssumption DEF Blocks
<1>4. inHand' = [inHand EXCEPT ![s] = u] /\ Write(t, D, {})
  BY <1>1
<1>5. /\ UNCHANGED <<auth, perm, tasks, taskCount, nextTaskId, entry, open, refused>>
      /\ stage' = [stage EXCEPT ![s] = "edited"]
  BY DEF EditWrite
<1>. HIDE DEF A, B, D, S
<1>6. /\ u \in Task /\ u.file = t.file /\ u.inode = t.inode /\ u.direction = t.direction
      /\ u.transferred = t.transferred /\ u.acked = A /\ u.buffered = B /\ u.sent = S
  BY <1>2, <1>3 DEF Task
<1>. HIDE DEF u
<1>7. /\ content' \in [Inodes -> [Blocks -> Data \cup {None}]]
      /\ overwritten' \in SUBSET (Handles \X Blocks)
      /\ \A b \in Blocks : content'[t.inode][b] = IF b \in DOMAIN D THEN D[b]
                                                  ELSE content[t.inode][b]
      /\ \A v \in AllTasks \ {t} : KeptFile(v)
  BY <1>2, <1>3, <1>4, Writing
<1>8. FilesType' /\ \A v \in AllTasks \ {t} : Kept(v)
  BY <1>5, <1>7, SessionsInvParts DEF FilesType, Kept
<1>9. SafeNext(u)
  BY <1>3, <1>6, <1>7 DEF SafeNext
<1>10. Became(t, u)
  BY <1>2, <1>6, <1>9 DEF Became
<1>. QED
  BY <1>2, <1>4, <1>5, <1>6, <1>8, <1>10, FileInHandChanges

LEMMA EditWriteFailsStep ==
  ASSUME SessionsInv, Accounted, NEW s \in Sessions, NEW n \in 0..MaxBlocks,
         EditWriteFails(s, n)
  PROVE  SessionsInv' /\ Effect(s)
<1>. DEFINE t == inHand[s]
            u == [t EXCEPT !.acked = {}]
<1>1. PICK D \in Garbled(1..n) : Write(t, D, {})
  BY DEF EditWriteFails
<1>2. t \in Task /\ t \in AllTasks /\ t.direction = "edit" /\ stage[s] = "editing"
  BY Editing DEF EditWriteFails
<1>3. DOMAIN D \subseteq Blocks /\ \A b \in DOMAIN D : D[b] \in Data \cup {None}
  BY GarbledType, TransfersAssumption DEF Blocks
<1>4. /\ UNCHANGED <<auth, perm, tasks, taskCount, nextTaskId, entry, open, refused>>
      /\ stage' = [stage EXCEPT ![s] = "edited"] /\ inHand' = [inHand EXCEPT ![s] = u]
  BY DEF EditWriteFails
<1>5. /\ u \in Task /\ u.file = t.file /\ u.inode = t.inode /\ u.direction = t.direction
      /\ u.transferred = t.transferred /\ u.acked = {}
  BY <1>2 DEF Task
<1>. HIDE DEF u
<1>6. /\ content' \in [Inodes -> [Blocks -> Data \cup {None}]]
      /\ overwritten' \in SUBSET (Handles \X Blocks)
      /\ \A v \in AllTasks \ {t} : KeptFile(v)
  BY <1>1, <1>2, <1>3, Writing
<1>7. FilesType' /\ \A v \in AllTasks \ {t} : Kept(v)
  BY <1>4, <1>6, SessionsInvParts DEF FilesType, Kept
<1>8. Became(t, u)
  BY <1>2, <1>5 DEF Became, SafeNext
<1>. QED
  BY <1>2, <1>4, <1>5, <1>7, <1>8, FileInHandChanges

LEMMA FileStepEffect ==
  ASSUME SessionsInv, Accounted, NEW s \in Sessions, FileStep(s)
  PROVE  SessionsInv' /\ Effect(s)
<1>1. ASSUME NEW p \in Paths, FileDelete(s, p) PROVE SessionsInv' /\ Effect(s)
  BY <1>1, SessionsInvParts, OnlyTheDirectory DEF FileDelete, FilesType
<1>2. ASSUME NEW p \in Paths, NEW q \in Paths, FileRename(s, p, q) PROVE SessionsInv' /\ Effect(s)
  BY <1>2, SessionsInvParts, OnlyTheDirectory DEF FileRename, FilesType
<1>3. ASSUME NEW p \in Paths, EditOpen(s, p) PROVE SessionsInv' /\ Effect(s)
  <2>1. PICK i \in Inodes, h \in Handles :
          /\ OpenForWriting(p, i)
          /\ OpenHandle(h)
          /\ inHand' = [inHand EXCEPT ![s] = NewTask("edit", i, h)]
    BY <1>3 DEF EditOpen
  <2>. QED
    BY <1>3, <2>1, FileOpens, OpeningForWriting DEF EditOpen, MayChangeFiles
<1>4. CASE EditClose(s)
  BY <1>4, FileInHandCloses DEF EditClose
<1>. QED
  BY <1>1, <1>2, <1>3, <1>4, EditWriteStep, EditWriteFailsStep DEF FileStep

-----------------------------------------------------------------------------
(* The invariant, and the theorems *)

LEMMA EffectOfStep ==
  ASSUME SessionsInv, Accounted, Next
  PROVE  SessionsInv' /\ \E s \in Sessions : Effect(s)
  BY SessionStepEffect, StartStepEffect, TransferStepEffect, FileStepEffect DEF Next

LEMMA IInvInit == Init => IInv
<1>. SUFFICES ASSUME Init PROVE IInv
  OBVIOUS
<1>. USE DEF Init
<1>1. \A s \in Sessions : Listed(s) = {} /\ Holding(s) = {}
  BY DEF Listed, Holding
<1>2. AllTasks = {}
  BY <1>1 DEF AllTasks
<1>3. TypeOK
  BY DEF TypeOK
<1>4. TransferLimit
  BY TransfersAssumption DEF TransferLimit
<1>5. TransfersNeedLogin /\ ListsApart
  BY <1>1 DEF TransfersNeedLogin, ListsApart, FilesDiffer
<1>6. Accounted /\ DownloadPrefix /\ AckedStored
  BY <1>1, <1>2 DEF Accounted, DownloadPrefix, AckedStored
<1>. QED
  BY <1>3, <1>4, <1>5, <1>6 DEF IInv, SessionsInv

LEMMA IInvStep == IInv /\ [Next]_vars => IInv'
<1>. SUFFICES ASSUME IInv, [Next]_vars PROVE IInv'
  OBVIOUS
<1>. USE DEF IInv
<1>1. CASE Next
  <2>1. PICK s \in Sessions : SessionsInv' /\ Effect(s)
    BY <1>1, EffectOfStep
  <2>2. Accounted'
    BY <2>1, AccountedStep
  <2>3. DownloadPrefix'
    BY <2>1, DownloadPrefixStep DEF SessionsInv
  <2>4. AckedStored'
    BY <2>1, AckedStoredStep DEF SessionsInv
  <2>. QED
    BY <2>1, <2>2, <2>3, <2>4
<1>2. CASE UNCHANGED vars
  <2>1. \A s \in Sessions : Listed(s)' = Listed(s) /\ Holding(s)' = Holding(s)
    BY <1>2 DEF Listed, Holding, vars, taskVars
  <2>2. SessionsInv'
    BY <1>2, <2>1 DEF SessionsInv, TypeOK, TransferLimit, TransfersNeedLogin, ListsApart,
                      vars, sessionVars, taskVars, fileVars
  <2>3. Accounted' /\ DownloadPrefix' /\ AckedStored'
    BY <1>2, <2>1 DEF Accounted, DownloadPrefix, AckedStored, AllTasks,
                      vars, sessionVars, taskVars, fileVars
  <2>. QED
    BY <2>2, <2>3
<1>. QED
  BY <1>1, <1>2

LEMMA Invariance == Spec => []IInv
  BY IInvInit, IInvStep, PTL DEF Spec

\* Every variable has its type, and a task is in the making while its handler runs.
THEOREM TypeCorrect == Spec => []TypeOK
<1>1. IInv => TypeOK
  BY DEF IInv, SessionsInv
<1>. QED
  BY <1>1, Invariance, PTL

\* The counter is the length of the list and never exceeds the limit, for any limit and
\* any number of sessions.
THEOREM LimitCorrect == Spec => []TransferLimit
<1>1. IInv => TransferLimit
  BY DEF IInv, SessionsInv
<1>. QED
  BY <1>1, Invariance, PTL

\* No descriptor leaks, none is closed twice, no two tasks share one.
THEOREM HandlesCorrect == Spec => []HandlesAccounted
<1>1. IInv => HandlesAccounted
  BY HandlesAccountedParts DEF IInv, SessionsInv
<1>. QED
  BY <1>1, Invariance, PTL

\* A session that is not logged in, or is gone, holds no transfer.
THEOREM LoginCorrect == Spec => []TransfersNeedLogin
<1>1. IInv => TransfersNeedLogin
  BY DEF IInv, SessionsInv
<1>. QED
  BY <1>1, Invariance, PTL

\* What a client has been sent of a download is the beginning of the file.
THEOREM DownloadCorrect == Spec => []DownloadPrefix
<1>1. IInv => DownloadPrefix
  BY DEF IInv
<1>. QED
  BY <1>1, Invariance, PTL

\* A block told of is in the file with the data sent last, or in the FILE's buffer: nothing
\* but a later write of that block through another FILE, a truncation or a refusing disk
\* loses it, however many sessions write to one file.
THEOREM AckedCorrect == Spec => []AckedStored
<1>1. IInv => AckedStored
  BY DEF IInv
<1>. QED
  BY <1>1, Invariance, PTL

\* When an upload's or an edit's file is closed, the same holds of all that its client is
\* told of, what was in the buffer included.
THEOREM ClosedCorrect == Spec => ClosedMeansStored
<1>1. IInv /\ [Next]_vars
        => [\A t \in AllTasks : t.direction # "download" /\ t.file \notin open' =>
              \A b \in t.acked :
                  \/ content'[t.inode][b] = t.sent[b]
                  \/ <<t.file, b>> \in overwritten \cup refused']_vars
  <2>. SUFFICES ASSUME IInv, Next, NEW t \in AllTasks, t.direction # "download",
                       t.file \notin open', NEW b \in t.acked
                PROVE  content'[t.inode][b] = t.sent[b] \/ <<t.file, b>> \in overwritten \cup refused'
    OBVIOUS
  <2>1. PICK s \in Sessions : Effect(s)
    BY EffectOfStep DEF IInv
  <2>. QED
    BY <2>1, ClosedMeansStoredStep DEF IInv, SessionsInv
<1>. QED
  BY <1>1, Invariance, PTL DEF Spec, ClosedMeansStored

-----------------------------------------------------------------------------
(* The refinement of Streams *)

\* The stream that the task t stands for: none if it is an edit.
StreamFor(t) ==
    IF t.direction = "edit" THEN None ELSE
    [direction |-> t.direction, status |-> t.status, moved |-> t.transferred, told |-> t.acked]

LEMMA StreamForType ==
  ASSUME NEW t \in Task, t.direction # "edit"
  PROVE  /\ StreamFor(t) \in StreamsBelow!Stream /\ StreamFor(t) # None
         /\ StreamFor(t).direction = t.direction /\ StreamFor(t).status = t.status
         /\ StreamFor(t).moved = t.transferred /\ StreamFor(t).told = t.acked
  BY NoneAssumption DEF StreamFor, StreamsBelow!Stream, Task, Blocks

\* StreamOf chooses the one task of an open file.
LEMMA StreamOfTask ==
  Accounted => \A t \in AllTasks : StreamOf(t.file) = StreamFor(t)
<1>. SUFFICES ASSUME Accounted, NEW t \in AllTasks PROVE StreamOf(t.file) = StreamFor(t)
  OBVIOUS
<1>1. t.file \in open
  BY DEF Accounted
<1>2. \A u \in AllTasks : u.file = t.file => u = t
  BY DEF Accounted, AllTasks
<1>3. (CHOOSE u \in AllTasks : u.file = t.file) = t
  BY <1>2
<1>. QED
  BY <1>1, <1>3 DEF StreamOf, StreamFor

LEMMA StreamOfTaskNext ==
  (Accounted => \A t \in AllTasks : StreamOf(t.file) = StreamFor(t))'
  BY StreamOfTask, PTL

\* A handle that is not open is the end of no stream; an open one has a task.
LEMMA StreamOfHandle ==
  ASSUME SessionsInv, Accounted, NEW h \in Handles
  PROVE  /\ h \notin open => StreamOf(h) = None
         /\ h \in open => \E t \in AllTasks : t.file = h /\ StreamOf(h) = StreamFor(t)
  BY StreamOfTask DEF StreamOf, Accounted

\* The streams, as Transfers has them.
TheStreams == [h \in Handles |-> StreamOf(h)]

LEMMA StreamsInitStep ==
  Init => StreamsBelow!StreamsInit
  BY DEF Init, StreamsBelow!StreamsInit, StreamOf

\* A handle whose task is in the list before and after the step has the same stream.
LEMMA StreamStands ==
  ASSUME SessionsInv, Accounted, Accounted', NEW h \in Handles,
         h \in open' <=> h \in open,
         \A t \in AllTasks : t.file = h => t \in AllTasks'
  PROVE  StreamOf(h)' = StreamOf(h)
<1>1. CASE h \in open
  <2>1. PICK t \in AllTasks : t.file = h /\ StreamOf(h) = StreamFor(t)
    BY <1>1, StreamOfHandle
  <2>2. StreamOf(h)' = StreamFor(t)
    BY <2>1, StreamOfTaskNext
  <2>. QED
    BY <2>1, <2>2
<1>2. CASE h \notin open
  BY <1>2 DEF StreamOf
<1>. QED
  BY <1>1, <1>2

LEMMA StreamsNextStep ==
  ASSUME SessionsInv, Accounted, Accounted', NEW s \in Sessions, Effect(s)
  PROVE  StreamsBelow!StreamsNext \/ UNCHANGED TheStreams
<1>. USE DEF TheStreams
<1>1. AllTasks \subseteq Task
  BY HoldingType DEF SessionsInv, AllTasks
<1>2. \A t \in AllTasks : t.file \in Handles
  BY <1>1 DEF Task
<1>3. CASE Keeps(s)
  <2>1. AllTasks' = AllTasks /\ open' = open
    BY <1>3 DEF Keeps, OthersHold, AllTasks
  <2>2. \A h \in Handles : StreamOf(h)' = StreamOf(h)
    BY <2>1, StreamStands
  <2>. QED
    BY <2>2
<1>4. ASSUME NEW t \in Task, Opens(s, t) PROVE StreamsBelow!StreamsNext \/ UNCHANGED TheStreams
  <2>1. AllTasks' = AllTasks \cup {t} /\ t.file \in Handles \ open /\ open' = open \cup {t.file}
    BY <1>4 DEF Opens, OthersHold, AllTasks
  <2>2. StreamOf(t.file) = None /\ StreamOf(t.file)' = StreamFor(t)
    BY <2>1, StreamOfTaskNext, StreamOfHandle
  <2>3. \A h \in Handles \ {t.file} : StreamOf(h)' = StreamOf(h)
    BY <2>1, StreamStands
  <2>4. CASE t.direction = "edit"
    <3>1. StreamFor(t) = None
      BY <2>4 DEF StreamFor
    <3>2. \A h \in Handles : StreamOf(h)' = StreamOf(h)
      BY <2>2, <2>3, <3>1
    <3>. QED
      BY <3>2
  <2>5. CASE t.direction # "edit"
    <3>1. StreamFor(t) = StreamsBelow!Fresh(t.direction)
      BY <1>4, <2>5 DEF Opens, StreamFor, StreamsBelow!Fresh
    <3>2. t.direction \in {"upload", "download"}
      BY <2>5 DEF Task
    <3>3. StreamsBelow!Begin(t.file)
      BY <2>1, <2>2, <2>3, <3>1, <3>2 DEF StreamsBelow!Begin
    <3>. QED
      BY <2>1, <3>3 DEF StreamsBelow!StreamsNext
  <2>. QED
    BY <2>4, <2>5
<1>5. ASSUME NEW T \in SUBSET Holding(s), Closes(s, T) PROVE StreamsBelow!StreamsNext
  <2>. DEFINE ended == {t.file : t \in T}
  <2>1. open' = open \ ended /\ \A t \in AllTasks : t.file \notin ended => t \in AllTasks'
    BY <1>5 DEF Closes, OthersHold, AllTasks
  <2>2. ended \in SUBSET Handles
    BY <1>2 DEF AllTasks
  <2>. HIDE DEF ended
  <2>3. \A h \in ended : StreamOf(h)' = None
    BY <2>1 DEF StreamOf
  <2>4. \A h \in Handles \ ended : StreamOf(h)' = StreamOf(h)
    BY <2>1, StreamStands
  <2>5. StreamsBelow!End(ended)
    BY <2>2, <2>3, <2>4 DEF StreamsBelow!End
  <2>. QED
    BY <2>2, <2>5 DEF StreamsBelow!StreamsNext
<1>6. ASSUME NEW t \in Holding(s), NEW u \in Task, Changes(s, t, u)
      PROVE  StreamsBelow!StreamsNext \/ UNCHANGED TheStreams
  <2>. DEFINE h == t.file
  <2>1. t \in AllTasks /\ u \in AllTasks' /\ h \in Handles /\ t \in Task
    BY <1>1, <1>2, <1>6 DEF Changes, AllTasks
  <2>2. StreamOf(h) = StreamFor(t) /\ StreamOf(h)' = StreamFor(u)
    BY <1>6, <2>1, StreamOfTask, StreamOfTaskNext DEF Changes, Became
  <2>3. \A g \in Handles \ {h} : StreamOf(g)' = StreamOf(g)
    <3>1. \A v \in AllTasks : v.file # h => v \in AllTasks'
      BY <1>6 DEF Changes, OthersHold, AllTasks
    <3>. QED
      BY <1>6, <3>1, StreamStands DEF Changes
  <2>4. u.direction = t.direction
    BY <1>6 DEF Changes, Became
  <2>5. CASE t.direction = "edit"
    <3>1. StreamFor(t) = StreamFor(u)
      BY <2>4, <2>5 DEF StreamFor
    <3>2. \A g \in Handles : StreamOf(g)' = StreamOf(g)
      BY <2>2, <2>3, <3>1
    <3>. QED
      BY <3>2
  <2>. HIDE DEF h
  <2>6. CASE t.direction # "edit" /\ Moved(t, u)
    <3>. USE <2>6
    <3>1. PICK b \in Blocks : u.acked = t.acked \cup {b}
                              /\ (t.direction = "download" => b = t.transferred + 1)
      BY DEF Moved
    <3>8. u.transferred = t.transferred + 1 /\ t.status = "running" /\ u.status = t.status
      BY DEF Moved
    <3>. DEFINE n == StreamFor(t).moved + 1
                T == StreamFor(t).told \cup {b}
    <3>2. n = u.transferred /\ T = u.acked
      BY <2>1, <3>1, <3>8, StreamForType
    <3>. HIDE DEF n, T
    <3>3. StreamFor(u) = [StreamFor(t) EXCEPT !.moved = n, !.told = T]
      <4>. DEFINE e == [StreamFor(t) EXCEPT !.moved = n, !.told = T]
      <4>1. /\ StreamFor(t) \in StreamsBelow!Stream /\ StreamFor(u) \in StreamsBelow!Stream
            /\ StreamFor(u).direction = StreamFor(t).direction
            /\ StreamFor(u).status = StreamFor(t).status
            /\ StreamFor(u).moved = n /\ StreamFor(u).told = T
        BY <2>1, <2>4, <3>2, <3>8, StreamForType
      <4>2. n \in Nat /\ T \in SUBSET (1..MaxBlocks)
        BY <2>1, <3>2 DEF Task, Blocks
      <4>3. /\ e \in StreamsBelow!Stream /\ e.direction = StreamFor(t).direction
            /\ e.status = StreamFor(t).status /\ e.moved = n /\ e.told = T
        BY <4>1, <4>2 DEF StreamsBelow!Stream
      <4>. HIDE DEF e
      <4>4. StreamFor(u) = e
        BY <4>1, <4>3 DEF StreamsBelow!Stream
      <4>. QED
        BY <4>4 DEF e
    <3>4. TheStreams' = [TheStreams EXCEPT ![h] = [TheStreams[h] EXCEPT !.moved = n, !.told = T]]
      BY <2>1, <2>2, <2>3, <3>3
    <3>5. TheStreams[h] = StreamFor(t)
      BY <2>1, <2>2
    <3>6. StreamsBelow!Move(h, b)
      <4>1. TheStreams' = [TheStreams EXCEPT ![h].moved = @ + 1, ![h].told = @ \cup {b}]
        BY <3>4, <3>5 DEF n, T
      <4>2. /\ StreamFor(t) # None /\ StreamFor(t).status = "running"
            /\ StreamFor(t).direction = "download" => b = StreamFor(t).moved + 1
        BY <2>1, <3>1, <3>8, StreamForType
      <4>. QED
        BY <3>5, <4>1, <4>2 DEF StreamsBelow!Move
    <3>. QED
      BY <2>1, <3>1, <3>6 DEF StreamsBelow!StreamsNext, Blocks
  <2>7. CASE t.direction # "edit" /\ ~Moved(t, u)
    <3>1. u.transferred = t.transferred /\ u.acked = t.acked
      BY <1>6, <2>7 DEF Changes, Became
    <3>2. StreamFor(u) = [StreamFor(t) EXCEPT !.status = u.status]
      BY <2>4, <2>7, <3>1 DEF StreamFor
    <3>3. StreamFor(t) # None
      BY <2>1, <2>7, StreamForType
    <3>4. StreamsBelow!SetStatus(h, u.status)
      BY <2>1, <2>2, <2>3, <3>2, <3>3 DEF StreamsBelow!SetStatus
    <3>5. u.status \in {"running", "paused"}
      BY DEF Task
    <3>. QED
      BY <2>1, <3>4, <3>5 DEF StreamsBelow!StreamsNext
  <2>. QED
    BY <2>5, <2>6, <2>7
<1>. QED
  BY <1>3, <1>4, <1>5, <1>6 DEF Effect

\* The handlers, the task lists and the files implement the streams, for any number of
\* sessions, paths, files and blocks.
THEOREM Refinement == Spec => ImplementsStreams
<1>1. IInv /\ IInv' /\ [Next]_vars => [StreamsBelow!StreamsNext]_TheStreams
  <2>. SUFFICES ASSUME IInv, IInv', [Next]_vars
                PROVE  StreamsBelow!StreamsNext \/ UNCHANGED TheStreams
    OBVIOUS
  <2>1. CASE Next
    <3>1. PICK s \in Sessions : Effect(s)
      BY <2>1, EffectOfStep DEF IInv
    <3>. QED
      BY <3>1, StreamsNextStep DEF IInv
  <2>2. CASE UNCHANGED vars
    BY <2>2 DEF TheStreams, StreamOf, AllTasks, Holding, Listed, vars, taskVars, fileVars
  <2>. QED
    BY <2>1, <2>2
<1>. QED
  BY <1>1, StreamsInitStep, Invariance, PTL
  DEF Spec, ImplementsStreams, StreamsBelow!StreamsSpec, TheStreams
=============================================================================
