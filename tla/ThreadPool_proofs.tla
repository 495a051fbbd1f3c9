------------------------- MODULE ThreadPool_proofs -------------------------
(***************************************************************************)
(* Theorems about the thread pool, for every number of workers and every   *)
(* set of tasks.  IInv (module ThreadPool) is inductive; the safety        *)
(* properties are its conjuncts or follow from it, and so does the fact    *)
(* that every step of the pool is a step of TaskQueue or leaves it alone.  *)
(***************************************************************************)
EXTENDS ThreadPool, TLAPS, FiniteSetTheorems, SequenceTheorems

\* The pool has at least one worker, whatever the caller asked for.
LEMMA ThreadCountPositive == ThreadCount \in Nat /\ ThreadCount > 0
  BY PoolAssumption DEF ThreadCount

\* Thread identities are integers, none of the workers is Main or Nobody.
LEMMA WorkerIdentity ==
  /\ \A w \in Workers : w \in Nat /\ w # Main /\ w # Nobody
  /\ Main # Nobody
  BY ThreadCountPositive DEF Workers, Main, Nobody

\* Sets of workers are finite.
LEMMA WorkersFinite ==
  ASSUME NEW S \in SUBSET Workers
  PROVE  IsFiniteSet(S) /\ Cardinality(S) \in Nat
<1>1. IsFiniteSet(Workers)
  BY ThreadCountPositive, FS_Interval DEF Workers
<1>. QED
  BY <1>1, FS_Subset, FS_CardinalityType

\* Adding a worker to, or removing it from, a set of workers counts by one.
LEMMA WorkersCount ==
  ASSUME NEW S \in SUBSET Workers, NEW w \in Workers
  PROVE  /\ w \notin S => Cardinality(S \cup {w}) = Cardinality(S) + 1
         /\ w \in S => Cardinality(S \ {w}) = Cardinality(S) - 1
  BY WorkersFinite, FS_AddElement, FS_RemoveElement

\* Appending behind what waits is appending behind everything submitted.
LEMMA AppendRight ==
  ASSUME NEW s \in Seq(Tasks), NEW q \in Seq(Tasks), NEW t \in Tasks
  PROVE  Append(s \o q, t) = s \o Append(q, t)
<1>. DEFINE l == Append(s \o q, t)
            r == s \o Append(q, t)
<1>1. /\ s \o q \in Seq(Tasks) /\ Append(q, t) \in Seq(Tasks)
      /\ Len(s \o q) = Len(s) + Len(q) /\ Len(Append(q, t)) = Len(q) + 1
  BY ConcatProperties
<1>2. /\ l \in Seq(Tasks) /\ r \in Seq(Tasks)
      /\ Len(l) = Len(s) + Len(q) + 1 /\ Len(r) = Len(s) + Len(q) + 1
  BY <1>1, ConcatProperties
<1>3. ASSUME NEW i \in 1..Len(l) PROVE l[i] = r[i]
  <2>1. r[i] = IF i <= Len(s) THEN s[i] ELSE Append(q, t)[i - Len(s)]
    <3>1. i \in 1..Len(s) + Len(Append(q, t))
      BY <1>1, <1>2, <1>3
    <3>2. \A j \in 1..Len(s) + Len(Append(q, t)) : (s \o Append(q, t))[j] =
             IF j <= Len(s) THEN s[j] ELSE Append(q, t)[j - Len(s)]
      BY <1>1, ConcatProperties
    <3>. QED
      BY <3>1, <3>2
  <2>2. CASE i = Len(s) + Len(q) + 1
    BY <1>1, <1>2, <2>1, <2>2
  <2>3. CASE i <= Len(s) + Len(q)
    <3>1. l[i] = (s \o q)[i]
      BY <1>1, <1>2, <1>3, <2>3
    <3>2. (s \o q)[i] = IF i <= Len(s) THEN s[i] ELSE q[i - Len(s)]
      BY <1>2, <1>3, <2>3, ConcatProperties
    <3>. QED
      BY <1>1, <1>2, <1>3, <2>1, <2>3, <3>1, <3>2
  <2>. QED
    BY <1>2, <1>3, <2>2, <2>3
<1>. HIDE DEF l, r
<1>4. l = r
  BY <1>2, <1>3, SeqEqual
<1>. QED
  BY <1>4 DEF l, r

\* Starting the head of the queue moves the border between the two histories.
LEMMA MoveHead ==
  ASSUME NEW s \in Seq(Tasks), NEW q \in Seq(Tasks), q # <<>>
  PROVE  Append(s, Head(q)) \o Tail(q) = s \o q
<1>. DEFINE l == Append(s, Head(q)) \o Tail(q)
            r == s \o q
<1>1. /\ Head(q) \in Tasks /\ Head(q) = q[1]
      /\ Tail(q) \in Seq(Tasks) /\ Len(Tail(q)) = Len(q) - 1
      /\ \A i \in 1..Len(Tail(q)) : Tail(q)[i] = q[i + 1]
      /\ Len(q) \in Nat \ {0}
  BY HeadTailProperties, EmptySeq
<1>2. /\ l \in Seq(Tasks) /\ r \in Seq(Tasks)
      /\ Len(l) = Len(s) + Len(q) /\ Len(r) = Len(s) + Len(q)
  BY <1>1, ConcatProperties
<1>3. ASSUME NEW i \in 1..Len(l) PROVE l[i] = r[i]
  BY <1>1, <1>2, ConcatProperties
<1>. HIDE DEF l, r
<1>4. l = r
  BY <1>2, <1>3, SeqEqual
<1>. QED
  BY <1>4 DEF l, r

-----------------------------------------------------------------------------
(* The parts of IInv, one lemma each *)

\* A pool with a worker that has not left is allocated.
LEMMA LiveWorkerMeansAllocated ==
  ASSUME TypeOK, LifeCycle, NEW w \in Workers, pc[w] \notin {"unborn", "exit"}
  PROVE  allocated
<1>1. w <= spawned /\ ~(w <= joined)
  BY WorkerIdentity, ThreadCountPositive DEF LifeCycle, TypeOK
<1>2. joined # spawned
  BY <1>1, WorkerIdentity DEF TypeOK
<1>3. mpc # "start"
  BY <1>1, WorkerIdentity DEF LifeCycle, Workers
<1>. QED
  BY <1>2, <1>3 DEF LifeCycle

\* A worker that may take a task finds one.
LEMMA QueueNotEmpty ==
  ASSUME TypeOK, LifeCycle, QueueIntegrity, NEW w \in Workers, Take(w)
  PROVE  /\ allocated /\ queue # <<>>
         /\ Head(queue) \in Tasks /\ Tail(queue) \in Seq(Tasks)
         /\ Len(Tail(queue)) = Len(queue) - 1
<1>1. allocated
  BY LiveWorkerMeansAllocated DEF Take
<1>2. queue # <<>>
  BY <1>1 DEF QueueIntegrity, Take
<1>. QED
  BY <1>1, <1>2, HeadTailProperties DEF TypeOK

LEMMA TypeOKStep ==
  ASSUME TypeOK, LifeCycle, QueueIntegrity, [Next]_vars
  PROVE  TypeOK'
<1>. USE DEF queueVars, mainVars, history
<1>1. ASSUME NEW w \in Workers, Take(w) PROVE TypeOK'
  <2>1. Head(queue) \in Tasks /\ Tail(queue) \in Seq(Tasks)
    BY <1>1, QueueNotEmpty
  <2>2. started' \in Seq(Tasks) /\ taskCount' \in Nat
    BY <1>1, <2>1 DEF Take, TypeOK
  <2>3. pc' \in [Workers -> WorkerPC] /\ job' \in [Workers -> Tasks \cup {NoTask}]
    BY <1>1, <2>1 DEF Take, TypeOK, WorkerPC
  <2>. QED
    BY <1>1, <2>1, <2>2, <2>3 DEF Take, TypeOK
<1>2. ASSUME NEW w \in Workers, WorkerStep(w) PROVE TypeOK'
  <2>1. CASE Enter(w) \/ Block(w) \/ SpuriousWakeup(w) \/ Exit(w)
    BY <2>1 DEF Enter, Block, SpuriousWakeup, Exit, TypeOK, WorkerPC
  <2>2. CASE Return(w)
    <3>1. job[w] # NoTask => finished' \in SUBSET Tasks
      BY <2>2 DEF Return, TypeOK
    <3>. QED
      BY <2>2, <3>1 DEF Return, TypeOK, WorkerPC, LifeCycle
  <2>3. CASE Reenter(w)
    BY <2>3 DEF Reenter, TypeOK, WorkerPC
  <2>4. CASE Leave(w)
    BY <2>4 DEF Leave, TypeOK, WorkerPC
  <2>. QED
    BY <1>1, <1>2, <2>1, <2>2, <2>3, <2>4 DEF WorkerStep
<1>3. CASE CreateStep
  <2>1. CASE Spawn
    <3>1. spawned + 1 \in Workers /\ spawned + 1 \in 0..ThreadCount
      BY <2>1, ThreadCountPositive DEF Spawn, TypeOK, LifeCycle, Workers
    <3>2. pc' \in [Workers -> WorkerPC] /\ spawned' \in 0..ThreadCount
      BY <2>1, <3>1 DEF Spawn, TypeOK, WorkerPC
    <3>. QED
      BY <2>1, <3>2 DEF Spawn, TypeOK, MainPC
  <2>2. CASE Create \/ SpawnFails \/ CreateFails
    BY <2>2 DEF Create, SpawnFails, CreateFails, TypeOK, MainPC
  <2>. QED
    BY <1>3, <2>1, <2>2 DEF CreateStep
<1>4. CASE SubmitStep
  <2>1. ASSUME NEW t \in Tasks, Submit(t) PROVE TypeOK'
    BY <2>1 DEF Submit, TypeOK, MainPC
  <2>2. CASE AppendItem
    <3>1. item \in Tasks
      BY <2>2 DEF AppendItem, LifeCycle
    <3>2. queue' \in Seq(Tasks) /\ queueEnd' \in Tasks /\ submitted' \in Seq(Tasks)
      BY <2>2, <3>1 DEF AppendItem, LinkNode, TypeOK
    <3>3. pc' \in [Workers -> WorkerPC]
      BY <2>2 DEF AppendItem, Signal, Sleeping, TypeOK, WorkerPC
    <3>. QED
      BY <2>2, <3>2, <3>3 DEF AppendItem, TypeOK, MainPC
  <2>. QED
    BY <1>4, <2>1, <2>2 DEF SubmitStep
<1>5. CASE StartWait \/ Poll \/ MainLock \/ Destroy
  BY <1>5 DEF StartWait, Poll, MainLock, Destroy, TypeOK, MainPC
<1>6. CASE Broadcast \/ FreePool
  <2>1. CASE Broadcast
    <3>1. pc' \in [Workers -> WorkerPC]
      BY <2>1 DEF Broadcast, TypeOK, WorkerPC
    <3>. QED
      BY <2>1, <3>1 DEF Broadcast, TypeOK, MainPC
  <2>2. CASE FreePool
    BY <2>2, EmptySeq DEF FreePool, TypeOK, MainPC
  <2>. QED
    BY <1>6, <2>1, <2>2
<1>7. CASE Join
  <2>1. joined' \in 0..ThreadCount
    BY <1>7, ThreadCountPositive DEF Join, TypeOK
  <2>. QED
    BY <1>7, <2>1 DEF Join, TypeOK
<1>8. CASE UNCHANGED vars
  BY <1>8 DEF vars, TypeOK
<1>. QED
  BY <1>2, <1>3, <1>4, <1>5, <1>6, <1>7, <1>8
  DEF Next, MainStep, DestroyStep, Terminated

LEMMA MutexHeldStep ==
  ASSUME TypeOK, MutexHeld, LifeCycle, [Next]_vars
  PROVE  MutexHeld'
<1>. USE WorkerIdentity DEF queueVars, mainVars, history, MutexHeld
<1>1. ASSUME NEW w \in Workers, WorkerStep(w) PROVE MutexHeld'
  <2>1. CASE Enter(w) \/ Reenter(w)
    BY <2>1 DEF Enter, Reenter, TypeOK
  <2>2. CASE Block(w) \/ Exit(w) \/ Take(w) \/ Leave(w)
    BY <2>2 DEF Block, Exit, Take, Leave, TypeOK
  <2>3. CASE SpuriousWakeup(w) \/ Return(w)
    BY <2>3 DEF SpuriousWakeup, Return, TypeOK
  <2>. QED
    BY <1>1, <2>1, <2>2, <2>3 DEF WorkerStep
<1>2. CASE CreateStep
  <2>1. CASE Spawn
    <3>1. spawned + 1 \in Workers /\ pc[spawned + 1] = "unborn"
      BY <2>1, ThreadCountPositive DEF Spawn, TypeOK, LifeCycle, Workers
    <3>. QED
      BY <2>1, <3>1 DEF Spawn, TypeOK
  <2>2. CASE Create \/ SpawnFails \/ CreateFails
    BY <2>2 DEF Create, SpawnFails, CreateFails
  <2>. QED
    BY <1>2, <2>1, <2>2 DEF CreateStep
<1>3. CASE SubmitStep
  <2>1. ASSUME NEW t \in Tasks, Submit(t) PROVE MutexHeld'
    BY <2>1 DEF Submit
  <2>2. CASE AppendItem
    BY <2>2 DEF AppendItem, Signal, Sleeping, TypeOK
  <2>. QED
    BY <1>3, <2>1, <2>2 DEF SubmitStep
<1>4. CASE StartWait \/ Poll \/ MainLock \/ Destroy
  BY <1>4 DEF StartWait, Poll, MainLock, Destroy
<1>5. CASE Broadcast
  BY <1>5 DEF Broadcast, TypeOK
<1>6. CASE Join \/ FreePool
  BY <1>6 DEF Join, FreePool
<1>7. CASE UNCHANGED vars
  BY <1>7 DEF vars
<1>. QED
  BY <1>1, <1>2, <1>3, <1>4, <1>5, <1>6, <1>7
  DEF Next, MainStep, DestroyStep, Terminated

LEMMA LifeCycleStep ==
  ASSUME TypeOK, MutexHeld, LifeCycle, QueueIntegrity, [Next]_vars
  PROVE  LifeCycle'
<1>. USE WorkerIdentity, ThreadCountPositive DEF queueVars, mainVars, history, LifeCycle
<1>1. ASSUME NEW w \in Workers, WorkerStep(w) PROVE LifeCycle'
  <2>1. CASE Enter(w) \/ Reenter(w) \/ Block(w) \/ Leave(w) \/ SpuriousWakeup(w)
    BY <2>1 DEF Enter, Reenter, Block, Leave, SpuriousWakeup, TypeOK
  <2>2. CASE Exit(w)
    BY <2>2 DEF Exit, TypeOK
  <2>3. CASE Take(w)
    <3>1. job' = [job EXCEPT ![w] = Head(queue)] /\ Head(queue) # NoTask
      BY <2>3, QueueNotEmpty, PoolAssumption DEF Take
    <3>. QED
      BY <2>3, <3>1 DEF Take, TypeOK
  <2>4. CASE Return(w)
    BY <2>4 DEF Return, TypeOK
  <2>. QED
    BY <1>1, <2>1, <2>2, <2>3, <2>4 DEF WorkerStep
<1>2. CASE CreateStep
  <2>1. CASE Spawn
    <3>1. /\ spawned + 1 \in Workers /\ pc[spawned + 1] = "unborn"
          /\ spawned \in Nat /\ joined \in Nat
      BY <2>1 DEF Spawn, TypeOK, Workers
    <3>2. \A w \in Workers : w > spawned + 1 <=> w > spawned /\ w # spawned + 1
      BY <3>1
    <3>3. job[spawned + 1] = NoTask /\ ~(spawned + 1 <= joined)
      BY <3>1
    <3>. QED
      BY <2>1, <3>1, <3>2, <3>3 DEF Spawn, TypeOK
  <2>2. CASE Create \/ SpawnFails \/ CreateFails
    BY <2>2 DEF Create, SpawnFails, CreateFails, TypeOK
  <2>. QED
    BY <1>2, <2>1, <2>2 DEF CreateStep
<1>3. CASE SubmitStep
  <2>1. ASSUME NEW t \in Tasks, Submit(t) PROVE LifeCycle'
    BY <2>1 DEF Submit
  <2>2. CASE AppendItem
    BY <2>2 DEF AppendItem, Signal, Sleeping, TypeOK
  <2>. QED
    BY <1>3, <2>1, <2>2 DEF SubmitStep
<1>4. CASE StartWait \/ Poll \/ MainLock \/ Destroy
  BY <1>4 DEF StartWait, Poll, MainLock, Destroy
<1>5. CASE Broadcast
  BY <1>5 DEF Broadcast, TypeOK
<1>6. CASE Join
  <2>1. /\ spawned \in Nat /\ joined \in Nat /\ joined + 1 \in Workers
    BY <1>6 DEF Join, TypeOK, Workers
  <2>2. \A w \in Workers : w <= joined + 1 <=> w <= joined \/ w = joined + 1
    BY <2>1
  <2>. QED
    BY <1>6, <2>1, <2>2 DEF Join
<1>7. CASE FreePool
  BY <1>7 DEF FreePool
<1>8. CASE UNCHANGED vars
  BY <1>8 DEF vars
<1>. QED
  BY <1>1, <1>2, <1>3, <1>4, <1>5, <1>6, <1>7, <1>8
  DEF Next, MainStep, DestroyStep, Terminated

LEMMA QueueStep ==
  ASSUME TypeOK, LifeCycle, NothingYet, QueueIntegrity, FifoExactlyOnce, [Next]_vars
  PROVE  QueueIntegrity' /\ FifoExactlyOnce' /\ NothingYet'
<1>. USE DEF queueVars, mainVars, history, NothingYet
<1>1. ASSUME NEW w \in Workers, Take(w)
      PROVE  QueueIntegrity' /\ FifoExactlyOnce' /\ NothingYet'
  <2>1. allocated /\ mpc # "start"
    BY <1>1, QueueNotEmpty DEF LifeCycle
  <2>2. QueueIntegrity'
    <3>1. taskCount' = Len(queue')
      BY <1>1, <2>1, QueueNotEmpty DEF Take, QueueIntegrity
    <3>2. queue' # <<>> => queue'[Len(queue')] = queue[Len(queue)]
      <4>. SUFFICES ASSUME Tail(queue) # <<>>
                    PROVE  Tail(queue)[Len(Tail(queue))] = queue[Len(queue)]
        BY <1>1 DEF Take
      <4>1. /\ Len(Tail(queue)) \in Nat \ {0} /\ Len(queue) = Len(Tail(queue)) + 1
            /\ \A i \in 1..Len(Tail(queue)) : Tail(queue)[i] = queue[i + 1]
        <5>1. queue \in Seq(Tasks) /\ queue # <<>> /\ Tail(queue) \in Seq(Tasks)
          BY <1>1, QueueNotEmpty DEF TypeOK
        <5>2. Len(Tail(queue)) \in Nat \ {0}
          BY <5>1, EmptySeq
        <5>3. Len(queue) = Len(Tail(queue)) + 1
          BY <5>1, <5>2, HeadTailProperties, LenProperties
        <5>4. \A i \in 1..Len(Tail(queue)) : Tail(queue)[i] = queue[i + 1]
          BY <5>1, HeadTailProperties
        <5>. QED
          BY <5>2, <5>3, <5>4
      <4>. QED
        BY <4>1
    <3>. QED
      BY <1>1, <2>1, <3>1, <3>2 DEF Take, QueueIntegrity
  <2>3. FifoExactlyOnce'
    <3>1. started' \o queue' = started \o queue
      BY <1>1, QueueNotEmpty, MoveHead DEF Take, TypeOK
    <3>. QED
      BY <1>1, <2>1, <3>1 DEF Take, FifoExactlyOnce
  <2>. QED
    BY <1>1, <2>1, <2>2, <2>3 DEF Take
<1>2. ASSUME NEW w \in Workers, WorkerStep(w)
      PROVE  QueueIntegrity' /\ FifoExactlyOnce' /\ NothingYet'
  <2>1. ~Take(w) => /\ UNCHANGED <<queue, queueEnd, taskCount, allocated, mpc>>
                    /\ UNCHANGED <<submitted, started>>
    BY <1>2 DEF WorkerStep, Enter, Block, SpuriousWakeup, Exit, Return, Reenter, Leave
  <2>2. CASE Take(w)
    BY <1>1, <2>2
  <2>3. CASE ~Take(w)
    BY <2>1, <2>3 DEF QueueIntegrity, FifoExactlyOnce
  <2>. QED
    BY <2>2, <2>3
<1>3. CASE CreateStep
  <2>1. CASE Create
    <3>1. queue = <<>> /\ taskCount = 0 /\ queueEnd = NoTask /\ submitted = started \o queue
      BY <2>1, ConcatEmptySeq DEF Create, TypeOK
    <3>. QED
      BY <2>1, <3>1, EmptySeq DEF Create, QueueIntegrity, FifoExactlyOnce
  <2>2. CASE Spawn \/ SpawnFails \/ CreateFails
    <3>1. /\ UNCHANGED <<queue, queueEnd, taskCount, submitted, started>>
          /\ (allocated' => allocated) /\ mpc' # "start"
      BY <2>2 DEF Spawn, SpawnFails, CreateFails
    <3>. QED
      BY <3>1 DEF QueueIntegrity, FifoExactlyOnce
  <2>. QED
    BY <1>3, <2>1, <2>2 DEF CreateStep
<1>4. CASE AppendItem
  <2>1. allocated /\ item \in Tasks
    BY <1>4 DEF AppendItem, LifeCycle
  <2>2. queue' = Append(queue, item) /\ queueEnd' = item
    <3>1. CASE queue = <<>>
      BY <1>4, <2>1, <3>1 DEF AppendItem, LinkNode, QueueIntegrity
    <3>2. CASE queue # <<>>
      <4>1. queue[Len(queue)] \in Tasks
        BY <3>2, EmptySeq, ElementOfSeq DEF TypeOK
      <4>. QED
        BY <1>4, <2>1, <3>2, <4>1, PoolAssumption DEF AppendItem, LinkNode, QueueIntegrity
    <3>. QED
      BY <3>1, <3>2
  <2>3. /\ queue' # <<>> /\ Len(queue') = Len(queue) + 1
        /\ queue'[Len(queue')] = item
    <3>1. queue \in Seq(Tasks)
      BY DEF TypeOK
    <3>2. Len(Append(queue, item)) = Len(queue) + 1 /\ Len(queue) \in Nat
          /\ Append(queue, item)[Len(queue) + 1] = item
      BY <2>1, <3>1, LenProperties
    <3>3. Append(queue, item) # <<>>
      BY <3>2, EmptySeq
    <3>. QED
      BY <2>2, <3>2, <3>3
  <2>4. submitted' = started \o queue'
    <3>1. submitted' = Append(submitted, item) /\ started' = started
      BY <1>4, <2>1 DEF AppendItem
    <3>2. submitted = started \o queue /\ started \in Seq(Tasks) /\ queue \in Seq(Tasks)
      BY <2>1 DEF FifoExactlyOnce, TypeOK
    <3>. QED
      BY <2>1, <2>2, <3>1, <3>2, AppendRight
  <2>. QED
    BY <1>4, <2>1, <2>2, <2>3, <2>4 DEF AppendItem, QueueIntegrity, FifoExactlyOnce
<1>5. CASE \/ (\E t \in Tasks : Submit(t)) \/ StartWait \/ Poll \/ MainLock
           \/ Destroy \/ Broadcast \/ Join
  <2>1. /\ UNCHANGED <<queue, queueEnd, taskCount, allocated>>
        /\ UNCHANGED <<submitted, started>>
        /\ mpc' # "start"
    BY <1>5 DEF Submit, StartWait, Poll, MainLock, Destroy, Broadcast, Join
  <2>. QED
    BY <2>1 DEF QueueIntegrity, FifoExactlyOnce
<1>6. CASE FreePool
  BY <1>6 DEF FreePool, QueueIntegrity, FifoExactlyOnce
<1>7. CASE UNCHANGED vars
  BY <1>7 DEF vars, QueueIntegrity, FifoExactlyOnce
<1>. QED
  BY <1>2, <1>3, <1>4, <1>5, <1>6, <1>7
  DEF Next, MainStep, SubmitStep, DestroyStep, Terminated

LEMMA StartedAccountedStep ==
  ASSUME TypeOK, LifeCycle, QueueIntegrity, StartedAccounted, [Next]_vars
  PROVE  StartedAccounted'
<1>. USE DEF queueVars, mainVars, history
<1>1. ASSUME NEW w \in Workers, Take(w) PROVE StartedAccounted'
  <2>1. Head(queue) \in Tasks /\ job[w] = NoTask
    BY <1>1, QueueNotEmpty DEF Take, LifeCycle
  <2>2. ASSUME NEW i \in DOMAIN started'
        PROVE  started'[i] \in finished' \/ \E v \in Workers : job'[v] = started'[i]
    <3>1. started \in Seq(Tasks) /\ started' = Append(started, Head(queue))
      BY <1>1 DEF Take, TypeOK
    <3>2. i \in 1..Len(started) \/ i = Len(started) + 1
      BY <2>1, <2>2, <3>1, LenProperties
    <3>3. CASE i = Len(started) + 1
      <4>1. started'[i] = Head(queue)
        BY <2>1, <3>1, <3>3, LenProperties
      <4>2. job'[w] = Head(queue)
        BY <1>1 DEF Take, TypeOK
      <4>. QED
        BY <4>1, <4>2
    <3>4. CASE i \in 1..Len(started)
      <4>1. i \in DOMAIN started /\ started'[i] = started[i] /\ started[i] \in Tasks
        BY <2>1, <3>1, <3>4, LenProperties, AppendProperties, ElementOfSeq
      <4>2. \A v \in Workers : job[v] = started[i] => job'[v] = started[i]
        BY <1>1, <2>1, <4>1, PoolAssumption DEF Take, TypeOK
      <4>. QED
        BY <1>1, <4>1, <4>2 DEF Take, StartedAccounted
    <3>. QED
      BY <3>2, <3>3, <3>4
  <2>. QED
    BY <2>2 DEF StartedAccounted
<1>2. ASSUME NEW w \in Workers, Return(w) PROVE StartedAccounted'
  <2>1. \A v \in Workers : job'[v] = job[v] \/ job[v] \in finished'
    BY <1>2 DEF Return, TypeOK
  <2>. QED
    BY <1>2, <2>1 DEF Return, StartedAccounted
<1>3. ASSUME NEW w \in Workers, WorkerStep(w) PROVE StartedAccounted'
  <2>1. CASE \/ Enter(w) \/ Block(w) \/ SpuriousWakeup(w) \/ Exit(w)
             \/ Reenter(w) \/ Leave(w)
    <3>1. UNCHANGED <<started, finished, job>>
      BY <2>1 DEF Enter, Block, SpuriousWakeup, Exit, Reenter, Leave
    <3>. QED
      BY <3>1 DEF StartedAccounted
  <2>. QED
    BY <1>1, <1>2, <1>3, <2>1 DEF WorkerStep
<1>4. CASE MainStep \/ UNCHANGED vars
  <2>1. UNCHANGED <<started, finished, job>>
    BY <1>4 DEF MainStep, CreateStep, SubmitStep, DestroyStep, Create, Spawn, SpawnFails,
                CreateFails, Submit, AppendItem, StartWait, Poll, MainLock, Destroy,
                Broadcast, Join, FreePool, vars
  <2>. QED
    BY <2>1 DEF StartedAccounted
<1>. QED
  BY <1>3, <1>4 DEF Next, Terminated

LEMMA ActiveAccurateStep ==
  ASSUME TypeOK, LifeCycle, ActiveAccurate, [Next]_vars
  PROVE  ActiveAccurate'
<1>. USE DEF queueVars, mainVars, history
<1>1. Busy \in SUBSET Workers
  BY DEF Busy
<1>2. ASSUME NEW w \in Workers, Take(w) PROVE ActiveAccurate'
  <2>1. Busy' = Busy \cup {w} /\ w \notin Busy
    BY <1>2 DEF Take, Busy, TypeOK
  <2>. QED
    BY <1>1, <1>2, <2>1, WorkersCount DEF Take, ActiveAccurate
<1>3. ASSUME NEW w \in Workers, Leave(w) PROVE ActiveAccurate'
  <2>1. Busy' = Busy \ {w} /\ w \in Busy
    BY <1>3 DEF Leave, Busy, TypeOK
  <2>. QED
    BY <1>1, <1>3, <2>1, WorkersCount DEF Leave, ActiveAccurate
<1>4. ASSUME NEW w \in Workers, WorkerStep(w) PROVE ActiveAccurate'
  <2>1. CASE \/ Enter(w) \/ Block(w) \/ SpuriousWakeup(w) \/ Exit(w)
             \/ Return(w) \/ Reenter(w)
    <3>1. active' = active /\ Busy' = Busy
      BY <2>1 DEF Enter, Block, SpuriousWakeup, Exit, Return, Reenter, Busy, TypeOK
    <3>. QED
      BY <3>1 DEF ActiveAccurate
  <2>. QED
    BY <1>2, <1>3, <1>4, <2>1 DEF WorkerStep
<1>5. CASE MainStep \/ UNCHANGED vars
  <2>1. active' = active
    BY <1>5 DEF MainStep, CreateStep, SubmitStep, DestroyStep, Create, Spawn, SpawnFails,
                CreateFails, Submit, AppendItem, StartWait, Poll, MainLock, Destroy,
                Broadcast, Join, FreePool, vars
  <2>2. CASE Spawn
    <3>1. spawned + 1 \in Workers /\ pc[spawned + 1] = "unborn"
      BY <2>2, ThreadCountPositive DEF Spawn, LifeCycle, TypeOK, Workers
    <3>2. Busy' = Busy
      BY <2>2, <3>1 DEF Spawn, Busy, TypeOK
    <3>. QED
      BY <2>1, <3>2 DEF ActiveAccurate
  <2>3. CASE AppendItem \/ Broadcast
    <3>1. Busy' = Busy
      BY <2>3 DEF AppendItem, Broadcast, Signal, Sleeping, Busy, TypeOK
    <3>. QED
      BY <2>1, <3>1 DEF ActiveAccurate
  <2>4. pc' = pc => ActiveAccurate'
    BY <2>1 DEF ActiveAccurate, Busy
  <2>. QED
    BY <1>5, <2>2, <2>3, <2>4
    DEF MainStep, CreateStep, SubmitStep, DestroyStep, Create, SpawnFails, CreateFails,
        Submit, StartWait, Poll, MainLock, Destroy, Join, FreePool, vars
<1>. QED
  BY <1>4, <1>5 DEF Next, Terminated

LEMMA NoSleeperStep ==
  ASSUME TypeOK, LifeCycle, QueueIntegrity, NoSleeperWhileWorkWaits, [Next]_vars
  PROVE  NoSleeperWhileWorkWaits'
<1>. USE DEF queueVars, mainVars, history
<1>. DEFINE Covered == Len(queue) <= Cardinality(Awake)
<1>1. /\ Awake \in SUBSET Workers /\ Sleeping \in SUBSET Workers
      /\ Len(queue) \in Nat /\ Cardinality(Awake) \in Nat
  BY WorkersFinite, LenProperties DEF Awake, Sleeping, TypeOK
<1>2. ASSUME NEW w \in Workers, Block(w) PROVE NoSleeperWhileWorkWaits'
  <2>1. allocated
    BY <1>2, LiveWorkerMeansAllocated DEF Block
  <2>2. Len(queue') = 0
    BY <1>2, <2>1 DEF Block, QueueIntegrity
  <2>3. Cardinality(Awake') \in Nat
    BY WorkersFinite DEF Awake
  <2>. QED
    BY <2>2, <2>3 DEF NoSleeperWhileWorkWaits
<1>3. ASSUME NEW w \in Workers, Take(w) PROVE NoSleeperWhileWorkWaits'
  <2>1. Awake' = Awake \ {w} /\ w \in Awake /\ Sleeping' = Sleeping
    BY <1>3 DEF Take, Awake, Sleeping, TypeOK
  <2>2. Len(queue') = Len(queue) - 1
    BY <1>3, QueueNotEmpty DEF Take
  <2>3. Cardinality(Awake') = Cardinality(Awake) - 1
    BY <1>1, <2>1, WorkersCount
  <2>. QED
    BY <1>1, <1>3, <2>1, <2>2, <2>3 DEF Take, NoSleeperWhileWorkWaits
<1>4. ASSUME NEW w \in Workers, pc[w] \notin {"enter", "loop"}, pc' = [pc EXCEPT ![w] = "enter"],
             UNCHANGED <<queue, shutdown>>
      PROVE  NoSleeperWhileWorkWaits'
  <2>1. Awake' = Awake \cup {w} /\ w \notin Awake /\ Sleeping' \subseteq Sleeping
    BY <1>4 DEF Awake, Sleeping, TypeOK
  <2>2. Cardinality(Awake') = Cardinality(Awake) + 1
    BY <1>1, <2>1, WorkersCount
  <2>. QED
    BY <1>1, <1>4, <2>1, <2>2 DEF NoSleeperWhileWorkWaits
<1>5. ASSUME Awake' = Awake, Sleeping' = Sleeping, UNCHANGED <<queue, shutdown>>
      PROVE  NoSleeperWhileWorkWaits'
  BY <1>5 DEF NoSleeperWhileWorkWaits
<1>6. ASSUME NEW w \in Workers, WorkerStep(w) PROVE NoSleeperWhileWorkWaits'
  <2>1. CASE Enter(w) \/ Return(w) \/ Reenter(w)
    <3>1. /\ Awake' = Awake /\ Sleeping' = Sleeping
          /\ UNCHANGED <<queue, shutdown>>
      BY <2>1 DEF Enter, Return, Reenter, Awake, Sleeping, TypeOK
    <3>. QED
      BY <3>1, <1>5
  <2>2. CASE Exit(w)
    BY <2>2 DEF Exit, NoSleeperWhileWorkWaits
  <2>3. CASE SpuriousWakeup(w) \/ Leave(w)
    BY <1>4, <2>3 DEF SpuriousWakeup, Leave
  <2>. QED
    BY <1>2, <1>3, <1>6, <2>1, <2>2, <2>3 DEF WorkerStep
<1>7. CASE Spawn
  <2>1. spawned + 1 \in Workers /\ pc[spawned + 1] = "unborn"
    BY <1>7, ThreadCountPositive DEF Spawn, LifeCycle, TypeOK, Workers
  <2>. QED
    BY <1>4, <1>7, <2>1 DEF Spawn
<1>8. CASE AppendItem
  <2>1. Sleeping = {} => Sleeping' = {}
    BY <1>8 DEF AppendItem, Signal, Sleeping
  <2>2. CASE Sleeping # {}
    <3>1. PICK w \in Sleeping : pc' = [pc EXCEPT ![w] = "enter"]
      BY <1>8, <2>2 DEF AppendItem, Signal
    <3>2. Awake' = Awake \cup {w} /\ w \notin Awake /\ w \in Workers
      BY <3>1 DEF Awake, Sleeping, TypeOK
    <3>3. Cardinality(Awake') = Cardinality(Awake) + 1
      BY <1>1, <3>2, WorkersCount
    <3>4. Len(queue') <= Len(queue) + 1
      <4>1. item \in Tasks /\ queue \in Seq(Tasks)
        BY <1>8 DEF AppendItem, LifeCycle, TypeOK
      <4>2. Len(<<item>>) = 1 /\ Len(Append(queue, item)) = Len(queue) + 1
        BY <4>1, AppendProperties
      <4>. QED
        BY <1>1, <1>8, <4>2 DEF AppendItem, LinkNode
    <3>5. Len(queue') \in Nat
      <4>1. queue' \in Seq(Tasks)
        BY <1>8, AppendProperties DEF AppendItem, LinkNode, LifeCycle, TypeOK
      <4>. QED
        BY <4>1, LenProperties
    <3>. QED
      BY <1>1, <1>8, <2>2, <3>3, <3>4, <3>5 DEF AppendItem, NoSleeperWhileWorkWaits
  <2>. QED
    BY <2>1, <2>2 DEF NoSleeperWhileWorkWaits
<1>9. CASE SpawnFails \/ Broadcast \/ FreePool
  BY <1>9 DEF SpawnFails, Broadcast, FreePool, LifeCycle, NoSleeperWhileWorkWaits
<1>10. CASE MainStep \/ UNCHANGED vars
  <2>1. CASE ~(Spawn \/ AppendItem \/ SpawnFails \/ Broadcast \/ FreePool)
    <3>1. UNCHANGED <<pc, queue, shutdown>>
      BY <1>10, <2>1
      DEF MainStep, CreateStep, SubmitStep, DestroyStep, Create, CreateFails,
          Submit, StartWait, Poll, MainLock, Destroy, Join, vars
    <3>2. Awake' = Awake /\ Sleeping' = Sleeping
      BY <3>1 DEF Awake, Sleeping
    <3>. QED
      BY <3>1, <3>2, <1>5
  <2>. QED
    BY <1>7, <1>8, <1>9, <2>1
<1>. QED
  BY <1>6, <1>10 DEF Next, Terminated

-----------------------------------------------------------------------------
(* Theorems *)

LEMMA IInvInit == Init => IInv
<1>. SUFFICES ASSUME Init PROVE IInv
  OBVIOUS
<1>1. TypeOK
  <2>1. <<>> \in Seq(Tasks)
    BY EmptySeq
  <2>2. pc \in [Workers -> WorkerPC] /\ job \in [Workers -> Tasks \cup {NoTask}]
    BY DEF Init, WorkerPC
  <2>3. spawned \in 0..ThreadCount /\ joined \in 0..ThreadCount
    BY ThreadCountPositive DEF Init
  <2>4. /\ mutex \in Workers \cup {Main, Nobody} /\ mpc \in MainPC
        /\ queueEnd \in Tasks \cup {NoTask} /\ item \in Tasks \cup {NoTask}
    BY DEF Init, MainPC
  <2>5. taskCount \in Nat /\ active \in Int /\ finished \in SUBSET Tasks
    BY DEF Init
  <2>7. shutdown \in BOOLEAN /\ allocated \in BOOLEAN
    BY Zenon DEF Init
  <2>6. queue \in Seq(Tasks) /\ submitted \in Seq(Tasks) /\ started \in Seq(Tasks)
    BY <2>1 DEF Init
  <2>. QED
    BY <2>2, <2>3, <2>4, <2>5, <2>6, <2>7 DEF TypeOK
<1>2. MutexHeld
  BY WorkerIdentity DEF Init, MutexHeld
<1>3. LifeCycle
  BY WorkerIdentity, ThreadCountPositive DEF Init, LifeCycle, Workers
<1>4. NothingYet /\ QueueIntegrity /\ FifoExactlyOnce
  BY DEF Init, NothingYet, QueueIntegrity, FifoExactlyOnce
<1>5. Busy = {} /\ Sleeping = {}
  BY DEF Init, Busy, Sleeping
<1>6. ActiveAccurate /\ NoSleeperWhileWorkWaits
  BY <1>5, FS_EmptySet DEF Init, ActiveAccurate, NoSleeperWhileWorkWaits
<1>7. StartedAccounted
  BY DEF Init, StartedAccounted
<1>. QED
  BY <1>1, <1>2, <1>3, <1>4, <1>6, <1>7 DEF IInv

LEMMA IInvStep == IInv /\ [Next]_vars => IInv'
  BY TypeOKStep, MutexHeldStep, LifeCycleStep, QueueStep, StartedAccountedStep,
     ActiveAccurateStep, NoSleeperStep DEF IInv

\* IInv is an invariant of the pool.
THEOREM PoolInvariant == Spec => []IInv
  BY IInvInit, IInvStep, PTL DEF Spec

\* Every variable keeps its type (thread_pool.h:33-44).
THEOREM TypeCorrect == Spec => []TypeOK
<1>1. IInv => TypeOK
  BY DEF IInv
<1>. QED
  BY <1>1, PoolInvariant, PTL

\* task_count and task_queue_end agree with the list (thread_pool.c:33-39, 166-173).
THEOREM QueueCorrect == Spec => []QueueIntegrity
<1>1. IInv => QueueIntegrity
  BY DEF IInv
<1>. QED
  BY <1>1, PoolInvariant, PTL

\* Every submitted task is started at most once, in order, and none is lost.
THEOREM FifoCorrect == Spec => []FifoExactlyOnce
<1>1. IInv => FifoExactlyOnce
  BY DEF IInv
<1>. QED
  BY <1>1, PoolInvariant, PTL

\* No wakeup is lost between pthread_cond_signal and pthread_cond_wait.
THEOREM NoLostWakeup == Spec => []NoSleeperWhileWorkWaits
<1>1. IInv => NoSleeperWhileWorkWaits
  BY DEF IInv
<1>. QED
  BY <1>1, PoolInvariant, PTL

\* pool->active counts the workers that execute a task.
THEOREM ActiveCorrect == Spec => []ActiveAccurate
<1>1. IInv => ActiveAccurate
  BY DEF IInv
<1>. QED
  BY <1>1, PoolInvariant, PTL

\* The pool is freed after its last worker has left.
THEOREM FreedLast == Spec => []FreedAfterLastWorker
<1>1. IInv => FreedAfterLastWorker
  <2>. SUFFICES ASSUME TypeOK, LifeCycle, mpc \in {"done", "failed"}, NEW w \in Workers
                PROVE  pc[w] \in {"unborn", "exit"}
    BY DEF IInv, FreedAfterLastWorker
  <2>1. joined = spawned /\ spawned \in Nat /\ w \in Nat
    BY WorkerIdentity, ThreadCountPositive DEF LifeCycle, TypeOK
  <2>2. w > spawned \/ w <= joined
    BY <2>1
  <2>. QED
    BY <2>2 DEF LifeCycle
<1>. QED
  BY <1>1, PoolInvariant, PTL

\* thread_pool_wait returns only when everything submitted has returned.
THEOREM WaitCorrect == Spec => WaitMeansIdle
<1>1. IInv /\ [Next]_vars
        => [mpc = "poll" /\ mpc' = "ready"
             => \A i \in DOMAIN submitted : submitted[i] \in finished]_vars
  <2>. SUFFICES ASSUME IInv, Next, mpc = "poll", mpc' = "ready", NEW i \in DOMAIN submitted
                PROVE  submitted[i] \in finished
    OBVIOUS
  <2>1. Poll
    <3>1. \A w \in Workers : WorkerStep(w) => mpc' = mpc
      BY DEF WorkerStep, Enter, Block, SpuriousWakeup, Exit, Take, Return, Reenter, Leave,
             mainVars
    <3>. QED
      BY <3>1 DEF Next, MainStep, CreateStep, SubmitStep, DestroyStep, Create, Spawn,
             SpawnFails, CreateFails, Submit, AppendItem, StartWait, MainLock, Destroy,
             Broadcast, Join, FreePool, Terminated, vars
  <2>2. queue = <<>> /\ submitted = started
    <3>1. allocated /\ queue \in Seq(Tasks) /\ started \in Seq(Tasks)
      BY DEF IInv, TypeOK, LifeCycle
    <3>2. queue = <<>>
      BY <2>1, <3>1, EmptySeq DEF Poll, IInv, QueueIntegrity
    <3>. QED
      BY <3>1, <3>2, ConcatEmptySeq DEF IInv, FifoExactlyOnce
  <2>3. \A w \in Workers : job[w] = NoTask
    <3>1. Busy = {}
      BY <2>1, WorkersFinite, FS_EmptySet DEF Poll, IInv, ActiveAccurate, Busy
    <3>. QED
      BY <3>1 DEF Busy, IInv, LifeCycle
  <2>4. started[i] \in Tasks
    BY <2>2, ElementOfSeq, LenProperties DEF IInv, TypeOK
  <2>. QED
    BY <2>2, <2>3, <2>4, PoolAssumption DEF IInv, StartedAccounted
<1>. QED
  BY <1>1, PoolInvariant, PTL DEF Spec, WaitMeansIdle

-----------------------------------------------------------------------------
(* Refinement *)

\* The abstract slots only change when a worker's `run' stage begins or ends.
LEMMA RunningUnchanged ==
  ASSUME TypeOK, TypeOK', job' = job,
         \A w \in Workers : pc[w] = "run" <=> pc'[w] = "run"
  PROVE  AbstractRunning' = AbstractRunning
  BY DEF AbstractRunning

\* Taking a task is StartTask, returning from it FinishTask.
LEMMA WorkerRefines ==
  ASSUME IInv, TypeOK', NEW w \in Workers, WorkerStep(w)
  PROVE  TQ!TQNext \/ UNCHANGED TQ!tqVars
<1>0. TypeOK /\ LifeCycle /\ QueueIntegrity
  BY DEF IInv
<1>1. CASE Take(w)
  <2>1. queue # <<>> /\ Head(queue) \in Tasks
    BY <1>0, <1>1, QueueNotEmpty
  <2>2. AbstractRunning[w] = NoTask
    BY <1>1 DEF Take, AbstractRunning
  <2>3. AbstractRunning' = [AbstractRunning EXCEPT ![w] = Head(queue)]
    BY <1>0, <1>1 DEF Take, AbstractRunning, TypeOK
  <2>4. TQ!StartTask(w)
    BY <1>1, <2>1, <2>2, <2>3 DEF Take, TQ!StartTask, history
  <2>. QED
    BY <2>4 DEF TQ!TQNext
<1>2. CASE Return(w)
  <2>1. AbstractRunning[w] = job[w] /\ job[w] # NoTask
    BY <1>0, <1>2 DEF Return, AbstractRunning, LifeCycle
  <2>2. AbstractRunning' = [AbstractRunning EXCEPT ![w] = NoTask]
    BY <1>0, <1>2 DEF Return, AbstractRunning, TypeOK
  <2>3. TQ!FinishTask(w)
    BY <1>2, <2>1, <2>2 DEF Return, TQ!FinishTask, queueVars
  <2>. QED
    BY <2>3 DEF TQ!TQNext
<1>3. CASE ~Take(w) /\ ~Return(w)
  <2>1. /\ UNCHANGED <<queue, shutdown, finished, job>>
        /\ \A v \in Workers : pc[v] = "run" <=> pc'[v] = "run"
    BY <1>0, <1>3 DEF WorkerStep, Enter, Block, SpuriousWakeup, Exit, Reenter, Leave,
       queueVars, history, TypeOK
  <2>2. AbstractRunning' = AbstractRunning
    BY <1>0, <2>1, RunningUnchanged
  <2>. QED
    BY <2>1, <2>2 DEF TQ!tqVars
<1>. QED
  BY <1>1, <1>2, <1>3

\* Appending is SubmitTask, storing `shutdown' is Close, freeing the list is
\* DropPending.
LEMMA MainRefines ==
  ASSUME IInv, TypeOK', MainStep
  PROVE  TQ!TQNext \/ UNCHANGED TQ!tqVars
<1>0. TypeOK /\ LifeCycle /\ QueueIntegrity
  BY DEF IInv
<1>1. CASE AppendItem
  <2>1. item \in Tasks /\ ~shutdown /\ allocated
    BY <1>0, <1>1 DEF AppendItem, LifeCycle
  <2>2. queue' = Append(queue, item)
    <3>1. CASE queueEnd = NoTask
      <4>1. queue = <<>>
        <5>1. queue # <<>> => queue[Len(queue)] \in Tasks
          BY <1>0, LenProperties, EmptySeq, ElementOfSeq DEF TypeOK
        <5>. QED
          BY <1>0, <2>1, <3>1, <5>1, PoolAssumption DEF QueueIntegrity
      <4>. QED
        BY <1>1, <3>1, <4>1 DEF AppendItem, LinkNode
    <3>. QED
      BY <1>1, <3>1 DEF AppendItem, LinkNode
  <2>3. job' = job /\ \A v \in Workers : pc[v] = "run" <=> pc'[v] = "run"
    BY <1>0, <1>1 DEF AppendItem, Signal, Sleeping, TypeOK
  <2>4. AbstractRunning' = AbstractRunning
    BY <1>0, <2>3, RunningUnchanged
  <2>5. TQ!SubmitTask(item)
    BY <1>1, <2>1, <2>2, <2>4 DEF AppendItem, TQ!SubmitTask
  <2>. QED
    BY <2>1, <2>5 DEF TQ!TQNext
<1>2. CASE SpawnFails \/ Broadcast
  <2>1. ~shutdown /\ shutdown'
    BY <1>0, <1>2 DEF SpawnFails, Broadcast, LifeCycle
  <2>2. job' = job /\ \A v \in Workers : pc[v] = "run" <=> pc'[v] = "run"
    BY <1>0, <1>2 DEF SpawnFails, Broadcast, TypeOK
  <2>3. AbstractRunning' = AbstractRunning
    BY <1>0, <2>2, RunningUnchanged
  <2>4. TQ!Close
    BY <1>2, <2>1, <2>3 DEF SpawnFails, Broadcast, TQ!Close, queueVars, history
  <2>. QED
    BY <2>4 DEF TQ!TQNext
<1>3. CASE FreePool
  <2>1. shutdown /\ \A w \in Workers : pc[w] # "run"
    <3>1. shutdown
      BY <1>0, <1>3 DEF FreePool, LifeCycle
    <3>2. ASSUME NEW w \in Workers PROVE pc[w] # "run"
      <4>1. w > spawned \/ w <= joined
        BY <1>0, <1>3, WorkerIdentity, ThreadCountPositive DEF FreePool, TypeOK
      <4>. QED
        BY <1>0, <4>1 DEF LifeCycle
    <3>. QED
      BY <3>1, <3>2
  <2>2. \A w \in Workers : AbstractRunning[w] = NoTask
    BY <2>1 DEF AbstractRunning
  <2>3. AbstractRunning' = AbstractRunning
    BY <1>3 DEF FreePool, AbstractRunning
  <2>4. TQ!DropPending
    BY <1>3, <2>1, <2>2, <2>3 DEF FreePool, TQ!DropPending, history
  <2>. QED
    BY <2>4 DEF TQ!TQNext
<1>4. CASE ~(AppendItem \/ SpawnFails \/ Broadcast \/ FreePool)
  <2>1. UNCHANGED <<queue, shutdown, finished, job>>
    BY <1>4 DEF MainStep, CreateStep, SubmitStep, DestroyStep, Create, Spawn, CreateFails,
       Submit, StartWait, Poll, MainLock, Destroy, Join, queueVars, history
  <2>2. \A v \in Workers : pc[v] = "run" <=> pc'[v] = "run"
    <3>1. CASE Spawn
      <4>1. spawned + 1 \in Workers /\ pc[spawned + 1] = "unborn"
        BY <1>0, <3>1, ThreadCountPositive DEF Spawn, LifeCycle, TypeOK, Workers
      <4>. QED
        BY <1>0, <3>1, <4>1 DEF Spawn, TypeOK
    <3>2. CASE ~Spawn
      BY <1>4, <3>2 DEF MainStep, CreateStep, SubmitStep, DestroyStep, Create, CreateFails,
         Submit, StartWait, Poll, MainLock, Destroy, Join
    <3>. QED
      BY <3>1, <3>2
  <2>3. AbstractRunning' = AbstractRunning
    BY <1>0, <2>1, <2>2, RunningUnchanged
  <2>. QED
    BY <2>1, <2>3 DEF TQ!tqVars
<1>. QED
  BY <1>1, <1>2, <1>3, <1>4

\* The thread pool implements the task queue (without its fairness, which the
\* run ThreadPool_refinement checks).
THEOREM Refinement == Spec => ImplementsTaskQueue
<1>1. Init => TQ!TQInit
  BY DEF Init, TQ!TQInit, AbstractRunning
<1>2. IInv /\ IInv' /\ [Next]_vars => [TQ!TQNext]_TQ!tqVars
  <2>. SUFFICES ASSUME IInv, IInv', [Next]_vars
                PROVE  TQ!TQNext \/ UNCHANGED TQ!tqVars
    OBVIOUS
  <2>0. TypeOK'
    BY DEF IInv
  <2>1. CASE \E w \in Workers : WorkerStep(w)
    BY <2>0, <2>1, WorkerRefines
  <2>2. CASE MainStep
    BY <2>0, <2>2, MainRefines
  <2>3. CASE UNCHANGED vars
    BY <2>3 DEF vars, queueVars, history, TQ!tqVars, AbstractRunning
  <2>. QED
    BY <2>1, <2>2, <2>3 DEF Next, Terminated
<1>. QED
  BY <1>1, <1>2, PoolInvariant, PTL DEF Spec, ImplementsTaskQueue, TQ!TQSpec
=============================================================================
