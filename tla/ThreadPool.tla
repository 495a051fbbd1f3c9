----------------------------- MODULE ThreadPool -----------------------------
(***************************************************************************)
(* server/src/thread_pool.c: a fixed number of worker threads, a linked    *)
(* task queue with a tail pointer and a length counter, one mutex and one  *)
(* condition variable.  The server's main thread creates the pool, submits *)
(* to it, may wait for it to go idle, and destroys it.                     *)
(*                                                                         *)
(* A step of a thread is what it does between two synchronisation points:  *)
(* taking the mutex is a step of its own, and the body of the critical     *)
(* section up to the unlock (or up to pthread_cond_wait, which releases    *)
(* the mutex and starts waiting in one step) is the next.                  *)
(***************************************************************************)
EXTENDS Integers, Sequences, FiniteSets

CONSTANTS Requested,  \* the argument of thread_pool_create
          Tasks,      \* task nodes: one for each call of thread_pool_submit
          NoTask      \* the NULL task pointer

\* thread_pool.c:66
ThreadCount == IF Requested <= 0 THEN 4 ELSE Requested

ASSUME PoolAssumption == Requested \in Int /\ NoTask \notin Tasks

Workers == 1..ThreadCount
Main    == 0
Nobody  == -1

VARIABLES
    mutex,       \* the thread that holds pool->mutex
    queue,       \* the list that starts at pool->task_queue
    queueEnd,    \* pool->task_queue_end
    taskCount,   \* pool->task_count
    shutdown,    \* pool->shutdown
    active,      \* pool->active
    allocated,   \* the thread_pool_t is allocated
    pc,          \* where each worker is
    job,         \* the worker's local task pointer
    mpc,         \* where the main thread is
    item,        \* the node the main thread is submitting
    spawned,     \* worker threads created so far
    joined,      \* worker threads joined so far
    submitted,   \* history: nodes appended to the queue, in order
    started,     \* history: nodes taken from the queue, in order
    finished     \* history: nodes whose function has returned

queueVars == <<queue, queueEnd, taskCount>>
mainVars  == <<mpc, item, spawned, joined, allocated>>
history   == <<submitted, started, finished>>
vars == <<mutex, queueVars, shutdown, active, pc, job, mainVars, history>>

WorkerPC == {"unborn", "enter", "loop", "waiting", "run", "leave", "count", "exit"}
MainPC   == {"start", "spawn", "unwind", "ready", "submit", "append", "poll",
             "destroy", "broadcast", "join", "done", "failed"}

\* Workers blocked in pthread_cond_wait (thread_pool.c:23).
Sleeping == {w \in Workers : pc[w] = "waiting"}
\* Workers counted in pool->active (between lines 40 and 52).
Busy == {w \in Workers : pc[w] \in {"run", "leave", "count"}}
\* Workers on their way to the head of the queue.
Awake == {w \in Workers : pc[w] \in {"enter", "loop"}}

Init ==
    /\ mutex = Nobody
    /\ queue = <<>> /\ queueEnd = NoTask /\ taskCount = 0
    /\ shutdown = FALSE
    /\ active = 0
    /\ allocated = FALSE
    /\ pc = [w \in Workers |-> "unborn"]
    /\ job = [w \in Workers |-> NoTask]
    /\ mpc = "start" /\ item = NoTask
    /\ spawned = 0 /\ joined = 0
    /\ submitted = <<>> /\ started = <<>> /\ finished = {}

-----------------------------------------------------------------------------
(* worker_thread *)

\* Line 19, and the re-acquisition inside pthread_cond_wait on line 23.
Enter(w) ==
    /\ pc[w] = "enter" /\ mutex = Nobody
    /\ mutex' = w
    /\ pc' = [pc EXCEPT ![w] = "loop"]
    /\ UNCHANGED <<queueVars, shutdown, active, job, mainVars, history>>

\* Lines 22-24: nothing to do, wait on the condition variable.
Block(w) ==
    /\ pc[w] = "loop" /\ taskCount = 0 /\ ~shutdown
    /\ mutex' = Nobody
    /\ pc' = [pc EXCEPT ![w] = "waiting"]
    /\ UNCHANGED <<queueVars, shutdown, active, job, mainVars, history>>

\* POSIX allows pthread_cond_wait to return without a signal.
SpuriousWakeup(w) ==
    /\ pc[w] = "waiting"
    /\ pc' = [pc EXCEPT ![w] = "enter"]
    /\ UNCHANGED <<mutex, queueVars, shutdown, active, job, mainVars, history>>

(* The definitions named ..._Bug are mistakes of the kind each property is to
   find; no behaviour of the specification uses them. *)

\* The early exit forgets to unlock.
Exit_Bug(w) ==
    /\ pc[w] = "loop" /\ shutdown
    /\ pc' = [pc EXCEPT ![w] = "exit"]
    /\ UNCHANGED <<mutex, queueVars, shutdown, active, job, mainVars, history>>

\* Lines 27-30: the shutdown flag wins over tasks that still wait.
Exit(w) ==
    /\ pc[w] = "loop" /\ shutdown
    /\ mutex' = Nobody
    /\ pc' = [pc EXCEPT ![w] = "exit"]
    /\ UNCHANGED <<queueVars, shutdown, active, job, mainVars, history>>

\* The tail pointer keeps pointing to the node that was taken.
Take_TailBug(w) ==
    /\ pc[w] = "loop" /\ taskCount > 0 /\ ~shutdown
    /\ job' = [job EXCEPT ![w] = Head(queue)]
    /\ queue' = Tail(queue)
    /\ taskCount' = taskCount - 1
    /\ active' = active + 1
    /\ started' = Append(started, Head(queue))
    /\ mutex' = Nobody
    /\ pc' = [pc EXCEPT ![w] = "run"]
    /\ UNCHANGED <<queueEnd, shutdown, mainVars, submitted, finished>>

\* The worker counts itself only after it has left the critical section.
Take_ActiveBug(w) ==
    /\ pc[w] = "loop" /\ taskCount > 0 /\ ~shutdown
    /\ job' = [job EXCEPT ![w] = Head(queue)]
    /\ queue' = Tail(queue)
    /\ queueEnd' = IF Tail(queue) = <<>> THEN NoTask ELSE queueEnd
    /\ taskCount' = taskCount - 1
    /\ started' = Append(started, Head(queue))
    /\ mutex' = Nobody
    /\ pc' = [pc EXCEPT ![w] = "run"]
    /\ UNCHANGED <<shutdown, active, mainVars, submitted, finished>>

\* Lines 33-42: unlink the head, fix the tail pointer and the counters.
Take(w) ==
    /\ pc[w] = "loop" /\ taskCount > 0 /\ ~shutdown
    /\ job' = [job EXCEPT ![w] = Head(queue)]
    /\ queue' = Tail(queue)
    /\ queueEnd' = IF Tail(queue) = <<>> THEN NoTask ELSE queueEnd
    /\ taskCount' = taskCount - 1
    /\ active' = active + 1
    /\ started' = Append(started, Head(queue))
    /\ mutex' = Nobody
    /\ pc' = [pc EXCEPT ![w] = "run"]
    /\ UNCHANGED <<shutdown, mainVars, submitted, finished>>

\* Lines 45-49: the task's function returns and its node is freed.
Return(w) ==
    /\ pc[w] = "run"
    /\ finished' = finished \cup {job[w]}
    /\ job' = [job EXCEPT ![w] = NoTask]
    /\ pc' = [pc EXCEPT ![w] = "leave"]
    /\ UNCHANGED <<mutex, queueVars, shutdown, active, mainVars, submitted, started>>

\* Line 51.
Reenter(w) ==
    /\ pc[w] = "leave" /\ mutex = Nobody
    /\ mutex' = w
    /\ pc' = [pc EXCEPT ![w] = "count"]
    /\ UNCHANGED <<queueVars, shutdown, active, job, mainVars, history>>

\* The worker does not count itself out.
Leave_Bug(w) ==
    /\ pc[w] = "count"
    /\ mutex' = Nobody
    /\ pc' = [pc EXCEPT ![w] = "enter"]
    /\ UNCHANGED <<queueVars, shutdown, active, job, mainVars, history>>

\* Lines 52-53, and back to the top of the loop.
Leave(w) ==
    /\ pc[w] = "count"
    /\ active' = active - 1
    /\ mutex' = Nobody
    /\ pc' = [pc EXCEPT ![w] = "enter"]
    /\ UNCHANGED <<queueVars, shutdown, job, mainVars, history>>

-----------------------------------------------------------------------------
(* thread_pool_create, called once by the main thread *)

\* Lines 68-91: the pool and its thread array are allocated, or NULL returned.
Create ==
    /\ mpc = "start"
    /\ \/ mpc' = "spawn" /\ allocated' = TRUE
       \/ mpc' = "failed" /\ UNCHANGED allocated
    /\ UNCHANGED <<mutex, queueVars, shutdown, active, pc, job, item, spawned, joined, history>>

\* Lines 94-95: pthread_create succeeds.
Spawn ==
    /\ mpc = "spawn"
    /\ spawned' = spawned + 1
    /\ pc' = [pc EXCEPT ![spawned + 1] = "enter"]
    /\ mpc' = IF spawned + 1 = ThreadCount THEN "ready" ELSE "spawn"
    /\ UNCHANGED <<mutex, queueVars, shutdown, active, job, item, joined, allocated, history>>

\* Lines 95-98: pthread_create fails; shutdown is stored without the mutex and
\* without waking anybody.
SpawnFails ==
    /\ mpc = "spawn"
    /\ shutdown' = TRUE
    /\ mpc' = "unwind"
    /\ UNCHANGED <<mutex, queueVars, active, pc, job, item, spawned, joined, allocated, history>>

\* Lines 102-106: everything created has been joined; free and return NULL.
CreateFails ==
    /\ mpc = "unwind" /\ joined = spawned
    /\ allocated' = FALSE
    /\ mpc' = "failed"
    /\ UNCHANGED <<mutex, queueVars, shutdown, active, pc, job, item, spawned, joined, history>>

\* Lines 99-101 and 126-128: pthread_join of the next worker.
Join ==
    /\ mpc \in {"unwind", "join"}
    /\ joined < spawned /\ pc[joined + 1] = "exit"
    /\ joined' = joined + 1
    /\ UNCHANGED <<mutex, queueVars, shutdown, active, pc, job, mpc, item, spawned, allocated, history>>

-----------------------------------------------------------------------------
(* thread_pool_submit, thread_pool_wait and thread_pool_destroy *)

\* Lines 154-162: a fresh node (when calloc fails nothing changes).
Submit(t) ==
    /\ mpc = "ready"
    /\ \A i \in DOMAIN submitted : submitted[i] # t
    /\ item' = t
    /\ mpc' = "submit"
    /\ UNCHANGED <<mutex, queueVars, shutdown, active, pc, job, spawned, joined, allocated, history>>

\* Lines 164 and 120.
MainLock ==
    /\ mpc \in {"submit", "destroy"} /\ mutex = Nobody
    /\ mutex' = Main
    /\ mpc' = IF mpc = "submit" THEN "append" ELSE "broadcast"
    /\ UNCHANGED <<queueVars, shutdown, active, pc, job, item, spawned, joined, allocated, history>>

\* Nobody is woken.
Signal_Bug == UNCHANGED pc

\* pthread_cond_signal: one sleeping worker, if there is one.
Signal ==
    \/ Sleeping = {} /\ UNCHANGED pc
    \/ \E w \in Sleeping : pc' = [pc EXCEPT ![w] = "enter"]

\* The node becomes the head of the list.
LinkNode_Bug(t) ==
    /\ queue' = <<t>> \o queue
    /\ queueEnd' = IF queueEnd = NoTask THEN t ELSE queueEnd

\* Lines 166-171: with a tail pointer the node is linked behind the node it
\* points to; without one the list starts anew.
LinkNode(t) ==
    /\ queue' = IF queueEnd = NoTask THEN <<t>> ELSE Append(queue, t)
    /\ queueEnd' = t

\* A worker is woken only when the queue was empty.
AppendItem_Bug ==
    /\ mpc = "append"
    /\ LinkNode(item)
    /\ taskCount' = taskCount + 1
    /\ submitted' = Append(submitted, item)
    /\ IF taskCount = 0 THEN Signal ELSE UNCHANGED pc
    /\ mutex' = Nobody
    /\ item' = NoTask
    /\ mpc' = "ready"
    /\ UNCHANGED <<shutdown, active, job, spawned, joined, allocated, started, finished>>

\* Lines 166-176.
AppendItem ==
    /\ mpc = "append"
    /\ LinkNode(item)
    /\ taskCount' = taskCount + 1
    /\ submitted' = Append(submitted, item)
    /\ Signal
    /\ mutex' = Nobody
    /\ item' = NoTask
    /\ mpc' = "ready"
    /\ UNCHANGED <<shutdown, active, job, spawned, joined, allocated, started, finished>>

\* Lines 197-208: thread_pool_wait polls both counters under the mutex; a poll
\* that finds work changes nothing and is repeated.
StartWait ==
    /\ mpc = "ready"
    /\ mpc' = "poll"
    /\ UNCHANGED <<mutex, queueVars, shutdown, active, pc, job, item, spawned, joined, allocated, history>>

Poll ==
    /\ mpc = "poll" /\ mutex = Nobody
    /\ taskCount = 0 /\ active = 0
    /\ mpc' = "ready"
    /\ UNCHANGED <<mutex, queueVars, shutdown, active, pc, job, item, spawned, joined, allocated, history>>

Destroy ==
    /\ mpc = "ready"
    /\ mpc' = "destroy"
    /\ UNCHANGED <<mutex, queueVars, shutdown, active, pc, job, item, spawned, joined, allocated, history>>

\* One worker is woken instead of all.
Broadcast_Bug ==
    /\ mpc = "broadcast"
    /\ shutdown' = TRUE
    /\ Signal
    /\ mutex' = Nobody
    /\ mpc' = "join"
    /\ UNCHANGED <<queueVars, active, job, item, spawned, joined, allocated, history>>

\* Lines 121-123.
Broadcast ==
    /\ mpc = "broadcast"
    /\ shutdown' = TRUE
    /\ pc' = [w \in Workers |-> IF pc[w] = "waiting" THEN "enter" ELSE pc[w]]
    /\ mutex' = Nobody
    /\ mpc' = "join"
    /\ UNCHANGED <<queueVars, active, job, item, spawned, joined, allocated, history>>

\* The last worker is not joined.
FreePool_JoinBug ==
    /\ mpc = "join" /\ joined >= spawned - 1 /\ mutex = Nobody
    /\ queue' = <<>>
    /\ taskCount' = 0
    /\ allocated' = FALSE
    /\ mpc' = "done"
    /\ UNCHANGED <<mutex, queueEnd, shutdown, active, pc, job, item, spawned, joined, history>>

\* while (task_count-- > 0): the counter ends below zero.
FreePool_CountBug ==
    /\ mpc = "join" /\ joined = spawned /\ mutex = Nobody
    /\ queue' = <<>>
    /\ taskCount' = -1
    /\ allocated' = FALSE
    /\ mpc' = "done"
    /\ UNCHANGED <<mutex, queueEnd, shutdown, active, pc, job, item, spawned, joined, history>>

\* Lines 130-143: the nodes left in the queue are freed, then the pool.
FreePool ==
    /\ mpc = "join" /\ joined = spawned /\ mutex = Nobody
    /\ queue' = <<>>
    /\ taskCount' = 0
    /\ allocated' = FALSE
    /\ mpc' = "done"
    /\ UNCHANGED <<mutex, queueEnd, shutdown, active, pc, job, item, spawned, joined, history>>

\* The pool is gone, or was never made.
Terminated == mpc \in {"done", "failed"} /\ UNCHANGED vars

-----------------------------------------------------------------------------
WorkerStep(w) ==
    \/ Enter(w) \/ Block(w) \/ Exit(w) \/ Take(w)
    \/ Return(w) \/ Reenter(w) \/ Leave(w) \/ SpuriousWakeup(w)

CreateStep  == Create \/ Spawn \/ SpawnFails \/ CreateFails
SubmitStep  == (\E t \in Tasks : Submit(t)) \/ AppendItem
DestroyStep == Destroy \/ Broadcast \/ Join \/ FreePool
MainStep    == CreateStep \/ SubmitStep \/ StartWait \/ Poll \/ MainLock \/ DestroyStep

Next == (\E w \in Workers : WorkerStep(w)) \/ MainStep \/ Terminated

Spec == Init /\ [][Next]_vars

(* Fairness.  A thread that can run does run (WF); a thread that contends for
   the mutex gets it if it is free again and again (SF: the holders are other
   threads' short critical sections).  Nothing is assumed about wakeups without
   a signal, about when the main thread calls the pool, or, in SchedulerFair,
   about whether a task's function returns. *)
SchedulerFair ==
    /\ \A w \in Workers :
        /\ SF_vars(Enter(w)) /\ SF_vars(Reenter(w))
        /\ WF_vars(Block(w)) /\ WF_vars(Exit(w)) /\ WF_vars(Take(w)) /\ WF_vars(Leave(w))
    /\ SF_vars(MainLock) /\ SF_vars(Poll)
    /\ WF_vars(CreateStep) /\ WF_vars(AppendItem)
    /\ WF_vars(Broadcast) /\ WF_vars(Join) /\ WF_vars(FreePool)

TasksReturn == \A w \in Workers : WF_vars(Return(w))

FairSpec == Spec /\ SchedulerFair

-----------------------------------------------------------------------------
(* Properties *)

\* Every variable has its type.
TypeOK ==
    /\ mutex \in Workers \cup {Main, Nobody}
    /\ queue \in Seq(Tasks) /\ queueEnd \in Tasks \cup {NoTask} /\ taskCount \in Nat
    /\ shutdown \in BOOLEAN /\ allocated \in BOOLEAN
    /\ active \in Int
    /\ pc \in [Workers -> WorkerPC]
    /\ job \in [Workers -> Tasks \cup {NoTask}]
    /\ mpc \in MainPC /\ item \in Tasks \cup {NoTask}
    /\ spawned \in 0..ThreadCount /\ joined \in 0..ThreadCount
    /\ submitted \in Seq(Tasks) /\ started \in Seq(Tasks) /\ finished \in SUBSET Tasks

\* The counter and the tail pointer, kept separately from the list, agree with
\* it whenever the pool may be used: otherwise a later submit would link its
\* node behind a freed one, or a worker would unlink a node that is not there.
QueueIntegrity ==
    allocated => /\ taskCount = Len(queue)
                 /\ queueEnd = IF queue = <<>> THEN NoTask ELSE queue[Len(queue)]

\* pool->active is exactly the number of workers between line 40 and line 52:
\* thread_pool_wait and thread_pool_get_active_count rely on it.
ActiveAccurate == active = Cardinality(Busy)

\* Tasks start in the order they were submitted, each once, and none is lost:
\* what was submitted is what was started followed by what still waits.
FifoExactlyOnce == allocated => submitted = started \o queue

\* No wakeup is lost: as long as some worker sleeps, every task in the queue
\* has a worker of its own on the way to it.
NoSleeperWhileWorkWaits ==
    ~shutdown /\ Sleeping # {} => Len(queue) <= Cardinality(Awake)

\* The pool is freed only after its last worker has left worker_thread: nobody
\* uses the mutex, the condition variable or the queue afterwards.
FreedAfterLastWorker ==
    mpc \in {"done", "failed"} => \A w \in Workers : pc[w] \in {"unborn", "exit"}

\* thread_pool_wait returns only at a moment when every task submitted before
\* it has returned: the move from the queue to `active' is never visible half
\* done.
WaitMeansIdle ==
    [][mpc = "poll" /\ mpc' = "ready"
        => \A i \in DOMAIN submitted : submitted[i] \in finished]_vars

\* thread_pool_destroy comes back if the running tasks do.
DestroyTerminates == TasksReturn => (mpc = "destroy" ~> mpc = "done")

\* "cleaning up the threads already created" (comment on thread_pool.c:97) ends,
\* and thread_pool_create returns NULL (thread_pool.h:53), when a worker thread
\* cannot be created.
CreateReturns == mpc = "unwind" ~> mpc = "failed"

\* Seen from outside the pool is a FIFO queue with one slot for each worker.
AbstractRunning == [w \in Workers |-> IF pc[w] = "run" THEN job[w] ELSE NoTask]

TQ == INSTANCE TaskQueue
        WITH Slots <- Workers, pending <- queue, running <- AbstractRunning,
             closed <- shutdown

\* Every step of the pool is a step of the task queue or invisible to it.
ImplementsTaskQueue == TQ!TQSpec

\* ... and the pool never leaves a task waiting beside an idle worker.
ImplementsFairTaskQueue == TQ!TQFairSpec

-----------------------------------------------------------------------------
(* The inductive invariant behind the theorems of ThreadPool_proofs *)

\* The mutex is held exactly inside the critical sections.
MutexHeld ==
    /\ \A w \in Workers : mutex = w <=> pc[w] \in {"loop", "count"}
    /\ mutex = Main <=> mpc \in {"append", "broadcast"}

\* The stages of the pool's life, and what each of them knows.
LifeCycle ==
    /\ joined <= spawned
    /\ \A w \in Workers : /\ pc[w] = "unborn" <=> w > spawned
                          /\ w <= joined => pc[w] = "exit"
                          /\ pc[w] = "exit" => shutdown
                          /\ pc[w] = "run" <=> job[w] # NoTask
    /\ mpc = "start" => spawned = 0
    /\ mpc = "spawn" => spawned < ThreadCount
    /\ mpc \notin {"start", "spawn", "unwind", "failed"} => spawned = ThreadCount
    /\ mpc \in {"done", "failed"} => joined = spawned
    /\ allocated <=> mpc \notin {"start", "done", "failed"}
    /\ shutdown => mpc \in {"unwind", "join", "done", "failed"}
    /\ mpc \in {"unwind", "join", "done"} => shutdown
    /\ mpc \in {"submit", "append"} => item \in Tasks

\* Every task that was started has finished or is some worker's job.
StartedAccounted ==
    \A i \in DOMAIN started :
        started[i] \in finished \/ \E w \in Workers : job[w] = started[i]

\* Nothing has happened to a pool that does not exist yet.
NothingYet ==
    mpc = "start" => queue = <<>> /\ taskCount = 0 /\ queueEnd = NoTask
                     /\ submitted = <<>> /\ started = <<>>

IInv ==
    /\ TypeOK /\ MutexHeld /\ LifeCycle
    /\ NothingYet /\ QueueIntegrity /\ FifoExactlyOnce /\ StartedAccounted
    /\ ActiveAccurate /\ NoSleeperWhileWorkWaits
=============================================================================
