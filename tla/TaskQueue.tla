----------------------------- MODULE TaskQueue -----------------------------
(***************************************************************************)
(* What a fixed pool of worker threads promises its user, with no lock,    *)
(* condition variable or counter in sight: tasks wait in the order they    *)
(* were submitted, every task is handed to one idle slot, and once the     *)
(* queue is closed nothing new is started and what still waits is dropped. *)
(* thread_pool.h states the interface; module ThreadPool implements this   *)
(* specification and module Server is built on it.                     *)
(***************************************************************************)
EXTENDS Naturals, Sequences

CONSTANTS Tasks,   \* what can be submitted
          Slots,   \* the worker threads
          NoTask   \* an idle slot

ASSUME NoTaskAssumption == NoTask \notin Tasks

VARIABLES pending,   \* submitted, not started: a FIFO queue
          running,   \* the task each slot executes
          finished,  \* tasks whose function has returned
          closed     \* thread_pool_destroy has been called

tqVars == <<pending, running, finished, closed>>

TQInit ==
    /\ pending = <<>>
    /\ running = [s \in Slots |-> NoTask]
    /\ finished = {}
    /\ closed = FALSE

SubmitTask(t) ==
    /\ ~closed
    /\ pending' = Append(pending, t)
    /\ UNCHANGED <<running, finished, closed>>

StartTask(s) ==
    /\ ~closed
    /\ pending # <<>>
    /\ running[s] = NoTask
    /\ running' = [running EXCEPT ![s] = Head(pending)]
    /\ pending' = Tail(pending)
    /\ UNCHANGED <<finished, closed>>

FinishTask(s) ==
    /\ running[s] # NoTask
    /\ finished' = finished \cup {running[s]}
    /\ running' = [running EXCEPT ![s] = NoTask]
    /\ UNCHANGED <<pending, closed>>

Close ==
    /\ ~closed
    /\ closed' = TRUE
    /\ UNCHANGED <<pending, running, finished>>

\* thread_pool_destroy returns only when every task that was started has
\* finished; the tasks that were never started are forgotten.
DropPending ==
    /\ closed
    /\ \A s \in Slots : running[s] = NoTask
    /\ pending' = <<>>
    /\ UNCHANGED <<running, finished, closed>>

TQNext ==
    \/ \E t \in Tasks : SubmitTask(t)
    \/ \E s \in Slots : StartTask(s) \/ FinishTask(s)
    \/ Close
    \/ DropPending

TQSpec == TQInit /\ [][TQNext]_tqVars

\* An open queue never leaves a task waiting while a slot stays idle.
TQFairSpec == TQSpec /\ WF_tqVars(\E s \in Slots : StartTask(s))
=============================================================================
