------------------------------- MODULE Server -------------------------------
(***************************************************************************)
(* The life of the server process and of its sessions: the accept loop and *)
(* the signal handler of server/src/main.c, the session registry of        *)
(* server/src/session.c, and the loop of handle_client                     *)
(* (server/src/handler.c), run by the thread pool as specified in module   *)
(* TaskQueue (which module ThreadPool implements).  The pool's tasks are   *)
(* the sessions, one for each connection a client makes.                   *)
(*                                                                         *)
(* What a request does is module Transfers' and module Connection's        *)
(* subject; here a request only logs in, logs out, or is some other one.   *)
(***************************************************************************)
EXTENDS TaskQueue, Integers, FiniteSets, SequencesExt

CONSTANT Backlog  \* what listen(2) keeps waiting (network.c:66)

\* Connections are numbered in the order in which they are made.
ASSUME ServerAssumption == Backlog \in Nat /\ Tasks \subseteq Nat

Clients == Tasks

VARIABLES
    mainPc,        \* where the main thread is
    accepted,      \* the connection the main thread holds
    keepRunning,   \* g_running
    signalled,     \* a signal has come (bound: one)
    backlog,       \* connections the kernel has not handed out yet
    peer,          \* what each client does
    sessions,      \* the list that starts at g_sessions, head first
    sessionId,     \* sess->session_id, 0 for no session
    nextSessionId, \* g_next_session_id
    sockets,       \* connections whose descriptor the server has open
    stage,         \* where the worker of each session is in handle_client
    auth           \* sess->is_authenticated

mainVars     == <<mainPc, accepted, keepRunning, signalled>>
networkVars  == <<backlog, peer>>
registryVars == <<sessions, sessionId, nextSessionId, sockets>>
handlerVars  == <<stage, auth>>
vars == <<tqVars, mainVars, networkVars, registryVars, handlerVars>>

Init ==
    /\ TQInit
    /\ mainPc = "check" /\ accepted = NoTask
    /\ keepRunning = TRUE /\ signalled = FALSE
    /\ backlog = <<>>
    /\ peer = [c \in Clients |-> "idle"]
    /\ sessions = <<>>
    /\ sessionId = [c \in Clients |-> 0]
    /\ nextSessionId = 1
    /\ sockets = {}
    /\ stage = [c \in Clients |-> "none"]
    /\ auth = [c \in Clients |-> FALSE]

-----------------------------------------------------------------------------
(* Clients and the kernel *)

Connect(c) ==
    /\ peer[c] = "idle" /\ Len(backlog) < Backlog
    /\ \A d \in Clients : d < c => peer[d] # "idle"
    /\ mainPc \notin {"destroy", "drain", "stopped"}
    /\ peer' = [peer EXCEPT ![c] = "connected"]
    /\ backlog' = Append(backlog, c)
    /\ UNCHANGED <<tqVars, mainVars, registryVars, handlerVars>>

\* The client closes its connection, or is cut off, and nothing it has sent waits.
Depart(c) ==
    /\ peer[c] = "connected"
    /\ peer' = [peer EXCEPT ![c] = "gone"]
    /\ UNCHANGED <<tqVars, mainVars, backlog, registryVars, handlerVars>>

-----------------------------------------------------------------------------
(* session.c: the registry *)

(* The definitions named ..._Bug are mistakes of the kind each property is to
   find; no behaviour of the specification uses them. *)

\* The number of sessions is taken for a fresh session number.
GenerateSessionId_Bug(c) ==
    /\ sessionId' = [sessionId EXCEPT ![c] = Len(sessions) + 1]
    /\ nextSessionId' = nextSessionId + 1

\* generate_session_id, for the session of c.
GenerateSessionId(c) ==
    /\ sessionId' = [sessionId EXCEPT ![c] = nextSessionId]
    /\ nextSessionId' = nextSessionId + 1

\* The head of the list is taken out, whichever session it is.
SessionDestroy_Bug(c) ==
    /\ sessions' = Tail(sessions)
    /\ sessionId' = [sessionId EXCEPT ![c] = 0]
    /\ sockets' = sockets \ {c}
    /\ auth' = [auth EXCEPT ![c] = FALSE]
    /\ UNCHANGED nextSessionId

\* session_destroy: out of the list, where the search ends at the first match;
\* descriptor closed, memory freed.
SessionDestroy(c) ==
    /\ sessions' = RemoveFirst(sessions, c)
    /\ sessionId' = [sessionId EXCEPT ![c] = 0]
    /\ sockets' = sockets \ {c}
    /\ auth' = [auth EXCEPT ![c] = FALSE]
    /\ UNCHANGED nextSessionId

-----------------------------------------------------------------------------
(* main.c *)

\* The condition of the main loop.
CheckRunning ==
    /\ mainPc = "check"
    /\ mainPc' = IF keepRunning THEN "call" ELSE "close"
    /\ UNCHANGED <<tqVars, accepted, keepRunning, signalled, networkVars, registryVars, handlerVars>>

\* The main thread enters accept(2), whatever has become of g_running.
CallAccept ==
    /\ mainPc = "call"
    /\ mainPc' = "accept"
    /\ UNCHANGED <<tqVars, accepted, keepRunning, signalled, networkVars, registryVars, handlerVars>>

\* tcp_accept returns the oldest waiting connection.
Accept ==
    /\ mainPc = "accept" /\ backlog # <<>>
    /\ accepted' = Head(backlog)
    /\ backlog' = Tail(backlog)
    /\ sockets' = sockets \cup {Head(backlog)}
    /\ mainPc' = "create"
    /\ UNCHANGED <<tqVars, keepRunning, signalled, peer, sessions, sessionId, nextSessionId,
                   handlerVars>>

\* accept(2) fails, for want of a descriptor say; the loop goes round.
AcceptFails ==
    /\ mainPc = "accept"
    /\ mainPc' = "check"
    /\ UNCHANGED <<tqVars, accepted, keepRunning, signalled, networkVars, registryVars, handlerVars>>

\* session_create takes g_sessions_mutex twice.  First it draws a fresh number ...
CreateSession ==
    /\ mainPc = "create"
    /\ GenerateSessionId(accepted)
    /\ auth' = [auth EXCEPT ![accepted] = FALSE]
    /\ mainPc' = "link"
    /\ UNCHANGED <<tqVars, accepted, keepRunning, signalled, networkVars, sessions, sockets, stage>>

\* ... then the session becomes the head of the list; workers may take others out between.
LinkSession ==
    /\ mainPc = "link"
    /\ sessions' = Cons(accepted, sessions)
    /\ mainPc' = "submit"
    /\ UNCHANGED <<tqVars, accepted, keepRunning, signalled, networkVars, sessionId, nextSessionId,
                   sockets, handlerVars>>

\* session_create returns NULL: the descriptor is closed.
CreateFails ==
    /\ mainPc = "create"
    /\ sockets' = sockets \ {accepted}
    /\ accepted' = NoTask
    /\ mainPc' = "check"
    /\ UNCHANGED <<tqVars, keepRunning, signalled, networkVars, sessions, sessionId, nextSessionId,
                   handlerVars>>

\* A session may be submitted a second time.
Submit_Bug ==
    /\ mainPc = "submit"
    /\ SubmitTask(accepted)
    /\ mainPc' \in {"submit", "check"}
    /\ accepted' = IF mainPc' = "submit" THEN accepted ELSE NoTask
    /\ UNCHANGED <<keepRunning, signalled, networkVars, registryVars, handlerVars>>

Submit ==
    /\ mainPc = "submit"
    /\ SubmitTask(accepted)
    /\ accepted' = NoTask
    /\ mainPc' = "check"
    /\ UNCHANGED <<keepRunning, signalled, networkVars, registryVars, handlerVars>>

\* thread_pool_submit fails: the session is destroyed by the main thread.
SubmitFails ==
    /\ mainPc = "submit"
    /\ SessionDestroy(accepted)
    /\ accepted' = NoTask
    /\ mainPc' = "check"
    /\ UNCHANGED <<tqVars, keepRunning, signalled, networkVars, stage>>

\* The listening socket is closed; the kernel resets what still waits on it.
CloseListener ==
    /\ mainPc = "close"
    /\ backlog' = <<>>
    /\ mainPc' = "destroy"
    /\ UNCHANGED <<tqVars, accepted, keepRunning, signalled, peer, registryVars, handlerVars>>

\* The main thread does not wait for its end.
DestroyPool_Bug ==
    /\ mainPc = "destroy"
    /\ Close
    /\ mainPc' = "exit"
    /\ UNCHANGED <<accepted, keepRunning, signalled, networkVars, registryVars, handlerVars>>

\* thread_pool_destroy: nothing new is started ...
DestroyPool ==
    /\ mainPc = "destroy"
    /\ Close
    /\ mainPc' = "drain"
    /\ UNCHANGED <<accepted, keepRunning, signalled, networkVars, registryVars, handlerVars>>

\* ... and when the last handler has returned the waiting task nodes are freed,
\* without a look at the sessions they point to.
DrainPool ==
    /\ mainPc = "drain"
    /\ DropPending
    /\ mainPc' = "stopped"
    /\ UNCHANGED <<accepted, keepRunning, signalled, networkVars, registryVars, handlerVars>>

\* signal_handler for SIGINT or SIGTERM, run by any thread.  There is no
\* SA_RESTART: a main thread blocked in accept(2) finds it failed (EINTR), and so
\* does a worker blocked in recv(2); a thread elsewhere notices nothing, the main thread
\* before accept(2) and a worker without a session among them.
SignalHandler ==
    /\ ~signalled /\ signalled' = TRUE
    /\ keepRunning' = FALSE
    /\ \/ /\ mainPc' = IF mainPc = "accept" /\ backlog = <<>> THEN "check" ELSE mainPc
          /\ UNCHANGED stage
       \/ /\ \E s \in Slots :
                stage' = [c \in Clients |->
                    IF c = running[s] /\ stage[c] = "recv" THEN "destroy" ELSE stage[c]]
          /\ UNCHANGED mainPc
    /\ UNCHANGED <<tqVars, accepted, networkVars, registryVars, auth>>

-----------------------------------------------------------------------------
(* handle_client, on the worker thread of slot w *)

\* The worker takes the oldest waiting session and enters the handler.
EnterHandler(w) ==
    /\ StartTask(w)
    /\ stage' = [stage EXCEPT ![Head(pending)] = "loop"]
    /\ UNCHANGED <<mainVars, networkVars, registryVars, auth>>

\* The loop condition: a session that is not logged in does not look at g_running.
LoopTest(c) ==
    /\ stage[c] = "loop"
    /\ stage' = [stage EXCEPT ![c] =
           IF (keepRunning /\ auth[c]) \/ ~auth[c] THEN "recv" ELSE "destroy"]
    /\ UNCHANGED <<tqVars, mainVars, networkVars, registryVars, auth>>

\* The loop goes on when recv_frame has failed.
RecvFails_Bug(c) ==
    /\ stage[c] = "recv"
    /\ stage' = [stage EXCEPT ![c] = "loop"]
    /\ UNCHANGED <<tqVars, mainVars, networkVars, registryVars, auth>>

\* recv_frame has no frame: the client is gone, silent for too long, or has
\* sent something that is none.
RecvFails(c) ==
    /\ stage[c] = "recv"
    /\ stage' = [stage EXCEPT ![c] = "destroy"]
    /\ UNCHANGED <<tqVars, mainVars, networkVars, registryVars, auth>>

\* A request is answered; `a' is whether the session is logged in afterwards, and
\* only a LOGIN may leave it logged out without ending the loop.
Request(c, login, a) ==
    /\ stage[c] = "recv" /\ peer[c] = "connected"
    /\ auth' = [auth EXCEPT ![c] = a]
    /\ stage' = [stage EXCEPT ![c] = IF ~a /\ ~login THEN "destroy" ELSE "loop"]
    /\ UNCHANGED <<tqVars, mainVars, networkVars, registryVars>>

LoginRequest(c)  == Request(c, TRUE, TRUE) \/ Request(c, TRUE, auth[c])
LogoutRequest(c) == Request(c, FALSE, FALSE)
OtherRequest(c)  == Request(c, FALSE, auth[c])

DestroySession(c) ==
    /\ stage[c] = "destroy"
    /\ SessionDestroy(c)
    /\ stage' = [stage EXCEPT ![c] = "freed"]
    /\ UNCHANGED <<tqVars, mainVars, networkVars>>

\* handle_client returns to the worker.
LeaveHandler(w) ==
    /\ running[w] # NoTask /\ stage[running[w]] = "freed"
    /\ FinishTask(w)
    /\ stage' = [stage EXCEPT ![running[w]] = "none"]
    /\ UNCHANGED <<mainVars, networkVars, registryVars, auth>>

\* The process has ended, or serves nobody and waits in accept(2).
AtRest ==
    /\ \/ mainPc = "stopped"
       \/ /\ mainPc = "accept" /\ backlog = <<>> /\ pending = <<>>
          /\ \A w \in Slots : running[w] = NoTask
    /\ UNCHANGED vars

-----------------------------------------------------------------------------
MainStep ==
    \/ CheckRunning \/ CallAccept \/ Accept
    \/ CreateSession \/ CreateFails \/ LinkSession
    \/ Submit \/ SubmitFails \/ CloseListener \/ DestroyPool \/ DrainPool

HandlerStep(c) ==
    \/ LoopTest(c) \/ RecvFails(c) \/ LoginRequest(c) \/ LogoutRequest(c)
    \/ OtherRequest(c) \/ DestroySession(c)

Next ==
    \/ \E c \in Clients : Connect(c) \/ Depart(c) \/ HandlerStep(c)
    \/ \E w \in Slots : EnterHandler(w) \/ LeaveHandler(w)
    \/ MainStep \/ AcceptFails \/ SignalHandler \/ AtRest

Spec == Init /\ [][Next]_vars

(* Fairness.  Threads that can run do run; accept(2) need not fail.  The receive timeout (handler.c:21)
   and the end of the connection make recv_frame fail when the client is gone;
   that clients leave some day is an assumption about them. *)
ThreadsFair ==
    /\ WF_vars(MainStep)
    /\ WF_vars(\E w \in Slots : EnterHandler(w))
    /\ \A w \in Slots : WF_vars(LeaveHandler(w))
    /\ \A c \in Clients :
        /\ WF_vars(LoopTest(c)) /\ WF_vars(DestroySession(c))
        /\ WF_vars(peer[c] = "gone" /\ RecvFails(c))

ClientsLeave == \A c \in Clients : WF_vars(Depart(c))

FairSpec == Spec /\ ThreadsFair /\ ClientsLeave

-----------------------------------------------------------------------------
(* Properties *)

\* Every variable has its type.
TypeOK ==
    /\ pending \in Seq(Clients) /\ finished \in SUBSET Clients /\ closed \in BOOLEAN
    /\ running \in [Slots -> Clients \cup {NoTask}]
    /\ mainPc \in {"check", "call", "accept", "create", "link", "submit",
                   "close", "destroy", "drain", "stopped"}
    /\ accepted \in Clients \cup {NoTask}
    /\ keepRunning \in BOOLEAN /\ signalled \in BOOLEAN
    /\ backlog \in Seq(Clients)
    /\ peer \in [Clients -> {"idle", "connected", "gone"}]
    /\ sessions \in Seq(Clients)
    /\ sessionId \in [Clients -> Nat] /\ nextSessionId \in Nat
    /\ sockets \in SUBSET Clients
    /\ stage \in [Clients -> {"none", "loop", "recv", "destroy", "freed"}]
    /\ auth \in [Clients -> BOOLEAN]

\* Who is responsible for a session that exists: the main thread that made it,
\* the pool's queue, or the worker that serves it.
Queued(c) == \E i \in DOMAIN pending : pending[i] = c
Owned(c) ==
    \/ c = accepted /\ mainPc = "submit"
    \/ Queued(c)
    \/ \E w \in Slots : running[w] = c /\ stage[c] # "freed"

\* No session is lost or freed twice: as long as the pool lives the registry
\* holds exactly the sessions somebody is responsible for, and the descriptors
\* that are open are theirs and that of the connection just accepted.
SessionsAccounted ==
    mainPc # "stopped" =>
        /\ \A c \in Clients : (\E i \in DOMAIN sessions : sessions[i] = c) <=> Owned(c)
        /\ sockets = {c \in Clients : Owned(c) \/ (c = accepted /\ mainPc \in {"create", "link"})}

\* One owner at a time: what the handler may do without a lock relies on it.
OneOwner ==
    \A c \in Clients :
        /\ Cardinality({w \in Slots : running[w] = c}) <= 1
        /\ Cardinality({i \in DOMAIN pending : pending[i] = c}) <= 1
        /\ Queued(c) => \A w \in Slots : running[w] # c
        /\ c = accepted => ~Queued(c) /\ \A w \in Slots : running[w] # c

\* The registry is in the order of creation, newest first, under numbers that
\* are all different, whatever workers take out while a session has its number and is
\* not listed yet: session_find_by_id has at most one answer.
RegistryOrdered ==
    \A i, j \in DOMAIN sessions :
        i < j => sessionId[sessions[i]] > sessionId[sessions[j]]

\* When a client's session waits for a worker it gets one, or the server stops.
WaitingServed == \A c \in Clients : Queued(c) ~> ~Queued(c) \/ closed

\* Once the main loop has ended, the process ends.
CleanupTerminates == mainPc = "close" ~> mainPc = "stopped"

\* SIGINT or SIGTERM stop the server (server/README.md:153-161).
SignalStops == signalled ~> mainPc = "stopped"
=============================================================================
