------------------------------- MODULE Process -------------------------------
(***************************************************************************)
(* The server process from its start to its end (server/src/main.c), as    *)
(* far as the configuration, the log, the pool, the listening socket and   *)
(* the signal handler go: in which order they are acquired and released,   *)
(* on every path, and who uses them meanwhile.                             *)
(*                                                                         *)
(* A worker's handler is reduced to its use of the log and of the          *)
(* configuration, and the pool's queue to its length; sessions are module  *)
(* Server's and the pool itself module ThreadPool's.  Lines that are       *)
(* logged before the signal handler is set up change nothing and are left  *)
(* out; several in a row are one.                                          *)
(***************************************************************************)
EXTENDS Config, Log

CONSTANTS Main, Workers,
          MaxQueued  \* bound: sessions in the pool's queue

ASSUME ProcessAssumption ==
    Threads = Workers \cup {Main} /\ Main \notin Workers /\ MaxQueued \in Nat

VARIABLES
    mainPc,       \* where the main thread is
    config,       \* g_config: not loaded, loaded, freed
    pool,         \* g_thread_pool: none, up, closing (shutdown is set), gone
    queued,       \* g_thread_pool->task_count
    listening,    \* the listening socket is open
    keepRunning,  \* g_running
    signalled,    \* a signal has come (bound: one)
    stage         \* where the handler of each worker is

mainVars == <<mainPc, config, pool, queued, listening>>
vars == <<configVars, logVars, mainVars, keepRunning, signalled, stage>>

Init ==
    /\ ConfigInit /\ LogInit
    /\ mainPc = "load" /\ config = "none" /\ pool = "none" /\ queued = 0 /\ listening = FALSE
    /\ keepRunning = TRUE /\ signalled = FALSE
    /\ stage = [w \in Workers |-> "idle"]

-----------------------------------------------------------------------------
(* Before there are threads *)

LoadLine ==
    /\ mainPc = "load" /\ Len(text) < MaxLines
    /\ \E l \in Lines : ~Crashes(l) /\ ReadLine(l)
    /\ UNCHANGED <<logVars, mainVars, keepRunning, signalled, stage>>

\* strcmp is called with a null key, which ends the process.
LoadCrashes ==
    /\ mainPc = "load" /\ Len(text) < MaxLines
    /\ \E l \in Lines : Crashes(l)
    /\ mainPc' = "crashed"
    /\ UNCHANGED <<configVars, logVars, config, pool, queued, listening, keepRunning, signalled, stage>>

\* There is no file, or no memory.
LoadFails ==
    /\ mainPc = "load" /\ text = <<>>
    /\ mainPc' = "exited"
    /\ UNCHANGED <<configVars, logVars, config, pool, queued, listening, keepRunning, signalled, stage>>

\* config_load returns; log_init is called, then sigaction.  The file and the place
\* in it are forgotten.
StartLog ==
    /\ mainPc = "load"
    /\ config' = "loaded"
    /\ text' = <<>> /\ section' = ""
    /\ OpenLog(IF settings["log_level"] = "given" THEN WARN ELSE INFO)
    /\ mainPc' = "pool"
    /\ UNCHANGED <<users, settings, pool, queued, listening, keepRunning, signalled, stage>>

-----------------------------------------------------------------------------
(* The main thread *)

\* It is at pc and not inside the log.
MainAt(pc) == mainPc = pc /\ Free(Main)

CreatePool ==
    /\ MainAt("pool")
    /\ pool' = "up" /\ mainPc' = "listen"
    /\ LogWrite(Main, INFO, "thread")
    /\ UNCHANGED <<configVars, config, queued, listening, keepRunning, signalled, stage>>

\* A thread cannot be created: those that were are joined, but not woken, and
\* thread_pool_create may wait for ever (see module ThreadPool).
CreatePoolFails ==
    /\ MainAt("pool")
    /\ mainPc' \in {"freeConfig", "joining"}
    /\ LogWrite(Main, ERROR, "thread")
    /\ UNCHANGED <<configVars, config, pool, queued, listening, keepRunning, signalled, stage>>

\* tcp_listen: socket, bind, listen.
Listen ==
    /\ MainAt("listen")
    /\ listening' = TRUE /\ mainPc' = "check"
    /\ LogWrite(Main, INFO, "thread")
    /\ UNCHANGED <<configVars, config, pool, queued, keepRunning, signalled, stage>>

\* The pool is forgotten.
ListenFails_Bug ==
    /\ MainAt("listen")
    /\ mainPc' = "freeConfig"
    /\ LogWrite(Main, ERROR, "thread")
    /\ UNCHANGED <<configVars, config, pool, queued, listening, keepRunning, signalled, stage>>

\* tcp_listen closes its socket when bind or listen fail.
ListenFails ==
    /\ MainAt("listen")
    /\ mainPc' = "destroyPool"
    /\ LogWrite(Main, ERROR, "thread")
    /\ UNCHANGED <<configVars, config, pool, queued, listening, keepRunning, signalled, stage>>

CheckRunning ==
    /\ MainAt("check")
    /\ IF keepRunning
       THEN mainPc' = "call" /\ UNCHANGED logVars
       ELSE mainPc' = "closeListener" /\ LogWrite(Main, INFO, "thread")
    /\ UNCHANGED <<configVars, config, pool, queued, listening, keepRunning, signalled, stage>>

\* accept(2) is called: a signal that comes before does not end it.
CallAccept ==
    /\ MainAt("call")
    /\ mainPc' = "accept"
    /\ UNCHANGED <<configVars, logVars, config, pool, queued, listening, keepRunning,
                   signalled, stage>>

\* A client is accepted and its session made, or not for want of memory.
Accept ==
    /\ MainAt("accept")
    /\ \/ queued < MaxQueued /\ mainPc' = "submit" /\ LogWrite(Main, INFO, "thread")
       \/ mainPc' = "check" /\ LogWrite(Main, ERROR, "thread")
    /\ UNCHANGED <<configVars, config, pool, queued, listening, keepRunning, signalled, stage>>

AcceptFails ==
    /\ MainAt("accept")
    /\ mainPc' = "check"
    /\ IF keepRunning THEN LogWrite(Main, WARN, "thread") ELSE UNCHANGED logVars
    /\ UNCHANGED <<configVars, config, pool, queued, listening, keepRunning, signalled, stage>>

\* thread_pool_submit queues the session, or has no memory for it.
Submit ==
    /\ MainAt("submit")
    /\ mainPc' = "check"
    /\ \/ queued' = queued + 1 /\ UNCHANGED logVars
       \/ LogWrite(Main, ERROR, "thread") /\ UNCHANGED queued
    /\ UNCHANGED <<configVars, config, pool, listening, keepRunning, signalled, stage>>

CloseListener ==
    /\ MainAt("closeListener")
    /\ listening' = FALSE /\ mainPc' = "destroyPool"
    /\ UNCHANGED <<configVars, logVars, config, pool, queued, keepRunning, signalled, stage>>

\* thread_pool_destroy: no session is started any more.
DestroyPool ==
    /\ MainAt("destroyPool")
    /\ pool' = "closing" /\ mainPc' = "joinPool"
    /\ UNCHANGED <<configVars, logVars, config, queued, listening, keepRunning, signalled, stage>>

\* The handlers that run are not waited for.
JoinPool_Bug ==
    /\ MainAt("joinPool")
    /\ pool' = "gone" /\ queued' = 0 /\ mainPc' = "freeConfig"
    /\ LogWrite(Main, INFO, "thread")
    /\ UNCHANGED <<configVars, config, listening, keepRunning, signalled, stage>>

\* It returns when every worker has; the sessions in the queue are forgotten.
JoinPool ==
    /\ MainAt("joinPool")
    /\ \A w \in Workers : stage[w] = "idle" /\ Free(w)
    /\ pool' = "gone" /\ queued' = 0 /\ mainPc' = "freeConfig"
    /\ LogWrite(Main, INFO, "thread")
    /\ UNCHANGED <<configVars, config, listening, keepRunning, signalled, stage>>

FreeConfig ==
    /\ MainAt("freeConfig")
    /\ config' = "freed" /\ mainPc' = "closeLog"
    /\ UNCHANGED <<configVars, logVars, pool, queued, listening, keepRunning, signalled, stage>>

CloseLog ==
    /\ MainAt("closeLog")
    /\ mainPc' = "end"
    /\ LogClose(Main)
    /\ UNCHANGED <<configVars, config, pool, queued, listening, keepRunning, signalled, stage>>

\* main returns, which ends the process.
Exit ==
    /\ MainAt("end")
    /\ mainPc' = "exited"
    /\ UNCHANGED <<configVars, logVars, config, pool, queued, listening, keepRunning, signalled, stage>>

-----------------------------------------------------------------------------
(* handle_client on a worker *)

\* worker_thread takes a session from the queue and calls handle_client.
StartHandler(w) ==
    /\ stage[w] = "idle" /\ Free(w)
    /\ pool = "up" /\ queued > 0
    /\ queued' = queued - 1
    /\ stage' = [stage EXCEPT ![w] = "loop"]
    /\ LogWrite(w, INFO, "thread")
    /\ UNCHANGED <<configVars, mainPc, config, pool, listening, keepRunning, signalled>>

\* handle_login, up to config_verify_user.
StartLogin(w) ==
    /\ stage[w] = "loop" /\ Free(w)
    /\ stage' = [stage EXCEPT ![w] = "verify"]
    /\ LogWrite(w, WARN, "thread")
    /\ UNCHANGED <<configVars, mainVars, keepRunning, signalled>>

\* The table of users is read; the client sends the sum of what was typed.
Verify(w) ==
    /\ stage[w] = "verify" /\ Free(w)
    /\ stage' = [stage EXCEPT ![w] = "loop"]
    /\ \E n \in Names, f \in Fields :
          LogWrite(w, IF VerifyUser(n, Md5Hex(f)) = "fails" THEN WARN ELSE INFO, "thread")
    /\ UNCHANGED <<configVars, mainVars, keepRunning, signalled>>

\* The client is gone, or the loop has seen that g_running is 0.
LeaveHandler(w) ==
    /\ stage[w] = "loop" /\ Free(w)
    /\ stage' = [stage EXCEPT ![w] = "idle"]
    /\ LogWrite(w, INFO, "thread")
    /\ UNCHANGED <<configVars, mainVars, keepRunning, signalled>>

-----------------------------------------------------------------------------
(* Any thread *)

Exists(t) == IF t = Main THEN mainPc \notin {"load", "crashed", "exited"}
             ELSE pool \in {"up", "closing"} \/ mainPc = "joining" \/ stage[t] # "idle"

\* signal_handler for SIGINT or SIGTERM interrupts thread t and logs; g_running is
\* cleared when log_write has returned.  accept(2) is not taken up again.
SignalHandler(t) ==
    /\ ~signalled /\ Exists(t)
    /\ signalled' = TRUE
    /\ LogWrite(t, INFO, "signal")
    /\ keepRunning' = (keepRunning /\ INFO >= level)
    /\ mainPc' = IF t = Main /\ MainAt("accept") THEN "check" ELSE mainPc
    /\ UNCHANGED <<configVars, config, pool, queued, listening, stage>>

\* A step inside the log.
InLog(t) ==
    /\ LogStep(t)
    /\ keepRunning' = (keepRunning /\ ~(Return(t) /\ calls[t][1].by = "signal"))
    /\ UNCHANGED <<configVars, mainVars, signalled, stage>>

MainStep ==
    \/ StartLog \/ CreatePool \/ CreatePoolFails \/ Listen \/ ListenFails
    \/ CheckRunning \/ CallAccept \/ Accept \/ AcceptFails \/ Submit \/ CloseListener
    \/ DestroyPool \/ JoinPool \/ FreeConfig \/ CloseLog \/ Exit

WorkerStep(w) == StartHandler(w) \/ StartLogin(w) \/ Verify(w) \/ LeaveHandler(w)

Next ==
    \/ LoadLine \/ LoadCrashes \/ LoadFails \/ MainStep
    \/ \E w \in Workers : WorkerStep(w)
    \/ \E t \in Threads : SignalHandler(t) \/ InLog(t)

Spec == Init /\ [][Next]_vars

(* Fairness: threads that can run do; who waits for a lock gets it if it is
   free again and again; handlers see their clients leave.  Another client always
   comes, so that accept(2) returns (module Server does without that). *)
FairSpec ==
    /\ Spec
    /\ WF_vars(MainStep)
    /\ \A w \in Workers : WF_vars(Verify(w)) /\ SF_vars(LeaveHandler(w))
    /\ \A t \in Threads : SF_vars(InLog(t))

-----------------------------------------------------------------------------
(* Properties *)

\* Every variable has its type.
TypeOK ==
    /\ LogTypeOK
    /\ text \in Seq(Lines) /\ section \in Sections \cup {""}
    /\ users \in Seq(User) /\ settings \in [Keys -> {"default", "given"}]
    /\ mainPc \in {"load", "crashed", "pool", "joining", "listen", "check", "call", "accept",
                   "submit", "closeListener", "destroyPool", "joinPool", "freeConfig",
                   "closeLog", "end", "exited"}
    /\ config \in {"none", "loaded", "freed"} /\ pool \in {"none", "up", "closing", "gone"}
    /\ queued \in 0..MaxQueued
    /\ listening \in BOOLEAN /\ keepRunning \in BOOLEAN /\ signalled \in BOOLEAN
    /\ stage \in [Workers -> {"idle", "loop", "verify"}]

\* While the file is read, see module Config.
LoadedAsWritten == mainPc = "load" => ConfigAsWritten

\* Nothing is released while a handler uses it, and when main returns, on whichever
\* path, everything it acquired has been released.
ReleasedInOrder ==
    /\ \A w \in Workers : stage[w] # "idle" => config = "loaded" /\ pool \in {"up", "closing"}
    /\ mainPc = "exited" => /\ config # "loaded" /\ pool \in {"none", "gone"}
                            /\ ~listening /\ logFile # "open"

\* The last line of a handler is not late for the file: only the signal handler's
\* can be.
HandlerLinesKept == <<"thread", "closed">> \notin missed

\* The signal handler waits for a lock that the thread it interrupted holds.
SelfBlocked ==
    \E t \in Threads :
        /\ ~Free(t) /\ calls[t][1].by = "signal"
        /\ \/ At(t, "time") /\ libcLock = t
           \/ At(t, "lock") /\ mutex = t

\* If another client comes, a signal ends the process (server/README.md:153-155), but
\* for two cases: main.c:21 logs, and has interrupted its thread inside the log or
\* inside libc on the way there; or the pool could not be made and main waits for the
\* threads that were.
SignalEndsProcess == signalled ~> mainPc = "exited" \/ SelfBlocked \/ mainPc = "joining"
=============================================================================
