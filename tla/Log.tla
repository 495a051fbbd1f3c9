--------------------------------- MODULE Log ---------------------------------
(***************************************************************************)
(* The server's log (server/src/log.c): one mutex around two writes, to    *)
(* the console and to a file.  Module Process puts threads and the signal  *)
(* handler on top of it.                                                   *)
(*                                                                         *)
(* Each thread has a stack of calls of log_write and log_close: one of its *)
(* own and, if a signal has interrupted it, one of the signal handler's on *)
(* top.  There are two locks: libc's own, around localtime and strftime    *)
(* (log.c:160-163), which come first, and the mutex.  Both are of the kind *)
(* that who holds it and asks for it again waits for ever.  What a line    *)
(* says is left out; its time may be out of order.                         *)
(*                                                                         *)
(* Writing to the file may fail (a full disk); what was to be written is   *)
(* then lost, and log_write does not notice.  That of the console is left  *)
(* out: its lines are what the file is compared with.                      *)
(***************************************************************************)
EXTENDS Integers, SequencesExt

CONSTANTS Threads, NoThread

ASSUME LogAssumption == NoThread \notin Threads

VARIABLES
    libcLock,  \* who is in localtime or strftime
    mutex,     \* who holds g_log_mutex
    logFile,   \* g_log_file: never opened, open, closed
    level,     \* g_log_level
    calls,     \* the stack of calls of each thread, the innermost first
    unfiled,   \* history: lines on the console that are to go to the file
    missed     \* history: whose lines are not in the file, and why

logVars == <<libcLock, mutex, logFile, level, calls, unfiled, missed>>

DEBUG == 0
INFO == 1
WARN == 2
ERROR == 3

LogInit ==
    /\ libcLock = NoThread /\ mutex = NoThread
    /\ logFile = "none" /\ level = INFO
    /\ calls = [t \in Threads |-> <<>>]
    /\ unfiled = <<>> /\ missed = {}

\* A thread that is not in the log, and what the call on top of a stack is at, whose
\* line it writes, and that this line stays out of the file.
Free(t)   == calls[t] = <<>>
At(t, pc) == ~Free(t) /\ calls[t][1].at = pc
Line(t)   == <<t, calls[t][1].by>>
Misses(t, why) == missed' = missed \cup {<<calls[t][1].by, why>>}

Return(t)  == calls' = [calls EXCEPT ![t] = Tail(@)]
GoTo(t, pc) == calls' = [calls EXCEPT ![t][1].at = pc]

\* log_init: the level, and the file of the day if it can be opened; the path in the
\* configuration is not used.
OpenLog(lev) ==
    /\ mutex = NoThread
    /\ level' = lev
    /\ logFile' \in {"open", "none"}
    /\ UNCHANGED <<libcLock, mutex, calls, unfiled, missed>>

Call(t, op, by, pc) == calls' = [calls EXCEPT ![t] = Cons([op |-> op, by |-> by, at |-> pc], @)]

\* log_write for a line of level lev, up to localtime.
LogWrite(t, lev, by) ==
    /\ IF lev < level THEN UNCHANGED calls ELSE Call(t, "write", by, "time")
    /\ UNCHANGED <<libcLock, mutex, logFile, level, unfiled, missed>>

\* log_close, up to the mutex.
LogClose(t) ==
    /\ Call(t, "close", "thread", "lock")
    /\ UNCHANGED <<libcLock, mutex, logFile, level, unfiled, missed>>

\* localtime or strftime takes libc's lock.
TakeTime(t) ==
    /\ At(t, "time") /\ libcLock = NoThread
    /\ libcLock' = t
    /\ GoTo(t, "stamp")
    /\ UNCHANGED <<mutex, logFile, level, unfiled, missed>>

Stamp(t) ==
    /\ At(t, "stamp")
    /\ libcLock' = NoThread
    /\ GoTo(t, "lock")
    /\ UNCHANGED <<mutex, logFile, level, unfiled, missed>>

(* The definitions named ..._Bug are mistakes of the kind each property is to
   find; no behaviour of the specification uses them. *)

\* No mutex is taken.
Lock_Bug(t) ==
    /\ At(t, "lock")
    /\ GoTo(t, IF calls[t][1].op = "write" THEN "console" ELSE "close")
    /\ UNCHANGED <<libcLock, mutex, logFile, level, unfiled, missed>>

Lock(t) ==
    /\ At(t, "lock") /\ mutex = NoThread
    /\ mutex' = t
    /\ GoTo(t, IF calls[t][1].op = "write" THEN "console" ELSE "close")
    /\ UNCHANGED <<libcLock, logFile, level, unfiled, missed>>

WriteConsole(t) ==
    /\ At(t, "console")
    /\ GoTo(t, "file")
    /\ unfiled' = IF logFile = "open" THEN Append(unfiled, Line(t)) ELSE unfiled
    /\ UNCHANGED <<libcLock, mutex, logFile, level, missed>>

\* Without a file the function returns early, and keeps the mutex.
WriteFile_Bug(t) ==
    /\ At(t, "file")
    /\ unfiled' = IF logFile = "open" THEN RemoveFirst(unfiled, Line(t)) ELSE unfiled
    /\ IF logFile = "closed" THEN Misses(t, "closed") ELSE UNCHANGED missed
    /\ mutex' = IF logFile = "open" THEN NoThread ELSE mutex
    /\ Return(t)
    /\ UNCHANGED <<libcLock, logFile, level>>

\* The line goes to the file, if there is one, and the mutex is released.
WriteFile(t) ==
    /\ At(t, "file")
    /\ unfiled' = IF logFile = "open" THEN RemoveFirst(unfiled, Line(t)) ELSE unfiled
    /\ IF logFile = "closed" THEN Misses(t, "closed") ELSE UNCHANGED missed
    /\ mutex' = NoThread
    /\ Return(t)
    /\ UNCHANGED <<libcLock, logFile, level>>

\* fwrite and fflush fail, which nobody looks at: the line is lost.
WriteFileFails(t) ==
    /\ At(t, "file") /\ logFile = "open"
    /\ unfiled' = RemoveFirst(unfiled, Line(t))
    /\ Misses(t, "failed")
    /\ mutex' = NoThread
    /\ Return(t)
    /\ UNCHANGED <<libcLock, logFile, level>>

CloseFile(t) ==
    /\ At(t, "close")
    /\ logFile' = IF logFile = "open" THEN "closed" ELSE logFile
    /\ mutex' = NoThread
    /\ Return(t)
    /\ UNCHANGED <<libcLock, level, unfiled, missed>>

LogStep(t) ==
    \/ TakeTime(t) \/ Stamp(t) \/ Lock(t) \/ WriteConsole(t)
    \/ WriteFile(t) \/ WriteFileFails(t) \/ CloseFile(t)
-----------------------------------------------------------------------------
LogCall == [op : {"write", "close"}, by : {"thread", "signal"},
            at : {"time", "stamp", "lock", "console", "file", "close"}]

LogTypeOK ==
    /\ libcLock \in Threads \cup {NoThread} /\ mutex \in Threads \cup {NoThread}
    /\ logFile \in {"none", "open", "closed"} /\ level \in DEBUG..ERROR
    /\ calls \in [Threads -> Seq(LogCall)]
    /\ unfiled \in Seq(Threads \X {"thread", "signal"})
    /\ missed \subseteq {"thread", "signal"} \X {"closed", "failed"}

\* The file has the lines of the console, in the same order, none left out but those
\* that could not be written: a line that is filed, or lost, is the one that has waited
\* longest, and none waits when nobody holds the mutex.
LogInOrder ==
    [][/\ Len(unfiled') < Len(unfiled) => unfiled' = Tail(unfiled)
       /\ mutex' = NoThread => unfiled' = <<>>]_logVars
=============================================================================
