---------------------------- MODULE Process_proofs ----------------------------
(***************************************************************************)
(* Theorems about the server process, its log and its configuration, for   *)
(* every set of workers, users, passwords and settings.                    *)
(***************************************************************************)
EXTENDS Process, Config_proofs

-----------------------------------------------------------------------------
(* The log's invariant *)

\* Where a call is past the mutex.
Inside == {"console", "file", "close"}

\* Only the thread that holds the mutex has a call that is past it, and only one.
MutexHeld ==
    \A t \in Threads : \A i \in DOMAIN calls[t] : calls[t][i].at \in Inside =>
        mutex = t /\ \A j \in DOMAIN calls[t] : calls[t][j].at \in Inside => j = i

\* What is written is a line, and log_close writes none.
StepsFit ==
    \A t \in Threads : \A i \in DOMAIN calls[t] :
        /\ calls[t][i].at \in {"console", "file"} => calls[t][i].op = "write"
        /\ calls[t][i].at = "close" => calls[t][i].op = "close"

\* The one line that may wait for the file is that of the call between the two
\* writes.
LineWaits ==
    unfiled # <<>> =>
        /\ logFile = "open"
        /\ \E t \in Threads : \E i \in DOMAIN calls[t] :
               calls[t][i].at = "file" /\ unfiled = << <<t, calls[t][i].by>> >>

LogInv == LogTypeOK /\ MutexHeld /\ StepsFit /\ LineWaits

-----------------------------------------------------------------------------
(* The process' invariant *)

Listening == {"check", "call", "accept", "submit", "closeListener"}
HasPool   == Listening \cup {"listen", "destroyPool", "joinPool"}
HasConfig == HasPool \cup {"pool", "joining", "freeConfig"}

\* What main holds at each of its places.
MainHolds ==
    /\ config = "loaded" <=> mainPc \in HasConfig
    /\ pool \in {"up", "closing"} <=> mainPc \in HasPool
    /\ pool = "closing" <=> mainPc = "joinPool"
    /\ mainPc = "submit" => queued < MaxQueued
    /\ listening <=> mainPc \in Listening
    /\ logFile = "open" => mainPc \notin {"load", "crashed", "exited"}
    /\ logFile = "closed" => mainPc \in {"end", "exited"}

\* There are workers in a handler or in the log as long as there is a pool, or may be
\* one never to come, and nobody is in the log before it is opened or after the process
\* has ended.
WhoIsThere ==
    /\ \A w \in Workers : stage[w] # "idle" => mainPc \in HasPool
    /\ \A w \in Workers : ~Free(w) => mainPc \in HasPool \cup {"joining"}
    /\ mainPc \in {"load", "crashed", "exited"} => Free(Main)

\* log_close is the last thing main calls.
CloseComesLast ==
    /\ \A t \in Threads : \A i \in DOMAIN calls[t] :
          calls[t][i].op = "close" => t = Main /\ mainPc = "end"
    /\ mainPc = "end" => \A i \in DOMAIN calls[Main] :
          calls[Main][i].by = "thread" => calls[Main][i].op = "close"
    /\ mainPc = "end" /\ logFile = "open" =>
          \E i \in DOMAIN calls[Main] : calls[Main][i].op = "close"

\* While the file is read, see module Config_proofs.
LoadedSoFar == mainPc = "load" => ConfigRead

ProcessInv == MainHolds /\ WhoIsThere /\ CloseComesLast /\ HandlerLinesKept /\ LoadedSoFar

IInv == TypeOK /\ LogInv /\ ProcessInv

\* The type invariant without the log's.
MainPcs == {"load", "crashed", "pool", "joining", "listen", "check", "call", "accept", "submit",
            "closeListener", "destroyPool", "joinPool", "freeConfig", "closeLog", "end", "exited"}

LEMMA TypeParts ==
  TypeOK <=> /\ LogTypeOK /\ ConfigTypeOK
             /\ mainPc \in MainPcs
             /\ config \in {"none", "loaded", "freed"} /\ pool \in {"none", "up", "closing", "gone"}
             /\ queued \in 0 .. MaxQueued
             /\ listening \in BOOLEAN /\ keepRunning \in BOOLEAN /\ signalled \in BOOLEAN
             /\ stage \in [Workers -> {"idle", "loop", "verify"}]
BY DEF TypeOK, ConfigTypeOK, MainPcs

LEMMA TypePartsNext ==
  (TypeOK <=> /\ LogTypeOK /\ ConfigTypeOK
              /\ mainPc \in MainPcs
              /\ config \in {"none", "loaded", "freed"} /\ pool \in {"none", "up", "closing", "gone"}
              /\ queued \in 0 .. MaxQueued
              /\ listening \in BOOLEAN /\ keepRunning \in BOOLEAN /\ signalled \in BOOLEAN
              /\ stage \in [Workers -> {"idle", "loop", "verify"}])'
BY TypeParts, PTL

-----------------------------------------------------------------------------
(* The stacks of calls *)

\* A call begins: it is at the mutex, on top of those that were there.
LEMMA CallPushes ==
  ASSUME LogTypeOK, NEW t \in Threads,
         NEW op \in {"write", "close"}, NEW by \in {"thread", "signal"},
         NEW pc \in {"time", "lock"}, Call(t, op, by, pc)
  PROVE  /\ calls' \in [Threads -> Seq(LogCall)]
         /\ \A u \in Threads : u # t => calls'[u] = calls[u]
         /\ 1 \in DOMAIN calls'[t] /\ ~Free(t)'
         /\ calls'[t][1] = [op |-> op, by |-> by, at |-> pc]
         /\ \A i \in DOMAIN calls[t] : i + 1 \in DOMAIN calls'[t] /\ calls'[t][i + 1] = calls[t][i]
         /\ \A i \in DOMAIN calls'[t] :
               i # 1 => i - 1 \in DOMAIN calls[t] /\ calls'[t][i] = calls[t][i - 1]
<1>. DEFINE c == [op |-> op, by |-> by, at |-> pc]
            q == calls[t]
            r == <<c>> \o q
<1>1. c \in LogCall
  BY DEF LogCall
<1>2. q \in Seq(LogCall) /\ calls' = [calls EXCEPT ![t] = r] /\ calls \in [Threads -> Seq(LogCall)]
  BY DEF LogTypeOK, Call, Cons
<1>. HIDE DEF c, q
<1>3. /\ <<c>> \in Seq(LogCall) /\ Len(<<c>>) = 1 /\ <<c>>[1] = c
  BY <1>1
<1>4. /\ r \in Seq(LogCall) /\ Len(r) = Len(q) + 1
      /\ \A i \in 1 .. Len(q) + 1 : r[i] = IF i = 1 THEN c ELSE q[i - 1]
  BY <1>2, <1>3, ConcatProperties
<1>. HIDE DEF r
<1>5. /\ DOMAIN r = 1 .. Len(q) + 1 /\ DOMAIN q = 1 .. Len(q) /\ Len(q) \in Nat
  BY <1>2, <1>4
<1>6. /\ r[1] = c /\ 1 \in DOMAIN r /\ r # <<>>
      /\ \A i \in DOMAIN r : i # 1 => i - 1 \in DOMAIN q /\ r[i] = q[i - 1]
      /\ \A i \in DOMAIN q : i + 1 \in DOMAIN r /\ r[i + 1] = q[i]
  BY <1>4, <1>5
<1>7. calls'[t] = r /\ calls' \in [Threads -> Seq(LogCall)]
  BY <1>2, <1>4
<1>8. \A u \in Threads : u # t => calls'[u] = calls[u]
  BY <1>2
<1>. QED
  BY <1>6, <1>7, <1>8 DEF c, q, Free

\* The call on top of a stack goes on.
LEMMA CallGoesOn ==
  ASSUME LogTypeOK, NEW t \in Threads, ~Free(t),
         NEW pc \in {"time", "stamp", "lock", "console", "file", "close"}, GoTo(t, pc)
  PROVE  /\ calls' \in [Threads -> Seq(LogCall)]
         /\ \A u \in Threads : u # t => calls'[u] = calls[u]
         /\ 1 \in DOMAIN calls[t] /\ DOMAIN calls'[t] = DOMAIN calls[t] /\ ~Free(t)'
         /\ calls'[t][1].op = calls[t][1].op /\ calls'[t][1].by = calls[t][1].by
         /\ calls'[t][1].at = pc
         /\ \A i \in DOMAIN calls[t] : i # 1 => calls'[t][i] = calls[t][i]
<1>. DEFINE q == calls[t]
            c == [q[1] EXCEPT !.at = pc]
            r == [q EXCEPT ![1] = c]
<1>1. q \in Seq(LogCall) /\ q # <<>> /\ calls \in [Threads -> Seq(LogCall)]
  BY DEF LogTypeOK, Free
<1>2. calls' = [calls EXCEPT ![t] = r]
  BY <1>1 DEF GoTo
<1>. HIDE DEF q
<1>3. DOMAIN q = 1 .. Len(q) /\ Len(q) \in Nat \ {0}
  BY <1>1, EmptySeq
<1>4. q[1] \in LogCall
  BY <1>1, <1>3
<1>5. c \in LogCall /\ c.op = q[1].op /\ c.by = q[1].by /\ c.at = pc
  BY <1>4 DEF LogCall
<1>. HIDE DEF c
<1>6. /\ r \in Seq(LogCall) /\ DOMAIN r = DOMAIN q /\ r[1] = c
      /\ \A i \in DOMAIN q : i # 1 => r[i] = q[i]
  BY <1>1, <1>3, <1>5
<1>7. r # <<>>
  BY <1>3, <1>6
<1>. HIDE DEF r
<1>8. calls'[t] = r /\ calls' \in [Threads -> Seq(LogCall)]
  BY <1>1, <1>2, <1>6
<1>9. \A u \in Threads : u # t => calls'[u] = calls[u]
  BY <1>1, <1>2
<1>. QED
  BY <1>3, <1>5, <1>6, <1>7, <1>8, <1>9 DEF q, Free

\* The call on top of a stack returns.
LEMMA CallReturns ==
  ASSUME LogTypeOK, NEW t \in Threads, ~Free(t), Return(t)
  PROVE  /\ calls' \in [Threads -> Seq(LogCall)]
         /\ \A u \in Threads : u # t => calls'[u] = calls[u]
         /\ 1 \in DOMAIN calls[t]
         /\ \A i \in DOMAIN calls'[t] : i + 1 \in DOMAIN calls[t] /\ i + 1 # 1
                                      /\ calls'[t][i] = calls[t][i + 1]
         /\ \A i \in DOMAIN calls[t] :
               i # 1 => i - 1 \in DOMAIN calls'[t] /\ calls'[t][i - 1] = calls[t][i]
<1>. DEFINE q == calls[t]
            r == Tail(q)
<1>1. q \in Seq(LogCall) /\ q # <<>> /\ calls \in [Threads -> Seq(LogCall)]
  BY DEF LogTypeOK, Free
<1>2. calls' = [calls EXCEPT ![t] = r]
  BY <1>1 DEF Return
<1>. HIDE DEF q
<1>3. /\ r \in Seq(LogCall) /\ DOMAIN q = 1 .. Len(q) /\ Len(q) \in Nat \ {0}
      /\ DOMAIN r = 1 .. Len(q) - 1
      /\ \A i \in 1 .. Len(q) - 1 : r[i] = q[i + 1]
  BY <1>1, HeadTailProperties, EmptySeq
<1>. HIDE DEF r
<1>4. /\ 1 \in DOMAIN q
      /\ \A i \in DOMAIN r : i + 1 \in DOMAIN q /\ i + 1 # 1 /\ r[i] = q[i + 1]
      /\ \A i \in DOMAIN q : i # 1 => i - 1 \in DOMAIN r /\ r[i - 1] = q[i]
  BY <1>3
<1>5. calls'[t] = r /\ calls' \in [Threads -> Seq(LogCall)]
  BY <1>1, <1>2, <1>3
<1>6. \A u \in Threads : u # t => calls'[u] = calls[u]
  BY <1>1, <1>2
<1>. QED
  BY <1>4, <1>5, <1>6 DEF q

\* The line that waits is taken out.
LEMMA RemoveOnly ==
  ASSUME NEW x
  PROVE  RemoveFirst(<<x>>, x) = <<>>
<1>1. Len(<<x>>) = 1 /\ <<x>>[1] = x
  OBVIOUS
<1>. DEFINE I == {i \in 1 .. 1 : <<x>>[i] = x}
<1>2. I = {1}
  OBVIOUS
<1>3. Min({1}) = 1
  BY DEF Min
<1>4. SelectInSeq(<<x>>, LAMBDA v : v = x) = 1
  BY <1>1, <1>2, <1>3 DEF SelectInSeq
<1>5. RemoveFirst(<<x>>, x) = RemoveAt(<<x>>, 1)
  BY <1>1, <1>4 DEF RemoveFirst
<1>6. SubSeq(<<x>>, 1, 0) = <<>> /\ SubSeq(<<x>>, 2, 1) = <<>>
  OBVIOUS
<1>7. RemoveAt(<<x>>, 1) = <<>> \o <<>>
  BY <1>1, <1>6 DEF RemoveAt
<1>. QED
  BY <1>5, <1>7

-----------------------------------------------------------------------------
(* Steps of the log *)

\* The parts of the call on top.
LEMMA TopCall ==
  ASSUME LogTypeOK, NEW t \in Threads, 1 \in DOMAIN calls[t]
  PROVE  calls[t][1].op \in {"write", "close"} /\ calls[t][1].by \in {"thread", "signal"}
<1>1. calls[t] \in Seq(LogCall)
  BY DEF LogTypeOK
<1>2. calls[t][1] \in LogCall
  BY <1>1
<1>. QED
  BY <1>2 DEF LogCall

\* What a step may do to the lines that wait for the file.
FiledInOrder ==
    /\ Len(unfiled') < Len(unfiled) => unfiled' = Tail(unfiled)
    /\ mutex' = NoThread => unfiled' = <<>>

\* Nothing waits for the file while the mutex is free.
LEMMA FreeMeansFiled ==
  ASSUME LogInv, mutex = NoThread
  PROVE  unfiled = <<>>
<1>1. SUFFICES ASSUME unfiled # <<>> PROVE FALSE
  OBVIOUS
<1>2. PICK t \in Threads : \E i \in DOMAIN calls[t] : calls[t][i].at = "file"
  BY <1>1 DEF LogInv, LineWaits
<1>3. mutex = t
  BY <1>2 DEF LogInv, MutexHeld, Inside
<1>. QED
  BY <1>3, LogAssumption

LEMMA FreeMeansFiledNext == (LogInv /\ mutex = NoThread => unfiled = <<>>)'
<1>1. LogInv /\ mutex = NoThread => unfiled = <<>>
  BY FreeMeansFiled
<1>. QED
  BY <1>1, PTL

\* A step that leaves the log alone.
LEMMA LogStands ==
  ASSUME LogInv, UNCHANGED logVars
  PROVE  LogInv'
BY DEF LogInv, LogTypeOK, MutexHeld, StepsFit, LineWaits, logVars

\* A call of log_write or log_close.
LEMMA CallKeeps ==
  ASSUME LogInv, NEW t \in Threads,
         NEW op \in {"write", "close"}, NEW by \in {"thread", "signal"},
         NEW pc \in {"time", "lock"}, Call(t, op, by, pc),
         UNCHANGED <<libcLock, mutex, logFile, level, unfiled, missed>>
  PROVE  LogInv'
<1>. USE DEF LogInv, Inside
<1>1. /\ calls' \in [Threads -> Seq(LogCall)]
      /\ \A u \in Threads : u # t => calls'[u] = calls[u]
      /\ 1 \in DOMAIN calls'[t]
      /\ calls'[t][1].op = op /\ calls'[t][1].by = by /\ calls'[t][1].at \notin Inside
      /\ \A i \in DOMAIN calls[t] : i + 1 \in DOMAIN calls'[t] /\ calls'[t][i + 1] = calls[t][i]
      /\ \A i \in DOMAIN calls'[t] :
            i # 1 => i - 1 \in DOMAIN calls[t] /\ calls'[t][i] = calls[t][i - 1]
  BY CallPushes
<1>2. \A i \in DOMAIN calls'[t] : i \in Int
  BY <1>1
<1>3. LogTypeOK'
  BY <1>1 DEF LogTypeOK
<1>4. MutexHeld'
  <2>1. SUFFICES ASSUME NEW u \in Threads, NEW i \in DOMAIN calls'[u], calls'[u][i].at \in Inside
                 PROVE  mutex' = u /\ \A j \in DOMAIN calls'[u] : calls'[u][j].at \in Inside => j = i
    BY DEF MutexHeld
  <2>2. CASE u # t
    BY <1>1, <2>1, <2>2 DEF MutexHeld
  <2>3. CASE u = t
    <3>1. i - 1 \in DOMAIN calls[t] /\ calls[t][i - 1].at \in Inside
      BY <1>1, <2>1, <2>3
    <3>2. mutex = t /\ \A j \in DOMAIN calls[t] : calls[t][j].at \in Inside => j = i - 1
      BY <3>1 DEF MutexHeld
    <3>3. ASSUME NEW j \in DOMAIN calls'[t], calls'[t][j].at \in Inside PROVE j = i
      BY <1>1, <1>2, <2>3, <3>2, <3>3
    <3>. QED
      BY <2>3, <3>2, <3>3
  <2>. QED
    BY <2>2, <2>3
<1>5. StepsFit'
  <2>1. SUFFICES ASSUME NEW u \in Threads, NEW i \in DOMAIN calls'[u]
                 PROVE  /\ calls'[u][i].at \in {"console", "file"} => calls'[u][i].op = "write"
                        /\ calls'[u][i].at = "close" => calls'[u][i].op = "close"
    BY DEF StepsFit
  <2>. QED
    BY <1>1, <2>1 DEF StepsFit
<1>6. LineWaits'
  <2>1. SUFFICES ASSUME unfiled # <<>>
                 PROVE  \E u \in Threads : \E i \in DOMAIN calls'[u] :
                           calls'[u][i].at = "file" /\ unfiled = << <<u, calls'[u][i].by>> >>
    BY DEF LineWaits
  <2>2. PICK u \in Threads : \E i \in DOMAIN calls[u] :
           calls[u][i].at = "file" /\ unfiled = << <<u, calls[u][i].by>> >>
    BY <2>1 DEF LineWaits
  <2>3. CASE u # t
    BY <1>1, <2>2, <2>3
  <2>4. CASE u = t
    BY <1>1, <2>2, <2>4
  <2>. QED
    BY <2>3, <2>4
<1>. QED
  BY <1>3, <1>4, <1>5, <1>6

\* A thread gets libc's lock, or gives it back.
LEMMA TimeKeeps ==
  ASSUME LogInv, NEW t \in Threads, TakeTime(t) \/ Stamp(t)
  PROVE  LogInv' /\ unfiled' = unfiled
<1>. USE DEF LogInv, Inside
<1>1. /\ ~Free(t) /\ calls[t][1].at \notin Inside
      /\ libcLock' \in Threads \cup {NoThread}
      /\ UNCHANGED <<mutex, logFile, level, unfiled, missed>>
  BY DEF TakeTime, Stamp, At
<1>2. PICK pc \in {"stamp", "lock"} : GoTo(t, pc)
  BY DEF TakeTime, Stamp
<1>3. /\ calls' \in [Threads -> Seq(LogCall)]
      /\ \A u \in Threads : u # t => calls'[u] = calls[u]
      /\ 1 \in DOMAIN calls[t] /\ DOMAIN calls'[t] = DOMAIN calls[t]
      /\ calls'[t][1].at = pc
      /\ \A i \in DOMAIN calls[t] : i # 1 => calls'[t][i] = calls[t][i]
  BY <1>1, <1>2, CallGoesOn
<1>4. \A u \in Threads :
         /\ DOMAIN calls'[u] = DOMAIN calls[u]
         /\ \A i \in DOMAIN calls[u] :
               \/ calls'[u][i] = calls[u][i]
               \/ calls[u][i].at \notin Inside /\ calls'[u][i].at \notin Inside
  BY <1>1, <1>3
<1>5. LogTypeOK'
  BY <1>1, <1>3 DEF LogTypeOK
<1>6. \A u \in Threads : \A i \in DOMAIN calls'[u] :
         calls'[u][i].at \in Inside => i \in DOMAIN calls[u] /\ calls'[u][i] = calls[u][i]
  BY <1>4
<1>7. MutexHeld'
  BY <1>1, <1>6 DEF MutexHeld
<1>8. StepsFit'
  BY <1>6 DEF StepsFit
<1>9. LineWaits'
  <2>1. SUFFICES ASSUME unfiled # <<>>
                 PROVE  \E u \in Threads : \E i \in DOMAIN calls'[u] :
                           calls'[u][i].at = "file" /\ unfiled = << <<u, calls'[u][i].by>> >>
    BY <1>1 DEF LineWaits
  <2>2. PICK u \in Threads : \E i \in DOMAIN calls[u] :
           calls[u][i].at = "file" /\ unfiled = << <<u, calls[u][i].by>> >>
    BY <2>1 DEF LineWaits
  <2>. QED
    BY <1>4, <2>2
<1>. QED
  BY <1>1, <1>5, <1>7, <1>8, <1>9

\* A thread gets the mutex.
LEMMA LockKeeps ==
  ASSUME LogInv, NEW t \in Threads, Lock(t)
  PROVE  LogInv'
<1>. USE DEF LogInv, Inside
<1>. DEFINE pc == IF calls[t][1].op = "write" THEN "console" ELSE "close"
<1>1. /\ ~Free(t) /\ mutex = NoThread /\ mutex' = t /\ GoTo(t, pc)
      /\ UNCHANGED <<libcLock, logFile, level, unfiled, missed>>
  BY DEF Lock, At
<1>2. /\ calls' \in [Threads -> Seq(LogCall)]
      /\ \A u \in Threads : u # t => calls'[u] = calls[u]
      /\ 1 \in DOMAIN calls[t] /\ DOMAIN calls'[t] = DOMAIN calls[t]
      /\ calls'[t][1].op = calls[t][1].op
      /\ calls'[t][1].at = pc
      /\ \A i \in DOMAIN calls[t] : i # 1 => calls'[t][i] = calls[t][i]
  BY <1>1, CallGoesOn
<1>3. unfiled = <<>>
  BY <1>1, FreeMeansFiled
<1>4. \A u \in Threads : \A i \in DOMAIN calls[u] : calls[u][i].at \notin Inside
  BY <1>1, LogAssumption DEF MutexHeld
<1>5. calls[t][1].op \in {"write", "close"}
  BY <1>2, TopCall
<1>6. LogTypeOK'
  BY <1>1, <1>2 DEF LogTypeOK
<1>7. MutexHeld'
  <2>1. \A u \in Threads : \A i \in DOMAIN calls'[u] : calls'[u][i].at \in Inside => u = t /\ i = 1
    BY <1>2, <1>4
  <2>. QED
    BY <1>1, <2>1 DEF MutexHeld
<1>8. StepsFit'
  BY <1>2, <1>4, <1>5 DEF StepsFit
<1>9. LineWaits'
  BY <1>1, <1>3 DEF LineWaits
<1>. QED
  BY <1>6, <1>7, <1>8, <1>9

\* The call that has the mutex is on top of its stack or not, but no other call
\* of any thread is past the mutex.
LEMMA OneInside ==
  ASSUME LogInv, NEW t \in Threads, 1 \in DOMAIN calls[t], calls[t][1].at \in Inside
  PROVE  /\ mutex = t
         /\ \A u \in Threads : \A i \in DOMAIN calls[u] :
               u # t \/ i # 1 => calls[u][i].at \notin Inside
BY DEF LogInv, MutexHeld

LEMMA WriteConsoleKeeps ==
  ASSUME LogInv, NEW t \in Threads, WriteConsole(t)
  PROVE  LogInv'
<1>. USE DEF LogInv, Inside
<1>1. /\ ~Free(t) /\ calls[t][1].at = "console" /\ GoTo(t, "file")
      /\ unfiled' = IF logFile = "open" THEN Append(unfiled, <<t, calls[t][1].by>>) ELSE unfiled
      /\ UNCHANGED <<libcLock, mutex, logFile, level, missed>>
  BY DEF WriteConsole, At, Line
<1>2. /\ calls' \in [Threads -> Seq(LogCall)]
      /\ \A u \in Threads : u # t => calls'[u] = calls[u]
      /\ 1 \in DOMAIN calls[t] /\ DOMAIN calls'[t] = DOMAIN calls[t]
      /\ calls'[t][1].op = calls[t][1].op /\ calls'[t][1].by = calls[t][1].by
      /\ calls'[t][1].at = "file"
      /\ \A i \in DOMAIN calls[t] : i # 1 => calls'[t][i] = calls[t][i]
  BY <1>1, CallGoesOn
<1>3. /\ mutex = t
      /\ \A u \in Threads : \A i \in DOMAIN calls[u] :
            u # t \/ i # 1 => calls[u][i].at \notin Inside
  BY <1>1, <1>2, OneInside
<1>4. unfiled = <<>>
  BY <1>1, <1>3 DEF LineWaits
<1>5. unfiled' = IF logFile = "open" THEN << <<t, calls[t][1].by>> >> ELSE <<>>
  BY <1>1, <1>4
<1>6. calls[t][1].by \in {"thread", "signal"}
  BY <1>2, TopCall
<1>7. LogTypeOK'
  BY <1>1, <1>2, <1>5, <1>6 DEF LogTypeOK
<1>8. MutexHeld'
  <2>1. \A u \in Threads : \A i \in DOMAIN calls'[u] : calls'[u][i].at \in Inside => u = t /\ i = 1
    BY <1>2, <1>3
  <2>. QED
    BY <1>1, <1>3, <2>1 DEF MutexHeld
<1>9. StepsFit'
  BY <1>1, <1>2 DEF StepsFit
<1>10. LineWaits'
  <2>1. 1 \in DOMAIN calls'[t] /\ calls'[t][1].at = "file" /\ calls'[t][1].by = calls[t][1].by
    BY <1>2
  <2>2. unfiled' # <<>> => logFile' = "open" /\ unfiled' = << <<t, calls'[t][1].by>> >>
    BY <1>1, <1>5, <2>1
  <2>. QED
    BY <2>1, <2>2 DEF LineWaits
<1>. QED
  BY <1>7, <1>8, <1>9, <1>10

\* The call that has the mutex returns and gives it back, with nothing waiting.
LEMMA ReturnKeeps ==
  ASSUME LogInv, NEW t \in Threads, ~Free(t), calls[t][1].at \in {"file", "close"},
         Return(t), mutex' = NoThread, unfiled' = <<>>, level' = level,
         logFile' \in {"none", "open", "closed"},
         libcLock' = libcLock, missed' \subseteq {"thread", "signal"} \X {"closed", "failed"}
  PROVE  LogInv'
<1>. USE DEF LogInv, Inside
<1>1. /\ calls' \in [Threads -> Seq(LogCall)]
      /\ \A u \in Threads : u # t => calls'[u] = calls[u]
      /\ 1 \in DOMAIN calls[t]
      /\ \A i \in DOMAIN calls'[t] : i + 1 \in DOMAIN calls[t] /\ i + 1 # 1
                                   /\ calls'[t][i] = calls[t][i + 1]
  BY CallReturns
<1>2. /\ \A u \in Threads : \A i \in DOMAIN calls[u] :
            u # t \/ i # 1 => calls[u][i].at \notin Inside
  BY <1>1, OneInside
<1>3. \A u \in Threads : \A i \in DOMAIN calls'[u] : calls'[u][i].at \notin Inside
  <2>1. SUFFICES ASSUME NEW u \in Threads, NEW i \in DOMAIN calls'[u]
                 PROVE  calls'[u][i].at \notin Inside
    OBVIOUS
  <2>2. CASE u # t
    BY <1>1, <1>2, <2>2
  <2>3. CASE u = t
    BY <1>1, <1>2, <2>3
  <2>. QED
    BY <2>2, <2>3
<1>4. LogTypeOK'
  BY <1>1 DEF LogTypeOK
<1>5. MutexHeld' /\ StepsFit'
  BY <1>3 DEF MutexHeld, StepsFit
<1>6. LineWaits'
  BY DEF LineWaits
<1>. QED
  BY <1>4, <1>5, <1>6

LEMMA WriteFileKeeps ==
  ASSUME LogInv, NEW t \in Threads, WriteFile(t) \/ WriteFileFails(t)
  PROVE  LogInv' /\ unfiled' = <<>> /\ Len(unfiled) <= 1
<1>. USE DEF LogInv, Inside
<1>. DEFINE l == <<t, calls[t][1].by>>
<1>1. /\ ~Free(t) /\ calls[t][1].at = "file" /\ Return(t) /\ mutex' = NoThread
      /\ unfiled' = IF logFile = "open" THEN RemoveFirst(unfiled, l) ELSE unfiled
      /\ missed' = missed \/ \E why \in {"closed", "failed"} : Misses(t, why)
      /\ UNCHANGED <<libcLock, logFile, level>>
  BY DEF WriteFile, WriteFileFails, At, Line
<1>2. 1 \in DOMAIN calls[t]
  BY <1>1, CallReturns
<1>3. \A u \in Threads : \A i \in DOMAIN calls[u] :
         u # t \/ i # 1 => calls[u][i].at \notin Inside
  BY <1>1, <1>2, OneInside
<1>4. unfiled # <<>> => logFile = "open" /\ unfiled = <<l>>
  <2>1. SUFFICES ASSUME unfiled # <<>> PROVE logFile = "open" /\ unfiled = <<l>>
    OBVIOUS
  <2>2. logFile = "open"
    BY <2>1 DEF LineWaits
  <2>3. PICK u \in Threads : \E i \in DOMAIN calls[u] :
           calls[u][i].at = "file" /\ unfiled = << <<u, calls[u][i].by>> >>
    BY <2>1 DEF LineWaits
  <2>4. PICK i \in DOMAIN calls[u] :
           calls[u][i].at = "file" /\ unfiled = << <<u, calls[u][i].by>> >>
    BY <2>3
  <2>5. u = t /\ i = 1
    BY <1>3, <2>4
  <2>. QED
    BY <2>2, <2>4, <2>5
<1>5. calls[t][1].by \in {"thread", "signal"}
  BY <1>2, TopCall
<1>. HIDE DEF l
<1>6. RemoveFirst(<<>>, l) = <<>>
  BY DEF RemoveFirst
<1>7. unfiled' = <<>> /\ Len(unfiled) <= 1
  <2>1. CASE unfiled = <<>>
    BY <1>1, <1>6, <2>1
  <2>2. CASE unfiled # <<>>
    <3>1. unfiled' = <<>>
      BY <1>1, <1>4, <2>2, RemoveOnly
    <3>2. Len(<<l>>) = 1
      OBVIOUS
    <3>3. Len(unfiled) = 1
      BY <1>4, <2>2, <3>2, Zenon
    <3>. QED
      BY <3>1, <3>3
  <2>. QED
    BY <2>1, <2>2
<1>8. missed' \subseteq {"thread", "signal"} \X {"closed", "failed"}
  BY <1>1, <1>5 DEF LogTypeOK, Misses
<1>. QED
  BY <1>1, <1>7, <1>8, ReturnKeeps DEF LogTypeOK

LEMMA CloseFileKeeps ==
  ASSUME LogInv, NEW t \in Threads, CloseFile(t)
  PROVE  LogInv' /\ unfiled' = unfiled
<1>. USE DEF LogInv, Inside
<1>1. /\ ~Free(t) /\ calls[t][1].at = "close" /\ Return(t) /\ mutex' = NoThread
      /\ logFile' = IF logFile = "open" THEN "closed" ELSE logFile
      /\ UNCHANGED <<libcLock, level, unfiled, missed>>
  BY DEF CloseFile, At
<1>2. 1 \in DOMAIN calls[t]
  BY <1>1, CallReturns
<1>3. \A u \in Threads : \A i \in DOMAIN calls[u] :
         u # t \/ i # 1 => calls[u][i].at \notin Inside
  BY <1>1, <1>2, OneInside
<1>4. unfiled = <<>>
  BY <1>1, <1>3 DEF LineWaits
<1>. QED
  BY <1>1, <1>4, ReturnKeeps DEF LogTypeOK

LEMMA LogStepKeeps ==
  ASSUME LogInv, NEW t \in Threads, LogStep(t)
  PROVE  LogInv' /\ FiledInOrder
<1>1. CASE Lock(t)
  <2>1. LogInv' /\ unfiled' = unfiled
    BY <1>1, LockKeeps DEF Lock
  <2>. QED
    BY <2>1, FreeMeansFiledNext DEF FiledInOrder, LogInv, LogTypeOK
<1>2. CASE WriteConsole(t)
  <2>1. LogInv' /\ unfiled' \in {unfiled, Append(unfiled, Line(t))}
    BY <1>2, WriteConsoleKeeps DEF WriteConsole
  <2>2. ~(Len(unfiled') < Len(unfiled))
    BY <2>1 DEF LogInv, LogTypeOK
  <2>. QED
    BY <2>1, <2>2, FreeMeansFiledNext DEF FiledInOrder
<1>3. CASE WriteFile(t) \/ WriteFileFails(t)
  <2>1. LogInv' /\ unfiled' = <<>> /\ Len(unfiled) <= 1
    BY <1>3, WriteFileKeeps
  <2>2. Len(unfiled) > 0 => Tail(unfiled) = <<>>
    BY <2>1 DEF LogInv, LogTypeOK
  <2>. QED
    BY <2>1, <2>2 DEF FiledInOrder
<1>4. CASE CloseFile(t)
  <2>1. LogInv' /\ unfiled' = unfiled
    BY <1>4, CloseFileKeeps
  <2>. QED
    BY <2>1, FreeMeansFiledNext DEF FiledInOrder, LogInv, LogTypeOK
<1>5. CASE TakeTime(t) \/ Stamp(t)
  <2>1. LogInv' /\ unfiled' = unfiled
    BY <1>5, TimeKeeps
  <2>. QED
    BY <2>1, FreeMeansFiledNext DEF FiledInOrder, LogInv, LogTypeOK
<1>. QED
  BY <1>1, <1>2, <1>3, <1>4, <1>5 DEF LogStep

-----------------------------------------------------------------------------
(* Steps of the process *)

\* log_write, called anywhere, keeps the log's invariant and goes on top of what
\* the thread was at, as a line; or the line is not wanted, and nothing happens.
LEMMA WriteKeeps ==
  ASSUME LogInv, NEW t \in Threads, NEW lev, NEW by \in {"thread", "signal"}, LogWrite(t, lev, by)
  PROVE  /\ LogInv' /\ FiledInOrder
         /\ UNCHANGED <<libcLock, mutex, logFile, level, unfiled, missed>>
         /\ \/ UNCHANGED calls
            \/ /\ \A u \in Threads : u # t => calls'[u] = calls[u]
               /\ ~Free(t)'
               /\ \A i \in DOMAIN calls[t] :
                     i + 1 \in DOMAIN calls'[t] /\ calls'[t][i + 1] = calls[t][i]
               /\ \A i \in DOMAIN calls'[t] :
                     \/ calls'[t][i].op = "write" /\ calls'[t][i].by = by
                     \/ i - 1 \in DOMAIN calls[t] /\ calls'[t][i] = calls[t][i - 1]
<1>1. UNCHANGED <<libcLock, mutex, logFile, level, unfiled, missed>>
  BY DEF LogWrite
<1>2. CASE UNCHANGED calls
  <2>1. LogInv'
    BY <1>1, <1>2, LogStands DEF logVars
  <2>. QED
    BY <1>1, <1>2, <2>1, FreeMeansFiledNext DEF FiledInOrder, LogInv, LogTypeOK
<1>3. CASE Call(t, "write", by, "time")
  <2>1. LogInv'
    BY <1>1, <1>3, CallKeeps
  <2>2. LogTypeOK
    BY DEF LogInv
  <2>3. /\ \A u \in Threads : u # t => calls'[u] = calls[u]
        /\ ~Free(t)'
        /\ calls'[t][1] = [op |-> "write", by |-> by, at |-> "time"]
        /\ \A i \in DOMAIN calls[t] : i + 1 \in DOMAIN calls'[t] /\ calls'[t][i + 1] = calls[t][i]
        /\ \A i \in DOMAIN calls'[t] :
              i # 1 => i - 1 \in DOMAIN calls[t] /\ calls'[t][i] = calls[t][i - 1]
    BY <1>3, <2>2, CallPushes
  <2>4. calls'[t][1].op = "write" /\ calls'[t][1].by = by
    BY <2>3
  <2>5. FiledInOrder
    BY <1>1, <2>1, FreeMeansFiledNext DEF FiledInOrder, LogInv, LogTypeOK
  <2>. QED
    BY <1>1, <2>1, <2>3, <2>4, <2>5
<1>. QED
  BY <1>2, <1>3 DEF LogWrite

LEMMA ConfigStands ==
  ASSUME ConfigTypeOK, UNCHANGED configVars
  PROVE  ConfigTypeOK'
BY DEF ConfigTypeOK, configVars

\* A step that leaves the log alone is one in which no line is wanted.
LEMMA NoLine ==
  ASSUME LogInv, UNCHANGED logVars
  PROVE  /\ LogInv' /\ FiledInOrder
         /\ UNCHANGED <<libcLock, mutex, logFile, level, unfiled, missed, calls>>
<1>1. LogInv' /\ UNCHANGED <<libcLock, mutex, logFile, level, unfiled, missed, calls>>
  BY LogStands DEF logVars
<1>. QED
  BY <1>1, FreeMeansFiledNext DEF FiledInOrder, LogInv, LogTypeOK

\* A thread logs.
Logs(t) == \E lev \in DEBUG .. ERROR : LogWrite(t, lev, "thread")

LEMMA LogsLevels ==
  ASSUME NEW t, NEW lev, lev \in {INFO, WARN, ERROR}, LogWrite(t, lev, "thread")
  PROVE  Logs(t)
<1>1. lev \in DEBUG .. ERROR
  BY DEF DEBUG, INFO, WARN, ERROR
<1>. QED
  BY <1>1 DEF Logs

\* A step of main between the start and the end, with at most one line.
LEMMA MainMoves ==
  ASSUME IInv, Free(Main), mainPc \in HasConfig \cup {"closeLog"},
         UNCHANGED logVars \/ Logs(Main),
         UNCHANGED <<configVars, keepRunning, signalled, stage>>,
         mainPc' \in HasConfig \cup {"closeLog"},
         config' \in {"loaded", "freed"}, config' = "loaded" <=> mainPc' \in HasConfig,
         pool' \in {"none", "up", "closing", "gone"},
         pool' \in {"up", "closing"} <=> mainPc' \in HasPool, pool' = "closing" <=> mainPc' = "joinPool",
         queued' \in 0 .. MaxQueued, mainPc' = "submit" => queued' < MaxQueued,
         listening' \in BOOLEAN, listening' <=> mainPc' \in Listening,
         mainPc' \in HasPool \/ \A w \in Workers : stage[w] = "idle" /\ Free(w)
  PROVE  IInv' /\ FiledInOrder
<1>. USE DEF IInv, ProcessInv
<1>1. Main \in Threads /\ Main \notin Workers /\ Workers \subseteq Threads
  BY ProcessAssumption
<1>2. /\ LogInv' /\ FiledInOrder
      /\ UNCHANGED <<logFile, missed>>
      /\ \A u \in Threads : u # Main => calls'[u] = calls[u]
      /\ \A i \in DOMAIN calls'[Main] :
            \/ calls'[Main][i].op = "write"
            \/ \E j \in DOMAIN calls[Main] : calls'[Main][i] = calls[Main][j]
  <2>1. CASE UNCHANGED logVars
    BY <2>1, NoLine
  <2>2. CASE Logs(Main)
    BY <1>1, <2>2, WriteKeeps DEF Logs
  <2>. QED
    BY <2>1, <2>2
<1>3. mainPc \notin {"load", "crashed", "end", "exited"} /\ mainPc' \notin {"load", "crashed", "end", "exited"}
  BY DEF HasConfig, HasPool, Listening
<1>4. TypeOK'
  BY <1>2, TypeParts, TypePartsNext, ConfigStands DEF LogInv, MainPcs, HasConfig, HasPool, Listening
<1>5. MainHolds'
  BY <1>2, <1>3 DEF MainHolds
<1>6. \A w \in Workers : Free(w)' <=> Free(w)
  BY <1>1, <1>2 DEF Free
<1>7. WhoIsThere'
  BY <1>3, <1>6, TypeParts DEF WhoIsThere
<1>8. CloseComesLast'
  <2>1. \A u \in Threads : \A i \in DOMAIN calls[u] : calls[u][i].op # "close"
    BY <1>3 DEF CloseComesLast
  <2>2. \A u \in Threads : \A i \in DOMAIN calls'[u] : calls'[u][i].op # "close"
    BY <1>2, <2>1
  <2>. QED
    BY <1>3, <2>2 DEF CloseComesLast
<1>9. HandlerLinesKept' /\ LoadedSoFar'
  BY <1>2, <1>3 DEF HandlerLinesKept, LoadedSoFar
<1>. QED
  BY <1>2, <1>4, <1>5, <1>7, <1>8, <1>9

\* A step of a worker, with at most one line.
LEMMA WorkerMoves ==
  ASSUME IInv, NEW w \in Workers, mainPc \in HasPool, Logs(w),
         UNCHANGED <<configVars, mainPc, config, pool, listening, keepRunning, signalled>>,
         queued' \in 0 .. MaxQueued, queued' <= queued,
         NEW new \in {"idle", "loop", "verify"}, stage' = [stage EXCEPT ![w] = new]
  PROVE  IInv' /\ FiledInOrder
<1>. USE DEF IInv, ProcessInv
<1>1. Main \in Threads /\ Main # w /\ w \in Threads /\ Workers \subseteq Threads
  BY ProcessAssumption
<1>2. /\ LogInv' /\ FiledInOrder
      /\ UNCHANGED <<logFile, missed>>
      /\ \A u \in Threads : u # w => calls'[u] = calls[u]
      /\ \A i \in DOMAIN calls'[w] :
            \/ calls'[w][i].op = "write"
            \/ \E j \in DOMAIN calls[w] : calls'[w][i] = calls[w][j]
  BY <1>1, WriteKeeps DEF Logs
<1>3. mainPc \in HasConfig /\ mainPc \notin {"load", "crashed", "end", "exited"}
  BY DEF HasConfig, HasPool, Listening
<1>4. TypeOK'
  BY <1>2, TypeParts, TypePartsNext, ConfigStands DEF LogInv
<1>5. MainHolds'
  <2>1. queued < MaxQueued => queued' < MaxQueued
    BY TypeParts, ProcessAssumption
  <2>. QED
    BY <1>2, <2>1 DEF MainHolds
<1>6. WhoIsThere'
  BY <1>3 DEF WhoIsThere
<1>7. CloseComesLast'
  <2>1. \A u \in Threads : \A i \in DOMAIN calls[u] : calls[u][i].op # "close"
    BY <1>3 DEF CloseComesLast
  <2>2. \A u \in Threads : \A i \in DOMAIN calls'[u] : calls'[u][i].op # "close"
    BY <1>2, <2>1
  <2>. QED
    BY <1>3, <2>2 DEF CloseComesLast
<1>8. HandlerLinesKept' /\ LoadedSoFar'
  BY <1>2, <1>3 DEF HandlerLinesKept, LoadedSoFar
<1>. QED
  BY <1>2, <1>4, <1>5, <1>6, <1>7, <1>8

\* Between the start and the end main acquires, releases and logs.
LEMMA MainStepKeeps ==
  ASSUME IInv, CreatePool \/ CreatePoolFails \/ Listen \/ ListenFails \/ CheckRunning
               \/ CallAccept \/ Accept \/ AcceptFails \/ Submit \/ CloseListener
               \/ DestroyPool \/ JoinPool \/ FreeConfig
  PROVE  IInv' /\ FiledInOrder
<1>. USE DEF MainAt, HasConfig, HasPool, Listening
<1>1. MainHolds /\ WhoIsThere /\ TypeOK /\ Main \notin Workers
  BY ProcessAssumption DEF IInv, ProcessInv
<1>. USE DEF MainHolds
<1>2. CASE CreatePool
  BY <1>1, <1>2, MainMoves, LogsLevels DEF CreatePool, TypeOK
<1>3. CASE CreatePoolFails
  BY <1>1, <1>3, MainMoves, LogsLevels DEF CreatePoolFails, TypeOK, WhoIsThere
<1>4. CASE Listen
  BY <1>1, <1>4, MainMoves, LogsLevels DEF Listen, TypeOK
<1>5. CASE ListenFails
  BY <1>1, <1>5, MainMoves, LogsLevels DEF ListenFails, TypeOK
<1>6. CASE CheckRunning
  BY <1>1, <1>6, MainMoves, LogsLevels DEF CheckRunning, TypeOK
<1>7. CASE CallAccept \/ Accept
  BY <1>1, <1>7, MainMoves, LogsLevels DEF CallAccept, Accept, TypeOK
<1>8. CASE AcceptFails
  BY <1>1, <1>8, MainMoves, LogsLevels DEF AcceptFails, TypeOK
<1>9. CASE CloseListener
  BY <1>1, <1>9, MainMoves, LogsLevels DEF CloseListener, TypeOK
<1>10. CASE DestroyPool
  BY <1>1, <1>10, MainMoves, LogsLevels DEF DestroyPool, TypeOK
<1>11. CASE JoinPool
  <2>1. 0 \in 0 .. MaxQueued
    BY ProcessAssumption
  <2>. QED
    BY <1>1, <1>11, <2>1, MainMoves, LogsLevels DEF JoinPool, TypeOK
<1>12. CASE Submit
  <2>1. queued \in 0 .. MaxQueued /\ MaxQueued \in Nat
    BY <1>1, TypeParts, ProcessAssumption
  <2>2. queued < MaxQueued => queued + 1 \in 0 .. MaxQueued
    BY <2>1
  <2>. QED
    BY <1>1, <1>12, <2>2, MainMoves, LogsLevels DEF Submit, TypeOK
<1>13. CASE FreeConfig
  BY <1>1, <1>13, MainMoves, LogsLevels DEF FreeConfig, TypeOK, WhoIsThere
<1>. QED
  BY <1>2, <1>3, <1>4, <1>5, <1>6, <1>7, <1>8, <1>9, <1>10, <1>11, <1>12, <1>13

\* A handler starts, logs in a user, or ends.
LEMMA WorkerStepKeeps ==
  ASSUME IInv, NEW w \in Workers, WorkerStep(w)
  PROVE  IInv' /\ FiledInOrder
<1>1. mainPc \in HasPool
  BY DEF WorkerStep, StartHandler, StartLogin, Verify, LeaveHandler, IInv, ProcessInv,
         WhoIsThere, MainHolds
<1>2. /\ \E new \in {"idle", "loop", "verify"} : stage' = [stage EXCEPT ![w] = new]
      /\ Logs(w)
      /\ UNCHANGED <<configVars, mainPc, config, pool, listening, keepRunning, signalled>>
      /\ queued' = queued \/ (queued > 0 /\ queued' = queued - 1)
  <2>1. CASE StartHandler(w)
    BY <2>1, LogsLevels DEF StartHandler
  <2>2. CASE Verify(w)
    BY <2>2, LogsLevels DEF Verify, mainVars
  <2>3. CASE StartLogin(w) \/ LeaveHandler(w)
    BY <2>3, LogsLevels DEF StartLogin, LeaveHandler, mainVars
  <2>. QED
    BY <2>1, <2>2, <2>3 DEF WorkerStep
<1>3. queued \in 0 .. MaxQueued /\ MaxQueued \in Nat
  BY TypeParts, ProcessAssumption DEF IInv
<1>4. queued' \in 0 .. MaxQueued /\ queued' <= queued
  BY <1>2, <1>3
<1>. QED
  BY <1>1, <1>2, <1>4, WorkerMoves

\* Before there is a thread: a line of the configuration file is read, or ends the
\* process, or there is no file.
LEMMA LoadKeeps ==
  ASSUME IInv, LoadLine \/ LoadCrashes \/ LoadFails
  PROVE  IInv' /\ FiledInOrder
<1>. USE DEF IInv, ProcessInv
<1>1. /\ mainPc = "load" /\ mainPc' \in {"load", "crashed", "exited"}
      /\ UNCHANGED <<logVars, config, pool, queued, listening, keepRunning, signalled, stage>>
  BY DEF LoadLine, LoadCrashes, LoadFails, mainVars
<1>2. LogInv' /\ FiledInOrder /\ UNCHANGED <<libcLock, mutex, logFile, level, unfiled, missed, calls>>
  BY <1>1, NoLine
<1>3. ConfigTypeOK' /\ LoadedSoFar'
  <2>1. ConfigTypeOK /\ ConfigRead
    BY <1>1, TypeParts DEF LoadedSoFar
  <2>2. CASE LoadLine
    <3>1. PICK l \in Lines : ReadLine(l)
      BY <2>2 DEF LoadLine
    <3>. QED
      BY <2>1, <3>1, ReadLineTyped, ReadLineReads DEF LoadedSoFar
  <2>3. CASE LoadCrashes \/ LoadFails
    BY <2>1, <2>3, ConfigStands DEF LoadCrashes, LoadFails, LoadedSoFar
  <2>. QED
    BY <1>1, <2>2, <2>3
<1>4. TypeOK'
  BY <1>1, <1>2, <1>3, TypeParts, TypePartsNext DEF LogInv, MainPcs
<1>5. logFile = "none" /\ Free(Main) /\ \A w \in Workers : stage[w] = "idle" /\ Free(w)
  BY <1>1, TypeParts DEF MainHolds, WhoIsThere, HasPool, Listening, LogTypeOK
<1>6. MainHolds'
  BY <1>1, <1>2, <1>5 DEF MainHolds, HasConfig, HasPool, Listening
<1>7. WhoIsThere'
  BY <1>1, <1>2, <1>5 DEF WhoIsThere, Free
<1>8. CloseComesLast'
  BY <1>1, <1>2 DEF CloseComesLast
<1>9. HandlerLinesKept'
  BY <1>2 DEF HandlerLinesKept
<1>. QED
  BY <1>2, <1>3, <1>4, <1>6, <1>7, <1>8, <1>9

\* The log is opened.
LEMMA StartLogKeeps ==
  ASSUME IInv, StartLog
  PROVE  IInv' /\ FiledInOrder
<1>. USE DEF IInv, ProcessInv
<1>1. /\ mainPc = "load" /\ mainPc' = "pool" /\ config' = "loaded"
      /\ text' = <<>> /\ section' = "" /\ UNCHANGED <<users, settings>>
      /\ mutex = NoThread /\ level' \in {WARN, INFO} /\ logFile' \in {"open", "none"}
      /\ UNCHANGED <<libcLock, mutex, calls, unfiled, missed>>
      /\ UNCHANGED <<pool, queued, listening, keepRunning, signalled, stage>>
  BY DEF StartLog, OpenLog
<1>2. unfiled = <<>>
  BY <1>1, FreeMeansFiled
<1>3. LogTypeOK'
  <2>1. level' \in DEBUG .. ERROR
    <3>1. \A lev \in {WARN, INFO} : lev \in DEBUG .. ERROR
      BY DEF DEBUG, INFO, WARN, ERROR
    <3>. QED
      BY <1>1, <3>1
  <2>. QED
    BY <1>1, <2>1 DEF LogInv, LogTypeOK
<1>4. LogInv' /\ FiledInOrder
  <2>1. MutexHeld' /\ StepsFit'
    BY <1>1 DEF LogInv, MutexHeld, StepsFit
  <2>2. LineWaits'
    BY <1>1, <1>2 DEF LineWaits
  <2>3. Len(<<>>) = 0 /\ ~(0 < 0)
    OBVIOUS
  <2>4. FiledInOrder
    BY <1>1, <1>2, <2>3 DEF FiledInOrder
  <2>. QED
    BY <1>3, <2>1, <2>2, <2>4 DEF LogInv
<1>5. ConfigTypeOK'
  <2>1. <<>> \in Seq(Lines)
    OBVIOUS
  <2>. QED
    BY <1>1, <2>1, TypeParts DEF ConfigTypeOK
<1>6. TypeOK'
  BY <1>1, <1>3, <1>5, TypeParts, TypePartsNext DEF MainPcs
<1>7. Free(Main) /\ \A w \in Workers : stage[w] = "idle" /\ Free(w)
  BY <1>1, TypeParts DEF WhoIsThere, HasPool, Listening
<1>8. MainHolds'
  BY <1>1 DEF MainHolds, HasConfig, HasPool, Listening
<1>9. WhoIsThere'
  BY <1>1, <1>7 DEF WhoIsThere, Free
<1>10. CloseComesLast'
  BY <1>1 DEF CloseComesLast
<1>11. HandlerLinesKept' /\ LoadedSoFar'
  BY <1>1 DEF HandlerLinesKept, LoadedSoFar
<1>. QED
  BY <1>4, <1>6, <1>8, <1>9, <1>10, <1>11

\* main calls log_close, and is in the log then.
LEMMA CloseLogKeeps ==
  ASSUME IInv, CloseLog
  PROVE  IInv' /\ FiledInOrder
<1>. USE DEF IInv, ProcessInv
<1>1. /\ mainPc = "closeLog" /\ Free(Main) /\ mainPc' = "end" /\ Call(Main, "close", "thread", "lock")
      /\ UNCHANGED <<libcLock, mutex, logFile, level, unfiled, missed>>
      /\ UNCHANGED <<configVars, config, pool, queued, listening, keepRunning, signalled, stage>>
  BY DEF CloseLog, LogClose, MainAt
<1>2. Main \in Threads /\ Main \notin Workers /\ Workers \subseteq Threads
  BY ProcessAssumption
<1>3. LogTypeOK
  BY DEF LogInv
<1>4. /\ \A u \in Threads : u # Main => calls'[u] = calls[u]
      /\ 1 \in DOMAIN calls'[Main]
      /\ calls'[Main][1].op = "close"
      /\ \A i \in DOMAIN calls'[Main] :
            i # 1 => i - 1 \in DOMAIN calls[Main] /\ calls'[Main][i] = calls[Main][i - 1]
  BY <1>1, <1>2, <1>3, CallPushes
<1>5. LogInv' /\ FiledInOrder
  <2>1. LogInv'
    BY <1>1, <1>2, CallKeeps
  <2>. QED
    BY <1>1, <2>1, FreeMeansFiledNext DEF FiledInOrder, LogInv, LogTypeOK
<1>6. TypeOK'
  BY <1>1, <1>5, TypeParts, TypePartsNext, ConfigStands DEF LogInv, MainPcs
<1>7. MainHolds'
  BY <1>1 DEF MainHolds, HasConfig, HasPool, Listening
<1>8. WhoIsThere'
  BY <1>1, <1>2, <1>4, TypeParts DEF WhoIsThere, Free, HasPool, Listening
<1>9. CloseComesLast'
  <2>1. DOMAIN calls[Main] = {}
    BY <1>1 DEF Free
  <2>2. \A i \in DOMAIN calls'[Main] : calls'[Main][i].op = "close"
    BY <1>4, <2>1
  <2>3. \A u \in Threads : \A i \in DOMAIN calls[u] : calls[u][i].op # "close"
    BY <1>1 DEF CloseComesLast
  <2>. QED
    BY <1>1, <1>2, <1>4, <2>2, <2>3 DEF CloseComesLast
<1>10. HandlerLinesKept' /\ LoadedSoFar'
  BY <1>1 DEF HandlerLinesKept, LoadedSoFar
<1>. QED
  BY <1>5, <1>6, <1>7, <1>8, <1>9, <1>10

\* main returns.
LEMMA ExitKeeps ==
  ASSUME IInv, Exit
  PROVE  IInv' /\ FiledInOrder
<1>. USE DEF IInv, ProcessInv
<1>1. /\ mainPc = "end" /\ Free(Main) /\ mainPc' = "exited"
      /\ UNCHANGED <<configVars, logVars, config, pool, queued, listening, keepRunning, signalled, stage>>
  BY DEF Exit, MainAt
<1>2. LogInv' /\ FiledInOrder /\ UNCHANGED <<libcLock, mutex, logFile, level, unfiled, missed, calls>>
  BY <1>1, NoLine
<1>3. TypeOK'
  BY <1>1, <1>2, TypeParts, TypePartsNext, ConfigStands DEF LogInv, MainPcs
<1>4. DOMAIN calls[Main] = {}
  BY <1>1 DEF Free
<1>5. logFile # "open" /\ \A u \in Threads : \A i \in DOMAIN calls[u] : calls[u][i].op # "close"
  BY <1>1, <1>4 DEF CloseComesLast
<1>6. MainHolds'
  BY <1>1, <1>2, <1>5 DEF MainHolds, HasConfig, HasPool, Listening
<1>7. WhoIsThere'
  BY <1>1, <1>2, TypeParts DEF WhoIsThere, Free, HasPool, Listening
<1>8. CloseComesLast'
  BY <1>1, <1>2, <1>5 DEF CloseComesLast
<1>9. HandlerLinesKept' /\ LoadedSoFar'
  BY <1>1, <1>2 DEF HandlerLinesKept, LoadedSoFar
<1>. QED
  BY <1>2, <1>3, <1>6, <1>7, <1>8, <1>9

\* A signal, at any moment, to any thread there is.
LEMMA SignalKeeps ==
  ASSUME IInv, NEW t \in Threads, SignalHandler(t)
  PROVE  IInv' /\ FiledInOrder
<1>. USE DEF IInv, ProcessInv
<1>1. /\ signalled' = TRUE /\ LogWrite(t, INFO, "signal")
      /\ keepRunning' \in BOOLEAN
      /\ \/ mainPc' = mainPc
         \/ mainPc = "accept" /\ mainPc' = "check"
      /\ UNCHANGED <<configVars, config, pool, queued, listening, stage>>
  BY TypeParts DEF SignalHandler, MainAt
<1>2. t = Main \/ (t \in Workers /\ t # Main)
  BY ProcessAssumption
<1>3. t # Main => mainPc \in HasPool \cup {"joining"}
  BY <1>2 DEF SignalHandler, Exists, MainHolds, WhoIsThere
<1>4. t = Main => mainPc \notin {"load", "crashed", "exited"}
  BY DEF SignalHandler, Exists
<1>5. Main \in Threads /\ Main \notin Workers /\ Workers \subseteq Threads
  BY ProcessAssumption
<1>6. /\ LogInv' /\ FiledInOrder
      /\ UNCHANGED <<logFile, missed>>
      /\ \A u \in Threads : u # t => calls'[u] = calls[u]
      /\ \A i \in DOMAIN calls[t] : \E j \in DOMAIN calls'[t] : calls'[t][j] = calls[t][i]
      /\ \A i \in DOMAIN calls'[t] :
            \/ calls'[t][i].op = "write" /\ calls'[t][i].by = "signal"
            \/ \E j \in DOMAIN calls[t] : calls'[t][i] = calls[t][j]
  BY <1>1, WriteKeeps
<1>7. TypeOK'
  BY <1>1, <1>6, TypeParts, TypePartsNext, ConfigStands DEF LogInv, MainPcs
<1>8. MainHolds'
  BY <1>1, <1>6 DEF MainHolds, HasConfig, HasPool, Listening
<1>9. WhoIsThere'
  <2>1. /\ mainPc' \in HasPool <=> mainPc \in HasPool
        /\ mainPc' = "joining" <=> mainPc = "joining"
    BY <1>1 DEF HasPool, Listening
  <2>2. \A w \in Workers : stage'[w] # "idle" => mainPc \in HasPool
    BY <1>1 DEF WhoIsThere
  <2>3. ASSUME NEW w \in Workers, ~Free(w)' PROVE mainPc \in HasPool \cup {"joining"}
    <3>1. CASE w = t
      BY <1>3, <1>5, <3>1
    <3>2. CASE w # t
      BY <1>1, <1>5, <1>6, <2>3, <3>2 DEF WhoIsThere, Free
    <3>. QED
      BY <3>1, <3>2
  <2>4. mainPc' \in {"load", "crashed", "exited"} => t # Main /\ mainPc' = mainPc
    BY <1>1, <1>4
  <2>5. mainPc' \in {"load", "crashed", "exited"} => Free(Main)'
    BY <1>3, <2>4 DEF HasPool, Listening
  <2>. QED
    BY <2>1, <2>2, <2>3, <2>5 DEF WhoIsThere
<1>10. CloseComesLast'
  <2>1. mainPc' = "end" <=> mainPc = "end"
    BY <1>1
  <2>2. ASSUME NEW u \in Threads, NEW i \in DOMAIN calls'[u], calls'[u][i].op = "close"
        PROVE  u = Main /\ mainPc' = "end"
    <3>1. \E j \in DOMAIN calls[u] : calls[u][j].op = "close"
      BY <1>6, <2>2
    <3>. QED
      BY <2>1, <3>1 DEF CloseComesLast
  <2>3. ASSUME mainPc' = "end", NEW i \in DOMAIN calls'[Main], calls'[Main][i].by = "thread"
        PROVE  calls'[Main][i].op = "close"
    <3>1. t = Main
      BY <1>3, <2>1, <2>3 DEF HasPool, Listening
    <3>2. \E j \in DOMAIN calls[Main] : calls'[Main][i] = calls[Main][j]
      BY <1>6, <2>3, <3>1
    <3>. QED
      BY <2>1, <2>3, <3>2 DEF CloseComesLast
  <2>4. ASSUME mainPc' = "end", logFile' = "open"
        PROVE  \E i \in DOMAIN calls'[Main] : calls'[Main][i].op = "close"
    <3>1. \E i \in DOMAIN calls[Main] : calls[Main][i].op = "close"
      BY <1>6, <2>1, <2>4 DEF CloseComesLast
    <3>. QED
      BY <1>5, <1>6, <3>1
  <2>. QED
    BY <2>2, <2>3, <2>4 DEF CloseComesLast
<1>11. HandlerLinesKept' /\ LoadedSoFar'
  <2>1. ~(t = Main /\ mainPc = "load") /\ ~(t # Main /\ mainPc = "load")
    BY <1>3, <1>4 DEF HasPool, Listening
  <2>. QED
    BY <1>1, <1>6, <2>1 DEF HandlerLinesKept, LoadedSoFar
<1>. QED
  BY <1>6, <1>7, <1>8, <1>9, <1>10, <1>11

\* What a step inside the log may do to the stacks.
StackGoesOn(t) ==
    /\ \A u \in Threads : u # t => calls'[u] = calls[u]
    /\ \A i \in DOMAIN calls'[t] : \E j \in DOMAIN calls[t] :
          calls'[t][i].op = calls[t][j].op /\ calls'[t][i].by = calls[t][j].by
    /\ logFile' = "open" => \A i \in DOMAIN calls[t] : calls[t][i].op = "close" =>
          \E j \in DOMAIN calls'[t] : calls'[t][j].op = "close"

\* What a step of a thread inside the log does to its stack, to the file and to the
\* lines that come too late for it.
LEMMA LogStepMoves ==
  ASSUME IInv, NEW t \in Threads, LogStep(t)
  PROVE  /\ ~Free(t) /\ StackGoesOn(t)
         /\ logFile' # logFile => logFile' = "closed" /\ mainPc = "end"
         /\ <<"thread", "closed">> \in missed' => <<"thread", "closed">> \in missed
<1>. USE DEF IInv, ProcessInv, LogInv
<1>1. ASSUME NEW pc \in {"time", "stamp", "lock", "console", "file", "close"}, ~Free(t), GoTo(t, pc)
      PROVE  StackGoesOn(t)
  <2>1. /\ \A u \in Threads : u # t => calls'[u] = calls[u]
        /\ 1 \in DOMAIN calls[t] /\ DOMAIN calls'[t] = DOMAIN calls[t]
        /\ calls'[t][1].op = calls[t][1].op /\ calls'[t][1].by = calls[t][1].by
        /\ \A i \in DOMAIN calls[t] : i # 1 => calls'[t][i] = calls[t][i]
    BY <1>1, CallGoesOn
  <2>2. \A i \in DOMAIN calls[t] :
           calls'[t][i].op = calls[t][i].op /\ calls'[t][i].by = calls[t][i].by
    BY <2>1
  <2>. QED
    BY <2>1, <2>2 DEF StackGoesOn
<1>2. ASSUME ~Free(t), Return(t), calls[t][1].op = "close" => logFile' # "open"
      PROVE  StackGoesOn(t) /\ 1 \in DOMAIN calls[t]
  <2>1. /\ \A u \in Threads : u # t => calls'[u] = calls[u]
        /\ 1 \in DOMAIN calls[t]
        /\ \A i \in DOMAIN calls'[t] : i + 1 \in DOMAIN calls[t] /\ calls'[t][i] = calls[t][i + 1]
        /\ \A i \in DOMAIN calls[t] :
              i # 1 => i - 1 \in DOMAIN calls'[t] /\ calls'[t][i - 1] = calls[t][i]
    BY <1>2, CallReturns
  <2>2. logFile' = "open" => \A i \in DOMAIN calls[t] : calls[t][i].op = "close" =>
           \E j \in DOMAIN calls'[t] : calls'[t][j].op = "close"
    BY <1>2, <2>1
  <2>. QED
    BY <2>1, <2>2 DEF StackGoesOn
<1>3. CASE TakeTime(t) \/ Stamp(t) \/ Lock(t) \/ WriteConsole(t)
  <2>1. /\ ~Free(t) /\ UNCHANGED <<logFile, missed>>
        /\ \E pc \in {"time", "stamp", "lock", "console", "file", "close"} : GoTo(t, pc)
    BY <1>3 DEF TakeTime, Stamp, Lock, WriteConsole, At
  <2>. QED
    BY <1>1, <2>1
<1>4. CASE WriteFile(t) \/ WriteFileFails(t)
  <2>1. /\ ~Free(t) /\ calls[t][1].at = "file" /\ Return(t) /\ UNCHANGED logFile
        /\ \/ missed' = missed
           \/ missed' = missed \cup {<<calls[t][1].by, "failed">>}
           \/ logFile = "closed" /\ missed' = missed \cup {<<calls[t][1].by, "closed">>}
    BY <1>4 DEF WriteFile, WriteFileFails, Misses, At, Line
  <2>2. 1 \in DOMAIN calls[t]
    BY <2>1, CallReturns
  <2>3. calls[t][1].op = "write"
    BY <2>1, <2>2 DEF StepsFit
  <2>4. ASSUME logFile = "closed" PROVE calls[t][1].by = "signal"
    <3>1. mainPc \in {"end", "exited"}
      BY <2>4 DEF MainHolds
    <3>2. t = Main
      BY <2>1, <3>1, ProcessAssumption DEF WhoIsThere, HasPool, Listening
    <3>3. mainPc = "end"
      BY <2>1, <3>1, <3>2 DEF WhoIsThere
    <3>4. calls[t][1].by # "thread"
      BY <2>2, <2>3, <3>2, <3>3 DEF CloseComesLast
    <3>. QED
      BY <2>2, <3>4, TopCall
  <2>5. <<"thread", "closed">> \in missed' => <<"thread", "closed">> \in missed
    BY <2>1, <2>4
  <2>. QED
    BY <1>2, <2>1, <2>3, <2>5
<1>5. CASE CloseFile(t)
  <2>1. /\ ~Free(t) /\ calls[t][1].at = "close" /\ Return(t) /\ UNCHANGED missed
        /\ logFile' = IF logFile = "open" THEN "closed" ELSE logFile
    BY <1>5 DEF CloseFile, At
  <2>2. StackGoesOn(t) /\ 1 \in DOMAIN calls[t]
    BY <1>2, <2>1
  <2>3. calls[t][1].op = "close"
    BY <2>1, <2>2 DEF StepsFit
  <2>4. mainPc = "end"
    BY <2>2, <2>3 DEF CloseComesLast
  <2>. QED
    BY <2>1, <2>2, <2>4
<1>. QED
  BY <1>3, <1>4, <1>5 DEF LogStep

\* A step inside the log, of main, a worker or the signal handler on top of either.
LEMMA InLogKeeps ==
  ASSUME IInv, NEW t \in Threads, InLog(t)
  PROVE  IInv' /\ FiledInOrder
<1>. USE DEF IInv, ProcessInv
<1>1. /\ LogStep(t) /\ UNCHANGED <<configVars, mainPc, config, pool, queued, listening, signalled, stage>>
      /\ keepRunning' \in BOOLEAN
  BY TypeParts DEF InLog, mainVars
<1>2. LogInv' /\ FiledInOrder
  BY <1>1, LogStepKeeps
<1>3. /\ ~Free(t)
      /\ logFile' # logFile => logFile' = "closed" /\ mainPc = "end"
      /\ <<"thread", "closed">> \in missed' => <<"thread", "closed">> \in missed
  BY <1>1, LogStepMoves
<1>4. /\ \A u \in Threads : u # t => calls'[u] = calls[u]
      /\ \A i \in DOMAIN calls'[t] : \E j \in DOMAIN calls[t] :
            calls'[t][i].op = calls[t][j].op /\ calls'[t][i].by = calls[t][j].by
      /\ logFile' = "open" => \A i \in DOMAIN calls[t] : calls[t][i].op = "close" =>
            \E j \in DOMAIN calls'[t] : calls'[t][j].op = "close"
  BY <1>1, LogStepMoves DEF StackGoesOn
<1>5. Main \in Threads /\ Workers \subseteq Threads
  BY ProcessAssumption
<1>6. TypeOK'
  BY <1>1, <1>2, TypeParts, TypePartsNext, ConfigStands DEF LogInv
<1>7. MainHolds'
  BY <1>1, <1>3 DEF MainHolds
<1>8. WhoIsThere'
  <2>1. \A u \in Threads : Free(u) => Free(u)'
    BY <1>3, <1>4 DEF Free
  <2>. QED
    BY <1>1, <1>5, <2>1 DEF WhoIsThere
<1>9. CloseComesLast'
  <2>1. ASSUME NEW u \in Threads, NEW i \in DOMAIN calls'[u]
        PROVE  \E j \in DOMAIN calls[u] :
                  calls'[u][i].op = calls[u][j].op /\ calls'[u][i].by = calls[u][j].by
    BY <1>4, <2>1
  <2>2. ASSUME mainPc' = "end", logFile' = "open"
        PROVE  \E i \in DOMAIN calls'[Main] : calls'[Main][i].op = "close"
    <3>1. \E i \in DOMAIN calls[Main] : calls[Main][i].op = "close"
      BY <1>1, <1>3, <2>2 DEF CloseComesLast
    <3>. QED
      BY <1>4, <1>5, <2>2, <3>1
  <2>3. ASSUME NEW u \in Threads, NEW i \in DOMAIN calls'[u], calls'[u][i].op = "close"
        PROVE  u = Main /\ mainPc' = "end"
    BY <1>1, <2>1, <2>3 DEF CloseComesLast
  <2>4. ASSUME mainPc' = "end", NEW i \in DOMAIN calls'[Main], calls'[Main][i].by = "thread"
        PROVE  calls'[Main][i].op = "close"
    BY <1>1, <1>5, <2>1, <2>4 DEF CloseComesLast
  <2>. QED
    BY <2>2, <2>3, <2>4 DEF CloseComesLast
<1>10. HandlerLinesKept'
  BY <1>3 DEF HandlerLinesKept
<1>11. LoadedSoFar'
  BY <1>1 DEF LoadedSoFar, ConfigRead, SectionRead, TableRead, UsersRead, SettingsRead, configVars
<1>. QED
  BY <1>2, <1>6, <1>7, <1>8, <1>9, <1>10, <1>11

-----------------------------------------------------------------------------
(* Theorems *)

LEMMA InitHolds ==
  ASSUME Init
  PROVE  IInv
<1>1. /\ ConfigInit /\ libcLock = NoThread /\ mutex = NoThread /\ logFile = "none" /\ level = INFO
      /\ calls = [t \in Threads |-> <<>>] /\ unfiled = <<>> /\ missed = {}
      /\ mainPc = "load" /\ config = "none" /\ pool = "none" /\ queued = 0 /\ listening = FALSE
      /\ keepRunning = TRUE /\ signalled = FALSE /\ stage = [w \in Workers |-> "idle"]
  BY DEF Init, LogInit
<1>2. <<>> \in Seq(LogCall) /\ <<>> \in Seq(Threads \X {"thread", "signal"})
  OBVIOUS
<1>3. LogTypeOK
  <2>1. INFO \in DEBUG .. ERROR
    BY DEF DEBUG, INFO, ERROR
  <2>. QED
    BY <1>1, <1>2, <2>1 DEF LogTypeOK
<1>4. ConfigTypeOK /\ ConfigRead
  BY <1>1, InitReads
<1>5. TypeOK
  <2>1. 0 \in 0 .. MaxQueued
    BY ProcessAssumption
  <2>. QED
    BY <1>1, <1>3, <1>4, <2>1, TypeParts DEF MainPcs
<1>6. \A t \in Threads : Free(t) /\ DOMAIN calls[t] = {}
  BY <1>1 DEF Free
<1>7. LogInv
  BY <1>1, <1>3, <1>6 DEF LogInv, MutexHeld, StepsFit, LineWaits
<1>8. MainHolds
  BY <1>1 DEF MainHolds, HasConfig, HasPool, Listening
<1>9. WhoIsThere
  BY <1>1, <1>6, ProcessAssumption DEF WhoIsThere
<1>10. CloseComesLast /\ HandlerLinesKept /\ LoadedSoFar
  BY <1>1, <1>4, <1>6 DEF CloseComesLast, HandlerLinesKept, LoadedSoFar
<1>. QED
  BY <1>5, <1>7, <1>8, <1>9, <1>10 DEF IInv, ProcessInv

LEMMA StepKeeps ==
  ASSUME IInv, [Next]_vars
  PROVE  IInv' /\ FiledInOrder
<1>1. CASE LoadLine \/ LoadCrashes \/ LoadFails
  BY <1>1, LoadKeeps
<1>2. CASE MainStep
  <2>1. CASE StartLog
    BY <2>1, StartLogKeeps
  <2>2. CASE CloseLog
    BY <2>2, CloseLogKeeps
  <2>3. CASE Exit
    BY <2>3, ExitKeeps
  <2>4. CASE CreatePool \/ CreatePoolFails \/ Listen \/ ListenFails \/ CheckRunning
             \/ CallAccept \/ Accept \/ AcceptFails \/ Submit \/ CloseListener
             \/ DestroyPool \/ JoinPool \/ FreeConfig
    BY <2>4, MainStepKeeps
  <2>. QED
    BY <1>2, <2>1, <2>2, <2>3, <2>4 DEF MainStep
<1>3. ASSUME NEW w \in Workers, WorkerStep(w) PROVE IInv' /\ FiledInOrder
  BY <1>3, WorkerStepKeeps
<1>4. ASSUME NEW t \in Threads, SignalHandler(t) \/ InLog(t) PROVE IInv' /\ FiledInOrder
  BY <1>4, SignalKeeps, InLogKeeps
<1>5. CASE UNCHANGED vars
  <2>1. LogInv' /\ FiledInOrder /\ UNCHANGED <<libcLock, mutex, logFile, level, unfiled, missed, calls>>
    BY <1>5, NoLine DEF vars, IInv
  <2>2. UNCHANGED <<configVars, mainPc, config, pool, queued, listening, keepRunning, signalled, stage>>
    BY <1>5 DEF vars, mainVars
  <2>3. TypeOK'
    BY <2>1, <2>2, TypeParts, TypePartsNext, ConfigStands DEF IInv, LogInv
  <2>4. MainHolds' /\ WhoIsThere' /\ CloseComesLast' /\ HandlerLinesKept'
    BY <2>1, <2>2 DEF IInv, ProcessInv, MainHolds, WhoIsThere, CloseComesLast, HandlerLinesKept, Free
  <2>5. LoadedSoFar'
    BY <2>2 DEF IInv, ProcessInv, LoadedSoFar, ConfigRead, SectionRead, TableRead, UsersRead,
                SettingsRead, configVars
  <2>. QED
    BY <2>1, <2>3, <2>4, <2>5 DEF IInv, ProcessInv
<1>. QED
  BY <1>1, <1>2, <1>3, <1>4, <1>5 DEF Next

\* The invariant holds in every state the process can be in.
THEOREM Invariance == Spec => []IInv
<1>1. Init => IInv
  BY InitHolds
<1>2. IInv /\ [Next]_vars => IInv'
  BY StepKeeps
<1>. QED
  BY <1>1, <1>2, PTL DEF Spec

\* Every variable of the process, its log and its configuration has its type.
THEOREM TypeCorrect == Spec => []TypeOK
<1>1. IInv => TypeOK
  BY DEF IInv
<1>. QED
  BY <1>1, Invariance, PTL

\* However the configuration file is written, config_load has at each line the users
\* and the settings the file gives up to there.
THEOREM LoadedCorrect == Spec => []LoadedAsWritten
<1>1. IInv => LoadedAsWritten
  BY TypeParts, ReadAsWritten DEF IInv, ProcessInv, LoadedSoFar, LoadedAsWritten
<1>. QED
  BY <1>1, Invariance, PTL

\* On every path through main nothing is released that a handler uses, and all that
\* was acquired is released when main returns.
THEOREM ReleasedCorrect == Spec => []ReleasedInOrder
<1>1. IInv => ReleasedInOrder
  <2>1. ASSUME IInv
        PROVE  /\ TypeOK /\ MainHolds /\ WhoIsThere
               /\ pool \in {"none", "up", "closing", "gone"}
    BY <2>1, TypeParts DEF IInv, ProcessInv
  <2>. QED
    BY <2>1 DEF MainHolds, WhoIsThere, HasConfig, HasPool, Listening, ReleasedInOrder
<1>. QED
  BY <1>1, Invariance, PTL

\* No line of main or of a handler comes after log_close has closed the file: only the
\* signal handler's can.
THEOREM HandlerLinesCorrect == Spec => []HandlerLinesKept
<1>1. IInv => HandlerLinesKept
  BY DEF IInv, ProcessInv
<1>. QED
  BY <1>1, Invariance, PTL

\* The log's file has the lines of the console, in their order, whatever threads and
\* the signal handler log at once.
THEOREM LogCorrect == Spec => LogInOrder
<1>1. IInv /\ [Next]_vars => FiledInOrder
  BY StepKeeps
<1>2. Spec => [][FiledInOrder]_logVars
  BY <1>1, Invariance, PTL DEF Spec
<1>. QED
  BY <1>2 DEF FiledInOrder, LogInOrder

================================================================================
