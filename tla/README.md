# Specifications of the IMX6ULL network file system

TLA+ modules for the server (C, `src/server`, `src/protocol`) and the Qt client
(`src/client`), the TLC configurations that check them on small instances, and
proofs, checked by TLAPS, of every safety property that a passing run checks. Line
numbers are those of the sources beside this directory.

## 1. The system

| Part | State | Operations | Interacts with |
|---|---|---|---|
| Thread pool (`thread_pool.c`) | list, tail pointer and length of the task queue, `shutdown`, `active`, a mutex and a condition variable | create, worker loop, submit, wait, destroy | called by main; runs `handle_client` |
| Main (`main.c`) | `g_running`, `g_config`, `g_thread_pool`, the listening socket | start, accept loop, signal handler, cleanup | everything below it |
| Configuration (`config.c`) | the table of users, the settings | load, verify a user | read by main, and by every handler in `handle_login` |
| Log (`log.c`) | one mutex, a file, a level | init, write, close | called by every thread and by the signal handler |
| Session registry (`session.c`) | `g_sessions`, `g_next_session_id`; in each session the socket, the login and the list of transfers | create, destroy; add, pause, resume, remove, clean up tasks | main creates, the worker destroys |
| Transfers and files (`handler.c`, `session.c`) | transfer tasks with their `FILE*`, `g_task_id`, the files themselves | START, DATA, PAUSE, RESUME, END for uploads and downloads; DELETE, RENAME, EDIT | several sessions share the directory and `g_task_id` |
| Connection (`handler.c`, `network.c`, `protocol.c`) | the byte stream, `recv_frame`'s buffer on the stack, `is_authenticated` | receive, check, dispatch, answer, close | the client at the other end of TCP |
| Qt client (`networkmanager.cpp` and the windows) | receive buffer, `m_lastCmd`, `m_requestingLogFiles`, task ids, `m_authenticated`; the stack of open dialogs | settings dialog, connect, log in, commands, upload, download, receive loop | the server, the user, timers |
| MD5, system information, wire format | none | pure functions and I/O | handlers, both ends of a connection |

What is hard in it:

* workers, the main thread and (through signals) any thread interleave at every
  lock; the pool is freed while threads are leaving it;
* two sessions run the START handlers at once, over one task counter and one
  directory; two `FILE`s may be open on one file, which nobody locks; a task's
  data sits in a `FILE` buffer when the client is told it has arrived;
* a line of the log takes two locks, libc's and the log's, which the signal handler
  wants as well, whatever it interrupts; configuration and log are released while
  handlers may still run;
* TCP cuts the stream anywhere, and `recv_frame` reads a frame with two calls of
  `recv`;
* the client's receive loop is re-entered by timers and by the loss of the
  connection whenever a slot opens a dialog; handlers that wait for a connection
  outlive the attempts that fail.

What makes each part correct: the pool starts every task once, in order, loses no
wakeup, is freed last, and terminates. Every session has one owner and is
destroyed once. Counters, lists and open descriptors of transfers agree on every
path; what the client was told is stored is stored, with its data, unless another
`FILE` or the disk took it; a paused transfer stands still. Who may log in is who the
configuration file names; no line of the log is lost (but by a full disk) or overtakes
another; what main acquires it releases, on every path, when nobody uses it any more,
and a signal ends the process. The handlers get the frames the client sent and answer
each once. The client never takes itself for logged in where it is not, never takes an answer of
an earlier connection for one of this, sends a password on one connection only, and
reports as uploaded what was stored.

## 2. Modules

| Module | Models | Extends |
|---|---|---|
| `TaskQueue` | what a thread pool promises: a FIFO queue and a fixed number of slots | |
| `ThreadPool` | `thread_pool.c` in detail; implements `TaskQueue` | |
| `ThreadPool_proofs` | theorems about `ThreadPool` | `ThreadPool` |
| `Server` | accept loop, signals, registry, the loop of `handle_client`, shutdown | `TaskQueue` |
| `Server_proofs` | theorems about `Server`, and that it uses the pool as `TaskQueue` says | `Server` |
| `Streams` | what a transfer promises: a stream of blocks that stands while paused | |
| `Streams_proofs` | theorems about `Streams` | `Streams` |
| `Transfers` | the sessions' transfers and the files they share; implements `Streams` | |
| `Transfers_proofs` | theorems about `Transfers`, the refinement among them | `Transfers` |
| `Connection` | one connection from frames to responses | |
| `Connection_proofs` | theorems about `Connection` | `Connection` |
| `Client` | the Qt client, with the server's session as it sees it | |
| `Client_proofs` | theorems about `Client` | `Client` |
| `Config` | `config_load` and `config_verify_user` | |
| `Config_proofs` | lemmas about `config_load` | `Config` |
| `Log` | `log.c` | |
| `Process` | `main.c` from start to end, with its signal handler and its workers | `Config`, `Log` |
| `Process_proofs` | theorems about `Process` | `Process`, `Config_proofs` |
| `MC...` | what TLC runs, with symmetry sets where they are sound | the module checked |

The modules meet at interfaces. `Server` runs its sessions on `TaskQueue`, which
`ThreadPool` is proved to implement, so that the pool's mutex need not be composed
with the server's. `Server` treats a request as a step, `Connection` looks inside
that step at the bytes, `Transfers` at its effect on tasks and files. `Process` has
the same main thread as `Server`, with sessions reduced to a handler that logs and
looks up users, and with what `Server` leaves out: configuration, log, the failures
before the loop, and a signal handler that can block. That a
session is touched by one thread only, which `Transfers` and `Connection` take for
granted, is `OneOwner` in `Server`.

Definitions ending in `_Bug` (or `...Bug`) are variants of an action with a
plausible mistake in it. No specification uses them; each is put in place of the
action it follows to see that a property notices.

### ThreadPool

One action for each piece of code between two synchronisation points. `Enter`
takes the mutex (line 19, or the re-acquisition in `pthread_cond_wait`), `Block`,
`Exit` and `Take` are the three ways through the critical section of lines 21-42,
`Return` is the end of the task's function, `Reenter` and `Leave` lines 50-60.
`Create`, `Spawn`, `SpawnFails`, `CreateFails` are `thread_pool_create`; `Submit`,
`MainLock`, `AppendItem` are `thread_pool_submit` with its signal; `StartWait` and
`Poll` are `thread_pool_wait`; `Destroy`, `Broadcast`, `Join`, `FreePool` are
`thread_pool_destroy`. `pthread_cond_wait` may wake up by itself
(`SpuriousWakeup`), a signal wakes one sleeper, whichever, if there is one.
`queue`, `queueEnd` and `taskCount` are separate, as in the code. All calls come
from one thread, since `main` is the only caller; `thread_pool_wait` has no caller
and is modelled as one `main` could make.

### TaskQueue

`pending`, `running` (one task per slot), `finished`, `closed`; `SubmitTask`,
`StartTask`, `FinishTask`, `Close`, `DropPending`. After `Close` nothing new starts:
the code's workers look at `shutdown` before the queue. `TQFairSpec` adds that a
task does not wait for ever beside an idle slot.

### Server

`mainPc` follows the main thread through lines 113-143. The test of `g_running`
(`CheckRunning`) and the call of `accept` (`CallAccept`) are two steps, with the state
`"call"` between them. `Accept` may fail (`AcceptFails`), so may `session_create` and
`thread_pool_submit`, each with the cleanup the code does. `session_create` takes
`g_sessions_mutex` twice and is two steps: `CreateSession` draws the number,
`LinkSession` makes the session the head of the list, and workers may take others out
between the two. `SignalHandler` is run by any thread: it interrupts an `accept` that
is blocked if the main thread runs it, a blocked `recv` if that worker does, and
otherwise (the main thread at `"call"`, an idle worker, one in the middle of a
request) only clears `g_running`. `LoopTest` is the condition of line 214, which lets a session that is
not logged in go on after a signal. `DrainPool` frees the waiting nodes without
their sessions, as lines 130-137 of the pool do. Clients are numbered in the order in
which they connect: nothing else tells them apart.

### Transfers

A file is a place for each block behind an inode, which holds the data some client
sent, or nothing; a path names an inode or nothing, and a task has its own `FILE` with
a buffer. `OpenForWriting` truncates; DELETE and RENAME change names, not inodes;
`Write` lays data on an inode, over what is there, and `CloseFile` writes a buffer out.
Several `FILE`s may be open on one inode, as nobody locks a file. A START handler is
three steps, since another session may run between them: `UploadStart`/`DownloadStart`
(checks and `fopen`), `ReadTaskId` and `AddTask` (the load and the store of
`g_task_id++`, under a lock that is not the same in two sessions), or
`AddTaskFails`. An EDIT is three as well, `EditOpen`, `EditWrite`, `EditClose`: others
may see, or write, the file it has truncated and not filled yet; it works with a task
that is never listed (`inHand`). LOGOUT and the end of a session close the session's
files one by one (`CleanupTask`), then `LoggedOut` or `Destroy`. The other handlers
touch what others see once and are one step.

`UploadData` writes out what the `FILE` buffers (`fseek` does) and passes the new block
on or buffers it. With `DiskCanFill` the disk may take any part of what is written
(`Garbled`): `EditWriteFails` and `UploadDataFails` answer an error; `fclose` loses the
buffer silently, as the code ignores its result; and it ignores that of `fseek`, so that
a block may go to the place of the one before and be acknowledged
(`UploadDataMisplaced`). A task's `acked` and `sent` are histories, of the blocks its
client was told of and the data it sent for them. `overwritten` and `refused` are two
more, sets of pairs of a `FILE` and a block: the block was told of through this `FILE`,
and since then another `FILE` has truncated or written that very block, or the disk
has refused a write that concerns it. A block told of anew leaves both sets. Except
for these pairs, `AckedStored` and `ClosedMeansStored` compare the data in the file with
the data the client sent.

To module `Streams` an open file is a stream (`StreamOf`): the task that holds it
gives its direction, status, position and what was told. A START handler begins one
when `fopen` returns, an END handler, LOGOUT or a lost connection ends one or all of
a session's; everything else a handler does to files, ids and lists is a stutter.

### Connection

The stream is a sequence of pieces: two for a header (its magic, its fields), any
number for a payload. `Deliver` is a packet, cut anywhere (not inside a header if
`WholeHeaders`). `ReceiveHeader` and `ReceiveBody` are the two calls of `recv` in
`recv_frame`, `SkipBody` the case that needs only one, `claim` is the frame whose
header fields the function works with, `last` the one whose bytes an earlier call
left on the stack. `ChecksumMayMatch` compares what the checksum is computed over
with what it should be. `Dispatch` is the handler, the answer (if `protocol_pack`
accepts it) and the test that ends the loop.

### Client

One action per slot or user command. Dialogs are the stack `boxes`: while one that a
slot of `readyRead` has opened is on it (`Reading`) the loop in `onReadyRead` stands,
timers and `onDisconnected` run; the user reaches the one on top only. `ShowSettings`
and `AcceptSettings` are the two halves of `showSettingsDialog` around its dialog,
`logins` the single-shot handlers it leaves for `connected`, numbered by the
connections that came before, `Connected` and `ConnectFails` what becomes of the
attempt. A lost connection is told in a box (`ConnectionLost`) before the socket is
disconnected (`OnDisconnected`).
`buffer` is `m_recvBuffer`, with a response in two pieces. `TransferStart` reads
`lastCmd`, as `parseTransferStart` does, and ignores the short answer of a refusal.
`UploadFile` sends START, DATA and END in one step with the id the last answered
START left. `Serve` is the server's session reduced to what the client can tell
apart, `ServerCloses` its end for reasons of the server's own.

### Config, Log, Process

`Config` reads the file line by line (`ReadLine`), as the loop of `config_load` does:
`section` is the header seen last, one of four; a user goes to the table if it is under
`[users]` and finds room; a setting is taken under the section it belongs to. Of a user
line with an equals sign the code takes what stands behind the sign, which is still a
user if the sign is in the name, and none if it comes later. What stands in the
password's place is hashed (`Md5Hex`, line 144), also when it is a sum already
(`Fields`), and `config_verify_user` compares the result with the sum the client sends.
A line without an equals sign in `[transfer]` passes a null key to `strcmp`
(`Crashes`). Settings are told apart as given or default only. `ConfigAsWritten` says
what the result is in terms of the whole file.

`Log` has a stack of calls for each thread, since a signal handler calls `log_write`
on top of the thread it interrupts. `LogWrite` is the call (nothing if the level is too
low), `TakeTime` and `Stamp` are `localtime` and `strftime`, which take and release a
lock of libc's (`libcLock`), `Lock`, `WriteConsole` and `WriteFile` the rest; with
`WriteFileFails` the file does not take the line, which nobody notices. `LogClose` and
`CloseFile` are `log_close`. `unfiled` holds the lines between console and file,
`missed` says whose lines are not in the file, and whether because it was closed or
because the write failed.

`Process` starts with the file, then `StartLog`, `CreatePool`, `Listen`, each with its
failure and the way out the code takes (`CreatePoolFails` may also leave main
`"joining"` for ever, as `ThreadPool` shows), the loop with `CallAccept`, `Accept`,
`Submit`, then `CloseListener`, `DestroyPool` (no session is started any more),
`JoinPool` (which waits for the handlers and forgets the queue), `FreeConfig`,
`CloseLog`. Of the pool's queue there is the length (`queued`): a worker takes a session
from it (`StartHandler`) whenever it likes until the pool is closing, also after the
loop has ended. Its handler logs, looks a user up (`StartLogin`, `Verify`) and leaves. `SignalHandler` puts a line of its
own on the log of the thread it interrupts; `g_running` is cleared when that call
returns (`InLog`). `Exit` is the end of `main`: between the return of `log_close` and the end of
the process a signal may still come, and its line finds the file closed.

## 3. Runs

| Run | Checks | Instance |
|---|---|---|
| `ThreadPool` | `TypeOK`, `QueueIntegrity`, `ActiveAccurate`, `FifoExactlyOnce`, `NoSleeperWhileWorkWaits`, `FreedAfterLastWorker`, `WaitMeansIdle`, `IInv`, `ImplementsFairTaskQueue`, `DestroyTerminates` | 2 workers, 4 tasks |
| `ThreadPool_create_fails` | `CreateReturns`, violated | 2 workers |
| `Server` | `TypeOK`, `SessionsAccounted`, `OneOwner`, `RegistryOrdered`, `WaitingServed`, `CleanupTerminates` | 3 clients, 2 workers |
| `Server_signal` | `SignalStops`, violated | 1 client, 1 worker |
| `Transfers_one` | `TypeOK`, `TransferLimit`, `TransfersNeedLogin`, `DownloadPrefix`, `AckedStored`, `ImplementsStreams` | 1 session, 2 transfers at a time, 2 paths, 1 inode, files of 2 blocks, 2 values of data |
| `Transfers_two` | `HandlesAccounted`, `ClosedMeansStored` | 2 sessions, 1 path, 2 inodes, 2 values of data, files of 1 block, a disk that may be full |
| `Transfers_task_ids` | `TaskIdsUnique`, violated | 2 sessions |
| `Connection` | `TypeOK`, `DispatchedAsSent`, `LoggedInToStay`, `EveryRequestAnswered`, `AnsweredOrClosed` | 3 frames with payloads of 0 or 2 pieces |
| `Connection_segments` | `CorrectFramesAccepted`, violated | 2 frames with payloads of 3 pieces |
| `Client` | `TypeOK`, `AuthAgrees`, `LoggedInAsEntered`, `OwnAnswers`, `BufferDrains` | 2 passwords entered, so up to 2 connections; 2 requests |
| `Client_upload` | `UploadStored`, violated | 1 connection, 2 requests |
| `Process` | `TypeOK`, `LoadedAsWritten`, `ReleasedInOrder`, `HandlerLinesKept`, `LogInOrder`, `SignalEndsProcess` | files of 4 lines, a table of 2 users, 1 password (plain or hashed), 2 settings, 1 worker, a queue of 1 |

Why these bounds. Four tasks and two workers make the queue empty, of one element
(head and tail the same node) and longer, with more and fewer tasks than sleepers;
the theorems cover any number of both. Three clients and two workers make a session wait in the queue, one
be served and one be accepted at once; the third also lets a session number be
reused if the counter were wrong. Two transfers at a time with a limit of two on one
inode make a file be opened twice and written over, renamed and deleted while open; two
blocks distinguish a prefix from a gap and a block overwritten from the one beside it,
two values of data what is stored from what was written over it. In `Transfers_two` two
sessions with an upload or an edit each meet on one inode, or on two after a delete, with
the disk refusing any write; a block that goes to the wrong place (`UploadDataMisplaced`)
harms another block only in files of two, which a run by hand with `Transfers_one` and
`DiskCanFill` TRUE, `MaxSent` 2 reaches (2.4 million states), and the proofs cover for
any number. `MaxTaskId` and `MaxSent` only end the behaviours. Three frames let one be confused with the one before and the
one after it. Two connections are needed to confuse two, and two passwords are also a failed
attempt followed by a connection that sends both. Four lines are a header, a full
table and one user too many, or two headers with a line under each; one worker and
the main thread are enough for two that want each lock, since a third thread waits
like the second; a queue of one is empty or not when the loop ends, and one password,
with its sum and the sum of that, tells a field that is hashed once from one that is
hashed twice. The runs with a violation
are as small as the counterexample allows. `CHECK_DEADLOCK FALSE` in the client's
runs, since a user may do nothing for ever, and in `Process`, which ends.

### Fairness

* `ThreadPool`: weak fairness for a thread that can run; strong fairness for taking
  the mutex, because other threads take it in between but always release it
  (their critical sections do not block). Nothing makes a spurious wakeup happen,
  and a task need not return: `TasksReturn` is a hypothesis of `DestroyTerminates`
  alone.
* `Server`: threads that can run do; a client that has gone makes `recv` fail (end
  of file, or the timeout of handler.c:21); clients leave some day, without which
  the cleanup rightly waits for ever.
* `Connection`: the network delivers and the server's thread runs. The timeout is
  not forced.
* `Client`: the event loop runs, the network delivers, the server answers, a
  connection closed by the server is seen to be lost, and the user closes dialogs.
* `Process`: threads that can run do; strong fairness for steps inside the log, as its
  two locks are taken by others in between; handlers see their clients leave; and another
  client always comes, so that `accept` returns. `Server_signal` is about the process
  to which no client comes; here the question is what the log does to the signal.

### What the violated properties show

* `CreateReturns`: `thread_pool_create` sets `shutdown` without the mutex and without
  a broadcast when a thread cannot be made, then joins workers that may be asleep.
* `SignalStops`: `accept` is entered after the signal came, or another thread took
  it; the server runs until the next client. TLC prints one trace, in which a worker
  takes it; the other is the main thread at `"call"`.
* `TaskIdsUnique`: `g_task_id++` under a lock of the session is a race between
  sessions; lost updates give one session the same id twice.
* `CorrectFramesAccepted`: what needs a third `recv` is checked before it is there.
* `UploadStored`: the client's first upload is sent with task id 0.

Other places where the code falls short of its documents are in the models but
have no run of their own:

* a header cut by a packet: set `WholeHeaders` to FALSE and `DispatchedAsSent` fails;
* an answer above 16 KB: add `"big"` to `Commands` and `EveryRequestAnswered` fails;
* a block that was acknowledged and is lost to a full disk, in `fclose` at last: drop
  `refused` from `ClosedMeansStored` and `Transfers_two` fails;
* a block that was acknowledged and is overwritten by another upload or edit of the same
  file, since nobody locks it: drop `overwritten` from `AckedStored` or
  `ClosedMeansStored` and both runs fail;
* half a response left for the next connection: drop `connection = 1` from
  `BufferDrains`;
* two passwords on one connection, which a failed attempt before it is enough for: if
  the first is refused, the box that says so is open, and the connection is lost, the
  success of the second is processed when the box is closed, and the client takes
  itself for logged in, without a connection and then on the next one: drop `~Piled`
  from `AuthAgrees`;
* a signal that interrupts a thread inside `log_write`, where it holds the mutex or
  libc's lock: drop either part of `SelfBlocked` and `SignalEndsProcess` fails; and a
  pool that cannot be made, for which main may wait for ever: drop `"joining"`;
* `server/README.md`:109 and 128-136 and `config.h`:30 have the MD5 sum of the password
  in the configuration file; `config_load` hashes what stands there (line 144), so that
  such a user gets in only by typing the sum. `server.conf` has plain passwords, as the
  code wants them. `ConfigAsWritten` is stated by the code's rule and says so;
* the example of `server/README.md`:102-120, whose remarks behind the values are part
  of the values to `config_load`: a user's `rw` with a remark is no permission
  (`ParsePermission`);
* `log.h`:33 says that without a path the log goes to stderr only; `log_init` opens
  `./logs` then, and `log_dir` is never used. `server/README.md`:250 promises a file for
  each day; the file is chosen once, at the start (`OpenLog`).

`PROJECT.json` lists these and the rest under `hazards`.

## 4. Proofs

Every safety property of the passing runs, invariants and action properties, is a
theorem for all values of the constants, and so are the two refinements. Each module
has one inductive invariant, `IInv`, which TLC checked before it was proved (the pool's
is still in run `ThreadPool`): `Init => IInv`, one lemma for each action that it
preserves `IInv`, or for each conjunct, and the properties follow. The assumptions are those the
modules declare, which TLC evaluates for the instances of the runs: integers where
counts are meant, and that values like `NoTask`, `NoThread` and `None`, which stand for
a null pointer, are no task, thread or stream.

| Module | Theorem | States |
|---|---|---|
| `ThreadPool_proofs` | `PoolInvariant`, `TypeCorrect`, `QueueCorrect`, `FifoCorrect`, `NoLostWakeup`, `ActiveCorrect`, `FreedLast`, `WaitCorrect` | `IInv`, `TypeOK`, `QueueIntegrity`, `FifoExactlyOnce`, `NoSleeperWhileWorkWaits`, `ActiveAccurate`, `FreedAfterLastWorker`, `WaitMeansIdle` |
| | `Refinement` | `ThreadPool` implements `TaskQueue` |
| `Server_proofs` | `TypeCorrect`, `AccountedCorrect`, `OwnerCorrect`, `RegistryCorrect` | `TypeOK`, `SessionsAccounted`, `OneOwner`, `RegistryOrdered` |
| | `PoolUsedAsSpecified` | every behaviour of `Server` is one of `TaskQueue` |
| `Streams_proofs` | `DownloadsInOrder`, `PausedStreamsStand` | what every implementation of `Streams` promises |
| `Transfers_proofs` | `TypeCorrect`, `LimitCorrect`, `LoginCorrect`, `HandlesCorrect`, `DownloadCorrect`, `AckedCorrect`, `ClosedCorrect` | `TypeOK`, `TransferLimit`, `TransfersNeedLogin`, `HandlesAccounted`, `DownloadPrefix`, `AckedStored`, `ClosedMeansStored` |
| | `Refinement` | `ImplementsStreams` |
| `Connection_proofs` | `TypeCorrect`, `LoginCorrect`, `AnsweredCorrect`, `DispatchedCorrect` | `TypeOK`, `LoggedInToStay`, `EveryRequestAnswered`, `DispatchedAsSent` |
| `Client_proofs` | `TypeCorrect`, `AuthCorrect`, `EnteredCorrect`, `OwnAnswersCorrect` | `TypeOK`, `AuthAgrees`, `LoggedInAsEntered`, `OwnAnswers` |
| `Process_proofs` | `TypeCorrect`, `LoadedCorrect`, `ReleasedCorrect`, `HandlerLinesCorrect`, `LogCorrect` | `TypeOK`, `LoadedAsWritten`, `ReleasedInOrder`, `HandlerLinesKept`, `LogInOrder` |

**ThreadPool**, for every number of workers and every set of tasks. `QueueIntegrity`
fails in a state where two threads are in the critical section, so
`MutexHeld` ties the holder of the mutex to the program counters; `WaitMeansIdle`
and `FreedAfterLastWorker` need to know which workers exist, have been joined and
have a job (`LifeCycle`, `StartedAccounted`); `NothingYet` covers the pool before
`thread_pool_create` has filled it. `NoSleeperWhileWorkWaits` counts: a task that is
appended wakes a sleeper, a worker that takes one leaves the queue one shorter, and
a worker goes to sleep only on an empty queue; the lemmas about `Busy`, `Sleeping`
and `Awake` say how these sets change. Every step is a step of `TaskQueue` or leaves it
unchanged, with `pending` the list, `running` the workers' jobs and `closed` the flag.

**Server**, for any number of clients, workers and connections in the kernel's queue.
That a session is destroyed once and by its owner needs all the places a connection
can be in together (`Places`): in the kernel's queue, with the main thread, in the
pool's queue, with a worker. `OnePlace` says it is in one of them, `NoPlaceTwice` that
it is there once, `MainHolds` what the main thread's line says of it.
`RegistryOrdered` needs that the next number is above all that were given
(`NumbersBelow`), and that a session with a number and no place in the list yet has one
above those in the list, whatever workers take out meanwhile (`NewestNumber`).
`PoolUsedAsSpecified` closes the gap that composing with `TaskQueue` opens: main and
the handlers do with the pool only what `TaskQueue` allows, and `Refinement` says that
the pool does what `TaskQueue` says.

**Transfers**, for any number of sessions, paths, inodes, blocks and any limit.
`HandlesAccounted` is inductive together with `ListsApart`: a list has no two tasks with
one `FILE`, and a task in the making is not yet in the list. What a step does to tasks
and files is said once, in four cases (`Effect`): it keeps them, opens one, closes
some, or changes one; and for the tasks it does not touch, that what their clients were
told of keeps its data, or is noted as overwritten (`Kept`), whichever other `FILE` is
open on the same inode. Every action is proved to have one of these effects, and
`Accounted`, `DownloadPrefix`, `AckedStored`, `ClosedMeansStored` and the refinement
follow from the effect alone. That a write notes exactly what it takes from others, and
a closing `FILE` leaves its buffer in the file, are lemmas about `Write` and `CloseFile`
(`Writing`, `ClosingFile`). `Streams_proofs` proves, without an assumption, that
a download is told in order and that a paused stream stands, in everything that
implements `Streams`.

**Connection**, for any number of frames, any commands and any lengths of payload. What
was read, what has arrived and what is on the wire are consecutive runs of the stream
that was sent (`StreamWhole`); where `recv_frame` stands in it is `InStep`, which
holds under `WholeHeaders` only, and so `DispatchedCorrect` has that hypothesis, and
`AnsweredCorrect` has that no command is `"big"`: without them TLC refutes the
properties (section 3). `LoginCorrect` and `TypeCorrect` need neither.

**Client**, for any number of passwords, requests and transfers. `OwnAnswers` rests on
`BufferOwn`: what is in the receive buffer is of this connection, or it begins with
half a response of an earlier one, which nothing that comes later completes, so that
nothing behind it is processed. `LoggedInAsEntered` needs that a handler left by
`showSettingsDialog` is numbered with the current connection until it runs (`Counted`)
and that the passwords on their way were entered for it (`OwnLogins`). `AuthAgrees`
needs `LoginFirst`: the answer to the only password of a connection is the first one on
it, no dialog of a slot is open before it is read, and once it can be read the
connection is not lost before it is. That is what a second password destroys
(`Piled`). `Looking` and `NothingLeft` say what is left of a connection that is over.

**Process**, for any file, any size of the table, any threads. `MutexHeld`, `StepsFit`
and `LineWaits` say that a line is between console and file only while its thread has
the mutex, although a signal handler may put a call of its own on top of any other
(libc's lock, taken and released before, plays no part in safety);
`MainHolds`, `WhoIsThere` and `CloseComesLast` tie what is acquired, who is still in
the log and the calls on each stack to main's place. `Config_proofs` has the invariant of
`config_load`'s loop: `section` is the header seen last, the table has the users of the
lines that came early enough, in their order (`SectionRead`, `TableRead`, `UsersRead`).

Model-checked only: liveness (`DestroyTerminates`, `WaitingServed`, `CleanupTerminates`,
`AnsweredOrClosed`, `BufferDrains`, `SignalEndsProcess`) and the fairness half of
`ImplementsFairTaskQueue`, which are out of the prover's reach, as `ENABLED` is. The
arithmetic of `crc32` and MD5 is not part of the models. What is proved is proved of
the models: bounds such as `MaxSent` or `MaxRequests` only end behaviours and are
arbitrary in the theorems.

## 5. Not modelled

* `md5.c`, the arithmetic of `crc32`: pure functions whose definition would be the
  same text again. `Md5Hex` is a function without collisions; a checksum is right
  exactly if the bytes are.
* Frames whose length exceeds the buffers of `recv_frame` and `handle_client`, which
  handler.c:43-58 and 105 do not check: no client of the repository sends one, and
  `Connection` assumes it.
* `tcp_send` failing (handler.c:136-140): the answer is lost with the connection.
* A console that does not take a line of the log; the console is what the log's file
  is compared with.
* `sysinfo.c`: reads `/proc`; its handlers are ordinary requests, one of which sleeps
  for a second between two samples.
* Widgets and dialogs, except that a modal dialog holds the slot that opened it.
* Sequence numbers: neither side looks at those it receives. (The server returns
  them as 16 bits.)
* `task->file_size` and the progress helpers: stored, never read by a handler.
* Paths and permissions beyond `ro`/`rw`, and what a listing or a file contains.
* The client's system monitor beyond its timer.
* The text of a log line and its time, which is taken before the mutex, so that times
  may be out of order in the file.
* `thread_pool_wait`'s termination: nobody calls it.

## 6. Plan

Done, in this order: `TaskQueue` and `ThreadPool` with their proofs; `Transfers`;
`Server`; `Connection`; `Client`; `Streams` with its proofs, and `Transfers` as an
implementation of it; `Config`, `Log` and `Process`; the client's settings dialog; the
proofs about `Transfers`, `Server`, `Process`, `Connection` and `Client`.

Next, to be modelled:

1. In `Client`: who asked for a list.
2. `max_concurrent`, `buffer_size` and `timeout` as parameters that may be any value
   `config_load` accepts, in `Transfers` and `Connection`.

Next, to be proved:

1. Action properties that the invariants make provable and no run states yet: in
   `Transfers`, that a step of one session changes only inodes that session has open or
   names; in `Log`, that the holder of the mutex alone writes.
2. `Streams`: that what an upload has been told of never shrinks, and with the
   refinement the same of `Transfers`.
