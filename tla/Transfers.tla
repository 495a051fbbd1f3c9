------------------------------ MODULE Transfers ------------------------------
(***************************************************************************)
(* The file transfers of the server: the task list of every session        *)
(* (server/src/session.c), the handlers that start, feed, pause, resume    *)
(* and end a transfer and those that change files directly                 *)
(* (server/src/handler.c), and the file system they share.                 *)
(*                                                                         *)
(* Each session is served by one worker thread, one request at a time, and *)
(* only that thread touches the session's task list: the handlers of       *)
(* different sessions meet in the file system and in g_task_id only.  So a *)
(* handler is a step for each time it touches what others see: a START is  *)
(* three (the file is opened, g_task_id is read, g_task_id is written back *)
(* - session.c:182-185, it is static, shared by all sessions, and each     *)
(* session locks its own mutex), an EDIT is three (fopen truncates the     *)
(* file, fwrite passes on what does not fit the FILE's buffer, fclose the  *)
(* rest), and a session that ends closes its files one by one.             *)
(*                                                                         *)
(* A file is blocks of g_config->buffer_size bytes: what is stored at each *)
(* place is the data some client sent, so that what one FILE writes over   *)
(* another's shows.  A request the server answers with an error changes    *)
(* nothing and is no step, unless it closes the session or leaves          *)
(* something in a file.                                                    *)
(***************************************************************************)
EXTENDS Integers, FiniteSets, SequencesExt

CONSTANTS Sessions,     \* client sessions
          Paths,        \* safe paths of regular files under root_dir
          Inodes,       \* what a path, or an open file, stands for
          Handles,      \* FILE pointers
          Data,         \* what a block of a file may hold
          None,         \* no inode, no task, nothing stored
          Perms,        \* permissions of the configured users
          MaxTransfers, \* g_config->max_concurrent_transfers
          DiskCanFill,  \* the file system may refuse data
          MaxBlocks,    \* bound: blocks of a file
          MaxTaskId,    \* bound: no transfer starts once g_task_id is larger
          MaxSent       \* bound: blocks a client sends or asks for in one transfer

ASSUME TransfersAssumption ==
    /\ MaxTransfers \in Nat /\ MaxBlocks \in Nat /\ MaxTaskId \in Nat /\ MaxSent \in Nat
    /\ DiskCanFill \in BOOLEAN /\ Perms \subseteq {"ro", "rw"}

Blocks == 1..MaxBlocks

VARIABLES
    stage,       \* what each session's worker is doing
    auth,        \* sess->is_authenticated
    perm,        \* sess->perm
    tasks,       \* the list that starts at sess->tasks, head first
    taskCount,   \* sess->task_count
    inHand,      \* the FILE a handler works on: the task a START builds, or an edit
    nextTaskId,  \* g_task_id
    entry,       \* the directory: the inode of each path
    content,     \* what each place of each inode holds in the file system
    open,        \* the FILE pointers fopen has returned and fclose has not seen
    overwritten, \* history: <<h, b>>, another FILE has truncated or overwritten block b of h
    refused      \* history: <<h, b>>, the disk has refused a write that concerns block b of h

sessionVars == <<stage, auth, perm>>
taskVars    == <<tasks, taskCount, inHand, nextTaskId>>
fileVars    == <<entry, content, open, overwritten, refused>>
vars == <<sessionVars, taskVars, fileVars>>

\* transfer_task_t.  TASK_COMPLETED exists only inside an END handler, the other
\* states of task_status_t are never assigned.  Three fields are not in the code's
\* struct: `acked' is a history of the blocks the client has been told of (upload, edit)
\* or sent (download), `sent' of the data it last sent for each of the former, and
\* `buffered' says which of them are in the FILE's own buffer.  file_size is
\* left out: the handlers store it and never look at it again.  The FILE of an edit,
\* which is never listed, is a task here too.
Task == [id : Nat, direction : {"upload", "download", "edit"}, inode : Inodes, file : Handles,
         transferred : Nat, status : {"running", "paused"},
         buffered : SUBSET Blocks, acked : SUBSET Blocks, sent : [Blocks -> Data \cup {None}]]

NewTask(d, i, h) ==
    [id |-> 0, direction |-> d, inode |-> i, file |-> h, transferred |-> 0,
     status |-> "running", buffered |-> {}, acked |-> {}, sent |-> [b \in Blocks |-> None]]

\* The tasks of session s, whatever their order, and the one in hand.
Listed(s)  == {tasks[s][i] : i \in DOMAIN tasks[s]}
Holding(s) == Listed(s) \cup (IF inHand[s] = None THEN {} ELSE {inHand[s]})
AllTasks   == UNION {Holding(s) : s \in Sessions}

Init ==
    /\ stage = [s \in Sessions |-> "closed"]
    /\ auth = [s \in Sessions |-> FALSE]
    /\ perm = [s \in Sessions |-> "none"]
    /\ tasks = [s \in Sessions |-> <<>>]
    /\ taskCount = [s \in Sessions |-> 0]
    /\ inHand = [s \in Sessions |-> None]
    /\ nextTaskId = 1
    /\ entry = [p \in Paths |-> None]
    /\ content = [i \in Inodes |-> [b \in Blocks |-> None]]
    /\ open = {} /\ overwritten = {} /\ refused = {}

-----------------------------------------------------------------------------
(* The file system and the C library *)

\* Inodes no path and no open file refers to.
FreeInodes == Inodes \ ({entry[p] : p \in Paths} \cup {t.inode : t \in AllTasks})

\* The blocks B as told of through the FILEs of the tasks in T: those the FILEs still
\* buffer will be written again.
Told(T, B) ==
    UNION {{t.file} \X (B \cap (t.acked \ t.buffered))
             : t \in {u \in T : u.direction # "download"}}

\* The other FILEs that are open on the inode of t.
Beside(t) == {u \in AllTasks \ {t} : u.inode = t.inode}

\* What inode i holds after a write of D, a function on some of the blocks.
Laid(i, D) == [b \in Blocks |-> IF b \in DOMAIN D THEN D[b] ELSE content[i][b]]

\* fopen(p, "wb") by h: an existing file is truncated, a missing one is created; i is
\* the inode.
OpenForWriting(p, i) ==
    /\ \/ entry[p] = i
       \/ entry[p] = None /\ i \in FreeInodes
    /\ entry' = [entry EXCEPT ![p] = i]
    /\ content' = [content EXCEPT ![i] = [b \in Blocks |-> None]]
    /\ overwritten' = overwritten \cup Told({t \in AllTasks : t.inode = i}, Blocks)

\* A new FILE: what a closed one with the same pointer lost is history.
OpenHandle(h) ==
    /\ h \notin open
    /\ open' = open \cup {h}
    /\ refused' = refused \ ({h} \X Blocks)

\* A write of D, a function on some of the blocks, through the FILE of t: what the file
\* system holds then, and which blocks told of through other FILEs are lost by it.  The
\* blocks in anew are told of anew, or with the FILE no more.
Write(t, D, anew) ==
    /\ content' = [content EXCEPT ![t.inode] = Laid(t.inode, D)]
    /\ overwritten' = (overwritten \cup Told(Beside(t), DOMAIN D)) \ ({t.file} \X anew)

\* What may get to the places in G when the disk takes only a part of what is written.
Garbled(G) == UNION {[H -> Data] : H \in SUBSET G}

(* The definitions named ..._Bug are mistakes of the kind each property is to
   find; no behaviour of the specification uses them. *)

\* The descriptor is closed under the FILE, whose buffer is lost.
CloseFile_Bug(t) ==
    /\ open' = open \ {t.file}
    /\ overwritten' = overwritten \ ({t.file} \X Blocks)
    /\ UNCHANGED <<entry, content, refused>>

\* fclose writes what the buffer holds; a failure is not noticed, since nobody looks at
\* fclose's result.
CloseFile(t) ==
    /\ open' = open \ {t.file}
    /\ UNCHANGED entry
    /\ \/ /\ Write(t, [b \in t.buffered |-> t.sent[b]], Blocks)
          /\ UNCHANGED refused
       \/ /\ DiskCanFill /\ t.buffered # {}
          /\ \E D \in Garbled(t.buffered) : Write(t, D, Blocks)
          /\ refused' = refused \cup ({t.file} \X t.buffered)

\* The size of a file in blocks; blocks never written below it are holes.
Filled(i) == {b \in Blocks : content[i][b] # None}
Length(i) == IF Filled(i) = {} THEN 0 ELSE Max(Filled(i))

-----------------------------------------------------------------------------
(* Sessions *)

\* session_create, called by the accept loop.
Connect(s) ==
    /\ stage[s] = "closed"
    /\ stage' = [stage EXCEPT ![s] = "serving"]
    /\ auth' = [auth EXCEPT ![s] = FALSE]
    /\ perm' = [perm EXCEPT ![s] = "none"]
    /\ tasks' = [tasks EXCEPT ![s] = <<>>]
    /\ taskCount' = [taskCount EXCEPT ![s] = 0]
    /\ UNCHANGED <<inHand, nextTaskId, fileVars>>

\* The task is taken out of the list but still counted.
RemoveTask_Bug(s, k) ==
    /\ tasks' = [tasks EXCEPT ![s] = RemoveAt(@, k)]
    /\ UNCHANGED taskCount

\* The task at position k leaves the list: session_remove_task, and the loop of
\* session_cleanup_tasks.
RemoveTask(s, k) ==
    /\ tasks' = [tasks EXCEPT ![s] = RemoveAt(@, k)]
    /\ taskCount' = [taskCount EXCEPT ![s] = @ - 1]

\* session_cleanup_tasks, one round of its loop: LOGOUT and session_destroy close the
\* session's files from the head of the list, while other sessions run.
CleanupTask(s) ==
    /\ stage[s] \in {"logout", "leaving"} /\ tasks[s] # <<>>
    /\ CloseFile(tasks[s][1])
    /\ RemoveTask(s, 1)
    /\ UNCHANGED <<sessionVars, inHand, nextTaskId>>

\* session_destroy, its end.
Destroy(s) ==
    /\ stage[s] = "leaving" /\ tasks[s] = <<>>
    /\ stage' = [stage EXCEPT ![s] = "closed"]
    /\ UNCHANGED <<auth, perm, taskVars, fileVars>>

\* The connection is lost or times out, or the server is told to stop: the loop
\* of handle_client ends between two requests.
ConnectionEnds(s) ==
    /\ stage[s] = "serving"
    /\ stage' = [stage EXCEPT ![s] = "leaving"]
    /\ UNCHANGED <<auth, perm, taskVars, fileVars>>

\* handle_login with a valid name and password; the session may already be
\* logged in, and its transfers go on.
Login(s, p) ==
    /\ stage[s] = "serving"
    /\ auth' = [auth EXCEPT ![s] = TRUE]
    /\ perm' = [perm EXCEPT ![s] = p]
    /\ UNCHANGED <<stage, taskVars, fileVars>>

\* handle_logout begins: the tasks are cleaned up first.
Logout(s) ==
    /\ stage[s] = "serving"
    /\ stage' = [stage EXCEPT ![s] = "logout"]
    /\ UNCHANGED <<auth, perm, taskVars, fileVars>>

\* The transfers of the session are kept until it is destroyed.
LoggedOut_Bug(s) ==
    /\ stage[s] = "logout"
    /\ auth' = [auth EXCEPT ![s] = FALSE]
    /\ perm' = [perm EXCEPT ![s] = "none"]
    /\ stage' = [stage EXCEPT ![s] = "leaving"]
    /\ UNCHANGED <<taskVars, fileVars>>

\* handle_logout ends: nobody is logged in any more, and the loop of handle_client ends.
LoggedOut(s) ==
    /\ stage[s] = "logout" /\ tasks[s] = <<>>
    /\ auth' = [auth EXCEPT ![s] = FALSE]
    /\ perm' = [perm EXCEPT ![s] = "none"]
    /\ stage' = [stage EXCEPT ![s] = "leaving"]
    /\ UNCHANGED <<taskVars, fileVars>>

\* Any other request before the login is refused, and ends the session.
Refuse(s) ==
    /\ stage[s] = "serving" /\ ~auth[s]
    /\ stage' = [stage EXCEPT ![s] = "leaving"]
    /\ UNCHANGED <<auth, perm, taskVars, fileVars>>

-----------------------------------------------------------------------------
(* Starting a transfer *)

\* The checks the START handlers share.
MayStart(s) ==
    /\ stage[s] = "serving" /\ auth[s]
    /\ taskCount[s] < MaxTransfers
    /\ nextTaskId <= MaxTaskId

\* handle_upload_start up to fopen.
UploadStart(s, p) ==
    /\ MayStart(s) /\ perm[s] = "rw"
    /\ \E i \in Inodes, h \in Handles :
        /\ OpenForWriting(p, i)
        /\ OpenHandle(h)
        /\ inHand' = [inHand EXCEPT ![s] = NewTask("upload", i, h)]
    /\ stage' = [stage EXCEPT ![s] = "opened"]
    /\ UNCHANGED <<auth, perm, tasks, taskCount, nextTaskId>>

\* handle_download_start up to session_add_task.
DownloadStart(s, p) ==
    /\ MayStart(s)
    /\ entry[p] # None
    /\ \E h \in Handles :
        /\ OpenHandle(h)
        /\ inHand' = [inHand EXCEPT ![s] = NewTask("download", entry[p], h)]
    /\ stage' = [stage EXCEPT ![s] = "opened"]
    /\ UNCHANGED <<auth, perm, tasks, taskCount, nextTaskId, entry, content, overwritten>>

\* The file stays open.
AddTaskFails_Bug(s) ==
    /\ stage[s] = "opened"
    /\ inHand' = [inHand EXCEPT ![s] = None]
    /\ stage' = [stage EXCEPT ![s] = "serving"]
    /\ UNCHANGED <<auth, perm, tasks, taskCount, nextTaskId, fileVars>>

\* session_add_task cannot allocate the task: the file is closed again.
AddTaskFails(s) ==
    /\ stage[s] = "opened"
    /\ CloseFile(inHand[s])
    /\ inHand' = [inHand EXCEPT ![s] = None]
    /\ stage' = [stage EXCEPT ![s] = "serving"]
    /\ UNCHANGED <<auth, perm, tasks, taskCount, nextTaskId>>

\* session_add_task, the load of g_task_id++.
ReadTaskId(s) ==
    /\ stage[s] = "opened"
    /\ inHand' = [inHand EXCEPT ![s].id = nextTaskId]
    /\ stage' = [stage EXCEPT ![s] = "numbered"]
    /\ UNCHANGED <<auth, perm, tasks, taskCount, nextTaskId, fileVars>>

\* session_add_task, the store of g_task_id++ and the new head of the list; the
\* client is sent the task id.
AddTask(s) ==
    /\ stage[s] = "numbered"
    /\ nextTaskId' = inHand[s].id + 1
    /\ tasks' = [tasks EXCEPT ![s] = <<inHand[s]>> \o @]
    /\ taskCount' = [taskCount EXCEPT ![s] = @ + 1]
    /\ inHand' = [inHand EXCEPT ![s] = None]
    /\ stage' = [stage EXCEPT ![s] = "serving"]
    /\ UNCHANGED <<auth, perm, fileVars>>

-----------------------------------------------------------------------------
(* Requests about a running transfer: `id' is what the client asks for *)

\* The first task of the list with that id; the handlers search from the head.
Matches(s, id)  == {i \in DOMAIN tasks[s] : tasks[s][i].id = id}
Position(s, id) == CHOOSE i \in Matches(s, id) : \A j \in Matches(s, id) : i <= j
Found(s, id)    == stage[s] = "serving" /\ auth[s] /\ Matches(s, id) # {}

\* The task at position k has taken one more block, b, and its client is told so.
Tell(s, k, b, d, kept) ==
    LET t == tasks[s][k]
    IN  tasks' = [tasks EXCEPT ![s][k] =
                     [t EXCEPT !.transferred = t.transferred + 1, !.acked = t.acked \cup {b},
                               !.sent = [t.sent EXCEPT ![b] = d], !.buffered = kept]]

\* The places a block reaches that is written where the buffered one was to go.
Adrift(t) == t.buffered \cup ({c + 1 : c \in t.buffered} \cap Blocks)

\* What the FILE still buffers is dropped by fseek.
UploadData_BufferBug(s, id, b, d) ==
    /\ Found(s, id)
    /\ LET k == Position(s, id)
           t == tasks[s][k]
       IN /\ t.direction = "upload" /\ t.status = "running"
          /\ t.transferred < MaxSent
          /\ \E kept \in {{}, {b}} :
              /\ Write(t, [c \in {b} \ kept |-> d], {b})
              /\ Tell(s, k, b, d, kept)
          /\ refused' = refused \ {<<t.file, b>>}
    /\ UNCHANGED <<sessionVars, taskCount, inHand, nextTaskId, entry, open>>

\* The task's state is not looked at.
UploadData_StatusBug(s, id, b, d) ==
    /\ Found(s, id)
    /\ LET k == Position(s, id)
           t == tasks[s][k]
       IN /\ t.direction = "upload" /\ t.transferred < MaxSent
          /\ Write(t, [c \in t.buffered \cup {b} |-> IF c = b THEN d ELSE t.sent[c]], {b})
          /\ Tell(s, k, b, d, {})
          /\ refused' = refused \ {<<t.file, b>>}
    /\ UNCHANGED <<sessionVars, taskCount, inHand, nextTaskId, entry, open>>

\* handle_upload_data for block b with data d: fseek writes out what the FILE still
\* buffers; fwrite passes the block on or keeps it in the buffer.
UploadData(s, id, b, d) ==
    /\ Found(s, id)
    /\ LET k == Position(s, id)
           t == tasks[s][k]
       IN /\ t.direction = "upload" /\ t.status = "running"
          /\ t.transferred < MaxSent
          /\ \E kept \in {{}, {b}} :
              /\ Write(t, [c \in t.buffered \cup ({b} \ kept) |->
                               IF c \in {b} \ kept THEN d ELSE t.sent[c]], {b})
              /\ Tell(s, k, b, d, kept)
          /\ refused' = refused \ {<<t.file, b>>}
    /\ UNCHANGED <<sessionVars, taskCount, inHand, nextTaskId, entry, open>>

\* handle_upload_data when the disk refuses what the FILE still buffers: fseek drops it
\* and does not move, its result unseen, so that the new block goes where that was to
\* go, or behind the part of it that was taken; the client is told of its block all the same.
UploadDataMisplaced(s, id, b, d) ==
    /\ Found(s, id) /\ DiskCanFill
    /\ LET k == Position(s, id)
           t == tasks[s][k]
       IN /\ t.direction = "upload" /\ t.status = "running" /\ t.buffered # {}
          /\ t.transferred < MaxSent
          /\ \E D \in Garbled(Adrift(t)) : Write(t, D, {})
          /\ Tell(s, k, b, d, {})
          /\ refused' = refused \cup ({t.file} \X (Adrift(t) \cup {b}))
    /\ UNCHANGED <<sessionVars, taskCount, inHand, nextTaskId, entry, open>>

\* handle_upload_data when fwrite writes less than block b: an error is answered, the
\* task stays as it is but for what its FILE has passed on or lost.
UploadDataFails(s, id, b) ==
    /\ Found(s, id) /\ DiskCanFill
    /\ LET k == Position(s, id)
           t == tasks[s][k]
       IN /\ t.direction = "upload" /\ t.status = "running"
          /\ \/ \E D \in Garbled({b}) :
                 Write(t, [c \in DOMAIN D \cup t.buffered |->
                               IF c \in DOMAIN D THEN D[c] ELSE t.sent[c]], {})
                 /\ refused' = refused \cup ({t.file} \X (DOMAIN D \cap t.acked))
             \/ \E D \in Garbled(Adrift(t)) :
                 Write(t, D, {}) /\ refused' = refused \cup ({t.file} \X Adrift(t))
          /\ tasks' = [tasks EXCEPT ![s][k].buffered = {}]
    /\ UNCHANGED <<sessionVars, taskCount, inHand, nextTaskId, entry, open>>

\* handle_download_data: the next block, whatever offset the client names; at
\* the end of the file nothing is read and an empty block is sent.
DownloadData(s, id) ==
    /\ Found(s, id)
    /\ LET k == Position(s, id)
           t == tasks[s][k]
       IN /\ t.direction = "download" /\ t.status = "running"
          /\ t.transferred < Length(t.inode)
          /\ tasks' = [tasks EXCEPT ![s][k].transferred = @ + 1,
                                    ![s][k].acked = @ \cup {t.transferred + 1}]
    /\ UNCHANGED <<sessionVars, taskCount, inHand, nextTaskId, fileVars>>

\* The pause and resume handlers store a state in the task, whatever its direction.
SetStatus(s, id, status) ==
    /\ Found(s, id)
    /\ tasks' = [tasks EXCEPT ![s][Position(s, id)].status = status]
    /\ UNCHANGED <<sessionVars, taskCount, inHand, nextTaskId, fileVars>>

\* Pausing stores a state of another enumeration.
UploadPause_Bug(s, id) == SetStatus(s, id, "waiting")

\* Resuming starts the download again from its beginning.
DownloadResume_Bug(s, id) ==
    /\ Found(s, id)
    /\ tasks' = [tasks EXCEPT ![s][Position(s, id)].status = "running",
                              ![s][Position(s, id)].transferred = 0]
    /\ UNCHANGED <<sessionVars, taskCount, inHand, nextTaskId, fileVars>>

UploadPause(s, id)    == SetStatus(s, id, "paused")
UploadResume(s, id)   == SetStatus(s, id, "running")
DownloadPause(s, id)  == SetStatus(s, id, "paused")
DownloadResume(s, id) == SetStatus(s, id, "running")

\* handle_upload_end: the file is closed, the client told, the task removed,
\* paused or not, whether all blocks have come or not.
UploadEnd(s, id) ==
    /\ Found(s, id)
    /\ CloseFile(tasks[s][Position(s, id)])
    /\ RemoveTask(s, Position(s, id))
    /\ UNCHANGED <<sessionVars, inHand, nextTaskId>>

\* handle_download_end is the same code.
DownloadEnd(s, id) == UploadEnd(s, id)

-----------------------------------------------------------------------------
(* Requests that change files directly *)

MayChangeFiles(s) == stage[s] = "serving" /\ auth[s] /\ perm[s] = "rw"

\* handle_file_delete; files that are open live on without a name.
FileDelete(s, p) ==
    /\ MayChangeFiles(s) /\ entry[p] # None
    /\ entry' = [entry EXCEPT ![p] = None]
    /\ UNCHANGED <<sessionVars, taskVars, content, open, overwritten, refused>>

\* handle_file_rename; rename(2) replaces an existing file.
FileRename(s, p, q) ==
    /\ MayChangeFiles(s) /\ p # q /\ entry[p] # None
    /\ entry' = [entry EXCEPT ![p] = None, ![q] = entry[p]]
    /\ UNCHANGED <<sessionVars, taskVars, content, open, overwritten, refused>>

\* handle_file_edit up to fopen: the file is empty, for others to see.
EditOpen(s, p) ==
    /\ MayChangeFiles(s)
    /\ \E i \in Inodes, h \in Handles :
        /\ OpenForWriting(p, i)
        /\ OpenHandle(h)
        /\ inHand' = [inHand EXCEPT ![s] = NewTask("edit", i, h)]
    /\ stage' = [stage EXCEPT ![s] = "editing"]
    /\ UNCHANGED <<auth, perm, tasks, taskCount, nextTaskId>>

\* handle_file_edit, fwrite of n blocks: the first k are passed on, the rest is buffered.
EditWrite(s, n, d) ==
    /\ stage[s] = "editing"
    /\ \E k \in 0..n :
        /\ Write(inHand[s], [b \in 1..k |-> d], {})
        /\ inHand' = [inHand EXCEPT ![s].acked = 1..n, ![s].buffered = (k + 1)..n,
                                    ![s].sent = [b \in Blocks |-> IF b <= n THEN d ELSE None]]
    /\ stage' = [stage EXCEPT ![s] = "edited"]
    /\ UNCHANGED <<auth, perm, tasks, taskCount, nextTaskId, entry, open, refused>>

\* The disk takes only a part: the client will be told that the edit has failed.
EditWriteFails(s, n) ==
    /\ stage[s] = "editing" /\ DiskCanFill
    /\ \E D \in Garbled(1..n) : Write(inHand[s], D, {})
    /\ inHand' = [inHand EXCEPT ![s].acked = {}]
    /\ stage' = [stage EXCEPT ![s] = "edited"]
    /\ UNCHANGED <<auth, perm, tasks, taskCount, nextTaskId, entry, open, refused>>

\* handle_file_edit, fclose and the answer, which does not depend on it.
EditClose(s) ==
    /\ stage[s] = "edited"
    /\ CloseFile(inHand[s])
    /\ inHand' = [inHand EXCEPT ![s] = None]
    /\ stage' = [stage EXCEPT ![s] = "serving"]
    /\ UNCHANGED <<auth, perm, tasks, taskCount, nextTaskId>>

-----------------------------------------------------------------------------
SessionStep(s) ==
    \/ Connect(s) \/ ConnectionEnds(s) \/ Refuse(s)
    \/ Logout(s) \/ LoggedOut(s)
    \/ CleanupTask(s) \/ Destroy(s)
    \/ \E p \in Perms : Login(s, p)

StartStep(s) ==
    \/ \E p \in Paths : DownloadStart(s, p) \/ UploadStart(s, p)
    \/ AddTaskFails(s) \/ ReadTaskId(s) \/ AddTask(s)

TransferStep(s) ==
    \E id \in {t.id : t \in Listed(s)} :
        \/ \E b \in Blocks :
            \/ \E d \in Data : UploadData(s, id, b, d) \/ UploadDataMisplaced(s, id, b, d)
            \/ UploadDataFails(s, id, b)
        \/ DownloadData(s, id)
        \/ UploadPause(s, id) \/ UploadResume(s, id)
        \/ DownloadPause(s, id) \/ DownloadResume(s, id)
        \/ UploadEnd(s, id) \/ DownloadEnd(s, id)

FileStep(s) ==
    \/ \E p \in Paths :
        \/ FileDelete(s, p)
        \/ \E q \in Paths : FileRename(s, p, q)
        \/ EditOpen(s, p)
    \/ \E n \in 0..MaxBlocks :
        \/ \E d \in Data : EditWrite(s, n, d)
        \/ EditWriteFails(s, n)
    \/ EditClose(s)

Next == \E s \in Sessions : SessionStep(s) \/ StartStep(s) \/ TransferStep(s) \/ FileStep(s)

Spec == Init /\ [][Next]_vars
-----------------------------------------------------------------------------
(* Properties *)

\* Every variable has its type; a handler has a task in hand exactly while a START is
\* between fopen and the end of session_add_task, or an edit between fopen and fclose.
TypeOK ==
    /\ stage \in [Sessions -> {"closed", "serving", "opened", "numbered",
                               "editing", "edited", "logout", "leaving"}]
    /\ auth \in [Sessions -> BOOLEAN]
    /\ perm \in [Sessions -> {"none", "ro", "rw"}]
    /\ tasks \in [Sessions -> Seq(Task)]
    /\ taskCount \in [Sessions -> Int]
    /\ inHand \in [Sessions -> Task \cup {None}]
    /\ \A s \in Sessions :
        /\ inHand[s] # None <=> stage[s] \in {"opened", "numbered", "editing", "edited"}
        /\ stage[s] \in {"editing", "edited"} => inHand[s].direction = "edit"
    /\ nextTaskId \in Nat
    /\ entry \in [Paths -> Inodes \cup {None}]
    /\ content \in [Inodes -> [Blocks -> Data \cup {None}]]
    /\ open \in SUBSET Handles
    /\ overwritten \in SUBSET (Handles \X Blocks) /\ refused \in SUBSET (Handles \X Blocks)

\* The counter the limit is checked against is the length of the list, through
\* failed starts, ends, logouts and lost connections, and never beyond the limit
\* (server/README.md:230).
TransferLimit ==
    \A s \in Sessions :
        /\ taskCount[s] = Len(tasks[s])
        /\ taskCount[s] + (IF stage[s] \in {"opened", "numbered"} THEN 1 ELSE 0) <= MaxTransfers

\* No descriptor leaks and none is closed twice: the open files are exactly the
\* files of the tasks, listed, being started or edited, and no two tasks share one; a
\* task is listed once.
HandlesAccounted ==
    /\ open = {t.file : t \in AllTasks}
    /\ \A s, r \in Sessions : \A t \in Holding(s), u \in Holding(r) :
          t.file = u.file => s = r /\ t = u
    /\ \A s \in Sessions : inHand[s] \notin Listed(s)
    /\ \A s \in Sessions : \A i, j \in DOMAIN tasks[s] :
          tasks[s][i].file = tasks[s][j].file => i = j

\* A session that is not logged in, or is gone, holds no transfer.
TransfersNeedLogin ==
    \A s \in Sessions :
        ~auth[s] \/ stage[s] = "closed" => Holding(s) = {}

\* What a client has been sent of a download is the beginning of the file, without
\* a gap, exactly as long as the server's position says.
DownloadPrefix ==
    \A t \in AllTasks : t.direction = "download" => t.acked = 1..t.transferred

\* A block that a client has been told of is in the file with the data it sent last, or
\* still in the task's own FILE: only a later write of that very block through another
\* FILE, a truncation by another fopen, or a disk that refused a write of it can have
\* lost it, whatever is deleted, renamed, paused and misplaced around it (handler.c:776-777).
AckedStored ==
    \A t \in AllTasks : t.direction # "download" =>
        \A b \in t.acked \ t.buffered :
            \/ content[t.inode][b] = t.sent[b]
            \/ <<t.file, b>> \in overwritten \cup refused

\* When the file of an upload or an edit is closed, by END (answered "Upload
\* completed", handler.c:906), by LOGOUT, with the connection or after fwrite, every block
\* the client is told of is in the file with its data, those that were in the buffer
\* included: only the same three can have lost one, the disk in fclose at last.
ClosedMeansStored ==
    [][\A t \in AllTasks : t.direction # "download" /\ t.file \notin open' =>
        \A b \in t.acked :
            \/ content'[t.inode][b] = t.sent[b]
            \/ <<t.file, b>> \in overwritten \cup refused']_vars

\* The stream that each open file is the end of; an edit is none.
StreamOf(h) ==
    IF h \notin open THEN None
    ELSE LET t == CHOOSE u \in AllTasks : u.file = h
         IN  IF t.direction = "edit" THEN None
             ELSE [direction |-> t.direction, status |-> t.status,
                   moved |-> t.transferred, told |-> t.acked]

\* The handlers, the task lists and the files implement module Streams: whatever the
\* sessions do to one another's files, a request moves no stream but its own, a paused
\* one stands, a download goes on where it was.
StreamsBelow ==
    INSTANCE Streams WITH NoStream <- None, streams <- [h \in Handles |-> StreamOf(h)]
ImplementsStreams == StreamsBelow!StreamsSpec

\* None stands for what is not there, and is none of the things it is told from.
ASSUME NoneAssumption == None \notin Inodes \cup Data \cup Task \cup StreamsBelow!Stream

\* A task id names one transfer of its session: DATA, PAUSE, RESUME and END
\* requests find their task by it (handler.c:751-757).
TaskIdsUnique ==
    \A s \in Sessions : \A i, j \in DOMAIN tasks[s] :
        tasks[s][i].id = tasks[s][j].id => i = j
=============================================================================
