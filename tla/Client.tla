------------------------------- MODULE Client -------------------------------
(***************************************************************************)
(* The Qt client: NetworkManager (client/src/networkmanager.cpp), the      *)
(* parts of the windows that send requests and take their results          *)
(* (filemanagerwindow.cpp, logviewerwindow.cpp, mainwindow.cpp), and the   *)
(* server's session as the client sees it.                                 *)
(*                                                                         *)
(* All of the client runs in one event loop.  A slot runs to its end,      *)
(* except that a dialog runs an event loop of its own inside the slot:     *)
(* timers fire, a connection is made or lost, but the user reaches nothing *)
(* else, and readyRead is not emitted inside its own slot.                 *)
(*                                                                         *)
(* A response travels in two pieces, <<r, 1>> with its header and <<r, 2>>. *)
(* Requests reach the server whole (module Connection is about that) and   *)
(* carry no sequence number: neither side looks at it.  The user may read  *)
(* and write, and the paths are good.  The windows never log out, edit a   *)
(* file, pause or resume, although NetworkManager could.                   *)
(***************************************************************************)
EXTENDS Integers, FiniteSets, SequencesExt

CONSTANTS MaxTransfers,   \* the server's max_concurrent_transfers
          Blocks,         \* bound: blocks of a file
          MaxEntered,     \* bound: times the user enters a server and a password
          MaxRequests     \* bound: requests the user and the timers make

ASSUME ClientAssumption ==
    /\ MaxTransfers \in Nat /\ Blocks \subseteq Nat
    /\ MaxEntered \in Nat /\ MaxRequests \in Nat

VARIABLES
    connected,     \* m_socket is in ConnectedState
    connecting,    \* m_socket is looking for the server
    logins,        \* the handlers of `connected', by the connections before each
    connection,    \* history: how many connections were made
    entered,       \* history: how many passwords were entered
    authenticated, \* m_authenticated
    lastCmd,       \* m_lastCmd
    logRequested,  \* m_requestingLogFiles
    uploadId,      \* m_uploadTaskId
    downloadId,    \* m_downloadTaskId
    saving,        \* m_downloadFile is open
    buffer,        \* m_recvBuffer, in pieces
    boxes,         \* the open dialogs, the one on top first
    windows,       \* the file manager has been opened (it stays)
    requests,      \* bound: requests made so far
    reported,      \* history: blocks reported as uploaded on this connection
    toServer,      \* requests on their way
    toClient,      \* pieces of responses on their way
    session,       \* the server's side of the connection
    login,         \* history: the handler whose password logged in
    tasks,         \* the session's transfers
    nextTaskId,    \* g_task_id
    stored         \* history: blocks the server has stored on this connection

windowVars  == <<windows, requests, reported>>
memberVars  == <<authenticated, lastCmd, logRequested, uploadId, downloadId, saving>>
settingsVars == <<connecting, logins, entered>>
socketVars  == <<connected, connection, buffer, boxes>>
networkVars == <<toServer, toClient>>
serverVars  == <<session, login, tasks, nextTaskId, stored>>
vars == <<windowVars, settingsVars, memberVars, socketVars, networkVars, serverVars>>

Init ==
    /\ connected = FALSE /\ connection = 0 /\ buffer = <<>> /\ boxes = <<>>
    /\ connecting = FALSE /\ logins = <<>> /\ entered = 0
    /\ authenticated = FALSE /\ lastCmd = "none" /\ logRequested = FALSE
    /\ uploadId = 0 /\ downloadId = 0 /\ saving = FALSE
    /\ windows = FALSE /\ requests = 0 /\ reported = 0
    /\ toServer = <<>> /\ toClient = <<>>
    /\ session = "none" /\ login = 0 /\ tasks = {} /\ nextTaskId = 1 /\ stored = 0

\* A request: its command, and the task id in it, or the handler that logs in.
Req(cmd, id) == [cmd |-> cmd, id |-> id]
Plain(cmd) == Req(cmd, 0)

\* The response to r: whether it says success, and the task id in it.
Reply(r, ok, id) ==
    [cmd |-> r.cmd, ok |-> ok, id |-> id, on |-> connection]

-----------------------------------------------------------------------------
(* NetworkManager *)

\* sendFrame for the requests rs, one after the other.
Send(rs) ==
    IF connected /\ rs # <<>>
    THEN toServer' = toServer \o rs /\ lastCmd' = Last(rs).cmd
    ELSE UNCHANGED <<toServer, lastCmd>>

\* A whole response is at the head of the buffer.
Complete == Len(buffer) >= 2 /\ buffer[2] = <<buffer[1][1], 2>>

\* A slot of readyRead waits for a dialog of its own.
Reading == \E i \in 1..Len(boxes) : boxes[i] \in {"information", "warning", "viewer"}

\* The loop in onReadyRead goes on.
Busy == Complete /\ ~Reading

\* The event loop is not inside a slot.
Idle == boxes = <<>> /\ ~Complete

Open(box) == boxes' = <<box>> \o boxes

\* A request of the user or of a timer that does nothing but send rs.
Asks(rs) ==
    /\ requests < MaxRequests
    /\ requests' = requests + 1
    /\ Send(rs)

(* The definitions named ..._Bug are mistakes of the kind each property is to
   find; no behaviour of the specification uses them. *)

\* The handlers stay, to run on every connection.
Connected_Bug ==
    /\ connecting /\ ~Busy
    /\ connecting' = FALSE /\ connected' = TRUE /\ connection' = connection + 1
    /\ UNCHANGED <<logins, entered>>
    /\ toServer' = [i \in 1..Len(logins) |-> Req("login", logins[i])]
    /\ lastCmd' = "login"
    /\ session' = "guest" /\ tasks' = {} /\ stored' = 0 /\ reported' = 0
    /\ UNCHANGED <<authenticated, logRequested, uploadId, downloadId, saving, buffer, boxes,
                   windows, requests, toClient, login, nextTaskId>>

\* onConnected: the handlers of showSettingsDialog run, each for the first time and
\* the last, and send the passwords that were entered.
Connected ==
    /\ connecting /\ ~Busy
    /\ connecting' = FALSE /\ connected' = TRUE /\ connection' = connection + 1
    /\ logins' = <<>> /\ UNCHANGED entered
    /\ toServer' = [i \in 1..Len(logins) |-> Req("login", logins[i])]
    /\ lastCmd' = "login"
    /\ session' = "guest" /\ tasks' = {} /\ stored' = 0 /\ reported' = 0
    /\ UNCHANGED <<authenticated, logRequested, uploadId, downloadId, saving, buffer, boxes,
                   windows, requests, toClient, login, nextTaskId>>

\* onError: the server is not there.  The handler goes on waiting.
ConnectFails ==
    /\ connecting /\ ~Busy
    /\ connecting' = FALSE
    /\ Open("critical")
    /\ UNCHANGED <<connected, connection, buffer, logins, entered, memberVars, windowVars,
                   networkVars, serverVars>>

\* What the client has not read of a connection that is over, and what the
\* server has not, is lost.
HangUp ==
    /\ connected' = FALSE
    /\ session' = "none" /\ tasks' = {}
    /\ toServer' = <<>> /\ toClient' = <<>>
    /\ UNCHANGED <<connection, login, nextTaskId, stored>>

\* disconnect()
Disconnect ==
    /\ HangUp
    /\ authenticated' = FALSE
    /\ buffer' = <<>>
    /\ UNCHANGED <<lastCmd, logRequested, uploadId, downloadId, saving, windowVars>>

\* onActionDisconnect, which updateStatus enables for those who are logged in.
ActionDisconnect ==
    /\ Idle /\ connected /\ authenticated
    /\ Disconnect
    /\ UNCHANGED <<boxes, settingsVars>>

\* The boxes of the file manager do not block the main window.
ShowSettings_Bug ==
    /\ ~Busy /\ "settings" \notin ToSet(boxes) /\ ~(connected /\ authenticated)
    /\ Open("settings")
    /\ IF connected THEN Disconnect
       ELSE UNCHANGED <<connected, connection, buffer, memberVars, windowVars, networkVars,
                        serverVars>>
    /\ UNCHANGED settingsVars

\* showSettingsDialog, which gives up a connection that could not log in.
ShowSettings ==
    /\ Idle /\ ~(connected /\ authenticated)
    /\ Open("settings")
    /\ IF connected THEN Disconnect
       ELSE UNCHANGED <<connected, connection, buffer, memberVars, windowVars, networkVars,
                        serverVars>>
    /\ UNCHANGED settingsVars

\* The dialog is accepted.  A socket that already is connecting, or by now connected,
\* does not connect again; the handler waits for `connected' in any case.
AcceptSettings ==
    /\ boxes # <<>> /\ Head(boxes) = "settings" /\ ~Busy /\ entered < MaxEntered
    /\ boxes' = Tail(boxes)
    /\ connecting' = ~connected
    /\ logins' = Append(logins, connection) /\ entered' = entered + 1
    /\ UNCHANGED <<connected, connection, buffer, memberVars, windowVars, networkVars, serverVars>>

\* onError: the server has closed the connection, or it broke.  The socket is
\* disconnected when the box that tells the user is closed.
ConnectionLost ==
    /\ connected /\ ~Busy /\ "critical" \notin ToSet(boxes)
    /\ Open("critical")
    /\ session' = "none" /\ tasks' = {}
    /\ toServer' = <<>> /\ toClient' = <<>>
    /\ UNCHANGED <<connected, connection, buffer, login, nextTaskId, stored, memberVars,
                   windowVars, settingsVars>>

\* The client goes on believing that it is logged in.
OnDisconnected_Bug ==
    /\ HangUp
    /\ UNCHANGED <<authenticated, buffer, lastCmd, logRequested, uploadId, downloadId, saving,
                   windowVars>>

\* onDisconnected.  The receive buffer stays as it is.
OnDisconnected ==
    /\ HangUp
    /\ authenticated' = FALSE
    /\ UNCHANGED <<buffer, lastCmd, logRequested, uploadId, downloadId, saving, windowVars>>

\* The user closes a dialog; after a success the file manager loads its list.
CloseBox ==
    /\ boxes # <<>> /\ boxes' = Tail(boxes)
    /\ IF Head(boxes) = "critical" /\ connected THEN OnDisconnected
       ELSE /\ Send(IF Head(boxes) = "information" THEN <<Plain("list")>> ELSE <<>>)
            /\ UNCHANGED <<connected, connection, buffer, authenticated, logRequested, uploadId,
                           downloadId, saving, toClient, windowVars, serverVars>>
    /\ UNCHANGED settingsVars

\* onReadyRead takes the next n pieces.
ReadyRead(n) ==
    /\ connected /\ ~Reading /\ ~Complete
    /\ buffer' = buffer \o SubSeq(toClient, 1, n)
    /\ toClient' = SubSeq(toClient, n + 1, Len(toClient))
    /\ UNCHANGED <<connected, connection, boxes, memberVars, toServer, windowVars, settingsVars,
                   serverVars>>

\* parseLogin; onLoginResult starts the heartbeat and sends one at once.
LoginResult(r) ==
    /\ authenticated' = (authenticated \/ r.ok)
    /\ IF r.ok THEN UNCHANGED boxes ELSE Open("warning")
    /\ Send(IF r.ok THEN <<Plain("timer")>> ELSE <<>>)
    /\ UNCHANGED <<logRequested, uploadId, downloadId, saving>>

\* parseFileList: the flag, not the request, says who gets the list.  The log
\* viewer asks for the first file of a list that has one.
FileListResult(r) ==
    /\ logRequested' = FALSE
    /\ \/ logRequested /\ Send(<<Plain("read")>>)
       \/ Send(<<>>)
    /\ UNCHANGED <<authenticated, uploadId, downloadId, saving, boxes>>

\* fileOperationResult shows a message box.
OperationResult(ok) ==
    /\ Open(IF ok THEN "information" ELSE "warning")
    /\ UNCHANGED <<authenticated, logRequested, saving, toServer, lastCmd>>

\* A refusal stores an id that is none.
TransferStart_Bug(r) ==
    /\ IF r.ok THEN OperationResult(TRUE)
       ELSE UNCHANGED <<boxes, authenticated, logRequested, saving, toServer, lastCmd>>
    /\ uploadId' = IF r.ok /\ lastCmd = "upstart" THEN r.id ELSE -1
    /\ UNCHANGED downloadId

\* parseTransferStart: the last command sent says which transfer was accepted.
\* A refusal is shorter than it expects, and ignored.
TransferStart(r) ==
    /\ IF r.ok THEN OperationResult(TRUE)
       ELSE UNCHANGED <<boxes, authenticated, logRequested, saving, toServer, lastCmd>>
    /\ uploadId' = IF r.ok /\ lastCmd = "upstart" THEN r.id ELSE uploadId
    /\ downloadId' = IF r.ok /\ lastCmd = "downstart" THEN r.id ELSE downloadId

\* fileReadResult: a file that could be read is shown by the viewer.
FileReadResult(r) ==
    /\ Open(IF r.ok THEN "viewer" ELSE "warning")
    /\ UNCHANGED <<memberVars, toServer>>

\* processResponse.  No request for download data is ever sent, see StartDownload,
\* so that parseDownloadData is not reached.
ProcessResponse(r) ==
    \/ r.cmd = "login" /\ LoginResult(r)
    \/ r.cmd = "list" /\ FileListResult(r)
    \/ r.cmd \in {"operation", "updata", "upend"} /\ OperationResult(r.ok)
         /\ UNCHANGED <<uploadId, downloadId>>
    \/ r.cmd \in {"upstart", "downstart"} /\ TransferStart(r)
    \/ r.cmd = "read" /\ FileReadResult(r)
    \/ r.cmd = "timer" /\ UNCHANGED <<memberVars, boxes, toServer>>

\* unpackFrame wants one piece more than the response has.
TakeFrame_Bug ==
    /\ Busy /\ Len(buffer) > 2
    /\ buffer' = SubSeq(buffer, 3, Len(buffer))

\* unpackFrame and the removal of the frame from the buffer; a frame that is not
\* complete, or whose checksum is wrong, stays at its head.
TakeFrame ==
    /\ Busy
    /\ buffer' = SubSeq(buffer, 3, Len(buffer))

\* A round of the loop in onReadyRead.
ProcessFrame ==
    /\ TakeFrame
    /\ ProcessResponse(buffer[1][1])
    /\ UNCHANGED <<connected, connection, toClient, windowVars, settingsVars, serverVars>>

-----------------------------------------------------------------------------
(* The windows *)

\* The heartbeat and the system monitor's timer, which run on under a dialog.
Timer ==
    /\ ~Busy
    /\ Asks(<<Plain("timer")>>)
    /\ UNCHANGED <<socketVars, settingsVars, authenticated, logRequested, uploadId, downloadId, saving,
                   windows, reported, toClient, serverVars>>

\* The main window opens the file manager, which loads its list.
OpenFileManager ==
    /\ Idle /\ authenticated /\ ~windows
    /\ windows' = TRUE
    /\ Send(<<Plain("list")>>)
    /\ UNCHANGED <<socketVars, settingsVars, authenticated, logRequested, uploadId, downloadId, saving,
                   requests, reported, toClient, serverVars>>

\* Entering a directory, deleting, renaming or viewing a file.
FileCommand(cmd) ==
    /\ Idle /\ windows
    /\ Asks(<<Plain(cmd)>>)
    /\ UNCHANGED <<socketVars, settingsVars, authenticated, logRequested, uploadId, downloadId, saving,
                   windows, reported, toClient, serverVars>>

\* The log viewer asks for the files in the log directory.
RequestLogFiles ==
    /\ Idle /\ windows
    /\ Asks(<<Plain("list")>>)
    /\ logRequested' = TRUE
    /\ UNCHANGED <<socketVars, settingsVars, authenticated, uploadId, downloadId, saving,
                   windows, reported, toClient, serverVars>>

\* uploadFiles and uploadFileChunked: everything is sent before an answer can be
\* seen, the upload is reported complete, and the list loaded.
UploadFile(n) ==
    /\ Idle /\ windows
    /\ Asks(<<Plain("upstart")>> \o [i \in 1..n |-> Req("updata", uploadId)]
                \o <<Req("upend", uploadId), Plain("list")>>)
    /\ reported' = reported + n
    /\ UNCHANGED <<socketVars, settingsVars, authenticated, logRequested, uploadId, downloadId, saving,
                   windows, toClient, serverVars>>

\* startDownload; the file it saves to is opened now.
StartDownload ==
    /\ Idle /\ windows
    /\ Asks(<<Plain("downstart")>>)
    /\ saving' = TRUE
    /\ UNCHANGED <<socketVars, settingsVars, authenticated, logRequested, uploadId, downloadId,
                   windows, reported, toClient, serverVars>>

\* startDownload cannot open the file; one that was open is closed.
StartDownloadFails ==
    /\ Idle /\ windows
    /\ saving' = FALSE
    /\ UNCHANGED <<socketVars, settingsVars, authenticated, lastCmd, logRequested, uploadId,
                   downloadId, windowVars, networkVars, serverVars>>

-----------------------------------------------------------------------------
(* The server's session: the handlers of handler.c *)

Answer(r, ok, id) ==
    toClient' = toClient \o << <<Reply(r, ok, id), 1>>, <<Reply(r, ok, id), 2>> >>

\* handle_login
ServeLogin(r) ==
    \E ok \in BOOLEAN :
        /\ session' = IF ok THEN "user" ELSE session
        /\ login' = IF ok THEN r.id ELSE login
        /\ Answer(r, ok, 0)
        /\ UNCHANGED <<tasks, nextTaskId, stored>>

\* The START handlers.
ServeStart(r) ==
    IF Cardinality(tasks) < MaxTransfers
    THEN /\ tasks' = tasks \cup {[id |-> nextTaskId, cmd |-> r.cmd]}
         /\ nextTaskId' = nextTaskId + 1
         /\ Answer(r, TRUE, nextTaskId)
         /\ UNCHANGED <<session, login, stored>>
    ELSE Answer(r, FALSE, 0) /\ UNCHANGED serverVars

\* The tasks the id in r finds.
Found(r) == {t \in tasks : t.id = r.id}

ServeUploadData(r) ==
    /\ Answer(r, Found(r) # {}, r.id)
    /\ stored' = IF Found(r) # {} THEN stored + 1 ELSE stored
    /\ UNCHANGED <<session, login, tasks, nextTaskId>>

ServeUploadEnd(r) ==
    /\ Answer(r, Found(r) # {}, r.id)
    /\ tasks' = tasks \ Found(r)
    /\ UNCHANGED <<session, login, nextTaskId, stored>>

\* Any other request succeeds or fails.
ServeOther(r) ==
    /\ \E ok \in (IF r.cmd \in {"list", "timer"} THEN {TRUE} ELSE BOOLEAN) : Answer(r, ok, 0)
    /\ UNCHANGED serverVars

\* A request of a guest other than a login is answered, and ends the session.
Serve ==
    /\ toServer # <<>> /\ session \in {"guest", "user"}
    /\ toServer' = Tail(toServer)
    /\ LET r == Head(toServer)
       IN  IF r.cmd = "login" THEN ServeLogin(r)
           ELSE IF session = "guest" THEN /\ Answer(r, r.cmd = "timer", 0)
                                          /\ session' = "none"
                                          /\ UNCHANGED <<login, tasks, nextTaskId, stored>>
           ELSE IF r.cmd \in {"upstart", "downstart"} THEN ServeStart(r)
           ELSE IF r.cmd = "updata" THEN ServeUploadData(r)
           ELSE IF r.cmd = "upend" THEN ServeUploadEnd(r)
           ELSE ServeOther(r)
    /\ UNCHANGED <<socketVars, settingsVars, memberVars, windowVars>>

\* handle_client ends the session: a receive timeout, a broken frame, a signal.
ServerCloses ==
    /\ session \in {"guest", "user"}
    /\ session' = "none" /\ tasks' = {}
    /\ UNCHANGED <<login, nextTaskId, stored, socketVars, settingsVars, memberVars, windowVars,
                   networkVars>>

-----------------------------------------------------------------------------
UserStep ==
    \/ ShowSettings \/ AcceptSettings \/ ActionDisconnect \/ OpenFileManager \/ CloseBox
    \/ \E cmd \in {"list", "operation", "read"} : FileCommand(cmd)
    \/ RequestLogFiles \/ StartDownload \/ StartDownloadFails
    \/ \E n \in Blocks : UploadFile(n)

Next ==
    \/ UserStep \/ Timer \/ ProcessFrame \/ Serve \/ ServerCloses
    \/ Connected \/ ConnectFails \/ ConnectionLost
    \/ \E n \in 1..Len(toClient) : ReadyRead(n)

Spec == Init /\ [][Next]_vars

(* Fairness: the event loop runs, the network delivers, the server answers, a
   connection the server has closed is seen to be lost, and the user closes
   dialogs.  Nothing is assumed about what the user asks for. *)
FairSpec ==
    /\ Spec
    /\ WF_vars(ProcessFrame) /\ WF_vars(CloseBox) /\ WF_vars(Serve)
    /\ WF_vars(session = "none" /\ ConnectionLost)
    /\ WF_vars(\E n \in 1..Len(toClient) : ReadyRead(n))

-----------------------------------------------------------------------------
(* Properties *)

Commands == {"login", "list", "read", "operation", "upstart", "updata", "upend", "downstart", "timer"}
Requests == [cmd : Commands, id : Nat]
Pieces   == [cmd : Commands, ok : BOOLEAN, id : Nat, on : Nat] \X {1, 2}

\* Every variable has its type.
TypeOK ==
    /\ connected \in BOOLEAN /\ connection \in 0..MaxEntered
    /\ authenticated \in BOOLEAN /\ lastCmd \in Commands \cup {"none"}
    /\ logRequested \in BOOLEAN /\ uploadId \in Nat /\ downloadId \in Nat /\ saving \in BOOLEAN
    /\ connecting \in BOOLEAN /\ entered \in 0..MaxEntered /\ logins \in Seq(0..MaxEntered)
    /\ buffer \in Seq(Pieces)
    /\ boxes \in Seq({"settings", "critical", "information", "warning", "viewer"})
    /\ windows \in BOOLEAN /\ requests \in 0..MaxRequests /\ reported \in Nat
    /\ toServer \in Seq(Requests) /\ toClient \in Seq(Pieces)
    /\ session \in {"none", "guest", "user"} /\ login \in 0..MaxEntered
    /\ nextTaskId \in Nat \ {0} /\ stored \in Nat
    /\ tasks \subseteq [id : 1..nextTaskId - 1, cmd : {"upstart", "downstart"}]

\* The client never takes itself for logged in on a connection whose session still
\* is a guest's, nor without a connection, whatever was lost, closed or read late: as
\* long as no connection has sent two passwords.  Then a box about the first answer may
\* be open when the connection is lost, and the second is read when it is closed.
Piled == entered - Len(logins) > connection
AuthAgrees == authenticated /\ ~Piled => connected /\ session # "guest"

\* The password that logged a session in was entered since the connection before this
\* one was made: the handlers that failed connections leave behind run once, on the
\* next connection, and never again.
LoggedInAsEntered == session = "user" => login = connection - 1

\* A response is processed only on the connection that its request was made on.
OwnAnswers ==
    [][Complete /\ buffer' = SubSeq(buffer, 3, Len(buffer))
        => buffer[1][1].on = connection]_vars

\* What has been read is processed, as long as the connection lasts: the first one,
\* that is; a later one may begin behind half a response left in the buffer.
BufferDrains == buffer # <<>> /\ connection = 1 ~> buffer = <<>> \/ ~connected

\* When everything has been answered, the server has stored what was reported as
\* uploaded (design document, lines 423-435).
Quiet == connected /\ toServer = <<>> /\ toClient = <<>> /\ buffer = <<>> /\ boxes = <<>>
UploadStored == Quiet => stored = reported
=============================================================================
