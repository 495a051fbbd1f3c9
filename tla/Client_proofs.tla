---------------------------- MODULE Client_proofs ----------------------------
(***************************************************************************)
(* Theorems about the client, for any number of transfers, passwords and   *)
(* requests.                                                               *)
(***************************************************************************)
EXTENDS Client, TLAPS, SequenceTheorems

-----------------------------------------------------------------------------
(* The invariant *)

Boxes == {"settings", "critical", "information", "warning", "viewer"}

\* A dialog of this kind is open.
Shown(b) == \E i \in DOMAIN boxes : boxes[i] = b

\* Every connection was made for a password of its own at least, and those that wait
\* for the next one were entered since the last.
Counted ==
    /\ connection <= entered - Len(logins)
    /\ \A i \in DOMAIN logins : logins[i] = connection

\* Who looks for the server has no slot waiting and nothing left to process.
Looking ==
    connecting => /\ ~connected /\ ~Complete /\ logins # <<>>
                  /\ boxes = <<>> \/ boxes = <<"settings">>

\* Without a connection nothing travels, and there is no session; the box about a
\* lost one comes after all that.
NothingLeft ==
    /\ ~connected => session = "none" /\ toServer = <<>> /\ toClient = <<>>
    /\ connected /\ Shown("critical") =>
          session = "none" /\ toClient = <<>>

\* The settings dialog opens from the main window, under every other box.
SettingsLast == \A i \in DOMAIN boxes : boxes[i] = "settings" => i = Len(boxes)

\* The logins on their way were entered for this connection.
OwnLogins == \A i \in DOMAIN toServer : toServer[i].cmd = "login" => toServer[i].id = connection - 1

\* What is in the receive buffer is of this connection, or begins with half a response
\* of an earlier one, behind which nothing is recognised.
Own == \A i \in DOMAIN buffer : buffer[i][1].on = connection
BufferOwn ==
    /\ \A i \in DOMAIN toClient : toClient[i][1].on = connection
    /\ \A i \in DOMAIN buffer : buffer[i][1].on <= connection
    /\ Own \/ (buffer # <<>> /\ ~Complete /\ buffer[1][1].on # connection)

\* The answer to the login is the first on a connection that has only one: until it is
\* processed, no dialog of a slot is open, the client is not logged in, and once it can
\* be processed the connection is not lost before it is.
LoginPending == ~authenticated /\ ~Reading
LoginFirst ==
    /\ \A i \in DOMAIN toServer : toServer[i].cmd = "login" =>
          i = 1 /\ toClient = <<>> /\ (Own => buffer = <<>>) /\ LoginPending
    /\ Own =>
          /\ \A i \in DOMAIN buffer : buffer[i][1].cmd = "login" =>
                i <= 2 /\ LoginPending /\ (buffer[i][1].ok => session # "guest")
          /\ \A i \in DOMAIN toClient : toClient[i][1].cmd = "login" =>
                Len(buffer) + i <= 2 /\ LoginPending /\ (toClient[i][1].ok => session # "guest")
    /\ ~Own => ~authenticated
    /\ Own /\ Complete /\ buffer[1][1].cmd = "login" =>
          connected /\ ~Shown("critical")

IInv == TypeOK /\ Counted /\ Looking /\ NothingLeft /\ SettingsLast /\ OwnLogins /\ BufferOwn
             /\ (~Piled => LoginFirst) /\ AuthAgrees /\ LoggedInAsEntered

-----------------------------------------------------------------------------
(* Sequences *)

\* What is put before a sequence, taken from its front, and cut out of it.
LEMMA PutBefore ==
  ASSUME NEW S, NEW q \in Seq(S), NEW x \in S
  PROVE  /\ <<x>> \o q \in Seq(S) /\ Len(<<x>> \o q) = Len(q) + 1 /\ <<x>> \o q # <<>>
         /\ (<<x>> \o q)[1] = x
         /\ \A i \in DOMAIN q : i + 1 \in DOMAIN (<<x>> \o q) /\ (<<x>> \o q)[i + 1] = q[i]
         /\ \A i \in DOMAIN (<<x>> \o q) :
               i = 1 \/ (i - 1 \in DOMAIN q /\ (<<x>> \o q)[i] = q[i - 1])
<1>. DEFINE r == <<x>> \o q
<1>1. <<x>> \in Seq(S) /\ Len(<<x>>) = 1 /\ <<x>>[1] = x /\ Len(q) \in Nat /\ DOMAIN q = 1 .. Len(q)
  OBVIOUS
<1>2. /\ r \in Seq(S) /\ Len(r) = 1 + Len(q)
      /\ \A i \in 1 .. 1 + Len(q) : r[i] = IF i <= 1 THEN <<x>>[i] ELSE q[i - 1]
  BY <1>1, ConcatProperties
<1>. HIDE DEF r
<1>3. DOMAIN r = 1 .. Len(q) + 1 /\ r # <<>>
  BY <1>1, <1>2
<1>4. \A i \in 1 .. Len(q) + 1 : r[i] = IF i = 1 THEN x ELSE q[i - 1]
  BY <1>1, <1>2
<1>. QED
  BY <1>1, <1>2, <1>3, <1>4 DEF r

LEMMA TailOf ==
  ASSUME NEW S, NEW q \in Seq(S), q # <<>>
  PROVE  /\ Tail(q) \in Seq(S) /\ Len(Tail(q)) = Len(q) - 1 /\ Len(q) \in Nat \ {0}
         /\ 1 \in DOMAIN q /\ Head(q) = q[1] /\ q[1] \in S
         /\ \A i \in DOMAIN Tail(q) : i \in Nat \ {0} /\ i + 1 \in DOMAIN q /\ Tail(q)[i] = q[i + 1]
<1>1. Len(q) \in Nat \ {0} /\ DOMAIN q = 1 .. Len(q)
  BY EmptySeq
<1>2. /\ Tail(q) \in Seq(S) /\ Len(Tail(q)) = Len(q) - 1
      /\ \A i \in 1 .. Len(q) - 1 : Tail(q)[i] = q[i + 1]
  BY HeadTailProperties
<1>3. DOMAIN Tail(q) = 1 .. Len(q) - 1
  BY <1>1, <1>2
<1>. QED
  BY <1>1, <1>2, <1>3

LEMMA CutOut ==
  ASSUME NEW S, NEW q \in Seq(S), NEW a \in Nat \ {0}, NEW b \in Nat, b <= Len(q), a <= b + 1
  PROVE  /\ SubSeq(q, a, b) \in Seq(S) /\ Len(SubSeq(q, a, b)) = b - a + 1
         /\ \A i \in 1 .. b - a + 1 : SubSeq(q, a, b)[i] = q[a + i - 1]
<1>1. Len(q) \in Nat /\ DOMAIN q = 1 .. Len(q) /\ \A i \in 1 .. Len(q) : q[i] \in S
  OBVIOUS
<1>. DEFINE m == b - a + 1
            r == [i \in 1 .. m |-> q[a + i - 1]]
<1>2. m \in Nat /\ SubSeq(q, a, b) = r
  BY <1>1
<1>3. \A i \in 1 .. m : q[a + i - 1] \in S
  BY <1>1
<1>. HIDE DEF m
<1>4. r \in Seq(S) /\ Len(r) = m
  BY <1>2, <1>3
<1>. QED
  BY <1>2, <1>4 DEF m

LEMMA AfterTwo ==
  ASSUME NEW S, NEW q \in Seq(S), Len(q) >= 2
  PROVE  /\ SubSeq(q, 3, Len(q)) \in Seq(S) /\ Len(SubSeq(q, 3, Len(q))) = Len(q) - 2
         /\ \A i \in 1 .. Len(q) - 2 : SubSeq(q, 3, Len(q))[i] = q[i + 2]
<1>1. SUFFICES ASSUME NEW a \in Nat \ {0}, a = 3
               PROVE  /\ SubSeq(q, a, Len(q)) \in Seq(S) /\ Len(SubSeq(q, a, Len(q))) = Len(q) - 2
                      /\ \A i \in 1 .. Len(q) - 2 : SubSeq(q, a, Len(q))[i] = q[i + 2]
  OBVIOUS
<1>2. Len(q) \in Nat /\ Len(q) <= Len(q) /\ a <= Len(q) + 1
  BY <1>1
<1>3. /\ SubSeq(q, a, Len(q)) \in Seq(S) /\ Len(SubSeq(q, a, Len(q))) = Len(q) - a + 1
      /\ \A i \in 1 .. Len(q) - a + 1 : SubSeq(q, a, Len(q))[i] = q[a + i - 1]
  BY <1>2, CutOut
<1>4. Len(q) - a + 1 = Len(q) - 2 /\ \A i \in 1 .. Len(q) - 2 : a + i - 1 = i + 2
  BY <1>1, <1>2
<1>. QED
  BY <1>3, <1>4

LEMMA Joined ==
  ASSUME NEW S, NEW a \in Seq(S), NEW b \in Seq(S)
  PROVE  /\ a \o b \in Seq(S) /\ Len(a \o b) = Len(a) + Len(b)
         /\ \A i \in DOMAIN a : i \in DOMAIN (a \o b) /\ (a \o b)[i] = a[i]
         /\ \A i \in DOMAIN (a \o b) :
               \/ i \in DOMAIN a /\ (a \o b)[i] = a[i]
               \/ i - Len(a) \in DOMAIN b /\ (a \o b)[i] = b[i - Len(a)]
<1>. DEFINE r == a \o b
<1>1. Len(a) \in Nat /\ Len(b) \in Nat /\ DOMAIN a = 1 .. Len(a) /\ DOMAIN b = 1 .. Len(b)
  OBVIOUS
<1>2. /\ r \in Seq(S) /\ Len(r) = Len(a) + Len(b)
      /\ \A i \in 1 .. Len(a) + Len(b) : r[i] = IF i <= Len(a) THEN a[i] ELSE b[i - Len(a)]
  BY ConcatProperties
<1>. HIDE DEF r
<1>3. DOMAIN r = 1 .. Len(a) + Len(b)
  BY <1>1, <1>2
<1>4. \A i \in DOMAIN a : i \in DOMAIN r /\ r[i] = a[i]
  BY <1>1, <1>2, <1>3
<1>5. ASSUME NEW i \in DOMAIN r, i \notin DOMAIN a PROVE i - Len(a) \in DOMAIN b /\ r[i] = b[i - Len(a)]
  <2>1. i \in 1 .. Len(a) + Len(b) /\ ~(i <= Len(a))
    BY <1>1, <1>3, <1>5
  <2>. QED
    BY <1>1, <1>2, <2>1
<1>. QED
  BY <1>2, <1>4, <1>5 DEF r

-----------------------------------------------------------------------------
(* Dialogs and requests *)

LEMMA ReadingShown ==
  ASSUME TypeOK
  PROVE  Reading <=> Shown("information") \/ Shown("warning") \/ Shown("viewer")
<1>1. DOMAIN boxes = 1 .. Len(boxes)
  BY DEF TypeOK
<1>. QED
  BY <1>1 DEF Reading, Shown

\* A dialog opens on top of the others.
LEMMA Opens ==
  ASSUME TypeOK, SettingsLast, NEW box \in Boxes, Open(box), box = "settings" => boxes = <<>>
  PROVE  /\ boxes' \in Seq(Boxes) /\ SettingsLast'
         /\ \A b \in Boxes : Shown(b)' => Shown(b) \/ b = box
<1>1. boxes \in Seq(Boxes) /\ Len(boxes) \in Nat /\ boxes' = <<box>> \o boxes
  BY DEF TypeOK, Boxes, Open
<1>2. /\ boxes' \in Seq(Boxes) /\ Len(boxes') = Len(boxes) + 1 /\ boxes'[1] = box
      /\ \A i \in DOMAIN boxes' : i = 1 \/ (i - 1 \in DOMAIN boxes /\ boxes'[i] = boxes[i - 1])
  BY <1>1, PutBefore
<1>3. SettingsLast'
  <2>1. SUFFICES ASSUME NEW i \in DOMAIN boxes', boxes'[i] = "settings" PROVE i = Len(boxes')
    BY DEF SettingsLast
  <2>2. CASE i = 1
    <3>1. Len(<<>>) = 0
      OBVIOUS
    <3>. QED
      BY <1>2, <2>1, <2>2, <3>1
  <2>3. CASE i # 1
    <3>1. i - 1 = Len(boxes) /\ i \in Int
      BY <1>2, <2>1, <2>3 DEF SettingsLast
    <3>. QED
      BY <1>1, <1>2, <3>1
  <2>. QED
    BY <2>2, <2>3
<1>4. \A b \in Boxes : Shown(b)' => Shown(b) \/ b = box
  BY <1>2 DEF Shown
<1>. QED
  BY <1>2, <1>3, <1>4

\* The dialog on top is closed.
LEMMA Closes ==
  ASSUME TypeOK, SettingsLast, boxes # <<>>, boxes' = Tail(boxes)
  PROVE  /\ boxes' \in Seq(Boxes) /\ SettingsLast'
         /\ \A b \in Boxes : Shown(b)' => Shown(b)
         /\ Shown(Head(boxes)) /\ Head(boxes) \in Boxes
         /\ Head(boxes) = "settings" => boxes' = <<>> /\ ~Reading
<1>1. boxes \in Seq(Boxes)
  BY DEF TypeOK, Boxes
<1>2. /\ boxes' \in Seq(Boxes) /\ Len(boxes') = Len(boxes) - 1 /\ Len(boxes) \in Nat \ {0}
      /\ 1 \in DOMAIN boxes /\ Head(boxes) = boxes[1] /\ boxes[1] \in Boxes
      /\ \A i \in DOMAIN boxes' : i \in Nat \ {0} /\ i + 1 \in DOMAIN boxes /\ boxes'[i] = boxes[i + 1]
  BY <1>1, TailOf
<1>3. SettingsLast'
  <2>1. SUFFICES ASSUME NEW i \in DOMAIN boxes', boxes'[i] = "settings" PROVE i = Len(boxes')
    BY DEF SettingsLast
  <2>2. i + 1 = Len(boxes) /\ i \in Nat
    BY <1>2, <2>1 DEF SettingsLast
  <2>. QED
    BY <1>2, <2>2
<1>4. \A b \in Boxes : Shown(b)' => Shown(b)
  BY <1>2 DEF Shown
<1>5. ASSUME Head(boxes) = "settings" PROVE boxes' = <<>> /\ ~Reading
  <2>1. Len(boxes) = 1
    BY <1>2, <1>5 DEF SettingsLast
  <2>2. Len(boxes') = 0
    BY <1>2, <2>1
  <2>. QED
    BY <1>2, <1>5, <2>1, <2>2, EmptySeq DEF Reading
<1>. QED
  BY <1>2, <1>3, <1>4, <1>5 DEF Shown

\* sendFrame adds requests that are no logins, if there is a connection.
Sent ==
    /\ toServer' \in Seq(Requests) /\ lastCmd' \in Commands \cup {"none"}
    /\ ~connected => UNCHANGED toServer
    /\ \A i \in DOMAIN toServer' : toServer'[i].cmd = "login" =>
          i \in DOMAIN toServer /\ toServer'[i] = toServer[i]

Harmless(rs) == rs \in Seq(Requests) /\ \A i \in DOMAIN rs : rs[i].cmd # "login"

LEMMA SendSends ==
  ASSUME TypeOK, NEW rs, Harmless(rs), Send(rs)
  PROVE  Sent
<1>1. toServer \in Seq(Requests) /\ lastCmd \in Commands \cup {"none"}
  BY DEF TypeOK
<1>2. CASE connected /\ rs # <<>>
  <2>1. toServer' = toServer \o rs /\ lastCmd' = Last(rs).cmd
    BY <1>2 DEF Send
  <2>2. Len(rs) \in DOMAIN rs /\ Last(rs) = rs[Len(rs)]
    BY <1>2, EmptySeq DEF Harmless, Last
  <2>3. Last(rs) \in Requests
    BY <2>2 DEF Harmless
  <2>4. lastCmd' \in Commands
    BY <2>1, <2>3 DEF Requests
  <2>5. /\ toServer' \in Seq(Requests)
        /\ \A i \in DOMAIN toServer' :
              \/ i \in DOMAIN toServer /\ toServer'[i] = toServer[i]
              \/ i - Len(toServer) \in DOMAIN rs /\ toServer'[i] = rs[i - Len(toServer)]
    BY <1>1, <2>1, Joined DEF Harmless
  <2>. QED
    BY <1>2, <2>4, <2>5 DEF Sent, Harmless
<1>3. CASE ~(connected /\ rs # <<>>)
  BY <1>1, <1>3 DEF Send, Sent
<1>. QED
  BY <1>2, <1>3

LEMMA PlainHarmless ==
  ASSUME NEW cmd \in Commands \ {"login"}
  PROVE  Harmless(<<Plain(cmd)>>) /\ Harmless(<<>>)
<1>1. Plain(cmd) \in Requests /\ Plain(cmd).cmd = cmd
  BY DEF Plain, Req, Requests
<1>2. /\ <<Plain(cmd)>> \in Seq(Requests) /\ DOMAIN <<Plain(cmd)>> = {1}
      /\ <<Plain(cmd)>>[1] = Plain(cmd)
  BY <1>1
<1>3. <<>> \in Seq(Requests) /\ DOMAIN <<>> = {}
  OBVIOUS
<1>. QED
  BY <1>1, <1>2, <1>3 DEF Harmless

LEMMA UploadHarmless ==
  ASSUME uploadId \in Nat, NEW n \in Nat
  PROVE  Harmless(<<Plain("upstart")>> \o [i \in 1..n |-> Req("updata", uploadId)]
                    \o <<Req("upend", uploadId), Plain("list")>>)
<1>. DEFINE a == <<Plain("upstart")>>
            b == [i \in 1..n |-> Req("updata", uploadId)]
            c == <<Req("upend", uploadId), Plain("list")>>
<1>1. /\ Plain("upstart") \in Requests /\ Req("updata", uploadId) \in Requests
      /\ Req("upend", uploadId) \in Requests /\ Plain("list") \in Requests
      /\ Req("updata", uploadId).cmd = "updata" /\ Plain("upstart").cmd = "upstart"
      /\ Req("upend", uploadId).cmd = "upend" /\ Plain("list").cmd = "list"
  BY DEF Plain, Req, Requests, Commands
<1>2. Harmless(a)
  BY PlainHarmless DEF Commands
<1>3. Harmless(b)
  <2>1. b \in Seq(Requests) /\ DOMAIN b = 1 .. n
    BY <1>1
  <2>. QED
    BY <1>1, <2>1 DEF Harmless
<1>4. Harmless(c)
  <2>1. c \in Seq(Requests) /\ DOMAIN c = {1, 2}
    BY <1>1
  <2>. QED
    BY <1>1, <2>1 DEF Harmless
<1>. HIDE DEF a, b, c
<1>5. ASSUME NEW x, NEW y, Harmless(x), Harmless(y) PROVE Harmless(x \o y)
  <2>1. /\ x \o y \in Seq(Requests)
        /\ \A i \in DOMAIN (x \o y) :
               \/ i \in DOMAIN x /\ (x \o y)[i] = x[i]
               \/ i - Len(x) \in DOMAIN y /\ (x \o y)[i] = y[i - Len(x)]
    BY <1>5, Joined DEF Harmless
  <2>. QED
    BY <1>5, <2>1 DEF Harmless
<1>6. Harmless(a \o b)
  BY <1>2, <1>3, <1>5
<1>7. Harmless((a \o b) \o c)
  BY <1>4, <1>5, <1>6
<1>. QED
  BY <1>7 DEF a, b, c

-----------------------------------------------------------------------------
(* Steps that leave connection, receive buffer and session alone *)

Steady == UNCHANGED <<connected, connection, buffer, authenticated, toClient, settingsVars, serverVars>>

\* No box of a slot opens, nor that about a lost connection.
Calm ==
    /\ SettingsLast' /\ (Reading' => Reading) /\ (Shown("critical")' => Shown("critical"))
    /\ connecting => boxes' = <<>> \/ boxes' = <<"settings">>

LEMMA SteadyKeeps ==
  ASSUME IInv, Steady, Calm, Sent, TypeOK'
  PROVE  IInv'
<1>1. /\ TypeOK /\ Counted /\ Looking /\ NothingLeft /\ OwnLogins /\ BufferOwn
      /\ AuthAgrees /\ LoggedInAsEntered /\ (~Piled => LoginFirst)
  BY DEF IInv
<1>2. /\ connected' = connected /\ connection' = connection /\ buffer' = buffer
      /\ authenticated' = authenticated /\ toClient' = toClient /\ connecting' = connecting
      /\ logins' = logins /\ entered' = entered /\ session' = session /\ login' = login
  BY DEF Steady, settingsVars, serverVars
<1>3. Counted'
  BY <1>1, <1>2 DEF Counted
<1>4. Looking'
  BY <1>1, <1>2 DEF Looking, Complete, Calm
<1>5. NothingLeft'
  BY <1>1, <1>2 DEF NothingLeft, Sent, Calm
<1>6. OwnLogins'
  BY <1>1, <1>2 DEF OwnLogins, Sent
<1>7. BufferOwn'
  BY <1>1, <1>2 DEF BufferOwn, Own, Complete
<1>8. ASSUME ~Piled' PROVE LoginFirst'
  <2>1. LoginFirst
    BY <1>1, <1>2, <1>8 DEF Piled
  <2>2. (Own' <=> Own) /\ (Complete' <=> Complete) /\ (LoginPending => LoginPending')
    BY <1>2 DEF Own, Complete, LoginPending, Calm
  <2>3. \A i \in DOMAIN toServer' : toServer'[i].cmd = "login" =>
          i = 1 /\ toClient' = <<>> /\ (Own' => buffer' = <<>>) /\ LoginPending'
    BY <1>2, <2>1, <2>2 DEF LoginFirst, Sent
  <2>4. Own' =>
          /\ \A i \in DOMAIN buffer' : buffer'[i][1].cmd = "login" =>
                i <= 2 /\ LoginPending' /\ (buffer'[i][1].ok => session' # "guest")
          /\ \A i \in DOMAIN toClient' : toClient'[i][1].cmd = "login" =>
                Len(buffer') + i <= 2 /\ LoginPending' /\ (toClient'[i][1].ok => session' # "guest")
    BY <1>2, <2>1, <2>2 DEF LoginFirst
  <2>5. (~Own' => ~authenticated') /\ (Own' /\ Complete' /\ buffer'[1][1].cmd = "login" =>
          connected' /\ ~Shown("critical")')
    BY <1>2, <2>1, <2>2 DEF LoginFirst, Calm
  <2>. QED
    BY <2>3, <2>4, <2>5 DEF LoginFirst
<1>9. AuthAgrees' /\ LoggedInAsEntered'
  BY <1>1, <1>2 DEF AuthAgrees, Piled, LoggedInAsEntered
<1>. QED
  BY <1>3, <1>4, <1>5, <1>6, <1>7, <1>8, <1>9 DEF IInv, Calm

\* Where the dialogs stay as they are.
LEMMA SameBoxes ==
  ASSUME IInv, UNCHANGED boxes
  PROVE  Calm
BY DEF Calm, IInv, Looking, SettingsLast, Reading, Shown

\* The user's and the timers' requests send no password.
LEMMA RequestKeeps ==
  ASSUME IInv,
         \/ Timer \/ OpenFileManager \/ RequestLogFiles \/ StartDownload \/ StartDownloadFails
         \/ \E cmd \in {"list", "operation", "read"} : FileCommand(cmd)
         \/ \E n \in Blocks : UploadFile(n)
  PROVE  IInv'
<1>1. TypeOK
  BY DEF IInv
<1>2. Harmless(<<Plain("timer")>>) /\ Harmless(<<Plain("list")>>) /\ Harmless(<<Plain("downstart")>>)
      /\ Harmless(<<Plain("operation")>>) /\ Harmless(<<Plain("read")>>)
  BY PlainHarmless DEF Commands
<1>3. Steady /\ UNCHANGED boxes
  BY DEF Steady, Timer, OpenFileManager, RequestLogFiles, StartDownload, StartDownloadFails,
         FileCommand, UploadFile, socketVars, networkVars, serverVars, settingsVars
<1>4. Sent
  <2>1. CASE Timer
    BY <1>1, <1>2, <2>1, SendSends DEF Timer, Asks
  <2>2. CASE OpenFileManager
    BY <1>1, <1>2, <2>2, SendSends DEF OpenFileManager
  <2>3. CASE RequestLogFiles
    BY <1>1, <1>2, <2>3, SendSends DEF RequestLogFiles, Asks
  <2>4. CASE StartDownload
    BY <1>1, <1>2, <2>4, SendSends DEF StartDownload, Asks
  <2>5. CASE StartDownloadFails
    <3>1. UNCHANGED <<toServer, lastCmd>>
      BY <2>5 DEF StartDownloadFails, networkVars
    <3>. QED
      BY <1>1, <3>1 DEF Sent, TypeOK
  <2>6. ASSUME NEW cmd \in {"list", "operation", "read"}, FileCommand(cmd) PROVE Sent
    BY <1>1, <1>2, <2>6, SendSends DEF FileCommand, Asks
  <2>7. ASSUME NEW n \in Blocks, UploadFile(n) PROVE Sent
    <3>1. n \in Nat /\ uploadId \in Nat
      BY <1>1, ClientAssumption DEF TypeOK
    <3>2. Harmless(<<Plain("upstart")>> \o [i \in 1..n |-> Req("updata", uploadId)]
                      \o <<Req("upend", uploadId), Plain("list")>>)
      BY <3>1, UploadHarmless
    <3>. QED
      BY <1>1, <2>7, <3>2, SendSends DEF UploadFile, Asks
  <2>. QED
    BY <2>1, <2>2, <2>3, <2>4, <2>5, <2>6, <2>7
<1>5. /\ uploadId' = uploadId /\ downloadId' = downloadId
      /\ logRequested' \in BOOLEAN /\ saving' \in BOOLEAN /\ windows' \in BOOLEAN
  BY <1>1 DEF TypeOK, Timer, OpenFileManager, RequestLogFiles, StartDownload, StartDownloadFails,
         FileCommand, UploadFile, windowVars
<1>6. requests' \in 0..MaxRequests
  <2>1. requests' = requests \/ (requests < MaxRequests /\ requests' = requests + 1)
    BY Zenon DEF Timer, OpenFileManager, RequestLogFiles, StartDownload, StartDownloadFails,
           FileCommand, UploadFile, windowVars, Asks
  <2>. QED
    BY <1>1, <2>1, ClientAssumption DEF TypeOK
<1>7. reported' \in Nat
  <2>1. reported' = reported \/ \E n \in Blocks : reported' = reported + n
    BY Zenon DEF Timer, OpenFileManager, RequestLogFiles, StartDownload, StartDownloadFails,
           FileCommand, UploadFile, windowVars
  <2>. QED
    BY <1>1, <2>1, ClientAssumption DEF TypeOK
<1>8. TypeOK'
  BY <1>1, <1>3, <1>4, <1>5, <1>6, <1>7 DEF TypeOK, Steady, Sent, settingsVars, serverVars
<1>9. Calm
  BY <1>3, SameBoxes
<1>. QED
  BY <1>3, <1>4, <1>8, <1>9, SteadyKeeps

-----------------------------------------------------------------------------
(* The user's dialogs, and connections that end *)

\* disconnect() empties everything.
LEMMA DisconnectKeeps ==
  ASSUME IInv, connected, boxes = <<>>, Disconnect, UNCHANGED settingsVars,
         boxes' = <<>> \/ boxes' = <<"settings">>
  PROVE  IInv'
<1>1. TypeOK /\ Counted /\ Looking /\ NothingLeft
  BY DEF IInv
<1>2. /\ connected' = FALSE /\ session' = "none" /\ tasks' = {} /\ toServer' = <<>> /\ toClient' = <<>>
      /\ connection' = connection /\ login' = login /\ nextTaskId' = nextTaskId /\ stored' = stored
      /\ authenticated' = FALSE /\ buffer' = <<>> /\ UNCHANGED <<lastCmd, logRequested, uploadId,
            downloadId, saving, windows, requests, reported, connecting, logins, entered>>
  BY DEF Disconnect, HangUp, settingsVars, windowVars
<1>3. /\ <<>> \in Seq(Requests) /\ <<>> \in Seq(Pieces) /\ DOMAIN <<>> = {} /\ Len(<<>>) = 0
      /\ boxes' \in Seq(Boxes) /\ (boxes' = <<"settings">> => DOMAIN boxes' = {1} /\ Len(boxes') = 1)
  <2>1. <<"settings">> \in Seq(Boxes) /\ <<>> \in Seq(Boxes)
    BY DEF Boxes
  <2>2. DOMAIN <<"settings">> = {1} /\ Len(<<"settings">>) = 1
    OBVIOUS
  <2>3. <<>> \in Seq(Requests) /\ <<>> \in Seq(Pieces) /\ DOMAIN <<>> = {} /\ Len(<<>>) = 0
    OBVIOUS
  <2>. QED
    BY <2>1, <2>2, <2>3, Zenon
<1>4. TypeOK'
  BY <1>1, <1>2, <1>3 DEF TypeOK, Boxes
<1>5. Counted' /\ NothingLeft' /\ OwnLogins' /\ BufferOwn' /\ AuthAgrees' /\ LoggedInAsEntered'
  BY <1>1, <1>2, <1>3 DEF Counted, NothingLeft, OwnLogins, BufferOwn, Own, AuthAgrees, LoggedInAsEntered
<1>6. Looking'
  BY <1>1, <1>2 DEF Looking
<1>7. SettingsLast'
  BY <1>3 DEF SettingsLast
<1>8. LoginFirst'
  BY <1>2, <1>3 DEF LoginFirst, Own, Complete
<1>. QED
  BY <1>4, <1>5, <1>6, <1>7, <1>8 DEF IInv

LEMMA ActionDisconnectKeeps ==
  ASSUME IInv, ActionDisconnect
  PROVE  IInv'
BY DisconnectKeeps DEF ActionDisconnect, Idle

LEMMA ShowSettingsKeeps ==
  ASSUME IInv, ShowSettings
  PROVE  IInv'
<1>1. boxes = <<>> /\ boxes' = <<"settings">> /\ UNCHANGED settingsVars
  BY DEF ShowSettings, Idle, Open
<1>2. CASE connected
  BY <1>1, <1>2, DisconnectKeeps DEF ShowSettings
<1>3. CASE ~connected
  <2>1. UNCHANGED <<connected, connection, buffer, memberVars, windowVars, networkVars, serverVars>>
    BY <1>3 DEF ShowSettings
  <2>2. Steady /\ UNCHANGED <<toServer, lastCmd>>
    BY <1>1, <2>1 DEF Steady, memberVars, networkVars
  <2>3. boxes' \in Seq(Boxes) /\ DOMAIN boxes' = {1} /\ Len(boxes') = 1 /\ boxes'[1] = "settings"
    BY <1>1 DEF Boxes
  <2>4. Calm
    BY <1>1, <2>3 DEF Calm, SettingsLast, Reading, Shown
  <2>5. TypeOK /\ Sent
    BY <2>2 DEF IInv, TypeOK, Sent
  <2>6. TypeOK'
    BY <1>1, <2>1, <2>3, <2>5 DEF TypeOK, Boxes, memberVars, networkVars, windowVars, settingsVars,
                                   serverVars
  <2>. QED
    BY <2>2, <2>4, <2>5, <2>6, SteadyKeeps
<1>. QED
  BY <1>2, <1>3

LEMMA AcceptSettingsKeeps ==
  ASSUME IInv, AcceptSettings
  PROVE  IInv'
<1>1. /\ TypeOK /\ Counted /\ NothingLeft /\ SettingsLast /\ OwnLogins /\ BufferOwn
      /\ AuthAgrees /\ LoggedInAsEntered /\ (~Piled => LoginFirst)
  BY DEF IInv
<1>2. boxes # <<>> /\ Head(boxes) = "settings" /\ ~Busy /\ entered < MaxEntered /\ boxes' = Tail(boxes)
      /\ connecting' = ~connected /\ logins' = Append(logins, connection) /\ entered' = entered + 1
  BY DEF AcceptSettings
<1>3. UNCHANGED <<connected, connection, buffer, authenticated, lastCmd, logRequested, uploadId,
                  downloadId, saving, windows, requests, reported, toServer, toClient, session, login,
                  tasks, nextTaskId, stored>>
  BY DEF AcceptSettings, memberVars, windowVars, networkVars, serverVars
<1>4. boxes' = <<>> /\ ~Reading /\ SettingsLast' /\ boxes' \in Seq(Boxes)
  BY <1>1, <1>2, Closes
<1>5. ~Complete /\ ~Complete'
  BY <1>2, <1>3, <1>4 DEF Busy, Complete
<1>6. Len(<<>>) = 0 /\ DOMAIN <<>> = {} /\ ~Reading' /\ ~Shown("critical")'
  BY <1>4 DEF Reading, Shown
<1>7. /\ entered \in Nat /\ entered + 1 \in 0..MaxEntered /\ connection \in 0..MaxEntered
      /\ logins \in Seq(0..MaxEntered) /\ connected \in BOOLEAN
  BY <1>1, <1>2, ClientAssumption DEF TypeOK
<1>8. /\ logins' \in Seq(0..MaxEntered) /\ Len(logins') = Len(logins) + 1 /\ Len(logins) \in Nat
      /\ logins' # <<>> /\ \A i \in DOMAIN logins' :
            logins'[i] = connection \/ (i \in DOMAIN logins /\ logins'[i] = logins[i])
  BY <1>2, <1>7, AppendProperties
<1>9. TypeOK'
  BY <1>1, <1>2, <1>3, <1>4, <1>7, <1>8 DEF TypeOK, Boxes
<1>10. Counted'
  <2>1. \A i \in DOMAIN logins' : logins'[i] = connection'
    BY <1>1, <1>3, <1>8 DEF Counted
  <2>2. connection' <= entered' - Len(logins')
    BY <1>1, <1>2, <1>3, <1>7, <1>8 DEF Counted
  <2>. QED
    BY <2>1, <2>2 DEF Counted
<1>11. Looking' /\ NothingLeft' /\ OwnLogins' /\ LoggedInAsEntered'
  BY <1>1, <1>2, <1>3, <1>4, <1>5, <1>6, <1>8 DEF Looking, NothingLeft, OwnLogins, LoggedInAsEntered
<1>12. BufferOwn' /\ (Own' <=> Own)
  BY <1>1, <1>3, <1>5 DEF BufferOwn, Own
<1>13. Piled' <=> Piled
  <2>1. entered' - Len(logins') = entered - Len(logins)
    BY <1>2, <1>7, <1>8
  <2>. QED
    BY <1>3, <2>1 DEF Piled
<1>14. AuthAgrees'
  BY <1>1, <1>3, <1>13 DEF AuthAgrees
<1>15. ASSUME LoginFirst PROVE LoginFirst'
  <2>1. LoginPending => LoginPending'
    BY <1>3, <1>6 DEF LoginPending
  <2>. QED
    BY <1>3, <1>5, <1>12, <1>15, <2>1 DEF LoginFirst
<1>. QED
  BY <1>1, <1>4, <1>9, <1>10, <1>11, <1>12, <1>13, <1>14, <1>15 DEF IInv

LEMMA CloseBoxKeeps ==
  ASSUME IInv, CloseBox
  PROVE  IInv'
<1>1. /\ TypeOK /\ Counted /\ Looking /\ NothingLeft /\ SettingsLast /\ OwnLogins /\ BufferOwn
      /\ LoggedInAsEntered /\ (~Piled => LoginFirst)
  BY DEF IInv
<1>2. boxes # <<>> /\ boxes' = Tail(boxes) /\ connecting' = connecting /\ logins' = logins /\ entered' = entered
  BY DEF CloseBox, settingsVars
<1>3. /\ boxes' \in Seq(Boxes) /\ SettingsLast' /\ Shown(Head(boxes)) /\ Head(boxes) \in Boxes
      /\ (\A b \in Boxes : Shown(b)' => Shown(b))
      /\ (Head(boxes) = "settings" => boxes' = <<>>)
  BY <1>1, <1>2, Closes
<1>4. (Reading' => Reading) /\ (Shown("critical")' => Shown("critical"))
  <2>1. (Shown("information")' => Shown("information")) /\ (Shown("warning")' => Shown("warning"))
        /\ (Shown("viewer")' => Shown("viewer")) /\ (Shown("critical")' => Shown("critical"))
    BY <1>3 DEF Boxes
  <2>2. Reading' <=> Shown("information")' \/ Shown("warning")' \/ Shown("viewer")'
    <3>1. DOMAIN boxes' = 1 .. Len(boxes')
      BY <1>3
    <3>. QED
      BY <3>1 DEF Reading, Shown
  <2>. QED
    BY <1>1, <2>1, <2>2, ReadingShown
<1>5. CASE Head(boxes) = "critical" /\ connected
  <2>1. /\ connected' = FALSE /\ session' = "none" /\ tasks' = {} /\ toServer' = <<>> /\ toClient' = <<>>
        /\ authenticated' = FALSE
        /\ UNCHANGED <<connection, login, nextTaskId, stored, buffer, lastCmd, logRequested, uploadId,
                       downloadId, saving, windows, requests, reported>>
    BY <1>5 DEF CloseBox, OnDisconnected, HangUp, windowVars
  <2>2. <<>> \in Seq(Requests) /\ <<>> \in Seq(Pieces) /\ DOMAIN <<>> = {}
    OBVIOUS
  <2>3. TypeOK'
    BY <1>1, <1>2, <1>3, <2>1, <2>2 DEF TypeOK, Boxes
  <2>4. Counted' /\ NothingLeft' /\ OwnLogins' /\ AuthAgrees' /\ LoggedInAsEntered'
    BY <1>1, <1>2, <2>1, <2>2 DEF Counted, NothingLeft, OwnLogins, AuthAgrees, LoggedInAsEntered
  <2>5. Looking'
    BY <1>1, <1>2, <1>5, <2>1 DEF Looking
  <2>6. BufferOwn' /\ (Own' <=> Own) /\ (Complete' <=> Complete)
    BY <1>1, <2>1, <2>2 DEF BufferOwn, Own, Complete
  <2>7. ASSUME ~Piled' PROVE LoginFirst'
    <3>1. LoginFirst
      BY <1>1, <1>2, <2>1, <2>7 DEF Piled
    <3>2. LoginPending => LoginPending'
      BY <1>4, <2>1 DEF LoginPending
    <3>3. Own => \A i \in DOMAIN buffer : buffer[i][1].cmd = "login" => i <= 2 /\ LoginPending
      BY <3>1 DEF LoginFirst
    <3>4. Own /\ Complete => buffer[1][1].cmd # "login"
      BY <1>3, <1>5, <3>1 DEF LoginFirst
    <3>. QED
      BY <2>1, <2>2, <2>6, <3>2, <3>3, <3>4 DEF LoginFirst
  <2>. QED
    BY <1>3, <2>3, <2>4, <2>5, <2>6, <2>7 DEF IInv
<1>6. CASE ~(Head(boxes) = "critical" /\ connected)
  <2>1. /\ Send(IF Head(boxes) = "information" THEN <<Plain("list")>> ELSE <<>>)
        /\ UNCHANGED <<connected, connection, buffer, authenticated, logRequested, uploadId,
                       downloadId, saving, toClient, windowVars, serverVars>>
    BY <1>6 DEF CloseBox
  <2>2. Steady
    BY <1>2, <2>1 DEF Steady, settingsVars
  <2>3. Harmless(<<Plain("list")>>) /\ Harmless(<<>>)
    BY PlainHarmless DEF Commands
  <2>4. Sent
    BY <1>1, <2>1, <2>3, SendSends
  <2>5. TypeOK'
    BY <1>1, <1>2, <1>3, <2>1, <2>4 DEF TypeOK, Sent, Boxes, windowVars, serverVars
  <2>6. ASSUME connecting PROVE boxes' = <<>>
    <3>1. boxes = <<"settings">>
      BY <1>1, <1>2, <2>6 DEF Looking
    <3>. QED
      BY <1>3, <3>1
  <2>7. Calm
    BY <1>3, <1>4, <2>6 DEF Calm
  <2>. QED
    BY <2>2, <2>4, <2>5, <2>7, SteadyKeeps
<1>. QED
  BY <1>5, <1>6

-----------------------------------------------------------------------------
(* The connection *)

\* A box about the connection opens on top.
LEMMA CriticalOpens ==
  ASSUME TypeOK, SettingsLast, Open("critical")
  PROVE  boxes' \in Seq(Boxes) /\ SettingsLast' /\ (Reading' => Reading)
<1>1. /\ boxes' \in Seq(Boxes) /\ SettingsLast' /\ \A b \in Boxes : Shown(b)' => Shown(b) \/ b = "critical"
  BY Opens DEF Boxes
<1>2. (Shown("information")' => Shown("information")) /\ (Shown("warning")' => Shown("warning"))
        /\ (Shown("viewer")' => Shown("viewer"))
  BY <1>1 DEF Boxes
<1>3. DOMAIN boxes' = 1 .. Len(boxes')
  BY <1>1
<1>4. Reading' <=> Shown("information")' \/ Shown("warning")' \/ Shown("viewer")'
  BY <1>3 DEF Reading, Shown
<1>. QED
  BY <1>1, <1>2, <1>4, ReadingShown

LEMMA ConnectFailsKeeps ==
  ASSUME IInv, ConnectFails
  PROVE  IInv'
<1>1. /\ TypeOK /\ Counted /\ Looking /\ NothingLeft /\ SettingsLast /\ OwnLogins /\ BufferOwn
      /\ AuthAgrees /\ LoggedInAsEntered /\ (~Piled => LoginFirst)
  BY DEF IInv
<1>2. connecting /\ connecting' = FALSE /\ ~connected /\ ~Complete
  BY <1>1 DEF ConnectFails, Looking
<1>3. UNCHANGED <<connected, connection, buffer, logins, entered, authenticated, lastCmd, logRequested,
                  uploadId, downloadId, saving, windows, requests, reported, toServer, toClient,
                  session, login, tasks, nextTaskId, stored>>
  BY DEF ConnectFails, memberVars, windowVars, networkVars, serverVars
<1>4. boxes' \in Seq(Boxes) /\ SettingsLast' /\ (Reading' => Reading)
  BY <1>1, CriticalOpens DEF ConnectFails
<1>5. TypeOK'
  BY <1>1, <1>2, <1>3, <1>4 DEF TypeOK, Boxes
<1>6. Counted' /\ Looking' /\ NothingLeft' /\ OwnLogins' /\ AuthAgrees' /\ LoggedInAsEntered'
  BY <1>1, <1>2, <1>3 DEF Counted, Looking, NothingLeft, OwnLogins, AuthAgrees, Piled, LoggedInAsEntered
<1>7. BufferOwn' /\ (Own' <=> Own) /\ (Complete' <=> Complete) /\ (Piled' <=> Piled)
  BY <1>1, <1>3 DEF BufferOwn, Own, Complete, Piled
<1>8. ASSUME LoginFirst PROVE LoginFirst'
  <2>1. LoginPending => LoginPending'
    BY <1>3, <1>4 DEF LoginPending
  <2>. QED
    BY <1>2, <1>3, <1>7, <1>8, <2>1 DEF LoginFirst
<1>. QED
  BY <1>1, <1>4, <1>5, <1>6, <1>7, <1>8 DEF IInv

LEMMA ConnectionLostKeeps ==
  ASSUME IInv, ConnectionLost
  PROVE  IInv'
<1>1. /\ TypeOK /\ Counted /\ Looking /\ NothingLeft /\ SettingsLast /\ OwnLogins /\ BufferOwn
      /\ AuthAgrees /\ LoggedInAsEntered /\ (~Piled => LoginFirst)
  BY DEF IInv
<1>2. /\ connected /\ ~Busy /\ session' = "none" /\ tasks' = {} /\ toServer' = <<>> /\ toClient' = <<>>
      /\ UNCHANGED <<connected, connection, buffer, connecting, logins, entered, authenticated, lastCmd,
                     logRequested, uploadId, downloadId, saving, windows, requests, reported, login,
                     nextTaskId, stored>>
  BY DEF ConnectionLost, memberVars, windowVars, settingsVars
<1>3. boxes' \in Seq(Boxes) /\ SettingsLast' /\ (Reading' => Reading)
  BY <1>1, CriticalOpens DEF ConnectionLost
<1>4. <<>> \in Seq(Requests) /\ <<>> \in Seq(Pieces) /\ DOMAIN <<>> = {}
  OBVIOUS
<1>5. TypeOK'
  BY <1>1, <1>2, <1>3, <1>4 DEF TypeOK, Boxes
<1>6. Counted' /\ Looking' /\ NothingLeft' /\ OwnLogins' /\ AuthAgrees' /\ LoggedInAsEntered'
  BY <1>1, <1>2, <1>4 DEF Counted, Looking, NothingLeft, OwnLogins, AuthAgrees, Piled, LoggedInAsEntered
<1>7. BufferOwn' /\ (Own' <=> Own) /\ (Complete' <=> Complete) /\ (Piled' <=> Piled)
  BY <1>1, <1>2, <1>4 DEF BufferOwn, Own, Complete, Piled
<1>8. ASSUME LoginFirst PROVE LoginFirst'
  <2>1. LoginPending => LoginPending'
    BY <1>2, <1>3 DEF LoginPending
  <2>2. Own => \A i \in DOMAIN buffer : buffer[i][1].cmd = "login" => i <= 2 /\ LoginPending
    BY <1>8 DEF LoginFirst
  <2>3. ~(Own /\ Complete /\ buffer[1][1].cmd = "login")
    <3>1. SUFFICES ASSUME Own, Complete, buffer[1][1].cmd = "login" PROVE FALSE
      OBVIOUS
    <3>2. 1 \in DOMAIN buffer
      BY <1>1, <3>1 DEF Complete, TypeOK
    <3>. QED
      BY <1>2, <2>2, <3>1, <3>2 DEF Busy, LoginPending
  <2>4. (~Own => ~authenticated)
    BY <1>8 DEF LoginFirst
  <2>. QED
    BY <1>2, <1>4, <1>7, <2>1, <2>2, <2>3, <2>4 DEF LoginFirst
<1>. QED
  BY <1>1, <1>3, <1>5, <1>6, <1>7, <1>8 DEF IInv

LEMMA ConnectedKeeps ==
  ASSUME IInv, Connected
  PROVE  IInv'
<1>1. /\ TypeOK /\ Counted /\ Looking /\ NothingLeft /\ SettingsLast /\ BufferOwn
      /\ AuthAgrees /\ LoggedInAsEntered
  BY DEF IInv
<1>2. /\ connecting' = FALSE /\ connected' = TRUE /\ connection' = connection + 1 /\ logins' = <<>>
      /\ toServer' = [i \in 1..Len(logins) |-> Req("login", logins[i])] /\ lastCmd' = "login"
      /\ session' = "guest" /\ tasks' = {} /\ stored' = 0 /\ reported' = 0
      /\ UNCHANGED <<entered, authenticated, logRequested, uploadId, downloadId, saving, buffer, boxes,
                     windows, requests, toClient, login, nextTaskId>>
  BY DEF Connected
<1>3. /\ ~connected /\ ~Complete /\ logins # <<>> /\ toClient = <<>>
      /\ (boxes = <<>> \/ boxes = <<"settings">>)
  BY <1>1 DEF Connected, Looking, NothingLeft
<1>4. /\ connection \in Nat /\ entered \in 0..MaxEntered /\ logins \in Seq(0..MaxEntered) /\ MaxEntered \in Nat
  BY <1>1, ClientAssumption DEF TypeOK
<1>5. Len(logins) \in Nat \ {0} /\ DOMAIN logins = 1 .. Len(logins) /\ connection <= entered - Len(logins)
  BY <1>1, <1>3, <1>4, EmptySeq DEF Counted
<1>6. \A i \in 1 .. Len(logins) : logins[i] = connection /\ Req("login", logins[i]) = [cmd |-> "login", id |-> connection]
  BY <1>1, <1>5 DEF Counted, Req
<1>7. toServer' = [i \in 1 .. Len(logins) |-> [cmd |-> "login", id |-> connection]]
  BY <1>2, <1>6
<1>8. <<>> \in Seq(0..MaxEntered) /\ Len(<<>>) = 0 /\ DOMAIN <<>> = {}
  OBVIOUS
<1>9. TypeOK'
  <2>1. connection' \in 0..MaxEntered
    BY <1>2, <1>4, <1>5
  <2>2. toServer' \in Seq(Requests)
    <3>1. [cmd |-> "login", id |-> connection] \in Requests
      BY <1>4 DEF Requests, Commands
    <3>. QED
      BY <1>5, <1>7, <3>1
  <2>. QED
    BY <1>1, <1>2, <1>8, <2>1, <2>2 DEF TypeOK, Commands
<1>10. Counted'
  BY <1>2, <1>4, <1>5, <1>8 DEF Counted
<1>11. ~Shown("critical") /\ ~Reading
  <2>1. DOMAIN <<"settings">> = {1} /\ Len(<<"settings">>) = 1 /\ <<"settings">>[1] = "settings"
    OBVIOUS
  <2>. QED
    BY <1>3, <1>8, <2>1 DEF Shown, Reading
<1>12. Looking' /\ SettingsLast' /\ LoggedInAsEntered'
  BY <1>1, <1>2 DEF Looking, SettingsLast, LoggedInAsEntered
<1>13. NothingLeft'
  BY <1>2, <1>11 DEF NothingLeft, Shown
<1>14. OwnLogins'
  BY <1>2, <1>4, <1>7 DEF OwnLogins
<1>15. /\ \A i \in DOMAIN buffer : buffer[i][1].on <= connection
       /\ buffer \in Seq(Pieces) /\ (buffer # <<>> => 1 \in DOMAIN buffer)
  BY <1>1, EmptySeq DEF BufferOwn, TypeOK
<1>16. \A i \in DOMAIN buffer : buffer[i][1].on <= connection + 1 /\ buffer[i][1].on # connection + 1
  <2>1. \A i \in DOMAIN buffer : buffer[i] \in Pieces
    BY <1>15
  <2>2. \A i \in DOMAIN buffer : buffer[i][1].on \in Nat
    BY <2>1 DEF Pieces
  <2>. QED
    BY <1>4, <1>15, <2>2
<1>17. (Own' <=> buffer = <<>>) /\ ~Complete'
  BY <1>2, <1>3, <1>8, <1>15, <1>16 DEF Own, Complete
<1>18. BufferOwn'
  BY <1>2, <1>3, <1>8, <1>15, <1>16, <1>17 DEF BufferOwn
<1>19. ASSUME ~Piled' PROVE Len(logins) = 1 /\ ~authenticated
  <2>1. entered <= connection + 1
    BY <1>2, <1>4, <1>8, <1>19 DEF Piled
  <2>2. Len(logins) = 1
    BY <1>4, <1>5, <2>1
  <2>3. ~Piled
    BY <1>4, <2>1, <2>2 DEF Piled
  <2>. QED
    BY <1>1, <1>3, <2>2, <2>3 DEF AuthAgrees
<1>20. ASSUME ~Piled' PROVE LoginFirst'
  <2>1. ~authenticated' /\ ~Reading' /\ DOMAIN toServer' = {1}
    <3>1. ~authenticated' /\ ~Reading'
      BY <1>2, <1>11, <1>19, <1>20 DEF Reading
    <3>2. Len(logins) = 1
      BY <1>19, <1>20
    <3>3. toServer' = [i \in {1} |-> [cmd |-> "login", id |-> connection]]
      BY <1>7, <3>2
    <3>. QED
      BY <3>1, <3>3
  <2>. QED
    BY <1>2, <1>3, <1>8, <1>17, <2>1 DEF LoginFirst, LoginPending
<1>21. AuthAgrees'
  BY <1>2, <1>19 DEF AuthAgrees
<1>. QED
  BY <1>9, <1>10, <1>12, <1>13, <1>14, <1>18, <1>20, <1>21 DEF IInv

-----------------------------------------------------------------------------
(* Responses *)

LEMMA ReadyReadKeeps ==
  ASSUME IInv, NEW n \in 1..Len(toClient), ReadyRead(n)
  PROVE  IInv'
<1>1. /\ TypeOK /\ Counted /\ Looking /\ NothingLeft /\ SettingsLast /\ OwnLogins /\ BufferOwn
      /\ AuthAgrees /\ LoggedInAsEntered /\ (~Piled => LoginFirst)
  BY DEF IInv
<1>. DEFINE read == SubSeq(toClient, 1, n)
            left == SubSeq(toClient, n + 1, Len(toClient))
<1>2. /\ connected /\ ~Reading /\ ~Complete /\ buffer' = buffer \o read /\ toClient' = left
      /\ UNCHANGED <<connected, connection, connecting, logins, entered, boxes, authenticated, lastCmd,
                     logRequested, uploadId, downloadId, saving, windows, requests, reported, toServer,
                     session, login, tasks, nextTaskId, stored>>
  BY DEF ReadyRead, memberVars, windowVars, settingsVars, serverVars
<1>3. /\ buffer \in Seq(Pieces) /\ toClient \in Seq(Pieces) /\ Len(toClient) \in Nat /\ n \in Nat \ {0}
      /\ n <= Len(toClient) /\ Len(buffer) \in Nat /\ DOMAIN buffer = 1 .. Len(buffer)
      /\ DOMAIN toClient = 1 .. Len(toClient) /\ connection \in Nat /\ toClient # <<>>
  BY <1>1 DEF TypeOK
<1>4. read \in Seq(Pieces) /\ Len(read) = n /\ \A i \in 1 .. n : read[i] = toClient[i]
  BY <1>3, CutOut
<1>5. left \in Seq(Pieces) /\ Len(left) = Len(toClient) - n /\ \A i \in 1 .. Len(toClient) - n : left[i] = toClient[n + i]
  <2>1. /\ left \in Seq(Pieces) /\ Len(left) = Len(toClient) - (n + 1) + 1
        /\ \A i \in 1 .. Len(toClient) - (n + 1) + 1 : left[i] = toClient[n + 1 + i - 1]
    <3>1. ASSUME NEW k \in Nat \ {0}, k <= Len(toClient) + 1
          PROVE  /\ SubSeq(toClient, k, Len(toClient)) \in Seq(Pieces)
                 /\ Len(SubSeq(toClient, k, Len(toClient))) = Len(toClient) - k + 1
                 /\ \A i \in 1 .. Len(toClient) - k + 1 :
                       SubSeq(toClient, k, Len(toClient))[i] = toClient[k + i - 1]
      <4>1. toClient \in Seq(Pieces) /\ Len(toClient) \in Nat /\ Len(toClient) <= Len(toClient)
        BY <1>3
      <4>. QED
        BY <3>1, <4>1, CutOut
    <3>2. n + 1 \in Nat \ {0} /\ n + 1 <= Len(toClient) + 1
      BY <1>3
    <3>. QED
      BY <3>1, <3>2
  <2>2. Len(toClient) - (n + 1) + 1 = Len(toClient) - n
    BY <1>3
  <2>3. \A i \in 1 .. Len(toClient) - n : n + 1 + i - 1 = n + i
    BY <1>3
  <2>4. \A i \in 1 .. Len(toClient) - n : left[i] = toClient[n + i]
    BY <2>1, <2>2, <2>3
  <2>. QED
    BY <2>1, <2>2, <2>4
<1>. HIDE DEF read, left
<1>6. /\ buffer' \in Seq(Pieces) /\ Len(buffer') = Len(buffer) + n /\ DOMAIN read = 1 .. n
      /\ \A i \in DOMAIN buffer : i \in DOMAIN buffer' /\ buffer'[i] = buffer[i]
      /\ \A i \in DOMAIN buffer' :
            \/ i \in DOMAIN buffer /\ buffer'[i] = buffer[i]
            \/ i - Len(buffer) \in 1 .. n /\ i - Len(buffer) \in DOMAIN toClient
               /\ buffer'[i] = toClient[i - Len(buffer)]
  <2>1. DOMAIN read = 1 .. n /\ \A j \in 1 .. n : j \in DOMAIN toClient
    BY <1>3, <1>4
  <2>2. /\ buffer' \in Seq(Pieces) /\ Len(buffer') = Len(buffer) + n
        /\ \A i \in DOMAIN buffer : i \in DOMAIN buffer' /\ buffer'[i] = buffer[i]
        /\ \A i \in DOMAIN buffer' :
              \/ i \in DOMAIN buffer /\ buffer'[i] = buffer[i]
              \/ i - Len(buffer) \in DOMAIN read /\ buffer'[i] = read[i - Len(buffer)]
    <3>. DEFINE all == buffer \o read
    <3>1. /\ all \in Seq(Pieces) /\ Len(all) = Len(buffer) + Len(read)
          /\ \A i \in DOMAIN buffer : i \in DOMAIN all /\ all[i] = buffer[i]
          /\ \A i \in DOMAIN all :
                \/ i \in DOMAIN buffer /\ all[i] = buffer[i]
                \/ i - Len(buffer) \in DOMAIN read /\ all[i] = read[i - Len(buffer)]
      <4>1. buffer \in Seq(Pieces) /\ read \in Seq(Pieces)
        BY <1>3, <1>4
      <4>. QED
        BY <4>1, Joined
    <3>2. buffer' = all
      BY <1>2
    <3>. HIDE DEF all
    <3>. QED
      BY <1>4, <3>1, <3>2
  <2>. QED
    BY <1>4, <2>1, <2>2
<1>7. \A i \in DOMAIN toClient' : i \in Nat /\ n + i \in DOMAIN toClient /\ toClient'[i] = toClient[n + i]
  <2>1. DOMAIN toClient' = 1 .. Len(toClient) - n
    <3>1. DOMAIN left = 1 .. Len(left)
      BY <1>5
    <3>. QED
      BY <1>2, <1>5, <3>1
  <2>2. \A i \in 1 .. Len(toClient) - n : i \in Nat /\ n + i \in DOMAIN toClient
    BY <1>3
  <2>. QED
    BY <1>2, <1>5, <2>1, <2>2
<1>8. TypeOK'
  BY <1>1, <1>2, <1>5, <1>6 DEF TypeOK
<1>9. Counted' /\ SettingsLast' /\ OwnLogins' /\ AuthAgrees' /\ LoggedInAsEntered' /\ ~Shown("critical")
  BY <1>1, <1>2, <1>3 DEF Counted, SettingsLast, OwnLogins, AuthAgrees, Piled, LoggedInAsEntered, NothingLeft
<1>10. Looking' /\ NothingLeft'
  BY <1>1, <1>2, <1>9 DEF Looking, NothingLeft, Shown
<1>11. /\ \A i \in DOMAIN toClient' : toClient'[i][1].on = connection
       /\ \A i \in DOMAIN buffer' : buffer'[i][1].on <= connection
       /\ Own' <=> Own
  <2>1. \A i \in DOMAIN toClient' : toClient'[i][1].on = connection
    BY <1>1, <1>7 DEF BufferOwn
  <2>2. \A i \in DOMAIN buffer' : buffer'[i][1].on <= connection
    BY <1>1, <1>3, <1>6 DEF BufferOwn
  <2>3. Own => Own'
    BY <1>1, <1>2, <1>6 DEF BufferOwn, Own
  <2>4. Own' => Own
    BY <1>2, <1>6 DEF Own
  <2>. QED
    BY <2>1, <2>2, <2>3, <2>4
<1>12. ASSUME ~Own PROVE buffer' # <<>> /\ ~Complete' /\ buffer'[1][1].on # connection
  <2>1. buffer # <<>> /\ buffer[1][1].on # connection
    BY <1>1, <1>12 DEF BufferOwn
  <2>2. 1 \in DOMAIN buffer
    BY <1>3, <2>1, EmptySeq
  <2>3. buffer'[1] = buffer[1] /\ 1 \in DOMAIN buffer'
    BY <1>6, <2>2
  <2>4. buffer' # <<>>
    BY <2>3
  <2>5. SUFFICES ASSUME Complete' PROVE FALSE
    BY <2>1, <2>3, <2>4
  <2>6. 2 \in DOMAIN buffer' /\ buffer'[2] = <<buffer[1][1], 2>>
    BY <1>6, <2>3, <2>5 DEF Complete
  <2>7. CASE 2 \in DOMAIN buffer
    BY <1>2, <1>3, <1>6, <2>6, <2>7 DEF Complete
  <2>8. CASE 2 \notin DOMAIN buffer
    <3>1. buffer'[2][1].on = connection
      BY <1>1, <1>6, <2>6, <2>8 DEF BufferOwn
    <3>. QED
      BY <2>1, <2>6, <3>1
  <2>. QED
    BY <2>7, <2>8
<1>13. BufferOwn'
  BY <1>2, <1>11, <1>12 DEF BufferOwn
<1>14. ASSUME ~Piled' PROVE LoginFirst'
  <2>1. LoginFirst
    BY <1>1, <1>2, <1>14 DEF Piled
  <2>2. LoginPending' <=> LoginPending
    BY <1>2 DEF LoginPending, Reading
  <2>3. \A i \in DOMAIN toServer : toServer[i].cmd # "login"
    BY <1>3, <2>1 DEF LoginFirst
  <2>4. ASSUME Own, NEW i \in DOMAIN buffer', buffer'[i][1].cmd = "login"
        PROVE  i <= 2 /\ LoginPending' /\ (buffer'[i][1].ok => session' # "guest")
    <3>1. CASE i \in DOMAIN buffer /\ buffer'[i] = buffer[i]
      BY <1>2, <2>1, <2>2, <2>4, <3>1 DEF LoginFirst
    <3>2. CASE i - Len(buffer) \in DOMAIN toClient /\ buffer'[i] = toClient[i - Len(buffer)]
      <4>1. /\ Len(buffer) + (i - Len(buffer)) <= 2 /\ LoginPending
            /\ (toClient[i - Len(buffer)][1].ok => session # "guest")
        BY <2>1, <2>4, <3>2 DEF LoginFirst
      <4>2. i \in Nat
        BY <1>6
      <4>. QED
        BY <1>2, <1>3, <2>2, <3>2, <4>1, <4>2
    <3>. QED
      BY <1>6, <2>4, <3>1, <3>2
  <2>5. ASSUME Own, NEW i \in DOMAIN toClient', toClient'[i][1].cmd = "login"
        PROVE  Len(buffer') + i <= 2 /\ LoginPending' /\ (toClient'[i][1].ok => session' # "guest")
    <3>1. i \in Nat /\ n + i \in DOMAIN toClient /\ toClient'[i] = toClient[n + i]
      BY <1>7
    <3>2. Len(buffer) + (n + i) <= 2 /\ LoginPending /\ (toClient[n + i][1].ok => session # "guest")
      BY <2>1, <2>5, <3>1 DEF LoginFirst
    <3>. QED
      BY <1>2, <1>3, <1>6, <2>2, <3>1, <3>2
  <2>6. (~Own' => ~authenticated') /\ connected' /\ ~Shown("critical")'
    BY <1>2, <1>9, <1>11, <2>1 DEF LoginFirst, Shown
  <2>. QED
    BY <1>2, <1>11, <2>3, <2>4, <2>5, <2>6 DEF LoginFirst
<1>. QED
  BY <1>8, <1>9, <1>10, <1>13, <1>14 DEF IInv

Answers == [cmd : Commands, ok : BOOLEAN, id : Nat, on : Nat]

\* What a response may change: a dialog of a slot opens, and only a successful login
\* makes the client take itself for logged in.
LEMMA ResponseProcessed ==
  ASSUME TypeOK, NEW r \in Answers, ProcessResponse(r)
  PROVE  /\ Sent
         /\ authenticated' \in BOOLEAN /\ logRequested' \in BOOLEAN /\ uploadId' \in Nat
         /\ downloadId' \in Nat /\ saving' \in BOOLEAN
         /\ UNCHANGED boxes \/ \E b \in {"information", "warning", "viewer"} : Open(b)
         /\ authenticated' => authenticated \/ (r.cmd = "login" /\ r.ok)
<1>. USE DEF ProcessResponse
<1>1. /\ r.ok \in BOOLEAN /\ r.id \in Nat /\ authenticated \in BOOLEAN /\ logRequested \in BOOLEAN
      /\ uploadId \in Nat /\ downloadId \in Nat /\ saving \in BOOLEAN
      /\ toServer \in Seq(Requests) /\ lastCmd \in Commands \cup {"none"}
  BY DEF TypeOK, Answers
<1>2. Harmless(<<Plain("timer")>>) /\ Harmless(<<Plain("read")>>) /\ Harmless(<<>>)
  BY PlainHarmless DEF Commands
<1>3. UNCHANGED <<toServer, lastCmd>> => Sent
  BY <1>1 DEF Sent
<1>4. CASE r.cmd = "login" /\ LoginResult(r)
  <2>1. Sent
    BY <1>2, <1>4, SendSends DEF LoginResult
  <2>. QED
    BY <1>1, <1>4, <2>1 DEF LoginResult
<1>5. CASE r.cmd = "list" /\ FileListResult(r)
  <2>1. Sent
    BY <1>2, <1>5, SendSends DEF FileListResult
  <2>. QED
    BY <1>1, <1>5, <2>1 DEF FileListResult
<1>6. CASE OperationResult(r.ok) /\ UNCHANGED <<uploadId, downloadId>>
  BY <1>1, <1>3, <1>6 DEF OperationResult
<1>7. CASE TransferStart(r)
  BY <1>1, <1>3, <1>7 DEF TransferStart, OperationResult
<1>8. CASE FileReadResult(r)
  BY <1>1, <1>3, <1>8 DEF FileReadResult, memberVars
<1>9. CASE UNCHANGED <<memberVars, boxes, toServer>>
  BY <1>1, <1>3, <1>9 DEF memberVars
<1>. QED
  BY <1>4, <1>5, <1>6, <1>7, <1>8, <1>9

LEMMA ProcessFrameKeeps ==
  ASSUME IInv, ProcessFrame
  PROVE  IInv'
<1>1. /\ TypeOK /\ Counted /\ Looking /\ NothingLeft /\ SettingsLast /\ OwnLogins /\ BufferOwn
      /\ AuthAgrees /\ LoggedInAsEntered /\ (~Piled => LoginFirst)
  BY DEF IInv
<1>. DEFINE r == buffer[1][1]
<1>2. /\ Complete /\ buffer' = SubSeq(buffer, 3, Len(buffer)) /\ ProcessResponse(r)
      /\ UNCHANGED <<connected, connection, toClient, connecting, logins, entered, windows, requests,
                     reported, session, login, tasks, nextTaskId, stored>>
  BY DEF ProcessFrame, TakeFrame, Busy, windowVars, settingsVars, serverVars
<1>3. /\ buffer \in Seq(Pieces) /\ Len(buffer) \in Nat /\ Len(buffer) >= 2 /\ 1 \in DOMAIN buffer
      /\ DOMAIN toClient = 1 .. Len(toClient) /\ Len(toClient) \in Nat
  BY <1>1, <1>2 DEF TypeOK, Complete
<1>4. /\ buffer' \in Seq(Pieces) /\ DOMAIN buffer' = 1 .. Len(buffer')
      /\ \A i \in DOMAIN buffer' : i \in Nat \ {0} /\ i + 2 \in DOMAIN buffer /\ buffer'[i] = buffer[i + 2]
  <2>1. /\ SubSeq(buffer, 3, Len(buffer)) \in Seq(Pieces)
        /\ Len(SubSeq(buffer, 3, Len(buffer))) = Len(buffer) - 2
        /\ \A i \in 1 .. Len(buffer) - 2 : SubSeq(buffer, 3, Len(buffer))[i] = buffer[i + 2]
    BY <1>3, AfterTwo
  <2>2. /\ buffer' \in Seq(Pieces) /\ Len(buffer') = Len(buffer) - 2
        /\ \A i \in 1 .. Len(buffer) - 2 : buffer'[i] = buffer[i + 2]
    BY <1>2, <2>1
  <2>. QED
    BY <1>3, <2>2
<1>5. r \in Answers
  <2>1. buffer[1] \in Pieces
    BY <1>3
  <2>. QED
    BY <2>1 DEF Pieces, Answers
<1>. HIDE DEF r
<1>6. /\ Sent
      /\ authenticated' \in BOOLEAN /\ logRequested' \in BOOLEAN /\ uploadId' \in Nat
      /\ downloadId' \in Nat /\ saving' \in BOOLEAN
      /\ UNCHANGED boxes \/ \E b \in {"information", "warning", "viewer"} : Open(b)
      /\ authenticated' => authenticated \/ (r.cmd = "login" /\ r.ok)
  BY <1>1, <1>2, <1>5, ResponseProcessed
<1>7. boxes' \in Seq(Boxes) /\ SettingsLast' /\ (Shown("critical")' => Shown("critical"))
  <2>1. CASE UNCHANGED boxes
    BY <1>1, <2>1 DEF TypeOK, SettingsLast, Shown, Boxes
  <2>2. ASSUME NEW b \in {"information", "warning", "viewer"}, Open(b)
        PROVE  boxes' \in Seq(Boxes) /\ SettingsLast' /\ (Shown("critical")' => Shown("critical"))
    <3>1. b \in Boxes /\ "critical" \in Boxes /\ b # "settings" /\ b # "critical"
      BY DEF Boxes
    <3>2. /\ boxes' \in Seq(Boxes) /\ SettingsLast' /\ \A d \in Boxes : Shown(d)' => Shown(d) \/ d = b
      BY <1>1, <2>2, <3>1, Opens
    <3>. QED
      BY <3>1, <3>2
  <2>. QED
    BY <1>6, <2>1, <2>2
<1>8. TypeOK'
  BY <1>1, <1>2, <1>4, <1>6, <1>7 DEF TypeOK, Boxes, Sent
<1>9. Own /\ Own'
  <2>1. Own
    BY <1>1, <1>2 DEF BufferOwn
  <2>. QED
    BY <1>2, <1>4, <2>1 DEF Own
<1>10. BufferOwn'
  BY <1>1, <1>2, <1>4, <1>9 DEF BufferOwn
<1>11. Counted' /\ LoggedInAsEntered' /\ Looking'
  BY <1>1, <1>2 DEF Counted, LoggedInAsEntered, Looking
<1>12. NothingLeft' /\ OwnLogins'
  BY <1>1, <1>2, <1>6, <1>7 DEF NothingLeft, OwnLogins, Sent
<1>13. ASSUME ~Piled' PROVE LoginFirst' /\ (r.cmd = "login" /\ r.ok => connected /\ session # "guest")
  <2>1. LoginFirst
    BY <1>1, <1>2, <1>13 DEF Piled
  <2>2. \A i \in DOMAIN toServer' : toServer'[i].cmd # "login"
    <3>1. buffer # <<>>
      BY <1>3
    <3>. QED
      BY <1>6, <1>9, <2>1, <3>1 DEF LoginFirst, Sent
  <2>3. \A i \in DOMAIN buffer' : buffer'[i][1].cmd # "login"
    <3>1. ASSUME NEW i \in DOMAIN buffer', buffer'[i][1].cmd = "login" PROVE FALSE
      <4>1. i \in Nat \ {0} /\ i + 2 \in DOMAIN buffer /\ buffer'[i] = buffer[i + 2]
        BY <1>4
      <4>2. i + 2 <= 2
        BY <1>9, <2>1, <3>1, <4>1 DEF LoginFirst
      <4>. QED
        BY <4>1, <4>2
    <3>. QED
      BY <3>1
  <2>4. \A i \in DOMAIN toClient' : toClient'[i][1].cmd # "login"
    <3>1. ASSUME NEW i \in DOMAIN toClient, toClient[i][1].cmd = "login" PROVE FALSE
      <4>1. Len(buffer) + i <= 2 /\ i \in Nat \ {0}
        BY <1>3, <1>9, <2>1, <3>1 DEF LoginFirst
      <4>. QED
        BY <1>3, <4>1
    <3>. QED
      BY <1>2, <3>1
  <2>5. Complete' => buffer'[1][1].cmd # "login"
    BY <1>4, <2>3 DEF Complete
  <2>6. r.cmd = "login" /\ r.ok => connected /\ session # "guest"
    BY <1>2, <1>3, <1>9, <2>1 DEF LoginFirst, r
  <2>. QED
    BY <1>9, <2>2, <2>3, <2>4, <2>5, <2>6 DEF LoginFirst
<1>14. AuthAgrees'
  BY <1>1, <1>2, <1>6, <1>13 DEF AuthAgrees, Piled
<1>. QED
  BY <1>7, <1>8, <1>10, <1>11, <1>12, <1>13, <1>14 DEF IInv

-----------------------------------------------------------------------------
(* The server *)

\* A request is answered with a response of its own kind, a guest becomes a user only
\* by a login that succeeds, and nothing becomes a guest.
LEMMA Served ==
  ASSUME TypeOK, OwnLogins, LoggedInAsEntered, toServer # <<>>, Serve
  PROVE  LET r == Head(toServer)
         IN  /\ r = toServer[1] /\ r \in Requests /\ 1 \in DOMAIN toServer
             /\ \E ok \in BOOLEAN, id \in Nat :
                   /\ Answer(r, ok, id)
                   /\ r.cmd = "login" /\ ok => session' = "user"
             /\ session' \in {"none", "guest", "user"} /\ (session' = "guest" => session = "guest")
             /\ session' = "user" => login' = connection - 1
             /\ login' \in 0..MaxEntered /\ nextTaskId' \in Nat \ {0} /\ stored' \in Nat
             /\ tasks' \subseteq [id : 1..nextTaskId' - 1, cmd : {"upstart", "downstart"}]
<1>. DEFINE r == Head(toServer)
<1>1. r = toServer[1] /\ r \in Requests /\ 1 \in DOMAIN toServer
  BY TailOf DEF TypeOK
<1>2. /\ session \in {"none", "guest", "user"} /\ login \in 0..MaxEntered /\ nextTaskId \in Nat \ {0}
      /\ stored \in Nat /\ tasks \subseteq [id : 1..nextTaskId - 1, cmd : {"upstart", "downstart"}]
      /\ connection \in 0..MaxEntered /\ r.id \in Nat /\ (session = "user" => login = connection - 1)
      /\ MaxEntered \in Nat
  BY <1>1, ClientAssumption DEF TypeOK, Requests, LoggedInAsEntered
<1>3. r.cmd = "login" => r.id = connection - 1
  BY <1>1 DEF OwnLogins
<1>. HIDE DEF r
<1>. DEFINE Answered == \E ok \in BOOLEAN, id \in Nat :
                            Answer(r, ok, id) /\ (r.cmd = "login" /\ ok => session' = "user")
            Typed == /\ session' \in {"none", "guest", "user"} /\ (session' = "guest" => session = "guest")
                     /\ session' = "user" => login' = connection - 1
                     /\ login' \in 0..MaxEntered /\ nextTaskId' \in Nat \ {0} /\ stored' \in Nat
                     /\ tasks' \subseteq [id : 1..nextTaskId' - 1, cmd : {"upstart", "downstart"}]
<1>4. ASSUME r.cmd = "login", ServeLogin(r) PROVE Answered /\ Typed
  <2>1. PICK ok \in BOOLEAN :
           /\ session' = IF ok THEN "user" ELSE session
           /\ login' = IF ok THEN r.id ELSE login
           /\ Answer(r, ok, 0) /\ UNCHANGED <<tasks, nextTaskId, stored>>
    BY <1>4 DEF ServeLogin
  <2>2. r.id \in 0..MaxEntered
    BY <1>2, <1>3, <1>4
  <2>3. ok \in BOOLEAN /\ 0 \in Nat
    OBVIOUS
  <2>4. Answered
    BY <2>1, <2>3
  <2>. QED
    BY <1>2, <1>3, <1>4, <2>1, <2>2, <2>4
<1>5. ASSUME r.cmd # "login", NEW ok \in BOOLEAN, NEW id \in Nat, Answer(r, ok, id)
      PROVE  Answered
  BY <1>5
<1>6. ASSUME r.cmd # "login", Answer(r, r.cmd = "timer", 0), session' = "none",
             UNCHANGED <<login, tasks, nextTaskId, stored>>
      PROVE  Answered /\ Typed
  <2>1. (r.cmd = "timer") \in BOOLEAN /\ 0 \in Nat
    OBVIOUS
  <2>2. Answered
    BY <1>5, <1>6, <2>1
  <2>. QED
    BY <1>2, <1>6, <2>2
<1>7. ASSUME r.cmd \in {"upstart", "downstart"}, ServeStart(r) PROVE Answered /\ Typed
  <2>1. CASE Cardinality(tasks) < MaxTransfers
    <3>1. /\ tasks' = tasks \cup {[id |-> nextTaskId, cmd |-> r.cmd]}
          /\ nextTaskId' = nextTaskId + 1 /\ Answer(r, TRUE, nextTaskId)
          /\ UNCHANGED <<session, login, stored>>
      BY <1>7, <2>1 DEF ServeStart
    <3>2. Answered
      BY <1>2, <1>5, <1>7, <3>1
    <3>3. tasks' \subseteq [id : 1..nextTaskId' - 1, cmd : {"upstart", "downstart"}]
      <4>1. nextTaskId' - 1 = nextTaskId /\ nextTaskId \in 1..nextTaskId /\ 1..nextTaskId - 1 \subseteq 1..nextTaskId
        BY <1>2, <3>1
      <4>. QED
        BY <1>2, <1>7, <3>1, <4>1
    <3>. QED
      BY <1>2, <3>1, <3>2, <3>3
  <2>2. CASE ~(Cardinality(tasks) < MaxTransfers)
    <3>1. Answer(r, FALSE, 0) /\ UNCHANGED serverVars
      BY <1>7, <2>2 DEF ServeStart
    <3>2. Answered
      BY <1>5, <1>7, <3>1
    <3>. QED
      BY <1>2, <3>1, <3>2 DEF serverVars
  <2>. QED
    BY <2>1, <2>2
<1>8. ASSUME r.cmd = "updata", ServeUploadData(r) PROVE Answered /\ Typed
  <2>1. (Found(r) # {}) \in BOOLEAN
    OBVIOUS
  <2>2. Answered
    BY <1>2, <1>5, <1>8, <2>1 DEF ServeUploadData
  <2>. QED
    BY <1>2, <1>8, <2>2 DEF ServeUploadData
<1>9. ASSUME r.cmd = "upend", ServeUploadEnd(r) PROVE Answered /\ Typed
  <2>1. (Found(r) # {}) \in BOOLEAN
    OBVIOUS
  <2>2. Answered
    BY <1>2, <1>5, <1>9, <2>1 DEF ServeUploadEnd
  <2>. QED
    BY <1>2, <1>9, <2>2 DEF ServeUploadEnd
<1>10. ASSUME r.cmd # "login", ServeOther(r) PROVE Answered /\ Typed
  <2>1. UNCHANGED serverVars /\ \E ok \in BOOLEAN : Answer(r, ok, 0)
    BY <1>10 DEF ServeOther
  <2>2. Answered
    BY <1>5, <1>10, <2>1
  <2>. QED
    BY <1>2, <2>1, <2>2 DEF serverVars
<1>11. \/ r.cmd = "login" /\ ServeLogin(r)
       \/ r.cmd # "login" /\ Answer(r, r.cmd = "timer", 0) /\ session' = "none"
             /\ UNCHANGED <<login, tasks, nextTaskId, stored>>
       \/ r.cmd \in {"upstart", "downstart"} /\ ServeStart(r)
       \/ r.cmd = "updata" /\ ServeUploadData(r)
       \/ r.cmd = "upend" /\ ServeUploadEnd(r)
       \/ r.cmd # "login" /\ ServeOther(r)
  BY Zenon DEF Serve, r
<1>. HIDE DEF Answered, Typed
<1>12. Answered /\ Typed
  BY <1>4, <1>6, <1>7, <1>8, <1>9, <1>10, <1>11
<1>. QED
  BY <1>1, <1>12 DEF r, Answered, Typed

LEMMA ServeKeeps ==
  ASSUME IInv, Serve
  PROVE  IInv'
<1>1. /\ TypeOK /\ Counted /\ Looking /\ NothingLeft /\ SettingsLast /\ OwnLogins /\ BufferOwn
      /\ AuthAgrees /\ LoggedInAsEntered /\ (~Piled => LoginFirst)
  BY DEF IInv
<1>2. /\ toServer # <<>> /\ session \in {"guest", "user"} /\ toServer' = Tail(toServer)
      /\ UNCHANGED <<connected, connection, buffer, boxes, connecting, logins, entered, authenticated,
                     lastCmd, logRequested, uploadId, downloadId, saving, windows, requests, reported>>
  BY Zenon DEF Serve, socketVars, settingsVars, memberVars, windowVars
<1>3. connected /\ ~Shown("critical")
  BY <1>1, <1>2 DEF NothingLeft, TypeOK
<1>. DEFINE r == Head(toServer)
<1>4. PICK ok \in BOOLEAN, id \in Nat : Answer(r, ok, id) /\ (r.cmd = "login" /\ ok => session' = "user")
  BY <1>1, <1>2, Served
<1>5. /\ r = toServer[1] /\ r \in Requests /\ 1 \in DOMAIN toServer
      /\ session' \in {"none", "guest", "user"} /\ (session' = "guest" => session = "guest")
      /\ session' = "user" => login' = connection - 1
      /\ login' \in 0..MaxEntered /\ nextTaskId' \in Nat \ {0} /\ stored' \in Nat
      /\ tasks' \subseteq [id : 1..nextTaskId' - 1, cmd : {"upstart", "downstart"}]
  BY <1>1, <1>2, Served
<1>. HIDE DEF r
<1>. DEFINE a == [cmd |-> r.cmd, ok |-> ok, id |-> id, on |-> connection]
            new == << <<a, 1>>, <<a, 2>> >>
<1>6. /\ a \in Answers /\ a.cmd = r.cmd /\ a.ok = ok /\ a.on = connection
      /\ toClient \in Seq(Pieces) /\ Len(toClient) \in Nat /\ DOMAIN toClient = 1 .. Len(toClient)
      /\ connection \in Nat
  BY <1>1, <1>5 DEF TypeOK, Answers, Requests
<1>7. toClient' = toClient \o new
  BY <1>4 DEF Answer, Reply
<1>. HIDE DEF a
<1>8. /\ new \in Seq(Pieces) /\ DOMAIN new = {1, 2} /\ new[1] = <<a, 1>> /\ new[2] = <<a, 2>>
  <2>1. <<a, 1>> \in Pieces /\ <<a, 2>> \in Pieces
    BY <1>6 DEF Pieces, Answers
  <2>. QED
    BY <2>1
<1>9. \A i \in DOMAIN new : i \in {1, 2} /\ new[i][1] = a
  BY <1>8
<1>. HIDE DEF new
<1>10. /\ toClient' \in Seq(Pieces)
       /\ \A i \in DOMAIN toClient' :
             \/ i \in DOMAIN toClient /\ toClient'[i] = toClient[i]
             \/ i - Len(toClient) \in {1, 2} /\ toClient'[i][1] = a
  <2>1. /\ toClient' \in Seq(Pieces)
        /\ \A i \in DOMAIN toClient' :
              \/ i \in DOMAIN toClient /\ toClient'[i] = toClient[i]
              \/ i - Len(toClient) \in DOMAIN new /\ toClient'[i] = new[i - Len(toClient)]
    <3>. DEFINE all == toClient \o new
    <3>1. toClient \in Seq(Pieces) /\ new \in Seq(Pieces)
      BY <1>6, <1>8
    <3>2. /\ all \in Seq(Pieces)
          /\ \A i \in DOMAIN all :
                \/ i \in DOMAIN toClient /\ all[i] = toClient[i]
                \/ i - Len(toClient) \in DOMAIN new /\ all[i] = new[i - Len(toClient)]
      BY <3>1, Joined
    <3>. HIDE DEF all
    <3>3. toClient' = all
      BY <1>7 DEF all
    <3>. QED
      BY <3>2, <3>3
  <2>. QED
    BY <1>9, <2>1
<1>11. /\ toServer' \in Seq(Requests)
       /\ \A i \in DOMAIN toServer' : i \in Nat \ {0} /\ i + 1 \in DOMAIN toServer /\ toServer'[i] = toServer[i + 1]
  BY <1>1, <1>2, TailOf DEF TypeOK
<1>12. TypeOK'
  BY <1>1, <1>2, <1>5, <1>10, <1>11 DEF TypeOK
<1>13. Counted' /\ Looking' /\ SettingsLast'
  BY <1>1, <1>2 DEF Counted, Looking, SettingsLast, Complete
<1>14. NothingLeft'
  BY <1>2, <1>3 DEF NothingLeft, Shown
<1>15. OwnLogins'
  BY <1>1, <1>2, <1>11 DEF OwnLogins
<1>16. BufferOwn' /\ (Own' <=> Own) /\ (Complete' <=> Complete) /\ (Piled' <=> Piled)
  <2>1. \A i \in DOMAIN toClient' : toClient'[i][1].on = connection
    BY <1>1, <1>6, <1>10 DEF BufferOwn
  <2>. QED
    BY <1>1, <1>2, <2>1 DEF BufferOwn, Own, Complete, Piled
<1>17. LoggedInAsEntered' /\ AuthAgrees'
  BY <1>1, <1>2, <1>5, <1>16 DEF LoggedInAsEntered, AuthAgrees
<1>18. ASSUME LoginFirst PROVE LoginFirst'
  <2>1. LoginPending' <=> LoginPending
    BY <1>2 DEF LoginPending, Reading
  <2>2. \A i \in DOMAIN toServer' : toServer'[i].cmd # "login"
    <3>1. ASSUME NEW i \in DOMAIN toServer', toServer'[i].cmd = "login" PROVE FALSE
      <4>1. i \in Nat \ {0} /\ i + 1 \in DOMAIN toServer /\ toServer[i + 1].cmd = "login"
        BY <1>11, <3>1
      <4>2. i + 1 = 1
        BY <1>18, <4>1 DEF LoginFirst
      <4>. QED
        BY <4>1, <4>2
    <3>. QED
      BY <3>1
  <2>3. Own => \A i \in DOMAIN buffer : buffer[i][1].cmd = "login" =>
                i <= 2 /\ LoginPending' /\ (buffer[i][1].ok => session' # "guest")
    BY <1>5, <1>18, <2>1 DEF LoginFirst
  <2>4. ASSUME Own, NEW i \in DOMAIN toClient', toClient'[i][1].cmd = "login"
        PROVE  Len(buffer) + i <= 2 /\ LoginPending' /\ (toClient'[i][1].ok => session' # "guest")
    <3>1. CASE i \in DOMAIN toClient /\ toClient'[i] = toClient[i]
      BY <1>5, <1>18, <2>1, <2>4, <3>1 DEF LoginFirst
    <3>2. CASE i - Len(toClient) \in {1, 2} /\ toClient'[i][1] = a
      <4>1. toServer[1].cmd = "login"
        BY <1>5, <1>6, <2>4, <3>2
      <4>2. toClient = <<>> /\ buffer = <<>> /\ LoginPending
        BY <1>5, <1>18, <2>4, <4>1 DEF LoginFirst
      <4>3. Len(<<>>) = 0
        OBVIOUS
      <4>4. i \in {1, 2}
        <5>1. i \in Int
          BY <1>10
        <5>. QED
          BY <3>2, <4>2, <4>3, <5>1
      <4>5. Len(buffer) + i <= 2
        BY <4>2, <4>3, <4>4
      <4>6. toClient'[i][1].ok => session' # "guest"
        BY <1>4, <1>5, <1>6, <3>2, <4>1
      <4>. QED
        BY <2>1, <4>2, <4>5, <4>6
    <3>. QED
      BY <1>10, <2>4, <3>1, <3>2
  <2>5. (~Own => ~authenticated) /\ (Own /\ Complete /\ buffer[1][1].cmd = "login" => ~Shown("critical"))
    BY <1>3, <1>18 DEF LoginFirst
  <2>. QED
    BY <1>2, <1>3, <1>16, <2>2, <2>3, <2>4, <2>5 DEF LoginFirst, Shown
<1>. QED
  BY <1>1, <1>12, <1>13, <1>14, <1>15, <1>16, <1>17, <1>18 DEF IInv

LEMMA ServerClosesKeeps ==
  ASSUME IInv, ServerCloses
  PROVE  IInv'
<1>1. /\ TypeOK /\ Counted /\ Looking /\ NothingLeft /\ SettingsLast /\ OwnLogins /\ BufferOwn
      /\ AuthAgrees /\ LoggedInAsEntered /\ (~Piled => LoginFirst)
  BY DEF IInv
<1>2. /\ session' = "none" /\ tasks' = {}
      /\ UNCHANGED <<connected, connection, buffer, boxes, connecting, logins, entered, authenticated,
                     lastCmd, logRequested, uploadId, downloadId, saving, windows, requests, reported,
                     toServer, toClient, login, nextTaskId, stored>>
  BY DEF ServerCloses, socketVars, settingsVars, memberVars, windowVars, networkVars
<1>3. TypeOK'
  BY <1>1, <1>2 DEF TypeOK
<1>4. /\ Counted' /\ Looking' /\ SettingsLast' /\ NothingLeft' /\ OwnLogins' /\ BufferOwn' /\ AuthAgrees'
      /\ LoggedInAsEntered'
  BY <1>1, <1>2 DEF Counted, Looking, SettingsLast, NothingLeft, Shown, OwnLogins, BufferOwn, Own,
                    Complete, AuthAgrees, Piled, LoggedInAsEntered
<1>5. LoginFirst => LoginFirst'
  BY <1>2 DEF LoginFirst, LoginPending, Reading, Own, Complete, Shown
<1>. QED
  BY <1>1, <1>2, <1>3, <1>4, <1>5 DEF IInv, Piled

-----------------------------------------------------------------------------
(* The theorems *)

LEMMA InitHolds == Init => IInv
<1>. SUFFICES ASSUME Init PROVE IInv
  OBVIOUS
<1>1. /\ <<>> \in Seq(Requests) /\ <<>> \in Seq(Pieces) /\ <<>> \in Seq(Boxes) /\ <<>> \in Seq(0..MaxEntered)
      /\ DOMAIN <<>> = {} /\ Len(<<>>) = 0
  OBVIOUS
<1>2. TypeOK
  <2>1. 0 \in 0..MaxEntered /\ 0 \in 0..MaxRequests /\ 1 \in Nat \ {0} /\ 0 \in Nat
    BY ClientAssumption
  <2>2. \A S : {} \subseteq S
    OBVIOUS
  <2>3. connected \in BOOLEAN /\ authenticated \in BOOLEAN /\ lastCmd \in Commands \cup {"none"}
        /\ logRequested \in BOOLEAN /\ saving \in BOOLEAN /\ connecting \in BOOLEAN /\ windows \in BOOLEAN
        /\ session \in {"none", "guest", "user"}
    BY DEF Init
  <2>4. /\ buffer \in Seq(Pieces) /\ boxes \in Seq(Boxes) /\ toServer \in Seq(Requests)
        /\ toClient \in Seq(Pieces) /\ logins \in Seq(0..MaxEntered)
    BY <1>1 DEF Init
  <2>5. /\ connection \in 0..MaxEntered /\ uploadId \in Nat /\ downloadId \in Nat /\ entered \in 0..MaxEntered
        /\ requests \in 0..MaxRequests /\ reported \in Nat /\ login \in 0..MaxEntered
        /\ nextTaskId \in Nat \ {0} /\ stored \in Nat
        /\ tasks \subseteq [id : 1..nextTaskId - 1, cmd : {"upstart", "downstart"}]
    BY <2>1, <2>2, Zenon DEF Init
  <2>. QED
    BY <2>3, <2>4, <2>5 DEF TypeOK, Boxes
<1>3. Counted /\ Looking /\ NothingLeft /\ SettingsLast /\ OwnLogins /\ BufferOwn /\ AuthAgrees
      /\ LoggedInAsEntered
  BY <1>1 DEF Init, Counted, Looking, NothingLeft, SettingsLast, OwnLogins, BufferOwn, Own, AuthAgrees,
              LoggedInAsEntered, Shown
<1>4. LoginFirst
  BY <1>1 DEF Init, LoginFirst, Own, Complete
<1>. QED
  BY <1>2, <1>3, <1>4 DEF IInv

LEMMA StutterKeeps ==
  ASSUME IInv, UNCHANGED vars
  PROVE  IInv'
<1>1. /\ TypeOK /\ Counted /\ Looking /\ NothingLeft /\ SettingsLast /\ OwnLogins /\ BufferOwn
      /\ AuthAgrees /\ LoggedInAsEntered /\ (~Piled => LoginFirst)
  BY DEF IInv
<1>2. UNCHANGED <<connected, connection, buffer, boxes, connecting, logins, entered, authenticated,
                  lastCmd, logRequested, uploadId, downloadId, saving, windows, requests, reported,
                  toServer, toClient, session, login, tasks, nextTaskId, stored>>
  BY DEF vars, windowVars, settingsVars, memberVars, socketVars, networkVars, serverVars
<1>3. TypeOK'
  BY <1>1, <1>2 DEF TypeOK
<1>4. Steady /\ UNCHANGED boxes /\ Sent
  BY <1>1, <1>2 DEF Steady, settingsVars, serverVars, Sent, TypeOK
<1>. QED
  BY <1>3, <1>4, SameBoxes, SteadyKeeps

LEMMA StepKeeps == IInv /\ [Next]_vars => IInv'
<1>. SUFFICES ASSUME IInv, [Next]_vars PROVE IInv'
  OBVIOUS
<1>1. CASE UserStep
  <2>1. \/ ShowSettings \/ AcceptSettings \/ ActionDisconnect \/ CloseBox
        \/ OpenFileManager \/ RequestLogFiles \/ StartDownload \/ StartDownloadFails
        \/ \E cmd \in {"list", "operation", "read"} : FileCommand(cmd)
        \/ \E n \in Blocks : UploadFile(n)
    BY <1>1 DEF UserStep
  <2>. QED
    BY <2>1, ShowSettingsKeeps, AcceptSettingsKeeps, ActionDisconnectKeeps, CloseBoxKeeps, RequestKeeps, Zenon
<1>2. CASE \E n \in 1..Len(toClient) : ReadyRead(n)
  BY <1>2, ReadyReadKeeps
<1>3. CASE Timer
  BY <1>3, RequestKeeps
<1>4. CASE ProcessFrame \/ Serve \/ ServerCloses
  BY <1>4, ProcessFrameKeeps, ServeKeeps, ServerClosesKeeps
<1>5. CASE Connected \/ ConnectFails \/ ConnectionLost
  BY <1>5, ConnectedKeeps, ConnectFailsKeeps, ConnectionLostKeeps
<1>6. CASE UNCHANGED vars
  BY <1>6, StutterKeeps
<1>. QED
  BY <1>1, <1>2, <1>3, <1>4, <1>5, <1>6, Zenon DEF Next

\* The inductive invariant holds in every reachable state.
THEOREM Invariance == Spec => []IInv
<1>. QED
  BY InitHolds, StepKeeps, PTL DEF Spec

\* Every variable has its type.
THEOREM TypeCorrect == Spec => []TypeOK
<1>1. IInv => TypeOK
  BY DEF IInv
<1>. QED
  BY Invariance, <1>1, PTL

\* Through every order of dialogs, losses and late reads, the client takes itself for
\* logged in only on a connection whose session is no guest's, unless one connection
\* has sent two passwords (parseLogin, onDisconnected, disconnect).
THEOREM AuthCorrect == Spec => []AuthAgrees
<1>1. IInv => AuthAgrees
  BY DEF IInv
<1>. QED
  BY Invariance, <1>1, PTL

\* A handler that showSettingsDialog leaves behind runs on the next connection only,
\* however many attempts fail before.
THEOREM EnteredCorrect == Spec => []LoggedInAsEntered
<1>1. IInv => LoggedInAsEntered
  BY DEF IInv
<1>. QED
  BY Invariance, <1>1, PTL

\* Although onDisconnected leaves the receive buffer as it is, no response of an earlier
\* connection is processed on a later one.
THEOREM OwnAnswersCorrect == Spec => OwnAnswers
<1>1. ASSUME IInv, Complete PROVE buffer[1][1].on = connection
  <2>1. Own /\ 1 \in DOMAIN buffer
    BY <1>1 DEF IInv, BufferOwn, Complete, TypeOK
  <2>. QED
    BY <2>1 DEF Own
<1>2. IInv => [Complete /\ buffer' = SubSeq(buffer, 3, Len(buffer))
                 => buffer[1][1].on = connection]_vars
  BY <1>1
<1>. QED
  BY Invariance, <1>2, PTL DEF OwnAnswers
================================================================================
