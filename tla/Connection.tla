----------------------------- MODULE Connection -----------------------------
(***************************************************************************)
(* One connection: the frames a client sends, the TCP stream that brings   *)
(* them in pieces, recv_frame, which reads each frame with two calls of    *)
(* recv, the loop of handle_client that dispatches it, and send_response   *)
(* (server/src/handler.c, network.c, protocol/protocol.c).                 *)
(*                                                                         *)
(* The stream is a sequence of pieces.  Piece <<k, 1>> is the beginning of *)
(* the header of the k-th frame (its magic), piece <<k, 2>> is the rest of *)
(* the header, and piece <<k, 2 + i>> is the i-th piece of its payload.  A *)
(* frame's sequence number is its place in the stream.  Two payloads of    *)
(* the same body have the same bytes at the same places; the checksum of a *)
(* frame is right exactly if its bytes are.                                *)
(***************************************************************************)
EXTENDS Integers, SequencesExt

CONSTANTS Commands,     \* what the client may send, among those of AllCommands
          Bodies,       \* payload contents
          Lengths,      \* payload lengths, in pieces
          WholeHeaders, \* no packet of the client ends inside a header
          MaxFrames     \* bound: frames the client sends

\* "login", "badlogin", "logout", "heartbeat": the commands of that name;
\* "request": a command whose answer fits a frame; "big": one whose answer has
\* more than MAX_PAYLOAD_SIZE bytes, such as FILE_READ of a file of 20 KB.
AllCommands == {"login", "badlogin", "logout", "heartbeat", "request", "big"}

ASSUME ConnectionAssumption ==
    /\ Commands \subseteq AllCommands
    /\ Lengths \subseteq Nat /\ WholeHeaders \in BOOLEAN
    /\ MaxFrames \in Nat

VARIABLES
    sent,       \* the frames the client has sent
    wire,       \* pieces on their way
    arrived,    \* pieces in the server's receive buffer
    at,         \* where the server is: in one of the two calls of recv, or done
    got,        \* the pieces of the current frame in recv_frame's buffer
    claim,      \* the frame whose header fields recv_frame works with
    last,       \* the last frame accepted, whose bytes are still on the stack
    auth,       \* sess->is_authenticated
    dispatched, \* history: the frames handed to a handler
    replies,    \* the responses the client receives: which frames they answer
    reason      \* why the connection was closed

vars == <<sent, wire, arrived, at, got, claim, last, auth, dispatched, replies, reason>>

Init ==
    /\ sent = <<>> /\ wire = <<>> /\ arrived = <<>>
    /\ at = "header" /\ got = <<>> /\ claim = 0 /\ last = 0
    /\ auth = FALSE
    /\ dispatched = <<>> /\ replies = <<>>
    /\ reason = "open"

Least(a, b) == IF a < b THEN a ELSE b
Take(s, n)  == SubSeq(s, 1, n)
Drop(s, n)  == SubSeq(s, n + 1, Len(s))

-----------------------------------------------------------------------------
(* The client and the network *)

\* protocol_pack and tcp_send on the client's side; it need not wait for answers.
ClientSends(c, b, n) ==
    /\ Len(sent) < MaxFrames
    /\ sent' = Append(sent, [cmd |-> c, body |-> b, length |-> n])
    /\ wire' = wire \o [i \in 1..n + 2 |-> <<Len(sent) + 1, i>>]
    /\ UNCHANGED <<arrived, at, got, claim, last, auth, dispatched, replies, reason>>

\* A packet brings the next n pieces.
Deliver(n) ==
    /\ reason = "open"
    /\ n \in 1..Len(wire)
    /\ WholeHeaders => wire[n][2] # 1
    /\ arrived' = arrived \o Take(wire, n)
    /\ wire' = Drop(wire, n)
    /\ UNCHANGED <<sent, at, got, claim, last, auth, dispatched, replies, reason>>

-----------------------------------------------------------------------------
(* recv_frame *)

(* The definitions named ..._Bug are mistakes of the kind each property is to
   find; no behaviour of the specification uses them. *)

\* The closed connection is left in a state the loop does not know.
CloseWith_Bug(why) ==
    /\ reason' = why
    /\ at' = "done"
    /\ got' = <<>> /\ claim' = 0

\* The loop of handle_client ends and session_destroy closes the connection.
CloseWith(why) ==
    /\ reason' = why
    /\ at' = "closed"
    /\ got' = <<>> /\ claim' = 0

\* Takes whatever has come, without a limit.
Receive_Bug(wanted) ==
    /\ arrived # <<>>
    /\ got' = got \o arrived
    /\ arrived' = <<>>

\* tcp_recv: one call of recv, which returns what is there, up to what is asked for.
Receive(wanted) ==
    LET n == Least(wanted, Len(arrived))
    IN  /\ arrived # <<>>
        /\ got' = got \o Take(arrived, n)
        /\ arrived' = Drop(arrived, n)

\* The first call asks for a header.  Its fields are taken from the buffer
\* whether or not all of it has come: after a short read they are what the stack
\* holds there, the fields of the last frame or anything.
ReceiveHeader ==
    /\ at = "header"
    /\ Receive(2)
    /\ \E h \in IF Len(got') = 2 THEN {got'[1][1]} ELSE {last, 0} :
        claim' = IF got'[1][2] = 1 THEN h ELSE 0
    /\ at' = "body"
    /\ UNCHANGED <<sent, wire, last, auth, dispatched, replies, reason>>

\* Asks for one piece too many.
NeedLength_Bug == 3 + sent[claim].length

\* What a complete frame of this header takes.
NeedLength == 2 + sent[claim].length

\* The second call asks for what is missing, once.
ReceiveBody ==
    /\ at = "body" /\ claim # 0 /\ Len(got) < NeedLength
    /\ Receive(NeedLength - Len(got))
    /\ at' = "check"
    /\ UNCHANGED <<sent, wire, claim, last, auth, dispatched, replies, reason>>

\* No second call is needed.
SkipBody ==
    /\ at = "body" /\ claim # 0 /\ Len(got) >= NeedLength
    /\ at' = "check"
    /\ UNCHANGED <<sent, wire, arrived, got, claim, last, auth, dispatched, replies, reason>>

\* The bytes the checksum is computed over are those that have come and, behind
\* them, those the last frame may have left in the buffer.
PieceRight(i) ==
    IF 2 + i <= Len(got)
    THEN LET p == got[2 + i]
         IN  p[2] = 2 + i /\ sent[p[1]].body = sent[claim].body
    ELSE last # 0 /\ i <= sent[last].length /\ sent[last].body = sent[claim].body
ChecksumMayMatch == \A i \in 1..sent[claim].length : PieceRight(i)

\* Wrong magic or checksum: recv_frame returns -1.  The bytes that did not come
\* may be anything.
RejectFrame ==
    /\ \/ at = "body" /\ claim = 0
       \/ at = "check" /\ (~ChecksumMayMatch \/ Len(got) < NeedLength)
    /\ CloseWith("rejected")
    /\ UNCHANGED <<sent, wire, arrived, last, auth, dispatched, replies>>

\* Nothing comes within g_config->timeout seconds.
Timeout ==
    /\ at \in {"header", "body"} /\ arrived = <<>>
    /\ at = "body" => claim # 0 /\ Len(got) < NeedLength
    /\ CloseWith("timeout")
    /\ UNCHANGED <<sent, wire, arrived, last, auth, dispatched, replies>>

-----------------------------------------------------------------------------
(* handle_client and send_response *)

\* Only LOGIN and HEARTBEAT do not ask for a login, LOGOUT does not care.
AuthAfter(c) == IF c = "login" THEN TRUE ELSE IF c = "logout" THEN FALSE ELSE auth

\* Whether protocol_pack accepts the answer; if not, nothing is sent and
\* send_response's result is not looked at.
Packed(c) == ~(c = "big" /\ auth)

\* A failed login is not answered.
SendResponse_Bug(k) ==
    replies' = IF sent[k].cmd # "badlogin"
               THEN Append(replies, k)
               ELSE replies

\* The k-th frame is answered; for the seq field of the answer see README.
SendResponse(k) ==
    replies' = IF Packed(sent[k].cmd)
               THEN Append(replies, k)
               ELSE replies

\* The loop goes on after a logout.
Dispatch_Bug ==
    /\ at = "check" /\ ChecksumMayMatch
    /\ auth' = AuthAfter(sent[claim].cmd)
    /\ SendResponse(claim)
    /\ at' = "header" /\ got' = <<>> /\ claim' = 0 /\ UNCHANGED reason
    /\ dispatched' = Append(dispatched, claim)
    /\ last' = claim
    /\ UNCHANGED <<sent, wire, arrived>>

\* The checksum is right: the frame is dispatched and answered, and the loop goes
\* on unless the session is not logged in then and the command was no LOGIN.
Dispatch ==
    /\ at = "check" /\ ChecksumMayMatch
    /\ LET c == sent[claim].cmd
       IN /\ auth' = AuthAfter(c)
          /\ SendResponse(claim)
          /\ IF ~auth' /\ c \notin {"login", "badlogin"}
             THEN CloseWith("over")
             ELSE at' = "header" /\ got' = <<>> /\ claim' = 0 /\ UNCHANGED reason
    /\ dispatched' = Append(dispatched, claim)
    /\ last' = claim
    /\ UNCHANGED <<sent, wire, arrived>>

Closed == at = "closed" /\ UNCHANGED vars

-----------------------------------------------------------------------------
ServerStep == ReceiveHeader \/ ReceiveBody \/ SkipBody \/ RejectFrame \/ Dispatch

Next ==
    \/ \E c \in Commands, b \in Bodies, n \in Lengths : ClientSends(c, b, n)
    \/ \E n \in 1..Len(wire) : Deliver(n)
    \/ ServerStep \/ Timeout \/ Closed

Spec == Init /\ [][Next]_vars

(* Fairness: the network delivers and the server's thread runs.  The timeout is
   not forced, and the client sends what it likes. *)
FairSpec ==
    /\ Spec
    /\ WF_vars(\E n \in 1..Len(wire) : Deliver(n))
    /\ WF_vars(ServerStep)

-----------------------------------------------------------------------------
(* Properties *)

Pieces == (1..MaxFrames) \X Nat

\* Every variable has its type.
TypeOK ==
    /\ sent \in Seq([cmd : Commands, body : Bodies, length : Lengths])
    /\ wire \in Seq(Pieces) /\ arrived \in Seq(Pieces) /\ got \in Seq(Pieces)
    /\ at \in {"header", "body", "check", "closed"}
    /\ claim \in 0..Len(sent) /\ last \in 0..Len(sent)
    /\ auth \in BOOLEAN
    /\ dispatched \in Seq(1..MaxFrames)
    /\ replies \in Seq(1..MaxFrames)
    /\ reason \in {"open", "rejected", "timeout", "over"}

\* However the stream is cut into packets, the handlers get the frames the client
\* sent, in that order, none twice and none skipped.
DispatchedAsSent == \A i \in DOMAIN dispatched : dispatched[i] = i

\* The connection survives a command only after a login, or as an attempt at one:
\* before it, and after a logout, the first other command ends it.
LoggedInToStay ==
    \A i \in DOMAIN dispatched :
        i < Len(dispatched) \/ reason = "open"
            => \/ sent[dispatched[i]].cmd \in {"login", "badlogin"}
               \/ /\ \E j \in 1..i - 1 : sent[dispatched[j]].cmd = "login"
                  /\ \A j \in 1..i : sent[dispatched[j]].cmd # "logout"

\* Every frame dispatched is answered, once, in order.
EveryRequestAnswered == replies = dispatched

\* A frame that is correct is not rejected, in however many packets it comes.
CorrectFramesAccepted == reason # "rejected"

\* What the client sends is answered, or the connection is closed.
AnsweredOrClosed ==
    \A k \in 1..MaxFrames :
        Len(sent) >= k ~> at = "closed" \/ \E i \in DOMAIN replies : replies[i] = k
=============================================================================
