-------------------------- MODULE Connection_proofs --------------------------
(***************************************************************************)
(* Theorems about one connection, for any commands, payloads and number of *)
(* frames, however the stream is cut into packets.                         *)
(***************************************************************************)
EXTENDS Connection, TLAPS, SequenceTheorems, WellFoundedInduction

Frames == [cmd : Commands, body : Bodies, length : Lengths]

-----------------------------------------------------------------------------
(* The stream *)

\* A piece of the frames s, and the one that follows it.
PieceOf(s, p) ==
    /\ p \in (1 .. Len(s)) \X Nat
    /\ p[2] \in 1 .. 2 + s[p[1]].length
After(s, p) == IF p[2] < 2 + s[p[1]].length THEN <<p[1], p[2] + 1>> ELSE <<p[1] + 1, 1>>

\* The i-th piece of q, if r comes behind q.
Piece(q, r, i) == IF i <= Len(q) THEN q[i] ELSE r

\* The pieces q are those of s from p up to but not including r, none left out.
Runs(s, q, p, r) ==
    /\ q \in Seq(Nat \X Nat)
    /\ \A i \in 1 .. Len(q) : PieceOf(s, q[i]) /\ After(s, q[i]) = Piece(q, r, i + 1)
    /\ Piece(q, r, 1) = p

LEMMA Subsequence ==
  ASSUME NEW S, NEW q \in Seq(S), NEW n \in 0 .. Len(q)
  PROVE  /\ Take(q, n) \in Seq(S) /\ Len(Take(q, n)) = n
         /\ \A i \in 1 .. n : Take(q, n)[i] = q[i]
         /\ Drop(q, n) \in Seq(S) /\ Len(Drop(q, n)) = Len(q) - n
         /\ \A i \in 1 .. Len(q) - n : Drop(q, n)[i] = q[n + i]
<1>1. Len(q) \in Nat /\ DOMAIN q = 1 .. Len(q) /\ \A i \in 1 .. Len(q) : q[i] \in S
  OBVIOUS
<1>2. /\ Take(q, n) = [i \in 1 .. n |-> q[i]]
      /\ Drop(q, n) = [i \in 1 .. Len(q) - n |-> q[n + i]]
  BY <1>1 DEF Take, Drop
<1>3. [i \in 1 .. n |-> q[i]] \in Seq(S) /\ Len([i \in 1 .. n |-> q[i]]) = n
  BY <1>1
<1>4. /\ [i \in 1 .. Len(q) - n |-> q[n + i]] \in Seq(S)
      /\ Len([i \in 1 .. Len(q) - n |-> q[n + i]]) = Len(q) - n
  BY <1>1
<1>. QED
  BY <1>2, <1>3, <1>4

\* Where a stream is cut, both parts are streams, and they meet there.
LEMMA RunsCut ==
  ASSUME NEW s, NEW q, NEW p, NEW r, Runs(s, q, p, r), NEW n \in 0 .. Len(q)
  PROVE  /\ Runs(s, Take(q, n), p, Piece(q, r, n + 1))
         /\ Runs(s, Drop(q, n), Piece(q, r, n + 1), r)
<1>. DEFINE a == Take(q, n)
            b == Drop(q, n)
            m == Piece(q, r, n + 1)
<1>1. q \in Seq(Nat \X Nat) /\ Len(q) \in Nat
  BY DEF Runs
<1>2. /\ a \in Seq(Nat \X Nat) /\ Len(a) = n /\ \A i \in 1 .. n : a[i] = q[i]
      /\ b \in Seq(Nat \X Nat) /\ Len(b) = Len(q) - n
      /\ \A i \in 1 .. Len(q) - n : b[i] = q[n + i]
  BY <1>1, Subsequence
<1>. HIDE DEF a, b
<1>3. \A i \in 1 .. n + 1 : Piece(a, m, i) = Piece(q, r, i)
  BY <1>1, <1>2 DEF Piece
<1>4. \A i \in 1 .. Len(q) - n + 1 : Piece(b, r, i) = Piece(q, r, n + i)
  BY <1>1, <1>2 DEF Piece
<1>. HIDE DEF m
<1>5. Runs(s, a, p, m)
  <2>1. ASSUME NEW i \in 1 .. n PROVE PieceOf(s, a[i]) /\ After(s, a[i]) = Piece(a, m, i + 1)
    <3>1. i \in 1 .. Len(q) /\ i + 1 \in 1 .. n + 1
      BY <1>1, <2>1
    <3>2. PieceOf(s, q[i]) /\ After(s, q[i]) = Piece(q, r, i + 1)
      BY <3>1 DEF Runs
    <3>. QED
      BY <1>2, <1>3, <2>1, <3>1, <3>2
  <2>2. Piece(a, m, 1) = p
    BY <1>1, <1>3 DEF Runs
  <2>. QED
    BY <1>2, <2>1, <2>2 DEF Runs
<1>6. Runs(s, b, m, r)
  <2>1. ASSUME NEW i \in 1 .. Len(q) - n
        PROVE  PieceOf(s, b[i]) /\ After(s, b[i]) = Piece(b, r, i + 1)
    <3>1. n + i \in 1 .. Len(q) /\ i + 1 \in 1 .. Len(q) - n + 1 /\ n + (i + 1) = (n + i) + 1
      BY <1>1, <2>1
    <3>2. PieceOf(s, q[n + i]) /\ After(s, q[n + i]) = Piece(q, r, (n + i) + 1)
      BY <3>1 DEF Runs
    <3>. QED
      BY <1>2, <1>4, <2>1, <3>1, <3>2
  <2>2. Piece(b, r, 1) = m
    BY <1>1, <1>4 DEF m
  <2>. QED
    BY <1>2, <2>1, <2>2 DEF Runs
<1>. QED
  BY <1>5, <1>6 DEF a, b, m

\* Two streams that meet are one.
LEMMA RunsJoined ==
  ASSUME NEW s, NEW a, NEW b, NEW p, NEW m, NEW r, Runs(s, a, p, m), Runs(s, b, m, r)
  PROVE  Runs(s, a \o b, p, r)
<1>. DEFINE q == a \o b
<1>1. a \in Seq(Nat \X Nat) /\ b \in Seq(Nat \X Nat) /\ Len(a) \in Nat /\ Len(b) \in Nat
  BY DEF Runs
<1>2. /\ q \in Seq(Nat \X Nat) /\ Len(q) = Len(a) + Len(b)
      /\ \A i \in 1 .. Len(q) : q[i] = IF i <= Len(a) THEN a[i] ELSE b[i - Len(a)]
  BY <1>1, ConcatProperties
<1>. HIDE DEF q
<1>3. /\ \A i \in 1 .. Len(a) : q[i] = a[i]
      /\ \A i \in 1 .. Len(b) : q[Len(a) + i] = b[i]
  <2>1. ASSUME NEW i \in 1 .. Len(a) PROVE q[i] = a[i]
    <3>1. i \in 1 .. Len(q) /\ i <= Len(a)
      BY <1>1, <1>2
    <3>. QED
      BY <1>2, <3>1
  <2>2. ASSUME NEW i \in 1 .. Len(b) PROVE q[Len(a) + i] = b[i]
    <3>1. Len(a) + i \in 1 .. Len(q) /\ ~(Len(a) + i <= Len(a)) /\ (Len(a) + i) - Len(a) = i
      <4>1. Len(a) \in Nat /\ Len(b) \in Nat /\ Len(q) = Len(a) + Len(b)
        BY <1>1, <1>2
      <4>2. ASSUME NEW x \in Nat, NEW y \in Nat, NEW z \in 1 .. y
            PROVE  x + z \in 1 .. x + y /\ ~(x + z <= x) /\ (x + z) - x = z
        OBVIOUS
      <4>. QED
        BY <4>1, <4>2
    <3>. QED
      BY <1>2, <3>1
  <2>. QED
    BY <2>1, <2>2
<1>4. ASSUME NEW i \in 1 .. Len(b) + 1 PROVE Piece(q, r, Len(a) + i) = Piece(b, r, i)
  <2>1. Len(a) + i <= Len(q) <=> i <= Len(b)
    BY <1>1, <1>2
  <2>2. i <= Len(b) => i \in 1 .. Len(b)
    BY <1>1
  <2>. QED
    BY <1>3, <2>1, <2>2 DEF Piece
<1>5. Piece(q, r, Len(a) + 1) = m /\ Piece(a, m, Len(a) + 1) = m
  <2>1. 1 \in 1 .. Len(b) + 1 /\ ~(Len(a) + 1 <= Len(a))
    BY <1>1
  <2>2. Piece(b, r, 1) = m
    BY DEF Runs
  <2>. QED
    BY <1>4, <2>1, <2>2 DEF Piece
<1>6. ASSUME NEW i \in 1 .. Len(a) + 1 PROVE Piece(q, r, i) = Piece(a, m, i)
  <2>1. CASE i = Len(a) + 1
    BY <1>5, <2>1
  <2>2. CASE i # Len(a) + 1
    <3>1. i \in 1 .. Len(a) /\ i <= Len(a) /\ i <= Len(q)
      BY <1>1, <1>2, <2>2
    <3>. QED
      BY <1>3, <3>1 DEF Piece
  <2>. QED
    BY <2>1, <2>2
<1>7. ASSUME NEW i \in 1 .. Len(q)
      PROVE  PieceOf(s, q[i]) /\ After(s, q[i]) = Piece(q, r, i + 1)
  <2>1. CASE i <= Len(a)
    <3>1. i \in 1 .. Len(a) /\ i + 1 \in 1 .. Len(a) + 1
      BY <1>1, <1>7, <2>1
    <3>2. PieceOf(s, a[i]) /\ After(s, a[i]) = Piece(a, m, i + 1)
      BY <3>1 DEF Runs
    <3>. QED
      BY <1>3, <1>6, <3>1, <3>2
  <2>2. CASE i > Len(a)
    <3>1. PICK j \in 1 .. Len(b) : i = Len(a) + j
      <4>1. i - Len(a) \in 1 .. Len(b) /\ i = Len(a) + (i - Len(a))
        BY <1>1, <1>2, <1>7, <2>2
      <4>. QED
        BY <4>1
    <3>2. j + 1 \in 1 .. Len(b) + 1 /\ Len(a) + (j + 1) = i + 1
      BY <1>1, <3>1
    <3>3. PieceOf(s, b[j]) /\ After(s, b[j]) = Piece(b, r, j + 1)
      BY DEF Runs
    <3>4. Piece(q, r, Len(a) + (j + 1)) = Piece(b, r, j + 1)
      BY <1>4, <3>2
    <3>. QED
      BY <1>3, <3>1, <3>2, <3>3, <3>4
  <2>. QED
    BY <1>1, <1>2, <2>1, <2>2
<1>8. Piece(q, r, 1) = p
  <2>1. 1 \in 1 .. Len(a) + 1
    BY <1>1
  <2>. QED
    BY <1>6, <2>1 DEF Runs
<1>. QED
  BY <1>2, <1>7, <1>8 DEF Runs, q

\* Another frame changes nothing for the pieces of those before it.
LEMMA RunsStand ==
  ASSUME NEW s \in Seq(Frames), NEW f, NEW q, NEW p, NEW r, Runs(s, q, p, r)
  PROVE  Runs(Append(s, f), q, p, r)
<1>1. /\ Len(s) \in Nat /\ Len(Append(s, f)) = Len(s) + 1
      /\ \A k \in 1 .. Len(s) : Append(s, f)[k] = s[k]
  OBVIOUS
<1>2. \A x : PieceOf(s, x) => PieceOf(Append(s, f), x) /\ After(Append(s, f), x) = After(s, x)
  BY <1>1 DEF PieceOf, After
<1>. QED
  BY <1>2 DEF Runs

\* The pieces of a frame.
LEMMA RunsFrame ==
  ASSUME NEW s \in Seq(Frames), NEW f \in Frames
  PROVE  Runs(Append(s, f), [i \in 1 .. f.length + 2 |-> <<Len(s) + 1, i>>],
              <<Len(s) + 1, 1>>, <<Len(Append(s, f)) + 1, 1>>)
<1>. DEFINE z == Append(s, f)
            k == Len(s) + 1
            n == f.length + 2
            q == [i \in 1 .. n |-> <<k, i>>]
            r == <<Len(z) + 1, 1>>
<1>1. Len(s) \in Nat /\ Len(z) = Len(s) + 1 /\ z[k] = f /\ k \in 1 .. Len(z) /\ k \in Nat
  OBVIOUS
<1>2. n \in Nat \ {0, 1} /\ z[k].length = f.length /\ f.length \in Nat /\ 2 + f.length = n
  <2>1. f.length \in Nat
    BY ConnectionAssumption DEF Frames
  <2>. QED
    BY <1>1, <2>1
<1>. HIDE DEF z, k, n
<1>3. q \in Seq(Nat \X Nat) /\ Len(q) = n
  <2>1. \A i \in 1 .. n : <<k, i>> \in Nat \X Nat
    BY <1>1, <1>2
  <2>. QED
    BY <1>2, <2>1
<1>4. \A i \in 1 .. n : q[i] = <<k, i>> /\ q[i][1] = k /\ q[i][2] = i
  OBVIOUS
<1>. HIDE DEF q
<1>5. ASSUME NEW i \in 1 .. n PROVE PieceOf(z, q[i]) /\ After(z, q[i]) = Piece(q, r, i + 1)
  <2>1. PieceOf(z, q[i])
    <3>1. <<k, i>> \in (1 .. Len(z)) \X Nat /\ i \in 1 .. 2 + z[k].length
      BY <1>1, <1>2
    <3>. QED
      BY <1>4, <3>1 DEF PieceOf
  <2>2. CASE i < n
    <3>1. After(z, q[i]) = <<k, i + 1>>
      BY <1>2, <1>4, <2>2 DEF After
    <3>2. Piece(q, r, i + 1) = <<k, i + 1>>
      BY <1>2, <1>3, <1>4, <2>2 DEF Piece
    <3>. QED
      BY <2>1, <3>1, <3>2
  <2>3. CASE i = n
    <3>1. After(z, q[i]) = <<k + 1, 1>>
      BY <1>2, <1>4, <2>3 DEF After
    <3>2. Piece(q, r, i + 1) = r
      BY <1>2, <1>3, <2>3 DEF Piece
    <3>3. k + 1 = Len(z) + 1
      BY <1>1 DEF k
    <3>. QED
      BY <2>1, <3>1, <3>2, <3>3
  <2>. QED
    BY <1>2, <2>2, <2>3
<1>6. Piece(q, r, 1) = <<k, 1>>
  BY <1>2, <1>3, <1>4 DEF Piece
<1>. QED
  BY <1>3, <1>5, <1>6 DEF Runs, q, z, k, n

\* A non-empty set of natural numbers has a smallest element.
LEMMA Smallest ==
  ASSUME NEW S \in SUBSET Nat, S # {}
  PROVE  \E m \in S : \A k \in S : m <= k
<1>1. PICK m \in S : \A k \in S : <<k, m>> \notin OpToRel(<, Nat)
  BY WFMin, NatLessThanWellFounded, Zenon
<1>2. \A k \in S : ~(k < m)
  BY <1>1, Zenon DEF OpToRel
<1>. QED
  BY <1>2

\* As long as a stream is in a frame, it has the frame's pieces in their order.
LEMMA InFrame ==
  ASSUME NEW s \in Seq(Frames), NEW q, NEW p, NEW r, Runs(s, q, p, r),
         NEW k \in 1 .. Len(s), NEW j \in 1 .. 2 + s[k].length, p = <<k, j>>,
         NEW n \in 1 .. Len(q), j + n <= 3 + s[k].length
  PROVE  q[n] = <<k, j + n - 1>>
<1>. DEFINE Bad == {i \in 1 .. n : q[i] # <<k, j + i - 1>>}
<1>1. Len(q) \in Nat /\ s[k].length \in Nat
  <2>1. Len(q) \in Nat
    BY DEF Runs
  <2>2. s[k] \in Frames
    OBVIOUS
  <2>3. s[k].length \in Nat
    BY <2>2, ConnectionAssumption DEF Frames
  <2>. QED
    BY <2>1, <2>3
<1>2. SUFFICES ASSUME n \in Bad PROVE FALSE
  OBVIOUS
<1>3. PICK i \in Bad : \A h \in Bad : i <= h
  <2>1. Bad # {}
    BY <1>2
  <2>2. Bad \in SUBSET Nat
    OBVIOUS
  <2>. HIDE DEF Bad
  <2>. QED
    BY <2>1, <2>2, Smallest
<1>4. i # 1
  BY <1>1 DEF Runs, Piece
<1>5. q[i - 1] = <<k, j + (i - 1) - 1>>
  BY <1>1, <1>3, <1>4
<1>6. After(s, q[i - 1]) = q[i]
  <2>1. i - 1 \in 1 .. Len(q) /\ (i - 1) + 1 = i /\ i <= Len(q)
    BY <1>1, <1>3, <1>4
  <2>. QED
    BY <2>1 DEF Runs, Piece
<1>7. After(s, q[i - 1]) = <<k, j + i - 1>>
  <2>1. i \in 1 .. n /\ n \in Nat /\ j \in Nat
    BY <1>1
  <2>2. j + (i - 1) - 1 < 2 + s[k].length /\ j + (i - 1) - 1 + 1 = j + i - 1
    <3>1. ASSUME NEW x \in Nat, NEW y \in Nat, NEW z \in Nat, NEW l \in Nat, x <= y, z + y <= 3 + l
          PROVE  z + (x - 1) - 1 < 2 + l /\ z + (x - 1) - 1 + 1 = z + x - 1
      BY <3>1
    <3>2. i \in Nat /\ i <= n
      BY <2>1
    <3>. QED
      BY <1>1, <2>1, <3>1, <3>2
  <2>3. q[i - 1][1] = k /\ q[i - 1][2] = j + (i - 1) - 1
    BY <1>5
  <2>. QED
    BY <2>2, <2>3 DEF After
<1>. QED
  BY <1>6, <1>7

-----------------------------------------------------------------------------
(* The invariant *)

\* The first piece that has not arrived, and the first that has not been read.
EndOfStream == <<Len(sent) + 1, 1>>
Unarrived   == Piece(wire, EndOfStream, 1)
Unread      == Piece(arrived, Unarrived, 1)

\* What has arrived and what is on its way are the rest of what was sent.
StreamWhole ==
    /\ Runs(sent, arrived, Unread, Unarrived)
    /\ Runs(sent, wire, Unarrived, EndOfStream)

\* Where the server is and what it works with.
Working ==
    /\ Len(sent) <= MaxFrames
    /\ reason = "open" <=> at # "closed"
    /\ at = "header" => got = <<>>
    /\ at = "check" => claim # 0

\* Between two calls of recv_frame the next piece begins the next frame, or is one of
\* the payload of a frame that was taken for complete; what recv_frame works with is
\* the next frame.
InStep ==
    /\ Unarrived[2] # 2
    /\ at = "header" =>
          \/ Unread = <<Len(dispatched) + 1, 1>>
          \/ Unread[1] = Len(dispatched) /\ Unread[2] > 2
    /\ at = "body" /\ claim # 0 =>
          claim = Len(dispatched) + 1 /\ Len(got) = 2 /\ Unread = After(sent, <<claim, 2>>)
    /\ at = "check" =>
          /\ claim = Len(dispatched) + 1
          /\ Unread = <<claim + 1, 1>> \/ (Unread[1] = claim /\ Unread[2] > 2)

\* What the handlers have been given, and what it has made of the session.
History ==
    /\ \A i \in DOMAIN dispatched : dispatched[i] \in 1 .. Len(sent)
    /\ auth => \E i \in DOMAIN dispatched : sent[dispatched[i]].cmd = "login"
    /\ LoggedInToStay

IInv == TypeOK /\ StreamWhole /\ Working /\ History
             /\ (WholeHeaders => InStep /\ DispatchedAsSent)

\* The type invariant and what it says of numbers.
LEMMA Types ==
  ASSUME IInv
  PROVE  /\ sent \in Seq(Frames) /\ Len(sent) \in Nat /\ Len(sent) <= MaxFrames
         /\ wire \in Seq(Pieces) /\ arrived \in Seq(Pieces) /\ got \in Seq(Pieces)
         /\ at \in {"header", "body", "check", "closed"}
         /\ claim \in 0 .. Len(sent) /\ last \in 0 .. Len(sent) /\ auth \in BOOLEAN
         /\ dispatched \in Seq(1 .. MaxFrames) /\ Len(dispatched) \in Nat
         /\ replies \in Seq(1 .. MaxFrames)
         /\ reason \in {"open", "rejected", "timeout", "over"}
BY DEF IInv, TypeOK, Working, Frames

\* A frame the server works with has a length.
LEMMA LengthOf ==
  ASSUME NEW s \in Seq(Frames), NEW k \in 1 .. Len(s)
  PROVE  s[k].length \in Nat /\ s[k].cmd \in Commands
<1>1. s[k] \in Frames
  OBVIOUS
<1>. QED
  BY <1>1, ConnectionAssumption DEF Frames

\* What a call of recv does to the stream.
LEMMA ReceiveReads ==
  ASSUME IInv, NEW wanted \in Nat \ {0}, Receive(wanted), UNCHANGED <<sent, wire>>
  PROVE  /\ got' \in Seq(Pieces) /\ arrived' \in Seq(Pieces)
         /\ StreamWhole' /\ Unarrived' = Unarrived
         /\ \E n \in 1 .. Len(arrived) :
               /\ n <= wanted /\ (n = wanted \/ n = Len(arrived))
               /\ Len(got') = Len(got) + n
               /\ \A i \in 1 .. n : got'[Len(got) + i] = arrived[i]
               /\ Unread' = Piece(arrived, Unarrived, n + 1)
<1>. DEFINE n == Least(wanted, Len(arrived))
<1>1. /\ arrived # <<>> /\ got' = got \o Take(arrived, n) /\ arrived' = Drop(arrived, n)
      /\ arrived \in Seq(Pieces) /\ got \in Seq(Pieces)
  BY Types DEF Receive
<1>2. Len(arrived) \in Nat \ {0} /\ Len(got) \in Nat
  BY <1>1, EmptySeq
<1>3. n \in 1 .. Len(arrived) /\ n <= wanted /\ (n = wanted \/ n = Len(arrived))
  BY <1>2 DEF Least
<1>. HIDE DEF n
<1>4. n \in 0 .. Len(arrived)
  BY <1>2, <1>3
<1>5. /\ Take(arrived, n) \in Seq(Pieces) /\ Len(Take(arrived, n)) = n
      /\ \A i \in 1 .. n : Take(arrived, n)[i] = arrived[i]
      /\ arrived' \in Seq(Pieces)
  BY <1>1, <1>4, Subsequence
<1>6. got' \in Seq(Pieces) /\ Len(got') = Len(got) + n
  BY <1>1, <1>5, ConcatProperties
<1>7. \A i \in 1 .. n : got'[Len(got) + i] = arrived[i]
  <2>1. SUFFICES ASSUME NEW i \in 1 .. n PROVE got'[Len(got) + i] = arrived[i]
    OBVIOUS
  <2>2. \A j \in 1 .. Len(got) + Len(Take(arrived, n)) :
           got'[j] = IF j <= Len(got) THEN got[j] ELSE Take(arrived, n)[j - Len(got)]
    BY <1>1, <1>5, ConcatProperties
  <2>3. /\ Len(got) + i \in 1 .. Len(got) + Len(Take(arrived, n))
        /\ ~(Len(got) + i <= Len(got)) /\ (Len(got) + i) - Len(got) = i
    BY <1>2, <1>3, <1>5
  <2>. QED
    BY <1>5, <2>2, <2>3
<1>8. Unarrived' = Unarrived
  BY DEF Unarrived, EndOfStream
<1>9. Runs(sent, arrived', Piece(arrived, Unarrived, n + 1), Unarrived)
  BY <1>1, <1>4, RunsCut DEF IInv, StreamWhole
<1>10. Unread' = Piece(arrived, Unarrived, n + 1)
  BY <1>8, <1>9 DEF Runs, Unread
<1>11. StreamWhole'
  BY <1>8, <1>9, <1>10 DEF IInv, StreamWhole, EndOfStream
<1>. QED
  BY <1>3, <1>5, <1>6, <1>7, <1>8, <1>10, <1>11

\* A step that gives the handlers nothing.
LEMMA HistoryStands ==
  ASSUME IInv, UNCHANGED <<sent, dispatched, auth>>, reason' = "open" => reason = "open"
  PROVE  History' /\ (DispatchedAsSent => DispatchedAsSent')
BY DEF IInv, History, LoggedInToStay, DispatchedAsSent

\* A step that leaves the stream alone.
LEMMA StreamStands ==
  ASSUME IInv, UNCHANGED <<sent, wire, arrived>>
  PROVE  StreamWhole' /\ Unread' = Unread /\ Unarrived' = Unarrived
BY DEF IInv, StreamWhole, Unread, Unarrived, EndOfStream

-----------------------------------------------------------------------------
(* Steps *)

LEMMA ClientSendsKeeps ==
  ASSUME IInv, NEW c \in Commands, NEW b \in Bodies, NEW n \in Lengths, ClientSends(c, b, n)
  PROVE  IInv'
<1>. DEFINE f == [cmd |-> c, body |-> b, length |-> n]
            new == [i \in 1 .. n + 2 |-> <<Len(sent) + 1, i>>]
<1>1. /\ Len(sent) < MaxFrames /\ sent' = Append(sent, f) /\ wire' = wire \o new
      /\ UNCHANGED <<arrived, at, got, claim, last, auth, dispatched, replies, reason>>
  BY DEF ClientSends
<1>2. f \in Frames /\ f.length = n /\ f.cmd = c
  BY DEF Frames
<1>. HIDE DEF f
<1>3. /\ sent \in Seq(Frames) /\ sent' \in Seq(Frames) /\ Len(sent') = Len(sent) + 1
      /\ Len(sent) \in Nat /\ \A k \in 1 .. Len(sent) : sent'[k] = sent[k]
  BY <1>1, <1>2, Types
<1>4. Runs(sent', new, EndOfStream, EndOfStream')
  BY <1>1, <1>2, <1>3, RunsFrame DEF EndOfStream
<1>5. /\ Runs(sent', arrived, Unread, Unarrived)
      /\ Runs(sent', wire, Unarrived, EndOfStream)
  BY <1>1, <1>3, RunsStand DEF IInv, StreamWhole
<1>6. Runs(sent', wire', Unarrived, EndOfStream')
  BY <1>1, <1>4, <1>5, RunsJoined
<1>7. Unarrived' = Unarrived
  BY <1>6 DEF Runs, Unarrived
<1>8. Unread' = Unread
  BY <1>1, <1>7 DEF Unread
<1>9. StreamWhole'
  BY <1>1, <1>5, <1>6, <1>7, <1>8 DEF StreamWhole
<1>10. TypeOK'
  <2>1. new \in Seq(Pieces)
    <3>1. n + 2 \in Nat /\ Len(sent) + 1 \in 1 .. MaxFrames
      BY <1>1, <1>3, ConnectionAssumption
    <3>2. \A i \in 1 .. n + 2 : <<Len(sent) + 1, i>> \in Pieces
      BY <3>1 DEF Pieces
    <3>. QED
      BY <3>1, <3>2
  <2>. HIDE DEF new
  <2>2. wire' \in Seq(Pieces)
    BY <1>1, <2>1, Types, ConcatProperties
  <2>3. claim' \in 0 .. Len(sent') /\ last' \in 0 .. Len(sent')
    BY <1>1, <1>3, Types
  <2>. QED
    BY <1>1, <1>3, <2>2, <2>3, Types DEF TypeOK, Frames
<1>11. Working'
  BY <1>1, <1>3, ConnectionAssumption DEF IInv, Working
<1>12. \A i \in DOMAIN dispatched : /\ dispatched[i] \in 1 .. Len(sent) /\ dispatched[i] \in 1 .. Len(sent')
                                   /\ sent'[dispatched[i]] = sent[dispatched[i]]
  BY <1>3 DEF IInv, History
<1>13. History'
  <2>1. LoggedInToStay'
    <3>1. \A i \in DOMAIN dispatched : \A j \in 1 .. i : j \in DOMAIN dispatched
      BY Types
    <3>2. \A i \in DOMAIN dispatched : \A j \in 1 .. i - 1 : j \in 1 .. i
      BY Types
    <3>3. ASSUME NEW i \in DOMAIN dispatched, i < Len(dispatched) \/ reason = "open"
          PROVE  \/ sent'[dispatched[i]].cmd \in {"login", "badlogin"}
                 \/ /\ \E j \in 1 .. i - 1 : sent'[dispatched[j]].cmd = "login"
                    /\ \A j \in 1 .. i : sent'[dispatched[j]].cmd # "logout"
      <4>1. \A j \in 1 .. i : sent'[dispatched[j]] = sent[dispatched[j]]
        BY <1>12, <3>1
      <4>2. \A j \in 1 .. i - 1 : sent'[dispatched[j]] = sent[dispatched[j]]
        BY <3>2, <4>1
      <4>3. sent'[dispatched[i]] = sent[dispatched[i]]
        BY <1>12
      <4>4. \/ sent[dispatched[i]].cmd \in {"login", "badlogin"}
            \/ /\ \E j \in 1 .. i - 1 : sent[dispatched[j]].cmd = "login"
               /\ \A j \in 1 .. i : sent[dispatched[j]].cmd # "logout"
        BY <3>3 DEF IInv, History, LoggedInToStay
      <4>. QED
        BY <4>1, <4>2, <4>3, <4>4
    <3>. QED
      BY <1>1, <3>3 DEF LoggedInToStay
  <2>. QED
    BY <1>1, <1>12, <2>1 DEF IInv, History
<1>14. WholeHeaders => InStep' /\ DispatchedAsSent'
  <2>1. claim # 0 => After(sent', <<claim, 2>>) = After(sent, <<claim, 2>>)
    BY <1>3, Types DEF After
  <2>. QED
    BY <1>1, <1>7, <1>8, <2>1 DEF IInv, InStep, DispatchedAsSent
<1>. QED
  BY <1>9, <1>10, <1>11, <1>13, <1>14 DEF IInv

LEMMA DeliverKeeps ==
  ASSUME IInv, NEW n, Deliver(n)
  PROVE  IInv'
<1>. DEFINE m == Piece(wire, EndOfStream, n + 1)
<1>1. /\ n \in 1 .. Len(wire) /\ (WholeHeaders => wire[n][2] # 1)
      /\ arrived' = arrived \o Take(wire, n) /\ wire' = Drop(wire, n)
      /\ UNCHANGED <<sent, at, got, claim, last, auth, dispatched, replies, reason>>
  BY DEF Deliver
<1>2. n \in 0 .. Len(wire) /\ n \in Nat
  BY <1>1, Types
<1>3. /\ Runs(sent, Take(wire, n), Unarrived, m)
      /\ Runs(sent, wire', m, EndOfStream)
      /\ Runs(sent, arrived, Unread, Unarrived)
  BY <1>1, <1>2, RunsCut DEF IInv, StreamWhole
<1>4. Runs(sent, arrived', Unread, m)
  BY <1>1, <1>3, RunsJoined
<1>. HIDE DEF m
<1>5. EndOfStream' = EndOfStream
  BY <1>1 DEF EndOfStream
<1>6. Unarrived' = m
  BY <1>3, <1>5 DEF Runs, Unarrived
<1>7. Unread' = Unread
  BY <1>4, <1>6 DEF Runs, Unread
<1>8. StreamWhole'
  BY <1>1, <1>3, <1>4, <1>5, <1>6, <1>7 DEF StreamWhole
<1>9. TypeOK'
  <2>1. Take(wire, n) \in Seq(Pieces) /\ wire' \in Seq(Pieces)
    BY <1>1, <1>2, Types, Subsequence
  <2>2. arrived' \in Seq(Pieces)
    BY <1>1, <2>1, Types, ConcatProperties
  <2>. QED
    BY <1>1, <2>1, <2>2 DEF IInv, TypeOK
<1>10. Working' /\ History' /\ (DispatchedAsSent => DispatchedAsSent')
  BY <1>1, HistoryStands DEF IInv, Working
<1>11. WholeHeaders => m[2] # 2
  <2>1. PieceOf(sent, wire[n]) /\ After(sent, wire[n]) = m
    BY <1>1 DEF IInv, StreamWhole, Runs, m
  <2>2. wire[n][2] \in Nat
    <3>1. wire \in Seq(Pieces) /\ n \in 1 .. Len(wire)
      BY <1>1, Types
    <3>2. wire[n] \in Pieces
      BY <3>1
    <3>. QED
      BY <3>2 DEF Pieces
  <2>. QED
    BY <1>1, <2>1, <2>2 DEF After
<1>12. WholeHeaders => InStep'
  BY <1>1, <1>6, <1>7, <1>11 DEF IInv, InStep
<1>. QED
  BY <1>8, <1>9, <1>10, <1>12 DEF IInv

\* recv_frame takes the header.
LEMMA ReceiveHeaderKeeps ==
  ASSUME IInv, ReceiveHeader
  PROVE  IInv'
<1>1. /\ at = "header" /\ at' = "body" /\ Receive(2)
      /\ UNCHANGED <<sent, wire, last, auth, dispatched, replies, reason>>
      /\ \E h \in IF Len(got') = 2 THEN {got'[1][1]} ELSE {last, 0} :
            claim' = IF got'[1][2] = 1 THEN h ELSE 0
  BY DEF ReceiveHeader
<1>2. /\ got' \in Seq(Pieces) /\ arrived' \in Seq(Pieces)
      /\ StreamWhole' /\ Unarrived' = Unarrived
  BY <1>1, ReceiveReads
<1>3. PICK n \in 1 .. Len(arrived) :
         /\ n <= 2 /\ (n = 2 \/ n = Len(arrived))
         /\ Len(got') = Len(got) + n
         /\ \A i \in 1 .. n : got'[Len(got) + i] = arrived[i]
         /\ Unread' = Piece(arrived, Unarrived, n + 1)
  <2>1. 2 \in Nat \ {0} /\ Receive(2) /\ UNCHANGED <<sent, wire>>
    BY <1>1
  <2>. QED
    BY <2>1, ReceiveReads, Zenon
<1>4. got = <<>> /\ Len(got) = 0 /\ Len(arrived) \in Nat /\ (n = 1 \/ n = 2)
  BY <1>1, <1>3, Types DEF IInv, Working
<1>5. Len(got') = n /\ got'[1] = arrived[1] /\ (n = 2 => got'[2] = arrived[2])
  BY <1>3, <1>4
<1>6. /\ arrived[1] = Unread /\ PieceOf(sent, arrived[1])
      /\ After(sent, arrived[1]) = Piece(arrived, Unarrived, 2)
  <2>1. 1 \in 1 .. Len(arrived) /\ 1 <= Len(arrived) /\ 1 + 1 = 2
    BY <1>3, <1>4
  <2>. QED
    BY <2>1 DEF IInv, StreamWhole, Runs, Piece
<1>7. Unread[1] \in 1 .. Len(sent) /\ Unread[2] \in Nat
  BY <1>6 DEF PieceOf
<1>8. claim' \in 0 .. Len(sent)
  BY <1>1, <1>5, <1>6, <1>7, Types
<1>9. TypeOK'
  BY <1>1, <1>2, <1>8 DEF IInv, TypeOK
<1>10. Working' /\ History' /\ (DispatchedAsSent => DispatchedAsSent')
  BY <1>1, HistoryStands DEF IInv, Working
<1>11. ASSUME WholeHeaders PROVE InStep'
  <2>1. InStep
    BY <1>11 DEF IInv
  <2>2. Unarrived'[2] # 2
    BY <1>2, <2>1 DEF InStep
  <2>3. ASSUME claim' # 0
        PROVE  /\ claim' = Len(dispatched) + 1 /\ Len(got') = 2
               /\ Unread' = After(sent, <<claim', 2>>)
    <3>1. Unread[2] = 1
      BY <1>1, <1>5, <1>6, <2>3
    <3>2. Unread = <<Len(dispatched) + 1, 1>>
      BY <1>1, <2>1, <3>1 DEF InStep
    <3>. DEFINE k == Len(dispatched) + 1
    <3>3. k \in 1 .. Len(sent)
      BY <1>7, <3>2
    <3>4. sent[k].length \in Nat
      BY <3>3, Types, LengthOf
    <3>5. Piece(arrived, Unarrived, 2) = <<k, 2>>
      BY <1>6, <3>2, <3>4 DEF After
    <3>6. n = 2
      <4>1. SUFFICES ASSUME n = 1 PROVE FALSE
        BY <1>4
      <4>2. Len(arrived) = 1
        BY <1>3, <4>1
      <4>3. Piece(arrived, Unarrived, 2) = Unarrived
        BY <4>2 DEF Piece
      <4>. QED
        BY <2>1, <3>5, <4>3 DEF InStep
    <3>7. claim' = k
      BY <1>1, <1>5, <1>6, <2>3, <3>2, <3>6
    <3>8. 2 \in 1 .. Len(arrived) /\ 2 <= Len(arrived) /\ 2 + 1 = n + 1
      BY <1>3, <1>4, <3>6
    <3>9. arrived[2] = <<k, 2>> /\ After(sent, arrived[2]) = Piece(arrived, Unarrived, n + 1)
      BY <3>5, <3>8 DEF IInv, StreamWhole, Runs, Piece
    <3>. QED
      BY <1>3, <1>5, <3>6, <3>7, <3>9
  <2>. QED
    BY <1>1, <2>2, <2>3 DEF InStep
<1>. QED
  BY <1>2, <1>9, <1>10, <1>11 DEF IInv

\* recv_frame takes what there is of the payload.
LEMMA ReceiveBodyKeeps ==
  ASSUME IInv, ReceiveBody
  PROVE  IInv'
<1>. DEFINE wanted == NeedLength - Len(got)
<1>1. /\ at = "body" /\ claim # 0 /\ Len(got) < NeedLength /\ at' = "check" /\ Receive(wanted)
      /\ UNCHANGED <<sent, wire, claim, last, auth, dispatched, replies, reason>>
  BY DEF ReceiveBody
<1>2. claim \in 1 .. Len(sent) /\ sent[claim].length \in Nat /\ Len(got) \in Nat
  BY <1>1, Types, LengthOf
<1>3. wanted \in Nat \ {0} /\ wanted = 2 + sent[claim].length - Len(got)
  BY <1>1, <1>2 DEF NeedLength
<1>. HIDE DEF wanted
<1>4. /\ got' \in Seq(Pieces) /\ arrived' \in Seq(Pieces)
      /\ StreamWhole' /\ Unarrived' = Unarrived
  BY <1>1, <1>3, ReceiveReads
<1>5. PICK n \in 1 .. Len(arrived) :
         n <= wanted /\ Unread' = Piece(arrived, Unarrived, n + 1)
  BY <1>1, <1>3, ReceiveReads
<1>6. TypeOK'
  BY <1>1, <1>4 DEF IInv, TypeOK
<1>7. Working' /\ History' /\ (DispatchedAsSent => DispatchedAsSent')
  BY <1>1, HistoryStands DEF IInv, Working
<1>8. ASSUME WholeHeaders PROVE InStep'
  <2>1. InStep
    BY <1>8 DEF IInv
  <2>2. claim = Len(dispatched) + 1 /\ Len(got) = 2 /\ Unread = After(sent, <<claim, 2>>)
    BY <1>1, <2>1 DEF InStep
  <2>3. wanted = sent[claim].length
    BY <1>2, <1>3, <2>2
  <2>4. Unread = <<claim, 3>>
    BY <1>2, <1>3, <2>2, <2>3 DEF After
  <2>5. /\ 3 \in 1 .. 2 + sent[claim].length /\ 3 + n <= 3 + sent[claim].length
        /\ 3 + n - 1 = n + 2 /\ n \in Nat /\ n >= 1
    <3>1. sent[claim].length \in Nat \ {0} /\ n \in Nat /\ n >= 1 /\ n <= sent[claim].length
      BY <1>2, <1>3, <1>5, <2>3
    <3>. QED
      BY <3>1
  <2>6. arrived[n] = <<claim, n + 2>>
    <3>1. Runs(sent, arrived, Unread, Unarrived)
      BY DEF IInv, StreamWhole
    <3>. QED
      BY <1>2, <2>4, <2>5, <3>1, Types, InFrame
  <2>7. Unread' = After(sent, <<claim, n + 2>>)
    BY <1>5, <2>6 DEF IInv, StreamWhole, Runs
  <2>8. Unread' = <<claim + 1, 1>> \/ (Unread'[1] = claim /\ Unread'[2] > 2)
    BY <1>2, <2>5, <2>7 DEF After
  <2>. QED
    BY <1>1, <1>4, <2>1, <2>2, <2>8 DEF InStep
<1>. QED
  BY <1>4, <1>6, <1>7, <1>8 DEF IInv

\* recv_frame needs no second call.
LEMMA SkipBodyKeeps ==
  ASSUME IInv, SkipBody
  PROVE  IInv'
<1>1. /\ at = "body" /\ claim # 0 /\ Len(got) >= NeedLength /\ at' = "check"
      /\ UNCHANGED <<sent, wire, arrived, got, claim, last, auth, dispatched, replies, reason>>
  BY DEF SkipBody
<1>2. claim \in 1 .. Len(sent) /\ sent[claim].length \in Nat
  BY <1>1, Types, LengthOf
<1>3. StreamWhole' /\ Unread' = Unread /\ Unarrived' = Unarrived
  BY <1>1, StreamStands
<1>4. TypeOK' /\ Working' /\ History' /\ (DispatchedAsSent => DispatchedAsSent')
  BY <1>1, HistoryStands DEF IInv, TypeOK, Working
<1>5. ASSUME WholeHeaders PROVE InStep'
  <2>1. InStep
    BY <1>5 DEF IInv
  <2>2. claim = Len(dispatched) + 1 /\ Len(got) = 2 /\ Unread = After(sent, <<claim, 2>>)
    BY <1>1, <2>1 DEF InStep
  <2>3. sent[claim].length = 0
    BY <1>1, <1>2, <2>2 DEF NeedLength
  <2>4. Unread = <<claim + 1, 1>>
    BY <1>2, <2>2, <2>3 DEF After
  <2>. QED
    BY <1>1, <1>3, <2>1, <2>2, <2>4 DEF InStep
<1>. QED
  BY <1>3, <1>4, <1>5 DEF IInv

\* The connection is closed, for whatever reason.
LEMMA CloseKeeps ==
  ASSUME IInv, RejectFrame \/ Timeout
  PROVE  IInv'
<1>1. /\ reason' \in {"rejected", "timeout"} /\ at' = "closed" /\ got' = <<>> /\ claim' = 0
      /\ UNCHANGED <<sent, wire, arrived, last, auth, dispatched, replies>>
  BY DEF RejectFrame, Timeout, CloseWith
<1>2. StreamWhole' /\ Unread' = Unread /\ Unarrived' = Unarrived
  BY <1>1, StreamStands
<1>3. TypeOK'
  <2>1. <<>> \in Seq(Pieces) /\ 0 \in 0 .. Len(sent)
    BY Types
  <2>. QED
    BY <1>1, <2>1 DEF IInv, TypeOK
<1>4. Working' /\ History' /\ (DispatchedAsSent => DispatchedAsSent')
  BY <1>1, HistoryStands DEF IInv, Working
<1>5. WholeHeaders => InStep'
  BY <1>1, <1>2 DEF IInv, InStep
<1>. QED
  BY <1>2, <1>3, <1>4, <1>5 DEF IInv

\* The handler gets the frame and answers it; the connection stays open after a login,
\* an attempt at one, and while the session is logged in.
LEMMA DispatchKeeps ==
  ASSUME IInv, Dispatch
  PROVE  IInv'
<1>. DEFINE c == sent[claim].cmd
            d == Len(dispatched)
<1>1. /\ at = "check" /\ auth' = AuthAfter(c) /\ SendResponse(claim)
      /\ dispatched' = Append(dispatched, claim) /\ last' = claim
      /\ got' = <<>> /\ claim' = 0 /\ UNCHANGED <<sent, wire, arrived>>
      /\ \/ at' = "closed" /\ reason' = "over" /\ ~auth'
         \/ at' = "header" /\ reason' = reason /\ (auth' \/ c \in {"login", "badlogin"})
  BY DEF Dispatch, CloseWith
<1>2. /\ claim \in 1 .. Len(sent) /\ claim \in 1 .. MaxFrames /\ d \in Nat /\ MaxFrames \in Nat
      /\ reason = "open"
  BY <1>1, Types, ConnectionAssumption DEF IInv, Working
<1>3. dispatched \in Seq(1 .. MaxFrames) /\ DOMAIN dispatched = 1 .. d
  BY Types
<1>4. /\ dispatched' \in Seq(1 .. MaxFrames) /\ Len(dispatched') = d + 1
      /\ DOMAIN dispatched' = 1 .. d + 1 /\ dispatched'[d + 1] = claim
      /\ \A i \in 1 .. d : dispatched'[i] = dispatched[i]
  BY <1>1, <1>2, <1>3
<1>. HIDE DEF c, d
<1>5. StreamWhole' /\ Unread' = Unread /\ Unarrived' = Unarrived
  BY <1>1, StreamStands
<1>6. TypeOK'
  <2>1. replies' \in Seq(1 .. MaxFrames)
    <3>1. replies \in Seq(1 .. MaxFrames) /\ Append(replies, claim) \in Seq(1 .. MaxFrames)
      BY <1>2, Types
    <3>2. replies' = replies \/ replies' = Append(replies, claim)
      BY <1>1 DEF SendResponse
    <3>. QED
      BY <3>1, <3>2
  <2>2. auth' \in BOOLEAN
    BY <1>1, Types DEF AuthAfter
  <2>3. <<>> \in Seq(Pieces) /\ 0 \in 0 .. Len(sent) /\ claim \in 0 .. Len(sent)
    BY Types
  <2>4. reason' \in {"open", "rejected", "timeout", "over"} /\ at' \in {"header", "closed"}
    BY <1>1, Types
  <2>. QED
    BY <1>1, <1>4, <2>1, <2>2, <2>3, <2>4 DEF IInv, TypeOK
<1>7. Working'
  BY <1>1, <1>2 DEF IInv, Working
<1>8. ASSUME NEW i \in 1 .. d
      PROVE  \/ sent[dispatched[i]].cmd \in {"login", "badlogin"}
             \/ /\ \E j \in 1 .. i - 1 : sent[dispatched[j]].cmd = "login"
                /\ \A j \in 1 .. i : sent[dispatched[j]].cmd # "logout"
  BY <1>2, <1>3 DEF IInv, History, LoggedInToStay
<1>9. \A i \in 1 .. d : sent[dispatched[i]].cmd # "logout"
  <2>1. SUFFICES ASSUME NEW i \in 1 .. d PROVE sent[dispatched[i]].cmd # "logout"
    OBVIOUS
  <2>2. i \in 1 .. i
    BY <1>2
  <2>. QED
    BY <1>8, <2>2
<1>10. auth => \E i \in 1 .. d : sent[dispatched[i]].cmd = "login"
  BY <1>3 DEF IInv, History
<1>11. \A i \in 1 .. d + 1 : dispatched'[i] \in 1 .. Len(sent)
  <2>1. \A i \in 1 .. d : dispatched[i] \in 1 .. Len(sent)
    BY <1>3 DEF IInv, History
  <2>. QED
    BY <1>2, <1>4, <2>1
<1>12. auth' => \E i \in 1 .. d + 1 : sent[dispatched'[i]].cmd = "login"
  <2>1. d + 1 \in 1 .. d + 1 /\ \A i \in 1 .. d : i \in 1 .. d + 1
    BY <1>2
  <2>2. CASE c = "login"
    BY <1>4, <2>1, <2>2 DEF c
  <2>3. CASE c # "login"
    <3>1. auth' => auth
      BY <1>1, <2>3 DEF AuthAfter
    <3>. QED
      BY <1>4, <1>10, <2>1, <3>1
  <2>. QED
    BY <2>2, <2>3
<1>13. LoggedInToStay'
  <2>1. ASSUME NEW i \in 1 .. d + 1, i < d + 1 \/ reason' = "open"
        PROVE  \/ sent[dispatched'[i]].cmd \in {"login", "badlogin"}
               \/ /\ \E j \in 1 .. i - 1 : sent[dispatched'[j]].cmd = "login"
                  /\ \A j \in 1 .. i : sent[dispatched'[j]].cmd # "logout"
    <3>1. CASE i \in 1 .. d
      <4>1. /\ \A j \in 1 .. i : dispatched'[j] = dispatched[j]
            /\ \A j \in 1 .. i - 1 : dispatched'[j] = dispatched[j]
            /\ dispatched'[i] = dispatched[i]
        BY <1>2, <1>4, <3>1
      <4>. QED
        BY <1>8, <3>1, <4>1
    <3>2. CASE i = d + 1
      <4>1. auth' \/ c \in {"login", "badlogin"}
        BY <1>1, <1>2, <2>1, <3>2
      <4>2. dispatched'[i] = claim
        BY <1>4, <3>2
      <4>3. CASE c \in {"login", "badlogin"}
        BY <4>2, <4>3 DEF c
      <4>4. CASE c \notin {"login", "badlogin"}
        <5>1. auth /\ c # "logout"
          BY <1>1, <4>1, <4>4 DEF AuthAfter
        <5>2. i - 1 = d
          BY <1>2, <3>2
        <5>3. \E j \in 1 .. i - 1 : sent[dispatched'[j]].cmd = "login"
          BY <1>4, <1>10, <5>1, <5>2
        <5>4. \A j \in 1 .. i : j = i \/ j \in 1 .. d
          BY <1>2, <3>2
        <5>5. \A j \in 1 .. i : sent[dispatched'[j]].cmd # "logout"
          BY <1>4, <1>9, <4>2, <5>1, <5>4 DEF c
        <5>. QED
          BY <5>3, <5>5
      <4>. QED
        BY <4>3, <4>4
    <3>. QED
      BY <1>2, <2>1, <3>1, <3>2
  <2>. QED
    BY <1>1, <1>4, <2>1 DEF LoggedInToStay
<1>14. History'
  BY <1>1, <1>4, <1>11, <1>12, <1>13 DEF History
<1>15. ASSUME WholeHeaders PROVE InStep' /\ DispatchedAsSent'
  <2>1. InStep /\ DispatchedAsSent
    BY <1>15 DEF IInv
  <2>2. claim = d + 1 /\ (Unread = <<claim + 1, 1>> \/ (Unread[1] = claim /\ Unread[2] > 2))
    BY <1>1, <2>1 DEF InStep, d
  <2>3. \A i \in 1 .. d + 1 : i \in 1 .. d \/ i = d + 1
    BY <1>2
  <2>4. DispatchedAsSent'
    BY <1>3, <1>4, <2>1, <2>2, <2>3 DEF DispatchedAsSent
  <2>5. InStep'
    BY <1>1, <1>4, <1>5, <2>1, <2>2 DEF InStep
  <2>. QED
    BY <2>4, <2>5
<1>. QED
  BY <1>5, <1>6, <1>7, <1>14, <1>15 DEF IInv

-----------------------------------------------------------------------------
(* Theorems *)

LEMMA InitHolds ==
  ASSUME Init
  PROVE  IInv
<1>. USE DEF Init
<1>1. /\ <<>> \in Seq(Pieces) /\ <<>> \in Seq(1 .. MaxFrames) /\ <<>> \in Seq(Nat \X Nat)
      /\ sent \in Seq([cmd : Commands, body : Bodies, length : Lengths])
      /\ Len(<<>>) = 0 /\ Len(sent) = 0 /\ DOMAIN <<>> = {}
  OBVIOUS
<1>2. EndOfStream = <<1, 1>> /\ Unarrived = <<1, 1>> /\ Unread = <<1, 1>>
  BY <1>1 DEF EndOfStream, Unarrived, Unread, Piece
<1>3. TypeOK
  <2>1. 0 \in 0 .. Len(sent)
    BY <1>1
  <2>. QED
    BY <1>1, <2>1 DEF TypeOK
<1>4. StreamWhole
  <2>1. 1 .. Len(<<>>) = {} /\ ~(1 <= Len(<<>>))
    BY <1>1
  <2>. QED
    BY <1>1, <1>2, <2>1 DEF StreamWhole, Runs, Piece
<1>5. Working
  BY <1>1, ConnectionAssumption DEF Working
<1>6. History /\ DispatchedAsSent
  BY <1>1 DEF History, LoggedInToStay, DispatchedAsSent
<1>7. InStep
  BY <1>1, <1>2 DEF InStep
<1>. QED
  BY <1>3, <1>4, <1>5, <1>6, <1>7 DEF IInv

LEMMA StepKeeps ==
  ASSUME IInv, [Next]_vars
  PROVE  IInv'
<1>1. ASSUME NEW c \in Commands, NEW b \in Bodies, NEW n \in Lengths, ClientSends(c, b, n)
      PROVE  IInv'
  BY <1>1, ClientSendsKeeps
<1>2. ASSUME NEW n \in 1 .. Len(wire), Deliver(n) PROVE IInv'
  BY <1>2, DeliverKeeps
<1>3. CASE ServerStep
  BY <1>3, ReceiveHeaderKeeps, ReceiveBodyKeeps, SkipBodyKeeps, CloseKeeps, DispatchKeeps
     DEF ServerStep
<1>4. CASE Timeout
  BY <1>4, CloseKeeps
<1>5. CASE UNCHANGED vars
  <2>1. StreamWhole' /\ Unread' = Unread /\ Unarrived' = Unarrived
    BY <1>5, StreamStands DEF vars
  <2>2. TypeOK' /\ Working' /\ History' /\ (DispatchedAsSent => DispatchedAsSent')
    BY <1>5, HistoryStands DEF vars, IInv, TypeOK, Working
  <2>3. WholeHeaders => InStep'
    BY <1>5, <2>1 DEF vars, IInv, InStep
  <2>. QED
    BY <2>1, <2>2, <2>3 DEF IInv
<1>. QED
  BY <1>1, <1>2, <1>3, <1>4, <1>5 DEF Next, Closed

\* The invariant holds whatever the client sends and wherever the packets end.
THEOREM Invariance == Spec => []IInv
<1>1. Init => IInv
  BY InitHolds
<1>2. IInv /\ [Next]_vars => IInv'
  BY StepKeeps
<1>. QED
  BY <1>1, <1>2, PTL DEF Spec

\* Every variable of a connection has its type; recv_frame never works with a header
\* that was not sent.
THEOREM TypeCorrect == Spec => []TypeOK
<1>1. IInv => TypeOK
  BY DEF IInv
<1>. QED
  BY <1>1, Invariance, PTL

\* If no packet ends inside a header, the handlers get the frames the client sent, in
\* that order, none twice and none skipped, for any commands and lengths of payload.
THEOREM DispatchedCorrect ==
  ASSUME WholeHeaders
  PROVE  Spec => []DispatchedAsSent
<1>1. IInv => DispatchedAsSent
  BY DEF IInv
<1>. QED
  BY <1>1, Invariance, PTL

\* Wherever packets end, a connection survives a command only after a login or as an
\* attempt at one.
THEOREM LoginCorrect == Spec => []LoggedInToStay
<1>1. IInv => LoggedInToStay
  BY DEF IInv, History
<1>. QED
  BY <1>1, Invariance, PTL

\* Wherever packets end, what is dispatched is answered, once and in order, unless an
\* answer is longer than a frame.
THEOREM AnsweredCorrect ==
  ASSUME "big" \notin Commands
  PROVE  Spec => []EveryRequestAnswered
<1>1. Init => EveryRequestAnswered
  BY DEF Init, EveryRequestAnswered
<1>2. IInv /\ EveryRequestAnswered /\ [Next]_vars => EveryRequestAnswered'
  <2>1. SUFFICES ASSUME IInv, EveryRequestAnswered, [Next]_vars PROVE EveryRequestAnswered'
    OBVIOUS
  <2>2. CASE Dispatch
    <3>1. at = "check" /\ SendResponse(claim) /\ dispatched' = Append(dispatched, claim)
      BY <2>2 DEF Dispatch
    <3>2. claim \in 1 .. Len(sent)
      BY <2>1, <3>1, Types DEF IInv, Working
    <3>3. sent[claim].cmd # "big"
      BY <2>1, <3>2, Types, LengthOf
    <3>. QED
      BY <2>1, <3>1, <3>3 DEF SendResponse, Packed, EveryRequestAnswered
  <2>3. CASE ~Dispatch
    <3>1. UNCHANGED <<replies, dispatched>>
      BY <2>1, <2>3 DEF Next, vars, ClientSends, Deliver, ServerStep, ReceiveHeader, ReceiveBody,
                        SkipBody, RejectFrame, Timeout, Closed
    <3>. QED
      BY <2>1, <3>1 DEF EveryRequestAnswered
  <2>. QED
    BY <2>2, <2>3
<1>. QED
  BY <1>1, <1>2, Invariance, PTL DEF Spec

================================================================================
