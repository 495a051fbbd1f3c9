--------------------------- MODULE Streams_proofs ---------------------------
(***************************************************************************)
(* What module Streams promises holds for any number of streams of any     *)
(* length, and so for everything that implements it.                       *)
(***************************************************************************)
EXTENDS Streams, TLAPS

StreamsTypeOK ==
    /\ DOMAIN streams = Handles
    /\ streams = [h \in Handles |-> streams[h]]
    /\ \A h \in Handles : streams[h] = NoStream \/ streams[h] \in Stream

StreamsInv == StreamsTypeOK /\ InOrder

LEMMA FreshIsStream ==
    ASSUME NEW d \in {"upload", "download"}
    PROVE  /\ Fresh(d) \in Stream
           /\ Fresh(d).told = 1..Fresh(d).moved
  BY DEF Fresh, Stream

\* Only the stream h changes, and its new value is a stream that is in order.
LEMMA OneStreamChanges ==
    ASSUME StreamsInv,
           NEW h \in Handles, NEW s \in Stream,
           s.direction = "download" => s.told = 1..s.moved,
           streams' = [streams EXCEPT ![h] = s]
    PROVE  StreamsInv'
  BY DEF StreamsInv, StreamsTypeOK, InOrder

LEMMA StreamsInvInit == StreamsInit => StreamsInv
  BY DEF StreamsInit, StreamsInv, StreamsTypeOK, InOrder

LEMMA StreamsInvNext == StreamsInv /\ [StreamsNext]_streams => StreamsInv'
<1> SUFFICES ASSUME StreamsInv, [StreamsNext]_streams PROVE StreamsInv'
  OBVIOUS
<1>1. CASE UNCHANGED streams
  BY <1>1 DEF StreamsInv, StreamsTypeOK, InOrder
<1>2. ASSUME NEW ended \in SUBSET Handles, End(ended) PROVE StreamsInv'
  BY <1>2 DEF End, StreamsInv, StreamsTypeOK, InOrder
<1>3. ASSUME NEW h \in Handles, Begin(h) PROVE StreamsInv'
  <2>1. PICK d \in {"upload", "download"} : streams' = [streams EXCEPT ![h] = Fresh(d)]
    BY <1>3 DEF Begin
  <2>2. QED
    BY <2>1, FreshIsStream, OneStreamChanges
<1>4. ASSUME NEW h \in Handles, NEW b \in 1..MaxBlocks, Move(h, b) PROVE StreamsInv'
  <2> DEFINE s == [streams[h] EXCEPT !.moved = @ + 1, !.told = @ \cup {b}]
  <2>1. streams[h] \in Stream
    BY <1>4 DEF Move, StreamsInv, StreamsTypeOK
  <2>2. /\ s \in Stream
        /\ s.direction = streams[h].direction
        /\ s.moved = streams[h].moved + 1
        /\ s.told = streams[h].told \cup {b}
    <3>1. streams[h].moved + 1 \in Nat /\ streams[h].told \cup {b} \in SUBSET (1..MaxBlocks)
      BY <2>1 DEF Stream
    <3> DEFINE n == streams[h].moved + 1
               T == streams[h].told \cup {b}
    <3>2. s = [streams[h] EXCEPT !.moved = n, !.told = T]
      OBVIOUS
    <3>3. n \in Nat /\ T \in SUBSET (1..MaxBlocks)
      BY <3>1
    <3> HIDE DEF n, T
    <3>4. s \in Stream /\ s.direction = streams[h].direction /\ s.moved = n /\ s.told = T
      BY <2>1, <3>2, <3>3 DEF Stream
    <3>5. QED
      BY <3>4 DEF n, T
  <2>3. streams' = [streams EXCEPT ![h] = s]
    BY <1>4 DEF Move
  <2>4. s.direction = "download" => s.told = 1..s.moved
    <3> SUFFICES ASSUME s.direction = "download" PROVE s.told = 1..s.moved
      OBVIOUS
    <3>1. b = streams[h].moved + 1 /\ streams[h].told = 1..streams[h].moved
      BY <1>4, <2>2 DEF Move, StreamsInv, InOrder
    <3>2. streams[h].moved \in Nat
      BY <2>1 DEF Stream
    <3>3. QED
      BY <2>2, <3>1, <3>2
  <2> HIDE DEF s
  <2>5. QED
    BY <2>2, <2>3, <2>4, OneStreamChanges
<1>5. ASSUME NEW h \in Handles, NEW status \in {"running", "paused"}, SetStatus(h, status)
      PROVE  StreamsInv'
  <2> DEFINE s == [streams[h] EXCEPT !.status = status]
  <2>1. streams[h] \in Stream
    BY <1>5 DEF SetStatus, StreamsInv, StreamsTypeOK
  <2>2. /\ s \in Stream
        /\ s.direction = streams[h].direction
        /\ s.moved = streams[h].moved
        /\ s.told = streams[h].told
    BY <2>1 DEF Stream
  <2>3. streams' = [streams EXCEPT ![h] = s]
    BY <1>5 DEF SetStatus
  <2>4. s.direction = "download" => s.told = 1..s.moved
    BY <1>5, <2>2 DEF SetStatus, StreamsInv, InOrder
  <2> HIDE DEF s
  <2>5. QED
    BY <2>2, <2>3, <2>4, OneStreamChanges
<1>6. QED
  BY <1>1, <1>2, <1>3, <1>4, <1>5 DEF StreamsNext

\* A download is told in order, in every reachable state.
THEOREM DownloadsInOrder == StreamsSpec => []InOrder
<1>1. StreamsInv => InOrder
  BY DEF StreamsInv
<1>2. QED
  BY <1>1, StreamsInvInit, StreamsInvNext, PTL DEF StreamsSpec

LEMMA PausedStep ==
    ASSUME StreamsInv, StreamsNext,
           NEW g \in Handles, streams[g] # NoStream, streams[g].status = "paused",
           streams'[g] # NoStream
    PROVE  streams'[g].moved = streams[g].moved
<1>1. streams[g] \in Stream
  BY DEF StreamsInv, StreamsTypeOK
<1>2. ASSUME NEW ended \in SUBSET Handles, End(ended) PROVE streams'[g].moved = streams[g].moved
  BY <1>2 DEF End
<1>3. ASSUME NEW h \in Handles, Begin(h) PROVE streams'[g].moved = streams[g].moved
  BY <1>3 DEF Begin, StreamsInv, StreamsTypeOK
<1>4. ASSUME NEW h \in Handles, NEW b \in 1..MaxBlocks, Move(h, b)
      PROVE  streams'[g].moved = streams[g].moved
  BY <1>4 DEF Move, StreamsInv, StreamsTypeOK
<1>5. ASSUME NEW h \in Handles, NEW status \in {"running", "paused"}, SetStatus(h, status)
      PROVE  streams'[g].moved = streams[g].moved
  BY <1>1, <1>5 DEF SetStatus, StreamsInv, StreamsTypeOK, Stream
<1>6. QED
  BY <1>2, <1>3, <1>4, <1>5 DEF StreamsNext

\* A paused stream stands, whatever the other streams do.
THEOREM PausedStreamsStand == StreamsSpec => PausedStands
<1>1. StreamsInv /\ [StreamsNext]_streams
        => [\A h \in Handles :
              streams[h] # NoStream /\ streams[h].status = "paused" /\ streams'[h] # NoStream
                => streams'[h].moved = streams[h].moved]_streams
  BY PausedStep
<1>2. QED
  BY <1>1, StreamsInvInit, StreamsInvNext, PTL DEF StreamsSpec, PausedStands
=============================================================================
