------------------------------- MODULE Streams -------------------------------
(***************************************************************************)
(* What the server promises about a transfer, with no session, task list,  *)
(* directory or file in sight: a transfer is a stream of blocks.  A        *)
(* request moves one stream by one block, and only if it is running.  A    *)
(* download gives the blocks in order, without a gap, however often it is  *)
(* paused and resumed; an upload takes them in any order.  A stream starts *)
(* from nothing and its end is its end.  Module Transfers implements it.   *)
(***************************************************************************)
EXTENDS Naturals

CONSTANTS Handles,   \* what names a stream: its open file
          MaxBlocks,
          NoStream

VARIABLE streams

Stream == [direction : {"upload", "download"}, status : {"running", "paused"},
           moved : Nat, told : SUBSET (1..MaxBlocks)]

Fresh(direction) == [direction |-> direction, status |-> "running", moved |-> 0, told |-> {}]

StreamsInit == streams = [h \in Handles |-> NoStream]

Begin(h) ==
    /\ streams[h] = NoStream
    /\ \E d \in {"upload", "download"} : streams' = [streams EXCEPT ![h] = Fresh(d)]

Move(h, b) ==
    /\ streams[h] # NoStream /\ streams[h].status = "running"
    /\ streams[h].direction = "download" => b = streams[h].moved + 1
    /\ streams' = [streams EXCEPT ![h].moved = @ + 1, ![h].told = @ \cup {b}]

SetStatus(h, status) ==
    /\ streams[h] # NoStream
    /\ streams' = [streams EXCEPT ![h].status = status]

\* Any number of transfers end together, as they do with their session.
End(ended) ==
    streams' = [h \in Handles |-> IF h \in ended THEN NoStream ELSE streams[h]]

StreamsNext ==
    \/ \E ended \in SUBSET Handles : End(ended)
    \/ \E h \in Handles :
        \/ Begin(h)
        \/ \E b \in 1..MaxBlocks : Move(h, b)
        \/ \E status \in {"running", "paused"} : SetStatus(h, status)

StreamsSpec == StreamsInit /\ [][StreamsNext]_streams

-----------------------------------------------------------------------------
(* What follows for every implementation, see Streams_proofs *)

\* A client that asks for a download gets the file from its beginning, in order and
\* without a gap, as far as the server's position says (handler.c:1016-1020).
InOrder ==
    \A h \in Handles :
        streams[h] # NoStream /\ streams[h].direction = "download"
            => streams[h].told = 1..streams[h].moved

\* A stream that goes on moves only if it is running, whatever happens to the others
\* (handler.c:764 and :998).
PausedStands ==
    [][\A h \in Handles :
        streams[h] # NoStream /\ streams[h].status = "paused" /\ streams'[h] # NoStream
            => streams'[h].moved = streams[h].moved]_streams
=============================================================================
