------------------------------ MODULE ByteQueue ------------------------------
(***************************************************************************)
(* What a network buffer promises its users: a queue of bytes that grows   *)
(* at its end, shrinks at its front, and takes a header back at its front. *)
(***************************************************************************)
EXTENDS Naturals, Sequences

CONSTANTS
    Chunk,    \* the byte strings that one operation can carry
    Amount    \* the numbers of bytes that one operation can ask for

VARIABLE queue

Init == queue = <<>>

\* Bytes arrive behind the ones that are queued.
Put(data) == queue' = queue \o data

\* The first n bytes are consumed; asking for too many consumes them all.
Drop(n) ==
    queue' = IF n < Len(queue) THEN SubSeq(queue, n + 1, Len(queue)) ELSE <<>>

\* Bytes are put before the ones that are queued.
PutFront(data) == queue' = data \o queue

Next ==
    \/ \E data \in Chunk : Put(data) \/ PutFront(data)
    \/ \E n \in Amount : Drop(n)

Spec == Init /\ [][Next]_queue
===============================================================================
