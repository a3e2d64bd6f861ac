------------------------------ MODULE DropOldest -------------------------------
(****************************************************************************)
(* What the two receive rings promise: a queue of at most Cap bytes, in      *)
(* order, that forgets its oldest byte when one comes and it is full         *)
(* (CircularBufferEx.hpp 179-180, CircularBufferA.h 34-35).                  *)
(****************************************************************************)
EXTENDS Naturals, Sequences

CONSTANTS Cap,  \* how many bytes it holds
          Bytes \* the bytes

VARIABLES queue, \* the bytes not yet read, oldest first
          got    \* the byte read last

Fits(q) == IF Len(q) > Cap THEN Tail(q) ELSE q

Init == queue = <<>> /\ got \in Bytes

Push == \E b \in Bytes : queue' = Fits(Append(queue, b)) /\ UNCHANGED got

Pop == queue # <<>> /\ got' = Head(queue) /\ queue' = Tail(queue)

Next == Push \/ Pop

Spec == Init /\ [][Next]_<<queue, got>>
================================================================================
