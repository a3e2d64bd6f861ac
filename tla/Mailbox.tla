-------------------------------- MODULE Mailbox --------------------------------
(****************************************************************************)
(* What is promised of a wall on its way to the phone (phone_pais,           *)
(* Phone_SendReaderPais): it waits in a box for one wall, is sent until it   *)
(* is acknowledged, but Tries times at most, and gives way to the next.      *)
(* Walls are numbered as they come; there is none before the first.          *)
(****************************************************************************)
EXTENDS Naturals

CONSTANT Tries \* how often a wall is sent

VARIABLES wall,     \* the number of the wall in the box
          tried,    \* how often it was sent
          marked,   \* it counts as received
          received  \* the last wall the phone has received

vars == <<wall, tried, marked, received>>

Init == wall = 0 /\ tried = 0 /\ marked = FALSE /\ received = 0

\* The next wall takes the place of the last, received or not.
Put ==
    /\ wall' = wall + 1 /\ tried' = 0 /\ marked' = FALSE
    /\ UNCHANGED received

\* It is sent, and gets through or not.
Send ==
    /\ wall > 0 /\ ~marked /\ tried < Tries
    /\ tried' = tried + 1
    /\ received' \in {received, wall}
    /\ UNCHANGED <<wall, marked>>

\* It counts as received when it was.
Confirm ==
    /\ tried > 0 /\ received = wall
    /\ marked' = TRUE
    /\ UNCHANGED <<wall, tried, received>>

\* An acknowledgement of the wall before that comes late is taken for its own, as long
\* as it has not been sent.
Mistake ==
    /\ tried = 0 /\ wall > 0
    /\ marked' = TRUE
    /\ UNCHANGED <<wall, tried, received>>

Next == Put \/ Send \/ Confirm \/ Mistake

Spec == Init /\ [][Next]_vars
================================================================================
