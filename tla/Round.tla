--------------------------------- MODULE Round ---------------------------------
(****************************************************************************)
(* What is promised of a round of shuffling, whatever happens to the polls   *)
(* of the readers: the tiles of each wall are taken down in order and are    *)
(* of one deck; a wall goes to the phone when it is complete, the last one   *)
(* not before the others, and is final then; a round ends when every wall is *)
(* complete, and may end before; if more than half of the tiles were read,   *)
(* the phone then has what was read of every wall.                           *)
(****************************************************************************)
EXTENDS Integers, Sequences, FiniteSets

CONSTANTS kGroup,   \* number of walls; the last is the one sent last
          Place,    \* the places of a wall
          Tile,     \* pairs of a deck and a face
          NoTile    \* what stands in a place of which no tile was read

Wall == 1 .. kGroup

VARIABLES size,   \* how many tiles each wall has
          open,   \* a round is being read
          read,   \* the tiles read of each wall in this round
          final,  \* the walls that went to the phone in this round
          sent    \* what the phone was given of each wall last

vars == <<size, open, read, final, sent>>

Nothing == [w \in Wall |-> <<>>]

\* A wall as the phone is given it.
Shown(tiles) == [p \in Place |-> IF p <= Len(tiles) THEN tiles[p] ELSE NoTile]

\* A number for each wall, added up.
Total(n) == Cardinality({x \in Wall \X Place : x[2] <= n[x[1]]})

IsComplete(now, w) == Len(now[w]) = size[w]
MoreThanHalf(now)  == Total([w \in Wall |-> Len(now[w])]) > Total(size) \div 2

\* The walls to be sent: the complete ones, but the last only when all are.
Ready(now) ==
    {w \in Wall : /\ IsComplete(now, w) /\ ~final[w]
                  /\ w = kGroup => \A v \in Wall : IsComplete(now, v)}

\* The phone is given the walls in W.
Give(now, W) == sent' = [w \in Wall |-> IF w \in W THEN Shown(now[w]) ELSE sent[w]]

\* The same tiles as before, or one more: of a wall that is not complete, and of the
\* deck of those read before.
SameDeck(t) == \A w \in Wall : \A p \in 1 .. Len(read[w]) : read[w][p][1] = t[1]

OneMore ==
    {[read EXCEPT ![w] = Append(@, t)] :
        w \in {v \in Wall : Len(read[v]) < size[v]}, t \in {u \in Tile : SameDeck(u)}}

--------------------------------------------------------------------------------
Init ==
    /\ size \in [Wall -> Place]
    /\ ~open /\ read = Nothing
    /\ final = [w \in Wall |-> FALSE]
    /\ sent = [w \in Wall |-> Shown(<<>>)]

Begin == ~open /\ open' /\ UNCHANGED <<size, read, final, sent>>

\* A reader is polled, and a wall is still missing.
GoesOn(now) ==
    /\ open /\ open'
    /\ \E w \in Wall : ~IsComplete(now, w)
    /\ read' = now
    /\ final' = [w \in Wall |-> final[w] \/ w \in Ready(now)]
    /\ Give(now, Ready(now))
    /\ UNCHANGED size

\* It is the last poll of the round.
Ends(now) ==
    /\ open /\ ~open'
    /\ read' = Nothing
    /\ final' = [w \in Wall |-> FALSE]
    /\ Give(now, Ready(now) \cup {w \in Wall : MoreThanHalf(now) /\ ~final[w]})
    /\ UNCHANGED size

Next == Begin \/ \E now \in {read} \cup OneMore : GoesOn(now) \/ Ends(now)

Spec == Init /\ [][Next]_vars
================================================================================
