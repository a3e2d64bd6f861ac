---------------------------- MODULE PhoneDelivery ------------------------------
(****************************************************************************)
(* How tiles get from the navigator to the phone (main.cpp, CommBLE.cpp):    *)
(* the walls that the table readers hand over in phone_pais, and the live    *)
(* tiles of the high-power reader, collected in unsend_pai and sent batch by *)
(* batch from phone_live_pai.  Each is sent up to kRetryCount times, until   *)
(* the phone's acknowledgement comes back.                                   *)
(*                                                                          *)
(* An action is one turn of the main loop's part for the phone, which runs   *)
(* its handlers in a fixed order; a wall's tiles are abstracted to a number: *)
(* how often that wall has been handed over.                                 *)
(****************************************************************************)
EXTENDS Integers, Sequences, FiniteSets, Functions

CONSTANTS
    kGroup,              \* number of walls (4)
    kHiReaderNumber,     \* what stands for the live tiles in an ack (5)
    kRetryCount,         \* transmissions of a wall or of a batch (3)
    kMaxAdminPaiCount,   \* capacity of a batch of live tiles (3)
    Byte,                \* the range of a transID (256)
    LiveTiles,           \* the tiles the high-power reader will see
    MaxHandOvers,        \* bound: how often a wall is handed over
    MaxWork,             \* bound: walls handed over and live tiles read
    LinkCap,             \* bound: acknowledgements on their way
    NoTransID,           \* the transID of an acknowledgement of 6 bytes
    BareAcks             \* what the phone may acknowledge with those

Group == 1 .. kGroup

ASSUME SizesAssumption ==
    /\ kGroup \in Nat \ {0} /\ kRetryCount \in Nat \ {0} /\ kMaxAdminPaiCount \in Nat \ {0}
    /\ kHiReaderNumber \notin Group
ASSUME BoundsAssumption ==
    /\ MaxHandOvers \in Nat /\ MaxWork \in Nat /\ LinkCap \in Nat
    /\ Byte \in Nat /\ Byte > 2 /\ NoTransID \notin 0 .. Byte - 1
ASSUME BareAcksAssumption == BareAcks \subseteq Group \cup {kHiReaderNumber}

VARIABLES nav,    \* the navigator's globals
          linked, \* BLE::IsLink
          up,     \* acknowledgements on their way to the navigator, oldest first
          seen,   \* the wall the phone has last received, for each group
          got,    \* the live tiles the phone has received
          unread  \* the live tiles the high-power reader has not seen yet

vars == <<nav, linked, up, seen, got, unread>>

\* The thresholds of the timers: phone_send_timer is compared with 1000 or
\* 2000 ms, the others with one limit each.
Limit(s) == IF s.phone_pai_pos = kGroup THEN 2 ELSE 1

Ack == [ack : Group \cup {kHiReaderNumber}, transID : 0 .. Byte - 1 \cup {NoTransID}]

--------------------------------------------------------------------------------
(* The high-power reader's tiles. *)

HiReader_DispatchMessage(s, tile) ==
    [s EXCEPT !.unsend_pai = Append(@, tile), !.unsend_due = FALSE]

\* Mutant: only full batches leave.
SendPaiFullOnly(s) ==
    IF Len(s.unsend_pai) >= kMaxAdminPaiCount
    THEN [s EXCEPT !.live = [@ EXCEPT !.pais = s.unsend_pai, !.is_send = FALSE,
                                      !.is_wait = FALSE, !.send_count = 0],
                   !.unsend_pai = <<>>]
    ELSE s

\* A full batch, or one that has waited 200 ms, is moved to phone_live_pai,
\* whether or not the last one has been acknowledged.
HiReader_SendPai(s) ==
    IF Len(s.unsend_pai) >= kMaxAdminPaiCount \/ (s.unsend_pai # <<>> /\ s.unsend_due)
    THEN [s EXCEPT !.live = [@ EXCEPT !.pais = s.unsend_pai, !.is_send = FALSE,
                                      !.is_wait = FALSE, !.send_count = 0],
                   !.unsend_pai = <<>>]
    ELSE s

--------------------------------------------------------------------------------
(* What the phone sends. *)

Matches(transID, a) == a.transID \in {transID, NoTransID}

\* Mutant: the transID is not compared.
AckOfAnyTransmission(s, a) ==
    IF a.ack = kHiReaderNumber
    THEN [s EXCEPT !.live = [@ EXCEPT !.is_wait = FALSE, !.is_send = TRUE]]
    ELSE [s EXCEPT !.phone_send_wait_ack = FALSE, !.phone_pais[a.ack].is_send = TRUE]

\* PhoneCmd_TilesReaderDataAck and PhoneCmd_AdminReaderDataAck.
Acknowledge(s, a) ==
    IF a.ack = kHiReaderNumber
    THEN IF Matches(s.live.transID, a)
         THEN [s EXCEPT !.live = [@ EXCEPT !.is_wait = FALSE, !.is_send = TRUE]]
         ELSE s
    ELSE IF Matches(s.phone_pais[a.ack].transID, a)
         THEN [s EXCEPT !.phone_send_wait_ack = FALSE, !.phone_pais[a.ack].is_send = TRUE]
         ELSE s

\* CommBLE::GetMessage with a whole frame, and with bytes that are none:
\* is_connected_ is looked at only when there are bytes.
GetFrame(s) == [s EXCEPT !.is_connected = TRUE, !.rx_silent = FALSE]
GetBytes(s) == [s EXCEPT !.is_connected = @ /\ ~s.rx_silent]

--------------------------------------------------------------------------------
(* Sending. *)

\* Mutant: one transmission more.
EndsSearchLater(s) == {g \in Group : /\ ~s.phone_pais[g].is_send
                                     /\ \/ s.phone_pais[g].pais = 0
                                        \/ s.phone_pais[g].send_count <= kRetryCount}

\* The walls that end Phone_SendReaderPais's search: the first of them is sent,
\* unless it was never handed over (its count is 0).
EndsSearch(s) == {g \in Group : /\ ~s.phone_pais[g].is_send
                                /\ \/ s.phone_pais[g].pais = 0
                                   \/ s.phone_pais[g].send_count < kRetryCount}

\* Mutant: a lost acknowledgement is waited for for ever.
WallsDueAfterAck(s) ==
    {g \in EndsSearch(s) : /\ \A h \in EndsSearch(s) : g <= h
                           /\ s.phone_pais[g].pais > 0
                           /\ ~s.phone_send_wait_ack}

\* The wall to be sent now: one at most.
WallsDue(s) ==
    {g \in EndsSearch(s) : /\ \A h \in EndsSearch(s) : g <= h
                           /\ s.phone_pais[g].pais > 0
                           /\ ~s.phone_send_wait_ack \/ s.phone_send_timer >= Limit(s)}

LiveDue(s) == /\ ~s.live.is_wait \/ s.live.due
              /\ s.live.pais # <<>> /\ ~s.live.is_send /\ s.live.send_count < kRetryCount

\* A wall or a batch, transmitted once more.
Transmitted(pais, transID) ==
    [pais EXCEPT !.transID = transID, !.send_count = @ + 1]

SendWall(s, g) ==
    [s EXCEPT !.phone_pai_pos = g, !.phone_send_timer = 0, !.phone_send_wait_ack = TRUE,
              !.tx_transID = (@ + 1) % Byte,
              !.phone_pais[g] = Transmitted(@, (s.tx_transID + 1) % Byte)]

SendLive(s) ==
    [s EXCEPT !.tx_transID = (@ + 1) % Byte,
              !.live = [Transmitted(@, (s.tx_transID + 1) % Byte) EXCEPT !.is_wait = TRUE,
                                                                        !.due = FALSE]]

\* Phone_SendReaderPais: a wall and a batch in one call.
Phone_SendReaderPais(s, walls, live) ==
    LET sent == IF walls = {} THEN s ELSE SendWall(s, CHOOSE g \in walls : TRUE)
    IN  IF live THEN SendLive(sent) ELSE sent

--------------------------------------------------------------------------------
(* The phone and the radio link to it. *)

\* The phone answers a frame it has received with the frame's transID, or with
\* none; the answer may be lost.
Answers(ack, transID) ==
    {<<>>} \cup {<<a>> : a \in [ack : {ack},
                               transID : {transID} \cup IF ack \in BareAcks THEN {NoTransID} ELSE {}]}

\* What the phone makes of the walls and the batch sent in this turn.
PhoneHears(s, walls, live, waiting) ==
    \E heardWalls \in SUBSET walls, heardLive \in {FALSE, live} :
        /\ seen' = [g \in Group |-> IF g \in heardWalls THEN s.phone_pais[g].pais ELSE seen[g]]
        /\ got' = IF heardLive THEN got \cup {s.live.pais[i] : i \in 1 .. Len(s.live.pais)}
                               ELSE got
        /\ \E wallAck \in {<<>>} \cup UNION {Answers(g, s.phone_pais[g].transID) : g \in heardWalls},
              liveAck \in IF heardLive THEN Answers(kHiReaderNumber, s.live.transID) ELSE {<<>>} :
              /\ Len(waiting \o wallAck \o liveAck) <= LinkCap
              /\ up' = waiting \o wallAck \o liveAck

--------------------------------------------------------------------------------
(* Initial state: Navigator_Init and the constructor of CommBLE. *)

Init ==
    /\ nav = [phone_pais |-> [g \in Group |-> [pais |-> 0, is_send |-> FALSE,
                                               send_count |-> 0, transID |-> 0]],
              phone_send_wait_ack |-> FALSE, phone_send_timer |-> 0, phone_pai_pos |-> 0,
              live |-> [pais |-> <<>>, is_send |-> FALSE, is_wait |-> FALSE,
                        send_count |-> 0, transID |-> 0, due |-> FALSE],
              unsend_pai |-> <<>>, unsend_due |-> FALSE,
              tx_transID |-> 0, is_connected |-> FALSE, rx_silent |-> FALSE]
    /\ linked = FALSE
    /\ up = <<>>
    /\ seen = [g \in Group |-> 0]
    /\ got = {}
    /\ unread = LiveTiles

--------------------------------------------------------------------------------
(* The main loop. *)

\* Walls handed over and live tiles read so far.
Work == FoldFunction(LAMBDA wall, sum : wall.pais + sum, 0, nav.phone_pais)
          + Cardinality(LiveTiles \ unread)

\* What CommBLE::GetMessage finds: nothing, stray bytes, an acknowledgement, or
\* a frame with something else in it.
Inputs == {"nothing", "bytes", "frame"} \cup IF up = <<>> THEN {} ELSE {"ack"}

Phone_DispatchMessage(s, input) ==
    CASE input = "nothing" -> s
      [] input = "bytes"   -> GetBytes(s)
      [] input = "frame"   -> GetFrame(s)
      [] input = "ack"     -> Acknowledge(GetFrame(s), Head(up))

\* One turn with the phone linked: a live tile if there is one, the batch, a
\* message from the phone if there is one, and what is due to be sent.
LinkTurn ==
    /\ linked
    /\ \E tiles \in {{}} \cup IF Work < MaxWork THEN {{t} : t \in unread} ELSE {}, input \in Inputs :
       \E read \in {IF tiles = {} THEN nav
                     ELSE HiReader_DispatchMessage(nav, CHOOSE t \in tiles : TRUE)} :
       \E s \in {Phone_DispatchMessage(HiReader_SendPai(read), input)} :
       \E walls \in {IF s.is_connected THEN WallsDue(s) ELSE {}},
          live  \in {s.is_connected /\ LiveDue(s)} :
            /\ nav' = Phone_SendReaderPais(s, walls, live)
            /\ PhoneHears(nav', walls, live, IF input = "ack" THEN Tail(up) ELSE up)
            /\ unread' = unread \ tiles
    /\ UNCHANGED linked

\* Mutant: the transmissions of the last wall count for the next one.
KeepsCount(wall) == [wall EXCEPT !.pais = @ + 1, !.is_send = FALSE]

\* A wall handed over anew: its transID stays.
HandedOver(wall) == [wall EXCEPT !.pais = @ + 1, !.is_send = FALSE, !.send_count = 0]

\* SendGroupTileToPhone and DAT_Load hand walls over, linked or not.  Nothing can
\* tell what an acknowledgement without a transID is for, so that one is assumed
\* not to be overtaken by the next wall.
HandOver ==
    \E walls \in SUBSET Group \ {{}} :
        /\ Work + Cardinality(walls) <= MaxWork
        /\ \A g \in walls : /\ nav.phone_pais[g].pais < MaxHandOvers
                            /\ [ack |-> g, transID |-> NoTransID] \notin {up[i] : i \in 1 .. Len(up)}
        /\ nav' = [nav EXCEPT !.phone_pais = [g \in Group |->
                      IF g \in walls THEN HandedOver(@[g]) ELSE @[g]]]
        /\ UNCHANGED <<linked, up, seen, got, unread>>

\* The timers that something waits for.
Tick ==
    /\ \/ /\ nav.phone_send_wait_ack /\ nav.phone_send_timer < Limit(nav)
          /\ nav' = [nav EXCEPT !.phone_send_timer = @ + 1]
       \/ /\ nav.live.is_wait /\ ~nav.live.due
          /\ nav' = [nav EXCEPT !.live.due = TRUE]
       \/ /\ nav.unsend_pai # <<>> /\ ~nav.unsend_due
          /\ nav' = [nav EXCEPT !.unsend_due = TRUE]
    /\ UNCHANGED <<linked, up, seen, got, unread>>

\* Nothing has come from the phone for kRxOverTime.
Silence ==
    /\ nav.is_connected /\ ~nav.rx_silent
    /\ nav' = [nav EXCEPT !.rx_silent = TRUE]
    /\ UNCHANGED <<linked, up, seen, got, unread>>

LinkChanges == linked' = ~linked /\ UNCHANGED <<nav, up, seen, got, unread>>

AckLost ==
    /\ up # <<>> /\ up' = Tail(up)
    /\ UNCHANGED <<nav, linked, seen, got, unread>>

Next == LinkTurn \/ HandOver \/ Tick \/ Silence \/ LinkChanges \/ AckLost

Spec == Init /\ [][Next]_vars

\* There is something for a turn to do, whatever the phone sends.
Busy ==
    /\ linked
    /\ \/ HiReader_SendPai(nav) # nav
       \/ nav.is_connected /\ (WallsDue(nav) # {} \/ LiveDue(nav))

\* The main loop turns for ever and the timers run; the phone need not send.
FairSpec == Spec /\ WF_vars(Busy /\ LinkTurn) /\ WF_vars(Tick)

--------------------------------------------------------------------------------
(* Properties. *)

PhonePais == [pais : 0 .. MaxHandOvers, is_send : BOOLEAN, send_count : 0 .. kRetryCount,
              transID : 0 .. Byte - 1]

Batches(n) == UNION {[1 .. m -> LiveTiles] : m \in 0 .. n}

\* The globals, with at most n tiles in unsend_pai.
Globals(n) ==
    [phone_pais : [Group -> PhonePais],
     phone_send_wait_ack : BOOLEAN, phone_send_timer : 0 .. 2, phone_pai_pos : {0} \cup Group,
     live : [pais : Batches(kMaxAdminPaiCount), is_send : BOOLEAN, is_wait : BOOLEAN,
             send_count : 0 .. kRetryCount, transID : 0 .. Byte - 1, due : BOOLEAN],
     unsend_pai : Batches(n), unsend_due : BOOLEAN,
     tx_transID : 0 .. Byte - 1, is_connected : BOOLEAN, rx_silent : BOOLEAN]

\* Every global has a value of its type: no wall and no batch is sent more than
\* kRetryCount times, and unsend_pai, which HiReader_DispatchMessage fills
\* without a bound check, has room for the next tile.
TypeOK ==
    /\ nav \in Globals(kMaxAdminPaiCount - 1)
    /\ linked \in BOOLEAN
    /\ up \in Seq(Ack) /\ Len(up) <= LinkCap
    /\ seen \in [Group -> 0 .. MaxHandOvers]
    /\ got \subseteq LiveTiles /\ unread \subseteq LiveTiles

WallReceived(g) == seen[g] = nav.phone_pais[g].pais
LiveReceived    == \A i \in 1 .. Len(nav.live.pais) : nav.live.pais[i] \in got

\* What has been sent and is marked as acknowledged is what the phone has: an
\* acknowledgement of an earlier wall or batch is not taken for one of what was
\* transmitted since.
SentIsReceived ==
    /\ \A g \in Group : nav.phone_pais[g].is_send /\ nav.phone_pais[g].send_count > 0
                            => WallReceived(g)
    /\ nav.live.is_send /\ nav.live.send_count > 0 => LiveReceived

\* The box that each wall is in, as Mailbox describes it.
Box(g) == INSTANCE Mailbox WITH
    Tries <- kRetryCount,
    wall <- nav.phone_pais[g].pais, tried <- nav.phone_pais[g].send_count,
    marked <- nav.phone_pais[g].is_send, received <- seen[g]

\* Each wall on its way is in a Mailbox, although all share one timer, one flag that
\* waits for an acknowledgement and one channel: it is never sent before it was handed
\* over, once it is acknowledged or more often than kRetryCount; the phone gets the wall
\* handed over last; and only what the phone has is acknowledged, but for a wall that
\* was not sent yet.
WallsAreMailboxes ==
    /\ \A g \in Group : Box(g)!Init
    /\ [][\A g \in Group : UNCHANGED Box(g)!vars \/ Box(g)!Next]_vars

\* A wall that was handed over is acknowledged, or sent kRetryCount times, unless
\* the phone goes away; a wall before it that was never handed over holds it up
\* for ever (Phone_SendReaderPais ends its search there).
Open(g) == nav.phone_pais[g].pais > 0 /\ ~nav.phone_pais[g].is_send
             /\ nav.phone_pais[g].send_count < kRetryCount
PhoneAway == ~linked \/ ~nav.is_connected
WallsSettle ==
    \A g \in Group :
        Open(g) /\ (\A h \in 1 .. g : nav.phone_pais[h].pais > 0) ~> ~Open(g) \/ PhoneAway

\* Every live tile read is sent in its turn, and acknowledged or its batch sent
\* kRetryCount times, unless the phone goes away or a later batch replaces it.
LiveOpen == \/ nav.unsend_pai # <<>>
            \/ /\ nav.live.pais # <<>> /\ ~nav.live.is_send
               /\ nav.live.send_count < kRetryCount
LiveSettles == LiveOpen ~> ~LiveOpen \/ PhoneAway
================================================================================
