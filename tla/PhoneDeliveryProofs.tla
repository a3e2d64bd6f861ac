-------------------------- MODULE PhoneDeliveryProofs --------------------------
(****************************************************************************)
(* Proofs about PhoneDelivery: the types, and that what is marked as sent    *)
(* was received, as long as the transIDs do not wrap.                        *)
(****************************************************************************)
EXTENDS PhoneDelivery, TLAPS

LEMMA Constants ==
    /\ kGroup \in Nat \ {0} /\ kRetryCount \in Nat \ {0} /\ kMaxAdminPaiCount \in Nat \ {0}
    /\ kHiReaderNumber \notin Group
    /\ MaxHandOvers \in Nat /\ MaxWork \in Nat /\ LinkCap \in Nat /\ Byte \in Nat \ {0} /\ Byte > 2
    /\ NoTransID \notin 0 .. Byte - 1
    /\ BareAcks \subseteq Group \cup {kHiReaderNumber}
  BY SizesAssumption, BoundsAssumption, BareAcksAssumption

--------------------------------------------------------------------------------
(* Batches are sequences. *)

LEMMA BatchIsSeq ==
    ASSUME NEW n \in Nat, NEW q \in Batches(n)
    PROVE  q \in Seq(LiveTiles) /\ Len(q) \in 0 .. n
<1>1. PICK m \in 0 .. n : q \in [1 .. m -> LiveTiles]
  BY DEF Batches
<1> QED BY <1>1

LEMMA SeqIsBatch ==
    ASSUME NEW n \in Nat, NEW q \in Seq(LiveTiles), Len(q) <= n
    PROVE  q \in Batches(n)
<1>1. Len(q) \in 0 .. n /\ q \in [1 .. Len(q) -> LiveTiles]
  OBVIOUS
<1> QED BY <1>1 DEF Batches

LEMMA EmptyBatch == ASSUME NEW n \in Nat PROVE <<>> \in Batches(n)
<1>1. [i \in 1 .. 0 |-> 0] \in [1 .. 0 -> LiveTiles] /\ 0 \in 0 .. n
  OBVIOUS
<1>2. <<>> = [i \in 1 .. 0 |-> 0]
  OBVIOUS
<1> QED BY <1>1, <1>2 DEF Batches

--------------------------------------------------------------------------------
(* What each handler makes of the globals. *)

Max1 == kMaxAdminPaiCount

LiveBatch == [pais : Batches(kMaxAdminPaiCount), is_send : BOOLEAN, is_wait : BOOLEAN,
              send_count : 0 .. kRetryCount, transID : 0 .. Byte - 1, due : BOOLEAN]

LEMMA DispatchTyped ==
    ASSUME NEW s \in Globals(Max1 - 1), NEW t \in LiveTiles
    PROVE  HiReader_DispatchMessage(s, t) \in Globals(Max1)
<1>1. s.unsend_pai \in Seq(LiveTiles) /\ Len(s.unsend_pai) \in 0 .. Max1 - 1
  BY Constants, BatchIsSeq DEF Globals, Max1
<1>2. /\ Append(s.unsend_pai, t) \in Seq(LiveTiles)
      /\ Len(Append(s.unsend_pai, t)) <= Max1
  BY <1>1, Constants DEF Max1
<1>3. Append(s.unsend_pai, t) \in Batches(Max1)
  BY <1>2, Constants, SeqIsBatch DEF Max1
<1> QED BY <1>3 DEF HiReader_DispatchMessage, Globals

LEMMA FewerAreFewer == Globals(Max1 - 1) \subseteq Globals(Max1)
<1>1. Batches(Max1 - 1) \subseteq Batches(Max1)
  BY Constants DEF Batches, Max1
<1> QED BY <1>1 DEF Globals

\* SendPai leaves room: a full batch is moved.
LEMMA SendPaiTyped ==
    ASSUME NEW s \in Globals(Max1)
    PROVE  HiReader_SendPai(s) \in Globals(Max1 - 1)
<1>1. s.unsend_pai \in Seq(LiveTiles) /\ Len(s.unsend_pai) \in 0 .. Max1
  BY Constants, BatchIsSeq DEF Globals, Max1
<1>2. <<>> \in Batches(Max1 - 1)
  BY Constants, EmptyBatch DEF Max1
<1>3. CASE Len(s.unsend_pai) >= kMaxAdminPaiCount \/ (s.unsend_pai # <<>> /\ s.unsend_due)
  <2>1. HiReader_SendPai(s) =
            [s EXCEPT !.live = [@ EXCEPT !.pais = s.unsend_pai, !.is_send = FALSE,
                                         !.is_wait = FALSE, !.send_count = 0],
                      !.unsend_pai = <<>>]
    BY <1>3 DEF HiReader_SendPai
  <2>2. /\ s.unsend_pai \in Batches(kMaxAdminPaiCount) /\ s.live \in LiveBatch
        /\ 0 \in 0 .. kRetryCount
    BY Constants DEF Globals, LiveBatch, Max1
  <2> DEFINE live == [s.live EXCEPT !.pais = s.unsend_pai, !.is_send = FALSE,
                                    !.is_wait = FALSE, !.send_count = 0]
  <2>3. live \in LiveBatch
    BY <2>2 DEF LiveBatch
  <2>4. HiReader_SendPai(s) = [s EXCEPT !.live = live, !.unsend_pai = <<>>]
    BY <2>1
  <2> HIDE DEF live
  <2> QED BY <2>3, <2>4, <1>2 DEF Globals, LiveBatch
<1>4. CASE ~(Len(s.unsend_pai) >= kMaxAdminPaiCount \/ (s.unsend_pai # <<>> /\ s.unsend_due))
  <2>1. HiReader_SendPai(s) = s
    BY <1>4 DEF HiReader_SendPai
  <2>2. s.unsend_pai \in Batches(Max1 - 1)
    BY <1>1, <1>4, Constants, SeqIsBatch DEF Max1
  <2> QED BY <2>1, <2>2 DEF Globals
<1> QED BY <1>3, <1>4

Room == Globals(Max1 - 1)

LEMMA AcknowledgeTyped ==
    ASSUME NEW s \in Room, NEW a \in Ack PROVE Acknowledge(s, a) \in Room
<1>1. CASE a.ack = kHiReaderNumber
  BY <1>1 DEF Acknowledge, Room, Globals
<1>2. CASE a.ack \in Group
  <2> DEFINE wall == [s.phone_pais[a.ack] EXCEPT !.is_send = TRUE]
  <2>1. wall \in PhonePais
    BY <1>2 DEF Room, Globals, PhonePais
  <2>2. \/ Acknowledge(s, a) = s
        \/ Acknowledge(s, a) = [s EXCEPT !.phone_send_wait_ack = FALSE,
                                         !.phone_pais = [s.phone_pais EXCEPT ![a.ack] = wall]]
    BY <1>2, Constants DEF Acknowledge
  <2> HIDE DEF wall
  <2> DEFINE pais == [s.phone_pais EXCEPT ![a.ack] = wall]
  <2>3. pais \in [Group -> PhonePais]
    BY <2>1, <1>2 DEF Room, Globals
  <2> HIDE DEF pais
  <2> QED BY <2>2, <2>3 DEF Room, Globals, pais
<1> QED BY <1>1, <1>2 DEF Ack

LEMMA InputTyped ==
    ASSUME NEW s \in Room, NEW input \in Inputs, up \in Seq(Ack)
    PROVE  Phone_DispatchMessage(s, input) \in Room
<1>1. GetBytes(s) \in Room /\ GetFrame(s) \in Room
  BY DEF GetBytes, GetFrame, Room, Globals
<1>2. CASE input = "ack"
  <2>1. Head(up) \in Ack
    BY <1>2 DEF Inputs
  <2> QED BY <1>1, <1>2, <2>1, AcknowledgeTyped DEF Phone_DispatchMessage
<1>3. CASE input # "ack"
  BY <1>1, <1>3 DEF Phone_DispatchMessage, Inputs
<1> QED BY <1>2, <1>3

LEMMA NextIDTyped == ASSUME NEW i \in 0 .. Byte - 1 PROVE (i + 1) % Byte \in 0 .. Byte - 1
  BY Constants

LEMMA SendWallTyped ==
    ASSUME NEW s \in Room, NEW g \in WallsDue(s)
    PROVE  SendWall(s, g) \in Room
<1>1. /\ g \in Group /\ s.phone_pais[g] \in PhonePais
      /\ s.phone_pais[g].send_count < kRetryCount
  BY Constants DEF WallsDue, EndsSearch, Room, Globals, PhonePais
<1>2. (s.tx_transID + 1) % Byte \in 0 .. Byte - 1
  BY NextIDTyped DEF Room, Globals
<1> DEFINE id == (s.tx_transID + 1) % Byte
           wall == Transmitted(s.phone_pais[g], id)
           pais == [s.phone_pais EXCEPT ![g] = wall]
<1>3. s.phone_pais[g].send_count + 1 \in 0 .. kRetryCount
  BY <1>1, Constants DEF PhonePais
<1> HIDE DEF id
<1>4. wall \in PhonePais
  BY <1>1, <1>2, <1>3 DEF PhonePais, Transmitted, id
<1>5. SendWall(s, g) =
          [s EXCEPT !.phone_pai_pos = g, !.phone_send_timer = 0, !.phone_send_wait_ack = TRUE,
                    !.tx_transID = id, !.phone_pais = pais]
  BY DEF SendWall, id
<1>6. id \in 0 .. Byte - 1
  BY <1>2 DEF id
<1> HIDE DEF wall
<1>7. pais \in [Group -> PhonePais]
  BY <1>1, <1>4 DEF Room, Globals
<1> HIDE DEF pais
<1> DEFINE r == [s EXCEPT !.phone_pai_pos = g, !.phone_send_timer = 0,
                          !.phone_send_wait_ack = TRUE]
<1>8. r \in Room
  <2>1. g \in {0} \cup Group /\ 0 \in 0 .. 2
    BY <1>1
  <2> QED BY <2>1 DEF Room, Globals
<1>9. SendWall(s, g) = [r EXCEPT !.tx_transID = id, !.phone_pais = pais]
  BY <1>5
<1> HIDE DEF r
<1> QED BY <1>6, <1>7, <1>8, <1>9 DEF Room, Globals

LEMMA SendLiveTyped ==
    ASSUME NEW s \in Room, s.live.send_count < kRetryCount
    PROVE  SendLive(s) \in Room
<1>1. (s.tx_transID + 1) % Byte \in 0 .. Byte - 1
  BY NextIDTyped DEF Room, Globals
<1> DEFINE id == (s.tx_transID + 1) % Byte
           sent == Transmitted(s.live, id)
           live == [sent EXCEPT !.is_wait = TRUE, !.due = FALSE]
<1>2. s.live \in LiveBatch /\ s.live.send_count + 1 \in 0 .. kRetryCount
  BY Constants DEF Room, Globals, LiveBatch
<1> HIDE DEF id
<1>3. live \in LiveBatch
  BY <1>1, <1>2 DEF LiveBatch, id, Transmitted
<1>4. SendLive(s) = [s EXCEPT !.tx_transID = id, !.live = live]
  BY DEF SendLive, id
<1> HIDE DEF live
<1>5. id \in 0 .. Byte - 1
  BY <1>1 DEF id
<1> QED BY <1>3, <1>4, <1>5 DEF Room, Globals, LiveBatch

--------------------------------------------------------------------------------
(* A turn, action by action. *)

WallChosen(s) == CHOOSE g \in WallsDue(s) : TRUE

LEMMA SendsTyped ==
    ASSUME NEW s \in Room, NEW walls \in {{}, WallsDue(s)}, NEW live \in BOOLEAN, live => LiveDue(s)
    PROVE  Phone_SendReaderPais(s, walls, live) \in Room
<1> DEFINE sent == IF walls = {} THEN s ELSE SendWall(s, CHOOSE g \in walls : TRUE)
<1>1. CASE walls = {}
  <2>1. sent = s
    BY <1>1
  <2> QED BY <2>1, <1>1, SendLiveTyped DEF Phone_SendReaderPais, LiveDue
<1>2. CASE walls # {}
  <2>1. PICK g \in WallsDue(s) : sent = SendWall(s, g)
    BY <1>2
  <2>2. sent \in Room
    BY <2>1, SendWallTyped
  <2>3. sent.live = s.live
    BY <2>1 DEF SendWall, Room, Globals
  <2>4. sent.live.send_count < kRetryCount \/ ~live
    BY <2>3 DEF LiveDue
  <2> HIDE DEF sent
  <2>5. Phone_SendReaderPais(s, walls, live) = IF live THEN SendLive(sent) ELSE sent
    BY DEF Phone_SendReaderPais, sent
  <2> QED BY <2>2, <2>4, <2>5, SendLiveTyped
<1> QED BY <1>1, <1>2

LEMMA WallsAreGroups == ASSUME NEW s PROVE WallsDue(s) \subseteq Group
  BY DEF WallsDue, EndsSearch

\* What LinkTurn does: read are the globals with the live tile, s those before the
\* sending, walls and live what is sent.
Turn(read, input, s, walls, live) ==
    /\ read \in Globals(Max1) /\ input \in Inputs
    /\ read.phone_pais = nav.phone_pais /\ read.live = nav.live
    /\ read.tx_transID = nav.tx_transID
    /\ s = Phone_DispatchMessage(HiReader_SendPai(read), input)
    /\ walls \in {{}, WallsDue(s)} /\ live \in BOOLEAN /\ (live => LiveDue(s))
    /\ nav' = Phone_SendReaderPais(s, walls, live)
    /\ PhoneHears(nav', walls, live, IF input = "ack" THEN Tail(up) ELSE up)
    /\ unread' \subseteq unread /\ UNCHANGED linked

LEMMA TurnShape ==
    ASSUME TypeOK, LinkTurn
    PROVE  \E read, input, s, walls, live : Turn(read, input, s, walls, live)
<1>1. PICK tiles \in {{}} \cup IF Work < MaxWork THEN {{t} : t \in unread} ELSE {}, input \in Inputs :
       \E read \in {IF tiles = {} THEN nav
                     ELSE HiReader_DispatchMessage(nav, CHOOSE t \in tiles : TRUE)} :
       \E s \in {Phone_DispatchMessage(HiReader_SendPai(read), input)} :
       \E walls \in {IF s.is_connected THEN WallsDue(s) ELSE {}},
          live  \in {s.is_connected /\ LiveDue(s)} :
            /\ nav' = Phone_SendReaderPais(s, walls, live)
            /\ PhoneHears(nav', walls, live, IF input = "ack" THEN Tail(up) ELSE up)
            /\ unread' = unread \ tiles
  BY DEF LinkTurn
<1> DEFINE read == IF tiles = {} THEN nav
                   ELSE HiReader_DispatchMessage(nav, CHOOSE t \in tiles : TRUE)
           s == Phone_DispatchMessage(HiReader_SendPai(read), input)
           walls == IF s.is_connected THEN WallsDue(s) ELSE {}
           live == s.is_connected /\ LiveDue(s)
<1>2. nav \in Globals(Max1 - 1) /\ unread \subseteq LiveTiles
  BY DEF TypeOK, Max1
<1>3. /\ read \in Globals(Max1)
      /\ read.phone_pais = nav.phone_pais /\ read.live = nav.live
      /\ read.tx_transID = nav.tx_transID
  <2>1. CASE tiles = {}
    BY <1>2, <2>1, FewerAreFewer
  <2>2. CASE tiles # {}
    <3>1. PICK t \in LiveTiles : read = HiReader_DispatchMessage(nav, t)
      BY <1>2, <2>2
    <3>2. read \in Globals(Max1)
      BY <3>1, <1>2, DispatchTyped
    <3> QED BY <3>1, <3>2, <1>2 DEF HiReader_DispatchMessage, Globals
  <2> QED BY <2>1, <2>2
<1> HIDE DEF read
<1>4. /\ nav' = Phone_SendReaderPais(s, walls, live)
      /\ PhoneHears(nav', walls, live, IF input = "ack" THEN Tail(up) ELSE up)
      /\ unread' \subseteq unread
  BY <1>1 DEF read
<1>5. live \in BOOLEAN /\ (live => LiveDue(s)) /\ walls \in {{}, WallsDue(s)}
  BY DEF LiveDue
<1>6. UNCHANGED linked
  BY DEF LinkTurn
<1> HIDE DEF walls, live
<1>7. Turn(read, input, s, walls, live)
  BY <1>3, <1>4, <1>5, <1>6 DEF Turn
<1> QED BY <1>7

LEMMA AnswersAre ==
    ASSUME NEW ack, NEW id, NEW q \in Answers(ack, id)
    PROVE  \/ q = <<>>
           \/ \E a : /\ q = <<a>> /\ a.ack = ack
                     /\ a.transID = id \/ (a.transID = NoTransID /\ ack \in BareAcks)
                     /\ a \in [ack : {ack}, transID : {id, NoTransID}]
  BY DEF Answers

LEMMA AnswersTyped ==
    ASSUME NEW ack \in Group \cup {kHiReaderNumber}, NEW id \in 0 .. Byte - 1,
           NEW q \in Answers(ack, id)
    PROVE  q \in Seq(Ack)
<1>1. CASE q = <<>>
  BY <1>1
<1>2. CASE q # <<>>
  <2>1. PICK a : q = <<a>> /\ a \in [ack : {ack}, transID : {id, NoTransID}]
    BY <1>2, AnswersAre
  <2>2. a \in Ack
    BY <2>1 DEF Ack
  <2> QED BY <2>1, <2>2
<1> QED BY <1>1, <1>2

LEMMA HearsTyped ==
    ASSUME NEW s \in Room, NEW walls \in SUBSET Group, NEW live \in BOOLEAN,
           NEW waiting \in Seq(Ack), PhoneHears(s, walls, live, waiting),
           seen \in [Group -> 0 .. MaxHandOvers], got \subseteq LiveTiles
    PROVE  /\ up' \in Seq(Ack) /\ Len(up') <= LinkCap
           /\ seen' \in [Group -> 0 .. MaxHandOvers]
           /\ got' \subseteq LiveTiles
<1>1. PICK heardWalls \in SUBSET walls, heardLive \in {FALSE, live} :
        /\ seen' = [g \in Group |-> IF g \in heardWalls THEN s.phone_pais[g].pais ELSE seen[g]]
        /\ got' = IF heardLive THEN got \cup {s.live.pais[i] : i \in 1 .. Len(s.live.pais)}
                               ELSE got
        /\ \E wallAck \in {<<>>} \cup UNION {Answers(g, s.phone_pais[g].transID) : g \in heardWalls},
              liveAck \in IF heardLive THEN Answers(kHiReaderNumber, s.live.transID) ELSE {<<>>} :
              /\ Len(waiting \o wallAck \o liveAck) <= LinkCap
              /\ up' = waiting \o wallAck \o liveAck
  BY DEF PhoneHears
<1>2. seen' \in [Group -> 0 .. MaxHandOvers]
  BY <1>1 DEF Room, Globals, PhonePais
<1>3. got' \subseteq LiveTiles
  <2>1. s.live.pais \in Seq(LiveTiles)
    BY Constants, BatchIsSeq DEF Room, Globals
  <2> QED BY <1>1, <2>1
<1>4. PICK wallAck \in {<<>>} \cup UNION {Answers(g, s.phone_pais[g].transID) : g \in heardWalls},
           liveAck \in IF heardLive THEN Answers(kHiReaderNumber, s.live.transID) ELSE {<<>>} :
              /\ Len(waiting \o wallAck \o liveAck) <= LinkCap
              /\ up' = waiting \o wallAck \o liveAck
  BY <1>1
<1>5. wallAck \in Seq(Ack)
  <2>1. CASE wallAck = <<>>
    BY <2>1
  <2>2. CASE wallAck # <<>>
    <3>1. PICK g \in heardWalls : wallAck \in Answers(g, s.phone_pais[g].transID)
      <4>1. wallAck \in UNION {Answers(g, s.phone_pais[g].transID) : g \in heardWalls}
        BY <1>4, <2>2
      <4> QED BY <4>1
    <3>2. g \in Group /\ s.phone_pais[g].transID \in 0 .. Byte - 1
      BY <1>1, <3>1 DEF Room, Globals, PhonePais
    <3> QED BY <3>1, <3>2, AnswersTyped
  <2> QED BY <2>1, <2>2
<1>6. liveAck \in Seq(Ack)
  <2>1. s.live.transID \in 0 .. Byte - 1
    BY DEF Room, Globals
  <2>2. CASE heardLive
    BY <1>4, <2>1, <2>2, AnswersTyped
  <2>3. CASE ~heardLive
    BY <1>4, <2>3
  <2> QED BY <2>2, <2>3
<1> QED BY <1>2, <1>3, <1>4, <1>5, <1>6

LEMMA WaitingTyped ==
    ASSUME TypeOK, NEW input \in Inputs
    PROVE  (IF input = "ack" THEN Tail(up) ELSE up) \in Seq(Ack)
  BY DEF TypeOK, Inputs

LEMMA TurnTyped ==
    ASSUME TypeOK, NEW read, NEW input, NEW s, NEW walls, NEW live,
           Turn(read, input, s, walls, live)
    PROVE  s \in Room /\ HiReader_SendPai(read) \in Room /\ TypeOK'
<1>1. up \in Seq(Ack)
  BY DEF TypeOK
<1>2. HiReader_SendPai(read) \in Room
  BY SendPaiTyped DEF Turn, Room
<1>3. s \in Room
  BY <1>1, <1>2, InputTyped DEF Turn
<1>4. nav' \in Room
  BY <1>3, SendsTyped DEF Turn
<1>5. walls \in SUBSET Group
  BY WallsAreGroups DEF Turn
<1>6. /\ up' \in Seq(Ack) /\ Len(up') <= LinkCap
      /\ seen' \in [Group -> 0 .. MaxHandOvers]
      /\ got' \subseteq LiveTiles
  BY <1>4, <1>5, WaitingTyped, HearsTyped DEF Turn, TypeOK
<1> QED BY <1>2, <1>3, <1>4, <1>6 DEF TypeOK, Turn, Room, Max1
LEMMA InitTyped == Init => TypeOK
<1> SUFFICES ASSUME Init PROVE TypeOK
  OBVIOUS
<1>1. <<>> \in Batches(kMaxAdminPaiCount - 1) /\ <<>> \in Batches(kMaxAdminPaiCount)
  BY Constants, EmptyBatch
<1>2. 0 \in 0 .. kRetryCount /\ 0 \in 0 .. Byte - 1 /\ 0 \in 0 .. MaxHandOvers
  BY Constants
<1> DEFINE wall == [pais |-> 0, is_send |-> FALSE, send_count |-> 0, transID |-> 0]
<1>3. wall \in PhonePais
  BY <1>2 DEF PhonePais
<1> HIDE DEF wall
<1>4. [g \in Group |-> wall] \in [Group -> PhonePais]
  BY <1>3
<1>5. nav.phone_pais = [g \in Group |-> wall]
  BY DEF Init, wall
<1> DEFINE live == [pais |-> <<>>, is_send |-> FALSE, is_wait |-> FALSE,
                    send_count |-> 0, transID |-> 0, due |-> FALSE]
           pais == [g \in Group |-> wall]
<1>6. live \in LiveBatch
  BY <1>1, <1>2 DEF LiveBatch
<1>7. /\ nav.live = live /\ nav.phone_pais = pais
      /\ nav = [phone_pais |-> pais, phone_send_wait_ack |-> FALSE, phone_send_timer |-> 0,
                phone_pai_pos |-> 0, live |-> live, unsend_pai |-> <<>>, unsend_due |-> FALSE,
                tx_transID |-> 0, is_connected |-> FALSE, rx_silent |-> FALSE]
  BY DEF Init, wall
<1> HIDE DEF live, pais
<1>8. 0 \in 0 .. 2 /\ 0 \in {0} \cup Group
  OBVIOUS
<1>9. pais \in [Group -> PhonePais]
  BY <1>4 DEF pais
<1>10. nav \in Globals(kMaxAdminPaiCount - 1)
  BY <1>1, <1>2, <1>6, <1>7, <1>8, <1>9 DEF Globals, LiveBatch
<1>11. up \in Seq(Ack) /\ Len(up) <= LinkCap /\ linked \in BOOLEAN
  <2>1. up = <<>> /\ Len(<<>>) = 0 /\ linked \in BOOLEAN
    BY DEF Init
  <2> QED BY <2>1, Constants
<1>12. /\ seen \in [Group -> 0 .. MaxHandOvers]
       /\ got \subseteq LiveTiles /\ unread \subseteq LiveTiles
  BY <1>2 DEF Init
<1> QED BY <1>10, <1>11, <1>12 DEF TypeOK

LEMMA HandOverTyped == TypeOK /\ HandOver => TypeOK'
<1> SUFFICES ASSUME TypeOK, HandOver PROVE TypeOK'
  OBVIOUS
<1>1. PICK walls \in SUBSET Group \ {{}} :
        /\ \A g \in walls : nav.phone_pais[g].pais < MaxHandOvers
        /\ nav' = [nav EXCEPT !.phone_pais = [g \in Group |->
                      IF g \in walls THEN HandedOver(@[g]) ELSE @[g]]]
        /\ UNCHANGED <<linked, up, seen, got, unread>>
  BY DEF HandOver
<1> DEFINE pais == [g \in Group |-> IF g \in walls THEN HandedOver(nav.phone_pais[g])
                                                   ELSE nav.phone_pais[g]]
<1>2. nav.phone_pais \in [Group -> PhonePais]
  BY DEF TypeOK, Globals
<1>3. ASSUME NEW g \in walls PROVE HandedOver(nav.phone_pais[g]) \in PhonePais
  <2>1. nav.phone_pais[g] \in PhonePais /\ nav.phone_pais[g].pais < MaxHandOvers
    BY <1>1, <1>2
  <2>2. nav.phone_pais[g].pais + 1 \in 0 .. MaxHandOvers /\ 0 \in 0 .. kRetryCount
    BY <2>1, Constants DEF PhonePais
  <2> QED BY <2>1, <2>2 DEF HandedOver, PhonePais
<1>4. pais \in [Group -> PhonePais]
  BY <1>2, <1>3
<1>5. nav' = [nav EXCEPT !.phone_pais = pais]
  BY <1>1
<1> HIDE DEF pais
<1>6. nav' \in Globals(kMaxAdminPaiCount - 1)
  BY <1>4, <1>5 DEF TypeOK, Globals
<1> QED BY <1>1, <1>6 DEF TypeOK

LEMMA OthersTyped == TypeOK /\ (Tick \/ Silence \/ LinkChanges \/ AckLost) => TypeOK'
<1> SUFFICES ASSUME TypeOK PROVE Tick \/ Silence \/ LinkChanges \/ AckLost => TypeOK'
  OBVIOUS
<1>1. CASE Tick
  <2>1. /\ nav' \in Globals(kMaxAdminPaiCount - 1)
        /\ UNCHANGED <<linked, up, seen, got, unread>>
    <3>1. CASE /\ nav.phone_send_wait_ack /\ nav.phone_send_timer < Limit(nav)
               /\ nav' = [nav EXCEPT !.phone_send_timer = @ + 1]
      <4>1. nav.phone_send_timer + 1 \in 0 .. 2
        BY <3>1 DEF Limit, TypeOK, Globals
      <4> QED BY <1>1, <3>1, <4>1 DEF Tick, TypeOK, Globals
    <3>2. CASE nav' = [nav EXCEPT !.live.due = TRUE]
      <4>1. [nav.live EXCEPT !.due = TRUE] \in LiveBatch
        BY DEF TypeOK, Globals, LiveBatch
      <4> QED BY <1>1, <3>2, <4>1 DEF Tick, TypeOK, Globals, LiveBatch
    <3>3. CASE nav' = [nav EXCEPT !.unsend_due = TRUE]
      BY <1>1, <3>3 DEF Tick, TypeOK, Globals
    <3> QED BY <1>1, <3>1, <3>2, <3>3 DEF Tick
  <2> QED BY <2>1 DEF TypeOK
<1>2. CASE Silence
  <2>1. nav' \in Globals(kMaxAdminPaiCount - 1)
    BY <1>2 DEF Silence, TypeOK, Globals
  <2> QED BY <1>2, <2>1 DEF Silence, TypeOK
<1>3. CASE LinkChanges
  BY <1>3 DEF LinkChanges, TypeOK
<1>4. CASE AckLost
  <2>1. up' = Tail(up) /\ up # <<>> /\ up \in Seq(Ack)
    BY <1>4 DEF AckLost, TypeOK
  <2>2. Tail(up) \in Seq(Ack) /\ Len(Tail(up)) <= Len(up)
    BY <2>1
  <2>3. Len(up') <= LinkCap
    BY <2>1, <2>2, Constants DEF TypeOK
  <2> QED BY <1>4, <2>1, <2>2, <2>3 DEF AckLost, TypeOK
<1> QED BY <1>1, <1>2, <1>3, <1>4

LEMMA NextTyped == TypeOK /\ [Next]_vars => TypeOK'
<1> SUFFICES ASSUME TypeOK, [Next]_vars PROVE TypeOK'
  OBVIOUS
<1>1. CASE LinkTurn
  BY <1>1, TurnShape, TurnTyped
<1>2. CASE UNCHANGED vars
  BY <1>2 DEF vars, TypeOK
<1> QED BY <1>1, <1>2, HandOverTyped, OthersTyped DEF Next

\* The globals keep their types; above all, unsend_pai has room for a tile whenever one
\* may come, because every turn ends with a batch less than full.
THEOREM PhoneTyped == Spec => []TypeOK
  BY InitTyped, NextTyped, PTL DEF Spec
--------------------------------------------------------------------------------
(* What is marked as sent was received. *)

\* No transmission takes tx_transID round: a turn takes two of the Byte values at most.
IDsGrow == nav'.tx_transID >= nav.tx_transID

BatchIn(live, tiles) == \A i \in 1 .. Len(live.pais) : live.pais[i] \in tiles

\* Nothing bears a transID that is still to come.
Issued(s) ==
    /\ \A g \in Group : s.phone_pais[g].transID <= s.tx_transID
    /\ s.live.transID <= s.tx_transID

\* An acknowledgement that would be accepted for what was transmitted since the last
\* hand-over is one of something the phone has.
Honest(s, a, walls, tiles) ==
    /\ a.transID # NoTransID => a.transID <= s.tx_transID
    /\ a.ack \in Group =>
           ((\/ a.transID = NoTransID
             \/ a.transID = s.phone_pais[a.ack].transID /\ s.phone_pais[a.ack].send_count > 0)
                => walls[a.ack] = s.phone_pais[a.ack].pais)
    /\ a.ack = kHiReaderNumber =>
           /\ a.transID # NoTransID
           /\ a.transID = s.live.transID /\ s.live.send_count > 0 => BatchIn(s.live, tiles)

\* SentIsReceived, of globals s.
Marked(s, walls, tiles) ==
    /\ \A g \in Group : s.phone_pais[g].is_send /\ s.phone_pais[g].send_count > 0
                            => walls[g] = s.phone_pais[g].pais
    /\ s.live.is_send /\ s.live.send_count > 0 => BatchIn(s.live, tiles)

AllHonest(s, q, walls, tiles) == \A i \in 1 .. Len(q) : Honest(s, q[i], walls, tiles)

Sound(s, q, walls, tiles) ==
    Issued(s) /\ AllHonest(s, q, walls, tiles) /\ Marked(s, walls, tiles)

SentInv == Sound(nav, up, seen, got)

LEMMA SoundOfParts ==
    ASSUME NEW s, NEW r, NEW q, NEW walls, NEW tiles, Sound(s, q, walls, tiles),
           r.phone_pais = s.phone_pais, r.live = s.live, r.tx_transID = s.tx_transID
    PROVE  Sound(r, q, walls, tiles)
  BY DEF Sound, Issued, AllHonest, Honest, Marked

LEMMA SendPaiSound ==
    ASSUME NEW s \in Globals(Max1), NEW q, NEW walls, NEW tiles, Sound(s, q, walls, tiles)
    PROVE  Sound(HiReader_SendPai(s), q, walls, tiles)
<1> DEFINE r == HiReader_SendPai(s)
<1>1. /\ r.phone_pais = s.phone_pais /\ r.tx_transID = s.tx_transID
      /\ r.live.transID = s.live.transID
      /\ r.live = s.live \/ r.live.send_count = 0
  BY DEF HiReader_SendPai, Globals
<1> SUFFICES Sound(r, q, walls, tiles)
  OBVIOUS
<1> HIDE DEF r
<1>2. CASE r.live = s.live
  BY <1>1, <1>2, SoundOfParts
<1>3. CASE r.live.send_count = 0
  BY <1>1, <1>3 DEF Sound, Issued, AllHonest, Honest, Marked
<1> QED BY <1>1, <1>2, <1>3

LEMMA AcknowledgeSound ==
    ASSUME NEW s \in Room, NEW a \in Ack, NEW q, NEW walls, NEW tiles,
           Sound(s, q, walls, tiles), Honest(s, a, walls, tiles)
    PROVE  Sound(Acknowledge(s, a), q, walls, tiles)
<1> DEFINE r == Acknowledge(s, a)
<1> SUFFICES Sound(r, q, walls, tiles)
  OBVIOUS
<1>1. CASE r = s
  BY <1>1
<1>2. CASE a.ack = kHiReaderNumber /\ r # s
  <2>1. /\ Matches(s.live.transID, a)
        /\ r = [s EXCEPT !.live = [@ EXCEPT !.is_wait = FALSE, !.is_send = TRUE]]
    BY <1>2 DEF Acknowledge
  <2>2. /\ r.phone_pais = s.phone_pais /\ r.tx_transID = s.tx_transID
        /\ r.live.transID = s.live.transID /\ r.live.send_count = s.live.send_count
        /\ r.live.pais = s.live.pais
    BY <2>1 DEF Room, Globals
  <2>3. s.live.send_count > 0 => BatchIn(s.live, tiles)
    BY <1>2, <2>1 DEF Honest, Matches
  <2> HIDE DEF r
  <2> QED BY <2>2, <2>3 DEF Sound, Issued, AllHonest, Honest, Marked, BatchIn
<1>3. CASE a.ack # kHiReaderNumber /\ r # s
  <2>1. /\ Matches(s.phone_pais[a.ack].transID, a) /\ a.ack \in Group
        /\ r = [s EXCEPT !.phone_send_wait_ack = FALSE, !.phone_pais[a.ack].is_send = TRUE]
    BY <1>3 DEF Acknowledge, Ack
  <2>2. /\ r.live = s.live /\ r.tx_transID = s.tx_transID
        /\ \A g \in Group : /\ r.phone_pais[g].pais = s.phone_pais[g].pais
                            /\ r.phone_pais[g].transID = s.phone_pais[g].transID
                            /\ r.phone_pais[g].send_count = s.phone_pais[g].send_count
                            /\ g # a.ack => r.phone_pais[g] = s.phone_pais[g]
    BY <2>1 DEF Room, Globals, PhonePais
  <2>3. s.phone_pais[a.ack].send_count > 0 => walls[a.ack] = s.phone_pais[a.ack].pais
    BY <2>1 DEF Honest, Matches
  <2> HIDE DEF r
  <2>4. Issued(r)
    BY <2>2 DEF Sound, Issued
  <2>5. AllHonest(r, q, walls, tiles)
    BY <2>2 DEF Sound, AllHonest, Honest
  <2>6. Marked(r, walls, tiles)
    BY <2>1, <2>2, <2>3 DEF Sound, Marked
  <2> QED BY <2>4, <2>5, <2>6 DEF Sound
<1> QED BY <1>1, <1>2, <1>3

LEMMA InputSound ==
    ASSUME NEW s \in Room, NEW input \in Inputs, up \in Seq(Ack), NEW walls, NEW tiles,
           Sound(s, up, walls, tiles)
    PROVE  Sound(Phone_DispatchMessage(s, input), IF input = "ack" THEN Tail(up) ELSE up,
                 walls, tiles)
<1>1. /\ GetFrame(s) \in Room
      /\ Sound(GetFrame(s), up, walls, tiles) /\ Sound(GetBytes(s), up, walls, tiles)
  <2>1. GetFrame(s) \in Room
    BY DEF GetFrame, Room, Globals
  <2>2. /\ GetFrame(s).phone_pais = s.phone_pais /\ GetBytes(s).phone_pais = s.phone_pais
        /\ GetFrame(s).live = s.live /\ GetBytes(s).live = s.live
        /\ GetFrame(s).tx_transID = s.tx_transID /\ GetBytes(s).tx_transID = s.tx_transID
    BY DEF GetFrame, GetBytes, Room, Globals
  <2> QED BY <2>1, <2>2, SoundOfParts
<1>2. CASE input = "ack"
  <2>1. up # <<>> /\ Head(up) \in Ack /\ Head(up) = up[1] /\ 1 \in 1 .. Len(up)
    BY <1>2 DEF Inputs
  <2>2. \A i \in 1 .. Len(Tail(up)) : i + 1 \in 1 .. Len(up) /\ Tail(up)[i] = up[i + 1]
    BY <2>1
  <2>3. Sound(GetFrame(s), Tail(up), walls, tiles)
    BY <1>1, <2>2 DEF Sound, AllHonest
  <2>4. Honest(GetFrame(s), Head(up), walls, tiles)
    BY <1>1, <2>1 DEF Sound, AllHonest
  <2> QED BY <1>1, <1>2, <2>1, <2>3, <2>4, AcknowledgeSound DEF Phone_DispatchMessage
<1>3. CASE input # "ack"
  BY <1>1, <1>3 DEF Phone_DispatchMessage, Inputs
<1> QED BY <1>2, <1>3
LEMMA NextID ==
    ASSUME NEW i \in 0 .. Byte - 1
    PROVE  (i + 1) % Byte = IF i + 1 < Byte THEN i + 1 ELSE 0
<1>1. CASE i + 1 < Byte
  BY <1>1, Constants
<1>2. CASE i + 1 = Byte
  BY <1>2, Constants
<1> QED BY <1>1, <1>2, Constants

\* Sending gives what is sent a transID of its own, so that no acknowledgement on its
\* way is one for it.
LEMMA SendWallSound ==
    ASSUME NEW s \in Room, NEW g \in WallsDue(s), s.tx_transID + 1 < Byte,
           NEW q \in Seq(Ack), NEW walls, NEW tiles, Sound(s, q, walls, tiles)
    PROVE  Sound(SendWall(s, g), q, walls, tiles)
<1> DEFINE r == SendWall(s, g)
           id == s.tx_transID + 1
<1> SUFFICES Sound(r, q, walls, tiles)
  OBVIOUS
<1>1. (s.tx_transID + 1) % Byte = id /\ s.tx_transID \in 0 .. Byte - 1
  <2>1. s.tx_transID \in 0 .. Byte - 1
    BY DEF Room, Globals
  <2> QED BY <2>1, NextID
<1>2. g \in Group /\ ~s.phone_pais[g].is_send
  BY DEF WallsDue, EndsSearch
<1>3. /\ r.live = s.live /\ r.tx_transID = id
      /\ r.phone_pais = [s.phone_pais EXCEPT ![g] = Transmitted(@, id)]
  BY <1>1 DEF SendWall, Room, Globals
<1>4. /\ \A h \in Group : h # g => r.phone_pais[h] = s.phone_pais[h]
      /\ r.phone_pais[g].pais = s.phone_pais[g].pais
      /\ ~r.phone_pais[g].is_send
      /\ r.phone_pais[g].transID = id
  BY <1>2, <1>3 DEF Room, Globals, PhonePais, Transmitted
<1>5. \A h \in Group : s.phone_pais[h].transID \in Int
  BY DEF Room, Globals, PhonePais
<1>6. s.live.transID \in Int /\ s.tx_transID \in Int
  BY <1>1, Constants DEF Room, Globals
<1>7. \A i \in 1 .. Len(q) : q[i] \in Ack
  OBVIOUS
<1> HIDE DEF r
<1>8. Issued(r)
  BY <1>3, <1>4, <1>5, <1>6 DEF Sound, Issued
<1>9. Marked(r, walls, tiles)
  BY <1>2, <1>3, <1>4 DEF Sound, Marked
<1>10. ASSUME NEW i \in 1 .. Len(q) PROVE Honest(r, q[i], walls, tiles)
  <2> DEFINE a == q[i]
  <2>1. a \in Ack /\ Honest(s, a, walls, tiles)
    BY <1>7 DEF Sound, AllHonest
  <2> SUFFICES Honest(r, a, walls, tiles)
    OBVIOUS
  <2> HIDE DEF a
  <2>2. a.transID # NoTransID => a.transID \in Int /\ a.transID <= s.tx_transID
    BY <2>1, Constants DEF Ack, Honest
  <2>3. a.transID # NoTransID => a.transID <= id /\ a.transID # id
    BY <2>2, <1>6
  <2>4. CASE a.ack = g
    BY <1>2, <1>3, <1>4, <2>1, <2>3, <2>4, Constants DEF Honest
  <2>5. CASE a.ack # g
    BY <1>3, <1>4, <2>1, <2>3, <2>5 DEF Honest
  <2> QED BY <2>4, <2>5
<1> QED BY <1>8, <1>9, <1>10 DEF Sound, AllHonest

LEMMA SendLiveSound ==
    ASSUME NEW s \in Room, ~s.live.is_send, s.tx_transID + 1 < Byte,
           NEW q \in Seq(Ack), NEW walls, NEW tiles, Sound(s, q, walls, tiles)
    PROVE  Sound(SendLive(s), q, walls, tiles)
<1> DEFINE r == SendLive(s)
           id == s.tx_transID + 1
<1> SUFFICES Sound(r, q, walls, tiles)
  OBVIOUS
<1>1. (s.tx_transID + 1) % Byte = id /\ s.tx_transID \in 0 .. Byte - 1
  <2>1. s.tx_transID \in 0 .. Byte - 1
    BY DEF Room, Globals
  <2> QED BY <2>1, NextID
<1>2. /\ r.phone_pais = s.phone_pais /\ r.tx_transID = id
      /\ r.live.transID = id /\ ~r.live.is_send
  BY <1>1 DEF SendLive, Room, Globals, Transmitted
<1>3. \A h \in Group : s.phone_pais[h].transID \in Int
  BY DEF Room, Globals, PhonePais
<1>4. s.tx_transID \in Int
  BY <1>1, Constants
<1> HIDE DEF r
<1>5. Issued(r)
  BY <1>2, <1>3, <1>4 DEF Sound, Issued
<1>6. Marked(r, walls, tiles)
  BY <1>2 DEF Sound, Marked
<1>7. ASSUME NEW i \in 1 .. Len(q) PROVE Honest(r, q[i], walls, tiles)
  <2> DEFINE a == q[i]
  <2>1. a \in Ack /\ Honest(s, a, walls, tiles)
    BY DEF Sound, AllHonest
  <2> SUFFICES Honest(r, a, walls, tiles)
    OBVIOUS
  <2> HIDE DEF a
  <2>2. a.transID # NoTransID => a.transID \in Int /\ a.transID <= s.tx_transID
    BY <2>1, Constants DEF Ack, Honest
  <2>3. a.transID # NoTransID => a.transID <= id /\ a.transID # id
    BY <2>2, <1>4
  <2> QED BY <1>2, <2>1, <2>3 DEF Honest
<1> QED BY <1>5, <1>6, <1>7 DEF Sound, AllHonest
\* As long as the transIDs grow, what a turn sends takes the next ones.
LEMMA SendsSound ==
    ASSUME NEW s \in Room, NEW walls \in {{}, WallsDue(s)}, NEW live \in BOOLEAN,
           live => LiveDue(s), Phone_SendReaderPais(s, walls, live).tx_transID >= s.tx_transID,
           NEW q \in Seq(Ack), NEW seenWalls, NEW tiles, Sound(s, q, seenWalls, tiles)
    PROVE  Sound(Phone_SendReaderPais(s, walls, live), q, seenWalls, tiles)
<1>1. s.tx_transID \in 0 .. Byte - 1
  BY DEF Room, Globals
<1>2. ASSUME NEW r \in Room PROVE SendLive(r).tx_transID = (r.tx_transID + 1) % Byte
  BY DEF SendLive, Room, Globals
<1>3. CASE walls = {}
  <2>1. Phone_SendReaderPais(s, walls, live) = IF live THEN SendLive(s) ELSE s
    BY <1>3 DEF Phone_SendReaderPais
  <2>2. live => s.tx_transID + 1 < Byte /\ ~s.live.is_send
    BY <1>1, <1>2, <2>1, NextID, Constants DEF LiveDue
  <2> QED BY <2>1, <2>2, SendLiveSound
<1>4. CASE walls # {}
  <2> DEFINE sent == SendWall(s, CHOOSE g \in walls : TRUE)
  <2>1. PICK g \in WallsDue(s) : sent = SendWall(s, g)
    BY <1>4
  <2>2. Phone_SendReaderPais(s, walls, live) = IF live THEN SendLive(sent) ELSE sent
    BY <1>4 DEF Phone_SendReaderPais
  <2>3. sent \in Room /\ sent.live = s.live /\ sent.tx_transID = (s.tx_transID + 1) % Byte
    <3>1. SendWall(s, g).live = s.live
          /\ SendWall(s, g).tx_transID = (s.tx_transID + 1) % Byte
      BY DEF SendWall, Room, Globals
    <3> QED BY <2>1, <3>1, SendWallTyped
  <2> HIDE DEF sent
  <2>4. sent.tx_transID \in 0 .. Byte - 1
    BY <2>3 DEF Room, Globals
  <2>5. live => SendLive(sent).tx_transID = (sent.tx_transID + 1) % Byte
    BY <1>2, <2>3
  <2>6. /\ s.tx_transID + 1 < Byte
        /\ live => sent.tx_transID + 1 < Byte
    <3>1. /\ sent.tx_transID = IF s.tx_transID + 1 < Byte THEN s.tx_transID + 1 ELSE 0
          /\ live => SendLive(sent).tx_transID =
                         IF sent.tx_transID + 1 < Byte THEN sent.tx_transID + 1 ELSE 0
      BY <1>1, <2>3, <2>4, <2>5, NextID
    <3>2. \/ live /\ SendLive(sent).tx_transID >= s.tx_transID
          \/ ~live /\ sent.tx_transID >= s.tx_transID
      BY <2>2
    <3> DEFINE tx == s.tx_transID
               tx1 == sent.tx_transID
               tx2 == SendLive(sent).tx_transID
    <3>3. tx \in 0 .. Byte - 1 /\ tx1 \in 0 .. Byte - 1
      BY <1>1, <2>4
    <3>4. /\ tx1 = IF tx + 1 < Byte THEN tx + 1 ELSE 0
          /\ live => tx2 = IF tx1 + 1 < Byte THEN tx1 + 1 ELSE 0
          /\ (live /\ tx2 >= tx) \/ (~live /\ tx1 >= tx)
      BY <3>1, <3>2
    <3> HIDE DEF tx, tx1, tx2
    <3>5. tx + 1 < Byte /\ (live => tx1 + 1 < Byte)
      BY <3>3, <3>4, Constants
    <3> QED BY <3>5 DEF tx, tx1
  <2>7. Sound(sent, q, seenWalls, tiles)
    BY <2>1, <2>6, SendWallSound
  <2>8. live => ~sent.live.is_send
    BY <2>3 DEF LiveDue
  <2> QED BY <2>2, <2>3, <2>6, <2>7, <2>8, SendLiveSound
<1> QED BY <1>3, <1>4

\* What the phone receives, and answers, is what was sent.
LEMMA HearsSound ==
    ASSUME NEW s \in Room, NEW walls \in SUBSET Group, NEW live \in BOOLEAN,
           NEW waiting \in Seq(Ack), PhoneHears(s, walls, live, waiting),
           seen \in [Group -> 0 .. MaxHandOvers], kHiReaderNumber \notin BareAcks,
           Sound(s, waiting, seen, got)
    PROVE  Sound(s, up', seen', got')
<1>1. PICK heardWalls \in SUBSET walls, heardLive \in {FALSE, live} :
        /\ seen' = [g \in Group |-> IF g \in heardWalls THEN s.phone_pais[g].pais ELSE seen[g]]
        /\ got' = IF heardLive THEN got \cup {s.live.pais[i] : i \in 1 .. Len(s.live.pais)}
                               ELSE got
        /\ \E wallAck \in {<<>>} \cup UNION {Answers(g, s.phone_pais[g].transID) : g \in heardWalls},
              liveAck \in IF heardLive THEN Answers(kHiReaderNumber, s.live.transID) ELSE {<<>>} :
              /\ Len(waiting \o wallAck \o liveAck) <= LinkCap
              /\ up' = waiting \o wallAck \o liveAck
  BY DEF PhoneHears
<1>2. PICK wallAck \in {<<>>} \cup UNION {Answers(g, s.phone_pais[g].transID) : g \in heardWalls},
           liveAck \in IF heardLive THEN Answers(kHiReaderNumber, s.live.transID) ELSE {<<>>} :
              up' = waiting \o wallAck \o liveAck
  BY <1>1
<1>3. /\ \A g \in heardWalls : g \in Group /\ seen'[g] = s.phone_pais[g].pais
      /\ \A g \in Group : seen'[g] = s.phone_pais[g].pais \/ seen'[g] = seen[g]
  BY <1>1
<1>4. /\ heardLive => BatchIn(s.live, got')
      /\ BatchIn(s.live, got) => BatchIn(s.live, got')
  BY <1>1 DEF BatchIn
<1>5. /\ \A g \in Group : s.phone_pais[g].transID \in 0 .. Byte - 1
      /\ s.live.transID \in 0 .. Byte - 1
  BY DEF Room, Globals, PhonePais
<1>6. Marked(s, seen', got')
  BY <1>3, <1>4 DEF Sound, Marked
<1>7. ASSUME NEW a, Honest(s, a, seen, got) PROVE Honest(s, a, seen', got')
  BY <1>3, <1>4, <1>7 DEF Honest
<1>8. wallAck # <<>> => \E a : wallAck = <<a>> /\ Honest(s, a, seen', got')
  <2> SUFFICES ASSUME wallAck # <<>>
               PROVE  \E a : wallAck = <<a>> /\ Honest(s, a, seen', got')
    OBVIOUS
  <2>1. PICK g \in heardWalls : wallAck \in Answers(g, s.phone_pais[g].transID)
    <3>1. wallAck \in UNION {Answers(g, s.phone_pais[g].transID) : g \in heardWalls}
      BY <1>2
    <3> QED BY <3>1
  <2>2. PICK a : /\ wallAck = <<a>> /\ a.ack = g
                 /\ a.transID = s.phone_pais[g].transID \/ a.transID = NoTransID
    BY <2>1, AnswersAre
  <2>3. Honest(s, a, seen', got')
    BY <1>3, <2>2, Constants DEF Honest, Sound, Issued
  <2> QED BY <2>2, <2>3
<1>9. liveAck # <<>> => \E a : liveAck = <<a>> /\ Honest(s, a, seen', got')
  <2> SUFFICES ASSUME liveAck # <<>>
               PROVE  \E a : liveAck = <<a>> /\ Honest(s, a, seen', got')
    OBVIOUS
  <2>1. heardLive /\ liveAck \in Answers(kHiReaderNumber, s.live.transID)
    BY <1>2
  <2>2. PICK a : liveAck = <<a>> /\ a.ack = kHiReaderNumber /\ a.transID = s.live.transID
    BY <2>1, AnswersAre
  <2>3. Honest(s, a, seen', got')
    BY <1>4, <1>5, <2>1, <2>2, Constants DEF Honest, Sound, Issued
  <2> QED BY <2>2, <2>3
<1>10. AllHonest(s, up', seen', got')
  <2>1. AllHonest(s, waiting, seen', got')
    BY <1>7 DEF Sound, AllHonest
  <2>2. AllHonest(s, wallAck, seen', got') /\ AllHonest(s, liveAck, seen', got')
    BY <1>8, <1>9 DEF AllHonest
  <2>3. wallAck \in Seq({wallAck[1]})
    <3>1. CASE wallAck = <<>>
      BY <3>1
    <3>2. ASSUME NEW a, wallAck = <<a>> PROVE wallAck \in Seq({wallAck[1]})
      BY <3>2
    <3> QED BY <1>8, <3>1, <3>2
  <2>4. liveAck \in Seq({liveAck[1]})
    <3>1. CASE liveAck = <<>>
      BY <3>1
    <3>2. ASSUME NEW a, liveAck = <<a>> PROVE liveAck \in Seq({liveAck[1]})
      BY <3>2
    <3> QED BY <1>9, <3>1, <3>2
  <2> QED BY <1>2, <2>1, <2>2, <2>3, <2>4 DEF AllHonest
<1> QED BY <1>6, <1>10 DEF Sound

LEMMA InitSent == Init => SentInv
  BY DEF Init, SentInv, Sound, Issued, AllHonest, Marked

LEMMA TurnSent ==
    ASSUME TypeOK, LinkTurn, IDsGrow, SentInv, kHiReaderNumber \notin BareAcks
    PROVE  SentInv'
<1>1. PICK read, input, s, walls, live : Turn(read, input, s, walls, live)
  BY TurnShape
<1> DEFINE waiting == IF input = "ack" THEN Tail(up) ELSE up
           r == HiReader_SendPai(read)
<1>2. s \in Room /\ r \in Room /\ TypeOK'
  BY <1>1, TurnTyped
<1>3. waiting \in Seq(Ack) /\ up \in Seq(Ack)
  BY <1>1, WaitingTyped DEF Turn, TypeOK
<1>4. Sound(read, up, seen, got)
  BY <1>1, SoundOfParts DEF SentInv, Turn
<1>5. Sound(r, up, seen, got)
  BY <1>1, <1>4, SendPaiSound DEF Turn
<1>6. Sound(s, waiting, seen, got)
  <2> HIDE DEF r
  <2>1. s = Phone_DispatchMessage(r, input) /\ input \in Inputs
    BY <1>1 DEF Turn, r
  <2> QED BY <1>2, <1>3, <1>5, <2>1, InputSound
<1>7. s.tx_transID = nav.tx_transID
  <2>1. read.tx_transID = nav.tx_transID /\ read \in Globals(Max1)
    BY <1>1 DEF Turn
  <2>2. r.tx_transID = read.tx_transID
    BY <2>1 DEF HiReader_SendPai, Globals
  <2> HIDE DEF r
  <2>3. Phone_DispatchMessage(r, input).tx_transID = r.tx_transID
    BY <1>1, <1>2 DEF Turn, Inputs, Phone_DispatchMessage, Acknowledge, GetFrame, GetBytes,
                      Room, Globals
  <2> QED BY <1>1, <2>1, <2>2, <2>3 DEF Turn, r
<1> HIDE DEF waiting, r
<1>8. Sound(nav', waiting, seen, got)
  BY <1>1, <1>2, <1>3, <1>6, <1>7, SendsSound DEF Turn, IDsGrow
<1>9. nav' \in Room /\ walls \in SUBSET Group /\ live \in BOOLEAN
  BY <1>1, <1>2, WallsAreGroups DEF Turn, TypeOK, Room, Max1
<1>10. PhoneHears(nav', walls, live, waiting)
  BY <1>1 DEF Turn, waiting
<1>11. Sound(nav', up', seen', got')
  BY <1>3, <1>8, <1>9, <1>10, HearsSound DEF TypeOK
<1> QED BY <1>11 DEF SentInv

LEMMA HandOverSent == TypeOK /\ SentInv /\ HandOver => SentInv'
<1> SUFFICES ASSUME TypeOK, SentInv, HandOver PROVE SentInv'
  OBVIOUS
<1>1. PICK walls \in SUBSET Group \ {{}} :
        /\ \A g \in walls : [ack |-> g, transID |-> NoTransID] \notin {up[i] : i \in 1 .. Len(up)}
        /\ nav' = [nav EXCEPT !.phone_pais = [g \in Group |->
                      IF g \in walls THEN HandedOver(@[g]) ELSE @[g]]]
        /\ UNCHANGED <<linked, up, seen, got, unread>>
  BY DEF HandOver
<1>2. /\ nav'.live = nav.live /\ nav'.tx_transID = nav.tx_transID
      /\ \A g \in Group : nav'.phone_pais[g] =
             IF g \in walls THEN HandedOver(nav.phone_pais[g]) ELSE nav.phone_pais[g]
  BY <1>1 DEF TypeOK, Globals
<1>3. \A g \in walls : /\ nav'.phone_pais[g].transID = nav.phone_pais[g].transID
                       /\ nav'.phone_pais[g].send_count = 0
  BY <1>1, <1>2 DEF TypeOK, Globals, PhonePais, HandedOver
<1>4. \A g \in Group : g \notin walls => nav'.phone_pais[g] = nav.phone_pais[g]
  BY <1>2
<1>5. Issued(nav')
  BY <1>1, <1>2, <1>3, <1>4 DEF SentInv, Sound, Issued
<1>6. Marked(nav', seen, got)
  <2>1. Marked(nav, seen, got)
    BY DEF SentInv, Sound
  <2>2. ASSUME NEW g \in Group,
               nav'.phone_pais[g].is_send, nav'.phone_pais[g].send_count > 0
        PROVE  seen[g] = nav'.phone_pais[g].pais
    <3>1. g \notin walls
      <4> SUFFICES ASSUME g \in walls PROVE FALSE
        OBVIOUS
      <4>1. nav'.phone_pais[g].send_count = 0
        BY <1>3
      <4> QED BY <2>2, <4>1
    <3>2. nav'.phone_pais[g] = nav.phone_pais[g]
      BY <1>4, <3>1
    <3> QED BY <2>1, <2>2, <3>2 DEF Marked
  <2>3. nav'.live = nav.live
    BY <1>2
  <2> QED BY <2>1, <2>2, <2>3 DEF Marked, BatchIn
<1>7. ASSUME NEW i \in 1 .. Len(up) PROVE Honest(nav', up[i], seen, got)
  <2> DEFINE a == up[i]
  <2>1. a \in Ack /\ Honest(nav, a, seen, got)
    BY DEF TypeOK, SentInv, Sound, AllHonest
  <2>2. a.ack \in walls => a.transID # NoTransID
    <3>1. a = [ack |-> a.ack, transID |-> a.transID]
      BY <2>1 DEF Ack
    <3> QED BY <1>1, <3>1
  <2> SUFFICES Honest(nav', a, seen, got)
    OBVIOUS
  <2> HIDE DEF a
  <2>3. CASE a.ack \in walls
    <3>1. a.ack \in Group /\ a.ack # kHiReaderNumber
      BY <1>1, <2>3, Constants
    <3>2. nav'.phone_pais[a.ack].send_count = 0 /\ a.transID # NoTransID
      BY <1>3, <2>2, <2>3
    <3>3. a.transID <= nav'.tx_transID
      BY <1>2, <2>1, <3>2 DEF Honest
    <3>4. ~(nav'.phone_pais[a.ack].send_count > 0)
      BY <3>2
    <3> QED BY <3>1, <3>2, <3>3, <3>4 DEF Honest
  <2>4. CASE a.ack \notin walls
    BY <1>2, <1>4, <2>1, <2>4 DEF Honest
  <2> QED BY <2>3, <2>4
<1>8. UNCHANGED <<up, seen, got>>
  BY <1>1
<1> QED BY <1>5, <1>6, <1>7, <1>8 DEF SentInv, Sound, AllHonest

LEMMA OthersSent ==
    TypeOK /\ SentInv /\ (Tick \/ Silence \/ LinkChanges \/ AckLost \/ UNCHANGED vars) => SentInv'
<1> SUFFICES ASSUME TypeOK, SentInv,
                    Tick \/ Silence \/ LinkChanges \/ AckLost \/ UNCHANGED vars
             PROVE  SentInv'
  OBVIOUS
<1>1. CASE Tick
  <2>1. /\ nav'.phone_pais = nav.phone_pais /\ nav'.tx_transID = nav.tx_transID
        /\ nav'.live = nav.live \/ nav'.live = [nav.live EXCEPT !.due = TRUE]
        /\ UNCHANGED <<up, seen, got>>
    BY <1>1 DEF Tick, TypeOK, Globals
  <2>2. /\ nav'.live.transID = nav.live.transID /\ nav'.live.send_count = nav.live.send_count
        /\ nav'.live.is_send = nav.live.is_send /\ nav'.live.pais = nav.live.pais
    BY <2>1 DEF TypeOK, Globals
  <2> QED BY <2>1, <2>2 DEF SentInv, Sound, Issued, AllHonest, Honest, Marked, BatchIn
<1>2. CASE Silence
  <2>1. /\ nav'.phone_pais = nav.phone_pais /\ nav'.tx_transID = nav.tx_transID
        /\ nav'.live = nav.live /\ UNCHANGED <<up, seen, got>>
    BY <1>2 DEF Silence, TypeOK, Globals
  <2> QED BY <2>1, SoundOfParts DEF SentInv
<1>3. CASE LinkChanges \/ UNCHANGED vars
  BY <1>3 DEF LinkChanges, vars, SentInv
<1>4. CASE AckLost
  <2>1. up # <<>> /\ up \in Seq(Ack) /\ up' = Tail(up) /\ UNCHANGED <<nav, seen, got>>
    BY <1>4 DEF AckLost, TypeOK
  <2>2. \A i \in 1 .. Len(Tail(up)) : i + 1 \in 1 .. Len(up) /\ Tail(up)[i] = up[i + 1]
    BY <2>1
  <2> QED BY <2>1, <2>2 DEF SentInv, Sound, AllHonest
<1> QED BY <1>1, <1>2, <1>3, <1>4

LEMMA NextSent ==
    ASSUME kHiReaderNumber \notin BareAcks
    PROVE  TypeOK /\ SentInv /\ [Next]_vars /\ [IDsGrow]_vars => SentInv'
<1>1. ASSUME TypeOK, SentInv, LinkTurn, [IDsGrow]_vars PROVE SentInv'
  <2>1. CASE IDsGrow
    BY <1>1, <2>1, TurnSent
  <2>2. CASE UNCHANGED vars
    BY <1>1, <2>2 DEF vars, SentInv
  <2> QED BY <1>1, <2>1, <2>2
<1> QED BY <1>1, HandOverSent, OthersSent DEF Next

LEMMA SentMeans == SentInv => SentIsReceived
  BY DEF SentInv, Sound, Marked, BatchIn, SentIsReceived, WallReceived, LiveReceived

\* What was transmitted and is marked as sent is what the phone has, until the transIDs,
\* which are bytes, have been used up once: nothing but a wrap lets an acknowledgement of
\* an earlier wall or batch pass for one of a later transmission, provided that
\* batches of live tiles are acknowledged with a transID.
THEOREM MarkedWasReceived ==
    ASSUME kHiReaderNumber \notin BareAcks
    PROVE  Spec /\ [][IDsGrow]_vars => []SentIsReceived
<1>1. Spec => []TypeOK
  BY PhoneTyped
<1>2. TypeOK /\ SentInv /\ [Next]_vars /\ [IDsGrow]_vars => SentInv'
  BY NextSent
<1> QED BY <1>1, <1>2, InitSent, SentMeans, PTL DEF Spec

--------------------------------------------------------------------------------
(* Each wall is in a mailbox. *)

\* Only a wall that was handed over has acknowledgements on their way.
Owed(pais, q) == \A i \in 1 .. Len(q) : q[i].ack \in Group => pais[q[i].ack].pais > 0

BoxInv == SentInv /\ Owed(nav.phone_pais, up)

\* The first half of a turn marks the wall whose acknowledgement comes, and no other.
LEMMA DispatchWalls ==
    ASSUME NEW r \in Room, NEW input \in Inputs, up \in Seq(Ack), NEW g \in Group
    PROVE  LET s == Phone_DispatchMessage(r, input)
           IN  \/ s.phone_pais[g] = r.phone_pais[g]
               \/ /\ input = "ack" /\ Head(up).ack = g
                  /\ Matches(r.phone_pais[g].transID, Head(up))
                  /\ s.phone_pais[g] = [r.phone_pais[g] EXCEPT !.is_send = TRUE]
<1> DEFINE a == Head(up)
<1>1. /\ GetFrame(r) \in Room
      /\ GetFrame(r).phone_pais = r.phone_pais /\ GetBytes(r).phone_pais = r.phone_pais
  BY DEF GetFrame, GetBytes, Room, Globals
<1>2. CASE input # "ack"
  BY <1>1, <1>2 DEF Phone_DispatchMessage, Inputs
<1>3. CASE input = "ack"
  <2>1. a \in Ack
    BY <1>3 DEF Inputs
  <2>2. Phone_DispatchMessage(r, input) = Acknowledge(GetFrame(r), a)
    BY <1>3 DEF Phone_DispatchMessage
  <2> DEFINE f == GetFrame(r)
  <2> HIDE DEF a, f
  <2>3. f \in Room /\ f.phone_pais = r.phone_pais
    BY <1>1 DEF f
  <2>4. \/ Acknowledge(f, a).phone_pais[g] = f.phone_pais[g]
        \/ /\ a.ack = g /\ Matches(f.phone_pais[g].transID, a)
           /\ Acknowledge(f, a).phone_pais[g] = [f.phone_pais[g] EXCEPT !.is_send = TRUE]
    BY <2>1, <2>3, Constants DEF Acknowledge, Room, Globals, Ack
  <2> QED BY <1>3, <2>2, <2>3, <2>4 DEF a, f
<1> QED BY <1>2, <1>3

\* One wall at most is sent in a turn.
LEMMA OneWallDue ==
    ASSUME NEW s, NEW g \in WallsDue(s), NEW h \in WallsDue(s)
    PROVE  g = h
<1>1. g \in Int /\ h \in Int /\ g <= h /\ h <= g
  BY WallsAreGroups, Constants DEF WallsDue, EndsSearch, Group
<1> QED BY <1>1

\* r are globals s after the walls were sent.
WallsSent(s, walls, r) ==
    \A g \in Group : /\ g \notin walls => r.phone_pais[g] = s.phone_pais[g]
                     /\ g \in walls => \E id : r.phone_pais[g] = Transmitted(s.phone_pais[g], id)

\* The second half sends the wall that is due, and leaves the others.
LEMMA SendsWalls ==
    ASSUME NEW s \in Room, NEW walls \in {{}, WallsDue(s)}, NEW live \in BOOLEAN
    PROVE  WallsSent(s, walls, Phone_SendReaderPais(s, walls, live))
<1> DEFINE r == Phone_SendReaderPais(s, walls, live)
<1> SUFFICES ASSUME NEW g \in Group
             PROVE  /\ g \notin walls => r.phone_pais[g] = s.phone_pais[g]
                    /\ g \in walls => \E id : r.phone_pais[g] = Transmitted(s.phone_pais[g], id)
  BY DEF WallsSent
<1> DEFINE sent == IF walls = {} THEN s ELSE SendWall(s, CHOOSE h \in walls : TRUE)
<1>1. r.phone_pais = sent.phone_pais
  <2>1. CASE walls = {}
    BY <2>1 DEF Phone_SendReaderPais, SendLive, Room, Globals
  <2>2. CASE walls # {}
    <3>1. PICK h \in WallsDue(s) : sent = SendWall(s, h)
      BY <2>2
    <3>2. sent \in Room
      BY <3>1, SendWallTyped
    <3> HIDE DEF sent
    <3>3. r = IF live THEN SendLive(sent) ELSE sent
      BY DEF Phone_SendReaderPais, sent
    <3> QED BY <3>2, <3>3 DEF SendLive, Room, Globals
  <2> QED BY <2>1, <2>2
<1>2. CASE walls = {}
  BY <1>1, <1>2
<1>3. CASE walls # {}
  <2>1. PICK h \in WallsDue(s) : sent = SendWall(s, h) /\ h \in walls
    BY <1>3
  <2>2. h \in Group
    BY <2>1, WallsAreGroups
  <2>3. sent.phone_pais = [s.phone_pais EXCEPT ![h] = Transmitted(@, (s.tx_transID + 1) % Byte)]
    BY <2>1 DEF SendWall, Room, Globals
  <2>4. g \in walls => g = h
    BY <1>3, <2>1, OneWallDue
  <2>5. s.phone_pais \in [Group -> PhonePais]
    BY DEF Room, Globals
  <2> HIDE DEF sent, r
  <2>6. g # h => r.phone_pais[g] = s.phone_pais[g]
    BY <1>1, <2>3, <2>5
  <2>7. g = h => r.phone_pais[g] = Transmitted(s.phone_pais[g], (s.tx_transID + 1) % Byte)
    BY <1>1, <2>2, <2>3, <2>5
  <2>8. /\ g \notin walls => r.phone_pais[g] = s.phone_pais[g]
        /\ g \in walls => \E id : r.phone_pais[g] = Transmitted(s.phone_pais[g], id)
    BY <2>1, <2>4, <2>6, <2>7
  <2> QED BY <2>8 DEF r
<1> QED BY <1>2, <1>3

Filled(s, walls) == \A g \in walls : s.phone_pais[g].pais > 0

WallsHeard(s, walls) ==
    \A g \in Group : seen'[g] = seen[g] \/ (g \in walls /\ seen'[g] = s.phone_pais[g].pais)

LEMMA OwedJoined ==
    ASSUME NEW pais, NEW S, NEW p \in Seq(S), NEW T, NEW q \in Seq(T),
           Owed(pais, p), Owed(pais, q)
    PROVE  Owed(pais, p \o q)
<1>1. ASSUME NEW i \in 1 .. Len(p \o q)
      PROVE  \/ i \in 1 .. Len(p) /\ (p \o q)[i] = p[i]
             \/ i - Len(p) \in 1 .. Len(q) /\ (p \o q)[i] = q[i - Len(p)]
  OBVIOUS
<1> QED BY <1>1 DEF Owed

\* What the phone hears of the walls: what was sent in this turn, and answered.
LEMMA HearsWalls ==
    ASSUME NEW s \in Room, NEW walls \in SUBSET Group, NEW live \in BOOLEAN,
           NEW waiting \in Seq(Ack), PhoneHears(s, walls, live, waiting),
           seen \in [Group -> 0 .. MaxHandOvers], Owed(s.phone_pais, waiting), Filled(s, walls)
    PROVE  WallsHeard(s, walls) /\ Owed(s.phone_pais, up')
<1>1. PICK heardWalls \in SUBSET walls, heardLive \in {FALSE, live} :
        /\ seen' = [g \in Group |-> IF g \in heardWalls THEN s.phone_pais[g].pais ELSE seen[g]]
        /\ \E wallAck \in {<<>>} \cup UNION {Answers(g, s.phone_pais[g].transID) : g \in heardWalls},
              liveAck \in IF heardLive THEN Answers(kHiReaderNumber, s.live.transID) ELSE {<<>>} :
              up' = waiting \o wallAck \o liveAck
  BY DEF PhoneHears
<1>2. PICK wallAck \in {<<>>} \cup UNION {Answers(g, s.phone_pais[g].transID) : g \in heardWalls},
           liveAck \in IF heardLive THEN Answers(kHiReaderNumber, s.live.transID) ELSE {<<>>} :
              up' = waiting \o wallAck \o liveAck
  BY <1>1
<1>3. \/ wallAck = <<>>
      \/ \E a : wallAck = <<a>> /\ a.ack \in walls
  <2>1. ASSUME wallAck # <<>> PROVE \E a : wallAck = <<a>> /\ a.ack \in walls
    <3>1. PICK g \in heardWalls : wallAck \in Answers(g, s.phone_pais[g].transID)
      <4>1. wallAck \in UNION {Answers(g, s.phone_pais[g].transID) : g \in heardWalls}
        BY <1>2, <2>1
      <4> QED BY <4>1
    <3> QED BY <2>1, <3>1, AnswersAre
  <2> QED BY <2>1
<1>4. \/ liveAck = <<>>
      \/ \E a : liveAck = <<a>> /\ a.ack = kHiReaderNumber
  <2>1. ASSUME liveAck # <<>> PROVE \E a : liveAck = <<a>> /\ a.ack = kHiReaderNumber
    <3>1. liveAck \in Answers(kHiReaderNumber, s.live.transID)
      BY <1>2, <2>1
    <3> QED BY <2>1, <3>1, AnswersAre
  <2> QED BY <2>1
<1>5. Owed(s.phone_pais, wallAck) /\ Owed(s.phone_pais, liveAck)
  <2>1. Owed(s.phone_pais, <<>>)
    BY DEF Owed
  <2>2. ASSUME NEW a, a.ack \in walls \/ a.ack = kHiReaderNumber PROVE Owed(s.phone_pais, <<a>>)
    BY <2>2, Constants DEF Owed, Filled
  <2> QED BY <1>3, <1>4, <2>1, <2>2
<1>6. wallAck \in Seq({wallAck[1]}) /\ liveAck \in Seq({liveAck[1]})
  <2>1. ASSUME NEW q, q = <<>> \/ \E a : q = <<a>> PROVE q \in Seq({q[1]})
    <3>1. CASE q = <<>>
      BY <3>1
    <3>2. ASSUME NEW a, q = <<a>> PROVE q \in Seq({q[1]})
      BY <3>2
    <3> QED BY <2>1, <3>1, <3>2
  <2>2. (wallAck = <<>> \/ \E a : wallAck = <<a>>) /\ (liveAck = <<>> \/ \E a : liveAck = <<a>>)
    BY <1>3, <1>4
  <2> QED BY <2>1, <2>2
<1>7. Owed(s.phone_pais, up')
  <2>1. Owed(s.phone_pais, waiting \o wallAck)
    BY <1>5, <1>6, OwedJoined
  <2>2. waiting \o wallAck \in Seq(Ack \cup {wallAck[1]})
    <3>1. /\ waiting \in Seq(Ack \cup {wallAck[1]})
          /\ wallAck \in Seq(Ack \cup {wallAck[1]})
      BY <1>6
    <3> QED BY <3>1
  <2> QED BY <1>2, <1>5, <1>6, <2>1, <2>2, OwedJoined
<1> QED BY <1>1, <1>7 DEF WallsHeard

BoxStep(g) == UNCHANGED Box(g)!vars \/ Box(g)!Next

LEMMA TurnBoxed ==
    ASSUME TypeOK, BoxInv, LinkTurn
    PROVE  Owed(nav'.phone_pais, up') /\ \A g \in Group : BoxStep(g)
<1>1. PICK read, input, s, walls, live : Turn(read, input, s, walls, live)
  BY TurnShape
<1> DEFINE waiting == IF input = "ack" THEN Tail(up) ELSE up
           r == HiReader_SendPai(read)
<1>2. s \in Room /\ r \in Room /\ TypeOK'
  BY <1>1, TurnTyped
<1>3. /\ waiting \in Seq(Ack) /\ up \in Seq(Ack) /\ input \in Inputs
      /\ walls \in {{}, WallsDue(s)} /\ walls \in SUBSET Group /\ live \in BOOLEAN
  BY <1>1, WaitingTyped, WallsAreGroups DEF Turn, TypeOK
<1>4. r.phone_pais = nav.phone_pais
  <2>1. read.phone_pais = nav.phone_pais /\ read \in Globals(Max1)
    BY <1>1 DEF Turn
  <2> QED BY <2>1 DEF HiReader_SendPai, Globals
<1>5. /\ s = Phone_DispatchMessage(r, input)
      /\ nav' = Phone_SendReaderPais(s, walls, live)
      /\ PhoneHears(nav', walls, live, waiting)
  BY <1>1 DEF Turn
<1>6. nav' \in Room
  BY <1>2 DEF TypeOK, Room, Max1
<1>7. seen \in [Group -> 0 .. MaxHandOvers]
  BY DEF TypeOK
<1>8. input = "ack" => /\ up # <<>> /\ Head(up) = up[1] /\ 1 \in 1 .. Len(up)
                       /\ Honest(nav, Head(up), seen, got)
  BY <1>3 DEF Inputs, BoxInv, SentInv, Sound, AllHonest
<1>9. Owed(nav.phone_pais, waiting)
  <2>1. CASE input = "ack"
    <3>1. \A i \in 1 .. Len(Tail(up)) : i + 1 \in 1 .. Len(up) /\ Tail(up)[i] = up[i + 1]
      BY <1>3, <1>8, <2>1
    <3> QED BY <2>1, <3>1 DEF BoxInv, Owed
  <2>2. CASE input # "ack"
    BY <2>2 DEF BoxInv
  <2> QED BY <2>1, <2>2
<1> HIDE DEF waiting, r
<1> DEFINE before(g) == nav.phone_pais[g]
           then(g)   == s.phone_pais[g]
           after(g)  == nav'.phone_pais[g]
\* What the message does to a wall.
<1>10. ASSUME NEW g \in Group
       PROVE  \/ then(g) = before(g)
              \/ /\ input = "ack" /\ Head(up).ack = g
                 /\ Matches(before(g).transID, Head(up))
                 /\ then(g) = [before(g) EXCEPT !.is_send = TRUE]
  BY <1>2, <1>3, <1>4, <1>5, DispatchWalls
\* What the sending does to it.
<1>11. ASSUME NEW g \in Group
       PROVE  /\ g \notin walls => after(g) = then(g)
              /\ g \in walls => \E id : after(g) = Transmitted(then(g), id)
  <2>1. /\ g \notin walls => nav'.phone_pais[g] = s.phone_pais[g]
        /\ g \in walls => \E id : nav'.phone_pais[g] = Transmitted(s.phone_pais[g], id)
    <3>1. WallsSent(s, walls, nav')
      BY <1>2, <1>3, <1>5, SendsWalls
    <3> QED BY <3>1 DEF WallsSent
  <2> QED BY <2>1
<1>12. ASSUME NEW g \in Group
       PROVE  before(g) \in PhonePais /\ then(g) \in PhonePais /\ after(g) \in PhonePais
  BY <1>2, <1>6 DEF TypeOK, Room, Globals
<1>13. ASSUME NEW g \in walls
       PROVE  /\ g \in Group /\ then(g).pais > 0 /\ ~then(g).is_send
              /\ then(g).send_count < kRetryCount
  <2>1. g \in WallsDue(s)
    BY <1>3
  <2>2. g \in Group /\ s.phone_pais[g].pais \in Nat
    BY <1>2, <2>1, WallsAreGroups DEF Room, Globals, PhonePais
  <2> QED BY <2>1, <2>2 DEF WallsDue, EndsSearch
<1> HIDE DEF before, then, after
<1>14. ASSUME NEW g \in Group PROVE after(g).pais = before(g).pais
  <2>1. then(g).pais = before(g).pais
    BY <1>10, <1>12 DEF PhonePais
  <2>2. after(g).pais = then(g).pais
    BY <1>11, <1>12 DEF Transmitted, PhonePais
  <2> QED BY <2>1, <2>2
<1>15. ASSUME NEW q, Owed(nav.phone_pais, q) PROVE Owed(nav'.phone_pais, q)
  BY <1>14, <1>15 DEF Owed, before, after
<1>16. Filled(nav', walls)
  <2>1. ASSUME NEW g \in walls PROVE after(g).pais > 0
    <3>1. after(g).pais = before(g).pais
      BY <1>13, <1>14
    <3>2. then(g).pais = before(g).pais
      BY <1>10, <1>12, <1>13 DEF PhonePais
    <3> QED BY <1>13, <3>1, <3>2
  <2> QED BY <2>1 DEF after, Filled
<1>17. /\ \A g \in Group : seen'[g] = seen[g] \/ (g \in walls /\ seen'[g] = after(g).pais)
       /\ Owed(nav'.phone_pais, up')
  <2>1. Owed(nav'.phone_pais, waiting)
    BY <1>9, <1>15
  <2>2. WallsHeard(nav', walls) /\ Owed(nav'.phone_pais, up')
    BY <1>3, <1>5, <1>6, <1>7, <1>16, <2>1, HearsWalls
  <2> QED BY <2>2 DEF after, WallsHeard
<1>18. ASSUME NEW g \in Group PROVE BoxStep(g)
  <2>1. CASE g \in walls
    <3>1. then(g) = before(g)
      BY <1>10, <1>12, <1>13, <2>1 DEF PhonePais
    <3>2. /\ after(g).send_count = before(g).send_count + 1
          /\ after(g).is_send = before(g).is_send
      BY <1>11, <1>12, <2>1, <3>1 DEF Transmitted, PhonePais
    <3>3. Box(g)!Send
      BY <1>13, <1>14, <1>17, <2>1, <3>1, <3>2 DEF Box!Send, before, after
    <3> QED BY <3>3 DEF BoxStep, Box!Next
  <2>2. CASE g \notin walls
    <3>1. seen'[g] = seen[g] /\ after(g) = then(g)
      BY <1>11, <1>17, <2>2
    <3>2. CASE then(g) = before(g)
      BY <3>1, <3>2 DEF BoxStep, Box!vars, before, after
    <3>3. CASE then(g) # before(g)
      <4>1. /\ input = "ack" /\ Head(up).ack = g /\ Matches(before(g).transID, Head(up))
            /\ after(g).is_send = TRUE /\ after(g).send_count = before(g).send_count
        BY <1>10, <1>12, <3>1, <3>3 DEF PhonePais
      <4>2. before(g).pais > 0
        <5>1. Head(up) = up[1] /\ 1 \in 1 .. Len(up)
          BY <1>8, <4>1
        <5> QED BY <4>1, <5>1 DEF BoxInv, Owed, before
      <4>3. before(g).send_count > 0 => seen[g] = before(g).pais
        BY <1>8, <4>1 DEF Honest, Matches, before
      <4>4. before(g).send_count \in Nat
        BY <1>12, Constants DEF PhonePais
      <4>5. Box(g)!Confirm \/ Box(g)!Mistake
        BY <1>14, <3>1, <4>1, <4>2, <4>3, <4>4 DEF Box!Confirm, Box!Mistake, before, after
      <4> QED BY <4>5 DEF BoxStep, Box!Next
    <3> QED BY <3>2, <3>3
  <2> QED BY <2>1, <2>2
<1> QED BY <1>17, <1>18

LEMMA HandOverBoxed ==
    ASSUME TypeOK, BoxInv, HandOver
    PROVE  Owed(nav'.phone_pais, up') /\ \A g \in Group : BoxStep(g)
<1>1. PICK walls \in SUBSET Group \ {{}} :
        /\ nav' = [nav EXCEPT !.phone_pais = [g \in Group |->
                      IF g \in walls THEN HandedOver(@[g]) ELSE @[g]]]
        /\ UNCHANGED <<up, seen>>
  BY DEF HandOver
<1>2. ASSUME NEW g \in Group
      PROVE  /\ nav.phone_pais[g] \in PhonePais
             /\ nav'.phone_pais[g] =
                    IF g \in walls THEN HandedOver(nav.phone_pais[g]) ELSE nav.phone_pais[g]
  BY <1>1 DEF TypeOK, Globals
<1>3. ASSUME NEW g \in walls
      PROVE  /\ nav'.phone_pais[g].pais = nav.phone_pais[g].pais + 1
             /\ nav'.phone_pais[g].send_count = 0 /\ nav'.phone_pais[g].is_send = FALSE
  BY <1>2 DEF HandedOver, PhonePais
<1>4. ASSUME NEW g \in Group PROVE BoxStep(g)
  <2>1. CASE g \in walls
    <3>1. Box(g)!Put
      BY <1>1, <1>3, <2>1 DEF Box!Put
    <3> QED BY <3>1 DEF BoxStep, Box!Next
  <2>2. CASE g \notin walls
    BY <1>1, <1>2, <2>2 DEF BoxStep, Box!vars
  <2> QED BY <2>1, <2>2
<1>5. ASSUME NEW g \in Group, nav.phone_pais[g].pais > 0 PROVE nav'.phone_pais[g].pais > 0
  <2>1. nav.phone_pais[g].pais \in Nat
    BY <1>2 DEF PhonePais
  <2>2. CASE g \in walls
    <3>1. nav'.phone_pais[g].pais = nav.phone_pais[g].pais + 1
      BY <1>3, <2>2
    <3> QED BY <2>1, <3>1
  <2>3. CASE g \notin walls
    BY <1>2, <1>5, <2>3
  <2> QED BY <2>2, <2>3
<1>6. Owed(nav'.phone_pais, up')
  BY <1>1, <1>5 DEF BoxInv, Owed
<1> QED BY <1>4, <1>6

LEMMA OthersBoxed ==
    ASSUME TypeOK, BoxInv, Tick \/ Silence \/ LinkChanges \/ AckLost \/ UNCHANGED vars
    PROVE  Owed(nav'.phone_pais, up') /\ \A g \in Group : BoxStep(g)
<1>1. nav'.phone_pais = nav.phone_pais /\ seen' = seen
  BY DEF Tick, Silence, LinkChanges, AckLost, vars, TypeOK, Globals
<1>2. \A g \in Group : BoxStep(g)
  BY <1>1 DEF BoxStep, Box!vars
<1>3. CASE AckLost
  <2>1. up # <<>> /\ up \in Seq(Ack) /\ up' = Tail(up)
    BY <1>3 DEF AckLost, TypeOK
  <2>2. \A i \in 1 .. Len(Tail(up)) : i + 1 \in 1 .. Len(up) /\ Tail(up)[i] = up[i + 1]
    BY <2>1
  <2> QED BY <1>1, <1>2, <2>1, <2>2 DEF BoxInv, Owed
<1>4. CASE ~AckLost
  <2>1. up' = up
    BY <1>4 DEF Tick, Silence, LinkChanges, vars
  <2> QED BY <1>1, <1>2, <2>1 DEF BoxInv
<1> QED BY <1>3, <1>4

LEMMA InitBoxed == Init => BoxInv /\ \A g \in Group : Box(g)!Init
<1> SUFFICES ASSUME Init PROVE BoxInv /\ \A g \in Group : Box(g)!Init
  OBVIOUS
<1>1. Owed(nav.phone_pais, up)
  BY DEF Init, Owed
<1>2. \A g \in Group : Box(g)!Init
  BY DEF Init, Box!Init
<1> QED BY <1>1, <1>2, InitSent DEF BoxInv

LEMMA NextBoxed ==
    ASSUME TypeOK, BoxInv, [Next]_vars
    PROVE  Owed(nav'.phone_pais, up') /\ \A g \in Group : BoxStep(g)
  BY TurnBoxed, HandOverBoxed, OthersBoxed DEF Next

\* Every wall is in a box of its own, although the walls share a timer, the flag that
\* waits for an acknowledgement, the transIDs and the link: it is sent only between its
\* hand-over and its acknowledgement and kRetryCount times at most, and an
\* acknowledgement is taken for it when the phone has it, or before it was sent at all.
THEOREM WallsImplementMailbox ==
    ASSUME kHiReaderNumber \notin BareAcks
    PROVE  Spec /\ [][IDsGrow]_vars => WallsAreMailboxes
<1>1. Spec => []TypeOK
  BY PhoneTyped
<1>2. TypeOK /\ BoxInv /\ [Next]_vars /\ [IDsGrow]_vars => BoxInv'
  BY NextSent, NextBoxed DEF BoxInv
<1>3. TypeOK /\ BoxInv /\ [Next]_vars
          => [\A g \in Group : UNCHANGED Box(g)!vars \/ Box(g)!Next]_vars
  BY NextBoxed DEF BoxStep
<1> QED BY <1>1, <1>2, <1>3, InitBoxed, PTL DEF Spec, WallsAreMailboxes
================================================================================
