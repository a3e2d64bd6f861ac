------------------------------ MODULE TableReader ------------------------------
(****************************************************************************)
(* The navigator's polling of the readers inside the mahjong table          *)
(* (main.cpp).  One radio is shared by kGroup readers, one per wall: the     *)
(* main loop asks one reader at a time for its next tile, counts what it     *)
(* has read, decides when a round of shuffling is over and hands the walls   *)
(* to phone_pais, from where Phone_SendReaderPais sends them.                *)
(*                                                                          *)
(* The globals that one call of a handler changes together form the record  *)
(* nav, and each C function that changes them is an operator from one value *)
(* of nav to the next; an action is one turn of the main loop's switch on    *)
(* RP_mode (Reader_GetMessage and the dispatch in main).                     *)
(****************************************************************************)
EXTENDS Integers, FiniteSets

CONSTANTS
    kGroup,          \* number of table readers (4 in the code)
    MAX_WALL_CARD,   \* capacity of a reader's cache (40)
    WallCounts,      \* wall sizes the phone may set: bytes it does not check
    Colours,         \* the back colour of a deck: bit 7 of a tile id
    Faces,           \* what is printed on a tile: the low bits of its id
    kMahjongNorth, kMahjongSouth,
    NoTile,          \* the id 0xff
    ErrLimit,        \* unanswered resets tolerated (3)
    MissFew,         \* a round this close to complete times out earlier (5)
    Byte,            \* the range of a uint8_t (256)
    AnswerBytes,     \* the bytes a reader may put into its answer
    LateReplies,     \* may a reader answer after its poll has timed out?
    MayReconfigure   \* may the phone change the wall sizes?

Reader == 1 .. kGroup
Place  == 1 .. MAX_WALL_CARD
Tile   == Colours \X Faces

ASSUME ReadersAssumption == kGroup \in Nat \ {0} /\ MAX_WALL_CARD \in Nat \ {0}
ASSUME CountsAssumption  == WallCounts \subseteq 0 .. Byte - 1
ASSUME ColoursAssumption == Colours # {}
ASSUME FacesAssumption   == kMahjongNorth \in Faces <=> kMahjongSouth \in Faces
ASSUME TileAssumption    == NoTile \notin Tile
ASSUME ByteAssumption    == Byte \in Nat \ {0} /\ kGroup * MAX_WALL_CARD < Byte
ASSUME AnswersAssumption == AnswerBytes \subseteq 0 .. Byte - 1
ASSUME LimitsAssumption  == ErrLimit \in Nat /\ MissFew \in Nat
ASSUME SwitchAssumption  == LateReplies \in BOOLEAN /\ MayReconfigure \in BOOLEAN

VARIABLES nav,   \* the navigator's globals
          air    \* requests a reader has heard and may still answer

vars == <<nav, air>>

(****************************************************************************)
(* RP_ovtimer is compared with three thresholds only, so its value is the   *)
(* number of thresholds it has passed.                                      *)
(****************************************************************************)
Ovt == [gap |-> 1, missFew |-> 2, missMuch |-> 3]    \* > 400 ms, > 35 s, > 40 s

Modes == {"kRequestReader", "kWaitTxActive", "kWaitTxFinish", "kWaitReaderAck"}
Commands == {"kCmdReaderReset", "kCmdReadPai"}

\* A request on the air, and an answer to it: two bytes and a tile.
Request == [reader : Reader, command : Commands]
AnswersTo(req) ==
    [reader : {req.reader}, command : {req.command}, pai_length : AnswerBytes,
     position : AnswerBytes, tile : Tile \cup {NoTile}]

\* The number of wall places p with p <= f[r]: the sum of f, as a cardinality.
Places(f)   == {w \in Reader \X (1 .. Byte - 1) : w[2] <= f[w[1]]}
NumTiles(f) == Cardinality(Places(f))

Complete(s, r) == s.PAI_position[r] >= s.PAI_num[r]

All(b) == [r \in Reader |-> b]

--------------------------------------------------------------------------------
(* Helpers of main.cpp that change the globals. *)

\* ClearReaderData, for the readers in R.
ClearReaderData(s, R) ==
    [s EXCEPT !.PAI_position = [r \in Reader |-> IF r \in R THEN 0 ELSE s.PAI_position[r]],
              !.PAI_err      = [r \in Reader |-> IF r \in R THEN 0 ELSE s.PAI_err[r]],
              !.is_handled   = [r \in Reader |-> IF r \in R THEN FALSE ELSE s.is_handled[r]],
              !.PAI_Cache_dat = [r \in Reader |->
                                   IF r \in R THEN [p \in Place |-> NoTile]
                                              ELSE s.PAI_Cache_dat[r]]]

\* What a reader's wall is for the phone: the tiles read, 0xff for the rest of the
\* wall; what stands behind the wall stays there.
Wall(s, r) ==
    [count |-> s.PAI_num[r], is_send |-> FALSE, send_count |-> 0,
     pais |-> [p \in Place |-> CASE p <= s.PAI_position[r] -> s.PAI_Cache_dat[r][p]
                                 [] s.PAI_position[r] < p /\ p <= s.PAI_num[r] -> NoTile
                                 [] OTHER -> s.phone_pais[r].pais[p]]]

\* The places of a wall that Phone_SendReaderPais sends.
Sent(wall) == [p \in Place |-> IF p <= wall.count THEN wall.pais[p] ELSE NoTile]

\* Hand the walls of the readers in R to phone_pais.
HandWalls(s, R) ==
    [s EXCEPT !.phone_pais = [r \in Reader |-> IF r \in R THEN Wall(s, r) ELSE s.phone_pais[r]],
              !.is_handled = [r \in Reader |-> IF r \in R THEN TRUE ELSE s.is_handled[r]]]

\* Mutant: only the complete walls are loaded.
LoadOnlyComplete(s) ==
    LET unsent == {r \in Reader : s.RP_num > s.TotalCardNum \div 2
                                    /\ ~s.is_handled[r] /\ Complete(s, r)}
    IN  ClearReaderData(HandWalls(s, unsent), Reader)

\* At the end of a round: every wall not yet handed over is, if more than half
\* of the tiles were read; then every reader's data is cleared.
DAT_Load(s) ==
    LET unsent == {r \in Reader : s.RP_num > s.TotalCardNum \div 2 /\ ~s.is_handled[r]}
    IN  ClearReaderData(HandWalls(s, unsent), Reader)

\* Mutant: the count of tiles read survives the round.
FinishKeepsCount(s) ==
    [DAT_Load(s) EXCEPT !.working = All(FALSE), !.IsXPFinished = TRUE, !.RP_ovtimer = 0]

Reader_FinishXP(s) ==
    [DAT_Load(s) EXCEPT !.working = All(FALSE), !.RP_num = 0,
                        !.IsXPFinished = TRUE, !.RP_ovtimer = 0]

\* A tile of another shuffle was seen: the round is over, and the readers are
\* already at work on the next one.
NextShuffleSeen(s) == [Reader_FinishXP(s) EXCEPT !.working = All(TRUE)]

\* North and south are the other way round in the phone's numbering.
ConvertMahjongId2PhoneId(t) ==
    <<t[1], CASE t[2] = kMahjongNorth -> kMahjongSouth
              [] t[2] = kMahjongSouth -> kMahjongNorth
              [] OTHER -> t[2]>>

AddOnePaiToCache(s, r, tile) ==
    [s EXCEPT !.PAI_Cache_dat[r][s.PAI_position[r] + 1] = ConvertMahjongId2PhoneId(tile),
              !.PAI_position[r] = s.PAI_position[r] + 1,
              !.RP_num = (s.RP_num + 1) % Byte,
              !.RP_ovtimer = 0]

IsColorChanged(s, tile) == tile[1] # s.pai_color

\* Mutant: the deck is not looked at.
AcceptableOfAnyDeck(s, m) ==
    /\ m.tile # NoTile
    /\ m.position = s.PAI_position[m.reader] + 1

\* A tile that extends this round: the very first one, or one of the same
\* colour at the place after the last.
Acceptable(s, m) ==
    /\ m.tile # NoTile
    /\ IF s.RP_num = 0
       THEN m.position = 1
       ELSE /\ ~IsColorChanged(s, m.tile)
            /\ m.pai_length >= m.position
            /\ m.position = s.PAI_position[m.reader] + 1

\* An answer that can only come from another shuffle.
OtherShuffle(s, m) ==
    IF m.tile = NoTile
    THEN m.pai_length < s.PAI_position[m.reader]
    ELSE s.RP_num # 0 /\ (IsColorChanged(s, m.tile) \/ m.pai_length < m.position)

AttempAddPaiToCacheEx(s, m) ==
    IF Acceptable(s, m)
    THEN [AddOnePaiToCache(s, m.reader, m.tile)
            EXCEPT !.pai_color = IF s.RP_num = 0 THEN m.tile[1] ELSE s.pai_color]
    ELSE IF OtherShuffle(s, m) THEN NextShuffleSeen(s) ELSE s

Reader_HandleInsideMessage(s, m) ==
    IF m.command = "kCmdReaderReset"            \* its answer is kCmdReaderResetAck
    THEN [ClearReaderData(s, {m.reader}) EXCEPT !.working[m.reader] = TRUE]
    ELSE AttempAddPaiToCacheEx(s, m)

\* Mutant: the last group's wall is treated like the others'.
SendAnyCompleteWall(s) ==
    HandWalls(s, {r \in Reader : ~s.is_handled[r] /\ Complete(s, r)})

\* Every complete wall goes to the phone, the last group's only when no other
\* is missing.
SendGroupTileToPhone(s) ==
    LET ready   == {r \in Reader : ~s.is_handled[r] /\ Complete(s, r)}
        missing == \E r \in Reader \ {kGroup} : ~s.is_handled[r] /\ ~Complete(s, r)
    IN  HandWalls(s, IF missing THEN ready \ {kGroup} ELSE ready)

\* Mutant: plain round robin.
NextInTurn(s) == (s.currentReader % kGroup) + 1

\* The next reader in turn whose wall is not complete; the same reader if none.
NextReader(s) ==
    LET turn(k) == IF s.currentReader + k > kGroup THEN s.currentReader + k - kGroup
                                                   ELSE s.currentReader + k
        open == {k \in 1 .. kGroup : ~Complete(s, turn(k))}
    IN  IF open = {} THEN s.currentReader
        ELSE turn(CHOOSE k \in open : \A j \in open : k <= j)

\* A poll without an answer of the reader polled; PAI_err, compared with
\* ErrLimit only, stops one above it.
CountFailure(s, r) ==
    LET err == IF s.PAI_err[r] > ErrLimit THEN s.PAI_err[r] ELSE s.PAI_err[r] + 1
    IN  IF ~s.working[r] /\ err > ErrLimit
        THEN [s EXCEPT !.PAI_position[r] = 0, !.working[r] = TRUE, !.PAI_err[r] = 0]
        ELSE [s EXCEPT !.PAI_err[r] = err]

Reader_CheckReceived(s, rxOk) ==
    LET counted == IF rxOk THEN s ELSE CountFailure(s, s.currentReader)
        sent    == SendGroupTileToPhone(counted)
    IN  [sent EXCEPT !.RP_mode = "kRequestReader", !.currentReader = NextReader(sent)]

\* Mutant: a round of which a few tiles are missing is given no time limit.
OverTimeUnlessFew(s) ==
    LET missing == s.TotalCardNum - s.RP_num
        over    == \/ missing = 0
                   \/ missing \notin 0 .. MissFew /\ s.RP_ovtimer >= Ovt.missMuch /\ s.RP_num > 0
    IN  IF over THEN Reader_FinishXP(s) ELSE s

Reader_CheckOverTime(s) ==
    LET missing == s.TotalCardNum - s.RP_num
        over    == \/ missing = 0
                   \/ missing \in 1 .. MissFew /\ s.RP_ovtimer >= Ovt.missFew
                   \/ /\ missing \notin 0 .. MissFew
                      /\ s.RP_ovtimer >= Ovt.missMuch
                      /\ s.RP_num > 0
    IN  IF over THEN Reader_FinishXP(s) ELSE s

--------------------------------------------------------------------------------
(* Initial state: Navigator_Init and Reader_Init after power-up. *)

NavigatorInit(counts) ==
    [PAI_num       |-> counts,
     PAI_position  |-> All(0),
     PAI_Cache_dat |-> All([p \in Place |-> NoTile]),
     PAI_err       |-> All(0),
     working       |-> All(TRUE),
     is_handled    |-> All(FALSE),
     phone_pais    |-> All([count |-> 0, is_send |-> FALSE, send_count |-> 0,
                            pais |-> [p \in Place |-> NoTile]]),
     TotalCardNum  |-> NumTiles(counts) % Byte,
     RP_num        |-> 0,
     pai_color     |-> CHOOSE c \in Colours : TRUE,
     IsXPFinished  |-> TRUE,
     RP_ovtimer    |-> 0,
     currentReader |-> 1,
     RP_mode       |-> "kRequestReader"]

\* Powered_Init lets no wall size through for which there is no place.
Init == /\ \E counts \in [Reader -> WallCounts \cap Place] : nav = NavigatorInit(counts)
        /\ air = {}

--------------------------------------------------------------------------------
(* The main loop. *)

\* SendRFCommand with the last round over: the pause keeps the last tile of a
\* round out of the next one.
NewRound ==
    /\ nav.RP_mode = "kRequestReader" /\ nav.IsXPFinished
    /\ nav.RP_ovtimer >= Ovt.gap
    /\ nav' = [ClearReaderData(nav, Reader) EXCEPT !.IsXPFinished = FALSE, !.RP_ovtimer = 0]
    /\ UNCHANGED air

\* Mutant: a reader is asked even if its wall is complete.
AsksCompleteReader ==
    /\ nav.RP_mode = "kRequestReader" /\ ~nav.IsXPFinished
    /\ nav' = [nav EXCEPT !.RP_mode = "kWaitTxActive"]
    /\ UNCHANGED air

\* SendRFCommand within a round: ask the current reader for its next tile, or
\* to start anew if it has not answered a reset yet.
Reader_ReadInside ==
    /\ nav.RP_mode = "kRequestReader" /\ ~nav.IsXPFinished
    /\ ~Complete(nav, nav.currentReader)
    /\ nav' = [nav EXCEPT !.RP_mode = "kWaitTxActive"]
    /\ UNCHANGED air

Outstanding(s) ==
    [reader  |-> s.currentReader,
     command |-> IF s.working[s.currentReader] THEN "kCmdReadPai" ELSE "kCmdReaderReset"]

\* The chip has begun to transmit, or 30 ms have passed.
TxActive ==
    /\ nav.RP_mode = "kWaitTxActive"
    /\ nav' = [nav EXCEPT !.RP_mode = "kWaitTxFinish"]
    /\ UNCHANGED air

\* The chip has transmitted; the reader may or may not have heard it.
TxFinish ==
    /\ nav.RP_mode = "kWaitTxFinish"
    /\ nav' = [nav EXCEPT !.RP_mode = "kWaitReaderAck"]
    /\ air' \in {air, air \cup {Outstanding(nav)}}

\* The reader whose turn it is, or another, answers: Reader_DispatchMessage,
\* Reader_CheckReceived and the end of a complete round, in one turn of the loop.
Handled(s, m)   == IF m.reader = s.currentReader THEN Reader_HandleInsideMessage(s, m) ELSE s
EndComplete(s)  == IF s.TotalCardNum = s.RP_num THEN Reader_FinishXP(s) ELSE s

Reader_DispatchMessage(m) ==
    /\ nav.RP_mode = "kWaitReaderAck"
    /\ \E handled \in {Handled(nav, m)} :
         \E checked \in {Reader_CheckReceived(handled, m.reader = nav.currentReader)} :
            nav' = EndComplete(checked)
    /\ air' = air \ {[reader |-> m.reader, command |-> m.command]}

ReaderAnswers ==
    \E req \in air : \E m \in AnswersTo(req) : Reader_DispatchMessage(m)

\* No answer within Reader_GetPollingOverTime.  A reader that answers promptly
\* or not at all leaves nothing behind.
PollOverTime ==
    /\ nav.RP_mode = "kWaitReaderAck"
    /\ \E checked \in {Reader_CheckReceived(nav, FALSE)} :
          nav' = Reader_CheckOverTime(checked)
    /\ air' = IF LateReplies THEN air ELSE {}

\* RP_ovtimer passes its next threshold.
Tick ==
    /\ nav.RP_ovtimer < Ovt.missMuch
    /\ nav' = [nav EXCEPT !.RP_ovtimer = @ + 1]
    /\ UNCHANGED air

\* The phone sets the size of the walls: at once, whatever the round is at, and any.
Phone_SetPaiCount(counts) ==
    /\ MayReconfigure
    /\ counts # nav.PAI_num
    /\ nav' = [nav EXCEPT !.PAI_num = counts, !.TotalCardNum = NumTiles(counts) % Byte]
    /\ UNCHANGED air

\* One turn of the main loop: what Reader_GetMessage and main do for RP_mode.
LoopTurn ==
    \/ NewRound \/ Reader_ReadInside \/ TxActive \/ TxFinish
    \/ ReaderAnswers \/ PollOverTime

Next ==
    \/ LoopTurn
    \/ Tick
    \/ \E counts \in [Reader -> WallCounts] : Phone_SetPaiCount(counts)

Spec == Init /\ [][Next]_vars

\* The main loop turns for ever (and the chip transmits), and the timer runs.
LoopFairness == WF_vars(LoopTurn) /\ WF_vars(Tick)

FairSpec == Spec /\ LoopFairness

\* ... and a poll goes unanswered again and again.
LossySpec == FairSpec /\ SF_vars(PollOverTime)

--------------------------------------------------------------------------------
(* Properties. *)

PhonePais == [count : 0 .. MAX_WALL_CARD, is_send : {FALSE}, send_count : {0},
              pais : [Place -> Tile \cup {NoTile}]]

Nav == [PAI_num       : [Reader -> 0 .. MAX_WALL_CARD],
        PAI_position  : [Reader -> 0 .. MAX_WALL_CARD],
        PAI_Cache_dat : [Reader -> [Place -> Tile \cup {NoTile}]],
        PAI_err       : [Reader -> 0 .. ErrLimit + 1],
        working       : [Reader -> BOOLEAN],
        is_handled    : [Reader -> BOOLEAN],
        phone_pais    : [Reader -> PhonePais],
        TotalCardNum  : 0 .. Byte - 1,
        RP_num        : 0 .. Byte - 1,
        pai_color     : Colours,
        IsXPFinished  : BOOLEAN,
        RP_ovtimer    : 0 .. Ovt.missMuch,
        currentReader : Reader,
        RP_mode       : Modes]

\* What Phone_SetPaiCount does not check: that the caches hold the walls, without which
\* AddOnePaiToCache writes over what is behind a cache, and that no wall is empty.
WallsFit    == \A r \in Reader : nav.PAI_num[r] <= MAX_WALL_CARD
NoEmptyWall == \A r \in Reader : nav.PAI_num[r] > 0

\* Every global has a value of its type; in particular no cache index leaves the cache
\* while the walls fit, although AddOnePaiToCache does not check it, a reader may answer
\* with any place, and the walls may be made smaller than what was read of them.
TypeOK == nav \in Nav /\ air \subseteq Request

\* RP_num is what its declaration says, the number of tiles read: the sum of
\* the readers' positions, over every reset, retry, finish and new round.
RPNumCounts == nav.RP_num = NumTiles(nav.PAI_position)

\* A round in progress holds tiles of one deck only: whatever is cached, and
\* every wall handed over, as it is sent, has the colour of the round's first tile.
OneDeck ==
    \A r \in Reader : \A p \in Place :
        /\ p <= nav.PAI_position[r] => nav.PAI_Cache_dat[r][p][1] = nav.pai_color
        /\ nav.is_handled[r] /\ Sent(nav.phone_pais[r])[p] # NoTile
             => Sent(nav.phone_pais[r])[p][1] = nav.pai_color

\* Between rounds nothing of the last one is left in the readers' records.
CleanBetweenRounds ==
    nav.IsXPFinished => nav.RP_num = 0 /\ \A r \in Reader :
                            nav.PAI_position[r] = 0 /\ ~nav.is_handled[r]

\* Polling cannot stop: while a round is open the reader whose turn it is has
\* a tile left to be read (Reader_ReadInside would send nothing otherwise, and
\* nothing else sets RP_mode going again).
PollingGoesOn == ~nav.IsXPFinished => ~Complete(nav, nav.currentReader)

\* The last group's wall is never with the phone before the others'
\* (SendGroupTileToPhone: the last group may not be sent first).
LastGroupLast == nav.is_handled[kGroup] => \A r \in Reader : nav.is_handled[r]

\* The tiles read of each wall, as a sequence.
TilesRead(s) == [r \in Reader |-> [p \in 1 .. s.PAI_position[r] |-> s.PAI_Cache_dat[r][p]]]

Promise == INSTANCE Round WITH
    size <- nav.PAI_num, open <- ~nav.IsXPFinished, read <- TilesRead(nav),
    final <- nav.is_handled, sent <- [r \in Reader |-> Sent(nav.phone_pais[r])]

\* However polls, resets and time-outs interleave with the readers' answers, the walls
\* get to the phone as Round promises: in order and of one deck, each when it is complete
\* and the last group's last, and all of a round of which more than half was read.
RoundsAsPromised == Promise!Spec

\* A round of which a tile was read comes to an end.
RoundEnds == ~nav.IsXPFinished /\ nav.RP_num > 0 ~> nav.IsXPFinished
================================================================================
