--------------------------- MODULE TableReaderProofs ---------------------------
(* Theorems about TableReader, for any number of readers and any size of wall. *)
EXTENDS TableReader, FiniteSetTheorems, SequenceTheorems, WellFoundedInduction, TLAPS

--------------------------------------------------------------------------------
(* Each helper of main.cpp takes globals of the right type to globals of the   *)
(* right type.                                                                 *)

LEMMA Zeroes == /\ 0 \in 0 .. Byte - 1 /\ 0 \in 0 .. Ovt.missMuch
                /\ 0 \in 0 .. MAX_WALL_CARD /\ 0 \in 0 .. ErrLimit + 1
BY ByteAssumption, ReadersAssumption, LimitsAssumption DEF Ovt

LEMMA ClearType ==
    ASSUME NEW s \in Nav, NEW R \in SUBSET Reader
    PROVE  ClearReaderData(s, R) \in Nav
<1> DEFINE pos  == [r \in Reader |-> IF r \in R THEN 0 ELSE s.PAI_position[r]]
           err  == [r \in Reader |-> IF r \in R THEN 0 ELSE s.PAI_err[r]]
           done == [r \in Reader |-> IF r \in R THEN FALSE ELSE s.is_handled[r]]
           dat  == [r \in Reader |-> IF r \in R THEN [p \in Place |-> NoTile]
                                                ELSE s.PAI_Cache_dat[r]]
<1>1. pos \in [Reader -> 0 .. MAX_WALL_CARD]
  BY Zeroes DEF Nav
<1>2. err \in [Reader -> 0 .. ErrLimit + 1]
  BY Zeroes DEF Nav
<1>3. done \in [Reader -> BOOLEAN]
  BY DEF Nav
<1>4. dat \in [Reader -> [Place -> Tile \cup {NoTile}]]
  BY DEF Nav
<1>5. ClearReaderData(s, R) = [s EXCEPT !.PAI_position = pos, !.PAI_err = err,
                                        !.is_handled = done, !.PAI_Cache_dat = dat]
  BY DEF ClearReaderData
<1> HIDE DEF pos, err, done, dat
<1> QED BY <1>1, <1>2, <1>3, <1>4, <1>5 DEF Nav

LEMMA HandWallsType ==
    ASSUME NEW s \in Nav, NEW R \in SUBSET Reader
    PROVE  HandWalls(s, R) \in Nav
<1> DEFINE pais == [r \in Reader |-> IF r \in R THEN Wall(s, r) ELSE s.phone_pais[r]]
           done == [r \in Reader |-> IF r \in R THEN TRUE ELSE s.is_handled[r]]
<1>1. ASSUME NEW r \in Reader PROVE Wall(s, r) \in PhonePais
  <2> DEFINE tiles == [p \in Place |->
                          CASE p <= s.PAI_position[r] -> s.PAI_Cache_dat[r][p]
                            [] s.PAI_position[r] < p /\ p <= s.PAI_num[r] -> NoTile
                            [] OTHER -> s.phone_pais[r].pais[p]]
  <2>1. tiles \in [Place -> Tile \cup {NoTile}]
    <3>1. /\ s.PAI_Cache_dat[r] \in [Place -> Tile \cup {NoTile}]
          /\ s.phone_pais[r].pais \in [Place -> Tile \cup {NoTile}]
      BY DEF Nav, PhonePais
    <3> QED BY <3>1
  <2>2. s.PAI_num[r] \in 0 .. MAX_WALL_CARD
    BY DEF Nav
  <2> HIDE DEF tiles
  <2>3. Wall(s, r) = [count |-> s.PAI_num[r], is_send |-> FALSE, send_count |-> 0, pais |-> tiles]
    BY DEF Wall, tiles
  <2> QED BY <2>1, <2>2, <2>3 DEF PhonePais
<1>2. pais \in [Reader -> PhonePais]
  BY <1>1 DEF Nav
<1>3. done \in [Reader -> BOOLEAN]
  BY DEF Nav
<1>4. HandWalls(s, R) = [s EXCEPT !.phone_pais = pais, !.is_handled = done]
  BY DEF HandWalls
<1> HIDE DEF pais, done
<1> QED BY <1>2, <1>3, <1>4 DEF Nav

LEMMA LoadType == ASSUME NEW s \in Nav PROVE DAT_Load(s) \in Nav
BY ClearType, HandWallsType DEF DAT_Load

LEMMA FinishType ==
    ASSUME NEW s \in Nav
    PROVE  Reader_FinishXP(s) \in Nav /\ NextShuffleSeen(s) \in Nav
<1>1. DAT_Load(s) \in Nav
  BY LoadType
<1>2. All(TRUE) \in [Reader -> BOOLEAN] /\ All(FALSE) \in [Reader -> BOOLEAN]
  BY DEF All
<1>3. Reader_FinishXP(s) \in Nav
  BY <1>1, <1>2, Zeroes DEF Reader_FinishXP, Nav
<1> QED BY <1>2, <1>3 DEF NextShuffleSeen, Nav

LEMMA ConvertType ==
    ASSUME NEW t \in Tile PROVE ConvertMahjongId2PhoneId(t) \in Tile
BY FacesAssumption DEF ConvertMahjongId2PhoneId, Tile

LEMMA AddType ==
    ASSUME NEW s \in Nav, NEW r \in Reader, NEW tile \in Tile,
           s.PAI_position[r] < MAX_WALL_CARD
    PROVE  AddOnePaiToCache(s, r, tile) \in Nav
<1> DEFINE next == s.PAI_position[r] + 1
           dat  == [s.PAI_Cache_dat EXCEPT ![r][next] = ConvertMahjongId2PhoneId(tile)]
           pos  == [s.PAI_position EXCEPT ![r] = next]
           num  == (s.RP_num + 1) % Byte
<1>1. next \in 0 .. MAX_WALL_CARD /\ next \in Place
  BY ReadersAssumption DEF Nav, Place
<1>2. dat \in [Reader -> [Place -> Tile \cup {NoTile}]]
  BY <1>1, ConvertType DEF Nav
<1>3. pos \in [Reader -> 0 .. MAX_WALL_CARD]
  BY <1>1 DEF Nav
<1>4. num \in 0 .. Byte - 1
  BY ByteAssumption DEF Nav
<1>5. AddOnePaiToCache(s, r, tile) =
        [s EXCEPT !.PAI_Cache_dat = dat, !.PAI_position = pos, !.RP_num = num, !.RP_ovtimer = 0]
  BY DEF AddOnePaiToCache, Nav
<1> HIDE DEF dat, pos, num
<1> QED BY <1>2, <1>3, <1>4, <1>5, Zeroes DEF Nav

\* What a reader may answer.
AnyAnswer == UNION {AnswersTo(req) : req \in Request}

LEMMA HandleType ==
    ASSUME NEW s \in Nav, NEW m \in AnyAnswer, s.PAI_position[m.reader] < MAX_WALL_CARD
    PROVE  Reader_HandleInsideMessage(s, m) \in Nav
<1>1. m.reader \in Reader /\ m.tile \in Tile \cup {NoTile}
  BY DEF AnyAnswer, AnswersTo, Request
<1>2. AttempAddPaiToCacheEx(s, m) \in Nav
  <2>1. CASE Acceptable(s, m)
    <3>1. m.tile \in Tile
      BY <2>1, <1>1 DEF Acceptable
    <3>2. AddOnePaiToCache(s, m.reader, m.tile) \in Nav
      BY <3>1, <1>1, AddType
    <3>3. m.tile[1] \in Colours /\ s.pai_color \in Colours
      BY <3>1 DEF Tile, Nav
    <3> QED BY <2>1, <3>2, <3>3 DEF AttempAddPaiToCacheEx, Nav
  <2>2. CASE ~Acceptable(s, m)
    BY <2>2, FinishType DEF AttempAddPaiToCacheEx
  <2> QED BY <2>1, <2>2
<1>3. [ClearReaderData(s, {m.reader}) EXCEPT !.working[m.reader] = TRUE] \in Nav
  <2>1. ClearReaderData(s, {m.reader}) \in Nav
    BY <1>1, ClearType
  <2> QED BY <2>1, <1>1 DEF Nav
<1> QED BY <1>2, <1>3 DEF Reader_HandleInsideMessage

LEMMA SendType == ASSUME NEW s \in Nav PROVE SendGroupTileToPhone(s) \in Nav
BY HandWallsType DEF SendGroupTileToPhone

LEMMA CountFailureType ==
    ASSUME NEW s \in Nav, NEW r \in Reader
    PROVE  CountFailure(s, r) \in Nav
<1> DEFINE err == IF s.PAI_err[r] > ErrLimit THEN s.PAI_err[r] ELSE s.PAI_err[r] + 1
<1>1. err \in 0 .. ErrLimit + 1
  BY LimitsAssumption DEF Nav
<1>2. [s EXCEPT !.PAI_err[r] = err] \in Nav
  BY <1>1 DEF Nav
<1>3. [s EXCEPT !.PAI_position[r] = 0, !.working[r] = TRUE, !.PAI_err[r] = 0] \in Nav
  BY Zeroes DEF Nav
<1> HIDE DEF err
<1>4. \/ CountFailure(s, r) = [s EXCEPT !.PAI_err[r] = err]
      \/ CountFailure(s, r) = [s EXCEPT !.PAI_position[r] = 0, !.working[r] = TRUE, !.PAI_err[r] = 0]
  BY DEF CountFailure, err
<1> QED BY <1>2, <1>3, <1>4

LEMMA LeastExists ==
    ASSUME NEW S \in SUBSET Nat, S # {}
    PROVE  \E k \in S : \A j \in S : k <= j
<1>1. PICK k \in S : \A j \in S : ~(<<j, k>> \in OpToRel(<, Nat))
  BY NatLessThanWellFounded, WFMin
<1>2. \A j \in S : ~(j < k)
  BY <1>1 DEF OpToRel
<1> QED BY <1>2

\* The search for the next reader finds a reader, and one that has a tile left
\* to be read whenever there is one.
LEMMA NextReaderFinds ==
    ASSUME NEW s \in Nav
    PROVE  /\ NextReader(s) \in Reader
           /\ (\E r \in Reader : ~Complete(s, r)) => ~Complete(s, NextReader(s))
<1> DEFINE turn(k) == IF s.currentReader + k > kGroup THEN s.currentReader + k - kGroup
                                                      ELSE s.currentReader + k
           open == {k \in 1 .. kGroup : ~Complete(s, turn(k))}
           least == CHOOSE k \in open : \A j \in open : k <= j
<1>1. s.currentReader \in 1 .. kGroup /\ kGroup \in Nat \ {0}
  BY ReadersAssumption DEF Nav, Reader
<1>2. ASSUME open # {} PROVE least \in open
  <2>1. open \subseteq Nat
    OBVIOUS
  <2> QED BY <1>2, <2>1, LeastExists
<1>3. \A k \in 1 .. kGroup : turn(k) \in Reader
  BY <1>1 DEF Reader
<1>4. NextReader(s) = IF open = {} THEN s.currentReader ELSE turn(least)
  BY DEF NextReader
<1>5. ASSUME NEW r \in Reader PROVE \E k \in 1 .. kGroup : turn(k) = r
  <2>1. CASE r > s.currentReader
    <3>1. r - s.currentReader \in 1 .. kGroup /\ turn(r - s.currentReader) = r
      BY <1>1, <2>1 DEF Reader
    <3> QED BY <3>1
  <2>2. CASE r <= s.currentReader
    <3>1. r - s.currentReader + kGroup \in 1 .. kGroup /\ turn(r - s.currentReader + kGroup) = r
      BY <1>1, <2>2 DEF Reader
    <3> QED BY <3>1
  <2> QED BY <2>1, <2>2, <1>1 DEF Reader
<1>6. (\E r \in Reader : ~Complete(s, r)) => open # {}
  BY <1>5
<1> HIDE DEF open, least, turn
<1>7. ASSUME open # {} PROVE turn(least) \in Reader /\ ~Complete(s, turn(least))
  BY <1>2, <1>3, <1>7 DEF open
<1> QED BY <1>1, <1>4, <1>6, <1>7 DEF Reader

LEMMA CheckReceivedType ==
    ASSUME NEW s \in Nav, NEW rxOk \in BOOLEAN
    PROVE  Reader_CheckReceived(s, rxOk) \in Nav
<1> DEFINE counted == IF rxOk THEN s ELSE CountFailure(s, s.currentReader)
           sent == SendGroupTileToPhone(counted)
<1>1. s.currentReader \in Reader
  BY DEF Nav
<1>2. counted \in Nav
  BY <1>1, CountFailureType
<1>3. sent \in Nav
  BY <1>2, SendType
<1>4. NextReader(sent) \in Reader
  BY <1>3, NextReaderFinds
<1>5. Reader_CheckReceived(s, rxOk) =
        [sent EXCEPT !.RP_mode = "kRequestReader", !.currentReader = NextReader(sent)]
  BY DEF Reader_CheckReceived
<1> HIDE DEF sent
<1> QED BY <1>3, <1>4, <1>5 DEF Nav, Modes

\* Every poll, answered or not, ends with the next request due, and the end of
\* a round does not change that.
LEMMA CheckReceivedMode ==
    ASSUME NEW s \in Nav, NEW rxOk \in BOOLEAN
    PROVE  Reader_CheckReceived(s, rxOk).RP_mode = "kRequestReader"
<1> DEFINE sent == SendGroupTileToPhone(IF rxOk THEN s ELSE CountFailure(s, s.currentReader))
<1>1. s.currentReader \in Reader
  BY DEF Nav
<1>2. sent \in Nav
  BY <1>1, CountFailureType, SendType
<1>3. Reader_CheckReceived(s, rxOk) =
        [sent EXCEPT !.RP_mode = "kRequestReader", !.currentReader = NextReader(sent)]
  BY DEF Reader_CheckReceived
<1> HIDE DEF sent
<1> QED BY <1>2, <1>3 DEF Nav

LEMMA FinishMode ==
    ASSUME NEW s \in Nav
    PROVE  Reader_FinishXP(s).RP_mode = s.RP_mode
BY DEF Reader_FinishXP, DAT_Load, ClearReaderData, HandWalls, Nav

LEMMA CheckOverTimeType ==
    ASSUME NEW s \in Nav PROVE Reader_CheckOverTime(s) \in Nav /\ EndComplete(s) \in Nav
BY FinishType DEF Reader_CheckOverTime, EndComplete

--------------------------------------------------------------------------------
(* Type correctness.  AddOnePaiToCache is safe because a reader is polled only *)
(* while its wall has room, as long as no wall is larger than the cache.       *)

Room == nav.RP_mode # "kRequestReader" =>
            nav.PAI_position[nav.currentReader] < MAX_WALL_CARD

TypeInv == TypeOK /\ Room

\* The tiles of the walls are as many as the places below their heights, at
\* most one cache for every reader, so a uint8_t can count them.
LEMMA OneByteHolds == MAX_WALL_CARD <= Byte - 1
<1>1. kGroup \in Nat \ {0} /\ MAX_WALL_CARD \in Nat /\ Byte \in Nat
  BY ReadersAssumption, ByteAssumption
<1>2. ASSUME NEW k \in Nat, NEW n \in Nat, k >= 1 PROVE n <= k * n
  <2>1. k * n = (k - 1) * n + n
    BY <1>2
  <2>2. (k - 1) * n \in Nat
    BY <1>2
  <2> QED BY <2>1, <2>2
<1>3. MAX_WALL_CARD <= kGroup * MAX_WALL_CARD
  BY <1>1, <1>2
<1> QED BY <1>1, <1>3, ByteAssumption

LEMMA PlacesAre ==
    ASSUME NEW f \in [Reader -> 0 .. MAX_WALL_CARD]
    PROVE  Places(f) = {w \in Reader \X Place : w[2] <= f[w[1]]}
<1>1. \A r \in Reader : \A p \in 1 .. Byte - 1 : p <= f[r] => p \in Place
  BY ReadersAssumption, ByteAssumption DEF Place
<1>2. \A p \in Place : p \in 1 .. Byte - 1
  BY OneByteHolds, ReadersAssumption, ByteAssumption DEF Place
<1> QED BY <1>1, <1>2 DEF Places

LEMMA NumTilesType ==
    ASSUME NEW f \in [Reader -> 0 .. MAX_WALL_CARD]
    PROVE  /\ IsFiniteSet(Places(f))
           /\ NumTiles(f) \in 0 .. kGroup * MAX_WALL_CARD
           /\ NumTiles(f) \in 0 .. Byte - 1
<1>1. IsFiniteSet(Reader) /\ Cardinality(Reader) = kGroup
  BY ReadersAssumption, FS_Interval DEF Reader
<1>2. IsFiniteSet(Place) /\ Cardinality(Place) = MAX_WALL_CARD
  BY ReadersAssumption, FS_Interval DEF Place
<1>3. IsFiniteSet(Reader \X Place) /\ Cardinality(Reader \X Place) = kGroup * MAX_WALL_CARD
  BY <1>1, <1>2, FS_Product
<1>4. Places(f) \in SUBSET (Reader \X Place)
  BY PlacesAre
<1>5. IsFiniteSet(Places(f)) /\ Cardinality(Places(f)) <= kGroup * MAX_WALL_CARD
  BY <1>3, <1>4, FS_Subset
<1>6. Cardinality(Places(f)) \in Nat
  BY <1>5, FS_CardinalityType
<1>7. kGroup * MAX_WALL_CARD \in Nat
  BY ReadersAssumption
<1> QED BY <1>5, <1>6, <1>7, ByteAssumption DEF NumTiles

LEMMA InitType == Init => TypeInv
<1> SUFFICES ASSUME Init PROVE TypeInv
  OBVIOUS
<1>1. PICK counts \in [Reader -> WallCounts \cap Place] : nav = NavigatorInit(counts)
  BY DEF Init
<1>2. counts \in [Reader -> 0 .. MAX_WALL_CARD]
  BY ReadersAssumption DEF Place
<1>3. NumTiles(counts) % Byte \in 0 .. Byte - 1
  <2>1. NumTiles(counts) \in 0 .. Byte - 1
    BY <1>2, NumTilesType
  <2> QED BY <2>1, ByteAssumption
<1>4. (CHOOSE c \in Colours : TRUE) \in Colours
  BY ColoursAssumption
<1>5. /\ All(0) \in [Reader -> 0 .. MAX_WALL_CARD]
      /\ All(0) \in [Reader -> 0 .. ErrLimit + 1]
      /\ All(TRUE) \in [Reader -> BOOLEAN] /\ All(FALSE) \in [Reader -> BOOLEAN]
  BY Zeroes DEF All
<1>6. /\ [p \in Place |-> NoTile] \in [Place -> Tile \cup {NoTile}]
      /\ All([p \in Place |-> NoTile]) \in [Reader -> [Place -> Tile \cup {NoTile}]]
  BY DEF All
<1>7. All([count |-> 0, is_send |-> FALSE, send_count |-> 0,
           pais |-> [p \in Place |-> NoTile]]) \in [Reader -> PhonePais]
  BY <1>6, Zeroes DEF All, PhonePais
<1>8. 1 \in Reader /\ "kRequestReader" \in Modes
  BY ReadersAssumption DEF Reader, Modes
<1>9. NavigatorInit(counts) \in Nav
  BY <1>2, <1>3, <1>4, <1>5, <1>6, <1>7, <1>8, Zeroes DEF NavigatorInit, Nav
<1>10. nav.RP_mode = "kRequestReader"
  BY <1>1 DEF NavigatorInit
<1> QED BY <1>1, <1>9, <1>10 DEF TypeInv, TypeOK, Room, Init

LEMMA NextType == TypeInv /\ WallsFit' /\ [Next]_vars => TypeInv'
<1> SUFFICES ASSUME TypeInv, WallsFit', [Next]_vars PROVE TypeInv'
  OBVIOUS
<1>1. /\ nav \in Nav /\ air \subseteq Request
      /\ nav.currentReader \in Reader
      /\ nav.RP_mode # "kRequestReader" => nav.PAI_position[nav.currentReader] < MAX_WALL_CARD
  BY DEF TypeInv, TypeOK, Room, Nav
<1>2. CASE NewRound
  <2>0. ClearReaderData(nav, Reader) \in Nav
    BY <1>1, ClearType
  <2>1. ClearReaderData(nav, Reader).RP_mode = nav.RP_mode
    BY <1>1 DEF ClearReaderData, Nav
  <2>2. nav'.RP_mode = "kRequestReader" /\ nav' \in Nav
    BY <1>2, <2>0, <2>1, Zeroes DEF NewRound, Nav
  <2> QED BY <1>1, <1>2, <2>2 DEF NewRound, TypeInv, TypeOK, Room
<1>3. CASE Reader_ReadInside
  <2>1. nav.PAI_position[nav.currentReader] < MAX_WALL_CARD
    BY <1>1, <1>3, ReadersAssumption DEF Reader_ReadInside, Complete, Nav, Place
  <2>2. nav' \in Nav /\ nav'.PAI_position = nav.PAI_position /\ nav'.currentReader = nav.currentReader
    BY <1>1, <1>3 DEF Reader_ReadInside, Nav, Modes
  <2> QED BY <1>1, <1>3, <2>1, <2>2 DEF Reader_ReadInside, TypeInv, TypeOK, Room
<1>4. CASE TxActive \/ TxFinish
  <2>1. /\ nav' \in Nav /\ nav'.PAI_position = nav.PAI_position
        /\ nav'.currentReader = nav.currentReader /\ nav.RP_mode # "kRequestReader"
    BY <1>1, <1>4 DEF TxActive, TxFinish, Nav, Modes
  <2>2. Outstanding(nav) \in Request
    BY <1>1 DEF Outstanding, Request, Commands
  <2>3. air' \subseteq Request
    BY <1>1, <1>4, <2>2 DEF TxActive, TxFinish
  <2> QED BY <1>1, <2>1, <2>3 DEF TypeInv, TypeOK, Room
<1>5. CASE ReaderAnswers
  <2>1. PICK req \in air : \E m \in AnswersTo(req) : Reader_DispatchMessage(m)
    BY <1>5 DEF ReaderAnswers
  <2>2. PICK m \in AnswersTo(req) : Reader_DispatchMessage(m)
    BY <2>1
  <2>3. m \in AnyAnswer
    BY <1>1, <2>1, <2>2 DEF AnyAnswer
  <2>4. nav.PAI_position[nav.currentReader] < MAX_WALL_CARD
    BY <1>1, <2>2 DEF Reader_DispatchMessage
  <2>5. Handled(nav, m) \in Nav
    BY <1>1, <2>3, <2>4, HandleType DEF Handled
  <2>6. PICK checked : /\ checked = Reader_CheckReceived(Handled(nav, m), m.reader = nav.currentReader)
                       /\ nav' = EndComplete(checked)
    BY <2>2 DEF Reader_DispatchMessage
  <2>7. checked \in Nav /\ checked.RP_mode = "kRequestReader"
    BY <2>5, <2>6, CheckReceivedType, CheckReceivedMode
  <2>8. nav' \in Nav /\ nav'.RP_mode = "kRequestReader"
    BY <2>6, <2>7, CheckOverTimeType, FinishMode DEF EndComplete
  <2>9. air' \subseteq Request
    BY <1>1, <2>2 DEF Reader_DispatchMessage
  <2> QED BY <2>8, <2>9 DEF TypeInv, TypeOK, Room
<1>6. CASE PollOverTime
  <2>1. PICK checked : /\ checked = Reader_CheckReceived(nav, FALSE)
                       /\ nav' = Reader_CheckOverTime(checked)
    BY <1>6 DEF PollOverTime
  <2>2. checked \in Nav /\ checked.RP_mode = "kRequestReader"
    BY <1>1, <2>1, CheckReceivedType, CheckReceivedMode
  <2>3. nav' \in Nav /\ nav'.RP_mode = "kRequestReader"
    BY <2>1, <2>2, CheckOverTimeType, FinishMode DEF Reader_CheckOverTime
  <2> QED BY <1>1, <1>6, <2>3 DEF PollOverTime, TypeInv, TypeOK, Room
<1>7. CASE Tick
  <2>1. nav.RP_ovtimer + 1 \in 0 .. Ovt.missMuch
    BY <1>1, <1>7 DEF Tick, Nav, Ovt
  <2>2. /\ nav' \in Nav /\ nav'.RP_mode = nav.RP_mode
        /\ nav'.PAI_position = nav.PAI_position /\ nav'.currentReader = nav.currentReader
    BY <1>1, <1>7, <2>1 DEF Tick, Nav
  <2> QED BY <1>1, <1>7, <2>2 DEF Tick, TypeInv, TypeOK, Room
<1>8. ASSUME NEW counts \in [Reader -> WallCounts], Phone_SetPaiCount(counts)
      PROVE  TypeInv'
  <2>1. counts \in [Reader -> 0 .. MAX_WALL_CARD] /\ NumTiles(counts) % Byte \in 0 .. Byte - 1
    <3>1. nav'.PAI_num = counts
      BY <1>1, <1>8 DEF Phone_SetPaiCount, Nav
    <3>2. \A r \in Reader : counts[r] <= MAX_WALL_CARD
      BY <3>1 DEF WallsFit
    <3>3. counts \in [Reader -> 0 .. MAX_WALL_CARD]
      <4>1. Byte \in Nat /\ MAX_WALL_CARD \in Nat
        BY ByteAssumption, ReadersAssumption
      <4>2. \A r \in Reader : counts[r] \in 0 .. Byte - 1
        BY CountsAssumption
      <4>3. \A r \in Reader : counts[r] \in 0 .. MAX_WALL_CARD
        BY <3>2, <4>1, <4>2
      <4> QED BY <4>3
    <3>4. NumTiles(counts) \in 0 .. Byte - 1
      BY <3>3, NumTilesType
    <3> QED BY <3>3, <3>4, ByteAssumption
  <2>2. /\ nav' \in Nav /\ nav'.RP_mode = nav.RP_mode
        /\ nav'.PAI_position = nav.PAI_position /\ nav'.currentReader = nav.currentReader
    BY <1>1, <1>8, <2>1 DEF Phone_SetPaiCount, Nav
  <2> QED BY <1>1, <1>8, <2>2 DEF Phone_SetPaiCount, TypeInv, TypeOK, Room
<1>9. CASE UNCHANGED vars
  BY <1>1, <1>9 DEF vars, TypeInv, TypeOK, Room
<1> QED BY <1>2, <1>3, <1>4, <1>5, <1>6, <1>7, <1>8, <1>9 DEF Next, LoopTurn

\* The globals keep their types, and no tile is written outside a cache, as long as
\* the phone sets no wall larger than a cache, which Phone_SetPaiCount leaves to it.
THEOREM TypeCorrect == Spec /\ []WallsFit => []TypeOK
<1>1. TypeInv => TypeOK
  BY DEF TypeInv
<1> QED BY InitType, NextType, <1>1, PTL DEF Spec

--------------------------------------------------------------------------------
(* What each helper leaves alone and what it sets. *)

LEMMA ClearEffect ==
    ASSUME NEW s \in Nav, NEW R \in SUBSET Reader
    PROVE  LET t == ClearReaderData(s, R) IN
           /\ t \in Nav
           /\ \A r \in Reader : /\ t.PAI_position[r] = IF r \in R THEN 0 ELSE s.PAI_position[r]
                                /\ t.is_handled[r] = IF r \in R THEN FALSE ELSE s.is_handled[r]
                                /\ r \notin R => t.PAI_Cache_dat[r] = s.PAI_Cache_dat[r]
           /\ t.RP_num = s.RP_num /\ t.TotalCardNum = s.TotalCardNum /\ t.PAI_num = s.PAI_num
           /\ t.working = s.working /\ t.phone_pais = s.phone_pais /\ t.pai_color = s.pai_color
           /\ t.IsXPFinished = s.IsXPFinished /\ t.currentReader = s.currentReader
<1>1. ClearReaderData(s, R) \in Nav
  BY ClearType
<1> QED BY <1>1 DEF ClearReaderData, Nav

LEMMA HandEffect ==
    ASSUME NEW s \in Nav, NEW R \in SUBSET Reader
    PROVE  LET t == HandWalls(s, R) IN
           /\ t \in Nav
           /\ \A r \in Reader : /\ t.phone_pais[r] = IF r \in R THEN Wall(s, r) ELSE s.phone_pais[r]
                                /\ t.is_handled[r] = IF r \in R THEN TRUE ELSE s.is_handled[r]
           /\ t.RP_num = s.RP_num /\ t.TotalCardNum = s.TotalCardNum /\ t.PAI_num = s.PAI_num
           /\ t.PAI_position = s.PAI_position /\ t.PAI_Cache_dat = s.PAI_Cache_dat
           /\ t.working = s.working /\ t.pai_color = s.pai_color
           /\ t.IsXPFinished = s.IsXPFinished /\ t.currentReader = s.currentReader
<1>1. HandWalls(s, R) \in Nav
  BY HandWallsType
<1> QED BY <1>1 DEF HandWalls, Nav

LEMMA LoadEffect ==
    ASSUME NEW s \in Nav
    PROVE  LET t == DAT_Load(s) IN
           /\ t \in Nav
           /\ \A r \in Reader : t.PAI_position[r] = 0 /\ t.is_handled[r] = FALSE
           /\ t.TotalCardNum = s.TotalCardNum /\ t.PAI_num = s.PAI_num
           /\ t.currentReader = s.currentReader
<1> DEFINE unsent == {r \in Reader : s.RP_num > s.TotalCardNum \div 2 /\ ~s.is_handled[r]}
           walls == HandWalls(s, unsent)
<1>1. unsent \in SUBSET Reader /\ Reader \in SUBSET Reader /\ DAT_Load(s) = ClearReaderData(walls, Reader)
  BY DEF DAT_Load
<1> HIDE DEF unsent
<1>2. walls \in Nav /\ walls.TotalCardNum = s.TotalCardNum /\ walls.PAI_num = s.PAI_num
      /\ walls.currentReader = s.currentReader
  BY <1>1, HandEffect
<1> HIDE DEF walls
<1> DEFINE t == ClearReaderData(walls, Reader)
<1>3. /\ t \in Nav
      /\ \A r \in Reader : t.PAI_position[r] = 0 /\ t.is_handled[r] = FALSE
      /\ t.TotalCardNum = walls.TotalCardNum /\ t.PAI_num = walls.PAI_num
      /\ t.currentReader = walls.currentReader
  BY <1>1, <1>2, ClearEffect
<1> QED BY <1>1, <1>2, <1>3

LEMMA FinishEffect ==
    ASSUME NEW s \in Nav
    PROVE  LET t == Reader_FinishXP(s) IN
           /\ t \in Nav
           /\ \A r \in Reader : /\ t.PAI_position[r] = 0 /\ t.is_handled[r] = FALSE
           /\ t.RP_num = 0 /\ t.IsXPFinished = TRUE
           /\ t.TotalCardNum = s.TotalCardNum /\ t.PAI_num = s.PAI_num
           /\ t.currentReader = s.currentReader
<1> DEFINE load == DAT_Load(s)
<1>1. /\ load \in Nav
      /\ \A r \in Reader : load.PAI_position[r] = 0 /\ load.is_handled[r] = FALSE
      /\ load.TotalCardNum = s.TotalCardNum /\ load.PAI_num = s.PAI_num
      /\ load.currentReader = s.currentReader
  BY LoadEffect
<1>2. Reader_FinishXP(s) \in Nav
  BY FinishType
<1>3. Reader_FinishXP(s) =
        [load EXCEPT !.working = All(FALSE), !.RP_num = 0, !.IsXPFinished = TRUE, !.RP_ovtimer = 0]
  BY DEF Reader_FinishXP
<1> HIDE DEF load
<1> QED BY <1>1, <1>2, <1>3 DEF Nav

LEMMA NextShuffleEffect ==
    ASSUME NEW s \in Nav
    PROVE  LET t == NextShuffleSeen(s) IN
           /\ t \in Nav
           /\ \A r \in Reader : t.PAI_position[r] = 0 /\ t.is_handled[r] = FALSE
           /\ t.RP_num = 0 /\ t.IsXPFinished = TRUE
           /\ t.TotalCardNum = s.TotalCardNum /\ t.PAI_num = s.PAI_num
           /\ t.currentReader = s.currentReader
<1> DEFINE over == Reader_FinishXP(s)
<1>1. /\ over \in Nav
      /\ \A r \in Reader : over.PAI_position[r] = 0 /\ over.is_handled[r] = FALSE
      /\ over.RP_num = 0 /\ over.IsXPFinished = TRUE
      /\ over.TotalCardNum = s.TotalCardNum /\ over.PAI_num = s.PAI_num
      /\ over.currentReader = s.currentReader
  BY FinishEffect
<1>2. NextShuffleSeen(s) \in Nav
  BY FinishType
<1>3. NextShuffleSeen(s) = [over EXCEPT !.working = All(TRUE)]
  BY DEF NextShuffleSeen
<1> HIDE DEF over
<1> QED BY <1>1, <1>2, <1>3 DEF Nav

LEMMA AddEffect ==
    ASSUME NEW s \in Nav, NEW r \in Reader, NEW tile \in Tile, s.PAI_position[r] < MAX_WALL_CARD
    PROVE  LET t == AddOnePaiToCache(s, r, tile) IN
           /\ t \in Nav
           /\ t.PAI_position = [s.PAI_position EXCEPT ![r] = s.PAI_position[r] + 1]
           /\ t.PAI_Cache_dat = [s.PAI_Cache_dat EXCEPT ![r][s.PAI_position[r] + 1] =
                                    ConvertMahjongId2PhoneId(tile)]
           /\ t.RP_num = (s.RP_num + 1) % Byte
           /\ t.TotalCardNum = s.TotalCardNum /\ t.PAI_num = s.PAI_num
           /\ t.working = s.working /\ t.phone_pais = s.phone_pais /\ t.pai_color = s.pai_color
           /\ t.is_handled = s.is_handled
           /\ t.IsXPFinished = s.IsXPFinished /\ t.currentReader = s.currentReader
<1>1. AddOnePaiToCache(s, r, tile) \in Nav
  BY AddType
<1> QED BY <1>1 DEF AddOnePaiToCache, Nav

LEMMA CountFailureEffect ==
    ASSUME NEW s \in Nav, NEW r \in Reader
    PROVE  LET t == CountFailure(s, r) IN
           /\ t \in Nav
           /\ \A q \in Reader :
                \/ t.PAI_position[q] = s.PAI_position[q] /\ t.working[q] = s.working[q]
                \/ s.working[q] = FALSE /\ t.PAI_position[q] = 0 /\ t.working[q] = TRUE
           /\ t.RP_num = s.RP_num /\ t.TotalCardNum = s.TotalCardNum /\ t.PAI_num = s.PAI_num
           /\ t.PAI_Cache_dat = s.PAI_Cache_dat /\ t.is_handled = s.is_handled
           /\ t.phone_pais = s.phone_pais /\ t.pai_color = s.pai_color
           /\ t.IsXPFinished = s.IsXPFinished /\ t.currentReader = s.currentReader
<1> DEFINE err == IF s.PAI_err[r] > ErrLimit THEN s.PAI_err[r] ELSE s.PAI_err[r] + 1
<1>1. CountFailure(s, r) \in Nav
  BY CountFailureType
<1>2. \/ CountFailure(s, r) = [s EXCEPT !.PAI_err[r] = err]
      \/ /\ ~s.working[r]
         /\ CountFailure(s, r) = [s EXCEPT !.PAI_position[r] = 0, !.working[r] = TRUE, !.PAI_err[r] = 0]
  BY DEF CountFailure
<1> HIDE DEF err
<1>3. s.working[r] \in BOOLEAN
  BY DEF Nav
<1>4. CASE CountFailure(s, r) = [s EXCEPT !.PAI_err[r] = err]
  BY <1>1, <1>4 DEF Nav
<1>5. CASE /\ ~s.working[r]
           /\ CountFailure(s, r) = [s EXCEPT !.PAI_position[r] = 0, !.working[r] = TRUE, !.PAI_err[r] = 0]
  <2> DEFINE pos  == [s.PAI_position EXCEPT ![r] = 0]
             work == [s.working EXCEPT ![r] = TRUE]
             errs == [s.PAI_err EXCEPT ![r] = 0]
  <2>1. CountFailure(s, r) = [s EXCEPT !.PAI_position = pos, !.working = work, !.PAI_err = errs]
    BY <1>5
  <2>2. /\ pos[r] = 0 /\ work[r] = TRUE
        /\ \A q \in Reader \ {r} : pos[q] = s.PAI_position[q] /\ work[q] = s.working[q]
    BY DEF Nav
  <2> HIDE DEF pos, work, errs
  <2>3. s.working[r] = FALSE
    BY <1>3, <1>5
  <2> QED BY <1>1, <2>1, <2>2, <2>3 DEF Nav
<1> QED BY <1>2, <1>4, <1>5

LEMMA SendEffect ==
    ASSUME NEW s \in Nav
    PROVE  LET t == SendGroupTileToPhone(s) IN
           /\ t \in Nav
           /\ \A r \in Reader : \/ /\ t.phone_pais[r] = s.phone_pais[r]
                                   /\ t.is_handled[r] = s.is_handled[r]
                                \/ /\ t.phone_pais[r] = Wall(s, r) /\ t.is_handled[r] = TRUE
                                   /\ Complete(s, r)
           /\ t.RP_num = s.RP_num /\ t.TotalCardNum = s.TotalCardNum /\ t.PAI_num = s.PAI_num
           /\ t.PAI_position = s.PAI_position /\ t.PAI_Cache_dat = s.PAI_Cache_dat
           /\ t.working = s.working /\ t.pai_color = s.pai_color
           /\ t.IsXPFinished = s.IsXPFinished /\ t.currentReader = s.currentReader
<1> DEFINE ready == {r \in Reader : ~s.is_handled[r] /\ Complete(s, r)}
           missing == \E r \in Reader \ {kGroup} : ~s.is_handled[r] /\ ~Complete(s, r)
           R == IF missing THEN ready \ {kGroup} ELSE ready
           t == HandWalls(s, R)
<1>1. R \in SUBSET Reader /\ \A r \in R : Complete(s, r)
  OBVIOUS
<1>2. SendGroupTileToPhone(s) = t
  BY DEF SendGroupTileToPhone
<1> HIDE DEF R
<1>3. /\ t \in Nav
      /\ \A r \in Reader : /\ t.phone_pais[r] = IF r \in R THEN Wall(s, r) ELSE s.phone_pais[r]
                           /\ t.is_handled[r] = IF r \in R THEN TRUE ELSE s.is_handled[r]
      /\ t.RP_num = s.RP_num /\ t.TotalCardNum = s.TotalCardNum /\ t.PAI_num = s.PAI_num
      /\ t.PAI_position = s.PAI_position /\ t.PAI_Cache_dat = s.PAI_Cache_dat
      /\ t.working = s.working /\ t.pai_color = s.pai_color
      /\ t.IsXPFinished = s.IsXPFinished /\ t.currentReader = s.currentReader
  BY <1>1, HandEffect
<1> HIDE DEF t
<1> QED BY <1>1, <1>2, <1>3

\* Reader_CheckReceived is CountFailure if there was no answer, then
\* SendGroupTileToPhone, then the choice of the next reader.
LEMMA CheckReceivedEffect ==
    ASSUME NEW s \in Nav, NEW rxOk \in BOOLEAN
    PROVE  \E counted \in {s, CountFailure(s, s.currentReader)} :
             LET sent == SendGroupTileToPhone(counted)
                 t    == Reader_CheckReceived(s, rxOk)
             IN  /\ counted \in Nav /\ sent \in Nav /\ t \in Nav
                 /\ t.RP_num = sent.RP_num /\ t.TotalCardNum = sent.TotalCardNum
                 /\ t.PAI_num = sent.PAI_num
                 /\ t.PAI_position = sent.PAI_position /\ t.PAI_Cache_dat = sent.PAI_Cache_dat
                 /\ t.is_handled = sent.is_handled /\ t.phone_pais = sent.phone_pais
                 /\ t.working = sent.working /\ t.pai_color = sent.pai_color
                 /\ t.IsXPFinished = sent.IsXPFinished
                 /\ t.currentReader = NextReader(sent)
<1> DEFINE counted == IF rxOk THEN s ELSE CountFailure(s, s.currentReader)
           sent == SendGroupTileToPhone(counted)
           t == Reader_CheckReceived(s, rxOk)
<1>1. s.currentReader \in Reader
  BY DEF Nav
<1>2. counted \in Nav /\ counted \in {s, CountFailure(s, s.currentReader)}
  BY <1>1, CountFailureType
<1>3. sent \in Nav /\ t \in Nav
  BY <1>2, SendType, CheckReceivedType
<1>4. t = [sent EXCEPT !.RP_mode = "kRequestReader", !.currentReader = NextReader(sent)]
  BY DEF Reader_CheckReceived
<1> HIDE DEF sent, t
<1>5. /\ t.RP_num = sent.RP_num /\ t.TotalCardNum = sent.TotalCardNum
      /\ t.PAI_num = sent.PAI_num
      /\ t.PAI_position = sent.PAI_position /\ t.PAI_Cache_dat = sent.PAI_Cache_dat
      /\ t.is_handled = sent.is_handled /\ t.phone_pais = sent.phone_pais
      /\ t.working = sent.working /\ t.pai_color = sent.pai_color
      /\ t.IsXPFinished = sent.IsXPFinished
      /\ t.currentReader = NextReader(sent)
  BY <1>3, <1>4 DEF Nav
<1> QED BY <1>2, <1>3, <1>5 DEF sent, t

--------------------------------------------------------------------------------
(* Between rounds the readers' records are clean, whatever the readers answer  *)
(* and however late: a poll is open in an open round only, and each way to end *)
(* a round clears everything.                                                  *)

Clean(s) == s.IsXPFinished = TRUE =>
              s.RP_num = 0 /\ \A r \in Reader : s.PAI_position[r] = 0 /\ s.is_handled[r] = FALSE

PollInRound == nav.RP_mode # "kRequestReader" => nav.IsXPFinished = FALSE

CleanInv == TypeInv /\ PollInRound /\ Clean(nav)

\* A complete wall has a tile: what NoEmptyWall is needed for.
NotEmpty(s) == \A r \in Reader : s.PAI_num[r] > 0

LEMMA FinishClean ==
    ASSUME NEW s \in Nav
    PROVE  Clean(Reader_FinishXP(s)) /\ Clean(NextShuffleSeen(s))
BY FinishEffect, NextShuffleEffect DEF Clean

LEMMA AttempClean ==
    ASSUME NEW s \in Nav, NEW m \in AnyAnswer, s.IsXPFinished = FALSE,
           s.PAI_position[m.reader] < MAX_WALL_CARD
    PROVE  Clean(AttempAddPaiToCacheEx(s, m))
<1>1. m.reader \in Reader /\ m.tile \in Tile \cup {NoTile}
  BY DEF AnyAnswer, AnswersTo, Request
<1>2. CASE Acceptable(s, m)
  <2> DEFINE t == AddOnePaiToCache(s, m.reader, m.tile)
  <2>1. m.tile \in Tile
    BY <1>1, <1>2 DEF Acceptable
  <2>2. t \in Nav /\ t.IsXPFinished = FALSE
    BY <1>1, <2>1, AddEffect
  <2>3. AttempAddPaiToCacheEx(s, m) =
          [t EXCEPT !.pai_color = IF s.RP_num = 0 THEN m.tile[1] ELSE s.pai_color]
    BY <1>2 DEF AttempAddPaiToCacheEx
  <2> HIDE DEF t
  <2> QED BY <2>2, <2>3 DEF Clean, Nav
<1>3. CASE ~Acceptable(s, m)
  BY <1>3, FinishClean DEF AttempAddPaiToCacheEx, Clean
<1> QED BY <1>2, <1>3

LEMMA HandleClean ==
    ASSUME NEW s \in Nav, NEW m \in AnyAnswer, s.IsXPFinished = FALSE,
           s.PAI_position[m.reader] < MAX_WALL_CARD
    PROVE  Clean(Reader_HandleInsideMessage(s, m))
<1>1. m.reader \in Reader
  BY DEF AnyAnswer, AnswersTo, Request
<1> DEFINE t == ClearReaderData(s, {m.reader})
<1>2. t \in Nav /\ t.IsXPFinished = FALSE
  <2>1. {m.reader} \in SUBSET Reader
    BY <1>1
  <2> QED BY <2>1, ClearEffect
<1> HIDE DEF t
<1>3. Clean([t EXCEPT !.working[m.reader] = TRUE])
  BY <1>2 DEF Clean, Nav
<1> QED BY <1>3, AttempClean DEF Reader_HandleInsideMessage, t

LEMMA CheckReceivedClean ==
    ASSUME NEW s \in Nav, NotEmpty(s), NEW rxOk \in BOOLEAN, Clean(s)
    PROVE  Clean(Reader_CheckReceived(s, rxOk))
<1> DEFINE t == Reader_CheckReceived(s, rxOk)
<1>1. PICK counted \in {s, CountFailure(s, s.currentReader)} :
        LET sent == SendGroupTileToPhone(counted)
        IN  /\ counted \in Nav /\ sent \in Nav
            /\ t.RP_num = sent.RP_num /\ t.PAI_position = sent.PAI_position
            /\ t.is_handled = sent.is_handled /\ t.IsXPFinished = sent.IsXPFinished
  BY CheckReceivedEffect
<1>2. counted \in Nav
  BY <1>1
<1>3. s.currentReader \in Reader
  BY DEF Nav
<1>4. Clean(counted) /\ NotEmpty(counted)
  <2> DEFINE f == CountFailure(s, s.currentReader)
  <2>1. /\ f.RP_num = s.RP_num /\ f.is_handled = s.is_handled /\ f.IsXPFinished = s.IsXPFinished
        /\ \A r \in Reader : f.PAI_position[r] = s.PAI_position[r] \/ f.PAI_position[r] = 0
        /\ f.PAI_num = s.PAI_num
    BY <1>3, CountFailureEffect
  <2> HIDE DEF f
  <2>2. Clean(f) /\ NotEmpty(f)
    BY <2>1 DEF Clean, NotEmpty
  <2> QED BY <1>1, <2>2 DEF f
<1>5. ASSUME counted.IsXPFinished = TRUE, NEW r \in Reader PROVE ~Complete(counted, r)
  <2>1. counted.PAI_position[r] = 0
    BY <1>4, <1>5 DEF Clean
  <2>2. counted.PAI_num[r] \in Int /\ counted.PAI_num[r] > 0
    BY <1>2, <1>4, ReadersAssumption DEF Nav, NotEmpty
  <2> QED BY <2>1, <2>2 DEF Complete
<1>6. Clean(SendGroupTileToPhone(counted))
  BY <1>2, <1>4, <1>5, SendEffect DEF Clean
<1> QED BY <1>1, <1>6 DEF Clean

LEMMA EndClean ==
    ASSUME NEW s \in Nav, Clean(s)
    PROVE  Clean(EndComplete(s)) /\ Clean(Reader_CheckOverTime(s))
BY FinishClean DEF EndComplete, Reader_CheckOverTime

\* An answer changes no wall size.
LEMMA HandleSizes ==
    ASSUME NEW s \in Nav, NEW m \in AnyAnswer, s.PAI_position[m.reader] < MAX_WALL_CARD
    PROVE  Reader_HandleInsideMessage(s, m).PAI_num = s.PAI_num
<1>1. m.reader \in Reader /\ m.tile \in Tile \cup {NoTile}
  BY DEF AnyAnswer, AnswersTo, Request
<1>2. AttempAddPaiToCacheEx(s, m).PAI_num = s.PAI_num
  <2>1. CASE Acceptable(s, m)
    <3> DEFINE t == AddOnePaiToCache(s, m.reader, m.tile)
    <3>1. m.tile \in Tile
      BY <1>1, <2>1 DEF Acceptable
    <3>2. t \in Nav /\ t.PAI_num = s.PAI_num
      BY <1>1, <3>1, AddEffect
    <3>3. AttempAddPaiToCacheEx(s, m) =
            [t EXCEPT !.pai_color = IF s.RP_num = 0 THEN m.tile[1] ELSE s.pai_color]
      BY <2>1 DEF AttempAddPaiToCacheEx
    <3> HIDE DEF t
    <3> QED BY <3>2, <3>3 DEF Nav
  <2>2. CASE ~Acceptable(s, m)
    BY <2>2, NextShuffleEffect DEF AttempAddPaiToCacheEx
  <2> QED BY <2>1, <2>2
<1>3. [ClearReaderData(s, {m.reader}) EXCEPT !.working[m.reader] = TRUE].PAI_num = s.PAI_num
  <2> DEFINE t == ClearReaderData(s, {m.reader})
  <2>1. t \in Nav /\ t.PAI_num = s.PAI_num
    <3>1. {m.reader} \in SUBSET Reader
      BY <1>1
    <3> QED BY <3>1, ClearEffect
  <2> HIDE DEF t
  <2>2. [t EXCEPT !.working[m.reader] = TRUE].PAI_num = s.PAI_num
    BY <2>1 DEF Nav
  <2> QED BY <2>2 DEF t
<1> QED BY <1>2, <1>3 DEF Reader_HandleInsideMessage

\* A poll is answered or times out: the step taken apart for the invariants.
LEMMA PollSteps ==
    ASSUME TypeInv, ReaderAnswers \/ PollOverTime
    PROVE  /\ nav.RP_mode = "kWaitReaderAck"
           /\ nav.PAI_position[nav.currentReader] < MAX_WALL_CARD
           /\ \E handled \in Nav, rxOk \in BOOLEAN :
                /\ handled.PAI_num = nav.PAI_num
                /\ \/ handled = nav
                   \/ \E m \in AnyAnswer :
                        /\ m.reader = nav.currentReader
                        /\ [reader |-> m.reader, command |-> m.command] \in air
                        /\ handled = Reader_HandleInsideMessage(nav, m)
                /\ LET checked == Reader_CheckReceived(handled, rxOk)
                   IN  /\ checked \in Nav
                       /\ nav' = EndComplete(checked) \/ nav' = Reader_CheckOverTime(checked)
<1>1. nav \in Nav /\ air \subseteq Request
  BY DEF TypeInv, TypeOK
<1>2. nav.RP_mode = "kWaitReaderAck"
  BY DEF ReaderAnswers, Reader_DispatchMessage, PollOverTime
<1>3. nav.PAI_position[nav.currentReader] < MAX_WALL_CARD
  BY <1>2 DEF TypeInv, Room
<1>4. CASE ReaderAnswers
  <2>1. PICK req \in air : \E m \in AnswersTo(req) : Reader_DispatchMessage(m)
    BY <1>4 DEF ReaderAnswers
  <2>2. PICK m \in AnswersTo(req) : Reader_DispatchMessage(m)
    BY <2>1
  <2>3. m \in AnyAnswer
    BY <1>1, <2>1, <2>2 DEF AnyAnswer
  <2>4. [reader |-> m.reader, command |-> m.command] = req
    BY <1>1, <2>1, <2>2 DEF AnswersTo, Request
  <2>5. Handled(nav, m) \in Nav
    BY <1>1, <1>3, <2>3, HandleType DEF Handled
  <2>6. nav' = EndComplete(Reader_CheckReceived(Handled(nav, m), m.reader = nav.currentReader))
    BY <2>2 DEF Reader_DispatchMessage
  <2>7. \/ Handled(nav, m) = nav
        \/ m.reader = nav.currentReader /\ Handled(nav, m) = Reader_HandleInsideMessage(nav, m)
    BY DEF Handled
  <2>8. Reader_CheckReceived(Handled(nav, m), m.reader = nav.currentReader) \in Nav
    BY <2>5, CheckReceivedType
  <2>9. Handled(nav, m).PAI_num = nav.PAI_num
    BY <1>1, <1>3, <2>3, HandleSizes DEF Handled
  <2> HIDE DEF Handled
  <2> QED BY <1>2, <1>3, <2>1, <2>3, <2>4, <2>5, <2>6, <2>7, <2>8, <2>9
<1>5. CASE PollOverTime
  <2>1. nav' = Reader_CheckOverTime(Reader_CheckReceived(nav, FALSE))
    BY <1>5 DEF PollOverTime
  <2>2. Reader_CheckReceived(nav, FALSE) \in Nav
    BY <1>1, CheckReceivedType
  <2> QED BY <1>1, <1>2, <1>3, <2>1, <2>2
<1> QED BY <1>4, <1>5

LEMMA NextClean == CleanInv /\ NoEmptyWall /\ WallsFit' /\ [Next]_vars => CleanInv'
<1> SUFFICES ASSUME CleanInv, NoEmptyWall, WallsFit', [Next]_vars PROVE CleanInv'
  OBVIOUS
<1>1. TypeInv /\ nav \in Nav
  BY DEF CleanInv, TypeInv, TypeOK
<1>2. TypeInv' /\ nav' \in Nav
  BY <1>1, NextType DEF TypeInv, TypeOK
<1>3. CASE NewRound
  <2>0. ClearReaderData(nav, Reader) \in Nav
    BY <1>1, ClearType
  <2>1. ClearReaderData(nav, Reader).RP_mode = "kRequestReader"
    BY <1>1, <1>3 DEF ClearReaderData, Nav, NewRound
  <2>2. nav'.IsXPFinished = FALSE /\ nav'.RP_mode = "kRequestReader"
    BY <1>3, <2>0, <2>1 DEF NewRound, Nav
  <2> QED BY <1>2, <2>2 DEF CleanInv, Clean, PollInRound
<1>4. CASE Reader_ReadInside \/ TxActive \/ TxFinish \/ Tick \/ UNCHANGED vars
           \/ \E counts \in [Reader -> WallCounts] : Phone_SetPaiCount(counts)
  <2>1. /\ nav'.IsXPFinished = nav.IsXPFinished /\ nav'.RP_num = nav.RP_num
        /\ nav'.PAI_position = nav.PAI_position /\ nav'.is_handled = nav.is_handled
    BY <1>1, <1>4 DEF Reader_ReadInside, TxActive, TxFinish, Tick, Phone_SetPaiCount, vars, Nav
  <2>2. nav'.RP_mode = nav.RP_mode \/ nav.IsXPFinished = FALSE
    BY <1>1, <1>4 DEF CleanInv, PollInRound, Reader_ReadInside, TxActive, TxFinish, Tick,
                      Phone_SetPaiCount, vars, Nav
  <2> QED BY <1>2, <2>1, <2>2 DEF CleanInv, Clean, PollInRound
<1>5. CASE ReaderAnswers \/ PollOverTime
  <2>1. PICK handled \in Nav, rxOk \in BOOLEAN :
          /\ handled.PAI_num = nav.PAI_num
          /\ \/ handled = nav
             \/ \E m \in AnyAnswer : /\ m.reader = nav.currentReader
                                     /\ handled = Reader_HandleInsideMessage(nav, m)
          /\ LET checked == Reader_CheckReceived(handled, rxOk)
             IN  /\ checked \in Nav
                 /\ nav' = EndComplete(checked) \/ nav' = Reader_CheckOverTime(checked)
    BY <1>1, <1>5, PollSteps
  <2>2. nav.IsXPFinished = FALSE /\ nav.PAI_position[nav.currentReader] < MAX_WALL_CARD
    BY <1>1, <1>5, PollSteps DEF CleanInv, PollInRound
  <2>3. Clean(handled)
    BY <1>1, <2>1, <2>2, HandleClean DEF CleanInv
  <2>4. Clean(Reader_CheckReceived(handled, rxOk))
    BY <2>1, <2>3, CheckReceivedClean DEF NoEmptyWall, NotEmpty
  <2>5. Clean(nav')
    BY <2>1, <2>4, EndClean
  <2>6. nav'.RP_mode = "kRequestReader"
    BY <2>1, CheckReceivedMode, FinishMode DEF EndComplete, Reader_CheckOverTime
  <2> QED BY <1>2, <2>5, <2>6 DEF CleanInv, PollInRound, Clean
<1> QED BY <1>3, <1>4, <1>5 DEF Next, LoopTurn

\* Nothing of a finished round is left in the records, however the readers behave, as
\* long as the phone sets no wall empty or larger than a cache.
THEOREM BetweenRounds == Spec /\ []WallsFit /\ []NoEmptyWall => []CleanBetweenRounds
<1>1. Init => CleanInv
  <2> SUFFICES ASSUME Init PROVE CleanInv
    OBVIOUS
  <2>1. PICK counts : nav = NavigatorInit(counts)
    BY DEF Init
  <2>2. /\ nav.RP_num = 0 /\ nav.RP_mode = "kRequestReader"
        /\ \A r \in Reader : nav.PAI_position[r] = 0 /\ nav.is_handled[r] = FALSE
    BY <2>1 DEF NavigatorInit, All
  <2> QED BY <2>2, InitType DEF CleanInv, Clean, PollInRound
<1>2. CleanInv => CleanBetweenRounds
  <2> SUFFICES ASSUME CleanInv, nav.IsXPFinished PROVE CleanBetweenRounds
    BY DEF CleanBetweenRounds
  <2>1. nav.IsXPFinished = TRUE
    BY DEF CleanInv, TypeInv, TypeOK, Nav
  <2> QED BY <2>1 DEF CleanInv, Clean, CleanBetweenRounds
<1> QED BY <1>1, <1>2, NextClean, PTL DEF Spec

--------------------------------------------------------------------------------
(* Counting: the places below the heights of the walls.                        *)

LEMMA NumTilesZero ==
    ASSUME NEW f \in [Reader -> 0 .. MAX_WALL_CARD]
    PROVE  NumTiles(f) = 0 <=> \A r \in Reader : f[r] = 0
<1>1. IsFiniteSet(Places(f))
  BY NumTilesType
<1>2. NumTiles(f) = 0 <=> Places(f) = {}
  BY <1>1, FS_EmptySet DEF NumTiles
<1>3. ASSUME NEW r \in Reader, f[r] # 0 PROVE Places(f) # {}
  <2>1. <<r, 1>> \in Reader \X Place /\ 1 <= f[r]
    BY <1>3, ReadersAssumption DEF Place
  <2> QED BY <2>1, PlacesAre
<1>4. ASSUME \A r \in Reader : f[r] = 0 PROVE Places(f) = {}
  BY <1>4 DEF Places
<1> QED BY <1>2, <1>3, <1>4

LEMMA NumTilesAdd ==
    ASSUME NEW f \in [Reader -> 0 .. MAX_WALL_CARD], NEW r \in Reader, f[r] < MAX_WALL_CARD
    PROVE  NumTiles([f EXCEPT ![r] = f[r] + 1]) = NumTiles(f) + 1
<1> DEFINE g == [f EXCEPT ![r] = f[r] + 1]
           new == <<r, f[r] + 1>>
<1>1. new \in Reader \X Place
  BY ReadersAssumption DEF Place
<1>2. new \notin Places(f)
  BY DEF Places
<1>3. Places(g) = Places(f) \cup {new}
  <2>1. g \in [Reader -> 0 .. MAX_WALL_CARD]
    BY ReadersAssumption
  <2>2. /\ Places(f) = {w \in Reader \X Place : w[2] <= f[w[1]]}
        /\ Places(g) = {w \in Reader \X Place : w[2] <= g[w[1]]}
    BY <2>1, PlacesAre
  <2>3. \A q \in Reader : f[q] \in Int /\ g[q] = IF q = r THEN f[r] + 1 ELSE f[q]
    BY ReadersAssumption
  <2>4. Place \subseteq Int
    BY DEF Place
  <2> HIDE DEF g, new
  <2>5. ASSUME NEW q \in Reader, NEW p \in Place
        PROVE  p <= g[q] <=> p <= f[q] \/ <<q, p>> = new
    BY <2>3, <2>4 DEF new
  <2>6. \A w \in Reader \X Place : w[2] <= g[w[1]] <=> w[2] <= f[w[1]] \/ w = new
    BY <2>5
  <2> QED BY <1>1, <2>2, <2>6
<1>4. IsFiniteSet(Places(f))
  BY NumTilesType
<1> QED BY <1>2, <1>3, <1>4, FS_AddElement DEF NumTiles

LEMMA NumTilesMonotone ==
    ASSUME NEW f \in [Reader -> 0 .. MAX_WALL_CARD], NEW g \in [Reader -> 0 .. MAX_WALL_CARD],
           \A r \in Reader : g[r] <= f[r]
    PROVE  NumTiles(g) <= NumTiles(f)
<1>1. IsFiniteSet(Places(f)) /\ NumTiles(f) \in Nat /\ NumTiles(g) \in Nat
  BY NumTilesType, ReadersAssumption
<1>2. Places(g) \in SUBSET Places(f)
  BY DEF Places
<1> QED BY <1>1, <1>2, FS_Subset DEF NumTiles

LEMMA NumTilesLess ==
    ASSUME NEW f \in [Reader -> 0 .. MAX_WALL_CARD], NEW g \in [Reader -> 0 .. MAX_WALL_CARD],
           NumTiles(f) < NumTiles(g)
    PROVE  \E r \in Reader : f[r] < g[r]
<1> SUFFICES ASSUME \A r \in Reader : g[r] <= f[r] PROVE FALSE
  OBVIOUS
<1>1. NumTiles(f) \in Int /\ NumTiles(g) \in Int
  BY NumTilesType, ReadersAssumption
<1> QED BY <1>1, NumTilesMonotone

--------------------------------------------------------------------------------
(* With readers that answer promptly or not at all, RP_num is exactly the      *)
(* number of tiles read and the tiles of a round are of one deck.  Both need:  *)
(* a reader that has not answered its reset yet has no tile (clearing it then  *)
(* loses none), and a wall handed over is not empty (so the round's first tile *)
(* finds no wall of another deck).                                             *)

Counted(s) == /\ s.RP_num = NumTiles(s.PAI_position)
              /\ \A r \in Reader : s.working[r] = FALSE => s.PAI_position[r] = 0

Deck(s) == \A r \in Reader :
    /\ s.PAI_position[r] = 0 => s.is_handled[r] = FALSE
    /\ \A p \in Place :
         /\ p <= s.PAI_position[r] => s.PAI_Cache_dat[r][p] \in Tile
                                        /\ s.PAI_Cache_dat[r][p][1] = s.pai_color
         /\ s.is_handled[r] = TRUE /\ Sent(s.phone_pais[r])[p] # NoTile
              => Sent(s.phone_pais[r])[p][1] = s.pai_color

Good(s) == Counted(s) /\ Deck(s)

LEMMA EmptyGood ==
    ASSUME NEW s \in Nav, s.RP_num = 0,
           \A r \in Reader : s.PAI_position[r] = 0 /\ s.is_handled[r] = FALSE
    PROVE  Good(s)
<1>1. s.PAI_position \in [Reader -> 0 .. MAX_WALL_CARD]
  BY DEF Nav
<1>2. NumTiles(s.PAI_position) = 0
  BY <1>1, NumTilesZero
<1>3. Deck(s)
  BY DEF Deck, Place
<1> QED BY <1>2, <1>3 DEF Good, Counted

LEMMA FinishGood ==
    ASSUME NEW s \in Nav
    PROVE  Good(Reader_FinishXP(s)) /\ Good(NextShuffleSeen(s))
<1>1. Good(Reader_FinishXP(s))
  <2> DEFINE t == Reader_FinishXP(s)
  <2>1. t \in Nav /\ t.RP_num = 0
        /\ \A r \in Reader : t.PAI_position[r] = 0 /\ t.is_handled[r] = FALSE
    BY FinishEffect
  <2> HIDE DEF t
  <2>2. Good(t)
    BY <2>1, EmptyGood
  <2> QED BY <2>2 DEF t
<1>2. Good(NextShuffleSeen(s))
  <2> DEFINE t == NextShuffleSeen(s)
  <2>1. t \in Nav /\ t.RP_num = 0
        /\ \A r \in Reader : t.PAI_position[r] = 0 /\ t.is_handled[r] = FALSE
    BY NextShuffleEffect
  <2> HIDE DEF t
  <2>2. Good(t)
    BY <2>1, EmptyGood
  <2> QED BY <2>2 DEF t
<1> QED BY <1>1, <1>2

LEMMA AcceptGood ==
    ASSUME NEW s \in Nav, Good(s), NEW m \in AnyAnswer, Acceptable(s, m),
           s.working[m.reader] = TRUE, s.PAI_position[m.reader] < MAX_WALL_CARD
    PROVE  Good(AttempAddPaiToCacheEx(s, m))
<1> DEFINE r == m.reader
           t == AddOnePaiToCache(s, r, m.tile)
           colour == IF s.RP_num = 0 THEN m.tile[1] ELSE s.pai_color
           u == [t EXCEPT !.pai_color = colour]
           tile == ConvertMahjongId2PhoneId(m.tile)
           next == s.PAI_position[r] + 1
<1>1. r \in Reader /\ m.tile \in Tile
  BY DEF AnyAnswer, AnswersTo, Request, Acceptable
<1>2. AttempAddPaiToCacheEx(s, m) = u
  BY DEF AttempAddPaiToCacheEx
<1>3. /\ t \in Nav
      /\ t.PAI_position = [s.PAI_position EXCEPT ![r] = next]
      /\ t.PAI_Cache_dat = [s.PAI_Cache_dat EXCEPT ![r][next] = tile]
      /\ t.RP_num = (s.RP_num + 1) % Byte
      /\ t.working = s.working /\ t.phone_pais = s.phone_pais
      /\ t.is_handled = s.is_handled
  <2> DEFINE place == m.reader
  <2>1. place \in Reader /\ s.PAI_position[place] < MAX_WALL_CARD /\ m.tile \in Tile
    BY <1>1
  <2> HIDE DEF place
  <2>2. LET v == AddOnePaiToCache(s, place, m.tile) IN
        /\ v \in Nav
        /\ v.PAI_position = [s.PAI_position EXCEPT ![place] = s.PAI_position[place] + 1]
        /\ v.PAI_Cache_dat = [s.PAI_Cache_dat EXCEPT ![place][s.PAI_position[place] + 1] =
                                 ConvertMahjongId2PhoneId(m.tile)]
        /\ v.RP_num = (s.RP_num + 1) % Byte
        /\ v.working = s.working /\ v.phone_pais = s.phone_pais
        /\ v.is_handled = s.is_handled
    BY <2>1, AddEffect
  <2> QED BY <2>2 DEF place
<1>4. tile \in Tile /\ tile[1] = m.tile[1]
  BY <1>1, ConvertType DEF ConvertMahjongId2PhoneId
<1>5. next \in Place
  BY <1>1, ReadersAssumption DEF Nav, Place
<1> HIDE DEF t
<1>6. /\ u.PAI_position = t.PAI_position /\ u.PAI_Cache_dat = t.PAI_Cache_dat
      /\ u.RP_num = t.RP_num /\ u.working = t.working /\ u.phone_pais = t.phone_pais
      /\ u.is_handled = t.is_handled /\ u.pai_color = colour
  BY <1>3 DEF Nav
<1> HIDE DEF u, tile
<1>7. Counted(u)
  <2>1. s.PAI_position \in [Reader -> 0 .. MAX_WALL_CARD] /\ s.working \in [Reader -> BOOLEAN]
    BY DEF Nav
  <2>2. t.PAI_position \in [Reader -> 0 .. MAX_WALL_CARD]
    BY <1>3 DEF Nav
  <2>3. NumTiles(t.PAI_position) = NumTiles(s.PAI_position) + 1
    BY <1>1, <1>3, <2>1, NumTilesAdd
  <2>4. s.RP_num + 1 \in 0 .. Byte - 1
    BY <2>2, <2>3, NumTilesType DEF Good, Counted
  <2>5. u.RP_num = NumTiles(u.PAI_position)
    BY <1>3, <1>6, <2>3, <2>4, ByteAssumption DEF Good, Counted
  <2>6. ASSUME NEW q \in Reader, u.working[q] = FALSE PROVE u.PAI_position[q] = 0
    BY <1>1, <1>3, <1>6, <2>1, <2>6 DEF Good, Counted
  <2> QED BY <2>5, <2>6 DEF Counted
<1>8. Deck(u)
  <2>1. s.RP_num = 0 => \A q \in Reader : s.PAI_position[q] = 0 /\ s.is_handled[q] = FALSE
    <3>1. s.PAI_position \in [Reader -> 0 .. MAX_WALL_CARD]
      BY DEF Nav
    <3>2. s.RP_num = 0 => \A q \in Reader : s.PAI_position[q] = 0
      BY <3>1, NumTilesZero DEF Good, Counted
    <3>3. \A q \in Reader : s.PAI_position[q] = 0 => s.is_handled[q] = FALSE
      BY DEF Good, Deck
    <3> QED BY <3>2, <3>3
  <2>2. s.RP_num # 0 => m.tile[1] = s.pai_color
    BY DEF Acceptable, IsColorChanged
  <2>3. s.PAI_position \in [Reader -> Int] /\ DOMAIN s.PAI_Cache_dat = Reader
        /\ \A q \in Reader : DOMAIN s.PAI_Cache_dat[q] = Place
    BY ReadersAssumption DEF Nav
  <2>4. ASSUME NEW q \in Reader, u.PAI_position[q] = 0 PROVE u.is_handled[q] = FALSE
    <3>1. s.PAI_position[q] = 0
      BY <1>1, <1>3, <1>5, <1>6, <2>3, <2>4 DEF Place
    <3> QED BY <1>3, <1>6, <3>1 DEF Good, Deck
  <2>5. ASSUME NEW q \in Reader, NEW p \in Place, p <= u.PAI_position[q]
        PROVE  u.PAI_Cache_dat[q][p] \in Tile /\ u.PAI_Cache_dat[q][p][1] = u.pai_color
    <3>1. CASE q = r /\ p = next
      BY <1>1, <1>3, <1>4, <1>5, <1>6, <2>2, <2>3, <3>1
    <3>2. CASE ~(q = r /\ p = next)
      <4>1. p <= s.PAI_position[q]
        BY <1>1, <1>3, <1>6, <2>3, <2>5, <3>2 DEF Place
      <4>2. s.RP_num # 0
        <5>1. s.PAI_position[q] # 0
          BY <2>3, <4>1 DEF Place
        <5> QED BY <2>1, <5>1
      <4>3. u.PAI_Cache_dat[q][p] = s.PAI_Cache_dat[q][p]
        BY <1>1, <1>3, <1>6, <2>3, <3>2
      <4> QED BY <1>6, <2>2, <4>1, <4>2, <4>3 DEF Good, Deck
    <3> QED BY <3>1, <3>2
  <2>6. ASSUME NEW q \in Reader, NEW p \in Place, u.is_handled[q] = TRUE,
               Sent(u.phone_pais[q])[p] # NoTile
        PROVE  Sent(u.phone_pais[q])[p][1] = u.pai_color
    <3>1. s.is_handled[q] = TRUE /\ Sent(s.phone_pais[q])[p] # NoTile
      BY <1>3, <1>6, <2>6
    <3>2. s.RP_num # 0
      BY <2>1, <3>1
    <3>3. Sent(s.phone_pais[q])[p][1] = s.pai_color
      BY <3>1 DEF Good, Deck
    <3> QED BY <1>3, <1>6, <2>2, <3>2, <3>3
  <2> QED BY <2>4, <2>5, <2>6 DEF Deck
<1> QED BY <1>2, <1>7, <1>8 DEF Good

LEMMA HandleGood ==
    ASSUME NEW s \in Nav, Good(s), NEW m \in AnyAnswer,
           [reader |-> m.reader, command |-> m.command] = Outstanding(s),
           s.PAI_position[m.reader] < MAX_WALL_CARD
    PROVE  Good(Reader_HandleInsideMessage(s, m))
<1> DEFINE r == m.reader
<1>1. r \in Reader /\ r = s.currentReader /\ s.working[r] \in BOOLEAN
  BY DEF AnyAnswer, AnswersTo, Request, Outstanding, Nav
<1> HIDE DEF r
<1>2. CASE s.working[r] = TRUE
  <2>1. m.command # "kCmdReaderReset"
    BY <1>1, <1>2 DEF Outstanding, r
  <2>2. CASE Acceptable(s, m)
    BY <1>2, <2>1, <2>2, AcceptGood DEF Reader_HandleInsideMessage, r
  <2>3. CASE ~Acceptable(s, m)
    BY <2>1, <2>3, FinishGood DEF Reader_HandleInsideMessage, AttempAddPaiToCacheEx
  <2> QED BY <2>2, <2>3
<1>3. CASE s.working[r] = FALSE
  <2> DEFINE t == ClearReaderData(s, {r})
             u == [t EXCEPT !.working[r] = TRUE]
  <2>1. m.command = "kCmdReaderReset"
    BY <1>1, <1>3 DEF Outstanding, r
  <2>2. {r} \in SUBSET Reader
    BY <1>1
  <2>3. /\ t \in Nav
        /\ \A q \in Reader : /\ t.PAI_position[q] = IF q \in {r} THEN 0 ELSE s.PAI_position[q]
                             /\ t.is_handled[q] = IF q \in {r} THEN FALSE ELSE s.is_handled[q]
                             /\ q \notin {r} => t.PAI_Cache_dat[q] = s.PAI_Cache_dat[q]
        /\ t.RP_num = s.RP_num /\ t.working = s.working
        /\ t.phone_pais = s.phone_pais /\ t.pai_color = s.pai_color
    BY <2>2, ClearEffect
  <2> HIDE DEF t
  <2>4. /\ u.PAI_position = t.PAI_position /\ u.is_handled = t.is_handled
        /\ u.PAI_Cache_dat = t.PAI_Cache_dat /\ u.RP_num = t.RP_num
        /\ u.phone_pais = t.phone_pais /\ u.pai_color = t.pai_color
        /\ \A q \in Reader : q # r => u.working[q] = t.working[q]
        /\ u.working[r] = TRUE
    BY <1>1, <2>3 DEF Nav
  <2> HIDE DEF u
  <2>5. s.PAI_position[r] = 0
    BY <1>1, <1>3 DEF Good, Counted
  <2>6. u.PAI_position = s.PAI_position
    <3>1. /\ t.PAI_position \in [Reader -> 0 .. MAX_WALL_CARD]
          /\ s.PAI_position \in [Reader -> 0 .. MAX_WALL_CARD]
      BY <2>3 DEF Nav
    <3>2. \A q \in Reader : t.PAI_position[q] = s.PAI_position[q]
      BY <2>3, <2>5
    <3> QED BY <2>4, <3>1, <3>2
  <2>7. Counted(u)
    BY <1>1, <2>3, <2>4, <2>5, <2>6 DEF Good, Counted
  <2>8. Deck(u)
    <3>1. \A q \in Reader : /\ u.is_handled[q] = IF q = r THEN FALSE ELSE s.is_handled[q]
                            /\ u.PAI_position[q] = s.PAI_position[q]
      BY <2>3, <2>4, <2>6
    <3>2. ASSUME NEW q \in Reader, NEW p \in Place, p <= u.PAI_position[q]
          PROVE  u.PAI_Cache_dat[q][p] = s.PAI_Cache_dat[q][p]
      <4>1. q # r
        BY <2>5, <2>6, <3>2 DEF Place
      <4> QED BY <2>3, <2>4, <4>1
    <3>3. ASSUME NEW q \in Reader, u.PAI_position[q] = 0 PROVE u.is_handled[q] = FALSE
      BY <3>1, <3>3 DEF Good, Deck
    <3>4. ASSUME NEW q \in Reader, NEW p \in Place, p <= u.PAI_position[q]
          PROVE  u.PAI_Cache_dat[q][p] \in Tile /\ u.PAI_Cache_dat[q][p][1] = u.pai_color
      <4>1. p <= s.PAI_position[q] /\ u.PAI_Cache_dat[q][p] = s.PAI_Cache_dat[q][p]
        BY <3>1, <3>2, <3>4
      <4>2. s.PAI_Cache_dat[q][p] \in Tile /\ s.PAI_Cache_dat[q][p][1] = s.pai_color
        BY <4>1 DEF Good, Deck
      <4> QED BY <2>3, <2>4, <4>1, <4>2
    <3>5. ASSUME NEW q \in Reader, NEW p \in Place, u.is_handled[q] = TRUE,
                 Sent(u.phone_pais[q])[p] # NoTile
          PROVE  Sent(u.phone_pais[q])[p][1] = u.pai_color
      <4>1. s.is_handled[q] = TRUE /\ Sent(s.phone_pais[q])[p] # NoTile
        BY <2>3, <2>4, <3>1, <3>5
      <4>2. Sent(s.phone_pais[q])[p][1] = s.pai_color
        BY <4>1 DEF Good, Deck
      <4> QED BY <2>3, <2>4, <4>2
    <3> QED BY <3>3, <3>4, <3>5 DEF Deck
  <2>9. Reader_HandleInsideMessage(s, m) = u
    BY <2>1 DEF Reader_HandleInsideMessage, u, t, r
  <2> QED BY <2>7, <2>8, <2>9 DEF Good
<1> QED BY <1>1, <1>2, <1>3

LEMMA CountFailureGood ==
    ASSUME NEW s \in Nav, Good(s), NEW r \in Reader
    PROVE  Good(CountFailure(s, r))
<1> DEFINE t == CountFailure(s, r)
<1>1. /\ t \in Nav
      /\ \A q \in Reader :
           \/ t.PAI_position[q] = s.PAI_position[q] /\ t.working[q] = s.working[q]
           \/ s.working[q] = FALSE /\ t.PAI_position[q] = 0 /\ t.working[q] = TRUE
      /\ t.RP_num = s.RP_num /\ t.PAI_Cache_dat = s.PAI_Cache_dat
      /\ t.is_handled = s.is_handled /\ t.phone_pais = s.phone_pais /\ t.pai_color = s.pai_color
  BY CountFailureEffect
<1> HIDE DEF t
<1>2. t.PAI_position = s.PAI_position
  <2>1. /\ t.PAI_position \in [Reader -> 0 .. MAX_WALL_CARD]
        /\ s.PAI_position \in [Reader -> 0 .. MAX_WALL_CARD]
    BY <1>1 DEF Nav
  <2>2. \A q \in Reader : t.PAI_position[q] = s.PAI_position[q]
    BY <1>1 DEF Good, Counted
  <2> QED BY <2>1, <2>2
<1>3. Counted(t)
  BY <1>1, <1>2 DEF Good, Counted
<1>4. Deck(t)
  BY <1>1, <1>2 DEF Good, Deck
<1> QED BY <1>3, <1>4 DEF Good, t

\* Of a wall that was just handed over, the tiles read are sent, and only they.
LEMMA SentWall ==
    ASSUME NEW s \in Nav, NEW r \in Reader, NEW p \in Place
    PROVE  Sent(Wall(s, r))[p] =
             IF p <= s.PAI_num[r] /\ p <= s.PAI_position[r] THEN s.PAI_Cache_dat[r][p]
                                                            ELSE NoTile
<1>1. p \in Int /\ s.PAI_position[r] \in Int /\ s.PAI_num[r] \in Int
  BY ReadersAssumption DEF Nav, Place
<1>2. Wall(s, r).count = s.PAI_num[r]
  BY DEF Wall
<1>3. CASE p <= s.PAI_position[r]
  <2>1. Wall(s, r).pais[p] = s.PAI_Cache_dat[r][p]
    BY <1>1, <1>3 DEF Wall
  <2> QED BY <1>2, <1>3, <2>1 DEF Sent
<1>4. CASE ~(p <= s.PAI_position[r]) /\ p <= s.PAI_num[r]
  <2>1. Wall(s, r).pais[p] = NoTile
    BY <1>1, <1>4 DEF Wall
  <2> QED BY <1>2, <1>4, <2>1 DEF Sent
<1>5. CASE ~(p <= s.PAI_num[r])
  BY <1>2, <1>5 DEF Sent
<1> QED BY <1>3, <1>4, <1>5

LEMMA SendGood ==
    ASSUME NEW s \in Nav, NotEmpty(s), Good(s)
    PROVE  Good(SendGroupTileToPhone(s))
<1> DEFINE t == SendGroupTileToPhone(s)
<1>1. /\ t \in Nav
      /\ \A r \in Reader : \/ /\ t.phone_pais[r] = s.phone_pais[r]
                              /\ t.is_handled[r] = s.is_handled[r]
                           \/ /\ t.phone_pais[r] = Wall(s, r) /\ t.is_handled[r] = TRUE
                              /\ Complete(s, r)
      /\ t.RP_num = s.RP_num /\ t.PAI_position = s.PAI_position
      /\ t.PAI_Cache_dat = s.PAI_Cache_dat /\ t.working = s.working /\ t.pai_color = s.pai_color
  BY SendEffect
<1> HIDE DEF t
<1>2. Counted(t)
  BY <1>1 DEF Good, Counted
<1>3. \A r \in Reader : Complete(s, r) => s.PAI_position[r] > 0
  BY ReadersAssumption DEF Complete, Nav, NotEmpty
<1>4. ASSUME NEW r \in Reader, NEW p \in Place, t.is_handled[r] = TRUE,
             Sent(t.phone_pais[r])[p] # NoTile
      PROVE  Sent(t.phone_pais[r])[p][1] = t.pai_color
  <2>1. CASE t.phone_pais[r] = s.phone_pais[r] /\ t.is_handled[r] = s.is_handled[r]
    BY <1>1, <1>4, <2>1 DEF Good, Deck
  <2>2. CASE t.phone_pais[r] = Wall(s, r)
    <3>1. Sent(t.phone_pais[r])[p] \in {s.PAI_Cache_dat[r][p], NoTile} /\
          (Sent(t.phone_pais[r])[p] # NoTile => p <= s.PAI_position[r])
      BY <2>2, SentWall
    <3> QED BY <1>1, <1>4, <3>1 DEF Good, Deck
  <2> QED BY <1>1, <2>1, <2>2
<1>5. ASSUME NEW r \in Reader, t.PAI_position[r] = 0 PROVE t.is_handled[r] = FALSE
  <2>1. ~Complete(s, r)
    BY <1>1, <1>3, <1>5
  <2> QED BY <1>1, <1>5, <2>1 DEF Good, Deck
<1>6. ASSUME NEW r \in Reader, NEW p \in Place, p <= t.PAI_position[r]
      PROVE  t.PAI_Cache_dat[r][p] \in Tile /\ t.PAI_Cache_dat[r][p][1] = t.pai_color
  BY <1>1, <1>6 DEF Good, Deck
<1>7. Deck(t)
  BY <1>4, <1>5, <1>6 DEF Deck
<1> QED BY <1>2, <1>7 DEF Good, t

LEMMA CheckReceivedGood ==
    ASSUME NEW s \in Nav, NotEmpty(s), Good(s), NEW rxOk \in BOOLEAN
    PROVE  Good(Reader_CheckReceived(s, rxOk))
<1> DEFINE t == Reader_CheckReceived(s, rxOk)
<1>1. PICK counted \in {s, CountFailure(s, s.currentReader)} :
        LET sent == SendGroupTileToPhone(counted)
        IN  /\ counted \in Nav /\ sent \in Nav
            /\ t.RP_num = sent.RP_num /\ t.PAI_position = sent.PAI_position
            /\ t.PAI_Cache_dat = sent.PAI_Cache_dat
            /\ t.is_handled = sent.is_handled /\ t.phone_pais = sent.phone_pais
            /\ t.working = sent.working /\ t.pai_color = sent.pai_color
  BY CheckReceivedEffect
<1>2. s.currentReader \in Reader
  BY DEF Nav
<1>3. counted \in Nav /\ Good(counted) /\ NotEmpty(counted)
  <2>1. CountFailure(s, s.currentReader).PAI_num = s.PAI_num
    BY <1>2, CountFailureEffect
  <2> QED BY <1>1, <1>2, <2>1, CountFailureGood DEF NotEmpty
<1>4. Good(SendGroupTileToPhone(counted))
  BY <1>3, SendGood
<1> HIDE DEF t
<1>5. Counted(t)
  BY <1>1, <1>4 DEF Good, Counted
<1>6. Deck(t)
  BY <1>1, <1>4 DEF Good, Deck
<1> QED BY <1>5, <1>6 DEF Good, t

LEMMA EndGood ==
    ASSUME NEW s \in Nav, Good(s)
    PROVE  Good(EndComplete(s)) /\ Good(Reader_CheckOverTime(s))
BY FinishGood DEF EndComplete, Reader_CheckOverTime

\* The only answer on its way is the one the current poll waits for.
OwnAnswer == \A req \in air : nav.RP_mode = "kWaitReaderAck" /\ req = Outstanding(nav)

PromptInv == CleanInv /\ OwnAnswer /\ Good(nav)

LEMMA InitGood == Init => PromptInv
<1> SUFFICES ASSUME Init PROVE PromptInv
  OBVIOUS
<1>1. PICK counts : nav = NavigatorInit(counts)
  BY DEF Init
<1>2. /\ nav.RP_num = 0 /\ nav.RP_mode = "kRequestReader"
      /\ \A r \in Reader : nav.PAI_position[r] = 0 /\ nav.is_handled[r] = FALSE
  BY <1>1 DEF NavigatorInit, All
<1>3. TypeInv /\ nav \in Nav
  BY InitType DEF TypeInv, TypeOK
<1>4. CleanInv
  BY <1>2, <1>3 DEF CleanInv, Clean, PollInRound
<1>5. Good(nav)
  BY <1>2, <1>3, EmptyGood
<1> QED BY <1>4, <1>5 DEF PromptInv, OwnAnswer, Init

LEMMA NextGood ==
    ASSUME ~LateReplies
    PROVE  PromptInv /\ NoEmptyWall /\ WallsFit' /\ [Next]_vars => PromptInv'
<1> SUFFICES ASSUME PromptInv, NoEmptyWall, WallsFit', [Next]_vars PROVE PromptInv'
  OBVIOUS
<1>1. TypeInv /\ nav \in Nav /\ Good(nav) /\ CleanInv
  BY DEF PromptInv, CleanInv, TypeInv, TypeOK
<1>2. CleanInv' /\ nav' \in Nav
  BY <1>1, NextClean DEF CleanInv, TypeInv, TypeOK
<1>3. CASE NewRound
  <2> DEFINE t == ClearReaderData(nav, Reader)
  <2>1. nav.RP_num = 0 /\ air = {}
    BY <1>1, <1>3 DEF NewRound, PromptInv, OwnAnswer, CleanInv, Clean
  <2>2. /\ t \in Nav /\ t.RP_num = nav.RP_num
        /\ \A r \in Reader : t.PAI_position[r] = 0 /\ t.is_handled[r] = FALSE
    <3>1. Reader \in SUBSET Reader
      OBVIOUS
    <3> QED BY <1>1, <3>1, ClearEffect
  <2>3. nav' = [t EXCEPT !.IsXPFinished = FALSE, !.RP_ovtimer = 0] /\ air' = air
    BY <1>3 DEF NewRound
  <2> HIDE DEF t
  <2>4. /\ nav'.RP_num = 0
        /\ \A r \in Reader : nav'.PAI_position[r] = 0 /\ nav'.is_handled[r] = FALSE
    BY <2>1, <2>2, <2>3 DEF Nav
  <2>5. Good(nav')
    BY <1>2, <2>4, EmptyGood
  <2> QED BY <1>2, <2>1, <2>3, <2>5 DEF PromptInv, OwnAnswer, Good, Counted, Deck
<1>4. CASE Reader_ReadInside \/ TxActive \/ TxFinish \/ Tick \/ UNCHANGED vars
           \/ \E counts \in [Reader -> WallCounts] : Phone_SetPaiCount(counts)
  <2>1. /\ nav'.RP_num = nav.RP_num /\ nav'.PAI_position = nav.PAI_position
        /\ nav'.PAI_Cache_dat = nav.PAI_Cache_dat /\ nav'.is_handled = nav.is_handled
        /\ nav'.phone_pais = nav.phone_pais /\ nav'.working = nav.working
        /\ nav'.pai_color = nav.pai_color /\ nav'.currentReader = nav.currentReader
    BY <1>1, <1>4 DEF Reader_ReadInside, TxActive, TxFinish, Tick, Phone_SetPaiCount, vars, Nav
  <2>2. Counted(nav')
    BY <1>1, <2>1 DEF Good, Counted
  <2>3. Deck(nav')
    BY <1>1, <2>1 DEF Good, Deck
  <2>4. Outstanding(nav') = Outstanding(nav)
    BY <2>1 DEF Outstanding
  <2>5. CASE Reader_ReadInside \/ TxActive
    <3>1. air' = {}
      BY <2>5 DEF Reader_ReadInside, TxActive, PromptInv, OwnAnswer
    <3> QED BY <1>2, <2>2, <2>3, <3>1 DEF PromptInv, OwnAnswer, Good, Counted, Deck
  <2>6. CASE TxFinish
    <3>1. nav'.RP_mode = "kWaitReaderAck"
      BY <1>1, <2>6 DEF TxFinish, Nav
    <3>2. \A req \in air' : req = Outstanding(nav)
      BY <2>6 DEF TxFinish, PromptInv, OwnAnswer
    <3> QED BY <1>2, <2>2, <2>3, <2>4, <3>1, <3>2
            DEF PromptInv, OwnAnswer, Good, Counted, Deck, Outstanding
  <2>7. CASE Tick \/ UNCHANGED vars \/ \E counts \in [Reader -> WallCounts] : Phone_SetPaiCount(counts)
    <3>1. nav'.RP_mode = nav.RP_mode /\ air' = air
      BY <1>1, <2>7 DEF Tick, Phone_SetPaiCount, vars, Nav
    <3> QED BY <1>2, <2>2, <2>3, <2>4, <3>1
            DEF PromptInv, OwnAnswer, Good, Counted, Deck, Outstanding
  <2> QED BY <1>4, <2>5, <2>6, <2>7
<1>5. CASE ReaderAnswers \/ PollOverTime
  <2>1. PICK handled \in Nav, rxOk \in BOOLEAN :
          /\ handled.PAI_num = nav.PAI_num
          /\ \/ handled = nav
             \/ \E m \in AnyAnswer : /\ m.reader = nav.currentReader
                                     /\ [reader |-> m.reader, command |-> m.command] \in air
                                     /\ handled = Reader_HandleInsideMessage(nav, m)
          /\ LET checked == Reader_CheckReceived(handled, rxOk)
             IN  /\ checked \in Nav
                 /\ nav' = EndComplete(checked) \/ nav' = Reader_CheckOverTime(checked)
    BY <1>1, <1>5, PollSteps
  <2>2. nav.PAI_position[nav.currentReader] < MAX_WALL_CARD
    BY <1>1, <1>5, PollSteps
  <2>3. Good(handled)
    BY <1>1, <2>1, <2>2, HandleGood DEF PromptInv, OwnAnswer
  <2>4. Good(Reader_CheckReceived(handled, rxOk))
    BY <2>1, <2>3, CheckReceivedGood DEF NoEmptyWall, NotEmpty
  <2>5. Good(nav')
    BY <2>1, <2>4, EndGood
  <2>6. air' = {}
    <3>1. CASE PollOverTime
      BY <3>1 DEF PollOverTime
    <3>2. CASE ReaderAnswers
      <4>1. PICK req \in air : \E m \in AnswersTo(req) : Reader_DispatchMessage(m)
        BY <3>2 DEF ReaderAnswers
      <4>2. PICK m \in AnswersTo(req) : Reader_DispatchMessage(m)
        BY <4>1
      <4>3. req = [reader |-> m.reader, command |-> m.command]
        BY <1>1, <4>1, <4>2 DEF AnswersTo, Request, TypeInv, TypeOK
      <4> QED BY <4>1, <4>2, <4>3 DEF Reader_DispatchMessage, PromptInv, OwnAnswer
    <3> QED BY <1>5, <3>1, <3>2
  <2> QED BY <1>2, <2>5, <2>6 DEF PromptInv, OwnAnswer, Good, Counted, Deck
<1> QED BY <1>3, <1>4, <1>5 DEF Next, LoopTurn

\* RP_num is the number of tiles read, as long as no reader answers late and the phone
\* sets no wall empty or larger than a cache.
THEOREM CountIsExact ==
    ASSUME ~LateReplies
    PROVE  Spec /\ []WallsFit /\ []NoEmptyWall => []RPNumCounts
<1>1. PromptInv => RPNumCounts
  BY DEF PromptInv, Good, Counted, RPNumCounts
<1>2. PromptInv /\ NoEmptyWall /\ WallsFit' /\ [Next]_vars => PromptInv'
  BY NextGood
<1> QED BY <1>1, <1>2, InitGood, PTL DEF Spec

\* A round never mixes the tiles of two decks, as long as no reader answers late and the
\* phone sets no wall empty or larger than a cache.
THEOREM RoundsDoNotMix ==
    ASSUME ~LateReplies
    PROVE  Spec /\ []WallsFit /\ []NoEmptyWall => []OneDeck
<1>1. PromptInv => OneDeck
  <2> SUFFICES ASSUME PromptInv, NEW r \in Reader, NEW p \in Place
               PROVE  /\ p <= nav.PAI_position[r] => nav.PAI_Cache_dat[r][p][1] = nav.pai_color
                      /\ nav.is_handled[r] /\ Sent(nav.phone_pais[r])[p] # NoTile
                           => Sent(nav.phone_pais[r])[p][1] = nav.pai_color
    BY DEF OneDeck
  <2>1. nav.is_handled[r] \in BOOLEAN
    BY DEF PromptInv, CleanInv, TypeInv, TypeOK, Nav
  <2>2. Deck(nav)
    BY DEF PromptInv, Good
  <2> QED BY <2>1, <2>2 DEF Deck
<1>2. PromptInv /\ NoEmptyWall /\ WallsFit' /\ [Next]_vars => PromptInv'
  BY NextGood
<1> QED BY <1>1, <1>2, InitGood, PTL DEF Spec

--------------------------------------------------------------------------------
(* Polling goes on, however late the readers answer, as long as the wall sizes *)
(* do not change.  RP_num may run ahead of the tiles read, but it meets        *)
(* TotalCardNum one tile at a time, so the round is ended before every wall is *)
(* complete without its being noticed; until then NextReader finds a reader.   *)

Ahead(s) == /\ s.TotalCardNum = NumTiles(s.PAI_num)
            /\ NumTiles(s.PAI_position) <= s.RP_num
            /\ s.RP_num <= s.TotalCardNum

Asking(s) == s.IsXPFinished = FALSE =>
                s.RP_num < s.TotalCardNum /\ ~Complete(s, s.currentReader)

PollingInv == CleanInv /\ NoEmptyWall /\ Ahead(nav) /\ Asking(nav)

\* Only the phone changes the wall sizes, so they stay as they are at power-up.
LEMMA SizesStay ==
    ASSUME ~MayReconfigure, TypeInv, [Next]_vars
    PROVE  nav'.PAI_num = nav.PAI_num /\ WallsFit'
<1>1. nav \in Nav
  BY DEF TypeInv, TypeOK
<1>2. nav'.PAI_num = nav.PAI_num
  <2>1. CASE NewRound
    <3> DEFINE t == ClearReaderData(nav, Reader)
    <3>1. t \in Nav /\ t.PAI_num = nav.PAI_num
      <4>1. Reader \in SUBSET Reader
        OBVIOUS
      <4> QED BY <1>1, <4>1, ClearEffect
    <3>2. nav' = [t EXCEPT !.IsXPFinished = FALSE, !.RP_ovtimer = 0]
      BY <2>1 DEF NewRound
    <3> HIDE DEF t
    <3> QED BY <3>1, <3>2 DEF Nav
  <2>2. CASE Reader_ReadInside \/ TxActive \/ TxFinish \/ Tick \/ UNCHANGED vars
    BY <1>1, <2>2 DEF Reader_ReadInside, TxActive, TxFinish, Tick, vars, Nav
  <2>3. CASE ReaderAnswers \/ PollOverTime
    <3>1. PICK handled \in Nav, rxOk \in BOOLEAN :
            /\ handled.PAI_num = nav.PAI_num
            /\ LET checked == Reader_CheckReceived(handled, rxOk)
               IN  /\ checked \in Nav
                   /\ nav' = EndComplete(checked) \/ nav' = Reader_CheckOverTime(checked)
      BY <2>3, PollSteps
    <3> DEFINE checked == Reader_CheckReceived(handled, rxOk)
    <3>2. checked.PAI_num = nav.PAI_num /\ checked \in Nav
      <4>1. PICK counted \in {handled, CountFailure(handled, handled.currentReader)} :
              /\ counted \in Nav
              /\ checked.PAI_num = SendGroupTileToPhone(counted).PAI_num
        BY CheckReceivedEffect
      <4>2. handled.currentReader \in Reader
        BY DEF Nav
      <4>3. CountFailure(handled, handled.currentReader).PAI_num = handled.PAI_num
        BY <4>2, CountFailureEffect
      <4>4. SendGroupTileToPhone(counted).PAI_num = counted.PAI_num
        BY <4>1, SendEffect
      <4> QED BY <3>1, <4>1, <4>3, <4>4
    <3>3. nav' \in {checked, Reader_FinishXP(checked)}
      BY <3>1 DEF EndComplete, Reader_CheckOverTime
    <3> HIDE DEF checked
    <3>4. Reader_FinishXP(checked).PAI_num = checked.PAI_num
      BY <3>2, FinishEffect
    <3> QED BY <3>2, <3>3, <3>4
  <2>4. \A counts : ~Phone_SetPaiCount(counts)
    BY DEF Phone_SetPaiCount
  <2> QED BY <2>1, <2>2, <2>3, <2>4 DEF Next, LoopTurn
<1>3. \A r \in Reader : nav.PAI_num[r] <= MAX_WALL_CARD
  BY <1>1, ReadersAssumption DEF Nav
<1> QED BY <1>2, <1>3 DEF WallsFit

LEMMA Heights ==
    ASSUME NEW s \in Nav
    PROVE  /\ s.PAI_position \in [Reader -> 0 .. MAX_WALL_CARD]
           /\ s.PAI_num \in [Reader -> 0 .. MAX_WALL_CARD]
           /\ NumTiles(s.PAI_position) \in Nat /\ NumTiles(s.PAI_num) \in 0 .. Byte - 1
           /\ NotEmpty(s) => NumTiles(s.PAI_num) # 0
<1>1. s.PAI_position \in [Reader -> 0 .. MAX_WALL_CARD]
  BY DEF Nav
<1>2. s.PAI_num \in [Reader -> 0 .. MAX_WALL_CARD]
  BY DEF Nav
<1>3. ASSUME NotEmpty(s) PROVE NumTiles(s.PAI_num) # 0
  <2>1. 1 \in Reader /\ s.PAI_num[1] # 0
    BY <1>2, <1>3, ReadersAssumption DEF Reader, NotEmpty
  <2> QED BY <1>2, <2>1, NumTilesZero
<1>4. NumTiles(s.PAI_position) \in 0 .. Byte - 1 /\ NumTiles(s.PAI_num) \in 0 .. Byte - 1
  BY <1>1, <1>2, NumTilesType
<1> QED BY <1>1, <1>2, <1>3, <1>4, ByteAssumption

LEMMA EmptyAhead ==
    ASSUME NEW s \in Nav, s.RP_num = 0, s.TotalCardNum = NumTiles(s.PAI_num),
           \A r \in Reader : s.PAI_position[r] = 0
    PROVE  Ahead(s) /\ (NotEmpty(s) => s.RP_num < s.TotalCardNum)
<1>1. NumTiles(s.PAI_position) = 0
  BY Heights, NumTilesZero
<1>2. NumTiles(s.PAI_num) \in 0 .. Byte - 1 /\ (NotEmpty(s) => NumTiles(s.PAI_num) # 0)
  BY Heights
<1> QED BY <1>1, <1>2, ByteAssumption DEF Ahead

LEMMA FinishAhead ==
    ASSUME NEW s \in Nav, s.TotalCardNum = NumTiles(s.PAI_num)
    PROVE  /\ Ahead(Reader_FinishXP(s)) /\ Asking(Reader_FinishXP(s))
           /\ Ahead(NextShuffleSeen(s))
<1>1. Ahead(Reader_FinishXP(s)) /\ Asking(Reader_FinishXP(s))
  <2> DEFINE t == Reader_FinishXP(s)
  <2>1. /\ t \in Nav /\ t.RP_num = 0 /\ t.TotalCardNum = s.TotalCardNum /\ t.PAI_num = s.PAI_num
        /\ t.IsXPFinished = TRUE /\ \A r \in Reader : t.PAI_position[r] = 0
    BY FinishEffect
  <2> HIDE DEF t
  <2>2. Ahead(t) /\ Asking(t)
    BY <2>1, EmptyAhead DEF Asking
  <2> QED BY <2>2 DEF t
<1>2. Ahead(NextShuffleSeen(s))
  <2> DEFINE t == NextShuffleSeen(s)
  <2>1. /\ t \in Nav /\ t.RP_num = 0 /\ t.TotalCardNum = s.TotalCardNum /\ t.PAI_num = s.PAI_num
        /\ \A r \in Reader : t.PAI_position[r] = 0
    BY NextShuffleEffect
  <2> HIDE DEF t
  <2>2. Ahead(t)
    BY <2>1, EmptyAhead
  <2> QED BY <2>2 DEF t
<1> QED BY <1>1, <1>2

\* Fewer tiles in the caches leave RP_num ahead.
LEMMA LowerAhead ==
    ASSUME NEW s \in Nav, NEW t \in Nav, Ahead(s),
           t.RP_num = s.RP_num, t.TotalCardNum = s.TotalCardNum, t.PAI_num = s.PAI_num,
           \A r \in Reader : t.PAI_position[r] = s.PAI_position[r] \/ t.PAI_position[r] = 0
    PROVE  Ahead(t)
<1>1. /\ s.PAI_position \in [Reader -> 0 .. MAX_WALL_CARD]
      /\ t.PAI_position \in [Reader -> 0 .. MAX_WALL_CARD]
  BY Heights
<1>2. \A r \in Reader : t.PAI_position[r] <= s.PAI_position[r]
  BY <1>1
<1>3. NumTiles(t.PAI_position) <= NumTiles(s.PAI_position)
  BY <1>1, <1>2, NumTilesMonotone
<1>4. s.RP_num \in Int
  BY ByteAssumption DEF Nav
<1> QED BY <1>3, <1>4, Heights DEF Ahead

LEMMA ClearAhead ==
    ASSUME NEW s \in Nav, Ahead(s), NEW R \in SUBSET Reader
    PROVE  LET t == ClearReaderData(s, R) IN t \in Nav /\ Ahead(t)
<1> DEFINE t == ClearReaderData(s, R)
<1>1. t \in Nav
  BY ClearType
<1>2. /\ \A r \in Reader : t.PAI_position[r] = s.PAI_position[r] \/ t.PAI_position[r] = 0
      /\ t.RP_num = s.RP_num /\ t.TotalCardNum = s.TotalCardNum /\ t.PAI_num = s.PAI_num
  BY DEF ClearReaderData, Nav
<1> HIDE DEF t
<1>3. Ahead(t)
  BY <1>1, <1>2, LowerAhead
<1> QED BY <1>1, <1>3 DEF t

LEMMA HandleAhead ==
    ASSUME NEW s \in Nav, Ahead(s), s.RP_num < s.TotalCardNum, NEW m \in AnyAnswer,
           s.PAI_position[m.reader] < MAX_WALL_CARD
    PROVE  Ahead(Reader_HandleInsideMessage(s, m))
<1> DEFINE r == m.reader
<1>1. r \in Reader /\ m.tile \in Tile \cup {NoTile} /\ s.PAI_position[r] < MAX_WALL_CARD
  BY DEF AnyAnswer, AnswersTo, Request
<1>2. s.TotalCardNum = NumTiles(s.PAI_num)
  BY DEF Ahead
<1> HIDE DEF r
<1>3. CASE m.command = "kCmdReaderReset"
  <2> DEFINE t == ClearReaderData(s, {r})
             u == [t EXCEPT !.working[r] = TRUE]
  <2>1. {r} \in SUBSET Reader
    BY <1>1
  <2>2. t \in Nav /\ Ahead(t)
    BY <2>1, ClearAhead
  <2> HIDE DEF t
  <2>3. /\ u.PAI_position = t.PAI_position /\ u.RP_num = t.RP_num
        /\ u.TotalCardNum = t.TotalCardNum /\ u.PAI_num = t.PAI_num
    BY <2>2 DEF Nav
  <2>4. Ahead(u)
    BY <2>2, <2>3 DEF Ahead
  <2> QED BY <1>3, <2>4 DEF Reader_HandleInsideMessage, t, r
<1>4. CASE m.command # "kCmdReaderReset" /\ Acceptable(s, m)
  <2> DEFINE t == AddOnePaiToCache(s, r, m.tile)
             u == [t EXCEPT !.pai_color = IF s.RP_num = 0 THEN m.tile[1] ELSE s.pai_color]
  <2>1. m.tile \in Tile
    BY <1>1, <1>4 DEF Acceptable
  <2> HIDE DEF u
  <2>2. /\ t \in Nav
        /\ t.PAI_position = [s.PAI_position EXCEPT ![r] = s.PAI_position[r] + 1]
        /\ t.RP_num = (s.RP_num + 1) % Byte
        /\ t.TotalCardNum = s.TotalCardNum /\ t.PAI_num = s.PAI_num
    BY <1>1, <2>1, AddEffect, ZenonT(30)
  <2> HIDE DEF t
  <2>3. /\ u.PAI_position = t.PAI_position /\ u.RP_num = t.RP_num
        /\ u.TotalCardNum = t.TotalCardNum /\ u.PAI_num = t.PAI_num
    BY <2>2 DEF Nav, u
  <2>4. NumTiles(t.PAI_position) = NumTiles(s.PAI_position) + 1
    BY <1>1, <2>2, Heights, NumTilesAdd
  <2>5. s.RP_num \in 0 .. Byte - 1 /\ s.TotalCardNum \in 0 .. Byte - 1
    BY DEF Nav
  <2>6. u.RP_num = s.RP_num + 1
    BY <2>2, <2>3, <2>5, ByteAssumption
  <2>7. Ahead(u)
    BY <2>2, <2>3, <2>4, <2>5, <2>6, Heights, ByteAssumption DEF Ahead
  <2> QED BY <1>4, <2>7 DEF Reader_HandleInsideMessage, AttempAddPaiToCacheEx, u, t, r
<1>5. CASE m.command # "kCmdReaderReset" /\ ~Acceptable(s, m)
  BY <1>2, <1>5, FinishAhead DEF Reader_HandleInsideMessage, AttempAddPaiToCacheEx
<1> QED BY <1>3, <1>4, <1>5

LEMMA CheckReceivedAhead ==
    ASSUME NEW s \in Nav, Ahead(s), NEW rxOk \in BOOLEAN
    PROVE  LET t == Reader_CheckReceived(s, rxOk) IN
           Ahead(t) /\ (t.RP_num < t.TotalCardNum => Asking(t))
<1> DEFINE t == Reader_CheckReceived(s, rxOk)
<1>1. PICK counted \in {s, CountFailure(s, s.currentReader)} :
        LET sent == SendGroupTileToPhone(counted)
        IN  /\ counted \in Nav /\ sent \in Nav /\ t \in Nav
            /\ t.RP_num = sent.RP_num /\ t.TotalCardNum = sent.TotalCardNum
            /\ t.PAI_num = sent.PAI_num /\ t.PAI_position = sent.PAI_position
            /\ t.IsXPFinished = sent.IsXPFinished /\ t.currentReader = NextReader(sent)
  BY CheckReceivedEffect
<1> DEFINE sent == SendGroupTileToPhone(counted)
<1>2. s.currentReader \in Reader
  BY DEF Nav
<1>3. /\ counted \in Nav /\ counted.RP_num = s.RP_num
      /\ counted.TotalCardNum = s.TotalCardNum /\ counted.PAI_num = s.PAI_num
      /\ \A r \in Reader : counted.PAI_position[r] = s.PAI_position[r] \/ counted.PAI_position[r] = 0
  <2> DEFINE f == CountFailure(s, s.currentReader)
  <2>1. /\ f \in Nav /\ f.RP_num = s.RP_num
        /\ f.TotalCardNum = s.TotalCardNum /\ f.PAI_num = s.PAI_num
        /\ \A r \in Reader : f.PAI_position[r] = s.PAI_position[r] \/ f.PAI_position[r] = 0
    BY <1>2, CountFailureEffect
  <2>2. counted = s \/ counted = f
    OBVIOUS
  <2> HIDE DEF f
  <2> QED BY <2>1, <2>2
<1>4. /\ sent \in Nav /\ sent.RP_num = counted.RP_num /\ sent.TotalCardNum = counted.TotalCardNum
      /\ sent.PAI_num = counted.PAI_num /\ sent.PAI_position = counted.PAI_position
  BY <1>3, SendEffect
<1>5. t \in Nav /\ t.RP_num = sent.RP_num /\ t.TotalCardNum = sent.TotalCardNum
      /\ t.PAI_num = sent.PAI_num /\ t.PAI_position = sent.PAI_position
      /\ t.currentReader = NextReader(sent)
  BY <1>1
<1> HIDE DEF t, sent
<1>6. Ahead(t)
  BY <1>3, <1>4, <1>5, LowerAhead
<1>7. ASSUME t.RP_num < t.TotalCardNum PROVE ~Complete(t, t.currentReader)
  <2>1. t.RP_num \in Int /\ t.TotalCardNum \in Int
    BY <1>5, ByteAssumption DEF Nav
  <2>2. NumTiles(t.PAI_position) < NumTiles(t.PAI_num)
    BY <1>5, <1>6, <1>7, <2>1, Heights DEF Ahead
  <2>3. PICK r \in Reader : t.PAI_position[r] < t.PAI_num[r]
    BY <1>5, <2>2, Heights, NumTilesLess
  <2>4. t.PAI_position[r] \in Int /\ t.PAI_num[r] \in Int
    BY <1>5, Heights
  <2>5. ~Complete(sent, r)
    BY <1>5, <2>3, <2>4 DEF Complete
  <2>6. ~Complete(sent, NextReader(sent))
    BY <1>4, <2>5, NextReaderFinds
  <2> QED BY <1>5, <2>6 DEF Complete
<1>8. Ahead(t) /\ (t.RP_num < t.TotalCardNum => Asking(t))
  BY <1>6, <1>7 DEF Asking
<1> QED BY <1>8 DEF t

LEMMA EndAhead ==
    ASSUME NEW s \in Nav, Ahead(s), s.RP_num < s.TotalCardNum => Asking(s)
    PROVE  /\ Ahead(EndComplete(s)) /\ Asking(EndComplete(s))
           /\ Ahead(Reader_CheckOverTime(s)) /\ Asking(Reader_CheckOverTime(s))
<1>1. s.RP_num \in Int /\ s.TotalCardNum \in Int
  BY ByteAssumption DEF Nav
<1>2. s.TotalCardNum = NumTiles(s.PAI_num)
  BY DEF Ahead
<1>3. CASE s.RP_num = s.TotalCardNum
  <2>1. EndComplete(s) = Reader_FinishXP(s)
    BY <1>3 DEF EndComplete
  <2>2. Reader_CheckOverTime(s) = Reader_FinishXP(s)
    BY <1>1, <1>3 DEF Reader_CheckOverTime
  <2> QED BY <1>2, <2>1, <2>2, FinishAhead
<1>4. CASE s.RP_num # s.TotalCardNum
  <2>1. s.RP_num < s.TotalCardNum
    BY <1>1, <1>4 DEF Ahead
  <2>2. EndComplete(s) = s
    BY <1>4 DEF EndComplete
  <2>3. Reader_CheckOverTime(s) \in {s, Reader_FinishXP(s)}
    BY DEF Reader_CheckOverTime
  <2> QED BY <1>2, <2>1, <2>2, <2>3, FinishAhead
<1> QED BY <1>3, <1>4

LEMMA InitPolling == Init => PollingInv
<1> SUFFICES ASSUME Init PROVE PollingInv
  OBVIOUS
<1>1. CleanInv /\ nav \in Nav
  BY InitGood DEF PromptInv, CleanInv, TypeInv, TypeOK
<1>2. PICK counts : counts \in [Reader -> WallCounts \cap Place] /\ nav = NavigatorInit(counts)
  BY DEF Init
<1>3. /\ nav.RP_num = 0 /\ nav.IsXPFinished = TRUE /\ nav.PAI_num = counts
      /\ nav.TotalCardNum = NumTiles(counts) % Byte
      /\ \A r \in Reader : nav.PAI_position[r] = 0
  BY <1>2 DEF NavigatorInit, All
<1>4. NumTiles(counts) \in 0 .. Byte - 1
  BY <1>1, <1>3, Heights
<1>5. nav.TotalCardNum = NumTiles(nav.PAI_num)
  BY <1>3, <1>4, ByteAssumption
<1>6. NoEmptyWall
  BY <1>2, <1>3, ReadersAssumption DEF NoEmptyWall, Place
<1> QED BY <1>1, <1>3, <1>5, <1>6, EmptyAhead DEF PollingInv, Asking

LEMMA NextPolling ==
    ASSUME ~MayReconfigure
    PROVE  PollingInv /\ [Next]_vars => PollingInv'
<1> SUFFICES ASSUME PollingInv, [Next]_vars PROVE PollingInv'
  OBVIOUS
<1>1. TypeInv /\ nav \in Nav /\ CleanInv /\ NoEmptyWall /\ Ahead(nav) /\ Asking(nav)
  BY DEF PollingInv, CleanInv, TypeInv, TypeOK
<1>0. nav'.PAI_num = nav.PAI_num /\ WallsFit'
  BY <1>1, SizesStay
<1>2. CleanInv' /\ nav' \in Nav /\ NoEmptyWall' /\ NotEmpty(nav')
  BY <1>0, <1>1, NextClean DEF CleanInv, TypeInv, TypeOK, NoEmptyWall, NotEmpty
<1>3. SUFFICES Ahead(nav') /\ Asking(nav')
  BY <1>2 DEF PollingInv, Ahead, Asking, Complete, NumTiles, Places
<1>4. CASE NewRound
  <2> DEFINE t == ClearReaderData(nav, Reader)
  <2>1. nav.RP_num = 0
    BY <1>1, <1>4 DEF NewRound, CleanInv, Clean
  <2>2. /\ t \in Nav /\ t.RP_num = nav.RP_num
        /\ t.TotalCardNum = nav.TotalCardNum /\ t.PAI_num = nav.PAI_num
        /\ \A r \in Reader : t.PAI_position[r] = 0
    <3>1. Reader \in SUBSET Reader
      OBVIOUS
    <3> QED BY <1>1, <3>1, ClearEffect
  <2>3. nav' = [t EXCEPT !.IsXPFinished = FALSE, !.RP_ovtimer = 0]
    BY <1>4 DEF NewRound
  <2> HIDE DEF t
  <2>4. /\ nav'.RP_num = 0 /\ nav'.TotalCardNum = nav.TotalCardNum
        /\ nav'.PAI_num = nav.PAI_num
        /\ \A r \in Reader : nav'.PAI_position[r] = 0
    BY <2>1, <2>2, <2>3 DEF Nav
  <2>5. nav'.TotalCardNum = NumTiles(nav'.PAI_num)
    BY <1>1, <2>4 DEF Ahead
  <2>6. Ahead(nav') /\ nav'.RP_num < nav'.TotalCardNum
    BY <1>2, <2>4, <2>5, EmptyAhead
  <2>7. nav'.currentReader \in Reader /\ nav'.PAI_num[nav'.currentReader] > 0
    BY <1>2 DEF Nav, NotEmpty
  <2>8. nav'.PAI_num[nav'.currentReader] \in Int
    BY <1>2, <2>7, ReadersAssumption DEF Nav
  <2>9. ~Complete(nav', nav'.currentReader)
    BY <2>4, <2>7, <2>8 DEF Complete
  <2> QED BY <2>6, <2>9 DEF Asking
<1>5. CASE Reader_ReadInside \/ TxActive \/ TxFinish \/ Tick \/ UNCHANGED vars
           \/ \E counts \in [Reader -> WallCounts] : Phone_SetPaiCount(counts)
  <2>1. /\ nav'.RP_num = nav.RP_num /\ nav'.PAI_position = nav.PAI_position
        /\ nav'.PAI_num = nav.PAI_num /\ nav'.TotalCardNum = nav.TotalCardNum
        /\ nav'.IsXPFinished = nav.IsXPFinished /\ nav'.currentReader = nav.currentReader
    BY <1>1, <1>5 DEF Reader_ReadInside, TxActive, TxFinish, Tick, Phone_SetPaiCount, vars, Nav
  <2> QED BY <1>1, <2>1 DEF Ahead, Asking, Complete
<1>6. CASE ReaderAnswers \/ PollOverTime
  <2>1. PICK handled \in Nav, rxOk \in BOOLEAN :
          /\ \/ handled = nav
             \/ \E m \in AnyAnswer : /\ m.reader = nav.currentReader
                                     /\ handled = Reader_HandleInsideMessage(nav, m)
          /\ LET checked == Reader_CheckReceived(handled, rxOk)
             IN  /\ checked \in Nav
                 /\ nav' = EndComplete(checked) \/ nav' = Reader_CheckOverTime(checked)
    BY <1>1, <1>6, PollSteps
  <2>2. nav.RP_mode = "kWaitReaderAck" /\ nav.PAI_position[nav.currentReader] < MAX_WALL_CARD
    BY <1>1, <1>6, PollSteps
  <2>3. nav.RP_num < nav.TotalCardNum
    BY <1>1, <2>2 DEF CleanInv, PollInRound, Asking
  <2>4. Ahead(handled)
    BY <1>1, <2>1, <2>2, <2>3, HandleAhead
  <2> DEFINE checked == Reader_CheckReceived(handled, rxOk)
  <2>5. Ahead(checked) /\ (checked.RP_num < checked.TotalCardNum => Asking(checked))
    BY <2>1, <2>4, CheckReceivedAhead
  <2>6. checked \in Nav /\ (nav' = EndComplete(checked) \/ nav' = Reader_CheckOverTime(checked))
    BY <2>1
  <2> HIDE DEF checked
  <2> QED BY <2>5, <2>6, EndAhead
<1> QED BY <1>4, <1>5, <1>6 DEF Next, LoopTurn

\* While a round is open the reader whose turn it is has a tile left to be read,
\* so the main loop always has something to send: as long as the phone does not
\* change the wall sizes, and even if readers answer late.
THEOREM PollingNeverStops ==
    ASSUME ~MayReconfigure
    PROVE  Spec => []PollingGoesOn
<1>1. PollingInv => PollingGoesOn
  <2> SUFFICES ASSUME PollingInv PROVE PollingGoesOn
    OBVIOUS
  <2>1. nav.IsXPFinished \in BOOLEAN /\ Asking(nav)
    BY DEF PollingInv, CleanInv, TypeInv, TypeOK, Nav
  <2> QED BY <2>1 DEF Asking, PollingGoesOn
<1>2. PollingInv /\ [Next]_vars => PollingInv'
  BY NextPolling
<1> QED BY <1>1, <1>2, InitPolling, PTL DEF Spec

--------------------------------------------------------------------------------
(* The last group's wall is handed over last.  A reader cleared in mid-round   *)
(* has no tile, so its wall was not handed over, nor was the last group's.     *)

LastOnly(s) == s.is_handled[kGroup] = TRUE => \A r \in Reader : s.is_handled[r] = TRUE

LastInv == PromptInv /\ LastOnly(nav)

LEMMA SendLast ==
    ASSUME NEW s \in Nav, LastOnly(s)
    PROVE  LastOnly(SendGroupTileToPhone(s))
<1> DEFINE ready == {r \in Reader : ~s.is_handled[r] /\ Complete(s, r)}
           missing == \E r \in Reader \ {kGroup} : ~s.is_handled[r] /\ ~Complete(s, r)
           R == IF missing THEN ready \ {kGroup} ELSE ready
           t == HandWalls(s, R)
<1>1. SendGroupTileToPhone(s) = t /\ kGroup \in Reader
  BY ReadersAssumption DEF SendGroupTileToPhone, Reader
<1>2. \A r \in Reader : t.is_handled[r] = IF r \in R THEN TRUE ELSE s.is_handled[r]
  BY DEF HandWalls, Nav
<1>3. \A r \in Reader : s.is_handled[r] \in BOOLEAN
  BY DEF Nav
<1> HIDE DEF t
<1>4. ASSUME t.is_handled[kGroup] = TRUE, NEW r \in Reader PROVE t.is_handled[r] = TRUE
  <2>1. CASE s.is_handled[kGroup] = TRUE
    BY <1>2, <2>1 DEF LastOnly
  <2>2. CASE s.is_handled[kGroup] = FALSE
    <3>1. kGroup \in R
      BY <1>1, <1>2, <1>4, <2>2
    <3>2. ~missing
      BY <3>1
    <3>3. r \in R \/ s.is_handled[r] = TRUE
      BY <1>3, <3>1, <3>2
    <3> QED BY <1>2, <3>3
  <2> QED BY <1>1, <1>3, <2>1, <2>2
<1> QED BY <1>1, <1>4 DEF LastOnly

LEMMA HandleLast ==
    ASSUME NEW s \in Nav, Good(s), LastOnly(s), NEW m \in AnyAnswer,
           [reader |-> m.reader, command |-> m.command] = Outstanding(s),
           s.PAI_position[m.reader] < MAX_WALL_CARD
    PROVE  LastOnly(Reader_HandleInsideMessage(s, m))
<1> DEFINE r == m.reader
<1>1. /\ r \in Reader /\ r = s.currentReader /\ kGroup \in Reader
      /\ \A q \in Reader : s.working[q] \in BOOLEAN /\ s.is_handled[q] \in BOOLEAN
  <2>1. kGroup \in Reader
    BY ReadersAssumption DEF Reader
  <2>2. r \in Reader
    BY DEF AnyAnswer, AnswersTo, Request
  <2>3. r = s.currentReader
    BY DEF Outstanding
  <2>4. \A q \in Reader : s.working[q] \in BOOLEAN /\ s.is_handled[q] \in BOOLEAN
    BY DEF Nav
  <2> QED BY <2>1, <2>2, <2>3, <2>4
<1> HIDE DEF r
<1>2. CASE m.command = "kCmdReaderReset"
  <2> DEFINE t == Reader_HandleInsideMessage(s, m)
  <2>1. s.working[r] = FALSE
    BY <1>1, <1>2 DEF Outstanding, r
  <2>2. s.is_handled[r] = FALSE
    BY <1>1, <2>1 DEF Good, Counted, Deck
  <2>3. \A q \in Reader : t.is_handled[q] = IF q = r THEN FALSE ELSE s.is_handled[q]
    BY <1>2 DEF Reader_HandleInsideMessage, ClearReaderData, Nav, r
  <2>4. \A q \in Reader : t.is_handled[q] = s.is_handled[q]
    BY <2>2, <2>3
  <2> HIDE DEF t
  <2>5. LastOnly(t)
    BY <1>1, <2>4 DEF LastOnly
  <2> QED BY <2>5 DEF t
<1>3. CASE m.command # "kCmdReaderReset" /\ Acceptable(s, m)
  <2> DEFINE t == AttempAddPaiToCacheEx(s, m)
  <2>1. t.is_handled = s.is_handled
    BY <1>3 DEF AttempAddPaiToCacheEx, AddOnePaiToCache, Nav
  <2> HIDE DEF t
  <2>2. LastOnly(t)
    BY <2>1 DEF LastOnly
  <2> QED BY <1>3, <2>2 DEF Reader_HandleInsideMessage, t
<1>4. CASE m.command # "kCmdReaderReset" /\ ~Acceptable(s, m)
  <2> DEFINE t == NextShuffleSeen(s)
  <2>1. \A q \in Reader : t.is_handled[q] = FALSE
    BY NextShuffleEffect
  <2> HIDE DEF t
  <2>2. LastOnly(t)
    BY <1>1, <2>1 DEF LastOnly
  <2> QED BY <1>4, <2>2 DEF Reader_HandleInsideMessage, AttempAddPaiToCacheEx, t
<1> QED BY <1>2, <1>3, <1>4

LEMMA CheckReceivedLast ==
    ASSUME NEW s \in Nav, LastOnly(s), NEW rxOk \in BOOLEAN
    PROVE  LastOnly(Reader_CheckReceived(s, rxOk))
<1> DEFINE t == Reader_CheckReceived(s, rxOk)
<1>1. PICK counted \in {s, CountFailure(s, s.currentReader)} :
        /\ counted \in Nav
        /\ t.is_handled = SendGroupTileToPhone(counted).is_handled
  BY CheckReceivedEffect
<1>2. LastOnly(counted)
  <2> DEFINE f == CountFailure(s, s.currentReader)
  <2>1. s.currentReader \in Reader
    BY DEF Nav
  <2>2. f.is_handled = s.is_handled
    BY <2>1, CountFailureEffect
  <2>3. counted = s \/ counted = f
    OBVIOUS
  <2> HIDE DEF f
  <2> QED BY <2>2, <2>3 DEF LastOnly
<1>3. LastOnly(SendGroupTileToPhone(counted))
  BY <1>1, <1>2, SendLast
<1> HIDE DEF t
<1>4. LastOnly(t)
  BY <1>1, <1>3 DEF LastOnly
<1> QED BY <1>4 DEF t

LEMMA EndLast ==
    ASSUME NEW s \in Nav, LastOnly(s)
    PROVE  LastOnly(EndComplete(s)) /\ LastOnly(Reader_CheckOverTime(s))
<1> DEFINE t == Reader_FinishXP(s)
<1>1. \A q \in Reader : t.is_handled[q] = FALSE
  BY FinishEffect
<1>2. kGroup \in Reader
  BY ReadersAssumption DEF Reader
<1> HIDE DEF t
<1>3. LastOnly(t)
  BY <1>1, <1>2 DEF LastOnly
<1>4. EndComplete(s) \in {s, t} /\ Reader_CheckOverTime(s) \in {s, t}
  BY DEF EndComplete, Reader_CheckOverTime, t
<1> QED BY <1>3, <1>4

LEMMA NextLast ==
    ASSUME ~LateReplies
    PROVE  LastInv /\ NoEmptyWall /\ WallsFit' /\ [Next]_vars => LastInv'
<1> SUFFICES ASSUME LastInv, NoEmptyWall, WallsFit', [Next]_vars PROVE LastInv'
  OBVIOUS
<1>1. TypeInv /\ nav \in Nav /\ Good(nav) /\ LastOnly(nav) /\ PromptInv
  BY DEF LastInv, PromptInv, CleanInv, TypeInv, TypeOK
<1>2. PromptInv'
  BY <1>1, NextGood
<1>3. SUFFICES LastOnly(nav')
  BY <1>2 DEF LastInv, LastOnly
<1>4. CASE NewRound
  <2> DEFINE t == ClearReaderData(nav, Reader)
  <2>1. t.is_handled = [r \in Reader |-> FALSE] /\ t \in Nav
    <3>1. Reader \in SUBSET Reader
      OBVIOUS
    <3>2. t \in Nav
      BY <1>1, <3>1, ClearType
    <3> QED BY <1>1, <3>2 DEF ClearReaderData, Nav
  <2>2. nav' = [t EXCEPT !.IsXPFinished = FALSE, !.RP_ovtimer = 0]
    BY <1>4 DEF NewRound
  <2> HIDE DEF t
  <2>3. nav'.is_handled = [r \in Reader |-> FALSE]
    BY <2>1, <2>2 DEF Nav
  <2> QED BY <2>3, ReadersAssumption DEF LastOnly, Reader
<1>5. CASE Reader_ReadInside \/ TxActive \/ TxFinish \/ Tick \/ UNCHANGED vars
           \/ \E counts \in [Reader -> WallCounts] : Phone_SetPaiCount(counts)
  <2>1. nav'.is_handled = nav.is_handled
    BY <1>1, <1>5 DEF Reader_ReadInside, TxActive, TxFinish, Tick, Phone_SetPaiCount, vars, Nav
  <2> QED BY <1>1, <2>1 DEF LastOnly
<1>6. CASE ReaderAnswers \/ PollOverTime
  <2>1. PICK handled \in Nav, rxOk \in BOOLEAN :
          /\ \/ handled = nav
             \/ \E m \in AnyAnswer : /\ m.reader = nav.currentReader
                                     /\ [reader |-> m.reader, command |-> m.command] \in air
                                     /\ handled = Reader_HandleInsideMessage(nav, m)
          /\ LET checked == Reader_CheckReceived(handled, rxOk)
             IN  /\ checked \in Nav
                 /\ nav' = EndComplete(checked) \/ nav' = Reader_CheckOverTime(checked)
    BY <1>1, <1>6, PollSteps
  <2>2. nav.PAI_position[nav.currentReader] < MAX_WALL_CARD
    BY <1>1, <1>6, PollSteps
  <2>3. LastOnly(handled)
    BY <1>1, <2>1, <2>2, HandleLast DEF PromptInv, OwnAnswer
  <2>4. LastOnly(Reader_CheckReceived(handled, rxOk))
    BY <2>1, <2>3, CheckReceivedLast
  <2> QED BY <2>1, <2>4, EndLast
<1> QED BY <1>4, <1>5, <1>6 DEF Next, LoopTurn

\* The wall of the last group is never handed over while another one is missing,
\* whenever the phone changes the wall sizes, as long as it sets no wall empty or larger
\* than a cache and no reader answers late.
THEOREM LastGroupGoesLast ==
    ASSUME ~LateReplies
    PROVE  Spec /\ []WallsFit /\ []NoEmptyWall => []LastGroupLast
<1>1. LastInv => LastGroupLast
  <2> SUFFICES ASSUME LastInv PROVE LastGroupLast
    OBVIOUS
  <2>1. \A r \in Reader : nav.is_handled[r] \in BOOLEAN
    BY DEF LastInv, PromptInv, CleanInv, TypeInv, TypeOK, Nav
  <2>2. kGroup \in Reader
    BY ReadersAssumption DEF Reader
  <2> QED BY <2>1, <2>2 DEF LastInv, LastOnly, LastGroupLast
<1>2. Init => LastInv
  <2> SUFFICES ASSUME Init PROVE LastInv
    OBVIOUS
  <2>1. PICK counts : nav = NavigatorInit(counts)
    BY DEF Init
  <2>2. nav.is_handled[kGroup] = FALSE
    BY <2>1, ReadersAssumption DEF NavigatorInit, All, Reader
  <2> QED BY <2>2, InitGood DEF LastInv, LastOnly
<1>3. LastInv /\ NoEmptyWall /\ WallsFit' /\ [Next]_vars => LastInv'
  BY NextLast
<1> QED BY <1>1, <1>2, <1>3, PTL DEF Spec

--------------------------------------------------------------------------------
(* What a round promises.  A wall once handed over stays what the reader's     *)
(* cache holds, since a complete reader is not polled again; the walls not     *)
(* handed over are loaded as the round ends.                                   *)

Half(s) == s.RP_num > s.TotalCardNum \div 2

\* A wall that was handed over in the round is complete, and the phone has it.
Kept(s) ==
    \A r \in Reader : s.is_handled[r] = TRUE =>
        Complete(s, r) /\ Sent(s.phone_pais[r]) = Sent(Wall(s, r))

\* No reader has more tiles than its wall.
Low(s) == \A r \in Reader : s.PAI_position[r] <= s.PAI_num[r]

\* A complete wall that was not handed over is the last, and waits for another.
Waits(s) ==
    \A r \in Reader : Complete(s, r) /\ s.is_handled[r] = FALSE =>
        r = kGroup /\ \E q \in Reader : ~Complete(s, q)

InRound(s) == Kept(s) /\ Low(s) /\ Waits(s)

LEMMA NavRanges ==
    ASSUME NEW s \in Nav
    PROVE  /\ s.RP_num \in Nat /\ s.TotalCardNum \in Nat
           /\ \A r \in Reader : s.PAI_position[r] \in Nat /\ s.PAI_num[r] \in Nat
           /\ s.IsXPFinished \in BOOLEAN
           /\ \A r \in Reader : s.is_handled[r] \in BOOLEAN /\ s.working[r] \in BOOLEAN
<1>1. s.RP_num \in Nat /\ s.TotalCardNum \in Nat
  BY ByteAssumption DEF Nav
<1>2. \A r \in Reader : s.PAI_position[r] \in Nat /\ s.PAI_num[r] \in Nat
  BY ReadersAssumption DEF Nav
<1>3. /\ s.IsXPFinished \in BOOLEAN
      /\ \A r \in Reader : s.is_handled[r] \in BOOLEAN /\ s.working[r] \in BOOLEAN
  BY DEF Nav
<1> QED BY <1>1, <1>2, <1>3

\* Between rounds the caches are empty and no wall counts as handed over.
Empty(s) == \A r \in Reader : s.PAI_position[r] = 0 /\ s.is_handled[r] = FALSE

LEMMA EmptyInRound ==
    ASSUME NEW s \in Nav, NotEmpty(s), Empty(s)
    PROVE  InRound(s) /\ \A r \in Reader : ~Complete(s, r)
<1>1. \A r \in Reader : ~Complete(s, r)
  BY NavRanges DEF Empty, Complete, NotEmpty
<1> QED BY <1>1, NavRanges DEF Empty, InRound, Kept, Low, Waits

\* What is sent of a wall that is handed over depends on what was read of it only.
LEMMA SameSentWall ==
    ASSUME NEW s \in Nav, NEW t \in Nav, NEW r \in Reader,
           t.PAI_num[r] = s.PAI_num[r], t.PAI_position[r] = s.PAI_position[r],
           \A p \in Place : p <= s.PAI_position[r] => t.PAI_Cache_dat[r][p] = s.PAI_Cache_dat[r][p]
    PROVE  Sent(Wall(t, r)) = Sent(Wall(s, r))
<1>1. \A p \in Place : Sent(Wall(t, r))[p] = Sent(Wall(s, r))[p]
  BY SentWall
<1> QED BY <1>1 DEF Sent

--------------------------------------------------------------------------------
(* What the caches are to Round: sequences of tiles. *)

\* The tiles read, as sequences.
LEMMA TilesAre ==
    ASSUME NEW s \in Nav, Good(s)
    PROVE  /\ TilesRead(s) \in [Reader -> Seq(Tile)]
           /\ \A r \in Reader :
                /\ Len(TilesRead(s)[r]) = s.PAI_position[r]
                /\ \A p \in 1 .. s.PAI_position[r] : TilesRead(s)[r][p] = s.PAI_Cache_dat[r][p]
<1> SUFFICES ASSUME NEW r \in Reader
             PROVE  /\ [p \in 1 .. s.PAI_position[r] |-> s.PAI_Cache_dat[r][p]] \in Seq(Tile)
                    /\ Len([p \in 1 .. s.PAI_position[r] |-> s.PAI_Cache_dat[r][p]]) = s.PAI_position[r]
  BY DEF TilesRead
<1>1. s.PAI_position[r] \in 0 .. MAX_WALL_CARD
  BY DEF Nav
<1>2. \A p \in 1 .. s.PAI_position[r] : p \in Place /\ p <= s.PAI_position[r]
  BY <1>1, ReadersAssumption DEF Place
<1>3. \A p \in 1 .. s.PAI_position[r] : s.PAI_Cache_dat[r][p] \in Tile
  BY <1>2 DEF Good, Deck
<1>4. [p \in 1 .. s.PAI_position[r] |-> s.PAI_Cache_dat[r][p]] \in [1 .. s.PAI_position[r] -> Tile]
  BY <1>3
<1> QED BY <1>1, <1>4

\* No tile read is no tile read of any wall.
LEMMA NothingRead ==
    ASSUME NEW s, \A r \in Reader : s.PAI_position[r] = 0
    PROVE  TilesRead(s) = Promise!Nothing
<1>1. \A r \in Reader : [p \in 1 .. s.PAI_position[r] |-> s.PAI_Cache_dat[r][p]] = <<>>
  OBVIOUS
<1> QED BY <1>1 DEF TilesRead, Promise!Nothing, Promise!Wall, Reader

\* The wall that the phone is given shows what was read.
LEMMA WallShown ==
    ASSUME NEW s \in Nav, Good(s), Low(s), NEW r \in Reader
    PROVE  Sent(Wall(s, r)) = Promise!Shown(TilesRead(s)[r])
<1>1. /\ Len(TilesRead(s)[r]) = s.PAI_position[r]
      /\ \A p \in 1 .. s.PAI_position[r] : TilesRead(s)[r][p] = s.PAI_Cache_dat[r][p]
  BY TilesAre
<1>2. \A p \in Place : p <= s.PAI_position[r] =>
                          p \in 1 .. s.PAI_position[r] /\ p <= s.PAI_num[r]
  BY NavRanges DEF Place, Low
<1>3. \A p \in Place : Sent(Wall(s, r))[p] =
                          IF p <= s.PAI_position[r] THEN s.PAI_Cache_dat[r][p] ELSE NoTile
  BY <1>2, SentWall
<1>4. \A p \in Place : Sent(Wall(s, r))[p] = Promise!Shown(TilesRead(s)[r])[p]
  BY <1>1, <1>2, <1>3 DEF Promise!Shown
<1> QED BY <1>4 DEF Sent, Promise!Shown

\* Round adds up the tiles as NumTiles does.
LEMMA TotalIsNumTiles ==
    ASSUME NEW f \in [Reader -> 0 .. MAX_WALL_CARD]
    PROVE  Promise!Total(f) = NumTiles(f)
<1>1. \A S : Promise!Cardinality(S) = Cardinality(S)
  BY DEF Promise!Cardinality, Cardinality
<1>2. Places(f) = {w \in Reader \X Place : w[2] <= f[w[1]]}
  BY PlacesAre
<1> QED BY <1>1, <1>2 DEF Promise!Total, NumTiles, Promise!Wall, Reader

\* Which walls are complete, and whether more than half of the tiles were read.
LEMMA CountsAgree ==
    ASSUME nav \in Nav, NEW s \in Nav, Good(s), s.PAI_num = nav.PAI_num, Low(s)
    PROVE  /\ \A r \in Reader : Promise!IsComplete(TilesRead(s), r) <=> Complete(s, r)
           /\ s.TotalCardNum = NumTiles(s.PAI_num)
                => (Promise!MoreThanHalf(TilesRead(s)) <=> Half(s))
<1>1. \A r \in Reader : Len(TilesRead(s)[r]) = s.PAI_position[r]
  BY TilesAre
<1>2. \A r \in Reader : Promise!IsComplete(TilesRead(s), r) <=> Complete(s, r)
  BY <1>1, NavRanges DEF Promise!IsComplete, Complete, Low
<1>3. /\ Promise!Total(s.PAI_position) = NumTiles(s.PAI_position)
      /\ Promise!Total(nav.PAI_num) = NumTiles(s.PAI_num)
  <2>1. /\ s.PAI_position \in [Reader -> 0 .. MAX_WALL_CARD]
        /\ s.PAI_num \in [Reader -> 0 .. MAX_WALL_CARD]
    BY DEF Nav
  <2> QED BY <2>1, TotalIsNumTiles
<1>4. [w \in Promise!Wall |-> Len(TilesRead(s)[w])] = s.PAI_position
  <2>1. s.PAI_position \in [Reader -> 0 .. MAX_WALL_CARD] /\ Promise!Wall = Reader
    BY DEF Nav, Promise!Wall, Reader
  <2> QED BY <1>1, <2>1
<1>5. s.RP_num = NumTiles(s.PAI_position)
  BY DEF Good, Counted
<1> QED BY <1>2, <1>3, <1>4, <1>5 DEF Promise!MoreThanHalf, Half

--------------------------------------------------------------------------------
(* A turn of the loop, from nav through the globals s between its helpers, is a *)
(* step of Round: s is Polled once the answer is handled, Served once the       *)
(* complete walls are handed over, and Over if the round has ended.             *)

Moves == {TilesRead(nav)} \cup Promise!OneMore

Given(s, now, W) ==
    \A r \in Reader : Sent(s.phone_pais[r]) =
        IF r \in W THEN Promise!Shown(now[r]) ELSE Sent(nav.phone_pais[r])

Unsent(now) == {r \in Reader : Promise!MoreThanHalf(now) /\ nav.is_handled[r] = FALSE}

SameSizes(s) == s.PAI_num = nav.PAI_num /\ s.TotalCardNum = nav.TotalCardNum

Polled(s) ==
    /\ s.IsXPFinished = FALSE /\ SameSizes(s) /\ Good(s) /\ Kept(s) /\ Low(s)
    /\ s.is_handled = nav.is_handled /\ s.phone_pais = nav.phone_pais
    /\ TilesRead(s) \in Moves

Served(s) ==
    /\ s.IsXPFinished = FALSE /\ SameSizes(s) /\ Good(s) /\ InRound(s)
    /\ TilesRead(s) \in Moves
    /\ Given(s, TilesRead(s), Promise!Ready(TilesRead(s)))
    /\ \A r \in Reader : s.is_handled[r] = TRUE <=>
          nav.is_handled[r] = TRUE \/ r \in Promise!Ready(TilesRead(s))

Over(s) ==
    /\ s.IsXPFinished = TRUE /\ SameSizes(s) /\ s.RP_num = 0 /\ Empty(s)
    /\ \E now \in Moves : Given(s, now, Promise!Ready(now) \cup Unsent(now))

\* The walls that SendGroupTileToPhone hands over are the ones Round has ready.
LEMMA ReadyWalls ==
    ASSUME nav \in Nav, NEW s \in Nav, Polled(s), NEW r \in Reader
    PROVE  r \in Promise!Ready(TilesRead(s)) <=>
              /\ s.is_handled[r] = FALSE /\ Complete(s, r)
              /\ r = kGroup => \A q \in Reader : Complete(s, q)
<1>1. Good(s) /\ s.PAI_num = nav.PAI_num /\ Low(s) /\ s.is_handled = nav.is_handled
  BY DEF Polled, SameSizes
<1>2. \A q \in Reader : Promise!IsComplete(TilesRead(s), q) <=> Complete(s, q)
  BY <1>1, CountsAgree
<1>3. s.is_handled[r] \in BOOLEAN /\ Promise!Wall = Reader
  BY NavRanges DEF Promise!Wall, Reader
<1> QED BY <1>1, <1>2, <1>3 DEF Promise!Ready

LEMMA SendServes ==
    ASSUME nav \in Nav, NotEmpty(nav), NEW s \in Nav, Polled(s)
    PROVE  Served(SendGroupTileToPhone(s))
<1> DEFINE ready == {r \in Reader : ~s.is_handled[r] /\ Complete(s, r)}
           missing == \E r \in Reader \ {kGroup} : ~s.is_handled[r] /\ ~Complete(s, r)
           W == IF missing THEN ready \ {kGroup} ELSE ready
           now == TilesRead(s)
           t == HandWalls(s, W)
<1>1. t = SendGroupTileToPhone(s)
  BY DEF SendGroupTileToPhone
<1>2. W \in SUBSET Reader
  OBVIOUS
<1>3. \A r \in Reader : r \in W <=> r \in Promise!Ready(now)
  <2> SUFFICES ASSUME NEW r \in Reader PROVE r \in W <=> r \in Promise!Ready(now)
    OBVIOUS
  <2>1. \A q \in Reader : s.is_handled[q] \in BOOLEAN /\ (s.is_handled[q] = TRUE => Complete(s, q))
    BY NavRanges DEF Polled, Kept
  <2>2. r \in Promise!Ready(now) <=>
           /\ s.is_handled[r] = FALSE /\ Complete(s, r)
           /\ r = kGroup => \A q \in Reader : Complete(s, q)
    BY ReadyWalls
  <2>3. missing <=> \E q \in Reader \ {kGroup} : ~Complete(s, q)
    BY <2>1
  <2> QED BY <2>1, <2>2, <2>3
<1> HIDE DEF W
<1>4. /\ t \in Nav
      /\ \A r \in Reader : /\ t.phone_pais[r] = IF r \in W THEN Wall(s, r) ELSE s.phone_pais[r]
                           /\ t.is_handled[r] = IF r \in W THEN TRUE ELSE s.is_handled[r]
      /\ t.RP_num = s.RP_num /\ t.TotalCardNum = s.TotalCardNum /\ t.PAI_num = s.PAI_num
      /\ t.PAI_position = s.PAI_position /\ t.PAI_Cache_dat = s.PAI_Cache_dat
      /\ t.working = s.working /\ t.pai_color = s.pai_color
      /\ t.IsXPFinished = s.IsXPFinished /\ t.currentReader = s.currentReader
  BY <1>2, HandEffect
<1>5. Good(t)
  BY <1>1, SendGood DEF Polled, SameSizes, NotEmpty
<1> HIDE DEF t
<1>6. TilesRead(t) = now
  BY <1>4 DEF TilesRead
<1>7. \A r \in Reader : Sent(Wall(s, r)) = Promise!Shown(now[r])
  BY WallShown DEF Polled
<1>8. \A r \in Reader : Sent(Wall(t, r)) = Sent(Wall(s, r)) /\ (Complete(t, r) <=> Complete(s, r))
  BY <1>4, SameSentWall DEF Complete
<1>9. Given(t, now, Promise!Ready(now))
  BY <1>3, <1>4, <1>7 DEF Given, Polled
<1>10. ASSUME NEW r \in Reader
       PROVE  t.is_handled[r] = TRUE <=> nav.is_handled[r] = TRUE \/ r \in Promise!Ready(now)
  BY <1>3, <1>4 DEF Polled
<1>11. Kept(t)
  <2> SUFFICES ASSUME NEW r \in Reader, t.is_handled[r] = TRUE
               PROVE  Complete(t, r) /\ Sent(t.phone_pais[r]) = Sent(Wall(t, r))
    BY DEF Kept
  <2>1. CASE r \in W
    BY <1>3, <1>4, <1>8, <2>1, ReadyWalls
  <2>2. CASE r \notin W
    BY <1>4, <1>8, <2>2 DEF Polled, Kept
  <2> QED BY <2>1, <2>2
<1>12. Waits(t)
  <2> SUFFICES ASSUME NEW r \in Reader, Complete(t, r), t.is_handled[r] = FALSE
               PROVE  r = kGroup /\ \E q \in Reader : ~Complete(t, q)
    BY DEF Waits
  <2>1. r \notin Promise!Ready(now) /\ s.is_handled[r] = FALSE /\ Complete(s, r)
    BY <1>3, <1>4, <1>8
  <2> QED BY <1>8, <2>1, ReadyWalls
<1>13. Low(t)
  BY <1>4 DEF Low, Polled
<1>14. t.IsXPFinished = FALSE /\ SameSizes(t) /\ now \in Moves
  BY <1>4 DEF Polled, SameSizes
<1>15. Served(t)
  BY <1>5, <1>6, <1>9, <1>10, <1>11, <1>12, <1>13, <1>14 DEF Served, InRound
<1> QED BY <1>1, <1>15

\* A reader that gives up its reset has nothing in its cache.
LEMMA CountFailurePolled ==
    ASSUME nav \in Nav, NEW s \in Nav, NEW r \in Reader
    PROVE  /\ Polled(s) => Polled(CountFailure(s, r))
           /\ Over(s) => Over(CountFailure(s, r))
<1> DEFINE t == CountFailure(s, r)
<1>1. /\ t \in Nav
      /\ \A q \in Reader :
           \/ t.PAI_position[q] = s.PAI_position[q] /\ t.working[q] = s.working[q]
           \/ s.working[q] = FALSE /\ t.PAI_position[q] = 0 /\ t.working[q] = TRUE
      /\ t.RP_num = s.RP_num /\ t.TotalCardNum = s.TotalCardNum /\ t.PAI_num = s.PAI_num
      /\ t.PAI_Cache_dat = s.PAI_Cache_dat /\ t.is_handled = s.is_handled
      /\ t.phone_pais = s.phone_pais /\ t.pai_color = s.pai_color
      /\ t.IsXPFinished = s.IsXPFinished /\ t.currentReader = s.currentReader
  BY CountFailureEffect
<1>2. ASSUME Polled(s) PROVE Polled(t)
  <2>1. Good(t)
    BY <1>2, CountFailureGood DEF Polled
  <2> HIDE DEF t
  <2>2. \A q \in Reader : t.PAI_position[q] = s.PAI_position[q]
    BY <1>1, <1>2 DEF Polled, Good, Counted
  <2>3. TilesRead(t) = TilesRead(s)
    BY <1>1, <2>2 DEF TilesRead
  <2>4. \A q \in Reader : Sent(Wall(t, q)) = Sent(Wall(s, q)) /\ (Complete(t, q) <=> Complete(s, q))
    BY <1>1, <2>2, SameSentWall DEF Complete
  <2>5. Kept(t) /\ Low(t)
    BY <1>1, <1>2, <2>2, <2>4 DEF Polled, Kept, Low
  <2> QED BY <1>1, <1>2, <2>1, <2>3, <2>5 DEF Polled, SameSizes
<1>3. ASSUME Over(s) PROVE Over(t)
  <2> HIDE DEF t
  <2>1. Empty(t) /\ SameSizes(t)
    BY <1>1, <1>3 DEF Over, Empty, SameSizes
  <2> QED BY <1>1, <1>3, <2>1 DEF Over, Given
<1> QED BY <1>2, <1>3

\* With the caches empty no wall is complete, and none is handed over.
LEMMA SendOver ==
    ASSUME NotEmpty(nav), NEW s \in Nav, Over(s)
    PROVE  Over(SendGroupTileToPhone(s))
<1> DEFINE t == SendGroupTileToPhone(s)
<1>1. /\ t \in Nav
      /\ \A r \in Reader : \/ /\ t.phone_pais[r] = s.phone_pais[r]
                              /\ t.is_handled[r] = s.is_handled[r]
                           \/ /\ t.phone_pais[r] = Wall(s, r) /\ t.is_handled[r] = TRUE
                              /\ Complete(s, r)
      /\ t.RP_num = s.RP_num /\ t.TotalCardNum = s.TotalCardNum /\ t.PAI_num = s.PAI_num
      /\ t.PAI_position = s.PAI_position /\ t.PAI_Cache_dat = s.PAI_Cache_dat
      /\ t.working = s.working /\ t.pai_color = s.pai_color
      /\ t.IsXPFinished = s.IsXPFinished /\ t.currentReader = s.currentReader
  BY SendEffect
<1> HIDE DEF t
<1>2. \A r \in Reader : ~Complete(s, r)
  BY EmptyInRound DEF Over, SameSizes, NotEmpty
<1>3. \A r \in Reader : t.phone_pais[r] = s.phone_pais[r] /\ t.is_handled[r] = s.is_handled[r]
  BY <1>1, <1>2
<1>4. Empty(t) /\ SameSizes(t)
  BY <1>1, <1>3 DEF Over, Empty, SameSizes
<1>5. Over(t)
  BY <1>1, <1>3, <1>4 DEF Over, Given
<1> QED BY <1>5 DEF t

LEMMA CheckReceivedServes ==
    ASSUME nav \in Nav, NotEmpty(nav), NEW s \in Nav, NEW rxOk \in BOOLEAN
    PROVE  /\ Polled(s) => Served(Reader_CheckReceived(s, rxOk))
           /\ Over(s) => Over(Reader_CheckReceived(s, rxOk))
<1> DEFINE t == Reader_CheckReceived(s, rxOk)
<1>1. PICK counted \in {s, CountFailure(s, s.currentReader)} :
        LET sent == SendGroupTileToPhone(counted)
        IN  /\ counted \in Nav /\ sent \in Nav /\ t \in Nav
            /\ t.RP_num = sent.RP_num /\ t.TotalCardNum = sent.TotalCardNum
            /\ t.PAI_num = sent.PAI_num
            /\ t.PAI_position = sent.PAI_position /\ t.PAI_Cache_dat = sent.PAI_Cache_dat
            /\ t.is_handled = sent.is_handled /\ t.phone_pais = sent.phone_pais
            /\ t.IsXPFinished = sent.IsXPFinished
  BY CheckReceivedEffect
<1> DEFINE sent == SendGroupTileToPhone(counted)
<1>2. s.currentReader \in Reader
  BY DEF Nav
<1>3. counted \in Nav /\ (Polled(s) => Polled(counted)) /\ (Over(s) => Over(counted))
  BY <1>1, <1>2, CountFailurePolled
<1>4. (Polled(s) => Served(sent)) /\ (Over(s) => Over(sent))
  BY <1>3, SendServes, SendOver
<1>5. Polled(s) => Good(t)
  BY CheckReceivedGood DEF Polled, SameSizes, NotEmpty
<1>6. /\ t.RP_num = sent.RP_num /\ t.TotalCardNum = sent.TotalCardNum
      /\ t.PAI_num = sent.PAI_num
      /\ t.PAI_position = sent.PAI_position /\ t.PAI_Cache_dat = sent.PAI_Cache_dat
      /\ t.is_handled = sent.is_handled /\ t.phone_pais = sent.phone_pais
      /\ t.IsXPFinished = sent.IsXPFinished /\ t \in Nav /\ sent \in Nav
  BY <1>1
<1> HIDE DEF t, sent
<1>7. ASSUME Polled(s) PROVE Served(t)
  <2>1. \A q \in Reader : /\ Sent(Wall(t, q)) = Sent(Wall(sent, q))
                          /\ Complete(t, q) <=> Complete(sent, q)
    BY <1>6, SameSentWall DEF Complete
  <2>2. TilesRead(t) = TilesRead(sent)
    BY <1>6 DEF TilesRead
  <2>3. InRound(sent)
    BY <1>4, <1>7 DEF Served
  <2>4. InRound(t)
    BY <1>6, <2>1, <2>3 DEF InRound, Kept, Low, Waits
  <2> QED BY <1>4, <1>5, <1>6, <1>7, <2>2, <2>4 DEF Served, SameSizes, Given
<1>8. ASSUME Over(s) PROVE Over(t)
  <2>1. Empty(t) /\ SameSizes(t)
    BY <1>4, <1>6, <1>8 DEF Over, Empty, SameSizes
  <2> QED BY <1>4, <1>6, <1>8, <2>1 DEF Over, Given
<1> QED BY <1>7, <1>8 DEF t

\* What the phone's walls are after a round: Wall for those not handed over.
LEMMA LoadHands ==
    ASSUME NEW s \in Nav
    PROVE  \A r \in Reader : DAT_Load(s).phone_pais[r] =
              IF Half(s) /\ ~s.is_handled[r] THEN Wall(s, r) ELSE s.phone_pais[r]
<1> DEFINE unsent == {r \in Reader : s.RP_num > s.TotalCardNum \div 2 /\ ~s.is_handled[r]}
           walls == HandWalls(s, unsent)
<1>1. unsent \in SUBSET Reader
  OBVIOUS
<1>2. \A r \in Reader : r \in unsent <=> Half(s) /\ ~s.is_handled[r]
  BY DEF Half
<1>3. DAT_Load(s) = ClearReaderData(walls, Reader)
  BY DEF DAT_Load
<1> HIDE DEF unsent
<1>4. walls \in Nav
  BY <1>1, HandWallsType
<1>5. \A r \in Reader : walls.phone_pais[r] = IF r \in unsent THEN Wall(s, r) ELSE s.phone_pais[r]
  BY DEF HandWalls, Nav
<1> HIDE DEF walls
<1>6. ClearReaderData(walls, Reader).phone_pais = walls.phone_pais
  <2>1. Reader \in SUBSET Reader
    OBVIOUS
  <2> QED BY <2>1, <1>4, ClearEffect
<1> QED BY <1>2, <1>3, <1>5, <1>6

LEMMA FinishHands ==
    ASSUME NEW s \in Nav
    PROVE  /\ \A r \in Reader : Reader_FinishXP(s).phone_pais[r] =
                 IF Half(s) /\ ~s.is_handled[r] THEN Wall(s, r) ELSE s.phone_pais[r]
           /\ NextShuffleSeen(s).phone_pais = Reader_FinishXP(s).phone_pais
<1> DEFINE load == DAT_Load(s)
           over == Reader_FinishXP(s)
<1>1. load \in Nav /\ over \in Nav
  BY LoadType, FinishType
<1>2. over = [load EXCEPT !.working = All(FALSE), !.RP_num = 0, !.IsXPFinished = TRUE, !.RP_ovtimer = 0]
  BY DEF Reader_FinishXP
<1>3. NextShuffleSeen(s) = [over EXCEPT !.working = All(TRUE)]
  BY DEF NextShuffleSeen
<1> HIDE DEF over
<1>4. \A r \in Reader : load.phone_pais[r] =
                 IF Half(s) /\ ~s.is_handled[r] THEN Wall(s, r) ELSE s.phone_pais[r]
  BY LoadHands
<1> HIDE DEF load
<1>5. over.phone_pais = load.phone_pais
  BY <1>1, <1>2 DEF Nav
<1>6. NextShuffleSeen(s).phone_pais = over.phone_pais
  BY <1>1, <1>3 DEF Nav
<1> QED BY <1>4, <1>5, <1>6 DEF over

LEMMA FinishOver ==
    ASSUME nav \in Nav, nav.TotalCardNum = NumTiles(nav.PAI_num), NEW s \in Nav
    PROVE  Served(s) \/ Over(s) => Over(Reader_FinishXP(s))
<1> DEFINE over == Reader_FinishXP(s)
<1>1. /\ over \in Nav /\ over.IsXPFinished = TRUE /\ over.RP_num = 0
      /\ \A r \in Reader : over.PAI_position[r] = 0 /\ over.is_handled[r] = FALSE
      /\ over.TotalCardNum = s.TotalCardNum /\ over.PAI_num = s.PAI_num
  BY FinishEffect
<1>2. \A r \in Reader : over.phone_pais[r] =
         IF Half(s) /\ ~s.is_handled[r] THEN Wall(s, r) ELSE s.phone_pais[r]
  BY FinishHands
<1> HIDE DEF over
<1>3. \A r \in Reader : s.is_handled[r] \in BOOLEAN /\ nav.is_handled[r] \in BOOLEAN
  BY NavRanges
<1>4. ASSUME Served(s) PROVE Given(over, TilesRead(s), Promise!Ready(TilesRead(s)) \cup Unsent(TilesRead(s)))
  <2> DEFINE now == TilesRead(s)
  <2>1. Promise!MoreThanHalf(now) <=> Half(s)
    BY <1>4, CountsAgree DEF Served, SameSizes, InRound
  <2>2. \A r \in Reader : Sent(Wall(s, r)) = Promise!Shown(now[r])
    BY <1>4, WallShown DEF Served, InRound
  <2>3. Given(s, now, Promise!Ready(now))
    BY <1>4 DEF Served
  <2>4. \A r \in Reader : s.is_handled[r] = TRUE <=>
            nav.is_handled[r] = TRUE \/ r \in Promise!Ready(now)
    BY <1>4 DEF Served
  <2> HIDE DEF now
  <2>5. \A r \in Reader : r \in Unsent(now) <=> Half(s) /\ nav.is_handled[r] = FALSE
    BY <2>1 DEF Unsent
  <2>6. Given(over, now, Promise!Ready(now) \cup Unsent(now))
    BY <1>2, <1>3, <2>2, <2>3, <2>4, <2>5 DEF Given
  <2> QED BY <2>6 DEF now
<1>5. ASSUME Served(s) PROVE Over(over)
  BY <1>1, <1>4, <1>5 DEF Served, Over, SameSizes, Empty
<1>6. ASSUME Over(s) PROVE Over(over)
  <2>1. ~Half(s)
    BY <1>6, NavRanges DEF Over, Half
  <2>2. \A r \in Reader : over.phone_pais[r] = s.phone_pais[r]
    BY <1>2, <2>1
  <2> QED BY <1>1, <1>6, <2>2 DEF Over, Given, SameSizes, Empty
<1> QED BY <1>5, <1>6 DEF over

\* A tile of the next shuffle ends the round with the tiles read so far.
LEMMA NextShuffleOver ==
    ASSUME nav \in Nav, nav.TotalCardNum = NumTiles(nav.PAI_num), Good(nav), InRound(nav)
    PROVE  Over(NextShuffleSeen(nav))
<1> DEFINE over == NextShuffleSeen(nav)
           now == TilesRead(nav)
<1>1. /\ over.IsXPFinished = TRUE /\ over.RP_num = 0
      /\ \A r \in Reader : over.PAI_position[r] = 0 /\ over.is_handled[r] = FALSE
      /\ over.TotalCardNum = nav.TotalCardNum /\ over.PAI_num = nav.PAI_num
  BY NextShuffleEffect
<1>2. \A r \in Reader : over.phone_pais[r] =
         IF Half(nav) /\ ~nav.is_handled[r] THEN Wall(nav, r) ELSE nav.phone_pais[r]
  BY FinishHands
<1> HIDE DEF over
<1>3. Promise!MoreThanHalf(now) <=> Half(nav)
  BY CountsAgree DEF InRound
<1>4. \A r \in Reader : Sent(Wall(nav, r)) = Promise!Shown(now[r])
  BY WallShown DEF InRound
<1>5. \A r \in Reader : nav.is_handled[r] \in BOOLEAN
  BY NavRanges
<1>6. ASSUME NEW r \in Reader PROVE r \notin Promise!Ready(now)
  <2>1. \A q \in Reader : Promise!IsComplete(now, q) <=> Complete(nav, q)
    BY CountsAgree DEF InRound
  <2>2. Promise!Wall = Reader
    BY DEF Promise!Wall, Reader
  <2> QED BY <1>5, <2>1, <2>2 DEF Promise!Ready, InRound, Waits
<1> HIDE DEF now
<1>7. Given(over, now, Promise!Ready(now) \cup Unsent(now))
  BY <1>2, <1>3, <1>4, <1>5, <1>6 DEF Given, Unsent
<1>8. now \in Moves
  BY DEF Moves, now
<1> QED BY <1>1, <1>7, <1>8 DEF over, Over, SameSizes, Empty

--------------------------------------------------------------------------------
(* What the reader whose turn it is answers. *)

LEMMA NavPolled ==
    ASSUME nav \in Nav, Good(nav), InRound(nav), nav.IsXPFinished = FALSE
    PROVE  Polled(nav)
BY DEF Polled, SameSizes, InRound, Moves

\* A sequence with one more at its end.
LEMMA OneLonger ==
    ASSUME NEW S, NEW q \in Seq(S), NEW b \in S, NEW t \in Seq(S), Len(t) = Len(q) + 1,
           \A i \in 1 .. Len(q) : t[i] = q[i], t[Len(q) + 1] = b
    PROVE  t = Append(q, b)
<1>1. Len(q) \in Nat
  OBVIOUS
<1>2. /\ Append(q, b) \in Seq(S) /\ Len(Append(q, b)) = Len(q) + 1
      /\ \A i \in 1 .. Len(q) : Append(q, b)[i] = q[i]
      /\ Append(q, b)[Len(q) + 1] = b
  BY <1>1, AppendProperties
<1>3. ASSUME NEW i \in 1 .. Len(t) PROVE t[i] = Append(q, b)[i]
  <2>1. i \in 1 .. Len(q) \/ i = Len(q) + 1
    BY <1>1
  <2> QED BY <1>2, <2>1
<1> QED BY <1>2, <1>3, SeqEqual

\* A reader that starts anew had no tile of this round.
LEMMA ResetPolled ==
    ASSUME nav \in Nav, Good(nav), InRound(nav), nav.IsXPFinished = FALSE,
           NEW m \in AnyAnswer, m.command = "kCmdReaderReset",
           [reader |-> m.reader, command |-> m.command] = Outstanding(nav),
           nav.PAI_position[m.reader] < MAX_WALL_CARD
    PROVE  Polled(Reader_HandleInsideMessage(nav, m))
<1> DEFINE r == m.reader
           t == ClearReaderData(nav, {r})
           u == [t EXCEPT !.working[r] = TRUE]
<1>1. Good(Reader_HandleInsideMessage(nav, m)) /\ Reader_HandleInsideMessage(nav, m) = u
  BY HandleGood DEF Reader_HandleInsideMessage
<1>2. r \in Reader /\ nav.working[r] = FALSE
  <2>1. r \in Reader /\ r = nav.currentReader
    BY DEF AnyAnswer, AnswersTo, Request, Outstanding
  <2> QED BY <2>1, NavRanges DEF Outstanding
<1> HIDE DEF r
<1>3. nav.PAI_position[r] = 0
  BY <1>2 DEF Good, Counted
<1>4. nav.is_handled[r] = FALSE
  BY <1>3, <1>2 DEF Good, Deck
<1>5. {r} \in SUBSET Reader
  BY <1>2
<1>6. /\ t \in Nav
      /\ \A q \in Reader : /\ t.PAI_position[q] = IF q \in {r} THEN 0 ELSE nav.PAI_position[q]
                           /\ t.is_handled[q] = IF q \in {r} THEN FALSE ELSE nav.is_handled[q]
                           /\ q \notin {r} => t.PAI_Cache_dat[q] = nav.PAI_Cache_dat[q]
      /\ t.RP_num = nav.RP_num /\ t.TotalCardNum = nav.TotalCardNum /\ t.PAI_num = nav.PAI_num
      /\ t.working = nav.working /\ t.phone_pais = nav.phone_pais /\ t.pai_color = nav.pai_color
      /\ t.IsXPFinished = nav.IsXPFinished /\ t.currentReader = nav.currentReader
  BY <1>5, ClearEffect
<1> HIDE DEF t
<1>7. /\ u.PAI_position = t.PAI_position /\ u.is_handled = t.is_handled
      /\ u.PAI_Cache_dat = t.PAI_Cache_dat /\ u.TotalCardNum = nav.TotalCardNum
      /\ u.PAI_num = nav.PAI_num /\ u.phone_pais = nav.phone_pais /\ u.IsXPFinished = FALSE
      /\ u \in Nav
  BY <1>6 DEF Nav
<1> HIDE DEF u
<1>8. \A q \in Reader : /\ u.PAI_position[q] = nav.PAI_position[q]
                        /\ u.is_handled[q] = nav.is_handled[q]
                        /\ q # r => u.PAI_Cache_dat[q] = nav.PAI_Cache_dat[q]
  BY <1>3, <1>4, <1>6, <1>7
<1>9. u.is_handled = nav.is_handled
  BY <1>6, <1>7, <1>8 DEF Nav
<1>10. TilesRead(u) = TilesRead(nav)
  <2>1. \A q \in Reader : [p \in 1 .. u.PAI_position[q] |-> u.PAI_Cache_dat[q][p]]
                            = [p \in 1 .. nav.PAI_position[q] |-> nav.PAI_Cache_dat[q][p]]
    <3> SUFFICES ASSUME NEW q \in Reader
                 PROVE  [p \in 1 .. u.PAI_position[q] |-> u.PAI_Cache_dat[q][p]]
                            = [p \in 1 .. nav.PAI_position[q] |-> nav.PAI_Cache_dat[q][p]]
      OBVIOUS
    <3>1. CASE q = r
      <4>1. 1 .. u.PAI_position[q] = {} /\ 1 .. nav.PAI_position[q] = {}
        BY <1>3, <1>8, <3>1
      <4> QED BY <4>1
    <3>2. CASE q # r
      BY <1>8, <3>2
    <3> QED BY <3>1, <3>2
  <2> QED BY <2>1 DEF TilesRead
<1>11. Kept(u)
  <2> SUFFICES ASSUME NEW q \in Reader, u.is_handled[q] = TRUE
               PROVE  Complete(u, q) /\ Sent(u.phone_pais[q]) = Sent(Wall(u, q))
    BY DEF Kept
  <2>1. q # r /\ nav.is_handled[q] = TRUE
    BY <1>4, <1>8
  <2>2. Sent(Wall(u, q)) = Sent(Wall(nav, q)) /\ (Complete(u, q) <=> Complete(nav, q))
    BY <1>7, <1>8, <2>1, SameSentWall DEF Complete
  <2> QED BY <1>7, <2>1, <2>2 DEF InRound, Kept
<1>12. Low(u)
  BY <1>7, <1>8 DEF InRound, Low
<1> QED BY <1>1, <1>7, <1>9, <1>10, <1>11, <1>12 DEF Polled, SameSizes, Moves

\* A tile that extends the round is one more tile of its wall, of the round's deck.
LEMMA AcceptPolled ==
    ASSUME nav \in Nav, Good(nav), InRound(nav), nav.IsXPFinished = FALSE,
           NEW m \in AnyAnswer, Acceptable(nav, m), nav.working[m.reader] = TRUE,
           ~Complete(nav, m.reader), nav.PAI_position[m.reader] < MAX_WALL_CARD
    PROVE  Polled(AttempAddPaiToCacheEx(nav, m))
<1>1. Good(AttempAddPaiToCacheEx(nav, m))
  BY AcceptGood
<1> DEFINE r == m.reader
           t == AddOnePaiToCache(nav, r, m.tile)
           u == [t EXCEPT !.pai_color = IF nav.RP_num = 0 THEN m.tile[1] ELSE nav.pai_color]
           next == nav.PAI_position[r] + 1
           new == ConvertMahjongId2PhoneId(m.tile)
<1>2. u = AttempAddPaiToCacheEx(nav, m)
  BY DEF AttempAddPaiToCacheEx
<1>3. r \in Reader /\ m.tile \in Tile /\ new \in Tile /\ new[1] = m.tile[1]
  <2>1. m.reader \in Reader /\ m.tile \in Tile
    BY DEF AnyAnswer, AnswersTo, Request, Acceptable
  <2> QED BY <2>1, ConvertType DEF ConvertMahjongId2PhoneId
<1>4. nav.PAI_position[r] < MAX_WALL_CARD /\ ~Complete(nav, r)
  OBVIOUS
<1> HIDE DEF r
<1>5. /\ t \in Nav
      /\ t.PAI_position = [nav.PAI_position EXCEPT ![r] = next]
      /\ t.PAI_Cache_dat = [nav.PAI_Cache_dat EXCEPT ![r][next] = new]
      /\ t.TotalCardNum = nav.TotalCardNum /\ t.PAI_num = nav.PAI_num
      /\ t.phone_pais = nav.phone_pais /\ t.is_handled = nav.is_handled
      /\ t.IsXPFinished = nav.IsXPFinished
  BY <1>3, <1>4, AddEffect
<1> HIDE DEF t, new
<1>6. /\ u.PAI_position = t.PAI_position /\ u.PAI_Cache_dat = t.PAI_Cache_dat
      /\ u.TotalCardNum = nav.TotalCardNum /\ u.PAI_num = nav.PAI_num
      /\ u.phone_pais = nav.phone_pais /\ u.is_handled = nav.is_handled /\ u.IsXPFinished = FALSE
  BY <1>5 DEF Nav
<1>7. u \in Nav
  <2>1. m.tile[1] \in Colours /\ nav.pai_color \in Colours
    BY <1>3 DEF Tile, Nav
  <2> QED BY <1>5, <2>1 DEF Nav
<1> HIDE DEF u
<1>8. nav.PAI_position[r] \in Nat /\ next \in Place
  BY <1>3, <1>4, ReadersAssumption DEF Nav, Place
<1>9. \A q \in Reader \ {r} : /\ u.PAI_position[q] = nav.PAI_position[q]
                              /\ u.PAI_Cache_dat[q] = nav.PAI_Cache_dat[q]
  BY <1>5, <1>6 DEF Nav
<1>10. /\ u.PAI_position[r] = next /\ u.PAI_Cache_dat[r][next] = new
       /\ \A p \in Place : p # next => u.PAI_Cache_dat[r][p] = nav.PAI_Cache_dat[r][p]
  BY <1>3, <1>5, <1>6, <1>8 DEF Nav
<1> HIDE DEF next
<1>11. Kept(u)
  <2> SUFFICES ASSUME NEW q \in Reader, u.is_handled[q] = TRUE
               PROVE  Complete(u, q) /\ Sent(u.phone_pais[q]) = Sent(Wall(u, q))
    BY DEF Kept
  <2>1. q # r
    BY <1>4, <1>6 DEF InRound, Kept
  <2>2. Sent(Wall(u, q)) = Sent(Wall(nav, q)) /\ (Complete(u, q) <=> Complete(nav, q))
    BY <1>6, <1>7, <1>9, <2>1, SameSentWall DEF Complete
  <2> QED BY <1>6, <2>2 DEF InRound, Kept
<1>12. Low(u)
  <2> SUFFICES ASSUME NEW q \in Reader PROVE u.PAI_position[q] <= u.PAI_num[q]
    BY DEF Low
  <2>1. CASE q = r
    BY <1>3, <1>4, <1>6, <1>8, <1>10, <2>1, NavRanges DEF Complete, next
  <2>2. CASE q # r
    BY <1>6, <1>9, <2>2 DEF InRound, Low
  <2> QED BY <2>1, <2>2
<1>13. /\ TilesRead(nav) \in [Reader -> Seq(Tile)]
       /\ \A q \in Reader :
            /\ Len(TilesRead(nav)[q]) = nav.PAI_position[q]
            /\ \A p \in 1 .. nav.PAI_position[q] : TilesRead(nav)[q][p] = nav.PAI_Cache_dat[q][p]
  BY TilesAre
<1>14. /\ TilesRead(u) \in [Reader -> Seq(Tile)]
       /\ \A q \in Reader :
            /\ Len(TilesRead(u)[q]) = u.PAI_position[q]
            /\ \A p \in 1 .. u.PAI_position[q] : TilesRead(u)[q][p] = u.PAI_Cache_dat[q][p]
  BY <1>2, <1>1, <1>7, TilesAre
<1>15. TilesRead(u)[r] = Append(TilesRead(nav)[r], new)
  <2>1. \A p \in 1 .. nav.PAI_position[r] : p \in Place /\ p # next /\ p \in 1 .. next
    BY <1>8, ReadersAssumption DEF Place, next
  <2>2. \A p \in 1 .. nav.PAI_position[r] : TilesRead(u)[r][p] = TilesRead(nav)[r][p]
    BY <1>3, <1>10, <1>13, <1>14, <2>1
  <2>3. TilesRead(u)[r][next] = new
    <3>1. next \in 1 .. next
      BY <1>8 DEF Place
    <3> QED BY <1>3, <1>10, <1>14, <3>1
  <2>4. Len(TilesRead(u)[r]) = Len(TilesRead(nav)[r]) + 1 /\ next = Len(TilesRead(nav)[r]) + 1
    BY <1>3, <1>10, <1>13, <1>14 DEF next
  <2>5. TilesRead(u)[r] \in Seq(Tile) /\ TilesRead(nav)[r] \in Seq(Tile) /\ new \in Tile
    BY <1>3, <1>13, <1>14 DEF new
  <2> QED BY <1>3, <1>13, <2>2, <2>3, <2>4, <2>5, OneLonger
<1>16. \A q \in Reader \ {r} : TilesRead(u)[q] = TilesRead(nav)[q]
  BY <1>9 DEF TilesRead
<1>17. TilesRead(u) = [TilesRead(nav) EXCEPT ![r] = Append(@, new)]
  BY <1>3, <1>13, <1>14, <1>15, <1>16
<1>18. Promise!SameDeck(new)
  <2> SUFFICES ASSUME NEW q \in Reader, NEW p \in 1 .. Len(TilesRead(nav)[q])
               PROVE  TilesRead(nav)[q][p][1] = new[1]
    BY DEF Promise!SameDeck, Promise!Wall, Reader
  <2>1. p \in 1 .. nav.PAI_position[q] /\ TilesRead(nav)[q][p] = nav.PAI_Cache_dat[q][p]
    BY <1>13
  <2>2. p \in Place /\ p <= nav.PAI_position[q] /\ nav.PAI_position[q] # 0
    <3>1. nav.PAI_position[q] \in 0 .. MAX_WALL_CARD
      BY DEF Nav
    <3> QED BY <2>1, <3>1, ReadersAssumption DEF Place
  <2>3. nav.PAI_Cache_dat[q][p][1] = nav.pai_color
    BY <2>2 DEF Good, Deck
  <2>4. nav.RP_num # 0
    <3>1. nav.PAI_position \in [Reader -> 0 .. MAX_WALL_CARD]
      BY DEF Nav
    <3> QED BY <2>2, <3>1, NumTilesZero DEF Good, Counted
  <2>5. m.tile[1] = nav.pai_color
    BY <2>4 DEF Acceptable, IsColorChanged
  <2> QED BY <1>3, <2>1, <2>3, <2>5 DEF new
<1>19. TilesRead(u) \in Moves
  <2>1. Len(TilesRead(nav)[r]) < nav.PAI_num[r]
    BY <1>3, <1>4, <1>13, NavRanges DEF Complete
  <2>2. r \in Promise!Wall /\ new \in Tile
    BY <1>3 DEF Promise!Wall, Reader, new
  <2>3. r \in {v \in Promise!Wall : Len(TilesRead(nav)[v]) < nav.PAI_num[v]}
    BY <2>1, <2>2
  <2>4. new \in {x \in Tile : Promise!SameDeck(x)}
    BY <1>18, <2>2
  <2>5. [TilesRead(nav) EXCEPT ![r] = Append(@, new)] \in Promise!OneMore
    BY <2>3, <2>4 DEF Promise!OneMore
  <2> QED BY <1>17, <2>5 DEF Moves
<1> QED BY <1>2, <1>1, <1>6, <1>11, <1>12, <1>19 DEF Polled, SameSizes

LEMMA HandlePolled ==
    ASSUME nav \in Nav, nav.TotalCardNum = NumTiles(nav.PAI_num), Good(nav), InRound(nav),
           nav.IsXPFinished = FALSE, ~Complete(nav, nav.currentReader), NEW m \in AnyAnswer,
           [reader |-> m.reader, command |-> m.command] = Outstanding(nav),
           nav.PAI_position[m.reader] < MAX_WALL_CARD
    PROVE  LET h == Reader_HandleInsideMessage(nav, m) IN Polled(h) \/ Over(h)
<1>1. /\ m.reader \in Reader /\ m.reader = nav.currentReader
      /\ m.command = IF nav.working[nav.currentReader] THEN "kCmdReadPai" ELSE "kCmdReaderReset"
  BY DEF AnyAnswer, AnswersTo, Request, Outstanding
<1>2. CASE m.command = "kCmdReaderReset"
  BY <1>2, ResetPolled
<1>3. CASE m.command # "kCmdReaderReset" /\ Acceptable(nav, m)
  <2>1. nav.working[m.reader] = TRUE
    BY <1>1, <1>3, NavRanges
  <2>2. Polled(AttempAddPaiToCacheEx(nav, m))
    BY <1>1, <1>3, <2>1, AcceptPolled
  <2> QED BY <1>3, <2>2 DEF Reader_HandleInsideMessage
<1>4. CASE m.command # "kCmdReaderReset" /\ ~Acceptable(nav, m)
  BY <1>4, NavPolled, NextShuffleOver DEF Reader_HandleInsideMessage, AttempAddPaiToCacheEx
<1> QED BY <1>2, <1>3, <1>4

--------------------------------------------------------------------------------
(* The steps of the main loop are steps of Round. *)

RoundInv == PromptInv /\ PollingInv /\ InRound(nav)

\* The globals as they are between two turns, seen as Round's variables.
LEMMA RoundTypes ==
    ASSUME NEW s \in Nav
    PROVE  /\ s.is_handled \in [Reader -> BOOLEAN] /\ Promise!Wall = Reader
           /\ s.IsXPFinished \in BOOLEAN
BY DEF Nav, Promise!Wall, Reader

\* The walls as Round sees them after the step.
LEMMA Afterwards ==
    /\ TilesRead(nav)' = TilesRead(nav')
    /\ \A r \in Reader : Complete(nav, r)' <=> Complete(nav', r)
BY DEF TilesRead, Complete

\* A turn that leaves the round open leaves a wall incomplete.
LEMMA ServedGoesOn ==
    ASSUME nav \in Nav, nav.IsXPFinished = FALSE, nav.TotalCardNum = NumTiles(nav.PAI_num),
           nav' \in Nav, Served(nav'), nav'.RP_num # nav'.TotalCardNum
    PROVE  \E now \in Moves : Promise!GoesOn(now)
<1>1. PICK now \in Moves : now = TilesRead(nav')
  BY DEF Served
<1>2. Good(nav') /\ SameSizes(nav') /\ InRound(nav') /\ Low(nav') /\ nav'.IsXPFinished = FALSE
  BY DEF Served, InRound
<1>3. \A r \in Reader : Promise!IsComplete(now, r) <=> Complete(nav', r)
  BY <1>2, <1>1, CountsAgree DEF SameSizes
<1>4. \E r \in Reader : ~Complete(nav', r)
  <2> SUFFICES ASSUME \A r \in Reader : Complete(nav', r) PROVE FALSE
    OBVIOUS
  <2>1. \A r \in Reader : nav'.PAI_position[r] = nav'.PAI_num[r]
    BY <1>2, NavRanges DEF Complete, Low
  <2>2. nav'.PAI_position = nav'.PAI_num
    BY <2>1 DEF Nav
  <2>3. nav'.RP_num = NumTiles(nav'.PAI_num)
    BY <1>2, <2>2 DEF Good, Counted
  <2> QED BY <1>2, <2>3 DEF SameSizes
<1>5. nav'.is_handled = [w \in Promise!Wall |-> nav.is_handled[w] \/ w \in Promise!Ready(now)]
  <2>1. \A r \in Reader : nav'.is_handled[r] = TRUE <=>
            nav.is_handled[r] = TRUE \/ r \in Promise!Ready(now)
    BY <1>1 DEF Served
  <2>2. \A r \in Reader : nav'.is_handled[r] \in BOOLEAN /\ nav.is_handled[r] \in BOOLEAN
    BY NavRanges
  <2>3. \A r \in Reader : nav'.is_handled[r] = (nav.is_handled[r] \/ r \in Promise!Ready(now))
    BY <2>1, <2>2
  <2> QED BY <2>3, RoundTypes
<1>6. [r \in Reader |-> Sent(nav'.phone_pais[r])] =
        [w \in Promise!Wall |-> IF w \in Promise!Ready(now) THEN Promise!Shown(now[w])
                                ELSE [r \in Reader |-> Sent(nav.phone_pais[r])][w]]
  <2>1. Given(nav', now, Promise!Ready(now))
    BY <1>1 DEF Served
  <2> QED BY <2>1, RoundTypes DEF Given
<1>7. TilesRead(nav)' = now
  BY <1>1, Afterwards
<1>8. nav'.PAI_num = nav.PAI_num
  BY <1>2 DEF SameSizes
<1>9. \E w \in Promise!Wall : ~Promise!IsComplete(now, w)
  BY <1>3, <1>4, RoundTypes
<1>10. Promise!GoesOn(now)
  BY <1>2, <1>5, <1>6, <1>7, <1>8, <1>9 DEF Promise!GoesOn, Promise!Give
<1> QED BY <1>10

LEMMA OverEnds ==
    ASSUME nav \in Nav, nav.IsXPFinished = FALSE, nav' \in Nav, Over(nav')
    PROVE  \E now \in Moves : Promise!Ends(now)
<1>1. PICK now \in Moves : Given(nav', now, Promise!Ready(now) \cup Unsent(now))
  BY DEF Over
<1>2. SameSizes(nav') /\ Empty(nav') /\ nav'.IsXPFinished = TRUE
  BY DEF Over
<1>3. TilesRead(nav)' = Promise!Nothing
  <2>1. \A r \in Reader : nav'.PAI_position[r] = 0
    BY <1>2 DEF Empty
  <2>2. TilesRead(nav') = Promise!Nothing
    BY <2>1, NothingRead
  <2> QED BY <2>2, Afterwards
<1>4. nav'.is_handled = [w \in Promise!Wall |-> FALSE]
  BY <1>2, RoundTypes DEF Empty
<1>5. [r \in Reader |-> Sent(nav'.phone_pais[r])] =
        [w \in Promise!Wall |->
            IF w \in Promise!Ready(now) \cup {v \in Promise!Wall : Promise!MoreThanHalf(now)
                                                                     /\ ~nav.is_handled[v]}
            THEN Promise!Shown(now[w]) ELSE [r \in Reader |-> Sent(nav.phone_pais[r])][w]]
  <2>1. {v \in Promise!Wall : Promise!MoreThanHalf(now) /\ ~nav.is_handled[v]} = Unsent(now)
    BY RoundTypes, NavRanges DEF Unsent
  <2> QED BY <1>1, <2>1, RoundTypes DEF Given
<1>6. Promise!Ends(now)
  BY <1>2, <1>3, <1>4, <1>5 DEF Promise!Ends, Promise!Give, SameSizes
<1> QED BY <1>6

LEMMA InitRound == Init => RoundInv /\ Promise!Init
<1> SUFFICES ASSUME Init PROVE RoundInv /\ Promise!Init
  OBVIOUS
<1>1. PICK counts \in [Reader -> WallCounts \cap Place] : nav = NavigatorInit(counts)
  BY DEF Init
<1>2. PromptInv /\ PollingInv /\ nav \in Nav
  BY InitGood, InitPolling DEF PromptInv, CleanInv, TypeInv, TypeOK
<1>3. /\ nav.PAI_num \in [Reader -> Place] /\ nav.IsXPFinished = TRUE /\ nav.is_handled = All(FALSE)
      /\ \A r \in Reader : nav.PAI_position[r] = 0
      /\ \A r \in Reader : Sent(nav.phone_pais[r]) = [p \in Place |-> NoTile]
  BY <1>1 DEF NavigatorInit, All, Sent
<1>4. Empty(nav)
  BY <1>3 DEF Empty, All
<1>5. InRound(nav)
  BY <1>2, <1>4, EmptyInRound DEF PollingInv, NoEmptyWall, NotEmpty
<1>6. TilesRead(nav) = Promise!Nothing
  BY <1>3, NothingRead
<1>7. nav.is_handled = [w \in Promise!Wall |-> FALSE]
  BY <1>3 DEF All, Promise!Wall, Reader
<1>8. [r \in Reader |-> Sent(nav.phone_pais[r])] = [w \in Promise!Wall |-> Promise!Shown(<<>>)]
  <2>1. Promise!Shown(<<>>) = [p \in Place |-> NoTile]
    BY DEF Promise!Shown, Place
  <2> QED BY <1>3, <2>1 DEF Promise!Wall, Reader
<1>9. nav.PAI_num \in [Promise!Wall -> Place]
  BY <1>3 DEF Promise!Wall, Reader
<1>10. Promise!Init
  BY <1>3, <1>6, <1>7, <1>8, <1>9 DEF Promise!Init
<1> QED BY <1>2, <1>5, <1>10 DEF RoundInv

LEMMA NextRound ==
    ASSUME ~LateReplies, ~MayReconfigure, RoundInv, [Next]_vars
    PROVE  RoundInv' /\ [Promise!Next]_Promise!vars
<1>1. /\ TypeInv /\ nav \in Nav /\ Good(nav) /\ InRound(nav) /\ Clean(nav)
      /\ PromptInv /\ PollingInv /\ nav.TotalCardNum = NumTiles(nav.PAI_num)
      /\ NoEmptyWall /\ NotEmpty(nav)
  BY DEF RoundInv, PromptInv, CleanInv, TypeInv, TypeOK, PollingInv, Ahead, NoEmptyWall, NotEmpty
<1>2. PromptInv' /\ PollingInv' /\ nav' \in Nav /\ NotEmpty(nav')
  <2>1. PromptInv'
    BY <1>1, SizesStay, NextGood
  <2>2. PollingInv'
    BY <1>1, NextPolling
  <2> QED BY <2>1, <2>2 DEF PromptInv, PollingInv, CleanInv, TypeInv, TypeOK, NoEmptyWall, NotEmpty
<1>3. SUFFICES InRound(nav') /\ [Promise!Next]_Promise!vars
  BY <1>2 DEF RoundInv, InRound, Kept, Low, Waits, Complete, Wall, Sent
<1>4. CASE NewRound
  <2> DEFINE t == ClearReaderData(nav, Reader)
  <2>1. nav.IsXPFinished = TRUE
    BY <1>1, <1>4, NavRanges DEF NewRound
  <2>2. Empty(nav)
    BY <1>1, <2>1 DEF Clean, Empty
  <2>3. /\ t \in Nav /\ t.PAI_num = nav.PAI_num /\ t.phone_pais = nav.phone_pais
        /\ \A r \in Reader : t.PAI_position[r] = 0 /\ t.is_handled[r] = FALSE
    <3>1. Reader \in SUBSET Reader
      OBVIOUS
    <3> QED BY <1>1, <3>1, ClearEffect
  <2>4. nav' = [t EXCEPT !.IsXPFinished = FALSE, !.RP_ovtimer = 0]
    BY <1>4 DEF NewRound
  <2> HIDE DEF t
  <2>5. /\ nav'.PAI_num = nav.PAI_num /\ nav'.phone_pais = nav.phone_pais
        /\ nav'.IsXPFinished = FALSE
        /\ \A r \in Reader : nav'.PAI_position[r] = 0 /\ nav'.is_handled[r] = FALSE
    BY <2>3, <2>4 DEF Nav
  <2>6. InRound(nav')
    BY <1>2, <2>5, EmptyInRound DEF Empty
  <2>7. TilesRead(nav)' = TilesRead(nav)
    <3>1. TilesRead(nav) = Promise!Nothing
      BY <2>2, NothingRead DEF Empty
    <3>2. TilesRead(nav') = Promise!Nothing
      BY <2>5, NothingRead
    <3> QED BY <3>1, <3>2, Afterwards
  <2>8. nav'.is_handled = nav.is_handled
    BY <1>1, <1>2, <2>2, <2>5, RoundTypes DEF Empty
  <2>9. Promise!Begin
    BY <2>1, <2>5, <2>7, <2>8 DEF Promise!Begin
  <2> QED BY <2>6, <2>9 DEF Promise!Next
<1>5. CASE Reader_ReadInside \/ TxActive \/ TxFinish \/ Tick \/ UNCHANGED vars
           \/ \E counts \in [Reader -> WallCounts] : Phone_SetPaiCount(counts)
  <2>1. /\ nav'.is_handled = nav.is_handled /\ nav'.PAI_position = nav.PAI_position
        /\ nav'.PAI_Cache_dat = nav.PAI_Cache_dat /\ nav'.phone_pais = nav.phone_pais
        /\ nav'.PAI_num = nav.PAI_num /\ nav'.IsXPFinished = nav.IsXPFinished
    BY <1>1, <1>5 DEF Reader_ReadInside, TxActive, TxFinish, Tick, Phone_SetPaiCount, vars, Nav
  <2>2. InRound(nav')
    <3>1. \A r \in Reader : /\ Sent(Wall(nav', r)) = Sent(Wall(nav, r))
                            /\ Complete(nav', r) <=> Complete(nav, r)
      BY <1>1, <1>2, <2>1, SameSentWall DEF Complete
    <3> QED BY <1>1, <2>1, <3>1 DEF InRound, Kept, Low, Waits
  <2>3. TilesRead(nav)' = TilesRead(nav)
    BY <2>1 DEF TilesRead
  <2> QED BY <2>1, <2>2, <2>3 DEF Promise!vars
<1>6. CASE ReaderAnswers \/ PollOverTime
  <2>1. PICK handled \in Nav, rxOk \in BOOLEAN :
          /\ \/ handled = nav
             \/ \E m \in AnyAnswer : /\ m.reader = nav.currentReader
                                     /\ [reader |-> m.reader, command |-> m.command] \in air
                                     /\ handled = Reader_HandleInsideMessage(nav, m)
          /\ LET checked == Reader_CheckReceived(handled, rxOk)
             IN  /\ checked \in Nav
                 /\ nav' = EndComplete(checked) \/ nav' = Reader_CheckOverTime(checked)
    BY <1>1, <1>6, PollSteps
  <2>2. nav.RP_mode = "kWaitReaderAck" /\ nav.PAI_position[nav.currentReader] < MAX_WALL_CARD
    BY <1>1, <1>6, PollSteps
  <2>3. nav.IsXPFinished = FALSE /\ ~Complete(nav, nav.currentReader)
    BY <1>1, <2>2 DEF PollingInv, CleanInv, PollInRound, Asking
  <2>4. Polled(handled) \/ Over(handled)
    <3>1. ASSUME NEW m \in AnyAnswer, m.reader = nav.currentReader,
                 [reader |-> m.reader, command |-> m.command] \in air
          PROVE  LET h == Reader_HandleInsideMessage(nav, m) IN Polled(h) \/ Over(h)
      <4>1. [reader |-> m.reader, command |-> m.command] = Outstanding(nav)
        BY <1>1, <3>1 DEF PromptInv, OwnAnswer
      <4> QED BY <1>1, <2>2, <2>3, <3>1, <4>1, HandlePolled
    <3> QED BY <1>1, <2>1, <2>3, <3>1, NavPolled
  <2> DEFINE checked == Reader_CheckReceived(handled, rxOk)
  <2>5. checked \in Nav /\ (nav' = EndComplete(checked) \/ nav' = Reader_CheckOverTime(checked))
    BY <2>1
  <2>6. Served(checked) \/ Over(checked)
    BY <1>1, <2>1, <2>4, CheckReceivedServes
  <2> HIDE DEF checked
  <2>7. Over(Reader_FinishXP(checked))
    BY <1>1, <2>5, <2>6, FinishOver
  <2>8. \/ nav' = Reader_FinishXP(checked)
        \/ nav' = checked /\ checked.RP_num # checked.TotalCardNum
    <3>1. CASE nav' = EndComplete(checked)
      BY <3>1 DEF EndComplete
    <3>2. CASE nav' = Reader_CheckOverTime(checked)
      BY <2>5, <3>2, NavRanges DEF Reader_CheckOverTime
    <3> QED BY <2>5, <3>1, <3>2
  <2>9. Over(nav') \/ (Served(nav') /\ nav'.RP_num # nav'.TotalCardNum)
    BY <2>6, <2>7, <2>8
  <2>10. CASE Over(nav')
    <3>1. InRound(nav')
      BY <1>2, <2>10, EmptyInRound DEF Over
    <3>2. Promise!Next
      BY <1>1, <1>2, <2>3, <2>10, OverEnds DEF Promise!Next, Moves
    <3> QED BY <3>1, <3>2
  <2>11. CASE Served(nav') /\ nav'.RP_num # nav'.TotalCardNum
    <3>1. InRound(nav')
      BY <2>11 DEF Served
    <3>2. Promise!Next
      BY <1>1, <1>2, <2>3, <2>11, ServedGoesOn DEF Promise!Next, Moves
    <3> QED BY <3>1, <3>2
  <2> QED BY <2>9, <2>10, <2>11
<1> QED BY <1>4, <1>5, <1>6 DEF Next, LoopTurn

\* The walls get to the phone as Round promises, whatever is lost on the air: as long
\* as no reader answers late and the phone leaves the wall sizes alone.
THEOREM RoundsAreKept ==
    ASSUME ~LateReplies, ~MayReconfigure
    PROVE  Spec => RoundsAsPromised
<1>1. Init => RoundInv /\ Promise!Init
  BY InitRound
<1>2. RoundInv /\ [Next]_vars => RoundInv' /\ [Promise!Next]_Promise!vars
  BY NextRound
<1> QED BY <1>1, <1>2, PTL DEF Spec, RoundsAsPromised, Promise!Spec

--------------------------------------------------------------------------------
(* What follows for the tiles of a round: none that was read is lost. *)

HalfReadWallsDelivered ==
    [][~nav.IsXPFinished /\ nav'.IsXPFinished /\ nav.RP_num > nav.TotalCardNum \div 2
         => \A r \in Reader : \A p \in 1 .. nav.PAI_position[r] :
                Sent(nav'.phone_pais[r])[p] = nav.PAI_Cache_dat[r][p]]_vars

\* One more tile leaves the others where they are.
LEMMA MovesKeep ==
    ASSUME nav \in Nav, Good(nav), NEW now \in Moves, NEW r \in Reader
    PROVE  /\ Len(now[r]) \in nav.PAI_position[r] .. nav.PAI_position[r] + 1
           /\ \A p \in 1 .. nav.PAI_position[r] : now[r][p] = nav.PAI_Cache_dat[r][p]
<1>1. /\ TilesRead(nav) \in [Reader -> Seq(Tile)] /\ nav.PAI_position[r] \in Nat
      /\ Len(TilesRead(nav)[r]) = nav.PAI_position[r]
      /\ \A p \in 1 .. nav.PAI_position[r] : TilesRead(nav)[r][p] = nav.PAI_Cache_dat[r][p]
  BY TilesAre, NavRanges
<1>2. CASE now = TilesRead(nav)
  BY <1>1, <1>2
<1>3. CASE now \in Promise!OneMore
  <2>1. PICK w \in Reader, t \in Tile : now = [TilesRead(nav) EXCEPT ![w] = Append(@, t)]
    BY <1>3 DEF Promise!OneMore, Promise!Wall, Reader
  <2>2. CASE r # w
    BY <1>1, <2>1, <2>2
  <2>3. CASE r = w
    <3>1. now[r] = Append(TilesRead(nav)[r], t) /\ TilesRead(nav)[r] \in Seq(Tile)
      BY <1>1, <2>1, <2>3
    <3>2. /\ Len(now[r]) = Len(TilesRead(nav)[r]) + 1
          /\ \A p \in 1 .. Len(TilesRead(nav)[r]) : now[r][p] = TilesRead(nav)[r][p]
      BY <3>1, AppendProperties
    <3> QED BY <1>1, <3>2
  <2> QED BY <2>2, <2>3
<1> QED BY <1>2, <1>3 DEF Moves

\* If more than half was read before the last poll, so it was after it.
LEMMA MovesHalf ==
    ASSUME nav \in Nav, Good(nav), InRound(nav), nav.TotalCardNum = NumTiles(nav.PAI_num),
           NEW now \in Moves, Half(nav)
    PROVE  Promise!MoreThanHalf(now)
<1>1. CASE now = TilesRead(nav)
  BY <1>1, CountsAgree DEF InRound
<1>2. CASE now \in Promise!OneMore
  <2> DEFINE f == [w \in Promise!Wall |-> Len(now[w])]
  <2>1. PICK w \in Reader, t \in Tile : /\ now = [TilesRead(nav) EXCEPT ![w] = Append(@, t)]
                                        /\ Len(TilesRead(nav)[w]) < nav.PAI_num[w]
    BY <1>2 DEF Promise!OneMore, Promise!Wall, Reader
  <2>2. /\ TilesRead(nav) \in [Reader -> Seq(Tile)]
        /\ \A r \in Reader : Len(TilesRead(nav)[r]) = nav.PAI_position[r]
    BY TilesAre
  <2>3. \A r \in Reader : f[r] = IF r = w THEN nav.PAI_position[r] + 1 ELSE nav.PAI_position[r]
    <3> SUFFICES ASSUME NEW r \in Reader
                 PROVE  Len(now[r]) = IF r = w THEN nav.PAI_position[r] + 1 ELSE nav.PAI_position[r]
      BY RoundTypes
    <3>1. CASE r = w
      <4>1. now[r] = Append(TilesRead(nav)[r], t) /\ TilesRead(nav)[r] \in Seq(Tile)
        BY <2>1, <2>2, <3>1
      <4> QED BY <2>2, <3>1, <4>1, AppendProperties
    <3>2. CASE r # w
      BY <2>1, <2>2, <3>2
    <3> QED BY <3>1, <3>2
  <2>4. f \in [Reader -> 0 .. MAX_WALL_CARD]
    <3>1. nav.PAI_position[w] + 1 \in 0 .. MAX_WALL_CARD
      <4>1. nav.PAI_num[w] \in 0 .. MAX_WALL_CARD /\ nav.PAI_position[w] \in 0 .. MAX_WALL_CARD
        BY DEF Nav
      <4>2. nav.PAI_position[w] < nav.PAI_num[w]
        BY <2>1, <2>2
      <4> QED BY <4>1, <4>2, ReadersAssumption
    <3>2. \A r \in Reader : f[r] \in 0 .. MAX_WALL_CARD
      BY <2>3, <3>1 DEF Nav
    <3> QED BY <3>2, RoundTypes
  <2>5. nav.PAI_position \in [Reader -> 0 .. MAX_WALL_CARD]
    BY DEF Nav
  <2> HIDE DEF f
  <2>6. \A r \in Reader : nav.PAI_position[r] <= f[r]
    BY <2>3, NavRanges
  <2>7. NumTiles(nav.PAI_position) <= NumTiles(f)
    BY <2>4, <2>5, <2>6, NumTilesMonotone
  <2>8. NumTiles(f) > NumTiles(nav.PAI_num) \div 2
    <3>1. NumTiles(f) \in Nat /\ nav.RP_num \in Nat /\ nav.TotalCardNum \in Nat
      BY <2>4, NumTilesType, NavRanges, ReadersAssumption
    <3>2. nav.RP_num = NumTiles(nav.PAI_position) /\ nav.RP_num > nav.TotalCardNum \div 2
      BY DEF Good, Counted, Half
    <3> QED BY <2>7, <3>1, <3>2
  <2>9. Promise!Total(f) = NumTiles(f) /\ Promise!Total(nav.PAI_num) = NumTiles(nav.PAI_num)
    <3>1. nav.PAI_num \in [Reader -> 0 .. MAX_WALL_CARD]
      BY DEF Nav
    <3> QED BY <2>4, <3>1, TotalIsNumTiles
  <2> QED BY <2>8, <2>9 DEF Promise!MoreThanHalf, f
<1> QED BY <1>1, <1>2 DEF Moves

\* Whatever ends a round of which more than half was read, every tile in a reader's
\* cache is in the phone's wall for it, in the order they were read: as long as no
\* reader answers late and the phone leaves the wall sizes alone.
THEOREM HalfReadWallsKept ==
    ASSUME ~LateReplies, ~MayReconfigure
    PROVE  Spec => HalfReadWallsDelivered
<1>1. Init => RoundInv
  BY InitRound
<1>2. RoundInv /\ [Next]_vars => RoundInv'
  BY NextRound
<1>3. RoundInv /\ [Next]_vars =>
        [~nav.IsXPFinished /\ nav'.IsXPFinished /\ nav.RP_num > nav.TotalCardNum \div 2
          => \A r \in Reader : \A p \in 1 .. nav.PAI_position[r] :
                Sent(nav'.phone_pais[r])[p] = nav.PAI_Cache_dat[r][p]]_vars
  <2> SUFFICES ASSUME RoundInv, [Next]_vars,
                      ~nav.IsXPFinished, nav'.IsXPFinished, Half(nav),
                      NEW r \in Reader, NEW p \in 1 .. nav.PAI_position[r]
               PROVE  Sent(nav'.phone_pais[r])[p] = nav.PAI_Cache_dat[r][p]
    BY DEF Half
  <2>1. /\ nav \in Nav /\ Good(nav) /\ InRound(nav) /\ nav.TotalCardNum = NumTiles(nav.PAI_num)
    BY DEF RoundInv, PromptInv, CleanInv, TypeInv, TypeOK, PollingInv, Ahead
  <2>2. PICK now \in Moves : Promise!Ends(now)
    <3>1. [Promise!Next]_Promise!vars
      BY NextRound
    <3> QED BY <3>1 DEF Promise!Next, Promise!Begin, Promise!GoesOn, Promise!vars, Moves
  <2>3. Sent(nav'.phone_pais[r]) =
           IF r \in Promise!Ready(now) \cup {w \in Promise!Wall : Promise!MoreThanHalf(now)
                                                                    /\ ~nav.is_handled[w]}
           THEN Promise!Shown(now[r]) ELSE Sent(nav.phone_pais[r])
    BY <2>1, <2>2, RoundTypes DEF Promise!Ends, Promise!Give
  <2>4. Promise!MoreThanHalf(now) /\ r \in Promise!Wall
    BY <2>1, MovesHalf, RoundTypes
  <2>5. p \in Place /\ p <= nav.PAI_position[r]
    <3>1. nav.PAI_position[r] \in 0 .. MAX_WALL_CARD
      BY <2>1 DEF Nav
    <3> QED BY <3>1, ReadersAssumption DEF Place
  <2>6. Promise!Shown(now[r])[p] = nav.PAI_Cache_dat[r][p]
    <3>1. /\ Len(now[r]) \in nav.PAI_position[r] .. nav.PAI_position[r] + 1
          /\ now[r][p] = nav.PAI_Cache_dat[r][p] /\ nav.PAI_position[r] \in Nat
      BY <2>1, MovesKeep, NavRanges
    <3> QED BY <2>5, <3>1 DEF Promise!Shown, Place
  <2>7. CASE nav.is_handled[r] = TRUE
    <3>1. Sent(nav.phone_pais[r]) = Sent(Wall(nav, r))
      BY <2>1, <2>7 DEF InRound, Kept
    <3>2. Sent(Wall(nav, r))[p] = nav.PAI_Cache_dat[r][p]
      <4>1. p <= nav.PAI_num[r]
        BY <2>1, <2>5, NavRanges DEF InRound, Low, Place
      <4> QED BY <2>1, <2>5, <4>1, SentWall
    <3> QED BY <2>3, <2>6, <3>1, <3>2
  <2>8. CASE nav.is_handled[r] = FALSE
    BY <2>3, <2>4, <2>6, <2>8
  <2> QED BY <2>1, <2>7, <2>8, NavRanges
<1> QED BY <1>1, <1>2, <1>3, PTL DEF Spec, HalfReadWallsDelivered
================================================================================
