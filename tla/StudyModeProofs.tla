---------------------------- MODULE StudyModeProofs ----------------------------
(* The types of study mode, and that its search for the next reader ends, for   *)
(* every number of readers and whatever study_msg.command was at first.         *)
EXTENDS StudyMode, TLAPS

\* Study mode is left as soon as every reader has answered.
SomeoneLeft == study.on => ~AllLearned(study.isLearned)

StudyInv == TypeOK /\ SomeoneLeft

Commands == First \cup Readers \cup {0}
Marks    == [Readers -> 0 .. 2]

Study == [on : BOOLEAN, status : 0 .. 3, command : Commands, isLearned : Marks, over : BOOLEAN]

Chip == [state : {"idle", "starts", "sending", "receives"}, fifo : Frames, IOCFG2 : {6, 7}]

--------------------------------------------------------------------------------

LEMMA ChipTyped ==
    ASSUME NEW c \in Chip
    PROVE  /\ SendPacketAsync(c) \in Chip /\ RXMode(c) \in Chip /\ ReceivePacket(c) \in Chip
  BY DEF Chip, SendPacketAsync, RXMode, ReceivePacket, Frames

LEMMA InitStudy == Init => StudyInv
<1> SUFFICES ASSUME Init PROVE StudyInv
  OBVIOUS
<1>1. study \in Study /\ ~study.on
  BY DEF Init, Study, Commands, Marks
<1>2. chip \in Chip
  BY DEF Init, Chip, Frames
<1> QED BY <1>1, <1>2 DEF Init, StudyInv, TypeOK, SomeoneLeft, Study, Commands, Marks, Chip

LEMMA NextReaderTyped == TypeOK => NextReader(study.command) \subseteq Readers \cup {0}
  BY DEF NextReader, Unskipped

\* Whatever a turn makes of study, Goes leaves study mode on only if a reader is left.
LEMMA GoesKeeps ==
    ASSUME NEW s \in Study, Goes(s)
    PROVE  study' \in Study /\ SomeoneLeft'
<1> DEFINE next == [s EXCEPT !.on = ~AllLearned(s.isLearned)]
<1>1. study' = next
  BY DEF Goes
<1>2. next \in Study /\ next.on = ~AllLearned(s.isLearned) /\ next.isLearned = s.isLearned
  BY DEF Study, AllLearned
<1> QED BY <1>1, <1>2 DEF SomeoneLeft

LEMMA CountsTyped ==
    ASSUME TypeOK, NEW f \in Learned
    PROVE  Counts(f) \in Study
<1>1. study \in Study /\ f.reader \in Readers
  BY DEF TypeOK, Study, Commands, Marks, Learned
<1> DEFINE more == IF study.isLearned[f.reader] = 2 THEN 2 ELSE study.isLearned[f.reader] + 1
<1>2. more \in 0 .. 2
  BY <1>1 DEF Study, Marks
<1>3. [study.isLearned EXCEPT ![f.reader] = more] \in Marks
  BY <1>1, <1>2 DEF Study, Marks
<1> HIDE DEF more
<1>4. [study EXCEPT !.status = 0, !.isLearned = [study.isLearned EXCEPT ![f.reader] = more]] \in Study
  <2>1. [study EXCEPT !.status = 0] \in Study
    BY <1>1 DEF Study
  <2>2. [[study EXCEPT !.status = 0] EXCEPT !.isLearned = [study.isLearned EXCEPT ![f.reader] = more]]
          \in Study
    BY <1>3, <2>1 DEF Study
  <2> QED BY <2>2
<1>5. Counts(f) = [study EXCEPT !.status = 0,
                                !.isLearned = [study.isLearned EXCEPT ![f.reader] = more]]
  BY <1>1 DEF Counts, Study, Marks, more
<1> QED BY <1>4, <1>5

LEMMA TurnKeeps == StudyInv /\ StudyTurn => StudyInv'
<1> SUFFICES ASSUME StudyInv, StudyTurn PROVE StudyInv'
  OBVIOUS
<1>1. study \in Study /\ chip \in Chip /\ reader_tmr \in 0 .. 3
  BY DEF StudyInv, TypeOK, Study, Commands, Marks, Chip
<1>2. RP_mode' = RP_mode
  BY DEF StudyTurn
<1>3. SUFFICES study' \in Study /\ SomeoneLeft' /\ chip' \in Chip /\ reader_tmr' \in 0 .. 3
  BY <1>2 DEF StudyInv, TypeOK, Study, Commands, Marks, Chip
<1>4. CASE Ask
  <2>1. PICK r \in NextReader(study.command) : Goes([study EXCEPT !.status = 1, !.command = r])
    BY <1>4 DEF Ask
  <2>2. r \in Readers \cup {0}
    BY <2>1, NextReaderTyped DEF StudyInv
  <2>3. r \in Commands
    BY <2>2 DEF Commands
  <2>4. [study EXCEPT !.status = 1, !.command = r] \in Study
    <3>1. [study EXCEPT !.status = 1] \in Study
      BY <1>1 DEF Study
    <3>2. [[study EXCEPT !.status = 1] EXCEPT !.command = r] \in Study
      BY <2>3, <3>1 DEF Study
    <3> QED BY <3>2
  <2> QED BY <1>1, <1>4, <2>1, <2>4, GoesKeeps, ChipTyped DEF Ask
<1>5. CASE Starts
  <2>1. [study EXCEPT !.status = 2] \in Study
    BY <1>1 DEF Study
  <2> QED BY <1>1, <1>5, <2>1, GoesKeeps DEF Starts
<1>6. CASE Sent
  <2>1. [study EXCEPT !.status = 3] \in Study
    BY <1>1 DEF Study
  <2> QED BY <1>1, <1>6, <2>1, GoesKeeps, ChipTyped DEF Sent
<1>7. CASE Hears
  <2>1. reader_tmr' = reader_tmr /\ chip' \in Chip
    BY <1>1, <1>7, ChipTyped DEF Hears
  <2>2. CASE chip.fifo \in Learned
    BY <1>1, <1>7, <2>1, <2>2, GoesKeeps, CountsTyped DEF Hears, StudyInv
  <2>3. CASE chip.fifo \notin Learned
    BY <1>1, <1>7, <2>1, <2>3 DEF Hears, StudyInv, SomeoneLeft
  <2> QED BY <2>2, <2>3
<1>8. CASE HearsNothing
  <2>1. reader_tmr' = reader_tmr /\ chip' \in Chip
    BY <1>1, <1>8, ChipTyped DEF HearsNothing
  <2>2. [study EXCEPT !.status = 0] \in Study
    BY <1>1 DEF Study
  <2>3. CASE reader_tmr = 3
    BY <1>1, <1>8, <2>1, <2>2, <2>3, GoesKeeps DEF HearsNothing
  <2>4. CASE reader_tmr # 3
    BY <1>1, <1>8, <2>1, <2>4 DEF HearsNothing, StudyInv, SomeoneLeft
  <2> QED BY <2>3, <2>4
<1> QED BY <1>4, <1>5, <1>6, <1>7, <1>8 DEF StudyTurn

LEMMA PollKeeps == StudyInv /\ Reader_GetMessage => StudyInv'
<1> SUFFICES ASSUME StudyInv, Reader_GetMessage PROVE StudyInv'
  OBVIOUS
<1>1. study' = study /\ chip \in Chip /\ reader_tmr \in 0 .. 3
  BY DEF StudyInv, TypeOK, Chip, Reader_GetMessage
<1>2. chip' \in Chip /\ reader_tmr' \in 0 .. 3
  BY <1>1, ChipTyped DEF Reader_GetMessage, SendRFCommand, TxActive, TxFinish, PollEnds
<1>3. RP_mode' \in {"kRequestReader", "kWaitTxActive", "kWaitTxFinish", "kWaitReaderAck"}
  BY DEF Reader_GetMessage, SendRFCommand, TxActive, TxFinish, PollEnds
<1> QED BY <1>1, <1>2, <1>3 DEF StudyInv, TypeOK, SomeoneLeft, Chip

LEMMA NextStudy == StudyInv /\ [Next]_vars => StudyInv'
<1> SUFFICES ASSUME StudyInv, [Next]_vars PROVE StudyInv'
  OBVIOUS
<1> USE DEF StudyInv, TypeOK, SomeoneLeft
<1>1. CASE EnterStudyMode
  <2>1. PICK c \in First :
           study' = [on |-> TRUE, status |-> 0, command |-> c,
                     isLearned |-> [r \in Readers |-> 0], over |-> FALSE]
    BY <1>1 DEF EnterStudyMode
  <2>2. 1 \in Readers
    BY StudyAssumption DEF Readers
  <2> QED BY <1>1, <2>1, <2>2 DEF EnterStudyMode, AllLearned
<1>2. CASE Leave
  BY <1>2 DEF Leave
<1>3. CASE TimeIsUp
  BY <1>3 DEF TimeIsUp
<1>4. CASE Tick
  BY <1>4 DEF Tick
<1>5. CASE ChipSends
  BY <1>5 DEF ChipSends
<1>6. CASE ChipReceives
  BY <1>6 DEF ChipReceives
<1>7. CASE UNCHANGED vars
  BY <1>7 DEF vars
<1> QED BY <1>1, <1>2, <1>3, <1>4, <1>5, <1>6, <1>7, TurnKeeps, PollKeeps DEF Next

--------------------------------------------------------------------------------
(* Theorems. *)

\* Every variable keeps its type; in particular the byte study_msg.command is a reader,
\* 0 or what it was at first.
THEOREM StudyTyped == Spec => []TypeOK
<1>1. StudyInv => TypeOK
  BY DEF StudyInv
<1> QED BY <1>1, InitStudy, NextStudy, PTL DEF Spec

\* The search for the next reader finds one.
THEOREM SearchAlwaysEnds == Spec => []SearchEnds
<1>1. StudyInv => SearchEnds
  BY DEF StudyInv, TypeOK, SomeoneLeft, SearchEnds, AllLearned, Unskipped
<1> QED BY <1>1, InitStudy, NextStudy, PTL DEF Spec
================================================================================
