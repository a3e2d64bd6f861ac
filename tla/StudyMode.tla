------------------------------- MODULE StudyMode -------------------------------
(****************************************************************************)
(* Study mode (Phone_EnterStudyMode, main.cpp): the readers are asked in     *)
(* turn to learn the channel, while the rest of the main loop stands still;  *)
(* and the poll of the table readers it interrupts, which takes up the radio *)
(* chip where study mode has left it.                                        *)
(*                                                                          *)
(* The chip (CC1101) is external: it sends, receives one frame, and shows on *)
(* GDO2 what IOCFG2 selects.  An action is one turn of a loop.               *)
(****************************************************************************)
EXTENDS Integers

CONSTANTS kReaders, \* number of readers (4)
          First     \* values of study_msg.command, which is never initialised

Readers == 1 .. kReaders

ASSUME StudyAssumption == kReaders \in 1 .. 254 /\ First \subseteq 0 .. 255 /\ First # {}

VARIABLES
    RP_mode,    \* the poll
    reader_tmr, \* shared by both: 0, or past 10, 30, 100 ms
    study,      \* the locals of Phone_EnterStudyMode
    chip        \* the radio chip

vars == <<RP_mode, reader_tmr, study, chip>>

\* The frame in the FIFO: an answer to a study message, a frame of another kind,
\* one with a wrong checksum, or none.
Learned == [kind : {"learned"}, reader : Readers]
other   == [kind |-> "other"]
broken  == [kind |-> "broken"]
none    == [kind |-> "none"]
Good    == Learned \cup {other}
Frames  == Good \cup {broken, none}

Init ==
    /\ RP_mode = "kRequestReader" /\ reader_tmr = 0
    /\ study = [on |-> FALSE, status |-> 0, command |-> 0, isLearned |-> [r \in Readers |-> 0],
                over |-> FALSE]
    /\ chip = [state |-> "idle", fifo |-> none, IOCFG2 |-> 6]

--------------------------------------------------------------------------------
(* The chip.  IOCFG2 = 6: GDO2 is high while a frame is on the air, 7: while a *)
(* frame with a right checksum is unread.                                     *)

GetGDO2 == IF chip.IOCFG2 = 6 THEN chip.state = "sending" ELSE chip.fifo \in Good

SendPacketAsync(c) == [c EXCEPT !.state = "starts", !.IOCFG2 = 6]
RXMode(c)          == [c EXCEPT !.state = "receives", !.fifo = none, !.IOCFG2 = 7]
ReceivePacket(c)   == [c EXCEPT !.fifo = none]

ChipSends ==
    /\ \/ chip.state = "starts" /\ chip' = [chip EXCEPT !.state = "sending"]
       \/ chip.state = "sending" /\ chip' = [chip EXCEPT !.state = "idle"]
    /\ UNCHANGED <<RP_mode, reader_tmr, study>>

ChipReceives ==
    /\ chip.state = "receives"
    /\ \E f \in Frames \ {none} : chip' = [chip EXCEPT !.state = "idle", !.fifo = f]
    /\ UNCHANGED <<RP_mode, reader_tmr, study>>

Tick ==
    /\ reader_tmr < 3 /\ reader_tmr' = reader_tmr + 1
    /\ UNCHANGED <<RP_mode, study, chip>>

--------------------------------------------------------------------------------
(* The poll, as far as the chip is concerned. *)

SendRFCommand ==
    /\ RP_mode = "kRequestReader"
    /\ RP_mode' = "kWaitTxActive" /\ reader_tmr' = 0 /\ chip' = SendPacketAsync(chip)

\* Mutant: without the 30 ms.
TxActiveWaits ==
    /\ RP_mode = "kWaitTxActive" /\ GetGDO2
    /\ RP_mode' = "kWaitTxFinish"
    /\ UNCHANGED <<reader_tmr, chip>>

TxActive ==
    /\ RP_mode = "kWaitTxActive" /\ (GetGDO2 \/ reader_tmr >= 2)
    /\ RP_mode' = "kWaitTxFinish"
    /\ UNCHANGED <<reader_tmr, chip>>

TxFinish ==
    /\ RP_mode = "kWaitTxFinish" /\ ~GetGDO2
    /\ RP_mode' = "kWaitReaderAck" /\ reader_tmr' = 0 /\ chip' = RXMode(chip)

\* The poll is answered, or over time (after 60 to 240 ms); either way
\* Reader_CheckReceived goes on to the next.
PollEnds ==
    /\ RP_mode = "kWaitReaderAck"
    /\ \/ GetGDO2 /\ chip.fifo \in Good /\ chip' = ReceivePacket(chip)
       \/ ~(GetGDO2 /\ chip.fifo \in Good) /\ reader_tmr = 3 /\ UNCHANGED chip
    /\ RP_mode' = "kRequestReader" /\ UNCHANGED reader_tmr

Reader_GetMessage ==
    /\ ~study.on
    /\ SendRFCommand \/ TxActive \/ TxFinish \/ PollEnds
    /\ UNCHANGED study

--------------------------------------------------------------------------------
(* Study mode. *)

\* The phone asks for it, in any state of the poll.
EnterStudyMode ==
    /\ ~study.on
    /\ \E c \in First :
          study' = [on |-> TRUE, status |-> 0, command |-> c,
                    isLearned |-> [r \in Readers |-> 0], over |-> FALSE]
    /\ UNCHANGED <<RP_mode, reader_tmr, chip>>

\* ++study_msg.command, a byte, and the wrap to 1.
After(command) ==
    LET next == (command + 1) % 256 IN IF next > kReaders THEN 1 ELSE next

\* Readers the loop does not pass over.
Unskipped == {r \in Readers : study.isLearned[r] < 2}

\* Mutant: the command is not wrapped.
NextUnwrapped(command) == {(command + 1) % 256}

\* Mutant: the search begins at the first reader every time.
FromTheFirst(command) == {r \in Unskipped : \A q \in Unskipped : r <= q}

\* The first such reader from After(command) on.  A command that was 255 becomes
\* 0, and isLearned[-1] whatever is there: it is passed over or not.
NextReader(command) ==
    LET start == After(command)
        from  == IF start = 0 THEN 1 ELSE start
        Steps(r) == (r + kReaders - from) % kReaders
    IN  {r \in Unskipped : \A q \in Unskipped : Steps(r) <= Steps(q)}
          \cup IF start = 0 THEN {0} ELSE {}

\* Mutant: a reader has to answer three times.
AnsweredThrice(isLearned) == \A r \in Readers : isLearned[r] > 2

AllLearned(isLearned) == \A r \in Readers : isLearned[r] > 0

\* The loop is left when all have answered.
Goes(s) == study' = [s EXCEPT !.on = ~AllLearned(s.isLearned)]

\* status 0: the next reader is asked.
Ask ==
    /\ study.status = 0
    /\ \E r \in NextReader(study.command) : Goes([study EXCEPT !.status = 1, !.command = r])
    /\ reader_tmr' = 0 /\ chip' = SendPacketAsync(chip)

\* status 1 and 2: the transmission begins and ends, or 30 ms pass.
Starts ==
    /\ study.status = 1 /\ (GetGDO2 \/ reader_tmr >= 2)
    /\ Goes([study EXCEPT !.status = 2])
    /\ reader_tmr' = 0 /\ UNCHANGED chip

Sent ==
    /\ study.status = 2 /\ (~GetGDO2 \/ reader_tmr >= 2)
    /\ Goes([study EXCEPT !.status = 3])
    /\ reader_tmr' = 0 /\ chip' = RXMode(chip)

\* An answer is counted for the reader that gives it, here up to 2: more makes no
\* difference.
Counts(f) == [study EXCEPT !.status = 0, !.isLearned[f.reader] = IF @ = 2 THEN 2 ELSE @ + 1]

\* status 3, ReceivePacket succeeds; a frame that is no answer is dropped and reception goes on.
Hears ==
    /\ study.status = 3 /\ reader_tmr >= 1 /\ chip.fifo \in Good
    /\ IF chip.fifo \in Learned
       THEN Goes(Counts(chip.fifo)) /\ chip' = ReceivePacket(chip)
       ELSE UNCHANGED study /\ chip' = RXMode(chip)
    /\ UNCHANGED reader_tmr

\* It fails: a broken frame is read and lost; after 100 ms the next reader is asked.
HearsNothing ==
    /\ study.status = 3 /\ chip.fifo \notin Good
    /\ (reader_tmr >= 1 /\ chip.fifo = broken) \/ reader_tmr = 3
    /\ chip' = IF reader_tmr >= 1 THEN ReceivePacket(chip) ELSE chip
    /\ IF reader_tmr = 3 THEN Goes([study EXCEPT !.status = 0]) ELSE UNCHANGED study
    /\ UNCHANGED reader_tmr

StudyTurn ==
    /\ study.on /\ ~study.over
    /\ Ask \/ Starts \/ Sent \/ Hears \/ HearsNothing
    /\ UNCHANGED RP_mode

\* The 600000 ms are over: the loop is left as it is.
TimeIsUp ==
    /\ study.on /\ ~study.over /\ study' = [study EXCEPT !.over = TRUE]
    /\ UNCHANGED <<RP_mode, reader_tmr, chip>>

Leave ==
    /\ study.on /\ study.over /\ study' = [study EXCEPT !.on = FALSE]
    /\ UNCHANGED <<RP_mode, reader_tmr, chip>>

Next ==
    \/ Reader_GetMessage \/ EnterStudyMode \/ StudyTurn \/ Leave
    \/ TimeIsUp \/ Tick \/ ChipSends \/ ChipReceives

Spec == Init /\ [][Next]_vars

\* The loops turn, the timer runs, and the chip sends what it is given.  A frame
\* takes milliseconds, a turn far less: between two frames there is a turn that
\* finds none.  The ten minutes need not pass.
FairSpec ==
    /\ Spec
    /\ WF_vars(Reader_GetMessage) /\ WF_vars(StudyTurn) /\ WF_vars(Leave)
    /\ WF_vars(Tick) /\ WF_vars(ChipSends)
    /\ SF_vars(StudyTurn /\ study.status = 3 /\ chip.fifo = none)

--------------------------------------------------------------------------------
(* Properties. *)

TypeOK ==
    /\ RP_mode \in {"kRequestReader", "kWaitTxActive", "kWaitTxFinish", "kWaitReaderAck"}
    /\ reader_tmr \in 0 .. 3
    /\ study \in [on : BOOLEAN, status : 0 .. 3, command : First \cup Readers \cup {0},
                  isLearned : [Readers -> 0 .. 2], over : BOOLEAN]
    /\ chip \in [state : {"idle", "starts", "sending", "receives"}, fifo : Frames,
                 IOCFG2 : {6, 7}]

\* The do-while that looks for the next reader ends: whenever it is reached, there
\* is a reader it does not pass over, because the loop is left before all have
\* answered twice.
SearchEnds == study.on /\ study.status = 0 => Unskipped # {}

\* Every reader that has not answered is asked, again and again, whatever the others
\* answer, unless time is up: none is starved by readers that answer readily.
EveryReaderAsked ==
    \A r \in Readers :
        study.on ~> \/ ~study.on \/ study.over \/ study.isLearned[r] > 0
                    \/ study.command = r /\ study.status = 1

\* After study mode the poll it interrupted goes on, in whatever state the two met:
\* but for one, a frame unread when the time was up, on which kWaitTxFinish, which
\* has no time-out, waits for ever.
Deaf == RP_mode = "kWaitTxFinish" /\ chip.IOCFG2 = 7 /\ chip.fifo \in Good
PollingResumes == ~study.on ~> RP_mode = "kRequestReader" \/ study.on \/ Deaf
================================================================================
