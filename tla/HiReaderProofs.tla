----------------------------- MODULE HiReaderProofs -----------------------------
(* The power and switching sequence of the high-power reader, for every set of  *)
(* tiles and size of the rings: no ring outgrows its size, the deleted UART is   *)
(* not used and the RF field is not left on, wherever the link, the power, study *)
(* mode or the UART's interrupt comes in between.                               *)
EXTENDS HiReader, SequenceTheorems, TLAPS

Reading == [tile : Tiles, fresh : BOOLEAN]

\* The shape of nav.
Shape(s) ==
    s \in [rf_power : BOOLEAN, reader_reset : BOOLEAN, reader_uart : BOOLEAN,
           is_open : BOOLEAN, hireader_state : States, due : BOOLEAN,
           tile_backups : Seq(Reading)]

\* The UART is there as long as the reader has power.
PowerMeansUart(s) == s.rf_power => s.reader_uart

\* A ring of CircularBufferA.
Ring(ring, size, S) == ring \in Seq(S) /\ Len(ring) <= size

\* The reader keeps its power while the loop over the ring goes on.
ReaderInv ==
    /\ Shape(nav) /\ PowerMeansUart(nav)
    /\ Ring(nav.tile_backups, BackupSize, Reading) /\ Ring(rx, RxSize, Tiles \cup {Other})
    /\ at \in {"loop", "parsing"} /\ (at = "parsing" => nav.rf_power)
    /\ linked \in BOOLEAN /\ field \in BOOLEAN /\ crashed \in BOOLEAN
    /\ NeverWithoutUart /\ FieldOnlyWhenOn

LEMMA EmptyRing == ASSUME NEW S, NEW size \in Nat PROVE Ring(<<>>, size, S)
  BY EmptySeq DEF Ring

\* A ring that is pushed into stays within its size: a full one loses its oldest.
LEMMA PushFits ==
    ASSUME NEW S, NEW size \in Nat \ {0}, NEW ring, Ring(ring, size, S), NEW e \in S
    PROVE  Ring(Push(ring, size, e), size, S)
<1>1. ring \in Seq(S) /\ Len(ring) <= size /\ Len(ring) \in Nat
  BY LenProperties DEF Ring
<1>2. CASE Len(ring) = size
  <2>1. ring # <<>>
    BY <1>1, <1>2, EmptySeq
  <2>2. Tail(ring) \in Seq(S) /\ Len(Tail(ring)) = Len(ring) - 1
    BY <1>1, <2>1, HeadTailProperties
  <2>3. Append(Tail(ring), e) \in Seq(S) /\ Len(Append(Tail(ring), e)) = Len(Tail(ring)) + 1
    BY <2>2, AppendProperties
  <2> QED BY <1>1, <1>2, <2>2, <2>3 DEF Push, Ring
<1>3. CASE Len(ring) # size
  <2>1. Append(ring, e) \in Seq(S) /\ Len(Append(ring, e)) = Len(ring) + 1
    BY <1>1, AppendProperties
  <2> QED BY <1>1, <1>3, <2>1 DEF Push, Ring
<1> QED BY <1>2, <1>3

--------------------------------------------------------------------------------
(* One turn of HiReader_GetMessage. *)

LEMMA NoticeKeeps ==
    ASSUME NEW s, Shape(s), PowerMeansUart(s)
    PROVE  /\ Shape(NoticePower(s)) /\ PowerMeansUart(NoticePower(s))
           /\ NoticePower(s).rf_power = s.rf_power
           /\ NoticePower(s).tile_backups = s.tile_backups
           /\ ~s.rf_power => NoticePower(s).hireader_state = "kHiReaderPowerOff"
           /\ s.rf_power => NoticePower(s) = s
  BY DEF NoticePower, Shape, PowerMeansUart, States

\* Whatever the state, the reader has power and a UART after the switch: a state
\* other than kHiReaderPowerOff was entered with power on.
LEMMA SwitchPowers ==
    ASSUME NEW s, Shape(s), PowerMeansUart(s),
           s.rf_power \/ s.hireader_state = "kHiReaderPowerOff"
    PROVE  /\ Switch(s).tile_backups = s.tile_backups
           /\ Shape(Switch(s)) /\ Switch(s).rf_power /\ Switch(s).reader_uart
           /\ Command(s) = "kHiReaderOpen" => Switch(s).hireader_state = "kHiReaderRFOn"
           /\ Command(s) = "none" /\ s.hireader_state = "kHiReaderRFOn"
                => Switch(s).hireader_state = "kHiReaderRFOn"
           /\ s.hireader_state = "kHiReaderPowerOff" => Switch(s).reader_reset
<1>1. CASE s.hireader_state = "kHiReaderPowerOff"
  BY <1>1 DEF Switch, Command, Enter, HiReader_PowerOn, Shape, States
<1>2. CASE s.hireader_state = "kHiReaderPowerOnWithChipReset"
  BY <1>2 DEF Switch, Command, Enter, Shape, PowerMeansUart, States
<1>3. CASE s.hireader_state = "kHiReaderPowerOnNoReset"
  BY <1>3 DEF Switch, Command, Enter, Shape, PowerMeansUart, States
<1>4. CASE s.hireader_state = "kHiReaderRFOff"
  BY <1>4 DEF Switch, Command, Enter, Shape, PowerMeansUart, States
<1>5. CASE s.hireader_state = "kHiReaderRFOn"
  BY <1>5 DEF Switch, Command, Enter, Shape, PowerMeansUart, States
<1> QED BY <1>1, <1>2, <1>3, <1>4, <1>5 DEF Shape, States

LEMMA TurnBeginsKeeps == ReaderInv /\ TurnBegins => ReaderInv'
<1> SUFFICES ASSUME ReaderInv, TurnBegins PROVE ReaderInv'
  OBVIOUS
<1>1. PICK s : /\ s = NoticePower(nav) /\ nav' = Switch(s)
               /\ field' = FieldAfter(nav', Command(s))
               /\ crashed' = (crashed \/ (Command(s) # "none" /\ ~nav'.reader_uart))
  BY DEF TurnBegins
<1>2. at' = "parsing" /\ linked' = linked /\ rx' = rx
  BY DEF TurnBegins
<1>3. /\ Shape(s) /\ PowerMeansUart(s)
      /\ s.rf_power = nav.rf_power /\ s.tile_backups = nav.tile_backups
      /\ ~nav.rf_power => s.hireader_state = "kHiReaderPowerOff"
      /\ nav.rf_power => s = nav
  BY <1>1, NoticeKeeps DEF ReaderInv
<1>4. /\ Shape(nav') /\ nav'.rf_power /\ nav'.reader_uart
      /\ nav'.tile_backups = nav.tile_backups
      /\ Command(s) = "kHiReaderOpen" => nav'.hireader_state = "kHiReaderRFOn"
      /\ Command(s) = "none" /\ s.hireader_state = "kHiReaderRFOn"
           => nav'.hireader_state = "kHiReaderRFOn"
      /\ s.hireader_state = "kHiReaderPowerOff" => nav'.reader_reset
  BY <1>1, <1>3, SwitchPowers
<1>5. crashed' = crashed
  BY <1>1, <1>4 DEF ReaderInv
<1>6. field' \in BOOLEAN
  BY <1>1, <1>4 DEF FieldAfter, ReaderInv, Shape
<1>7. ASSUME field' PROVE nav'.hireader_state = "kHiReaderRFOn"
  <2>1. FieldAfter(nav', Command(s))
    BY <1>1, <1>7
  <2>2. CASE Command(s) # "none"
    BY <1>4, <2>1, <2>2 DEF FieldAfter
  <2>3. CASE Command(s) = "none"
    <3>1. ~nav'.reader_reset /\ field
      BY <2>1, <2>3 DEF FieldAfter
    <3>2. nav.rf_power
      BY <1>3, <1>4, <3>1 DEF Shape
    <3>3. s.hireader_state = "kHiReaderRFOn"
      BY <1>3, <3>1, <3>2 DEF ReaderInv, FieldOnlyWhenOn
    <3> QED BY <1>4, <2>3, <3>3
  <2> QED BY <2>2, <2>3
<1> QED BY <1>2, <1>4, <1>5, <1>6, <1>7
     DEF ReaderInv, PowerMeansUart, NeverWithoutUart, FieldOnlyWhenOn

\* A tile goes into the backups; the switching stays where it is.
LEMMA BackupKeeps ==
    ASSUME NEW s, Shape(s), Ring(s.tile_backups, BackupSize, Reading), NEW tile \in Tiles
    PROVE  /\ Shape(Backup(s, tile))
           /\ Ring(Backup(s, tile).tile_backups, BackupSize, Reading)
           /\ Backup(s, tile).rf_power = s.rf_power
           /\ Backup(s, tile).reader_uart = s.reader_uart
           /\ Backup(s, tile).hireader_state = s.hireader_state
<1> DEFINE pushed == Push(s.tile_backups, BackupSize, [tile |-> tile, fresh |-> TRUE])
<1>1. Ring(pushed, BackupSize, Reading)
  BY SizesAssumption, PushFits DEF Reading
<1> HIDE DEF pushed
<1>2. Backup(s, tile) = [s EXCEPT !.tile_backups = pushed,
                                  !.due = @ /\ s.hireader_state # "kHiReaderRFOn"]
  BY DEF Backup, pushed
<1> QED BY <1>1, <1>2 DEF Shape, Ring

LEMMA FrameKeeps == ReaderInv /\ FrameParsed => ReaderInv'
<1> SUFFICES ASSUME ReaderInv, FrameParsed PROVE ReaderInv'
  OBVIOUS
<1>1. /\ rx \in Seq(Tiles \cup {Other}) /\ rx # <<>> /\ Len(rx) <= RxSize
      /\ rx' = Tail(rx) /\ UNCHANGED <<linked, field, at, crashed>>
      /\ nav' = IF Head(rx) \in Tiles THEN Backup(nav, Head(rx)) ELSE nav
  BY DEF FrameParsed, ReaderInv, Ring
<1>2. Ring(rx', RxSize, Tiles \cup {Other})
  <2>1. Tail(rx) \in Seq(Tiles \cup {Other}) /\ Len(Tail(rx)) = Len(rx) - 1 /\ Len(rx) \in Nat
    BY <1>1, HeadTailProperties, LenProperties
  <2> QED BY <1>1, <2>1, SizesAssumption DEF Ring
<1>3. /\ Shape(nav') /\ Ring(nav'.tile_backups, BackupSize, Reading)
      /\ nav'.rf_power = nav.rf_power /\ nav'.reader_uart = nav.reader_uart
      /\ nav'.hireader_state = nav.hireader_state
  <2>1. Shape(nav) /\ Ring(nav.tile_backups, BackupSize, Reading)
    BY DEF ReaderInv
  <2>2. CASE Head(rx) \in Tiles
    BY <1>1, <2>1, <2>2, BackupKeeps
  <2>3. CASE Head(rx) \notin Tiles
    BY <1>1, <2>1, <2>3
  <2> QED BY <2>2, <2>3
<1> QED BY <1>1, <1>2, <1>3 DEF ReaderInv, PowerMeansUart, NeverWithoutUart, FieldOnlyWhenOn

LEMMA TurnEndsKeeps ==
    ASSUME ReaderInv, NEW study \in BOOLEAN, TurnEnds(study) PROVE ReaderInv'
<1>1. /\ nav.rf_power /\ at' = "loop" /\ UNCHANGED <<linked, rx>>
      /\ nav' = [nav EXCEPT !.is_open = @ /\ ~study]
      /\ field' = (field /\ nav'.is_open = nav.is_open)
      /\ crashed' = (crashed \/ (nav'.is_open # nav.is_open /\ ~nav.reader_uart))
  BY DEF TurnEnds, ReaderInv
<1>2. /\ Shape(nav') /\ PowerMeansUart(nav') /\ nav'.tile_backups = nav.tile_backups
      /\ nav'.hireader_state = nav.hireader_state
  BY <1>1 DEF ReaderInv, Shape, PowerMeansUart
<1>3. crashed' = crashed
  BY <1>1 DEF ReaderInv, PowerMeansUart
<1>4. field' \in BOOLEAN /\ (field' => field)
  BY <1>1
<1> QED BY <1>1, <1>2, <1>3, <1>4 DEF ReaderInv, NeverWithoutUart, FieldOnlyWhenOn

LEMMA InitReader == Init => ReaderInv
<1> SUFFICES ASSUME Init PROVE ReaderInv
  OBVIOUS
<1>1. nav = [rf_power |-> FALSE, reader_reset |-> FALSE, reader_uart |-> FALSE,
             is_open |-> FALSE, hireader_state |-> "kHiReaderPowerOff", due |-> FALSE,
             tile_backups |-> <<>>]
  BY DEF Init
<1>2. <<>> \in Seq(Reading)
  BY EmptySeq
<1>3. Shape(nav) /\ PowerMeansUart(nav)
  BY <1>1, <1>2 DEF Shape, States, PowerMeansUart
<1>4. Ring(nav.tile_backups, BackupSize, Reading) /\ Ring(rx, RxSize, Tiles \cup {Other})
  BY <1>1, EmptyRing, SizesAssumption DEF Init
<1> QED BY <1>3, <1>4 DEF Init, ReaderInv, NeverWithoutUart, FieldOnlyWhenOn

LEMMA NextReader == ReaderInv /\ [Next]_vars => ReaderInv'
<1> SUFFICES ASSUME ReaderInv, [Next]_vars PROVE ReaderInv'
  OBVIOUS
<1>1. CASE TurnBegins
  BY <1>1, TurnBeginsKeeps
<1>2. CASE FrameParsed
  BY <1>2, FrameKeeps
<1>3. CASE \E study \in BOOLEAN : TurnEnds(study)
  BY <1>3, TurnEndsKeeps
<1>4. CASE UnlinkedTurn
  <2>1. /\ at = "loop" /\ nav' = HiReader_PowerOff(nav) /\ field' = FALSE
        /\ UNCHANGED <<linked, rx, at, crashed>>
    BY <1>4 DEF UnlinkedTurn
  <2>2. Shape(nav') /\ PowerMeansUart(nav') /\ nav'.tile_backups = nav.tile_backups
    BY <2>1 DEF HiReader_PowerOff, ReaderInv, Shape, PowerMeansUart
  <2> QED BY <2>1, <2>2 DEF ReaderInv, NeverWithoutUart, FieldOnlyWhenOn
<1>5. CASE FrameArrives
  <2>1. PICK f \in Tiles \cup {Other} : rx' = Push(rx, RxSize, f)
    BY <1>5 DEF FrameArrives
  <2>2. Ring(rx', RxSize, Tiles \cup {Other})
    BY <2>1, PushFits, SizesAssumption DEF ReaderInv
  <2>3. UNCHANGED <<nav, linked, field, at, crashed>>
    BY <1>5 DEF FrameArrives
  <2> QED BY <2>2, <2>3 DEF ReaderInv, NeverWithoutUart, FieldOnlyWhenOn
<1>6. CASE TimerDue
  <2>1. nav' = [nav EXCEPT !.due = TRUE] /\ UNCHANGED <<linked, field, rx, at, crashed>>
    BY <1>6 DEF TimerDue
  <2>2. /\ Shape(nav') /\ PowerMeansUart(nav') /\ nav'.hireader_state = nav.hireader_state
        /\ nav'.tile_backups = nav.tile_backups /\ nav'.rf_power = nav.rf_power
    BY <2>1 DEF ReaderInv, Shape, PowerMeansUart
  <2> QED BY <2>1, <2>2 DEF ReaderInv, NeverWithoutUart, FieldOnlyWhenOn
<1>7. CASE ReadingAges
  <2>1. PICK i \in 1 .. Len(nav.tile_backups) :
           nav' = [nav EXCEPT !.tile_backups[i].fresh = FALSE]
    BY <1>7 DEF ReadingAges
  <2> DEFINE old == nav.tile_backups
             aged == [old EXCEPT ![i] = [old[i] EXCEPT !.fresh = FALSE]]
  <2>2. old \in Seq(Reading) /\ Len(old) <= BackupSize
    BY DEF ReaderInv, Ring
  <2>3. Ring(aged, BackupSize, Reading)
    <3>1. old[i] \in Reading
      BY <2>2, ElementOfSeq
    <3>2. [old[i] EXCEPT !.fresh = FALSE] \in Reading
      BY <3>1 DEF Reading
    <3>3. aged \in Seq(Reading) /\ Len(aged) = Len(old)
      BY <2>2, <3>2, ExceptSeq
    <3> QED BY <2>2, <3>3 DEF Ring
  <2>4. nav' = [nav EXCEPT !.tile_backups = aged]
    BY <2>1
  <2> HIDE DEF aged
  <2>5. /\ Shape(nav') /\ PowerMeansUart(nav') /\ nav'.hireader_state = nav.hireader_state
        /\ nav'.tile_backups = aged /\ nav'.rf_power = nav.rf_power
    BY <2>3, <2>4 DEF ReaderInv, Shape, PowerMeansUart, Ring
  <2> QED BY <1>7, <2>3, <2>5 DEF ReadingAges, ReaderInv, NeverWithoutUart, FieldOnlyWhenOn
<1>8. CASE LinkChanges
  BY <1>8 DEF LinkChanges, ReaderInv, NeverWithoutUart, FieldOnlyWhenOn
<1>9. CASE UNCHANGED vars
  BY <1>9 DEF vars, ReaderInv, NeverWithoutUart, FieldOnlyWhenOn
<1> QED BY <1>1, <1>2, <1>3, <1>4, <1>5, <1>6, <1>7, <1>8, <1>9 DEF Next

--------------------------------------------------------------------------------
(* Theorems. *)

\* Every field keeps its type, and neither tile_backups nor rd_buffer outgrows its
\* ring, whenever frames come and whatever the main loop is doing.
THEOREM ReaderTyped == Spec => []TypeOK
<1>1. ReaderInv => TypeOK
  BY DEF TypeOK, ReaderInv, Shape, Ring, Reading
<1> QED BY <1>1, InitReader, NextReader, PTL DEF Spec

\* Neither the switching nor Phone_EnterStudyMode uses the UART that
\* HiReader_PowerOff deleted.
THEOREM UartIsThere == Spec => []NeverWithoutUart
<1>1. ReaderInv => NeverWithoutUart
  BY DEF ReaderInv
<1> QED BY <1>1, InitReader, NextReader, PTL DEF Spec

\* The RF field is on in kHiReaderRFOn only.
THEOREM FieldIsSaved == Spec => []FieldOnlyWhenOn
<1>1. ReaderInv => FieldOnlyWhenOn
  BY DEF ReaderInv
<1> QED BY <1>1, InitReader, NextReader, PTL DEF Spec
================================================================================
