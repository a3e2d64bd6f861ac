-------------------------------- MODULE HiReader --------------------------------
(****************************************************************************)
(* The high-power reader (HighPowerReader.cpp): a chip on a UART that reads  *)
(* single tiles.  The main loop powers it while the phone is linked, leads   *)
(* it out of reset, switches its RF field on and off to save power, parses   *)
(* what it sends and filters out a tile that was read less than a second     *)
(* ago (kRepeatInterval).                                                    *)
(*                                                                          *)
(* The UART's interrupt may come between any two frames that a call of       *)
(* HiReader_GetMessage parses.                                               *)
(*                                                                          *)
(* The ring rd_buffer is a sequence of the frames it holds.  Times matter    *)
(* only against a limit: the switching timer is due or not, an entry of      *)
(* tile_backups is fresh or not.                                             *)
(****************************************************************************)
EXTENDS Integers, Sequences

CONSTANTS
    Tiles,      \* the tiles that may be in the field
    Other,      \* a frame that is no tile: kHiReaderOpenAck, kHiReaderCloseAck
    NoTile,
    BackupSize, \* capacity of tile_backups (10)
    RxSize      \* frames that rd_buffer has room for (128 bytes)

ASSUME FramesAssumption == Other \notin Tiles /\ NoTile \notin Tiles
ASSUME SizesAssumption  == BackupSize \in Nat \ {0} /\ RxSize \in Nat \ {0}

VARIABLES nav,     \* the navigator's globals
          linked,  \* BLE::IsLink
          field,   \* the chip's RF field is on
          rx,      \* frames in rd_buffer
          at,      \* where the main loop is: between its turns, or parsing
          turn,    \* what the last turn did: new tiles read, the tile of which its
                   \* result tells HiReader_DispatchMessage, study mode entered
          crashed  \* reader_uart was used when there was none

vars == <<nav, linked, field, rx, at, turn, crashed>>

States == {"kHiReaderPowerOff", "kHiReaderPowerOnWithChipReset", "kHiReaderPowerOnNoReset",
           "kHiReaderRFOff", "kHiReaderRFOn"}

\* Mutant: a full ring is not made room in.
PushBeyond(ring, size, e) == Append(ring, e)

\* CircularBufferA's push: a full ring loses its oldest element.
Push(ring, size, e) == Append(IF Len(ring) = size THEN Tail(ring) ELSE ring, e)

--------------------------------------------------------------------------------
(* The chip, as the navigator drives it. *)

\* The field after a command: the chip hears it when it has power and is not
\* held in reset.
FieldAfter(s, command) ==
    IF s.rf_power /\ ~s.reader_reset /\ command # "none"
    THEN command = "kHiReaderOpen"
    ELSE s.rf_power /\ ~s.reader_reset /\ field

--------------------------------------------------------------------------------
(* Power and the switching of the field. *)

HiReader_PowerOn(s) ==
    [s EXCEPT !.rf_power = TRUE, !.reader_reset = TRUE, !.reader_uart = TRUE]

\* is_open and hireader_state stay as they are.
HiReader_PowerOff(s) ==
    [s EXCEPT !.rf_power = FALSE, !.reader_reset = FALSE, !.reader_uart = FALSE]

\* The next state, the timer restarted.
Enter(s, state) == [s EXCEPT !.hireader_state = state, !.due = FALSE]

\* Mutant: the state survives a loss of power.
KeepsState(s) == s

\* A reader without power is where it was at the start, whatever it was doing.
NoticePower(s) == IF s.rf_power THEN s ELSE [s EXCEPT !.hireader_state = "kHiReaderPowerOff"]

\* Mutant: the chip is never let out of reset.
HeldInReset(s) ==
    CASE s.hireader_state = "kHiReaderPowerOff" ->
            Enter(HiReader_PowerOn(s), "kHiReaderPowerOnWithChipReset")
      [] s.hireader_state = "kHiReaderPowerOnWithChipReset" /\ s.due ->
            Enter(s, "kHiReaderPowerOnNoReset")
      [] s.hireader_state = "kHiReaderPowerOnNoReset" /\ s.due -> Enter(s, "kHiReaderRFOff")
      [] s.hireader_state = "kHiReaderRFOff" /\ s.due ->
            [Enter(s, "kHiReaderRFOn") EXCEPT !.is_open = TRUE]
      [] s.hireader_state = "kHiReaderRFOn" /\ s.due ->
            [Enter(s, "kHiReaderRFOff") EXCEPT !.is_open = FALSE]
      [] OTHER -> s

\* HiReader_GetMessage's switch on hireader_state.
Switch(s) ==
    CASE s.hireader_state = "kHiReaderPowerOff" ->
            Enter(HiReader_PowerOn(s), "kHiReaderPowerOnWithChipReset")
      [] s.hireader_state = "kHiReaderPowerOnWithChipReset" /\ s.due ->
            [Enter(s, "kHiReaderPowerOnNoReset") EXCEPT !.reader_reset = FALSE]
      [] s.hireader_state = "kHiReaderPowerOnNoReset" /\ s.due -> Enter(s, "kHiReaderRFOff")
      [] s.hireader_state = "kHiReaderRFOff" /\ s.due ->
            [Enter(s, "kHiReaderRFOn") EXCEPT !.is_open = TRUE]
      [] s.hireader_state = "kHiReaderRFOn" /\ s.due ->
            [Enter(s, "kHiReaderRFOff") EXCEPT !.is_open = FALSE]
      [] OTHER -> s

\* Mutant: the field is not switched off.
NeverCloses(s) ==
    IF s.hireader_state = "kHiReaderRFOff" /\ s.due THEN "kHiReaderOpen" ELSE "none"

\* The command that Switch sends: HiReader_OpenRF or HiReader_CloseRF.
Command(s) ==
    CASE s.hireader_state = "kHiReaderRFOff" /\ s.due -> "kHiReaderOpen"
      [] s.hireader_state = "kHiReaderRFOn"  /\ s.due -> "kHiReaderClose"
      [] OTHER -> "none"

--------------------------------------------------------------------------------
(* Receiving. *)

IsNewReaderData(backups, tile) ==
    \A i \in 1 .. Len(backups) : backups[i] # [tile |-> tile, fresh |-> TRUE]

\* A tile read keeps the field on.
Backup(s, tile) ==
    [s EXCEPT !.tile_backups = Push(@, BackupSize, [tile |-> tile, fresh |-> TRUE]),
              !.due = @ /\ s.hireader_state # "kHiReaderRFOn"]

\* What a frame leaves of the call's result: nothing of what came before it.
Result(frame) ==
    IF frame \in Tiles /\ IsNewReaderData(nav.tile_backups, frame)
    THEN [turn EXCEPT !.new = @ \cup {frame}, !.told = frame]
    ELSE [turn EXCEPT !.told = NoTile]

--------------------------------------------------------------------------------
(* Initial state: HiReader_Init. *)

Init ==
    /\ nav = [rf_power |-> FALSE, reader_reset |-> FALSE, reader_uart |-> FALSE,
              is_open |-> FALSE, hireader_state |-> "kHiReaderPowerOff", due |-> FALSE,
              tile_backups |-> <<>>]
    /\ linked = FALSE /\ field = FALSE /\ crashed = FALSE
    /\ rx = <<>> /\ at = "loop"
    /\ turn = [new |-> {}, told |-> NoTile, studied |-> FALSE]

--------------------------------------------------------------------------------
(* The main loop. *)

\* A turn while the phone is linked: HiReader_GetMessage's switch.
TurnBegins ==
    /\ at = "loop" /\ linked
    /\ \E s \in {NoticePower(nav)} :
          /\ nav' = Switch(s)
          /\ field' = FieldAfter(nav', Command(s))
          /\ crashed' = (crashed \/ (Command(s) # "none" /\ ~nav'.reader_uart))
    /\ at' = "parsing"
    /\ turn' = [new |-> {}, told |-> NoTile, studied |-> FALSE]
    /\ UNCHANGED <<linked, rx>>

\* One frame of its loop over the ring.
FrameParsed ==
    /\ at = "parsing" /\ rx # <<>>
    /\ rx' = Tail(rx)
    /\ nav' = IF Head(rx) \in Tiles THEN Backup(nav, Head(rx)) ELSE nav
    /\ turn' = Result(Head(rx))
    /\ UNCHANGED <<linked, field, at, crashed>>

\* The ring is empty, and the rest of the turn follows: the phone's command to enter
\* study mode, if there is one, begins with closing the reader, if it is open.
TurnEnds(study) ==
    /\ at = "parsing" /\ rx = <<>>
    /\ nav' = [nav EXCEPT !.is_open = @ /\ ~study]
    /\ field' = (field /\ nav'.is_open = nav.is_open)
    /\ crashed' = (crashed \/ (nav'.is_open # nav.is_open /\ ~nav.reader_uart))
    /\ turn' = [turn EXCEPT !.studied = study]
    /\ at' = "loop"
    /\ UNCHANGED <<linked, rx>>

\* A turn while it is not: the reader is switched off; what is in rd_buffer stays.
UnlinkedTurn ==
    /\ at = "loop" /\ ~linked /\ nav.rf_power
    /\ nav' = HiReader_PowerOff(nav)
    /\ field' = FALSE
    /\ UNCHANGED <<linked, rx, at, turn, crashed>>

\* The chip sends what HiReader_SerialHandler puts into rd_buffer.
FrameArrives ==
    /\ nav.reader_uart /\ nav.rf_power /\ ~nav.reader_reset
    /\ \E f \in IF field THEN Tiles \cup {Other} ELSE {Other} : rx' = Push(rx, RxSize, f)
    /\ UNCHANGED <<nav, linked, field, at, turn, crashed>>

\* reader_onoff_timer passes the limit of the present state.
TimerDue ==
    /\ ~nav.due
    /\ nav' = [nav EXCEPT !.due = TRUE]
    /\ UNCHANGED <<linked, field, rx, at, turn, crashed>>

\* The oldest reading that was less than kRepeatInterval old is so no longer.
ReadingAges ==
    /\ \E i \in 1 .. Len(nav.tile_backups) :
          /\ nav.tile_backups[i].fresh
          /\ \A j \in 1 .. i - 1 : ~nav.tile_backups[j].fresh
          /\ nav' = [nav EXCEPT !.tile_backups[i].fresh = FALSE]
    /\ UNCHANGED <<linked, field, rx, at, turn, crashed>>

LinkChanges == linked' = ~linked /\ UNCHANGED <<nav, field, rx, at, turn, crashed>>

Next ==
    \/ TurnBegins \/ FrameParsed \/ \E study \in BOOLEAN : TurnEnds(study)
    \/ UnlinkedTurn \/ FrameArrives \/ TimerDue \/ ReadingAges \/ LinkChanges

Spec == Init /\ [][Next]_vars

\* The main loop turns for ever, and the timer runs.  A frame takes milliseconds and
\* its parsing microseconds: between two frames the loop over the ring catches up and ends.
FairSpec ==
    /\ Spec
    /\ WF_vars(TurnBegins) /\ WF_vars(FrameParsed)
    /\ SF_vars(FrameParsed /\ rx' = <<>>) /\ SF_vars(\E study \in BOOLEAN : TurnEnds(study))
    /\ WF_vars(TimerDue)

--------------------------------------------------------------------------------
(* Properties. *)

TypeOK ==
    /\ nav \in [rf_power : BOOLEAN, reader_reset : BOOLEAN, reader_uart : BOOLEAN,
                 is_open : BOOLEAN, hireader_state : States, due : BOOLEAN,
                 tile_backups : Seq([tile : Tiles, fresh : BOOLEAN])]
    /\ Len(nav.tile_backups) <= BackupSize /\ Len(rx) <= RxSize
    /\ at \in {"loop", "parsing"}
    /\ linked \in BOOLEAN /\ field \in BOOLEAN /\ crashed \in BOOLEAN

\* reader_uart, which HiReader_PowerOff deletes, is never used without being
\* there: neither by the switching, whose state survives the loss of the link,
\* nor by Phone_EnterStudyMode, which goes by an is_open that may be out of date.
NeverWithoutUart == ~crashed

\* The field is on in kHiReaderRFOn only, however link, power and study mode come
\* in between: to save power it may not stay on (HiReader_ControlRFOnOff).
FieldOnlyWhenOn == field => nav.hireader_state = "kHiReaderRFOn"

\* While the phone is linked the field comes on again and again.
FieldComesOn == linked ~> field \/ ~linked \/ turn.studied

\* A tile that is read is passed on at once (the main loop's comment): a new
\* tile is not forgotten because another frame came with it.
NewTileTold == at = "loop" => turn.new \subseteq {turn.told}
================================================================================
