# A verification development for NaviEasy

NaviEasy is the firmware of the *navigator* of an electronic mahjong table, an
STM32F0 on the mbed library. It polls, by radio (CC1101), four readers inside
the table, one per wall, which report the tiles their machine has shuffled; it
reads single tiles from a high-power reader over a UART; and it sends both to a
phone app over a BLE module on another UART. There is one main loop, no
operating system; UART interrupts fill and drain rings.

This directory holds TLA+ modules translated from the source, TLC
configurations that check them, and proofs for TLAPS. Line numbers are those of
`src/main.cpp` unless a file is named.

## 1. Inventory

| Component | State | Operations | Hard behaviour | What makes it correct |
|---|---|---|---|---|
| Table reading (`main.cpp` 596-1272, 1585-1622, 2510-2529) | `reader_monitor[4]` (position, cache, errors, `working`, `is_handled`), `RP_num`, `TotalCardNum`, `pai_color`, `IsXPFinished`, `RP_ovtimer`, `currentReader`, `RP_mode` | `SendRFCommand`, `Reader_ReadInside`, `Reader_GetMessage`, `Reader_DispatchMessage`, `Reader_CheckReceived`, `Reader_CheckOverTime`, `Reader_FinishXP`, `DAT_Load`, `SendGroupTileToPhone` | lost polls, lost and late answers, next shuffle starting before the last is closed, wall sizes changed in mid-round | counts exact, one deck per round, walls delivered in order and complete, polling never stalls, rounds end |
| Phone delivery (1764-1818, 2187-2294, 2376-2426) | `phone_pais[4]`, `phone_send_wait_ack`, `phone_send_timer`, `phone_pai_pos`, `phone_live_pai`, `unsend_pai` | `Phone_SendReaderPais`, `HiReader_DispatchMessage`, `HiReader_SendPai`, `Phone_DispatchMessage` | lost frames and acknowledgements, retransmission, late acknowledgements, hand-over during a transmission | what is marked sent was received; everything settles; buffers do not overflow |
| Phone commands and settings (714-730, 1683-1712, 1958-1990) | `contents` and its flash page | `Phone_SetPaiCount`, `Phone_SetVolume`, `SaveRFChannelToFlash`, `SaveContentsToFlash`, `Powered_Init` | power lost between erase and program; frames damaged, cut or run together | settings after a restart are the old, the new or the defaults; only what the phone sent is executed, and what it repeats takes effect |
| Study mode (1993-2152) | `study_msg`, `isLearned`, `status`, the chip's `IOCFG2` | `Phone_EnterStudyMode` | a loop of its own with its own time limit; an uninitialised command; it interrupts a poll in any state | every reader is asked, the search for the next one ends, polling resumes |
| High-power reader (`HighPowerReader.cpp`) | power and RF switches, `hireader_state`, frame parser, `tile_backups`, `is_open` | `HiReader_GetMessage`, `HiReader_PowerOn`, `HiReader_PowerOff`, `IsNewReaderData` | link lost in any state, study mode, several frames in one call | the UART is there when used, the field is on only when it should be and comes on again, a new tile is told |
| Phone link (`CommBLE.cpp`, `BLE.cpp`) | frame parser, `is_connected_`, `rx_phone_tmr`, transIDs | `GetMessage`, `SendGroupData`, `SendAdminReaderData`, heartbeat | stray bytes, silence | resynchronises on the next frame; silence is noticed |
| Serial rings (`Buffer.h`, `BufferedSerial*.cpp`, `CircularBuffer*.h*`) | `_wloc`/`_rloc`, front/back/full | `put`, `get`, `push_back`, `pop_front`, `rxIrq`, `txIrq` | interrupt in the middle of an operation, full ring | a FIFO that drops its oldest byte when full; no byte stays behind or is sent twice |
| Voice (`Voice.cpp`, `WT588D.cpp`) | queue of voices, amplifier, two timers | `Speech_Play`, `Speech_Add`, `Speech_SetVolume` | queue at its limit, busy line 33 ms late, a volume command in between | what is queued is spoken, whole and with the amplifier on |
| Keys (`SimpleKey.cpp`) | `keystatus`, debounce timer | `ScanKey` | bouncing while the scans alternate and wait for the voice chip | a bounce is not reported, a held key is, once |
| LEDs, CC1101 driver, tables | little or none | | | |

Interactions. `main` runs, in each turn: the high-power reader's message and its
batch, the phone's message and what is due to the phone (only while the BLE
module reports a link), then one step of the poll of a table reader. Everything
is shared through globals: table reading writes `phone_pais` (lines 827-838,
1160-1176), phone delivery reads and marks it; the phone's commands write
`PAI_num`, which table reading reads afresh on every comparison. `StudyMode` runs inside
the phone's command and shares the radio chip and `reader_tmr` with the poll. The
rings lie between the UART interrupts and the two parsers; the keys, the phone and
study mode fill the queue of voices.

## 2. Modules

### `TableReader.tla` (with `MCTableReader.tla`, `Round.tla`, `TableReaderProofs.tla`)

The globals that a handler changes together are one record `nav`; a C function
that changes them is an operator from `nav` to `nav` with its own name, and an
action is one turn of the loop's switch on `RP_mode`:

| Action | Code |
|---|---|
| `NewRound`, `Reader_ReadInside` | `SendRFCommand` in `kRequestReader` (732-752, 662-711) |
| `TxActive`, `TxFinish` | `Reader_GetMessage` in `kWaitTxActive`, `kWaitTxFinish` (1593-1609) |
| `ReaderAnswers` | `kReaderMessageReceived`: dispatch, `Reader_CheckReceived`, end of a complete round (2513-2520) |
| `PollOverTime` | `kReaderMessageOverTime`: `Reader_CheckReceived`, `Reader_CheckOverTime` (2522-2525) |
| `Phone_SetPaiCount` | 1958-1982 |
| `Tick` | the mbed timer `RP_ovtimer` |

A tile is a pair of its deck's colour (bit 7 of its id) and its face; north and
south, whose numbers the phone swaps, may be among the faces. `RP_ovtimer` is compared with three limits, so its
value is how many of them it has passed. `PAI_err` stops one above its limit. The table readers
are not part of the repository: `AnswersTo` lets them answer anything of the
right shape, any tile at any position with any length, a superset of what a real reader sends.
`air` holds the polls a reader has heard; with `LateReplies` they may be
answered at any later time (the code compares no transID), without it only
before the poll times out. `MayReconfigure` switches `Phone_SetPaiCount` on.
The sizes it may set, `WallCounts`, are any bytes, as the code checks none; at power-up they are those that
`Powered_Init` lets through, restricted to what a cache holds. A wall handed over (`Wall`) is filled with 0xff up to its
size and keeps what stood behind it; what `Phone_SendReaderPais` sends of it is `Sent`.
Switches are constants so that the runs and the theorems can say which
properties survive late answers or reconfiguration and which do not.

`Round` is what is promised of a round, without polls, time-outs, positions or counters: the walls are sequences of
tiles (`read`). While a round is `open`, each step may take down one more tile, of a wall that is not complete and of the
deck of the others; it makes the walls that are then `Ready` final and gives them to the phone (`GoesOn`), and only a
round in which a wall is missing goes on. The last step (`Ends`), at any moment, also gives the phone what was
read of every other wall if that is more than half of all tiles, and nothing of the round is left. What the phone has of a wall
(`sent`) is otherwise never touched. `RoundsAsPromised` says that `TableReader` implements it, with `open` for
`~IsXPFinished`, `final` for `is_handled`, `sent` for the tiles in `phone_pais`, and `read` for the caches up to each
reader's position (`TilesRead`). A whole turn of the loop after a poll (the answer, the count of failures, the
hand-over, the end of the round) is one step of `Round`, and everything between two polls a stutter.

### `PhoneDelivery.tla` (with `MCPhoneDelivery.tla`, `Mailbox.tla`, `PhoneDeliveryProofs.tla`)

`LinkTurn` is the whole part of a turn that runs while the phone is linked
(2530-2556), in the code's order: a live tile, the batch, a message from the
phone, what is due. The phone and the radio are external: `PhoneHears` lets each
frame arrive or not and each acknowledgement leave or not, with the
frame's transID or, for what is in `BareAcks`, without one (both lengths are accepted,
2239-2262); `up` is the ordered stream of acknowledgements on their way, and
`AckLost` loses its head. What a wall contains is abstracted to how often that
wall was handed over, which is all that "the phone has this wall" needs. The
heartbeat and the other messages are left out: they only leave gaps in the
transIDs. `HandOver` stands for the two places of `TableReader` that write
`phone_pais`. `MaxWork` bounds walls handed over and live tiles together, so that either
kind of work, and a mixture, is checked. Nothing could tell which wall an acknowledgement without a transID is
for, so it is assumed that no wall is handed over while one for it is on its way.

`Mailbox` is what is promised of one wall: it is put into a box (`Put`), sent until it counts as received but
`Tries` times at most (`Send`), counts as received when the phone has it (`Confirm`), and gives way to the next.
Its step `Mistake` is what the code does not rule out: an acknowledgement of the wall before, which comes after the
hand-over and before the next transmission, is taken for the new wall, which is then never sent.
`WallsAreMailboxes` says that the walls, which share one timer, one flag and one channel, are such boxes each.

### `HiReader.tla` (with `MCHiReader.tla`, `HiReaderProofs.tla`)

A turn while the phone is linked has three kinds of steps, between any two of which the UART's interrupt, a timer or
the link may come: `TurnBegins` (`HiReader_GetMessage` notices a loss of power and takes one step of the switch on
`hireader_state`), `FrameParsed` for each frame in the ring, and `TurnEnds`, when the ring is empty; if the phone
asked for study mode, this is `Phone_EnterStudyMode`'s first step, which closes the reader.
`UnlinkedTurn` switches the reader off. The ring holds frames, not bytes: a broken frame
is one that never arrives. A timer is due or not, a reading fresh or not (younger
than `kRepeatInterval`); readings age oldest first. `field` is the chip's, external, and follows
the commands it can hear. `crashed` records a use of the deleted UART, and `turn` what
the last turn read and told.

### `Settings.tla` (with `SettingsProofs.tla`)

`contents` in RAM, the page in flash, and `saving`, the words `SaveContentsToFlash`
still has to program. `Erase` and each `ProgramWord` are steps, because power may go
between them (`PowerLost`); nothing else runs meanwhile, as the loop waits. Words that carry
nothing are left out, and so is the ssid, which no compiled command changes.
The wall sizes share a word and are one value; the phone may send sizes outside 10..40 and volumes above 7, as
`Phone_SetPaiCount` does not check them and `Phone_SetVolume` only by an `assert` that is not compiled in, and the next power-up replaces them.
The first power-up finds the page erased, but for the `uids` it may hold already.

### `PhoneCommands.tla` (with `MCSettings.tla`; theorems in `SettingsProofs.tla`)

Extends `Settings`: what reaches its handlers from the phone. `GetByte` is one turn of
`CommBLE::GetMessage`'s loop, and `Receive` adds the dispatch of the message it completes; the bytes and the
checksum are the real ones (`CalcCrc`'s exclusive or is written bit by bit, as the parity of each bit, so
that it can be proved about). `frame` is the part of `frame_buf_` that has been filled, so that
`bufPos` is its length and `lenToReceived` its second byte. The ring is left out (`ReceiveRings` shows it to be a
queue that may lose bytes), and so is the turn's end after each message, as nothing else
of the turn touches this state. The phone is external and sends any command again and again or
another. A fault is a byte damaged, a stray byte, or a run of bytes lost from a frame, as
happens while the loop waits for the flash or interrupts are masked.

### `ReceiveRings.tla` (with `DropOldest.tla`, `ReceiveRingsProofs.tla`)

The two rings of received bytes. An interrupt (`BLE_SerialHandler`,
`HiReader_SerialHandler`) is one step: all interrupts have one priority. The main loop is
interrupted between any two of its accesses to an index, so each is an action: `LoadLast`,
`Compare`, `front`, `pop_front` for the phone's ring (the loaded `m_first` serves both calls, and
`pop_front` stores its successor), `LoadHead` to `ClearFull` for the statements of
`CircularBufferA::pop`. The order of the accesses is that of the objects in `build/`.
`between` holds the UARTs that have interrupted the operation already: a byte takes 87 us, an
operation less, so it is one each. `Flood` lets the reader's bytes come while its ring
is full.

`DropOldest` is what both promise: a queue of `Cap` bytes that forgets the oldest when a byte
comes and it is full. The refinement maps `queue` to the bytes stored from the front on
(`Contents`, `ReaderContents`); a byte is read at `front`'s load, respectively when
`pop` reads it. A phone's byte that arrives between `front` and `pop_front` into a full ring moves
`m_first` to where `pop_front` is about to store it, which the mapping shows to be harmless.

### `TxRing.tla` (with `TxRingProofs.tla`)

Transmission (`Buffer.h`, `BufferedSerial.cpp`). `_wloc` and `_rloc` are volatile, and
each access is a step: `write` stores a byte before it steps `_wloc`, `putc` after, and both
wrap it in a further step. `prime`'s own call of `txIrq` is unrolled (`Writable` to
`SendByte`), the interrupt's is one step. `SharedIrq` makes any interrupt of the UART call
`txIrq`, as mbed's `serial_irq_handler` does with a handler once known: it looks at the
transmission-complete flag, not at what is enabled, so that a received byte can
call `txIrq` while `prime` has it detached. The ghost `caught` records that an interrupt has sent while the
main loop was halfway through `put` or `get`, or had it detached.

### `StudyMode.tla` (with `StudyModeProofs.tla`)

`Phone_EnterStudyMode`'s loop, one action for each branch of its switch (`Ask`, `Starts`, `Sent`,
`Hears`, `HearsNothing`), the search for the next reader as `NextReader`, and the poll it
interrupts, reduced to what it does with the chip. The chip is external: what it shows
on GDO2 depends on `IOCFG2`, which study mode and the poll both set. `command` starts as
anything: with 255, `isLearned[-1]` is read and command 0 may be asked. `TimeIsUp` may come
at any moment.

### `Voice.tla` (with `MCVoice.tla`, `VoiceProofs.tla`)

A turn of the main loop as `ScanVolumeKey`, `SetVolume` (which waits until the last command is 90 ms
ago), `ScanInfoKey` and `Speech_Play`, with one action for each thing `Speech_Play` may do. The chip
pulls its busy line low (`"speaking"`) within 33 ms of a command (`"starts"`). Which voices
make up a number is abstracted: an announcement is a sequence of voices. `Press` and `LetGo` may come between any two of
the loop's actions, so that a contact bounces as often as `MaxPresses` allows. The history `found` is what
`BounceNotReported` and its proof look at: of each key, whether the last scan found it `"up"`, or it has been
down at every scan since for 30 ms at least (`"settled"`), or was reported since (`"reported"`). What a contact does between
two scans nobody sees, the code no more than the property.

## 3. Runs

| Run | Shows | Bounds |
|---|---|---|
| `table_rounds` | polling goes on; `TableReader` implements `Round`: tiles in order and of one deck, each wall sent when it is complete and the last group's last, all of a round more than half read sent when it ends, however it ends | 2 readers, walls of 1-2, two faces |
| `table_reconfigured` | types and cache bounds, `RP_num` exact, one deck a round, nothing left between rounds, last group last; all while the wall sizes change in mid-round | 2 readers, walls of 1-2 (all that fit), two decks; a reader is given up on at its first unanswered reset |
| `table_liveness` | a round of which a tile was read ends | `LossySpec`, walls of 2 |
| `phone` | an acknowledgement is not taken for one of a later transmission; each wall implements `Mailbox`; every wall with no gap before it and every batch, full or not, is acknowledged or sent `kRetryCount` times while the phone stays | two walls, each handed over up to twice, two live tiles, three of these in all |
| `hireader` | types and ring bounds; the deleted UART is never used, the field is on only in `kHiReaderRFOn`, and comes on again and again while linked | two tiles, rings of two |
| `settings` | only what the phone sent is executed, a whole frame is, and a repeated command takes effect; the parser stays within its buffer; fields in range; a restart outside a save changes nothing; one in the middle of a save brings nothing older back | three wall sizes and three volumes (one of each out of range), two channels; one fault between two whole frames |
| `receive` | no access outside a ring, no byte read that is not there; both rings implement `DropOldest` | rings of 4 (three bytes) and 3, two bytes |
| `tx` | no access outside the ring; FIFO, and no byte left behind, unless an interrupt falls into the middle of `put` or `get` | a ring that wraps at 4, two bytes |
| `study` | the search ends, no reader is starved, the poll resumes | 3 readers, a command that starts at 2, 254 or 255 |
| `voice` | amplifier on from a voice's command to its end, no voice cut off, everything queued is spoken; a bounce is not reported, a held key is, once and for all | queue of 3, three presses or messages |

Answers that come late have no passing run of their own: the theorems cover them.

Why the bounds are enough. Two readers are the fewest with a *last* and an
*other* group; they give every order of their answers and make `NextReader`
skip a complete wall. `AnswerBytes` are the places and lengths a reader may answer with: every place of a wall, in the two
safety runs the one behind it too, and 0 where time allows. The walls of the runs fit the caches, as what happens when
they do not is undefined (see 5). Walls of two tiles distinguish the first tile of a round, a middle one and
the last; `MissFew` is set so that each of the three branches of
`Reader_CheckOverTime` is taken. Two decks are all that a colour bit has. In
`PhoneDelivery` a wall replaced once is all that a stale acknowledgement needs,
a batch of two is left full or half full,
and the transIDs do not wrap within the bound, as in the code they would take
256 transmissions to do. A ring of two in `HiReader` is full after two frames, and two are
enough for one to hide another; a page of three words has every place where power can go.
In `PhoneCommands` a volume and a channel of 2 and a transID of 3 put heads and tails into the frames. One fault at a time is what
the exclusive or is good for: two that cancel out are accepted, as TLC finds at once with `MaxFaults` at 2. The count
starts anew with every whole frame, so that faults in the long run are unlimited.
The rings are full, empty and wrapped at every index within their sizes, and the
theorems hold for any size. Three readers in study mode are the fewest with one to starve
between two that answer; 254 and 255 take the command over the edge of its byte. The
queue of three is overrun by two announcements of two voices.

Two runs are expected to fail, where a comment and the code disagree:

* `hireader_lost`: `HiReader_GetMessage` empties the ring in one call and returns the
  last frame's status (`HighPowerReader.cpp` 288-394). A new tile followed in the same
  call by another frame is not "passed to the phone at once" (2534), and its
  repeats within a second are filtered out.
* `tx_order`: `put` increments `_wloc` and wraps it in a second statement
  (`Buffer.h` 133-134). A transmit interrupt between the two finds `_wloc` outside the
  ring, different from any `_rloc`, and goes on sending from the ring's start what had been sent
  before. "Pull the oldest element from the buffer" (90) is then not what `get` does.

Other disagreements met while modelling, without a run:

* A reset answered late (1067), or given up on (1202), clears a reader without taking its
  tiles off `RP_num`, "the total number of tiles read" (153): `RPNumCounts` fails with
  `LateReplies`, and the round closes as complete while tiles are missing.
* `Reader_CheckOverTime` is called only after an unanswered poll (2522): while the readers
  answer every poll without a new tile, a round past its 40 s stays open.
* A hand-over resets `is_send` and `send_count` (1173) but not the transID: an acknowledgement
  that comes before the next transmission marks as sent (78) a wall that never was.
* `rx_phone_tmr` is read only in the loop over received bytes (`CommBLE.cpp` 321): a
  phone that sends nothing at all is never noticed to be gone.
* With `Flood`, `ReaderIsDropOldest` fails: `push` into a full ring between two statements of
  `pop` has its `_full` cleared, and a whole ring of bytes is lost.
* The time limit of study mode is ten minutes (2048), the comment says ten seconds (1994).
* `kWaitTxFinish` has no time-out (1600). When study mode's time is up just as a frame has come, GDO2 stays high
  and the poll waits for ever: the state `Deaf` that `PollingResumes` excepts.
* `Speech_AddNum` says "first the hundred" (`Voice.cpp` 123), but the line that does is commented
  out: 100 is announced as "one".

### Fairness

`LoopFairness` is weak fairness of the loop's turn and of the timer: `main` never
returns or blocks, and the chip finishes a transmission (`kWaitTxFinish` has no time-out of
its own, which is an assumption, not a result). That alone does not
end a round, as readers that answer every poll keep it open; `LossySpec` adds strong fairness of
`PollOverTime`, that polls go unanswered again and again, which is what happens
once the walls have been pushed up and the machine is quiet. In
`PhoneDelivery`: weak fairness of `Tick`, and of `LinkTurn` while it has something to do
(`Busy`); were it fair without that, it would force the phone to send. Nothing is assumed of the
phone or the radio there. In `HiReader`: the loop turns, the frames in the ring are parsed and the timer
runs; strongly fair are the parsing that empties the ring and the end of the turn, because a frame takes
milliseconds and its parsing microseconds, so that the loop over the ring ends also when frames come all the time.

In `PhoneCommands`: the loop turns, the save goes on, and the phone goes on sending; that it repeats a command, and that power stays, is the hypothesis of `RepeatedTakesEffect`.

In `TxRing`: a call that has begun goes on, the UART sends, and an interrupt that is enabled and
pending is taken. In `Voice`: the loop turns, the timers run, those of the keys too, a voice ends. In `StudyMode`: the loops
turn, the timer runs, the chip sends what it is given; the turn that finds no frame is strongly
fair, because a frame takes milliseconds and a turn microseconds: between two frames there is
always such a turn, also when frames come all the time. `TimeIsUp` is not fair: that ten
minutes pass is not needed.

## 4. Proofs

`TableReaderProofs.tla` proves for every number of readers, capacity, set of
wall sizes (any bytes), colours and faces, of the behaviours of `Spec` that satisfy what is assumed:

| Theorem | Property | Assuming |
|---|---|---|
| `TypeCorrect` | `TypeOK` | `[]WallsFit` |
| `BetweenRounds` | `CleanBetweenRounds` | `[]WallsFit`, `[]NoEmptyWall` |
| `CountIsExact` | `RPNumCounts` | `~LateReplies`, `[]WallsFit`, `[]NoEmptyWall` |
| `RoundsDoNotMix` | `OneDeck` | `~LateReplies`, `[]WallsFit`, `[]NoEmptyWall` |
| `PollingNeverStops` | `PollingGoesOn` | `~MayReconfigure` |
| `LastGroupGoesLast` | `LastGroupLast` | `~LateReplies`, `[]WallsFit`, `[]NoEmptyWall` |
| `RoundsAreKept` | `RoundsAsPromised` | `~LateReplies`, `~MayReconfigure` |
| `HalfReadWallsKept` | `HalfReadWallsDelivered` (no run's property: a consequence of `RoundsAreKept`) | the same |

`WallsFit` (no wall is larger than a cache) and `NoEmptyWall` say of the phone what `Phone_SetPaiCount` does not check. Neither
is a property of the program: with one larger wall the next tile goes over the fields behind the cache, and no type
could be claimed. Where the sizes do not change (`~MayReconfigure`) both follow from what `Powered_Init` lets
through (`SizesStay`), so that the other theorems need neither. That walls which fit have at most
`kGroup * MAX_WALL_CARD` tiles, and that this is below 256 (160 in the code, `ByteAssumption`), is why neither
sum wraps (`NumTilesType`). An empty wall does no harm that was found, but it breaks
`CleanBetweenRounds`: it is complete with no tile read, and is handed over in the turn in which another shuffle
ends the round; `NewRound` clears it.

None of these is inductive as it stands.

* `TypeInv` adds `Room`: while a poll for a tile is outstanding the
  reader polled has a place left, however its wall was changed since it was asked. It is what makes the unchecked write of
  `AddOnePaiToCache` safe.
* `CleanInv` adds `PollInRound`: a poll is on its way only in an open round, so that no
  answer writes between rounds.
* `PromptInv` holds without late answers: an answer in the air is one to the
  outstanding poll (`OwnAnswer`), a reader that still has to be reset has no tiles
  (`Counted`, with `RP_num` the sum of the positions), and every tile cached or
  handed over in the round has its colour (`Deck`).
* `PollingInv`: between polls of an open round the reader chosen is incomplete
  (`Ahead`), and so is the one being asked (`Asking`).
* `LastInv`: if the last group's wall was handed over, so were the others'.
* `RoundInv` adds to `PromptInv` and `PollingInv` what the refinement needs between two turns (`InRound`): a wall handed over
  in the round is complete, so that no tile can be added to it, and what is sent of it is what the cache holds (`Kept`, by way of `Sent`, as what stands behind a wall is never sent: `SentWall`); no
  cache is higher than its wall (`Low`); a complete wall not yet handed over is the last group's and
  waits for another (`Waits`), so that a round ended by a tile of the next shuffle has nothing ready.

`RoundsAreKept` follows a turn through the globals between its helpers. After the answer is handled they are `Polled`:
the round goes on, nothing was handed over, and the caches are as before or hold one tile more (`AcceptPolled`,
`ResetPolled`); after the hand-over they are `Served`: the walls handed over are those `Round` has ready
(`ReadyWalls`, `SendServes`); at any point they may be `Over`: the caches are empty and the phone was given
what `Ends` gives (`NextShuffleOver`, `FinishOver`). What ends as `Served` goes on as promised because a round in which every wall
is complete has `RP_num = TotalCardNum` and would have been closed (`ServedGoesOn`). `HalfReadWallsKept` reads off what a
step `Ends` does to the tiles in the caches: more than half before the last poll is more than half after it (`MovesHalf`).
Either hypothesis is needed: with late answers a reset clears tiles that were counted, which no step of `Round` does, and
new wall sizes reopen a complete wall; TLC shows both.

That `RP_num` is a sum is stated as the cardinality of the set of places filled, so that the
proofs rest on the library's theorems on finite sets; the sum over readers is
then that a tile added is one element more.

`HiReaderProofs.tla` proves `ReaderTyped` (`TypeOK`), `UartIsThere` (`NeverWithoutUart`) and `FieldIsSaved`
(`FieldOnlyWhenOn`) for every set of tiles and ring size. Their invariant `ReaderInv` adds that
the UART is there whenever power is on, that power stays while frames are parsed, and that rings keep to their sizes; the
lemma `SwitchPowers` is what carries the last two: whatever state the link was lost in,
the switch ends with power and a UART. `PushFits` carries the first.

`SettingsProofs.tla` proves `SettingsTyped` (`TypeOK`), `RestartIsHarmless`
(`RestartChangesNothing`) and `NothingOlderComesBack` (`RestartKeepsOrDefaults`) of `Settings` for every set
of values. Their invariant `PageFits` says of each word that it is erased or *fits*, that is,
`Powered_Init` takes from it what is in RAM, and that all the words already
programmed fit while power is on. Of `PhoneCommands` it proves, for every set of wall sizes, volumes, channels and
transIDs that are bytes and for any faults:

| Theorem | States | Assuming |
|---|---|---|
| `FrameStaysInBuffer` | `FrameInBuffer` | nothing |
| `WholeFrameIsExecuted` | `WholeFrameExecuted` | nothing |
| `OneDamagedByteIsCaught` | `OneDamagedByteCaught` (stated in the proofs' module; the run's `OnlyWhatWasSent` says more of one fault) | nothing |
| `WholeFrameIsExact` | `OnlyWhatWasSent` while the frame came whole | nothing |
| `CommandsImplementSettings` | `CommandsSpec` implements `Spec` | `[]OnlyWhatWasSent` |
| `FaultlessLink` | `OnlyWhatWasSent`, and `CommandsSpec` implements `Spec` | `MaxFaults = 0` |

The invariant `LinkInv` has three parts. The parser's status says how long its frame is (`ParserOK`),
which bounds it. What the phone sends is a packet of one of its commands. And while a frame comes whole, the
parser has taken up exactly the bytes that have come (`InStep`): one lemma, `InStepAdvances`, says that this is kept by each
next byte, that nothing is executed before the last one, and that the last one executes exactly the frame. It rests on
`PacketBytes`, what stands where in a packet, and on `CrcCloses`: appending the exclusive or of
some bytes makes the exclusive or zero, bit by bit by counting the bytes that have the bit. The same counting
gives `CrcCatches`, on which `OneDamagedByteIsCaught` rests: two sequences that differ in one byte differ in a bit of it,
and so in the parity of that bit.
The refinement then shows that executing a packet is the handler of `Settings` that the phone asked for
(`PacketIsCommand`), so that the corollary `CommandsKeepSettings` has what is proved of `Settings` for the
phone's bytes. Its hypothesis is not one that holds for all constants: two damaged bytes may
cancel out in the exclusive or, so that `OnlyWhatWasSent` depends on the bytes and on the number of faults, and TLC
checks it for the instance. Without faults it is proved, however often power is lost inside a
frame or a save.

`ReceiveRingsProofs.tla`, for every size of the rings and set of bytes:

| Theorem | Property | Assuming |
|---|---|---|
| `RingsStaySound` | `RingsSound` | nothing |
| `PhoneRingImplements` | `PhoneIsDropOldest` | nothing |
| `ReaderRingImplements` | `ReaderIsDropOldest` | `~Flood` |

Their invariant `RingsInv` says where each index may be at each place of the main loop; `PopInv`
adds, for the reader's ring, what `pop` has loaded and why `_full` may be cleared. The
refinements rest on three lemmas on a ring's contents: that they are a sequence
(`StoredSeq`), that storing behind the last byte appends (`StoredAppend`), that stepping
the front takes the tail (`StoredTail`). A push maps to `Push`, the access that reads the byte to
`Pop`, every other step to a stutter.

`TxRingProofs.tla` proves `IndicesStaySafe` (`IndicesSafe`) with receive interrupts that call
`txIrq` or without; `IndexInv` says which of the two indices may be outside the ring at which place. `InOrderUnlessCaught`
(`FifoUnlessCaught`) is its refinement of the queue `DropOldest` as far as that goes: for every size of the ring each step maps to a step
of the queue until an interrupt is `caught`. `FifoInv` adds that until then what the main loop has loaded of
the indices is current and that the byte being put has room (`Current`). `RestStaysAttended`
(`RestAttended`, stated in the proofs' module) is what the liveness property `PickedUpUnlessCaught` needs,
besides fairness, between two calls: a byte that a call leaves in the ring has an interrupt enabled, with its handler known, and
the UART's end of transmission to raise it. Its invariant `AttendInv` says why `prime` may rely on
the interrupt when it finds the UART full (`FullIsAttended`: the interrupt disables itself only when it
leaves room in the UART) and that the ring is empty, or the UART is not, whenever `txIrq` is attached (`RestIsDue`).

`StudyModeProofs.tla` proves `StudyTyped` (`TypeOK`) and `SearchAlwaysEnds` (`SearchEnds`) for any
number of readers: while the loop runs, one reader has not answered at all (`SomeoneLeft`), and
that one the search cannot pass over. `VoiceProofs.tla` proves `QueueBounded` (`TypeOK`: the queue never exceeds its size), `AmpWhileSpeaking` (`SpokenWithAmp`),
`NoVoiceCutOff` (`NotCutOff`) and `BouncesIgnored` (`BounceNotReported`); the last rests on `ScanInv`: a key in `Key_Debounce`
whose timer has run out was found down at every scan since it was reset, and one that was reported stays in
`Key_Pressed` until a scan finds it up. What `SoundInv` adds is that a
voice that has not begun to speak was commanded less than 33 ms ago by the chip's own timer (`StartsByTimer`).

`PhoneDeliveryProofs.tla` proves, for any number of walls, size of a batch and set of tiles:

| Theorem | Property | Assuming |
|---|---|---|
| `PhoneTyped` | `TypeOK` | nothing |
| `MarkedWasReceived` | `SentIsReceived` | transIDs that have not wrapped (`[][IDsGrow]_vars`), and batches acknowledged with one (`kHiReaderNumber \notin BareAcks`) |
| `WallsImplementMailbox` | `WallsAreMailboxes` | the same |

`PhoneTyped` rests on the order of a turn: every one ends with a batch that is less than full in
`unsend_pai`, so that the next tile, stored without a bound check, has room. The invariant of
`MarkedWasReceived` is `Sound`: no wall, batch or acknowledgement bears a transID that is still to come
(`Issued`), every acknowledgement on its way that would be accepted for what was
transmitted since the last hand-over is one of something the phone has (`Honest`), and what is marked was received
(`Marked`). For `WallsImplementMailbox` it adds that only walls handed over
have acknowledgements on their way (`Owed`), and follows each wall through the two halves of a turn
(`DispatchWalls`, `SendsWalls`): what an acknowledgement has marked is not sent in the same turn, so that a turn is one step
of each box at most. A wrap after 256 transmissions, with an acknowledgement
that old still on its way, is what it leaves open: there the property fails.

Only model-checked: `OnlyWhatWasSent` with faults on the link (see above), and all liveness
(out of the prover's reach; for the transmit ring, its safety part between two calls is proved, `RestStaysAttended`).

## 5. Not modelled

The high-power reader's byte-wise parser (`HighPowerReader.cpp` 288-394), with its time-out of 100 ms, is
planned; `HiReader` takes a frame as one element. The transID that an answer to the phone repeats is left out. Which voices say a number (`Speech_AddNum`) is wording.
Study mode's own calls of `Speech_Play` are not composed with `Voice`; they are turns of its loop without keys.
`play` masks interrupts for about 3 ms (`WT588D.cpp` 74), in which received bytes are lost: a lost frame to the models.
`puts` and `printf` are loops of the same `put`; `BufferedSerialEx` is not used.
`BLE.cpp` sets the module up once with AT commands, in sequence, before the main loop.
A wall larger than a cache (`Phone_SetPaiCount` checks no size): its 41st tile is written to `bearing_bad`, its 42nd to
`PAI_position` itself (59-69), the wall handed over runs into the next one's record, and the sum of the sizes may
wrap. This is undefined behaviour; the runs use walls that fit, the theorems name that as their assumption, and nothing is
claimed beyond. `Settings` has such sizes saved, and what a restart makes of them.
The CC1101's register set-up and the single wire of WT588D are sequences of register or pin writes without a decision;
CRCs, the scrambling of tile UIDs and the LED patterns influence no property; the
code under `#if` for other boards is not compiled. mbed and CMSIS, most of the
repository's lines, are vendored and taken as given.

## 6. Plan

1. The parser of frames from the high-power reader, byte by byte, as `PhoneCommands` has the phone's.
2. `Navigator`: `TableReader` and `PhoneDelivery` composed through `phone_pais`, with `Round` and `Mailbox` as
   what each promises the other.
