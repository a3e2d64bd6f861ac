----------------------------- MODULE PhoneCommands -----------------------------
(****************************************************************************)
(* How a setting gets from the phone into the flash: the bytes of a command, *)
(* the parser of CommBLE::GetMessage, Phone_DispatchMessage and the handlers *)
(* of Settings.                                                              *)
(*                                                                          *)
(* The phone is external: it sends one frame after the other, a command      *)
(* again or a new one.  Bytes may be lost, as while SaveContentsToFlash keeps *)
(* the loop from the ring, or damaged; the parser never sees a silence, only *)
(* bytes.                                                                    *)
(****************************************************************************)
EXTENDS Settings, FiniteSets

CONSTANTS
    TransIDs,   \* the transIDs the phone uses
    Garbage,    \* what a damaged or a stray byte may be
    MaxFaults   \* bound: bytes damaged, strayed or lost in a run, between two whole frames

Byte == 0 .. 255

ASSUME LinkAssumption == MaxFaults \in Nat /\ TransIDs # {}
ASSUME BytesAssumption ==
    /\ \A counts \in Counts : counts \in Seq(Byte) /\ Len(counts) = 4
    /\ Volumes \subseteq Byte /\ Channels \subseteq Byte
    /\ TransIDs \subseteq Byte /\ Garbage \subseteq Byte

VARIABLES comm,     \* the parser's static variables
          sending,  \* what is still to come of the phone's frame
          packet,   \* that frame, or none
          clean,    \* whether it came whole so far, to a parser looking for a frame
          executed, \* the message executed in the last step, or none
          faults    \* faults since the last whole frame

link == <<comm, sending, packet, clean, executed, faults>>

--------------------------------------------------------------------------------
(* Frames. *)

kFrameHead == 2
kFrameTail == 3
MIN_FRAME_BYTES == 4
MAX_FRAME_BYTES == 20
frame_buf_size == 32

PhoneCmd_SetTilesCount  == 37
PhoneCmd_SetVolume      == 39
PhoneCmd_EnterStudyMode == 53

\* What the phone may ask for: a command and its parameters.
Commands == {<<PhoneCmd_SetTilesCount, 4>> \o counts : counts \in Counts}
              \cup {<<PhoneCmd_SetVolume, volume>> : volume \in Volumes}
              \cup {<<PhoneCmd_EnterStudyMode, channel>> : channel \in Channels}

\* Whether an odd number of the bytes have a bit: 1 or 0.
Odd(bytes, bit) == Cardinality({i \in DOMAIN bytes : (bytes[i] \div bit) % 2 = 1}) % 2

\* The exclusive or of the bytes, bit by bit.
CalcCrc(bytes) ==
    Odd(bytes, 1) + 2 * Odd(bytes, 2) + 4 * Odd(bytes, 4) + 8 * Odd(bytes, 8)
      + 16 * Odd(bytes, 16) + 32 * Odd(bytes, 32) + 64 * Odd(bytes, 64) + 128 * Odd(bytes, 128)

\* Head, length without the tail, command, 0xF0 and transID, checksum, tail.
Packet(command, transID) ==
    LET body == <<kFrameHead, Len(command) + 5>> \o command \o <<240, transID>>
    IN  body \o <<CalcCrc(body), kFrameTail>>

--------------------------------------------------------------------------------
(* CommBLE::GetMessage, byte by byte. *)

Looking == [commStatus |-> "WaitFrameStart", frame |-> <<>>]

\* Mutant: a second head is not taken for the frame's.
LengthOrNothing(c, b) ==
    IF b \in MIN_FRAME_BYTES .. MAX_FRAME_BYTES
    THEN [commStatus |-> "WaitAddress", frame |-> <<kFrameHead, b>>]
    ELSE Looking

\* Mutant: any length that is long enough is believed.
LengthBelieved(c, b) ==
    IF b >= MIN_FRAME_BYTES
    THEN [commStatus |-> "WaitAddress", frame |-> <<kFrameHead, b>>]
    ELSE IF b = kFrameHead THEN c ELSE Looking

WaitDataLength(c, b) ==
    IF b \in MIN_FRAME_BYTES .. MAX_FRAME_BYTES
    THEN [commStatus |-> "WaitAddress", frame |-> <<kFrameHead, b>>]
    ELSE IF b = kFrameHead THEN c ELSE Looking

AtTail(c, b) ==
    c.commStatus = "WaitBody" /\ Len(c.frame) = c.frame[2] /\ b = kFrameTail

\* Mutant: the checksum is not looked at.
EndsAnyMessage(c, b) == AtTail(c, b)

EndsMessage(c, b) == AtTail(c, b) /\ CalcCrc(c.frame) = 0

\* Mutant: a frame that does not end where it should is never left.
BodyNotLeft(c, b) ==
    IF EndsMessage(c, b) THEN Looking
    ELSE IF Len(c.frame) <= c.frame[2] THEN [c EXCEPT !.frame = Append(@, b)] ELSE c

\* A frame that does not end where it should is given up, with the byte found there.
WaitBody(c, b) ==
    IF Len(c.frame) < c.frame[2] THEN [c EXCEPT !.frame = Append(@, b)] ELSE Looking

\* isValidCommand accepts every byte.
GetByte(c, b) ==
    CASE c.commStatus = "WaitFrameStart" ->
            IF b = kFrameHead THEN [c EXCEPT !.commStatus = "WaitDataLength"] ELSE c
      [] c.commStatus = "WaitDataLength" -> WaitDataLength(c, b)
      [] c.commStatus = "WaitAddress"    -> [commStatus |-> "WaitBody", frame |-> Append(c.frame, b)]
      [] c.commStatus = "WaitBody"       -> WaitBody(c, b)

--------------------------------------------------------------------------------
(* The main loop. *)

\* The commands that change a setting; a frame's third byte is the command.
Phone_DispatchMessage(msg) ==
    CASE msg[3] = PhoneCmd_SetTilesCount -> Phone_SetPaiCount(SubSeq(msg, 5, 8))
      [] msg[3] = PhoneCmd_SetVolume     -> Phone_SetVolume(msg[4])
      [] msg[3] = PhoneCmd_EnterStudyMode /\ msg[4] \in 1 .. 8 -> SaveRFChannelToFlash(msg[4])
      [] OTHER -> UNCHANGED vars

\* The parser gets a byte, and the message that it completes is executed.
Receive(b) ==
    /\ powered /\ saving = <<>>
    /\ comm' = GetByte(comm, b)
    /\ IF EndsMessage(comm, b)
       THEN executed' = Append(comm.frame, b) /\ Phone_DispatchMessage(executed')
       ELSE executed' = <<>> /\ UNCHANGED vars

ByteArrives ==
    /\ sending # <<>> /\ Receive(Head(sending))
    /\ sending' = Tail(sending)
    /\ faults' = IF clean /\ executed' = packet THEN 0 ELSE faults
    /\ UNCHANGED <<packet, clean>>

--------------------------------------------------------------------------------
(* The phone and the link. *)

PhoneSends ==
    /\ powered /\ sending = <<>>
    /\ \E command \in Commands, transID \in TransIDs : packet' = Packet(command, transID)
    /\ sending' = packet'
    /\ clean' = (comm.commStatus \in {"WaitFrameStart", "WaitDataLength"})
    /\ executed' = <<>>
    /\ UNCHANGED <<vars, comm, faults>>

ByteDamaged ==
    /\ faults < MaxFaults /\ faults' = faults + 1
    /\ sending # <<>>
    /\ \E b \in Garbage \ {Head(sending)} : Receive(b)
    /\ sending' = Tail(sending) /\ clean' = FALSE
    /\ UNCHANGED packet

StrayByte ==
    /\ faults < MaxFaults /\ faults' = faults + 1
    /\ \E b \in Garbage : Receive(b)
    /\ clean' = FALSE
    /\ UNCHANGED <<sending, packet>>

BytesLost ==
    /\ faults < MaxFaults /\ faults' = faults + 1
    /\ \E n \in 1 .. Len(sending) : sending' = SubSeq(sending, n + 1, Len(sending))
    /\ clean' = FALSE /\ executed' = <<>>
    /\ UNCHANGED <<vars, comm, packet>>

--------------------------------------------------------------------------------
(* Power and flash. *)

Programs == ProgramWord /\ executed' = <<>> /\ UNCHANGED <<comm, sending, packet, clean, faults>>

Restarts ==
    /\ PowerUp
    /\ comm' = Looking
    /\ UNCHANGED <<sending, packet, clean, executed, faults>>

PowerGoes ==
    /\ PowerLost
    /\ sending' = <<>> /\ clean' = FALSE /\ executed' = <<>>
    /\ UNCHANGED <<comm, packet, faults>>

CommandsInit ==
    /\ Init
    /\ comm = Looking /\ sending = <<>> /\ packet = <<>> /\ clean = FALSE
    /\ executed = <<>> /\ faults = 0

CommandsNext ==
    ByteArrives \/ PhoneSends \/ ByteDamaged \/ StrayByte \/ BytesLost \/ Programs \/ Restarts \/ PowerGoes

CommandsSpec == CommandsInit /\ [][CommandsNext]_<<vars, link>>

\* The main loop turns for ever, and the phone goes on sending.
FairCommandsSpec ==
    /\ CommandsSpec
    /\ WF_<<vars, link>>(ByteArrives) /\ WF_<<vars, link>>(Programs)
    /\ WF_<<vars, link>>(PhoneSends)

--------------------------------------------------------------------------------
(* Properties. *)

\* The parser stays within frame_buf_, with the tail that may still come, although any
\* byte of a frame may be taken for the length of another.
FrameInBuffer == Len(comm.frame) < frame_buf_size

\* No setting is changed by a damaged frame, nor by one put together from the bytes
\* of two: whatever is executed is what the phone sent last.
OnlyWhatWasSent == executed # <<>> => executed = packet

\* A frame that comes whole, to a parser that is not in the middle of another, is
\* executed when its last byte comes.
WholeFrameExecuted ==
    [][clean /\ sending # <<>> /\ sending' = <<>> /\ powered' /\ faults' <= faults
         => executed' = packet]_<<vars, link>>

\* What the phone asks for in a frame is in effect.
InEffect(msg) ==
    CASE msg[3] = PhoneCmd_SetTilesCount  -> PAI_num = SubSeq(msg, 5, 8)
      [] msg[3] = PhoneCmd_SetVolume      -> contents.volume = msg[4]
      [] msg[3] = PhoneCmd_EnterStudyMode -> contents.rf_channel = msg[4]

\* A command that the phone repeats comes into effect, whatever the parser is in
\* the middle of: it finds the head of a later frame, although it has no time-out.
RepeatedTakesEffect ==
    <>[]powered /\ <>[][packet' = packet]_<<vars, link>>
        => <>[](packet # <<>> /\ InEffect(packet))
================================================================================
