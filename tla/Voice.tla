--------------------------------- MODULE Voice ---------------------------------
(****************************************************************************)
(* The two keys (SimpleKey.cpp), and what they and the phone have announced: *)
(* the queue of voices and the amplifier (Voice.cpp), the voice chip         *)
(* (WT588D.cpp).                                                             *)
(*                                                                          *)
(* A turn of the main loop scans one key, then the other, and calls          *)
(* Speech_Play: each is an action.  The chip is external: within 33 ms of    *)
(* the command for a voice it pulls its busy line low, until the voice ends. *)
(****************************************************************************)
EXTENDS Naturals, Sequences

CONSTANTS kVoiceBufferSize, \* capacity of the queue (64)
          Voices,           \* the chip's voices
          VolumeVoices,     \* what is announced with a new volume
          Announcements,    \* what the info key and the phone have announced
          MaxPresses        \* bound: presses of keys and messages of the phone

ASSUME VoiceAssumption ==
    /\ kVoiceBufferSize \in Nat \ {0} /\ MaxPresses \in Nat
    /\ VolumeVoices \in Seq(Voices) /\ Announcements \subseteq Seq(Voices)

Keys == {"key", "key_info"}

VARIABLES
    keys,        \* of each key: keystatus, its timer past KEY_DEBOUNCE, the pin
    found,       \* history: of each key, what became of it since a scan found it up
    at,          \* where the main loop is
    voiceBuffer, \* the queue
    amp_en,      \* the amplifier
    speechTmr,   \* past 30 ms
    tmr,         \* WT588D's timer: 0, or past 33, 90, 100 ms
    chip,        \* what the voice chip does
    presses      \* presses and messages so far

scanned == <<keys, found>>
sound   == <<amp_en, speechTmr, tmr, chip>>
vars    == <<scanned, at, voiceBuffer, sound, presses>>

Init ==
    /\ keys = [k \in Keys |-> [keystatus |-> "Key_Idle", debounced |-> FALSE, down |-> FALSE]]
    /\ found = [k \in Keys |-> "up"]
    /\ at = "key"
    /\ voiceBuffer = <<>> /\ amp_en = FALSE /\ speechTmr = FALSE
    /\ tmr = 0 /\ chip = "silent" /\ presses = 0

--------------------------------------------------------------------------------
(* What is added to the queue. *)

\* Mutant: nothing is given up.
AddUnbounded(voices) == voiceBuffer \o voices

\* Speech_Add, voice by voice: the oldest are given up when the queue is full.
Speech_Add(voices) ==
    LET all == voiceBuffer \o voices
    IN  IF Len(all) <= kVoiceBufferSize THEN all
        ELSE SubSeq(all, Len(all) - kVoiceBufferSize + 1, Len(all))

--------------------------------------------------------------------------------
(* The keys. *)

\* Mutant: a key that stays pressed becomes idle again.
IdleAtOnce(k) == k.keystatus = "Key_Pressed" \/ (k.keystatus = "Key_Debounce" /\ ~k.down)

BecomesIdle(k) == k.keystatus # "Key_Idle" /\ ~k.down

\* Mutant: the timer goes on from the last debouncing.
KeepsTimer(k) ==
    CASE k.keystatus = "Key_Idle" /\ k.down -> [k EXCEPT !.keystatus = "Key_Debounce"]
      [] k.keystatus = "Key_Debounce" /\ k.down /\ k.debounced -> [k EXCEPT !.keystatus = "Key_Pressed"]
      [] BecomesIdle(k) -> [k EXCEPT !.keystatus = "Key_Idle"]
      [] OTHER -> k

\* ScanKey for a key: idle, debouncing for 30 ms, pressed until it is let go.
ScanKey(k) ==
    CASE k.keystatus = "Key_Idle" /\ k.down ->
             [k EXCEPT !.keystatus = "Key_Debounce", !.debounced = FALSE]
      [] k.keystatus = "Key_Debounce" /\ k.down /\ k.debounced -> [k EXCEPT !.keystatus = "Key_Pressed"]
      [] BecomesIdle(k) -> [k EXCEPT !.keystatus = "Key_Idle"]
      [] OTHER -> k

\* It returns a key when it leaves Key_Debounce for Key_Pressed.
Reports(k) == k.keystatus = "Key_Debounce" /\ ScanKey(k).keystatus = "Key_Pressed"

\* A scan that finds the pin up begins the history of the key again.
Noted(k) == CASE ~keys[k].down     -> "up"
              [] Reports(keys[k]) -> "reported"
              [] OTHER            -> found[k]

Scan(k) == /\ keys' = [keys EXCEPT ![k] = ScanKey(@)]
           /\ found' = [found EXCEPT ![k] = Noted(k)]

ScanVolumeKey ==
    /\ at = "key"
    /\ Scan("key")
    /\ at' = IF Reports(keys["key"]) THEN "volume" ELSE "key_info"
    /\ UNCHANGED <<voiceBuffer, sound, presses>>

\* Phone_SetVoiceVolume: Speech_SetVolume waits until the last command is 90 ms
\* ago; then the volume is sent and announced.
SetVolume ==
    /\ at = "volume" /\ tmr >= 2
    /\ tmr' = 0 /\ at' = "key_info"
    /\ voiceBuffer' = Speech_Add(VolumeVoices)
    /\ UNCHANGED <<scanned, amp_en, speechTmr, chip, presses>>

\* ReportDeviceInfo.
ScanInfoKey ==
    /\ at = "key_info"
    /\ Scan("key_info")
    /\ at' = "play"
    /\ IF Reports(keys["key_info"])
       THEN \E voices \in Announcements : voiceBuffer' = Speech_Add(voices)
       ELSE UNCHANGED voiceBuffer
    /\ UNCHANGED <<sound, presses>>

\* PhoneCmd_VoicePlay, later in the turn.
VoicePlay ==
    /\ at = "key" /\ presses < MaxPresses
    /\ presses' = presses + 1
    /\ \E voices \in Announcements : voiceBuffer' = Speech_Add(voices)
    /\ UNCHANGED <<scanned, at, sound>>

--------------------------------------------------------------------------------
(* Speech_Play. *)

\* Mutant: the busy line alone tells whether the chip is busy.
BusyLineOnly == chip = "speaking"

\* Mutant: the chip is taken to be busy for 100 ms only.
BusyTimeOnly == tmr < 3

IsBusy == tmr < 3 \/ chip = "speaking"

\* Mutant: the amplifier is turned off without looking at the queue, first.
TurnOffDueFirst == ~IsBusy /\ amp_en /\ speechTmr

TurnOffDue == ~IsBusy /\ amp_en /\ speechTmr /\ voiceBuffer = <<>>

\* A voice is played once the amplifier has been on, and the last voice begun, for
\* 30 ms.
PlayDue   == ~IsBusy /\ amp_en /\ speechTmr /\ voiceBuffer # <<>> /\ ~TurnOffDue
TurnOnDue  == ~IsBusy /\ ~amp_en /\ voiceBuffer # <<>>

TurnOff ==
    /\ TurnOffDue
    /\ amp_en' = FALSE
    /\ UNCHANGED <<voiceBuffer, speechTmr, tmr, chip>>

PlayNext ==
    /\ PlayDue
    /\ voiceBuffer' = Tail(voiceBuffer)
    /\ chip' = "starts" /\ tmr' = 0 /\ speechTmr' = FALSE
    /\ UNCHANGED amp_en

TurnOn ==
    /\ TurnOnDue
    /\ amp_en' = TRUE /\ speechTmr' = FALSE
    /\ UNCHANGED <<voiceBuffer, tmr, chip>>

Waits ==
    /\ ~TurnOffDue /\ ~PlayDue /\ ~TurnOnDue
    /\ UNCHANGED <<voiceBuffer, sound>>

Speech_Play ==
    /\ at = "play" /\ at' = "key"
    /\ TurnOff \/ PlayNext \/ TurnOn \/ Waits
    /\ UNCHANGED <<scanned, presses>>

--------------------------------------------------------------------------------
(* Fingers, timers and the voice chip. *)

Press ==
    /\ presses < MaxPresses /\ presses' = presses + 1
    /\ \E k \in Keys : ~keys[k].down /\ keys' = [keys EXCEPT ![k].down = TRUE]
    /\ UNCHANGED <<found, at, voiceBuffer, sound>>

LetGo ==
    /\ \E k \in Keys : keys[k].down /\ keys' = [keys EXCEPT ![k].down = FALSE]
    /\ UNCHANGED <<found, at, voiceBuffer, sound, presses>>

\* 30 ms after the timer's reset, and so after every scan before that.
DebounceTick(k) ==
    /\ keys[k].keystatus = "Key_Debounce" /\ ~keys[k].debounced
    /\ keys' = [keys EXCEPT ![k].debounced = TRUE]
    /\ found' = [found EXCEPT ![k] = IF @ = "up" THEN "settled" ELSE @]
    /\ UNCHANGED <<at, voiceBuffer, sound, presses>>

SpeechTick ==
    /\ ~speechTmr /\ speechTmr' = TRUE
    /\ UNCHANGED <<scanned, at, voiceBuffer, amp_en, tmr, chip, presses>>

ChipTick ==
    /\ tmr < 3 /\ chip # "starts" /\ tmr' = tmr + 1
    /\ UNCHANGED <<scanned, at, voiceBuffer, amp_en, speechTmr, chip, presses>>

ChipSpeaks ==
    /\ \/ chip = "starts" /\ chip' = "speaking"
       \/ chip = "speaking" /\ chip' = "silent"
    /\ UNCHANGED <<scanned, at, voiceBuffer, amp_en, speechTmr, tmr, presses>>

Turn == ScanVolumeKey \/ SetVolume \/ ScanInfoKey \/ Speech_Play

Next ==
    \/ Turn \/ VoicePlay \/ Press \/ LetGo
    \/ (\E k \in Keys : DebounceTick(k)) \/ SpeechTick \/ ChipTick \/ ChipSpeaks

Spec == Init /\ [][Next]_vars

\* The main loop turns, the timers run, and a voice comes to its end.
FairSpec ==
    /\ Spec /\ WF_vars(Turn)
    /\ \A k \in Keys : WF_vars(DebounceTick(k))
    /\ WF_vars(SpeechTick) /\ WF_vars(ChipTick) /\ WF_vars(ChipSpeaks)

--------------------------------------------------------------------------------
(* Properties. *)

TypeOK ==
    /\ keys \in [Keys -> [keystatus : {"Key_Idle", "Key_Debounce", "Key_Pressed"},
                          debounced : BOOLEAN, down : BOOLEAN]]
    /\ found \in [Keys -> {"up", "settled", "reported"}]
    /\ at \in {"key", "volume", "key_info", "play"}
    /\ voiceBuffer \in Seq(Voices) /\ Len(voiceBuffer) <= kVoiceBufferSize
    /\ amp_en \in BOOLEAN /\ speechTmr \in BOOLEAN /\ tmr \in 0 .. 3
    /\ chip \in {"silent", "starts", "speaking"}
    /\ presses \in 0 .. MaxPresses

\* The amplifier is on while a voice is spoken, from the command to its end, although
\* the busy line shows a voice only after 33 ms and the amplifier is turned off
\* after 30.
SpokenWithAmp == chip # "silent" => amp_en

\* No voice cuts another off, not even one that a change of the volume comes into.
NotCutOff == [][at = "play" /\ voiceBuffer' # voiceBuffer => chip = "silent"]_vars

\* What is in the queue is spoken, however the keys are pressed meanwhile.
IsSpoken == voiceBuffer # <<>> ~> chip = "starts"

\* A contact that bounces is not reported: neither again, when it does so on being let
\* go, nor within 30 ms of a scan that found the key up, however its scans fall
\* between those of the other key and the waits for the voice chip.
BounceNotReported ==
    [][\A k \in Keys : keys[k].keystatus = "Key_Debounce" /\ keys'[k].keystatus = "Key_Pressed"
                           => found[k] = "settled"]_vars

\* A key that is held down is reported, once and for all.
HeldIsReported ==
    \A k \in Keys : <>[]keys[k].down => <>[](keys[k].keystatus = "Key_Pressed")
================================================================================
