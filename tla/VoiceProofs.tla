------------------------------ MODULE VoiceProofs ------------------------------
(* The amplifier, the voices and the keys, for every capacity of the queue and *)
(* whatever is announced: no voice is spoken without the amplifier or cuts      *)
(* another off, and a key that bounces is not reported.                         *)
EXTENDS Voice, SequenceTheorems, TLAPS

KeyState == [keystatus : {"Key_Idle", "Key_Debounce", "Key_Pressed"},
             debounced : BOOLEAN, down : BOOLEAN]

\* While the busy line does not show the voice yet, WT588D's own timer says that the
\* chip is busy.
StartsByTimer == chip = "starts" => tmr = 0

SoundInv ==
    /\ keys \in [Keys -> KeyState]
    /\ tmr \in 0 .. 3
    /\ chip \in {"silent", "starts", "speaking"}
    /\ StartsByTimer /\ SpokenWithAmp

--------------------------------------------------------------------------------

\* What the state of a key says about its history.
ScanInv ==
    /\ keys \in [Keys -> KeyState]
    /\ found \in [Keys -> {"up", "settled", "reported"}]
    /\ \A k \in Keys :
           /\ found[k] = "reported" => keys[k].keystatus = "Key_Pressed"
           /\ keys[k].keystatus = "Key_Debounce" /\ keys[k].debounced => found[k] = "settled"

LEMMA InitSound == Init => SoundInv
  BY DEF Init, SoundInv, KeyState, StartsByTimer, SpokenWithAmp

LEMMA ScanKeeps == ASSUME NEW k \in KeyState PROVE ScanKey(k) \in KeyState
  BY DEF ScanKey, KeyState, BecomesIdle

\* A chip that is not busy is silent: this is what makes it safe to play the next voice
\* and to turn the amplifier off.
LEMMA NotBusyIsSilent == SoundInv /\ ~IsBusy => chip = "silent"
  BY DEF SoundInv, StartsByTimer, IsBusy

LEMMA PlayKeeps == SoundInv /\ Speech_Play => SoundInv'
<1> SUFFICES ASSUME SoundInv, Speech_Play PROVE SoundInv'
  OBVIOUS
<1>1. keys' = keys
  BY DEF Speech_Play, scanned
<1>2. CASE TurnOff
  BY <1>1, <1>2, NotBusyIsSilent
     DEF TurnOff, TurnOffDue, SoundInv, StartsByTimer, SpokenWithAmp
<1>3. CASE PlayNext
  BY <1>1, <1>3 DEF PlayNext, PlayDue, SoundInv, StartsByTimer, SpokenWithAmp
<1>4. CASE TurnOn
  BY <1>1, <1>4 DEF TurnOn, TurnOnDue, SoundInv, StartsByTimer, SpokenWithAmp
<1>5. CASE Waits
  BY <1>1, <1>5 DEF Waits, sound, SoundInv, StartsByTimer, SpokenWithAmp
<1> QED BY <1>2, <1>3, <1>4, <1>5 DEF Speech_Play

LEMMA NextSound == SoundInv /\ [Next]_vars => SoundInv'
<1> SUFFICES ASSUME SoundInv, [Next]_vars PROVE SoundInv'
  OBVIOUS
<1> USE DEF SoundInv, StartsByTimer, SpokenWithAmp
<1>1. CASE ScanVolumeKey
  BY <1>1, ScanKeeps DEF ScanVolumeKey, Scan, sound, Keys
<1>2. CASE SetVolume
  BY <1>2 DEF SetVolume, scanned
<1>3. CASE ScanInfoKey
  BY <1>3, ScanKeeps DEF ScanInfoKey, Scan, sound, Keys
<1>4. CASE Speech_Play
  BY <1>4, PlayKeeps
<1>5. CASE VoicePlay
  BY <1>5 DEF VoicePlay, scanned, sound
<1>6. CASE Press
  BY <1>6 DEF Press, sound, KeyState
<1>7. CASE LetGo
  BY <1>7 DEF LetGo, sound, KeyState
<1>8. CASE \E k \in Keys : DebounceTick(k)
  <2>1. PICK k \in Keys : DebounceTick(k)
    BY <1>8
  <2>2. [keys[k] EXCEPT !.debounced = TRUE] \in KeyState
    BY DEF KeyState
  <2> QED BY <2>1, <2>2 DEF DebounceTick, sound
<1>9. CASE SpeechTick
  BY <1>9 DEF SpeechTick, scanned
<1>10. CASE ChipTick
  BY <1>10 DEF ChipTick, scanned
<1>11. CASE ChipSpeaks
  BY <1>11 DEF ChipSpeaks, scanned
<1>12. CASE UNCHANGED vars
  BY <1>12 DEF vars, scanned, sound
<1> QED BY <1>1, <1>2, <1>3, <1>4, <1>5, <1>6, <1>7, <1>8, <1>9, <1>10, <1>11, <1>12
           DEF Next, Turn

--------------------------------------------------------------------------------
(* The keys. *)

LEMMA InitScan == Init => ScanInv
  BY DEF Init, ScanInv, KeyState

\* A key becomes idle by a scan that finds it up; from there its timer is reset on the
\* way to Key_Debounce.
LEMMA ScanSound ==
    ASSUME ScanInv, NEW k \in Keys, Scan(k)
    PROVE  ScanInv'
<1>1. keys[k] \in KeyState
  BY DEF ScanInv
<1>2. keys' \in [Keys -> KeyState] /\ keys'[k] = ScanKey(keys[k])
  BY <1>1, ScanKeeps DEF ScanInv, Scan
<1>3. found' \in [Keys -> {"up", "settled", "reported"}] /\ found'[k] = Noted(k)
  BY DEF ScanInv, Scan, Noted
<1>4. /\ Noted(k) = "reported" => ScanKey(keys[k]).keystatus = "Key_Pressed"
      /\ ScanKey(keys[k]).keystatus = "Key_Debounce" /\ ScanKey(keys[k]).debounced
             => Noted(k) = "settled"
  BY <1>1 DEF ScanInv, Noted, Reports, ScanKey, BecomesIdle, KeyState
<1>5. \A other \in Keys \ {k} : keys'[other] = keys[other] /\ found'[other] = found[other]
  BY DEF ScanInv, Scan
<1> QED BY <1>2, <1>3, <1>4, <1>5 DEF ScanInv

LEMMA NextScan == ScanInv /\ [Next]_vars => ScanInv'
<1> SUFFICES ASSUME ScanInv, [Next]_vars PROVE ScanInv'
  OBVIOUS
<1>1. CASE ScanVolumeKey \/ ScanInfoKey
  BY <1>1, ScanSound DEF ScanVolumeKey, ScanInfoKey, Keys
<1>2. CASE Press \/ LetGo
  <2>1. PICK k \in Keys, down \in BOOLEAN : keys' = [keys EXCEPT ![k].down = down]
    BY <1>2 DEF Press, LetGo
  <2>2. [keys[k] EXCEPT !.down = down] \in KeyState
    BY DEF ScanInv, KeyState
  <2>3. keys' = [keys EXCEPT ![k] = [keys[k] EXCEPT !.down = down]]
    BY <2>1
  <2>4. /\ [keys[k] EXCEPT !.down = down].keystatus = keys[k].keystatus
        /\ [keys[k] EXCEPT !.down = down].debounced = keys[k].debounced
    BY DEF ScanInv, KeyState
  <2>5. found' = found
    BY <1>2 DEF Press, LetGo
  <2> QED BY <2>2, <2>3, <2>4, <2>5 DEF ScanInv
<1>3. CASE \E k \in Keys : DebounceTick(k)
  <2>1. PICK k \in Keys : DebounceTick(k)
    BY <1>3
  <2> DEFINE ticked == [keys[k] EXCEPT !.debounced = TRUE]
  <2>2. ticked \in KeyState /\ ticked.keystatus = "Key_Debounce"
    BY <2>1 DEF ScanInv, KeyState, DebounceTick
  <2>3. keys' = [keys EXCEPT ![k] = ticked]
    BY <2>1 DEF DebounceTick
  <2>4. found[k] # "reported"
    BY <2>1 DEF ScanInv, DebounceTick
  <2>5. found' = [found EXCEPT ![k] = "settled"]
    BY <2>1, <2>4 DEF ScanInv, DebounceTick
  <2> HIDE DEF ticked
  <2> QED BY <2>2, <2>3, <2>5 DEF ScanInv
<1>4. CASE UNCHANGED scanned
  BY <1>4 DEF scanned, ScanInv
<1> QED BY <1>1, <1>2, <1>3, <1>4
           DEF Next, Turn, SetVolume, Speech_Play, VoicePlay, SpeechTick, ChipTick, ChipSpeaks, vars

--------------------------------------------------------------------------------
(* The queue. *)

QueueOK == voiceBuffer \in Seq(Voices) /\ Len(voiceBuffer) <= kVoiceBufferSize

\* However long an announcement is, what Speech_Add leaves is a queue that fits.
LEMMA AddFits ==
    ASSUME QueueOK, NEW voices \in Seq(Voices)
    PROVE  /\ Speech_Add(voices) \in Seq(Voices)
           /\ Len(Speech_Add(voices)) <= kVoiceBufferSize
<1> DEFINE all   == voiceBuffer \o voices
           first == (Len(all) - kVoiceBufferSize) + 1
<1>1. all \in Seq(Voices) /\ Len(all) \in Nat
  BY DEF QueueOK
<1> HIDE DEF all
<1>2. CASE Len(all) <= kVoiceBufferSize
  BY <1>1, <1>2 DEF Speech_Add, all
<1>3. CASE Len(all) > kVoiceBufferSize
  <2>1. first \in 1 .. Len(all) + 1 /\ Len(all) \in first - 1 .. Len(all)
    BY <1>1, <1>3, VoiceAssumption
  <2>2. /\ SubSeq(all, first, Len(all)) \in Seq(Voices)
        /\ Len(SubSeq(all, first, Len(all))) = (Len(all) - first) + 1
    BY <1>1, <2>1, SubSeqProperties
  <2>3. Speech_Add(voices) = SubSeq(all, first, Len(all))
    BY <1>1, <1>3, VoiceAssumption DEF Speech_Add, all
  <2> QED BY <1>1, <2>2, <2>3, VoiceAssumption
<1> QED BY <1>1, <1>2, <1>3, VoiceAssumption

LEMMA TailFits == QueueOK /\ voiceBuffer # <<>> =>
                     /\ Tail(voiceBuffer) \in Seq(Voices)
                     /\ Len(Tail(voiceBuffer)) <= kVoiceBufferSize
  BY HeadTailProperties, VoiceAssumption DEF QueueOK

LEMMA NextScanned ==
    ASSUME TypeOK, [Next]_vars
    PROVE  found' \in [Keys -> {"up", "settled", "reported"}]
<1>1. CASE ScanVolumeKey \/ ScanInfoKey
  BY <1>1 DEF TypeOK, ScanVolumeKey, ScanInfoKey, Scan, Noted, Keys
<1>2. CASE \E k \in Keys : DebounceTick(k)
  BY <1>2 DEF TypeOK, DebounceTick
<1>3. CASE UNCHANGED found
  BY <1>3 DEF TypeOK
<1> QED BY <1>1, <1>2, <1>3
           DEF Next, Turn, SetVolume, Speech_Play, VoicePlay, Press, LetGo, SpeechTick, ChipTick,
               ChipSpeaks, vars, scanned

LEMMA NextType == TypeOK /\ [Next]_vars => TypeOK'
<1> SUFFICES ASSUME TypeOK, [Next]_vars PROVE TypeOK'
  OBVIOUS
<1> USE DEF TypeOK
<1>q. QueueOK
  BY DEF QueueOK
<1>k. keys \in [Keys -> KeyState]
  BY DEF KeyState
<1>s. \A k \in KeyState : ScanKey(k) \in KeyState
  BY ScanKeeps
<1>h. found' \in [Keys -> {"up", "settled", "reported"}]
  BY NextScanned
<1>1. CASE ScanVolumeKey
  <2>1. keys' \in [Keys -> KeyState]
    BY <1>1, <1>k, <1>s DEF ScanVolumeKey, Scan, Keys
  <2> QED BY <1>1, <2>1, <1>h DEF ScanVolumeKey, sound, KeyState
<1>2. CASE SetVolume
  BY <1>2, <1>h, <1>q, AddFits, VoiceAssumption DEF SetVolume, scanned
<1>3. CASE ScanInfoKey
  <2>1. keys' \in [Keys -> KeyState]
    BY <1>3, <1>k, <1>s DEF ScanInfoKey, Scan, Keys
  <2>2. QueueOK'
    BY <1>3, <1>q, AddFits, VoiceAssumption DEF ScanInfoKey, QueueOK
  <2> QED BY <1>3, <1>h, <2>1, <2>2 DEF ScanInfoKey, sound, KeyState, QueueOK
<1>4. CASE Speech_Play
  <2>1. QueueOK'
    BY <1>4, <1>q, TailFits
       DEF Speech_Play, TurnOff, PlayNext, PlayDue, TurnOn, Waits, QueueOK
  <2>2. amp_en' \in BOOLEAN /\ speechTmr' \in BOOLEAN
    BY <1>4, Zenon DEF Speech_Play, TurnOff, PlayNext, TurnOn, Waits, sound
  <2>3. tmr' \in 0 .. 3 /\ chip' \in {"silent", "starts", "speaking"}
    BY <1>4 DEF Speech_Play, TurnOff, PlayNext, TurnOn, Waits, sound
  <2> QED BY <1>4, <1>h, <2>1, <2>2, <2>3 DEF Speech_Play, scanned, QueueOK
<1>5. CASE VoicePlay
  <2>1. QueueOK'
    BY <1>5, <1>q, AddFits, VoiceAssumption DEF VoicePlay, QueueOK
  <2>2. presses' \in 0 .. MaxPresses
    BY <1>5, VoiceAssumption DEF VoicePlay
  <2> QED BY <1>5, <1>h, <2>1, <2>2 DEF VoicePlay, scanned, sound, QueueOK
<1>6. CASE Press
  <2>1. keys' \in [Keys -> KeyState]
    BY <1>6, <1>k DEF Press, KeyState
  <2>2. presses' \in 0 .. MaxPresses
    BY <1>6, VoiceAssumption DEF Press
  <2> QED BY <1>6, <1>h, <2>1, <2>2 DEF Press, sound, KeyState
<1>7. CASE LetGo \/ \E k \in Keys : DebounceTick(k)
  <2>1. keys' \in [Keys -> KeyState]
    <3>1. CASE LetGo
      BY <3>1, <1>k DEF LetGo, KeyState
    <3>2. CASE \E k \in Keys : DebounceTick(k)
      <4>1. PICK k \in Keys : DebounceTick(k)
        BY <3>2
      <4>2. [keys[k] EXCEPT !.debounced = TRUE] \in KeyState
        BY <1>k DEF KeyState
      <4> QED BY <4>1, <4>2, <1>k DEF DebounceTick
    <3> QED BY <1>7, <3>1, <3>2
  <2> QED BY <1>7, <1>h, <2>1 DEF LetGo, DebounceTick, sound, KeyState
<1>8. CASE SpeechTick \/ ChipTick \/ ChipSpeaks
  <2>1. amp_en' \in BOOLEAN /\ speechTmr' \in BOOLEAN
    BY <1>8, Zenon DEF SpeechTick, ChipTick, ChipSpeaks
  <2>2. tmr' \in 0 .. 3 /\ chip' \in {"silent", "starts", "speaking"}
    BY <1>8 DEF SpeechTick, ChipTick, ChipSpeaks
  <2> QED BY <1>8, <1>h, <2>1, <2>2 DEF SpeechTick, ChipTick, ChipSpeaks, scanned
<1>9. CASE UNCHANGED vars
  BY <1>9 DEF vars, scanned, sound
<1> QED BY <1>1, <1>2, <1>3, <1>4, <1>5, <1>6, <1>7, <1>8, <1>9
           DEF Next, Turn

--------------------------------------------------------------------------------
(* Theorems. *)

\* Whatever is announced and however often, the queue stays within its capacity.
THEOREM QueueBounded == Spec => []TypeOK
<1>1. Init => TypeOK
  <2> SUFFICES ASSUME Init PROVE TypeOK
    OBVIOUS
  <2>1. voiceBuffer \in Seq(Voices) /\ Len(voiceBuffer) <= kVoiceBufferSize
    BY VoiceAssumption DEF Init
  <2>2. keys \in [Keys -> KeyState]
    BY DEF Init, KeyState
  <2>3. presses \in 0 .. MaxPresses
    BY VoiceAssumption DEF Init
  <2>4. amp_en \in BOOLEAN /\ speechTmr \in BOOLEAN
    BY Zenon DEF Init
  <2>5. tmr \in 0 .. 3 /\ at = "key" /\ chip = "silent"
    BY DEF Init
  <2>6. found \in [Keys -> {"up", "settled", "reported"}]
    BY DEF Init
  <2> QED BY <2>1, <2>2, <2>3, <2>4, <2>5, <2>6 DEF TypeOK, KeyState
<1> QED BY <1>1, NextType, PTL DEF Spec

\* The amplifier is on from a voice's command to its end.
THEOREM AmpWhileSpeaking == Spec => []SpokenWithAmp
<1>1. SoundInv => SpokenWithAmp
  BY DEF SoundInv
<1> QED BY <1>1, InitSound, NextSound, PTL DEF Spec

\* A voice is begun only when the last one has ended.
THEOREM NoVoiceCutOff == Spec => NotCutOff
<1>1. SoundInv /\ [Next]_vars => [at = "play" /\ voiceBuffer' # voiceBuffer => chip = "silent"]_vars
  <2> SUFFICES ASSUME SoundInv, Next, at = "play", voiceBuffer' # voiceBuffer
               PROVE  chip = "silent"
    BY DEF vars
  <2>1. CASE Speech_Play
    BY <2>1, NotBusyIsSilent
       DEF Speech_Play, TurnOff, PlayNext, PlayDue, TurnOn, Waits
  <2>2. CASE ~Speech_Play
    BY <2>2 DEF Next, Turn, ScanVolumeKey, SetVolume, ScanInfoKey, VoicePlay, Press, LetGo,
                DebounceTick, SpeechTick, ChipTick, ChipSpeaks
  <2> QED BY <2>1, <2>2
<1> QED BY <1>1, InitSound, NextSound, PTL DEF Spec, NotCutOff

\* A key is reported only when it was found down for 30 ms since it was last found up,
\* and has not been reported since then.
THEOREM BouncesIgnored == Spec => BounceNotReported
<1> DEFINE Reported(k) == keys[k].keystatus = "Key_Debounce" /\ keys'[k].keystatus = "Key_Pressed"
<1>1. ScanInv /\ [Next]_vars => [\A k \in Keys : Reported(k) => found[k] = "settled"]_vars
  <2> SUFFICES ASSUME ScanInv, Next, NEW k \in Keys, Reported(k)
               PROVE  found[k] = "settled"
    BY DEF vars
  <2>1. CASE ScanVolumeKey
    BY <2>1 DEF ScanInv, ScanVolumeKey, Scan, ScanKey, BecomesIdle, Keys, KeyState
  <2>2. CASE ScanInfoKey
    BY <2>2 DEF ScanInv, ScanInfoKey, Scan, ScanKey, BecomesIdle, Keys, KeyState
  <2>3. CASE Press \/ LetGo \/ \E key \in Keys : DebounceTick(key)
    BY <2>3 DEF ScanInv, Press, LetGo, DebounceTick, KeyState
  <2>4. CASE SetVolume \/ Speech_Play \/ VoicePlay \/ SpeechTick \/ ChipTick \/ ChipSpeaks
    BY <2>4 DEF SetVolume, Speech_Play, VoicePlay, SpeechTick, ChipTick, ChipSpeaks, scanned
  <2> QED BY <2>1, <2>2, <2>3, <2>4 DEF Next, Turn
<1> QED BY <1>1, InitScan, NextScan, PTL DEF Spec, BounceNotReported
================================================================================
