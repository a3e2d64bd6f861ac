-------------------------------- MODULE Settings --------------------------------
(****************************************************************************)
(* The navigator's settings (main.cpp): contents in RAM, read from one flash *)
(* page at power-up and written back, page erased first and then word by     *)
(* word, when the phone changes one.  Power may go at any time, in           *)
(* particular between the erasure and the last word.                         *)
(*                                                                          *)
(* A field of contents is a value of a small set; the wall sizes, which      *)
(* share one word of the page, are one value.                                *)
(****************************************************************************)
EXTENDS Integers, Sequences

CONSTANTS
    Counts,        \* the wall sizes the phone may send
    ValidCounts,   \* those with every wall in 10 .. 40
    kDefaultMahjongCount,
    Channels,      \* 1 .. 8
    Volumes,       \* the volumes the phone may send: the assert is not compiled in
    ValidVolumes,  \* 0 .. 7
    kMaxVolume,    \* 7
    KeyUid,        \* the value of uids that belongs to this chip
    Blank          \* what an erased word reads as, 0xff... in every field

ASSUME ValuesAssumption ==
    /\ kDefaultMahjongCount \in ValidCounts /\ ValidCounts \subseteq Counts
    /\ 1 \in Channels
    /\ kMaxVolume \in ValidVolumes /\ ValidVolumes \subseteq Volumes
    /\ Blank \notin ValidCounts /\ Blank \notin Channels /\ Blank \notin ValidVolumes

VARIABLES powered,   \* the navigator runs
          contents,  \* the settings in RAM
          PAI_num,   \* the wall sizes in use
          flash,     \* the page
          saving     \* the words SaveContentsToFlash has yet to program

vars == <<powered, contents, PAI_num, flash, saving>>

\* The words of EepromContent that carry something, in the order they are
\* programmed: ssid, rf_channel and volume share the second, uids is the third.
Words == <<"second", "uids", "counts">>
WordsSet == {Words[i] : i \in 1 .. Len(Words)}

\* The value of a word of contents.
Content(s, word) ==
    CASE word = "second" -> [rf_channel |-> s.rf_channel, volume |-> s.volume]
      [] word = "uids"   -> s.uids
      [] word = "counts" -> s.counts

ErasedPage == [word \in WordsSet |->
                  IF word = "second" THEN [rf_channel |-> Blank, volume |-> Blank] ELSE Blank]

--------------------------------------------------------------------------------
(* Power-up. *)

\* Mutant: what the page says is believed.
Believe(page) ==
    [rf_channel |-> page["second"].rf_channel, volume |-> page["second"].volume,
     uids |-> page["uids"], counts |-> page["counts"]]

\* Powered_Init: a field out of its range is given a default, the wall sizes all
\* together; UIDEncrypt forgets a key that is another chip's.
Powered_Init(page) ==
    [rf_channel |-> IF page["second"].rf_channel \in Channels THEN page["second"].rf_channel
                                                              ELSE 1,
     volume     |-> IF page["second"].volume \in ValidVolumes THEN page["second"].volume
                                                              ELSE kMaxVolume,
     uids       |-> IF page["uids"] = KeyUid THEN KeyUid ELSE Blank,
     counts     |-> IF page["counts"] \in ValidCounts THEN page["counts"]
                                                      ELSE kDefaultMahjongCount]

Init ==
    /\ powered = TRUE
    /\ flash \in {ErasedPage, [ErasedPage EXCEPT !["uids"] = KeyUid]}
    /\ contents = Powered_Init(flash) /\ PAI_num = contents.counts
    /\ saving = <<>>

--------------------------------------------------------------------------------
(* Actions. *)

\* Powered_Init, UIDEncrypt and Navigator_Init.
PowerUp ==
    /\ ~powered /\ powered' = TRUE
    /\ contents' = Powered_Init(flash)
    /\ PAI_num' = contents'.counts
    /\ UNCHANGED <<flash, saving>>

PowerLost ==
    /\ powered /\ powered' = FALSE
    /\ saving' = <<>>
    /\ UNCHANGED <<contents, PAI_num, flash>>

\* Mutant: the page is not erased.
EraseSkipped == flash' = flash /\ saving' = Words

\* SaveContentsToFlash: the page is erased and then programmed; nothing else
\* happens meanwhile, as the main loop waits for it.
Erase == flash' = ErasedPage /\ saving' = Words

ProgramWord ==
    /\ powered /\ saving # <<>>
    /\ flash' = [flash EXCEPT ![Head(saving)] = Content(contents, Head(saving))]
    /\ saving' = Tail(saving)
    /\ UNCHANGED <<powered, contents, PAI_num>>

\* The phone's commands: saved only if they change something.
SaveIfChanged(changed) == IF changed THEN Erase ELSE UNCHANGED <<flash, saving>>

\* Mutant: the new sizes are used but not saved.
CountsNotSaved(counts) ==
    /\ powered /\ saving = <<>>
    /\ PAI_num' = counts
    /\ contents' = [contents EXCEPT !.counts = counts]
    /\ UNCHANGED <<powered, flash, saving>>

Phone_SetPaiCount(counts) ==
    /\ powered /\ saving = <<>>
    /\ PAI_num' = counts
    /\ contents' = [contents EXCEPT !.counts = IF counts # PAI_num THEN counts ELSE @]
    /\ SaveIfChanged(counts # PAI_num)
    /\ UNCHANGED powered

\* The volume is not looked at: one above kMaxVolume is used until the next restart.
Phone_SetVolume(volume) ==
    /\ powered /\ saving = <<>>
    /\ contents' = [contents EXCEPT !.volume = volume]
    /\ SaveIfChanged(volume # contents.volume)
    /\ UNCHANGED <<powered, PAI_num>>

\* Phone_EnterStudyMode saves the channel that the readers are to learn.
SaveRFChannelToFlash(channel) ==
    /\ powered /\ saving = <<>>
    /\ contents' = [contents EXCEPT !.rf_channel = channel]
    /\ SaveIfChanged(channel # contents.rf_channel)
    /\ UNCHANGED <<powered, PAI_num>>

Next ==
    \/ PowerUp \/ PowerLost \/ ProgramWord
    \/ \E counts \in Counts : Phone_SetPaiCount(counts)
    \/ \E volume \in Volumes : Phone_SetVolume(volume)
    \/ \E channel \in Channels : SaveRFChannelToFlash(channel)

Spec == Init /\ [][Next]_vars

--------------------------------------------------------------------------------
(* Properties. *)

Setting == [rf_channel : Channels, volume : Volumes, uids : {KeyUid, Blank}, counts : Counts]

\* No setting is anything but what the phone sent or Powered_Init lets through, although
\* each power-up reads a page that was erased, half programmed or whole.
TypeOK ==
    /\ powered \in BOOLEAN
    /\ contents \in Setting /\ PAI_num \in Counts
    /\ saving \in {Words, Tail(Words), Tail(Tail(Words)), << >>}

\* A setting as a power-up would take it.
Restarted(s) == [s EXCEPT !.volume = IF @ \in ValidVolumes THEN @ ELSE kMaxVolume,
                          !.counts = IF @ \in ValidCounts THEN @ ELSE kDefaultMahjongCount]

\* Unless a save is going on, a restart changes nothing: what is in use is what
\* Powered_Init would make of the page, saved or defaulted alike, over any number
\* of changes and of losses of power.
RestartChangesNothing ==
    powered /\ saving = <<>> => /\ Powered_Init(flash) = Restarted(contents)
                               /\ PAI_num = contents.counts

\* Power lost in the middle of a save costs settings, but no earlier one comes
\* back: after a restart each field is as it was in RAM, or its default.
Default == [rf_channel |-> 1, volume |-> kMaxVolume, uids |-> Blank,
            counts |-> kDefaultMahjongCount]
RestartKeepsOrDefaults ==
    [][~powered /\ powered' => \A f \in DOMAIN Default :
                                  contents'[f] \in {Restarted(contents)[f], Default[f]}]_vars
================================================================================
