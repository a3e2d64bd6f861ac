----------------------------- MODULE SettingsProofs -----------------------------
(* What a restart makes of the settings, for every set of values they may have: *)
(* the types, what a restart changes outside a save, and what it can lose in    *)
(* one.  And what the link may do to the phone's commands on the way: the       *)
(* checksum, the parser, and that bytes, parser and dispatch implement the      *)
(* commands of Settings.                                                        *)
EXTENDS PhoneCommands, FiniteSetTheorems, SequenceTheorems, TLAPS

\* The words that a save in progress has still to program.
Left == {saving[i] : i \in 1 .. Len(saving)}

\* A word of the page fits if Powered_Init takes from it what is in contents.
Fits(word) ==
    CASE word = "second" -> /\ Powered_Init(flash).rf_channel = contents.rf_channel
                            /\ Powered_Init(flash).volume = Restarted(contents).volume
      [] word = "uids"   -> Powered_Init(flash).uids = contents.uids
      [] word = "counts" -> Powered_Init(flash).counts = Restarted(contents).counts

Tails == {Words, <<"uids", "counts">>, <<"counts">>, << >>}

Types ==
    /\ powered \in BOOLEAN
    /\ contents \in Setting /\ PAI_num \in Counts
    /\ saving \in Tails
    /\ PAI_num = contents.counts
    /\ DOMAIN flash = WordsSet

\* Every word of the page fits or is erased; those programmed so far, or all of
\* them when no save is going on, fit.
PageFits ==
    /\ \A word \in WordsSet : Fits(word) \/ flash[word] = ErasedPage[word]
    /\ powered => \A word \in WordsSet \ Left : Fits(word)

SettingsInv == Types /\ PageFits

--------------------------------------------------------------------------------
(* Facts about one page. *)

\* What Powered_Init takes from a page is in range, and taking it again changes nothing.
LEMMA PoweredInRange ==
    ASSUME NEW page
    PROVE  /\ Powered_Init(page) \in Setting /\ Powered_Init(page).counts \in Counts
           /\ Restarted(Powered_Init(page)).volume = Powered_Init(page).volume
           /\ Restarted(Powered_Init(page)).counts = Powered_Init(page).counts
<1>1. Powered_Init(page) \in Setting
  BY ValuesAssumption DEF Powered_Init, Setting
<1>2. Powered_Init(page).counts \in ValidCounts /\ Powered_Init(page).volume \in ValidVolumes
  BY ValuesAssumption DEF Powered_Init
<1> QED BY <1>1, <1>2, ValuesAssumption DEF Restarted, Setting

\* What Powered_Init makes of an erased word is the default of its fields.
LEMMA ErasedIsDefault ==
    /\ flash["second"] = ErasedPage["second"]
         => /\ Powered_Init(flash).rf_channel = Default.rf_channel
            /\ Powered_Init(flash).volume = Default.volume
    /\ flash["uids"] = ErasedPage["uids"] => Powered_Init(flash).uids = Default.uids
    /\ flash["counts"] = ErasedPage["counts"] => Powered_Init(flash).counts = Default.counts
<1>1. /\ ErasedPage["second"] = [rf_channel |-> Blank, volume |-> Blank]
      /\ ErasedPage["uids"] = Blank /\ ErasedPage["counts"] = Blank
  BY DEF ErasedPage, WordsSet, Words
<1>2. Blank \notin Channels /\ Blank \notin ValidVolumes /\ Blank \notin ValidCounts
  BY ValuesAssumption
<1> QED BY <1>1, <1>2 DEF Powered_Init, Default

LEMMA WordNames == WordsSet = {"second", "uids", "counts"}
  BY DEF WordsSet, Words

\* The words left, for each point a save may have reached.
LEMMA LeftOf ==
    /\ saving = Words => Left = WordsSet
    /\ saving = <<"uids", "counts">> => Left = {"uids", "counts"}
    /\ saving = <<"counts">> => Left = {"counts"}
    /\ saving = << >> => Left = {}
<1>1. /\ saving = Words => Left = WordsSet
      /\ saving = << >> => Left = {}
  BY DEF Left, WordsSet, Words
<1>2. /\ saving = <<"uids", "counts">> => Left = {"uids", "counts"}
      /\ saving = <<"counts">> => Left = {"counts"}
  BY DEF Left
<1> QED BY <1>1, <1>2

--------------------------------------------------------------------------------
(* The invariant. *)

LEMMA InitSettings == Init => SettingsInv
<1> SUFFICES ASSUME Init PROVE SettingsInv
  OBVIOUS
<1>1. contents = Powered_Init(flash) /\ saving = << >> /\ powered = TRUE
      /\ PAI_num = contents.counts
  BY DEF Init
<1>2. DOMAIN flash = WordsSet
  BY DEF Init, ErasedPage
<1>3. contents \in Setting /\ contents.counts \in Counts
  BY <1>1, PoweredInRange
<1>4. Types
  BY <1>1, <1>2, <1>3 DEF Types, Tails
<1>5. ASSUME NEW word \in WordsSet PROVE Fits(word)
  BY <1>1, PoweredInRange, WordNames DEF Fits
<1> QED BY <1>4, <1>5 DEF SettingsInv, PageFits

\* A command of the phone either saves, or leaves everything as it was.
LEMMA CommandKeeps ==
    ASSUME SettingsInv, powered, saving = << >>, powered' = powered,
           contents' \in Setting, PAI_num' = contents'.counts,
           Erase \/ (contents' = contents /\ UNCHANGED <<flash, saving>>)
    PROVE  SettingsInv'
<1>1. PAI_num' \in Counts
  BY DEF Setting
<1>2. CASE Erase
  <2>1. flash' = ErasedPage /\ saving' = Words
    BY <1>2 DEF Erase
  <2>2. Types'
    BY <1>1, <2>1 DEF SettingsInv, Types, Tails, ErasedPage
  <2>3. Left' = WordsSet
    BY <2>1 DEF Left, WordsSet, Words
  <2> QED BY <2>1, <2>2, <2>3 DEF SettingsInv, PageFits
<1>3. CASE contents' = contents /\ UNCHANGED <<flash, saving>>
  <2>1. Types'
    BY <1>1, <1>3 DEF SettingsInv, Types
  <2>2. Left' = Left /\ \A word \in WordsSet : Fits(word)' <=> Fits(word)
    BY <1>3 DEF Left, Fits
  <2> QED BY <1>3, <2>1, <2>2 DEF SettingsInv, PageFits
<1> QED BY <1>2, <1>3

LEMMA NextSettings == SettingsInv /\ [Next]_vars => SettingsInv'
<1> SUFFICES ASSUME SettingsInv, [Next]_vars PROVE SettingsInv'
  OBVIOUS
<1>1. CASE PowerUp
  <2>1. contents' = Powered_Init(flash) /\ flash' = flash /\ saving' = saving
        /\ powered' = TRUE /\ PAI_num' = contents'.counts
    BY <1>1 DEF PowerUp
  <2>2. contents' \in Setting /\ contents'.counts \in Counts
        /\ Restarted(contents').volume = contents'.volume
        /\ Restarted(contents').counts = contents'.counts
    BY <2>1, PoweredInRange
  <2>3. Types'
    BY <2>1, <2>2 DEF SettingsInv, Types
  <2>4. ASSUME NEW word \in WordsSet PROVE Fits(word)'
    BY <2>1, <2>2, WordNames DEF Fits
  <2> QED BY <2>3, <2>4 DEF SettingsInv, PageFits
<1>2. CASE PowerLost
  <2>1. Types'
    BY <1>2 DEF PowerLost, SettingsInv, Types, Tails
  <2>2. \A word \in WordsSet : Fits(word)' <=> Fits(word)
    BY <1>2 DEF PowerLost, Fits
  <2> QED BY <1>2, <2>1, <2>2 DEF PowerLost, SettingsInv, PageFits
<1>3. CASE ProgramWord
  <2>0. PICK w : w = Head(saving)
    OBVIOUS
  <2>1. saving \in Tails \ {<< >>} /\ saving' = Tail(saving) /\ powered /\ powered'
        /\ flash' = [flash EXCEPT ![w] = Content(contents, w)] /\ contents' = contents
        /\ PAI_num' = PAI_num
    BY <1>3, <2>0 DEF ProgramWord, SettingsInv, Types
  <2>2. /\ w \in WordsSet /\ saving' \in Tails
        /\ Left' = Left \ {w}
    <3>1. CASE saving = Words
      <4>1. w = "second" /\ saving' = <<"uids", "counts">>
        BY <2>0, <2>1, <3>1 DEF Words
      <4>2. Left = WordsSet /\ Left' = {"uids", "counts"}
        BY <3>1, <4>1, LeftOf DEF Left
      <4> QED BY <4>1, <4>2, WordNames DEF Tails
    <3>2. CASE saving = <<"uids", "counts">>
      <4>1. w = "uids" /\ saving' = <<"counts">>
        BY <2>0, <2>1, <3>2
      <4> QED BY <3>2, <4>1, LeftOf, WordNames DEF Tails, Left
    <3>3. CASE saving = <<"counts">>
      <4>1. w = "counts" /\ saving' = << >>
        BY <2>0, <2>1, <3>3
      <4> QED BY <3>3, <4>1, LeftOf, WordNames DEF Tails, Left
    <3> QED BY <2>1, <3>1, <3>2, <3>3 DEF Tails
  <2>3. Types'
    BY <2>1, <2>2 DEF SettingsInv, Types
  <2>4. Fits(w)'
    <3>1. flash'[w] = Content(contents, w)
      BY <2>1, <2>2 DEF SettingsInv, Types
    <3>2. CASE w = "second"
      BY <2>1, <3>1, <3>2
         DEF Fits, Content, Powered_Init, Restarted, SettingsInv, Types, Setting
    <3>3. CASE w = "uids"
      BY <2>1, <3>1, <3>3 DEF Fits, Content, Powered_Init, SettingsInv, Types, Setting
    <3>4. CASE w = "counts"
      BY <2>1, <3>1, <3>4
         DEF Fits, Content, Powered_Init, Restarted, SettingsInv, Types, Setting
    <3> QED BY <2>2, <3>2, <3>3, <3>4, WordNames
  <2>5. ASSUME NEW word \in WordsSet, word # w
        PROVE  (Fits(word)' <=> Fits(word)) /\ flash'[word] = flash[word]
    <3>1. flash'[word] = flash[word]
      BY <2>1, <2>5 DEF SettingsInv, Types
    <3> QED BY <2>1, <3>1, WordNames DEF Fits, Powered_Init
  <2>6. ASSUME NEW word \in WordsSet
        PROVE  /\ Fits(word)' \/ flash'[word] = ErasedPage[word]
               /\ word \notin Left' => Fits(word)'
    BY <2>1, <2>2, <2>4, <2>5 DEF SettingsInv, PageFits
  <2> QED BY <2>3, <2>6 DEF SettingsInv, PageFits
<1>4. ASSUME NEW counts \in Counts, Phone_SetPaiCount(counts)
      PROVE  SettingsInv'
  <2>1. /\ powered /\ saving = << >> /\ powered' = powered /\ PAI_num' = counts
        /\ contents' = [contents EXCEPT !.counts = IF counts # PAI_num THEN counts ELSE @]
        /\ SaveIfChanged(counts # PAI_num)
    BY <1>4 DEF Phone_SetPaiCount
  <2>2. contents \in Setting /\ contents.counts = PAI_num
    BY DEF SettingsInv, Types
  <2>3. contents' \in Setting /\ contents'.counts = counts
    BY <2>1, <2>2 DEF Setting
  <2>4. Erase \/ (contents' = contents /\ UNCHANGED <<flash, saving>>)
    BY <2>1, <2>2 DEF SaveIfChanged, Setting
  <2> QED BY <2>1, <2>3, <2>4, CommandKeeps
<1>5. ASSUME NEW volume \in Volumes, Phone_SetVolume(volume)
      PROVE  SettingsInv'
  <2>1. /\ powered /\ saving = << >> /\ powered' = powered /\ PAI_num' = PAI_num
        /\ contents' = [contents EXCEPT !.volume = volume]
        /\ SaveIfChanged(volume # contents.volume)
    BY <1>5 DEF Phone_SetVolume
  <2>2. contents \in Setting /\ contents.counts = PAI_num
    BY DEF SettingsInv, Types
  <2>3. contents' \in Setting /\ contents'.counts = PAI_num
    BY <2>1, <2>2 DEF Setting
  <2>4. Erase \/ (contents' = contents /\ UNCHANGED <<flash, saving>>)
    BY <2>1, <2>2 DEF SaveIfChanged, Setting
  <2> QED BY <2>1, <2>3, <2>4, CommandKeeps
<1>6. ASSUME NEW channel \in Channels, SaveRFChannelToFlash(channel)
      PROVE  SettingsInv'
  <2>1. /\ powered /\ saving = << >> /\ powered' = powered /\ PAI_num' = PAI_num
        /\ contents' = [contents EXCEPT !.rf_channel = channel]
        /\ SaveIfChanged(channel # contents.rf_channel)
    BY <1>6 DEF SaveRFChannelToFlash
  <2>2. contents \in Setting /\ contents.counts = PAI_num
    BY DEF SettingsInv, Types
  <2>3. contents' \in Setting /\ contents'.counts = PAI_num
    BY <2>1, <2>2 DEF Setting
  <2>4. Erase \/ (contents' = contents /\ UNCHANGED <<flash, saving>>)
    BY <2>1, <2>2 DEF SaveIfChanged, Setting
  <2> QED BY <2>1, <2>3, <2>4, CommandKeeps
<1>7. CASE UNCHANGED vars
  <2>1. Types'
    BY <1>7 DEF vars, SettingsInv, Types
  <2>2. Left' = Left /\ \A word \in WordsSet : Fits(word)' <=> Fits(word)
    BY <1>7 DEF vars, Left, Fits
  <2> QED BY <1>7, <2>1, <2>2 DEF vars, SettingsInv, PageFits
<1> QED BY <1>1, <1>2, <1>3, <1>4, <1>5, <1>6, <1>7 DEF Next

--------------------------------------------------------------------------------
(* Theorems. *)

\* At any time each field that Powered_Init would take from the page is the one
\* in use, or its default.
LEMMA KeepsOrDefaults ==
    ASSUME SettingsInv, NEW f \in DOMAIN Default
    PROVE  Powered_Init(flash)[f] \in {Restarted(contents)[f], Default[f]}
<1>1. DOMAIN Default = {"rf_channel", "volume", "uids", "counts"}
  BY DEF Default
<1>2. /\ Restarted(contents).rf_channel = contents.rf_channel
      /\ Restarted(contents).uids = contents.uids
  BY DEF SettingsInv, Types, Setting, Restarted
<1>3. \A word \in WordsSet : Fits(word) \/ flash[word] = ErasedPage[word]
  BY DEF SettingsInv, PageFits
<1>4. CASE f = "rf_channel"
  BY <1>2, <1>3, <1>4, ErasedIsDefault, WordNames DEF Fits
<1>5. CASE f = "volume"
  BY <1>3, <1>5, ErasedIsDefault, WordNames DEF Fits
<1>6. CASE f = "uids"
  BY <1>2, <1>3, <1>6, ErasedIsDefault, WordNames DEF Fits
<1>7. CASE f = "counts"
  BY <1>3, <1>7, ErasedIsDefault, WordNames DEF Fits
<1> QED BY <1>1, <1>4, <1>5, <1>6, <1>7

\* Every setting is what the phone sent or Powered_Init lets through, and a save is somewhere in the page's words
\* (SaveContentsToFlash), whenever power was lost: no erased word is ever used.
THEOREM SettingsTyped == Spec => []TypeOK
<1>1. SettingsInv => TypeOK
  <2>1. Tail(Words) = <<"uids", "counts">>
    BY DEF Words
  <2>2. Tail(<<"uids", "counts">>) = <<"counts">>
    OBVIOUS
  <2> QED BY <2>1, <2>2 DEF TypeOK, SettingsInv, Types, Tails
<1> QED BY <1>1, InitSettings, NextSettings, PTL DEF Spec

\* Outside a save, in use is what a restart would make of the page
\* (SaveContentsToFlash, Powered_Init), after any number of commands and losses of power.
THEOREM RestartIsHarmless == Spec => []RestartChangesNothing
<1>1. SettingsInv => RestartChangesNothing
  <2> SUFFICES ASSUME SettingsInv, powered, saving = << >>
               PROVE  Powered_Init(flash) = Restarted(contents) /\ PAI_num = contents.counts
    BY DEF RestartChangesNothing
  <2>1. \A word \in WordsSet : Fits(word)
    BY LeftOf DEF SettingsInv, PageFits
  <2>2. /\ Powered_Init(flash).rf_channel = contents.rf_channel
        /\ Powered_Init(flash).volume = Restarted(contents).volume
        /\ Powered_Init(flash).uids = contents.uids
        /\ Powered_Init(flash).counts = Restarted(contents).counts
    BY <2>1, WordNames DEF Fits
  <2>3. contents \in Setting /\ Powered_Init(flash) \in Setting
    BY PoweredInRange DEF SettingsInv, Types
  <2>4. Restarted(contents) \in Setting
    BY <2>3, ValuesAssumption DEF Setting, Restarted
  <2>5. /\ Restarted(contents).rf_channel = contents.rf_channel
        /\ Restarted(contents).uids = contents.uids
    BY <2>3 DEF Setting, Restarted
  <2>6. Powered_Init(flash) = Restarted(contents)
    BY <2>2, <2>3, <2>4, <2>5 DEF Setting
  <2> QED BY <2>6 DEF SettingsInv, Types
<1> QED BY <1>1, InitSettings, NextSettings, PTL DEF Spec

\* A loss of power, in the middle of a save too, costs settings but brings none
\* back that had been replaced (SaveContentsToFlash erases first).
THEOREM NothingOlderComesBack == Spec => RestartKeepsOrDefaults
<1>1. SettingsInv /\ [Next]_vars
        => (~powered /\ powered' => \A f \in DOMAIN Default :
                contents'[f] \in {Restarted(contents)[f], Default[f]})
  <2> SUFFICES ASSUME SettingsInv, [Next]_vars, ~powered, powered', NEW f \in DOMAIN Default
               PROVE  contents'[f] \in {Restarted(contents)[f], Default[f]}
    OBVIOUS
  <2>1. PowerUp
    BY DEF Next, PowerLost, ProgramWord, Phone_SetPaiCount, Phone_SetVolume,
           SaveRFChannelToFlash, vars
  <2>2. contents' = Powered_Init(flash)
    BY <2>1 DEF PowerUp
  <2> QED BY <2>2, KeepsOrDefaults
<1>2. SettingsInv /\ [Next]_vars
        => [~powered /\ powered' => \A f \in DOMAIN Default :
                contents'[f] \in {Restarted(contents)[f], Default[f]}]_vars
  BY <1>1
<1> QED BY <1>2, InitSettings, NextSettings, PTL DEF Spec, RestartKeepsOrDefaults

--------------------------------------------------------------------------------
(* The checksum: a bit of it is the parity of that bit in the bytes. *)

\* The bits of a byte.
Bits == {1, 2, 4, 8, 16, 32, 64, 128}

\* Who has a bit.
Having(bytes, bit) == {i \in DOMAIN bytes : (bytes[i] \div bit) % 2 = 1}

\* A bit of the checksum counts finitely many bytes.
LEMMA HavingFinite ==
    ASSUME NEW bytes \in Seq(Byte), NEW bit
    PROVE  /\ IsFiniteSet(Having(bytes, bit)) /\ Cardinality(Having(bytes, bit)) \in Nat
           /\ Odd(bytes, bit) = Cardinality(Having(bytes, bit)) % 2
           /\ Odd(bytes, bit) \in {0, 1}
<1>1. IsFiniteSet(1 .. Len(bytes))
  BY FS_Interval, LenProperties
<1>2. DOMAIN bytes = 1 .. Len(bytes)
  BY LenProperties
<1>3. Having(bytes, bit) \in SUBSET (1 .. Len(bytes))
  BY <1>2 DEF Having
<1>4. IsFiniteSet(Having(bytes, bit))
  BY <1>1, <1>3, FS_Subset
<1>5. Cardinality(Having(bytes, bit)) \in Nat
  BY <1>4, FS_CardinalityType
<1>6. Odd(bytes, bit) = Cardinality(Having(bytes, bit)) % 2
  BY DEF Odd, Having
<1> QED BY <1>4, <1>5, <1>6

\* A byte that has a bit just when the bytes before it have it an odd number of times
\* makes them even.
LEMMA OddAppend ==
    ASSUME NEW bytes \in Seq(Byte), NEW b \in Byte, NEW bit \in Bits,
           (b \div bit) % 2 = Odd(bytes, bit)
    PROVE  Odd(Append(bytes, b), bit) = 0
<1> DEFINE longer == Append(bytes, b)
           n == Len(bytes) + 1
<1>1. /\ longer \in Seq(Byte) /\ Len(bytes) \in Nat /\ DOMAIN bytes = 1 .. Len(bytes)
      /\ DOMAIN longer = 1 .. n /\ longer[n] = b
      /\ \A i \in 1 .. Len(bytes) : longer[i] = bytes[i]
  BY AppendProperties, LenProperties
<1> HIDE DEF longer
<1>2. CASE (b \div bit) % 2 = 1
  <2>1. Having(longer, bit) = Having(bytes, bit) \cup {n}
    BY <1>1, <1>2 DEF Having
  <2>2. n \notin Having(bytes, bit)
    BY <1>1 DEF Having
  <2>3. IsFiniteSet(Having(bytes, bit)) /\ Cardinality(Having(bytes, bit)) \in Nat
    BY HavingFinite
  <2>4. Cardinality(Having(longer, bit)) = Cardinality(Having(bytes, bit)) + 1
    BY <2>1, <2>2, <2>3, FS_AddElement
  <2>5. Cardinality(Having(bytes, bit)) % 2 = 1
    BY <1>2, HavingFinite
  <2>6. (Cardinality(Having(bytes, bit)) + 1) % 2 = 0
    BY <2>3, <2>5
  <2>7. Odd(longer, bit) = Cardinality(Having(longer, bit)) % 2
    BY <1>1, HavingFinite
  <2> QED BY <2>4, <2>6, <2>7 DEF longer
<1>3. CASE (b \div bit) % 2 = 0
  <2>1. Having(longer, bit) = Having(bytes, bit)
    BY <1>1, <1>3 DEF Having
  <2>2. Odd(longer, bit) = Odd(bytes, bit)
    BY <1>1, <2>1, HavingFinite
  <2> QED BY <1>3, <2>2 DEF longer
<1>4. Odd(bytes, bit) \in {0, 1}
  BY HavingFinite
<1> QED BY <1>2, <1>3, <1>4

\* The byte with the bits v.
ByteOf(v) ==
    v[1] + 2 * v[2] + 4 * v[4] + 8 * v[8]
      + 16 * v[16] + 32 * v[32] + 64 * v[64] + 128 * v[128]

\* The bits of a byte put together from bits are those bits.
LEMMA BitsOf ==
    ASSUME NEW v \in [Bits -> {0, 1}]
    PROVE  /\ ByteOf(v) \in Byte
           /\ \A bit \in Bits : (ByteOf(v) \div bit) % 2 = v[bit]
<1> DEFINE a == v[1]   b == v[2]   c == v[4]   d == v[8]
           e == v[16]  f == v[32]  g == v[64]  h == v[128]
           x == ByteOf(v)
<1>1. /\ a \in {0, 1} /\ b \in {0, 1} /\ c \in {0, 1} /\ d \in {0, 1}
      /\ e \in {0, 1} /\ f \in {0, 1} /\ g \in {0, 1} /\ h \in {0, 1}
  BY DEF Bits
<1>2. x = a + 2 * b + 4 * c + 8 * d + 16 * e + 32 * f + 64 * g + 128 * h
  BY DEF ByteOf
<1> HIDE DEF a, b, c, d, e, f, g, h, x
<1>3. /\ x \in Byte
      /\ (x \div 1) % 2 = a /\ (x \div 2) % 2 = b /\ (x \div 4) % 2 = c
      /\ (x \div 8) % 2 = d /\ (x \div 16) % 2 = e /\ (x \div 32) % 2 = f
      /\ (x \div 64) % 2 = g /\ (x \div 128) % 2 = h
  BY <1>1, <1>2, SMTT(30) DEF Byte
<1>4. \A bit \in Bits : (x \div bit) % 2 = v[bit]
  BY <1>3 DEF Bits, a, b, c, d, e, f, g, h
<1> QED BY <1>3, <1>4 DEF x

\* A body with its checksum behind it has the checksum 0.
LEMMA CrcCloses ==
    ASSUME NEW body \in Seq(Byte)
    PROVE  CalcCrc(body) \in Byte /\ CalcCrc(Append(body, CalcCrc(body))) = 0
<1> DEFINE v == [bit \in Bits |-> Odd(body, bit)]
           x == CalcCrc(body)
<1>1. v \in [Bits -> {0, 1}]
  BY HavingFinite
<1>2. x = ByteOf(v)
  BY DEF CalcCrc, ByteOf, Bits
<1>3. \A bit \in Bits : v[bit] = Odd(body, bit)
  OBVIOUS
<1> HIDE DEF v, x
<1>4. x \in Byte /\ \A bit \in Bits : (x \div bit) % 2 = Odd(body, bit)
  BY <1>1, <1>2, <1>3, BitsOf
<1>5. \A bit \in Bits : Odd(Append(body, x), bit) = 0
  BY <1>4, OddAppend
<1>6. CalcCrc(Append(body, x)) = 0
  BY <1>5 DEF CalcCrc, Bits
<1> QED BY <1>4, <1>6 DEF x

--------------------------------------------------------------------------------
(* One damaged byte changes the checksum. *)

\* No byte is left over: the bits of the checksum are 0 when it is.
LEMMA CrcZero ==
    ASSUME NEW bytes \in Seq(Byte), CalcCrc(bytes) = 0, NEW bit \in Bits
    PROVE  Odd(bytes, bit) = 0
<1> DEFINE v == [b \in Bits |-> Odd(bytes, b)]
<1>1. v \in [Bits -> {0, 1}]
  BY HavingFinite
<1>2. CalcCrc(bytes) = ByteOf(v)
  BY DEF CalcCrc, ByteOf, Bits
<1>3. v[bit] = Odd(bytes, bit)
  OBVIOUS
<1> HIDE DEF v
<1>4. (ByteOf(v) \div bit) % 2 = v[bit]
  BY <1>1, BitsOf
<1>5. (0 \div bit) % 2 = 0
  BY DEF Bits
<1> QED BY <1>2, <1>3, <1>4, <1>5

\* Two different bytes differ in a bit.
LEMMA BitsDiffer ==
    ASSUME NEW x \in Byte, NEW y \in Byte, x # y
    PROVE  \E bit \in Bits : (x \div bit) % 2 # (y \div bit) % 2
<1>1. ASSUME NEW z \in Byte
      PROVE  z = ((z \div 1) % 2) + 2 * ((z \div 2) % 2) + 4 * ((z \div 4) % 2)
                   + 8 * ((z \div 8) % 2) + 16 * ((z \div 16) % 2) + 32 * ((z \div 32) % 2)
                   + 64 * ((z \div 64) % 2) + 128 * ((z \div 128) % 2)
  BY SMTT(60) DEF Byte
<1> SUFFICES ASSUME \A bit \in Bits : (x \div bit) % 2 = (y \div bit) % 2
             PROVE  FALSE
  OBVIOUS
<1> QED BY <1>1 DEF Bits

\* A byte that has a bit where another sequence has one without it makes the parity of that
\* bit another.
LEMMA OddDiffers ==
    ASSUME NEW s \in Seq(Byte), NEW t \in Seq(Byte), Len(s) = Len(t), NEW bit,
           NEW i \in 1 .. Len(s), \A j \in 1 .. Len(s) : j # i => s[j] = t[j],
           (s[i] \div bit) % 2 = 1, (t[i] \div bit) % 2 # 1
    PROVE  Odd(s, bit) # Odd(t, bit)
<1>1. DOMAIN s = 1 .. Len(s) /\ DOMAIN t = 1 .. Len(s)
  BY LenProperties
<1>2. Having(s, bit) = Having(t, bit) \cup {i} /\ i \notin Having(t, bit)
  BY <1>1 DEF Having
<1>3. IsFiniteSet(Having(t, bit)) /\ Cardinality(Having(t, bit)) \in Nat
  BY HavingFinite
<1>4. Cardinality(Having(s, bit)) = Cardinality(Having(t, bit)) + 1
  BY <1>2, <1>3, FS_AddElement
<1>5. PICK n \in Nat : n = Cardinality(Having(t, bit))
  BY <1>3
<1>6. Odd(s, bit) = (n + 1) % 2 /\ Odd(t, bit) = n % 2
  BY <1>4, <1>5, HavingFinite
<1>7. (n + 1) % 2 # n % 2
  OBVIOUS
<1> QED BY <1>6, <1>7

\* Two sequences that differ in one byte do not both have the checksum 0.
LEMMA CrcCatches ==
    ASSUME NEW s \in Seq(Byte), NEW t \in Seq(Byte), Len(s) = Len(t), NEW i \in 1 .. Len(s),
           s[i] # t[i], \A j \in 1 .. Len(s) : j # i => s[j] = t[j],
           CalcCrc(s) = 0
    PROVE  CalcCrc(t) # 0
<1> SUFFICES ASSUME CalcCrc(t) = 0 PROVE FALSE
  OBVIOUS
<1>1. s[i] \in Byte /\ t[i] \in Byte
  BY ElementOfSeq
<1>2. PICK bit \in Bits : (s[i] \div bit) % 2 # (t[i] \div bit) % 2
  BY <1>1, BitsDiffer
<1>3. (s[i] \div bit) % 2 \in {0, 1} /\ (t[i] \div bit) % 2 \in {0, 1}
  <2>1. ASSUME NEW x \in Byte PROVE (x \div bit) % 2 \in {0, 1}
    BY DEF Byte, Bits
  <2> QED BY <1>1, <2>1
<1>4. Odd(s, bit) = 0 /\ Odd(t, bit) = 0
  BY CrcZero
<1>5. CASE (s[i] \div bit) % 2 = 1
  <2>1. (t[i] \div bit) % 2 # 1
    BY <1>2, <1>5
  <2> QED BY <1>4, <1>5, <2>1, OddDiffers
<1>6. CASE (s[i] \div bit) % 2 # 1
  <2>1. (t[i] \div bit) % 2 = 1
    BY <1>2, <1>3, <1>6
  <2>2. \A j \in 1 .. Len(t) : j # i => t[j] = s[j]
    OBVIOUS
  <2> QED BY <1>4, <1>6, <2>1, <2>2, OddDiffers
<1> QED BY <1>5, <1>6

--------------------------------------------------------------------------------
(* The phone's frames. *)

\* What the parser goes by in a frame.
Framed(p) ==
    /\ p \in Seq(Byte) /\ Len(p) \in 8 .. 12
    /\ p[1] = kFrameHead /\ p[2] = Len(p) - 1 /\ p[Len(p)] = kFrameTail
    /\ CalcCrc(SubSeq(p, 1, Len(p) - 1)) = 0

\* The bytes of two sequences joined.
LEMMA Joined ==
    ASSUME NEW s \in Seq(Byte), NEW t \in Seq(Byte)
    PROVE  /\ s \o t \in Seq(Byte) /\ Len(s \o t) = Len(s) + Len(t)
           /\ \A i \in 1 .. Len(s) : (s \o t)[i] = s[i]
           /\ \A i \in 1 .. Len(t) : (s \o t)[Len(s) + i] = t[i]
<1>1. Len(s) \in Nat /\ Len(t) \in Nat
  BY LenProperties
<1>2. /\ s \o t \in Seq(Byte) /\ Len(s \o t) = Len(s) + Len(t)
      /\ \A i \in 1 .. Len(s) + Len(t) : (s \o t)[i] = IF i <= Len(s) THEN s[i] ELSE t[i - Len(s)]
  BY ConcatProperties
<1>3. \A i \in 1 .. Len(s) : (s \o t)[i] = s[i]
  BY <1>1, <1>2
<1>4. ASSUME NEW i \in 1 .. Len(t) PROVE (s \o t)[Len(s) + i] = t[i]
  <2>1. /\ Len(s) + i \in 1 .. Len(s) + Len(t) /\ ~(Len(s) + i <= Len(s))
        /\ (Len(s) + i) - Len(s) = i
    BY <1>1
  <2> QED BY <1>2, <2>1
<1> QED BY <1>2, <1>3, <1>4

\* A command is bytes, two of them or, with the wall sizes, six.
LEMMA CommandBytes ==
    ASSUME NEW command \in Commands
    PROVE  command \in Seq(Byte) /\ Len(command) \in {2, 6}
<1>1. CASE \E counts \in Counts : command = <<PhoneCmd_SetTilesCount, 4>> \o counts
  <2>1. PICK counts \in Counts : command = <<PhoneCmd_SetTilesCount, 4>> \o counts
    BY <1>1
  <2>2. counts \in Seq(Byte) /\ Len(counts) = 4
    BY BytesAssumption
  <2>3. <<PhoneCmd_SetTilesCount, 4>> \in Seq(Byte) /\ Len(<<PhoneCmd_SetTilesCount, 4>>) = 2
    BY DEF PhoneCmd_SetTilesCount, Byte
  <2>4. /\ command \in Seq(Byte)
        /\ Len(command) = Len(<<PhoneCmd_SetTilesCount, 4>>) + Len(counts)
    BY <2>1, <2>2, <2>3, Joined
  <2> QED BY <2>2, <2>3, <2>4
<1>2. CASE \E volume \in Volumes : command = <<PhoneCmd_SetVolume, volume>>
  BY <1>2, BytesAssumption DEF PhoneCmd_SetVolume, Byte
<1>3. CASE \E channel \in Channels : command = <<PhoneCmd_EnterStudyMode, channel>>
  BY <1>3, BytesAssumption DEF PhoneCmd_EnterStudyMode, Byte
<1> QED BY <1>1, <1>2, <1>3 DEF Commands

\* What stands where in a packet.
LEMMA PacketBytes ==
    ASSUME NEW command \in Commands, NEW transID \in TransIDs
    PROVE  LET p == Packet(command, transID)
               n == Len(command)
           IN  /\ p \in Seq(Byte) /\ Len(p) = n + 6 /\ n \in {2, 6}
               /\ p[1] = kFrameHead /\ p[2] = n + 5
               /\ \A i \in 1 .. n : p[i + 2] = command[i]
               /\ p[n + 6] = kFrameTail /\ CalcCrc(SubSeq(p, 1, n + 5)) = 0
<1> DEFINE n == Len(command)
           head == <<kFrameHead, n + 5>>
           asked == head \o command
           id == <<240, transID>>
           body == asked \o id
           crc == CalcCrc(body)
           end == <<crc, kFrameTail>>
           p == Packet(command, transID)
<1>1. command \in Seq(Byte) /\ n \in {2, 6} /\ n \in Nat
  BY CommandBytes
<1> HIDE DEF n
<1>2. /\ head \in Seq(Byte) /\ Len(head) = 2 /\ head[1] = kFrameHead /\ head[2] = n + 5
      /\ id \in Seq(Byte) /\ Len(id) = 2
  <2>1. PICK size : size = n + 5 /\ size \in Byte
    <3>1. n + 5 \in Byte
      BY <1>1 DEF Byte
    <3> QED BY <3>1
  <2>2. <<kFrameHead, size>> \in Seq(Byte)
    BY <2>1 DEF kFrameHead, Byte
  <2>3. transID \in Byte /\ 240 \in Byte
    BY BytesAssumption DEF Byte
  <2> QED BY <2>1, <2>2, <2>3
<1>3. p = body \o end
  BY DEF Packet, n
<1> HIDE DEF head, id, p
<1>4. /\ asked \in Seq(Byte) /\ Len(asked) = n + 2
      /\ asked[1] = kFrameHead /\ asked[2] = n + 5
      /\ \A i \in 1 .. n : asked[i + 2] = command[i]
  <2>1. /\ asked \in Seq(Byte) /\ Len(asked) = Len(head) + Len(command)
        /\ \A i \in 1 .. Len(head) : asked[i] = head[i]
        /\ \A i \in 1 .. Len(command) : asked[Len(head) + i] = command[i]
    BY <1>1, <1>2, Joined
  <2> HIDE DEF asked
  <2> QED BY <1>1, <1>2, <2>1 DEF n
<1> HIDE DEF asked
<1>5. /\ body \in Seq(Byte) /\ Len(body) = n + 4
      /\ \A i \in 1 .. n + 2 : body[i] = asked[i]
  <2>1. /\ body \in Seq(Byte) /\ Len(body) = Len(asked) + Len(id)
        /\ \A i \in 1 .. Len(asked) : body[i] = asked[i]
    BY <1>2, <1>4, Joined
  <2> HIDE DEF body
  <2> QED BY <1>1, <1>2, <1>4, <2>1
<1> HIDE DEF body
<1>6. crc \in Byte /\ CalcCrc(Append(body, crc)) = 0
  BY <1>5, CrcCloses
<1> HIDE DEF crc
<1>7. end \in Seq(Byte) /\ Len(end) = 2 /\ end[1] = crc /\ end[2] = kFrameTail
  BY <1>6 DEF kFrameTail, Byte
<1> HIDE DEF end
<1>8. /\ p \in Seq(Byte) /\ Len(p) = n + 6
      /\ \A i \in 1 .. n + 4 : p[i] = body[i]
      /\ p[n + 5] = crc /\ p[n + 6] = kFrameTail
  <2>1. /\ p \in Seq(Byte) /\ Len(p) = Len(body) + Len(end)
        /\ \A i \in 1 .. Len(body) : p[i] = body[i]
        /\ \A i \in 1 .. Len(end) : p[Len(body) + i] = end[i]
    BY <1>3, <1>5, <1>7, Joined
  <2>2. 1 \in 1 .. Len(end) /\ 2 \in 1 .. Len(end) /\ n + 4 + 1 = n + 5 /\ n + 4 + 2 = n + 6
    BY <1>1, <1>7
  <2>3. p[n + 4 + 1] = crc /\ p[n + 4 + 2] = kFrameTail
    BY <1>5, <1>7, <2>1, <2>2
  <2> QED BY <1>5, <1>7, <2>1, <2>2, <2>3
<1>9. SubSeq(p, 1, n + 5) = Append(body, crc)
  <2> DEFINE s == SubSeq(p, 1, n + 5)
             t == Append(body, crc)
  <2>1. PICK m : m = n + 5 /\ m \in Nat /\ 1 <= m
    BY <1>1
  <2>2. \A i \in 1 .. m : p[i] \in Byte
    BY <1>1, <1>8, <2>1
  <2>3. /\ s \in Seq(Byte) /\ Len(s) = m
        /\ \A i \in 1 .. m : s[i] = p[i]
    <3>1. /\ SubSeq(p, 1, m) \in Seq(Byte)
          /\ Len(SubSeq(p, 1, m)) = IF 1 <= m THEN m - 1 + 1 ELSE 0
          /\ \A i \in 1 .. m - 1 + 1 : SubSeq(p, 1, m)[i] = p[1 + i - 1]
      BY <2>1, <2>2, SubSeqProperties
    <3>2. m - 1 + 1 = m /\ \A i \in 1 .. m : 1 + i - 1 = i
      BY <2>1
    <3> QED BY <2>1, <3>1, <3>2
  <2>4. /\ t \in Seq(Byte) /\ Len(t) = n + 4 + 1
        /\ \A i \in 1 .. n + 4 : t[i] = body[i]
        /\ t[n + 4 + 1] = crc
    BY <1>5, <1>6, AppendProperties
  <2> HIDE DEF s, t
  <2>5. ASSUME NEW i \in 1 .. m PROVE s[i] = t[i]
    <3>1. CASE i \in 1 .. n + 4
      BY <1>8, <2>3, <2>4, <3>1
    <3>2. CASE i = n + 5
      <4>1. n + 4 + 1 = n + 5
        BY <1>1
      <4> QED BY <1>8, <2>1, <2>3, <2>4, <3>2, <4>1
    <3> QED BY <1>1, <2>1, <3>1, <3>2
  <2>6. Len(s) = Len(t)
    BY <1>1, <2>1, <2>3, <2>4
  <2>7. s = t
    BY <2>3, <2>4, <2>5, <2>6, SeqEqual
  <2> QED BY <2>7 DEF s, t
<1>10. /\ p[1] = kFrameHead /\ p[2] = n + 5
       /\ \A i \in 1 .. n : p[i + 2] = command[i]
  <2>1. \A i \in 1 .. n + 2 : p[i] = asked[i]
    BY <1>1, <1>5, <1>8
  <2>2. 1 \in 1 .. n + 2 /\ 2 \in 1 .. n + 2 /\ \A i \in 1 .. n : i + 2 \in 1 .. n + 2
    BY <1>1
  <2> QED BY <1>4, <2>1, <2>2
<1> QED BY <1>1, <1>6, <1>8, <1>9, <1>10 DEF p, n

\* Every frame of the phone is one that the parser accepts.
LEMMA PacketFramed ==
    ASSUME NEW command \in Commands, NEW transID \in TransIDs
    PROVE  Framed(Packet(command, transID))
<1> DEFINE p == Packet(command, transID)
           n == Len(command)
<1>1. /\ p \in Seq(Byte) /\ Len(p) = n + 6 /\ n \in {2, 6}
      /\ p[1] = kFrameHead /\ p[2] = n + 5
      /\ p[n + 6] = kFrameTail /\ CalcCrc(SubSeq(p, 1, n + 5)) = 0
  BY PacketBytes
<1> HIDE DEF p, n
<1>2. Len(p) - 1 = n + 5 /\ Len(p) \in 8 .. 12
  BY <1>1
<1>3. Framed(p)
  BY <1>1, <1>2 DEF Framed
<1> QED BY <1>3 DEF p

--------------------------------------------------------------------------------
(* The parser, for any bytes: it never writes behind its buffer.               *)

\* The parser in order: its status says how long its frame is.
ParserOK(c) ==
    /\ c \in [commStatus : {"WaitFrameStart", "WaitDataLength", "WaitAddress", "WaitBody"},
              frame : Seq(Byte)]
    /\ c.commStatus \in {"WaitFrameStart", "WaitDataLength"} => Len(c.frame) = 0
    /\ c.commStatus = "WaitAddress" =>
         Len(c.frame) = 2 /\ c.frame[2] \in MIN_FRAME_BYTES .. MAX_FRAME_BYTES
    /\ c.commStatus = "WaitBody" =>
         Len(c.frame) \in 3 .. c.frame[2] /\ c.frame[2] \in MIN_FRAME_BYTES .. MAX_FRAME_BYTES

LEMMA LookingOK == ParserOK(Looking)
BY EmptySeq DEF ParserOK, Looking

\* Head and length, as the parser puts them into its buffer.
LEMMA LengthOK ==
    ASSUME NEW b \in MIN_FRAME_BYTES .. MAX_FRAME_BYTES
    PROVE  LET frame == <<kFrameHead, b>>
           IN  frame \in Seq(Byte) /\ Len(frame) = 2 /\ frame[1] = kFrameHead /\ frame[2] = b
<1>1. b \in Byte /\ kFrameHead \in Byte
  BY DEF MIN_FRAME_BYTES, MAX_FRAME_BYTES, Byte, kFrameHead
<1> QED BY <1>1

\* Any byte leaves the parser in order.
LEMMA GetByteOK ==
    ASSUME NEW c, ParserOK(c), NEW b \in Byte
    PROVE  ParserOK(GetByte(c, b))
<1>1. c = [commStatus |-> c.commStatus, frame |-> c.frame] /\ c.frame \in Seq(Byte)
  BY DEF ParserOK
<1>2. CASE c.commStatus = "WaitFrameStart"
  BY <1>1, <1>2 DEF GetByte, ParserOK
<1>3. CASE c.commStatus = "WaitDataLength"
  <2>1. CASE b \in MIN_FRAME_BYTES .. MAX_FRAME_BYTES
    BY <1>3, <2>1, LengthOK DEF GetByte, WaitDataLength, ParserOK
  <2>2. CASE b \notin MIN_FRAME_BYTES .. MAX_FRAME_BYTES
    BY <1>3, <2>2, LookingOK DEF GetByte, WaitDataLength
  <2> QED BY <2>1, <2>2
<1> DEFINE longer == Append(c.frame, b)
<1>4. /\ longer \in Seq(Byte) /\ Len(longer) = Len(c.frame) + 1
      /\ \A i \in 1 .. Len(c.frame) : longer[i] = c.frame[i]
  BY <1>1, AppendProperties
<1>5. CASE c.commStatus = "WaitAddress"
  <2>1. Len(c.frame) = 2 /\ c.frame[2] \in MIN_FRAME_BYTES .. MAX_FRAME_BYTES
    BY <1>5 DEF ParserOK
  <2>2. GetByte(c, b) = [commStatus |-> "WaitBody", frame |-> longer]
    BY <1>5 DEF GetByte
  <2> HIDE DEF longer
  <2>3. Len(longer) = 3 /\ longer[2] = c.frame[2]
    BY <1>4, <2>1
  <2>4. Len(longer) \in 3 .. longer[2]
    BY <2>1, <2>3 DEF MIN_FRAME_BYTES, MAX_FRAME_BYTES
  <2>5. longer[2] \in MIN_FRAME_BYTES .. MAX_FRAME_BYTES
    BY <2>1, <2>3
  <2>6. ParserOK([commStatus |-> "WaitBody", frame |-> longer])
    BY <1>4, <2>4, <2>5 DEF ParserOK
  <2> QED BY <2>2, <2>6
<1>6. CASE c.commStatus = "WaitBody"
  <2>1. Len(c.frame) \in 3 .. c.frame[2] /\ c.frame[2] \in MIN_FRAME_BYTES .. MAX_FRAME_BYTES
    BY <1>6 DEF ParserOK
  <2>2. CASE Len(c.frame) < c.frame[2]
    <3>1. GetByte(c, b) = [commStatus |-> "WaitBody", frame |-> longer]
      BY <1>1, <1>6, <2>2 DEF GetByte, WaitBody
    <3> HIDE DEF longer
    <3>2. longer[2] = c.frame[2]
      BY <1>4, <2>1
    <3>3. Len(longer) \in 3 .. longer[2]
      <4>1. PICK size : size = c.frame[2] /\ size \in 4 .. 20
        BY <2>1 DEF MIN_FRAME_BYTES, MAX_FRAME_BYTES
      <4>2. PICK m : m = Len(c.frame) /\ m \in 3 .. size /\ m < size
        BY <2>1, <2>2, <4>1
      <4>3. m + 1 \in 3 .. size
        BY <4>1, <4>2
      <4> QED BY <1>4, <3>2, <4>1, <4>2, <4>3
    <3> QED BY <1>4, <2>1, <3>1, <3>2, <3>3 DEF ParserOK
  <2>3. CASE ~(Len(c.frame) < c.frame[2])
    BY <1>6, <2>3, LookingOK DEF GetByte, WaitBody
  <2> QED BY <2>2, <2>3
<1> QED BY <1>2, <1>3, <1>5, <1>6 DEF ParserOK

\* A parser in order has room for one more byte.
LEMMA ParserFits ==
    ASSUME NEW c, ParserOK(c)
    PROVE  Len(c.frame) < frame_buf_size
<1>1. c.commStatus \in {"WaitFrameStart", "WaitDataLength", "WaitAddress", "WaitBody"}
  BY DEF ParserOK
<1>2. CASE c.commStatus \in {"WaitFrameStart", "WaitDataLength"}
  BY <1>2 DEF ParserOK, frame_buf_size
<1>3. CASE c.commStatus = "WaitAddress"
  <2>1. Len(c.frame) = 2
    BY <1>3 DEF ParserOK
  <2> QED BY <2>1 DEF frame_buf_size
<1>4. CASE c.commStatus = "WaitBody"
  BY <1>4 DEF ParserOK, MIN_FRAME_BYTES, MAX_FRAME_BYTES, frame_buf_size
<1> QED BY <1>1, <1>2, <1>3, <1>4

--------------------------------------------------------------------------------
(* The parser and a frame that comes whole. *)

\* What the parser has made of the first k bytes of p, if it was looking for a frame.
PrefixOf(c, p, k) ==
    /\ k = 0 => c.commStatus \in {"WaitFrameStart", "WaitDataLength"}
    /\ k = 1 => c.commStatus = "WaitDataLength"
    /\ k = 2 => c.commStatus = "WaitAddress"
    /\ k >= 3 => c.commStatus = "WaitBody"
    /\ k >= 2 => Len(c.frame) = k /\ \A i \in 1 .. k : c.frame[i] = p[i]

\* The bytes to come are those of the frame that the parser has not seen.
InStep ==
    \E k \in 0 .. Len(packet) - 1 :
        /\ Len(sending) = Len(packet) - k
        /\ \A i \in 1 .. Len(sending) : sending[i] = packet[k + i]
        /\ PrefixOf(comm, packet, k)

\* A frame of the phone.
IsPacket(p) == \E command \in Commands, transID \in TransIDs : p = Packet(command, transID)

\* The parser is in order; a frame on its way is the phone's; and while it comes whole
\* the parser is in step with it.
LinkInv ==
    /\ ParserOK(comm) /\ sending \in Seq(Byte) /\ faults \in Nat
    /\ packet = << >> \/ IsPacket(packet)
    /\ sending # << >> => powered /\ packet # << >>
    /\ clean /\ sending # << >> => InStep
    /\ clean => OnlyWhatWasSent

\* A parser that is in step with a frame stays in step with its next byte, executes
\* nothing before the last one and exactly that frame with the last one.
LEMMA InStepAdvances ==
    ASSUME NEW c, ParserOK(c), NEW p, Framed(p), NEW k \in 0 .. Len(p) - 1, PrefixOf(c, p, k)
    PROVE  /\ k < Len(p) - 1 => /\ PrefixOf(GetByte(c, p[k + 1]), p, k + 1)
                                /\ ~EndsMessage(c, p[k + 1])
           /\ k = Len(p) - 1 => /\ EndsMessage(c, p[k + 1]) /\ Append(c.frame, p[k + 1]) = p
                                /\ GetByte(c, p[k + 1]) = Looking
<1>1. /\ p \in Seq(Byte) /\ Len(p) \in 8 .. 12 /\ p[1] = kFrameHead /\ p[2] = Len(p) - 1
      /\ c.frame \in Seq(Byte) /\ c = [commStatus |-> c.commStatus, frame |-> c.frame]
  BY DEF Framed, ParserOK
<1>0. PICK n : n = Len(p) /\ n \in 8 .. 12
  BY DEF Framed
<1>2. PICK b : b = p[k + 1] /\ b \in Byte
  <2>1. k + 1 \in 1 .. Len(p)
    BY <1>1
  <2>2. p[k + 1] \in Byte
    BY <1>1, <2>1, ElementOfSeq
  <2> QED BY <2>2
<1> DEFINE longer == Append(c.frame, b)
<1>3. /\ longer \in Seq(Byte) /\ Len(longer) = Len(c.frame) + 1
      /\ longer[Len(c.frame) + 1] = b
      /\ \A i \in 1 .. Len(c.frame) : longer[i] = c.frame[i]
  BY <1>1, <1>2, AppendProperties
<1>4. ASSUME k >= 2
      PROVE  /\ Len(c.frame) = k /\ c.frame[2] = Len(p) - 1
             /\ Len(longer) = k + 1 /\ \A i \in 1 .. k + 1 : longer[i] = p[i]
  <2>1. Len(c.frame) = k /\ \A i \in 1 .. k : c.frame[i] = p[i]
    BY <1>4 DEF PrefixOf
  <2>2. 2 \in 1 .. k
    BY <1>4
  <2> HIDE DEF longer
  <2>3. ASSUME NEW i \in 1 .. k + 1 PROVE longer[i] = p[i]
    <3>1. CASE i \in 1 .. k
      BY <1>3, <2>1, <3>1
    <3>2. CASE i = k + 1
      BY <1>2, <1>3, <2>1, <3>2
    <3> QED BY <3>1, <3>2
  <2> QED BY <1>1, <1>3, <2>1, <2>2, <2>3
<1>5. CASE k = 0
  <2>1. b = kFrameHead /\ c.commStatus \in {"WaitFrameStart", "WaitDataLength"}
    BY <1>1, <1>2, <1>5 DEF PrefixOf
  <2>2. GetByte(c, b).commStatus = "WaitDataLength"
    <3>1. CASE c.commStatus = "WaitFrameStart"
      BY <1>1, <2>1, <3>1 DEF GetByte
    <3>2. CASE c.commStatus = "WaitDataLength"
      BY <2>1, <3>2 DEF GetByte, WaitDataLength, kFrameHead, MIN_FRAME_BYTES, MAX_FRAME_BYTES
    <3> QED BY <2>1, <3>1, <3>2
  <2>3. ~EndsMessage(c, b)
    BY <2>1 DEF EndsMessage, AtTail
  <2>4. PrefixOf(GetByte(c, b), p, k + 1)
    BY <1>5, <2>2 DEF PrefixOf
  <2> QED BY <1>1, <1>2, <1>5, <2>3, <2>4
<1>6. CASE k = 1
  <2>1. b = Len(p) - 1 /\ c.commStatus = "WaitDataLength"
    BY <1>1, <1>2, <1>6 DEF PrefixOf
  <2>2. b \in MIN_FRAME_BYTES .. MAX_FRAME_BYTES
    BY <1>1, <2>1 DEF MIN_FRAME_BYTES, MAX_FRAME_BYTES
  <2> DEFINE frame == <<kFrameHead, b>>
  <2>3. GetByte(c, b) = [commStatus |-> "WaitAddress", frame |-> frame]
    BY <2>1, <2>2 DEF GetByte, WaitDataLength
  <2>4. Len(frame) = 2 /\ frame[1] = p[1] /\ frame[2] = p[2]
    BY <1>1, <2>1, <2>2, LengthOK
  <2> HIDE DEF frame
  <2>5. \A i \in 1 .. 2 : frame[i] = p[i]
    BY <2>4
  <2>6. PrefixOf(GetByte(c, b), p, 2)
    BY <2>3, <2>4, <2>5 DEF PrefixOf
  <2>7. ~EndsMessage(c, b)
    BY <2>1 DEF EndsMessage, AtTail
  <2>8. n \in 8 .. 12
    BY <1>0
  <2>9. k + 1 = 2 /\ k # n - 1
    BY <1>6, <2>8
  <2> QED BY <1>2, <1>0, <2>6, <2>7, <2>9
<1>7. CASE k = 2
  <2>1. c.commStatus = "WaitAddress"
    BY <1>7 DEF PrefixOf
  <2>2. GetByte(c, b) = [commStatus |-> "WaitBody", frame |-> longer]
    BY <2>1 DEF GetByte
  <2>3. Len(longer) = 3 /\ \A i \in 1 .. 3 : longer[i] = p[i]
    BY <1>4, <1>7
  <2> HIDE DEF longer
  <2>4. PrefixOf(GetByte(c, b), p, 3)
    BY <2>2, <2>3 DEF PrefixOf
  <2>5. ~EndsMessage(c, b)
    BY <2>1 DEF EndsMessage, AtTail
  <2>6. n \in 8 .. 12
    BY <1>0
  <2>7. k + 1 = 3 /\ k # n - 1
    BY <1>7, <2>6
  <2> QED BY <1>2, <1>0, <2>4, <2>5, <2>7
<1>8. CASE k >= 3 /\ k < Len(p) - 1
  <2>1. c.commStatus = "WaitBody" /\ Len(c.frame) = k /\ c.frame[2] = Len(p) - 1
        /\ Len(longer) = k + 1 /\ \A i \in 1 .. k + 1 : longer[i] = p[i]
    BY <1>4, <1>8 DEF PrefixOf
  <2>2. GetByte(c, b) = [commStatus |-> "WaitBody", frame |-> longer]
    BY <1>1, <1>8, <2>1 DEF GetByte, WaitBody
  <2> HIDE DEF longer
  <2>3. PrefixOf(GetByte(c, b), p, k + 1)
    BY <1>8, <2>1, <2>2 DEF PrefixOf
  <2>4. ~EndsMessage(c, b)
    BY <1>8, <2>1 DEF EndsMessage, AtTail
  <2> QED BY <1>2, <1>8, <2>3, <2>4
<1>9. CASE k = Len(p) - 1
  <2>0. k >= 2 /\ k >= 3
    BY <1>0, <1>9
  <2>1. c.commStatus = "WaitBody" /\ Len(c.frame) = k /\ c.frame[2] = Len(p) - 1
        /\ Len(longer) = k + 1 /\ \A i \in 1 .. k + 1 : longer[i] = p[i]
    BY <1>4, <2>0 DEF PrefixOf
  <2>2. b = kFrameTail /\ k + 1 = Len(p)
    BY <1>1, <1>2, <1>9 DEF Framed
  <2>3. longer = p
    <3> HIDE DEF longer
    <3> QED BY <1>1, <1>3, <2>1, <2>2, SeqEqual
  <2>4. CalcCrc(c.frame) = 0
    <3> DEFINE s == SubSeq(p, 1, Len(p) - 1)
    <3>1. PICK m : m = Len(p) - 1 /\ m \in Nat /\ 1 <= m
      BY <1>1
    <3>2. \A i \in 1 .. m : p[i] \in Byte
      BY <1>1, <3>1
    <3>3. /\ SubSeq(p, 1, m) \in Seq(Byte)
          /\ Len(SubSeq(p, 1, m)) = IF 1 <= m THEN m - 1 + 1 ELSE 0
          /\ \A i \in 1 .. m - 1 + 1 : SubSeq(p, 1, m)[i] = p[1 + i - 1]
      BY <3>1, <3>2, SubSeqProperties
    <3>4. m - 1 + 1 = m /\ \A i \in 1 .. m : 1 + i - 1 = i
      BY <3>1
    <3>5. s \in Seq(Byte) /\ Len(s) = m /\ \A i \in 1 .. m : s[i] = p[i]
      BY <3>1, <3>3, <3>4
    <3> HIDE DEF s
    <3>6. \A i \in 1 .. k : c.frame[i] = p[i]
      BY <2>0 DEF PrefixOf
    <3>7. s = c.frame
      BY <1>1, <1>9, <2>1, <3>1, <3>5, <3>6, SeqEqual
    <3> QED BY <3>7 DEF Framed, s
  <2>5. EndsMessage(c, b)
    BY <1>9, <2>1, <2>2, <2>4 DEF EndsMessage, AtTail
  <2>6. GetByte(c, b) = Looking
    <3>1. ~(Len(c.frame) < c.frame[2])
      BY <1>0, <1>9, <2>1
    <3> QED BY <2>1, <3>1 DEF GetByte, WaitBody
  <2> QED BY <1>2, <1>9, <2>3, <2>5, <2>6
<1> QED BY <1>1, <1>5, <1>6, <1>7, <1>8, <1>9

--------------------------------------------------------------------------------
(* The invariant of the link. *)

LEMMA InitLink == CommandsInit => LinkInv
<1> SUFFICES ASSUME CommandsInit PROVE LinkInv
  OBVIOUS
<1> QED BY LookingOK, EmptySeq DEF CommandsInit, LinkInv, OnlyWhatWasSent

\* What the parser does with any byte, which is all that a fault leaves of the frame.
LEMMA ReceiveKeeps ==
    ASSUME ParserOK(comm), NEW b \in Byte, Receive(b)
    PROVE  ParserOK(comm') /\ powered /\ powered'
<1>1. comm' = GetByte(comm, b) /\ powered
  BY DEF Receive
<1>2. ParserOK(comm')
  BY <1>1, GetByteOK
<1>3. powered'
  BY DEF Receive, Phone_DispatchMessage, Phone_SetPaiCount, Phone_SetVolume,
         SaveRFChannelToFlash, vars
<1> QED BY <1>1, <1>2, <1>3

\* The next byte to come and the others.
LEMMA TailBytes ==
    ASSUME NEW s \in Seq(Byte), s # << >>
    PROVE  /\ Head(s) = s[1] /\ s[1] \in Byte
           /\ Tail(s) \in Seq(Byte) /\ Len(Tail(s)) = Len(s) - 1
           /\ \A i \in 1 .. Len(Tail(s)) : Tail(s)[i] = s[i + 1]
<1>1. Len(s) \in Nat /\ Len(s) >= 1
  BY EmptySeq, LenProperties
<1>2. 1 \in 1 .. Len(s)
  BY <1>1
<1>3. s[1] \in Byte
  BY <1>2, ElementOfSeq
<1> QED BY <1>1, <1>3, HeadTailProperties

\* The next byte of a whole frame: the frame is executed with its last byte, and
\* nothing before.
LEMMA NextByteOfFrame ==
    ASSUME LinkInv, ByteArrives, clean
    PROVE  /\ sending' # << >> => InStep' /\ executed' = << >>
           /\ sending' = << >> => executed' = packet /\ comm' = Looking
<1>1. /\ sending # << >> /\ sending \in Seq(Byte) /\ sending' = Tail(sending)
      /\ packet' = packet /\ ParserOK(comm) /\ Receive(Head(sending))
  BY DEF ByteArrives, LinkInv
<1>2. InStep /\ Framed(packet)
  BY <1>1, PacketFramed DEF LinkInv, IsPacket
<1>3. PICK k \in 0 .. Len(packet) - 1 :
        /\ Len(sending) = Len(packet) - k
        /\ \A i \in 1 .. Len(sending) : sending[i] = packet[k + i]
        /\ PrefixOf(comm, packet, k)
  BY <1>2 DEF InStep
<1>4. Len(packet) \in Nat
  BY <1>2 DEF Framed
<1>5. PICK b : b = packet[k + 1] /\ b = Head(sending)
  <2>1. 1 \in 1 .. Len(sending)
    BY <1>3, <1>4
  <2>2. sending[1] = packet[k + 1]
    BY <1>3, <2>1
  <2> QED BY <1>1, <2>2, TailBytes
<1>6. /\ comm' = GetByte(comm, b)
      /\ EndsMessage(comm, b) => executed' = Append(comm.frame, b)
      /\ ~EndsMessage(comm, b) => executed' = << >>
  BY <1>1, <1>5 DEF Receive
<1>7. /\ Len(sending') = Len(sending) - 1
      /\ \A i \in 1 .. Len(sending') : sending'[i] = sending[i + 1]
  BY <1>1, TailBytes
<1>8. sending' \in Seq(Byte)
  BY <1>1, TailBytes
<1>9. CASE k < Len(packet) - 1
  <2>1. PrefixOf(comm', packet, k + 1) /\ executed' = << >>
    BY <1>1, <1>2, <1>3, <1>5, <1>6, <1>9, InStepAdvances
  <2>2. PICK m : m = k + 1 /\ m \in 0 .. Len(packet) - 1
    BY <1>3, <1>4, <1>9
  <2>3. Len(sending') = Len(packet) - m
    BY <1>3, <1>4, <1>7, <2>2
  <2>4. ASSUME NEW i \in 1 .. Len(sending') PROVE sending'[i] = packet[m + i]
    <3>1. i + 1 \in 1 .. Len(sending) /\ k + (i + 1) = m + i
      BY <1>3, <1>4, <1>7, <2>2
    <3> QED BY <1>3, <1>7, <3>1
  <2>5. InStep'
    BY <1>1, <2>1, <2>2, <2>3, <2>4 DEF InStep
  <2>6. sending' # << >>
    BY <1>4, <1>8, <2>2, <2>3, EmptySeq
  <2> QED BY <2>1, <2>5, <2>6
<1>10. CASE k = Len(packet) - 1
  <2>1. EndsMessage(comm, packet[k + 1]) /\ Append(comm.frame, packet[k + 1]) = packet
        /\ GetByte(comm, packet[k + 1]) = Looking
    BY <1>1, <1>2, <1>3, <1>10, InStepAdvances
  <2>2. Len(sending') = 0
    BY <1>3, <1>4, <1>7, <1>10
  <2>3. executed' = packet /\ comm' = Looking
    BY <1>5, <1>6, <2>1
  <2> QED BY <1>8, <2>2, <2>3, EmptySeq
<1> QED BY <1>3, <1>4, <1>9, <1>10

LEMMA NextLink == LinkInv /\ [CommandsNext]_<<vars, link>> => LinkInv'
<1> SUFFICES ASSUME LinkInv, [CommandsNext]_<<vars, link>> PROVE LinkInv'
  OBVIOUS
<1>0. /\ ParserOK(comm) /\ sending \in Seq(Byte)
      /\ packet = << >> \/ IsPacket(packet)
      /\ sending # << >> => powered /\ packet # << >>
  BY DEF LinkInv
<1>f. faults' \in Nat
  <2>1. faults \in Nat
    BY DEF LinkInv
  <2> QED BY <2>1 DEF CommandsNext, ByteArrives, PhoneSends, ByteDamaged, StrayByte, BytesLost,
                      Programs, Restarts, PowerGoes, link
<1>1. CASE ByteArrives
  <2>1. /\ sending # << >> /\ Receive(Head(sending)) /\ sending' = Tail(sending)
        /\ packet' = packet /\ clean' = clean
    BY <1>1 DEF ByteArrives
  <2>2. Head(sending) \in Byte /\ sending' \in Seq(Byte)
    BY <1>0, <2>1, TailBytes
  <2>3. ParserOK(comm') /\ powered'
    BY <1>0, <2>1, <2>2, ReceiveKeeps
  <2>4. clean => (sending' # << >> => InStep') /\ OnlyWhatWasSent'
    BY <1>1, <2>1, NextByteOfFrame DEF OnlyWhatWasSent
  <2> QED BY <1>0, <1>f, <2>1, <2>2, <2>3, <2>4 DEF LinkInv
<1>2. CASE PhoneSends
  <2>1. /\ powered /\ powered' = powered /\ comm' = comm /\ executed' = << >>
        /\ sending' = packet'
        /\ clean' => comm.commStatus \in {"WaitFrameStart", "WaitDataLength"}
        /\ \E command \in Commands, transID \in TransIDs : packet' = Packet(command, transID)
    BY <1>2 DEF PhoneSends, vars
  <2>2. PICK command \in Commands, transID \in TransIDs : packet' = Packet(command, transID)
    BY <2>1
  <2>3. Framed(packet') /\ IsPacket(packet')
    BY <2>2, PacketFramed DEF IsPacket
  <2>4. packet' \in Seq(Byte) /\ Len(packet') \in 8 .. 12 /\ packet' # << >>
    BY <2>3, EmptySeq DEF Framed
  <2>5. clean' => InStep'
    <3> SUFFICES ASSUME clean' PROVE InStep'
      OBVIOUS
    <3>1. PrefixOf(comm', packet', 0)
      BY <2>1 DEF PrefixOf
    <3>2. 0 \in 0 .. Len(packet') - 1 /\ Len(sending') = Len(packet') - 0
      BY <2>1, <2>4
    <3>3. \A i \in 1 .. Len(sending') : sending'[i] = packet'[0 + i]
      BY <2>1, <2>4
    <3> QED BY <3>1, <3>2, <3>3 DEF InStep
  <2> QED BY <1>0, <1>f, <2>1, <2>3, <2>4, <2>5 DEF LinkInv, OnlyWhatWasSent
<1>3. CASE ByteDamaged
  <2>1. PICK b \in Garbage : Receive(b)
    BY <1>3 DEF ByteDamaged
  <2>2. b \in Byte
    BY BytesAssumption
  <2>3. ParserOK(comm') /\ powered /\ powered'
    BY <1>0, <2>1, <2>2, ReceiveKeeps
  <2>4. /\ sending # << >> /\ sending' = Tail(sending) /\ packet' = packet /\ ~clean'
    BY <1>3 DEF ByteDamaged
  <2>5. sending' \in Seq(Byte)
    BY <1>0, <2>4, TailBytes
  <2> QED BY <1>0, <1>f, <2>3, <2>4, <2>5 DEF LinkInv
<1>4. CASE StrayByte
  <2>1. PICK b \in Garbage : Receive(b)
    BY <1>4 DEF StrayByte
  <2>2. b \in Byte
    BY BytesAssumption
  <2>3. ParserOK(comm') /\ powered /\ powered'
    BY <1>0, <2>1, <2>2, ReceiveKeeps
  <2>4. sending' = sending /\ packet' = packet /\ ~clean'
    BY <1>4 DEF StrayByte
  <2> QED BY <1>0, <1>f, <2>3, <2>4 DEF LinkInv
<1>5. CASE BytesLost
  <2>1. PICK n \in 1 .. Len(sending) : sending' = SubSeq(sending, n + 1, Len(sending))
    BY <1>5 DEF BytesLost
  <2>2. /\ ~clean' /\ comm' = comm /\ packet' = packet /\ powered' = powered
    BY <1>5 DEF BytesLost, vars
  <2>3. Len(sending) \in Nat
    BY <1>0, LenProperties
  <2>4. sending # << >>
    BY <2>1, <2>3, EmptySeq
  <2>5. sending' \in Seq(Byte)
    <3>1. PICK m : m = n + 1 /\ m \in 1 .. Len(sending) + 1
      BY <2>1, <2>3
    <3>2. \A i \in m .. Len(sending) : sending[i] \in Byte
      BY <1>0, <2>3, <3>1
    <3>3. SubSeq(sending, m, Len(sending)) \in Seq(Byte)
      BY <2>3, <3>1, <3>2, SubSeqProperties
    <3> QED BY <2>1, <3>1, <3>3
  <2> QED BY <1>0, <1>f, <2>2, <2>4, <2>5 DEF LinkInv
<1>6. CASE Programs
  BY <1>f, <1>6 DEF Programs, ProgramWord, LinkInv, InStep, OnlyWhatWasSent
<1>7. CASE Restarts
  <2>1. ~powered /\ comm' = Looking /\ UNCHANGED <<sending, packet, clean, executed>>
    BY <1>7 DEF Restarts, PowerUp
  <2>2. sending' = << >>
    BY <1>0, <2>1
  <2>3. clean' => OnlyWhatWasSent'
    BY <2>1 DEF LinkInv, OnlyWhatWasSent
  <2> QED BY <1>0, <1>f, <2>1, <2>2, <2>3, LookingOK DEF LinkInv
<1>8. CASE PowerGoes
  BY <1>0, <1>f, <1>8, EmptySeq DEF PowerGoes, PowerLost, LinkInv
<1>9. CASE UNCHANGED <<vars, link>>
  <2>1. UNCHANGED <<powered, comm, sending, packet, clean, executed>>
    BY <1>9 DEF vars, link
  <2> QED BY <1>f, <2>1 DEF LinkInv, InStep, OnlyWhatWasSent
<1> QED BY <1>1, <1>2, <1>3, <1>4, <1>5, <1>6, <1>7, <1>8, <1>9 DEF CommandsNext

LEMMA LinkKept == CommandsSpec => []LinkInv
BY InitLink, NextLink, PTL DEF CommandsSpec

--------------------------------------------------------------------------------
(* What the link does to the settings. *)

\* A frame of the phone, executed, is the command of Settings that the phone asked for.
LEMMA PacketIsCommand ==
    ASSUME NEW p, IsPacket(p), Phone_DispatchMessage(p)
    PROVE  [Next]_vars
<1>1. PICK command \in Commands, transID \in TransIDs : p = Packet(command, transID)
  BY DEF IsPacket
<1> DEFINE n == Len(command)
<1>2. /\ p \in Seq(Byte) /\ Len(p) = n + 6 /\ n \in {2, 6}
      /\ \A i \in 1 .. n : p[i + 2] = command[i]
  BY <1>1, PacketBytes
<1>3. p[3] = command[1] /\ p[4] = command[2]
  <2> HIDE DEF n
  <2>0. n \in {2, 6}
    BY <1>2 DEF n
  <2>1. 1 \in 1 .. n /\ 2 \in 1 .. n /\ 1 + 2 = 3 /\ 2 + 2 = 4
    BY <2>0
  <2>2. p[1 + 2] = command[1] /\ p[2 + 2] = command[2]
    BY <1>2, <2>1
  <2> QED BY <2>1, <2>2
<1>4. CASE \E counts \in Counts : command = <<PhoneCmd_SetTilesCount, 4>> \o counts
  <2>1. PICK counts \in Counts : command = <<PhoneCmd_SetTilesCount, 4>> \o counts
    BY <1>4
  <2> DEFINE head == <<PhoneCmd_SetTilesCount, 4>>
             s == SubSeq(p, 5, 8)
  <2>2. /\ counts \in Seq(Byte) /\ Len(counts) = 4
        /\ head \in Seq(Byte) /\ Len(head) = 2 /\ head[1] = PhoneCmd_SetTilesCount
    BY BytesAssumption DEF PhoneCmd_SetTilesCount, Byte
  <2>3. command = head \o counts
    BY <2>1
  <2> HIDE DEF head
  <2>4. /\ n = 6
        /\ \A i \in 1 .. 2 : command[i] = head[i]
        /\ \A i \in 1 .. 4 : command[2 + i] = counts[i]
    <3>1. /\ Len(head \o counts) = Len(head) + Len(counts)
          /\ \A i \in 1 .. Len(head) : (head \o counts)[i] = head[i]
          /\ \A i \in 1 .. Len(counts) : (head \o counts)[Len(head) + i] = counts[i]
      BY <2>2, Joined
    <3> QED BY <2>2, <2>3, <3>1
  <2> HIDE DEF n
  <2>5. ASSUME NEW i \in 1 .. 4 PROVE p[5 + i - 1] = counts[i]
    <3>1. 2 + i \in 1 .. 6 /\ 2 + i + 2 = 5 + i - 1
      OBVIOUS
    <3>2. p[2 + i + 2] = command[2 + i]
      BY <1>2, <2>4, <3>1
    <3> QED BY <2>4, <3>1, <3>2
  <2>6. s = counts
    <3>1. \A i \in 5 .. 8 : p[i] \in Byte
      <4>1. Len(p) = 12
        BY <1>2, <2>4 DEF n
      <4>2. \A i \in 1 .. 12 : p[i] \in Byte
        BY <1>2, <4>1, ElementOfSeq
      <4> QED BY <4>2
    <3>2. /\ s \in Seq(Byte)
          /\ Len(s) = IF 5 <= 8 THEN 8 - 5 + 1 ELSE 0
          /\ \A i \in 1 .. 8 - 5 + 1 : s[i] = p[5 + i - 1]
      BY <3>1, SubSeqProperties
    <3> HIDE DEF s
    <3>3. Len(s) = 4 /\ \A i \in 1 .. 4 : s[i] = p[5 + i - 1]
      BY <3>2
    <3> QED BY <2>2, <2>5, <3>2, <3>3, SeqEqual
  <2>7. p[3] = PhoneCmd_SetTilesCount
    BY <1>3, <2>2, <2>4
  <2>8. Phone_SetPaiCount(s)
    <3>1. Phone_SetPaiCount(SubSeq(p, 5, 8))
      BY <2>7 DEF Phone_DispatchMessage, PhoneCmd_SetTilesCount, PhoneCmd_SetVolume,
                  PhoneCmd_EnterStudyMode
    <3> QED BY <3>1
  <2>9. Phone_SetPaiCount(counts)
    <3> HIDE DEF s
    <3> QED BY <2>6, <2>8
  <2> QED BY <2>9 DEF Next
<1>5. CASE \E volume \in Volumes : command = <<PhoneCmd_SetVolume, volume>>
  <2>1. PICK volume \in Volumes : command = <<PhoneCmd_SetVolume, volume>>
    BY <1>5
  <2>2. p[3] = PhoneCmd_SetVolume /\ p[4] = volume
    BY <1>3, <2>1
  <2>3. Phone_SetVolume(volume)
    BY <2>2 DEF Phone_DispatchMessage, PhoneCmd_SetTilesCount, PhoneCmd_SetVolume,
                PhoneCmd_EnterStudyMode
  <2> QED BY <2>3 DEF Next
<1>6. CASE \E channel \in Channels : command = <<PhoneCmd_EnterStudyMode, channel>>
  <2>1. PICK channel \in Channels : command = <<PhoneCmd_EnterStudyMode, channel>>
    BY <1>6
  <2>2. p[3] = PhoneCmd_EnterStudyMode /\ p[4] = channel
    BY <1>3, <2>1
  <2>3. SaveRFChannelToFlash(channel) \/ UNCHANGED vars
    BY <2>2 DEF Phone_DispatchMessage, PhoneCmd_SetTilesCount, PhoneCmd_SetVolume,
                PhoneCmd_EnterStudyMode
  <2> QED BY <2>3 DEF Next
<1> QED BY <1>4, <1>5, <1>6 DEF Commands

\* Every step of the link is a step of Settings or leaves the settings alone, if the
\* message it executes is the one that the phone sent.
LEMMA StepIsSettings ==
    LinkInv /\ [CommandsNext]_<<vars, link>> /\ OnlyWhatWasSent' => [Next]_vars
<1> SUFFICES ASSUME LinkInv, [CommandsNext]_<<vars, link>>, OnlyWhatWasSent'
             PROVE  [Next]_vars
  OBVIOUS
<1>1. ASSUME NEW b \in Byte, Receive(b), packet' = packet
      PROVE  [Next]_vars
  <2>1. CASE EndsMessage(comm, b)
    <3>1. executed' = Append(comm.frame, b) /\ Phone_DispatchMessage(executed')
      BY <1>1, <2>1 DEF Receive
    <3>2. executed' # << >>
      <4>1. comm.frame \in Seq(Byte)
        BY DEF LinkInv, ParserOK
      <4> QED BY <3>1, <4>1, AppendProperties
    <3>3. executed' = packet /\ packet # << >>
      BY <1>1, <3>2 DEF OnlyWhatWasSent
    <3> QED BY <3>1, <3>3, PacketIsCommand DEF LinkInv
  <2>2. CASE ~EndsMessage(comm, b)
    BY <1>1, <2>2 DEF Receive
  <2> QED BY <2>1, <2>2
<1>2. CASE ByteArrives
  <2>1. sending # << >> /\ sending \in Seq(Byte) /\ Receive(Head(sending)) /\ packet' = packet
    BY <1>2 DEF ByteArrives, LinkInv
  <2>2. Head(sending) \in Byte
    BY <2>1, TailBytes
  <2> QED BY <1>1, <2>1, <2>2
<1>3. CASE ByteDamaged \/ StrayByte
  <2>1. PICK b \in Garbage : Receive(b)
    BY <1>3 DEF ByteDamaged, StrayByte
  <2>2. b \in Byte /\ packet' = packet
    BY <1>3, BytesAssumption DEF ByteDamaged, StrayByte
  <2> QED BY <1>1, <2>1, <2>2
<1>4. CASE PhoneSends \/ BytesLost
  BY <1>4 DEF PhoneSends, BytesLost
<1>5. CASE Programs \/ Restarts \/ PowerGoes
  BY <1>5 DEF Programs, Restarts, PowerGoes, Next
<1>6. CASE UNCHANGED <<vars, link>>
  BY <1>6
<1> QED BY <1>2, <1>3, <1>4, <1>5, <1>6 DEF CommandsNext

\* Whatever bytes the link makes of the phone's, damaged, lost or strayed, GetMessage
\* never writes behind frame_buf_.
THEOREM FrameStaysInBuffer == CommandsSpec => []FrameInBuffer
<1>1. LinkInv => FrameInBuffer
  BY ParserFits DEF LinkInv, FrameInBuffer
<1> QED BY <1>1, LinkKept, PTL

\* A frame that comes whole to a parser that is looking for one is executed by its
\* last byte, whatever went wrong before: GetMessage needs no time-out to recover.
THEOREM WholeFrameIsExecuted == CommandsSpec => WholeFrameExecuted
<1>1. LinkInv /\ [CommandsNext]_<<vars, link>>
        => (clean /\ sending # << >> /\ sending' = << >> /\ powered' /\ faults' <= faults
              => executed' = packet)
  <2> SUFFICES ASSUME LinkInv, [CommandsNext]_<<vars, link>>, clean, sending # << >>,
                      sending' = << >>, powered', faults' <= faults
               PROVE  executed' = packet
    OBVIOUS
  <2>1. sending \in Seq(Byte) /\ faults \in Nat
    BY DEF LinkInv
  <2>2. ByteArrives
    <3>1. ~ByteDamaged /\ ~StrayByte /\ ~BytesLost
      BY <2>1 DEF ByteDamaged, StrayByte, BytesLost
    <3>2. ~PhoneSends /\ ~Programs /\ ~Restarts /\ ~PowerGoes
      BY DEF PhoneSends, Programs, Restarts, PowerGoes, PowerLost
    <3> QED BY <3>1, <3>2 DEF CommandsNext, link
  <2> QED BY <2>2, NextByteOfFrame
<1>2. LinkInv /\ [CommandsNext]_<<vars, link>>
        => [clean /\ sending # << >> /\ sending' = << >> /\ powered' /\ faults' <= faults
              => executed' = packet]_<<vars, link>>
  BY <1>1
<1> QED BY <1>2, LinkKept, PTL DEF CommandsSpec, WholeFrameExecuted

\* While its frame comes whole, nothing is executed but what the phone sent last.
THEOREM WholeFrameIsExact == CommandsSpec => [](clean => OnlyWhatWasSent)
<1>1. LinkInv => (clean => OnlyWhatWasSent)
  BY DEF LinkInv
<1> QED BY <1>1, LinkKept, PTL

\* Bytes, parser and dispatch implement the commands of Settings, provided that
\* what is executed is what was sent.
THEOREM CommandsImplementSettings == CommandsSpec /\ []OnlyWhatWasSent => Spec
<1>1. CommandsInit => Init
  BY DEF CommandsInit
<1> QED BY <1>1, StepIsSettings, LinkKept, PTL DEF CommandsSpec, Spec

\* What the restart theorems say of Settings holds of the phone's bytes.
COROLLARY CommandsKeepSettings ==
    CommandsSpec /\ []OnlyWhatWasSent
        => []TypeOK /\ []RestartChangesNothing /\ RestartKeepsOrDefaults
BY CommandsImplementSettings, SettingsTyped, RestartIsHarmless, NothingOlderComesBack

--------------------------------------------------------------------------------
(* A link that loses and damages nothing, while power may still go at any time. *)

Undisturbed ==
    /\ faults = 0 /\ OnlyWhatWasSent
    /\ sending # << >> => clean
    /\ powered /\ sending = << >> => comm = Looking

LEMMA NextUndisturbed ==
    ASSUME MaxFaults = 0
    PROVE  LinkInv /\ Undisturbed /\ [CommandsNext]_<<vars, link>> => Undisturbed'
<1> SUFFICES ASSUME LinkInv, Undisturbed, [CommandsNext]_<<vars, link>>
             PROVE  Undisturbed'
  OBVIOUS
<1>1. ~ByteDamaged /\ ~StrayByte /\ ~BytesLost
  BY DEF ByteDamaged, StrayByte, BytesLost, Undisturbed
<1>2. CASE ByteArrives
  <2>1. clean
    BY <1>2 DEF ByteArrives, Undisturbed
  <2>2. /\ sending' # << >> => executed' = << >>
        /\ sending' = << >> => executed' = packet /\ comm' = Looking
    BY <1>2, <2>1, NextByteOfFrame
  <2>3. packet' = packet /\ clean' = clean /\ faults' = 0
    BY <1>2 DEF ByteArrives, Undisturbed
  <2> QED BY <2>1, <2>2, <2>3 DEF Undisturbed, OnlyWhatWasSent
<1>3. CASE PhoneSends
  <2>1. /\ sending = << >> /\ powered /\ comm' = comm /\ faults' = faults
        /\ clean' = (comm.commStatus \in {"WaitFrameStart", "WaitDataLength"})
        /\ executed' = << >> /\ sending' = packet'
    BY <1>3 DEF PhoneSends
  <2>2. comm = Looking
    BY <2>1 DEF Undisturbed
  <2>3. clean'
    BY <2>1, <2>2 DEF Looking
  <2> QED BY <2>1, <2>2, <2>3 DEF Undisturbed, OnlyWhatWasSent
<1>4. CASE Programs
  BY <1>4 DEF Programs, ProgramWord, Undisturbed, OnlyWhatWasSent
<1>5. CASE Restarts
  BY <1>5 DEF Restarts, PowerUp, Undisturbed, OnlyWhatWasSent
<1>6. CASE PowerGoes
  BY <1>6 DEF PowerGoes, PowerLost, Undisturbed, OnlyWhatWasSent
<1>7. CASE UNCHANGED <<vars, link>>
  BY <1>7 DEF vars, link, Undisturbed, OnlyWhatWasSent
<1> QED BY <1>1, <1>2, <1>3, <1>4, <1>5, <1>6, <1>7 DEF CommandsNext

\* Without faults on the link the hypothesis of CommandsImplementSettings holds, however
\* often power is lost in the middle of a frame or of a save.
THEOREM FaultlessLink ==
    ASSUME MaxFaults = 0
    PROVE  CommandsSpec => []OnlyWhatWasSent /\ Spec
<1>1. CommandsInit => Undisturbed
  BY DEF CommandsInit, Undisturbed, OnlyWhatWasSent
<1>2. Undisturbed => OnlyWhatWasSent
  BY DEF Undisturbed
<1>3. CommandsSpec => []Undisturbed
  BY <1>1, NextUndisturbed, LinkKept, PTL DEF CommandsSpec
<1>4. CommandsSpec => []OnlyWhatWasSent
  BY <1>2, <1>3, PTL
<1> QED BY <1>4, CommandsImplementSettings, PTL

--------------------------------------------------------------------------------
(* What the checksum catches. *)

\* What is executed has as many bytes as what the phone sent, and one of them is another.
DamagedOnce ==
    /\ Len(executed) = Len(packet)
    /\ Cardinality({i \in 1 .. Len(packet) : executed[i] # packet[i]}) = 1

\* A frame with one byte damaged, whichever it is, is never executed: this is what
\* CommBLE::GetMessage looks at the exclusive or of all bytes for.
OneDamagedByteCaught == ~DamagedOnce

\* What GetMessage takes for a message.
Accepted(m) ==
    \E s \in Seq(Byte) : m = Append(s, kFrameTail) /\ CalcCrc(s) = 0

\* Two messages that are both accepted differ in two bytes at least, or in none.
LEMMA AcceptedDiffer ==
    ASSUME NEW m, NEW p, Accepted(m), Accepted(p), Len(m) = Len(p), NEW i \in 1 .. Len(p),
           m[i] # p[i], \A j \in 1 .. Len(p) : j # i => m[j] = p[j]
    PROVE  FALSE
<1>1. PICK s \in Seq(Byte) : m = Append(s, kFrameTail) /\ CalcCrc(s) = 0
  BY DEF Accepted
<1>2. PICK t \in Seq(Byte) : p = Append(t, kFrameTail) /\ CalcCrc(t) = 0
  BY DEF Accepted
<1>3. PICK n \in Nat : n = Len(s)
  BY LenProperties
<1>4. kFrameTail \in Byte
  BY DEF kFrameTail, Byte
<1>5. /\ Len(m) = n + 1 /\ m[n + 1] = kFrameTail
      /\ \A j \in 1 .. n : m[j] = s[j]
  BY <1>1, <1>3, <1>4, AppendProperties
<1>6. /\ Len(p) = Len(t) + 1 /\ p[Len(t) + 1] = kFrameTail
      /\ \A j \in 1 .. Len(t) : p[j] = t[j]
  BY <1>2, <1>4, AppendProperties
<1>7. Len(t) = n
  <2>1. Len(t) \in Nat /\ Len(m) = n + 1 /\ Len(p) = Len(t) + 1
    BY <1>5, <1>6, LenProperties
  <2>2. n + 1 = Len(t) + 1
    BY <2>1
  <2> QED BY <2>1, <2>2
<1>8. i \in 1 .. n
  <2>1. i # n + 1
    BY <1>5, <1>6, <1>7
  <2> QED BY <1>6, <1>7, <2>1
<1>9. s[i] # t[i] /\ \A j \in 1 .. n : j # i => s[j] = t[j]
  <2>1. \A j \in 1 .. n : j \in 1 .. Len(p) /\ s[j] = m[j] /\ t[j] = p[j]
    BY <1>5, <1>6, <1>7
  <2> QED BY <1>8, <2>1
<1> QED BY <1>1, <1>2, <1>3, <1>7, <1>8, <1>9, CrcCatches

LEMMA PacketAccepted == ASSUME NEW p, IsPacket(p) PROVE Accepted(p)
<1>1. Framed(p)
  BY PacketFramed DEF IsPacket
<1> DEFINE s == SubSeq(p, 1, Len(p) - 1)
<1>2. s \in Seq(Byte) /\ p = Append(s, kFrameTail)
  BY <1>1 DEF Framed
<1>3. CalcCrc(s) = 0
  BY <1>1 DEF Framed
<1> HIDE DEF s
<1> QED BY <1>2, <1>3 DEF Accepted

ExecutedInv == executed # << >> => Accepted(executed)

LEMMA NextExecuted ==
    LinkInv /\ ExecutedInv /\ [CommandsNext]_<<vars, link>> => ExecutedInv'
<1> SUFFICES ASSUME LinkInv, ExecutedInv, [CommandsNext]_<<vars, link>> PROVE ExecutedInv'
  OBVIOUS
<1>1. ASSUME NEW b, Receive(b), executed' # << >> PROVE Accepted(executed')
  <2>1. EndsMessage(comm, b) /\ executed' = Append(comm.frame, b)
    BY <1>1 DEF Receive
  <2>2. comm.frame \in Seq(Byte)
    BY DEF LinkInv, ParserOK
  <2> QED BY <2>1, <2>2 DEF EndsMessage, AtTail, Accepted
<1>2. CASE ByteArrives \/ ByteDamaged \/ StrayByte
  BY <1>1, <1>2 DEF ByteArrives, ByteDamaged, StrayByte, ExecutedInv
<1>3. CASE PhoneSends \/ BytesLost \/ Programs \/ PowerGoes
  BY <1>3 DEF PhoneSends, BytesLost, Programs, PowerGoes, ExecutedInv
<1>4. CASE Restarts \/ UNCHANGED <<vars, link>>
  BY <1>4 DEF Restarts, link, ExecutedInv
<1> QED BY <1>2, <1>3, <1>4 DEF CommandsNext

\* A frame in which one byte was damaged, the length, the command, a parameter, the
\* checksum or any other, is not executed, whatever the bytes are and however many
\* frames before it were lost or damaged.
THEOREM OneDamagedByteIsCaught == CommandsSpec => []OneDamagedByteCaught
<1>1. CommandsInit => ExecutedInv
  BY DEF CommandsInit, ExecutedInv
<1>2. LinkInv /\ ExecutedInv => OneDamagedByteCaught
  <2> SUFFICES ASSUME LinkInv, ExecutedInv, DamagedOnce PROVE FALSE
    BY DEF OneDamagedByteCaught
  <2> DEFINE D == {i \in 1 .. Len(packet) : executed[i] # packet[i]}
  <2>1. Len(executed) = Len(packet) /\ Cardinality(D) = 1
    BY DEF DamagedOnce
  <2>2. packet = << >> \/ Accepted(packet)
    BY PacketAccepted DEF LinkInv
  <2>3. IsFiniteSet(D)
    <3>1. Len(packet) \in Nat
      <4>1. packet = << >> => Len(packet) = 0
        OBVIOUS
      <4>2. IsPacket(packet) => Len(packet) \in Nat
        BY PacketFramed DEF IsPacket, Framed
      <4> QED BY <4>1, <4>2 DEF LinkInv
    <3>2. IsFiniteSet(1 .. Len(packet)) /\ D \in SUBSET (1 .. Len(packet))
      BY <3>1, FS_Interval
    <3> QED BY <3>2, FS_Subset
  <2>4. PICK i : D = {i}
    BY <2>1, <2>3, FS_Singleton
  <2>5. /\ i \in 1 .. Len(packet) /\ executed[i] # packet[i]
        /\ \A j \in 1 .. Len(packet) : j # i => executed[j] = packet[j]
    <3>1. i \in D /\ \A j \in D : j = i
      BY <2>4
    <3> QED BY <3>1
  <2>6. packet # << >> /\ executed # << >>
    BY <2>1, <2>5
  <2>7. Accepted(executed) /\ Accepted(packet)
    BY <2>2, <2>6 DEF ExecutedInv
  <2> QED BY <2>1, <2>5, <2>7, AcceptedDiffer
<1> QED BY <1>1, <1>2, NextExecuted, LinkKept, PTL DEF CommandsSpec
================================================================================
