SPECIFICATION FairSpec
CONSTANTS
    kVoiceBufferSize = 3
    Voices <- Chip
    VolumeVoices <- Volume
    Announcements <- Info
    MaxPresses = 3
INVARIANTS TypeOK SpokenWithAmp
PROPERTIES NotCutOff BounceNotReported IsSpoken HeldIsReported
