SPECIFICATION FairPlayerSpec
CONSTANTS
    a1 = a1  a2 = a2
    Audio = {a1, a2}
    None = None
    Peaks <- MCPeaks
    MaxUrl <- TwoAndOne
    Lists <- BothInOrder
    MaxRejected = 0
    MaxTime = 1
    RestartAfter = 0
    Widths = {0, 15}
    BarStep = 5
INVARIANTS
    PlayerTypeOK
    QueueAgrees
    SoundIsCurrent
    WaveformIsOwn
    PictureIsOwn
    StillUnlessPlaying
PROPERTIES
    HydrationIsSilent
    LoadingSettles
CHECK_DEADLOCK FALSE
