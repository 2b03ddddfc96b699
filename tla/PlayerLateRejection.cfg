SPECIFICATION PlayerSpec
CONSTANTS
    a1 = a1  a2 = a2
    Audio = {a1, a2}
    None = None
    Peaks <- MCPeaks
    MaxUrl <- OneEach
    Lists <- TrackPagesOnly
    MaxRejected = 0
    MaxTime = 1
    RestartAfter = 0
    Widths = {0, 15}
    BarStep = 5
PROPERTIES
    NextIsPlayed
CHECK_DEADLOCK FALSE
