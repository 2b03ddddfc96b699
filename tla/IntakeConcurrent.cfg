SPECIFICATION FairIntakeSpec
CONSTANTS
    a1 = a1  a2 = a2  c1 = c1  c2 = c2  i1 = i1  i2 = i2  i3 = i3
    Audio = {a1}
    Id = {i1, i2}
    NoId = NoId
    NoAudio = NoAudio
    MaxUploads = 2
    MaximumAttempts = 3
    Caller = {c1, c2}
    Conforming = {1, 2}
    ScannerVerdicts = {"NO_THREATS_FOUND", "THREATS_FOUND"}
INVARIANTS
    IntakeTypeOK
    RequestsAreGated
    NoLostScan
PROPERTIES
    PinnedForGood
    VerifiedIsDecided
CHECK_DEADLOCK FALSE
