SPECIFICATION Spec
CONSTANTS
    a1 = a1  c1 = c1  c2 = c2  i1 = i1  i2 = i2  p1 = p1  w1 = w1  m1 = m1  m2 = m2
    Audio = {a1}
    Id = {i1, i2}
    NoId = NoId
    NoAudio = NoAudio
    MaxUploads = 2
    MaximumAttempts = 2
    Caller = {c1, c2}
    Conforming = {1, 2}
    ScannerVerdicts = {}
    Publisher = {p1}
    Worker = {w1}
    Message = {m1}
    NoMessage = NoMessage
    WorkerMaximumAttempts = 2
    MaxReceives = 1
    BatchLimit = 20
    FaultKinds = {}
    MaxFaults = 0
PROPERTY RejectedIsNeverPlayable
CHECK_DEADLOCK FALSE
