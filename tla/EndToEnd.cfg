SPECIFICATION FairSpec
CONSTANTS
    a1 = a1  c1 = c1  c2 = c2  i1 = i1  i2 = i2  p1 = p1  w1 = w1  m1 = m1  m2 = m2
    Audio = {a1}
    Id = {i1, i2}
    NoId = NoId
    NoAudio = NoAudio
    MaxUploads = 3
    MaximumAttempts = 2
    Caller = {c1}
    Conforming = {1, 3}
    ScannerVerdicts = {}
    Publisher = {p1}
    Worker = {w1}
    Message = {m1, m2}
    NoMessage = NoMessage
    WorkerMaximumAttempts = 2
    MaxReceives = 3
    BatchLimit = 20
    FaultKinds = {"crash", "internal", "heartbeat", "publisher"}
    MaxFaults = 1
INVARIANTS
    ReadyWasVetted
    JobAgrees
    RequestMatchesJob
    RequestedSourceIsTagged
    RequestedSourceConforms
PROPERTIES
    UploadSettles
    RejectedIsNeverPlayable
    ImplementsGate
    ImplementsLifecycle
CHECK_DEADLOCK FALSE
