SPECIFICATION PipelineSpec
CONSTANTS
    a1 = a1  a2 = a2  i1 = i1  i2 = i2  p1 = p1  p2 = p2  w1 = w1  w2 = w2
    m1 = m1  m2 = m2  m3 = m3
    Audio = {a1}
    Id = {i1}
    NoId = NoId
    NoAudio = NoAudio
    MaxUploads = 1
    MaximumAttempts = 2
    Publisher = {p1}
    Worker = {w1}
    Message = {m1}
    NoMessage = NoMessage
    WorkerMaximumAttempts = 2
    MaxReceives = 3
    BatchLimit = 1
    FaultKinds = {}
    MaxFaults = 0
PROPERTY ReadyIsFinal
CHECK_DEADLOCK FALSE
