SPECIFICATION FairFlowSpec
CONSTANTS
    u1 = u1  u2 = u2  u3 = u3
    Run = {u1, u2}
    None = None
INVARIANTS
    FlowTypeOK
    ReadyIsWatched
PROPERTIES
    LateAnswersStayAway
    LoneRunSettles
CHECK_DEADLOCK FALSE
