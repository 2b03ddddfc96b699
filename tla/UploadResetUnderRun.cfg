SPECIFICATION FlowSpec
CONSTANTS
    u1 = u1  u2 = u2  u3 = u3
    Run = {u1}
    None = None
INVARIANTS
    ProcessingIsPolled
CHECK_DEADLOCK FALSE
