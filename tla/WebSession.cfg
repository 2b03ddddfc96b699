SPECIFICATION FairSessionSpec
CONSTANTS
    s1 = s1  s2 = s2  q1 = q1  q2 = q2
    Subject = {s1, s2}
    None = None
    NoData = NoData
    Developer = s1
    Modes = {"disabled", "development", "oidc", "misconfigured"}
    Query = {q1, q2}
    RetryLimit = 2
INVARIANTS
    SessionTypeOK
    SessionFollowsUser
    CacheIsCurrent
    SignInIsSeen
PROPERTIES
    CallbackSettles
    LoadingEnds
CHECK_DEADLOCK FALSE
