SPECIFICATION CatalogSpec
CONSTANTS
    s1 = s1  s2 = s2  r1 = r1
    Audio = {1, 2, 3}
    Subject = {s1}
    Nobody = Nobody
    Reader = {r1}
    RequestedLimits = {0, 5}
    DefaultListLimit = 1
    MaxListLimit = 2
    MaxTime = 1
INVARIANTS
    CatalogTypeOK
    NothingRepeats
    NothingSkipped
CHECK_DEADLOCK FALSE
