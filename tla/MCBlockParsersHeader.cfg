SPECIFICATION Spec
CONSTANTS
    s1 = 1
    s2 = 2
    Parsers = {"FADC", "VFTDC", "MPD"}
    FirstEvent = 5
    Banks <- MCBanks
CHECK_DEADLOCK FALSE
INVARIANTS
    HitsFollowTheirEventHeader
