SPECIFICATION Spec
CONSTANTS
    s1 = 1
    s2 = 2
    FirstEvent = 5
    None = None
    Banks <- MCBanks
CHECK_DEADLOCK FALSE
INVARIANTS
    RegularBanksYieldEvents
