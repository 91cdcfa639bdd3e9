SPECIFICATION FairSpec
CONSTANTS
    s1 = s1
    s2 = s2
    r1 = r1
    r2 = r2
    r3 = r3
    adc = adc
    scaler = scaler
    junk = junk
    m1 = m1
    m2 = m2
    p1 = p1
    p2 = p2
    Sources = {s1, s2}
    Workers = {w1, w2}
    ROCs = {r1, r2, r3}
    Banks = {adc, scaler, junk}
    Modules = {m1, m2}
    Parsers = {p1, p2}
    NoModule = NoModule
    NullParser = NullParser
    None = None
    HalfRange = 4
    Capacity = 2
    Files <- MCFiles
    Setups <- MCSetups
CHECK_DEADLOCK FALSE
INVARIANTS
    TypeOK
    NoBlockLostOrRepeated
    ThrowsForCause
    NoPartialBlock
PROPERTIES
    ImplementsDelivery
    EverythingIsDelivered
