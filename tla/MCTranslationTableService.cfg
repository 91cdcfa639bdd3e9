SPECIFICATION FairSpec
CONSTANTS
    hall = hall
    test = test
    hms = hms
    shms = shms
    bcal = bcal
    fa = fa
    fb = fb
    fc = fc
    Workers = {w1, w2}
    Providers = {hall, test}
    Detectors = {hms, shms, bcal}
    MappingFiles = {fa, fb, fc}
    MaxRun = 3
    NoAnswer = NoAnswer
    Channels <- MCChannels
    Malformed = {}
    Disks <- MCDisks
    ExplicitChoices <- MCExplicit
CHECK_DEADLOCK FALSE
INVARIANTS
    TypeOK
    AnswersAreRight
    RunTablesAreOrdered
PROPERTIES
    TablesAreStable
    EveryCallEnds
