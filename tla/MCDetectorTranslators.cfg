SPECIFICATION FairSpec
CONSTANTS
    adc = adc
    tdc = tdc
    tdc2 = tdc2
    hodo = hodo
    cal = cal
    a1 = a1
    a2 = a2
    Types = {adc, tdc, tdc2}
    Detectors = {hodo, cal}
    NoDetector = NoDetector
    Addresses = {a1, a2}
    Workers = {w1, w2}
    None = None
    FileName <- MCFileName
    Tables <- MCTables
    Events <- MCEvents
INVARIANTS
    TypeOK
    WritersMatchRoutes
    EventsAreTranslated
    FilesAreExact
PROPERTIES
    RoutesAreStable
    EverythingIsDumped
