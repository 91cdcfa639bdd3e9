SPECIFICATION ServicesSpec
CONSTANTS
    b1 = b1
    b2 = b2
    fadc = fadc
    ti = ti
    common = common
    experiment = experiment
    p1 = p1
    p2 = p2
    p3 = p3
    Banks = {b1, b2}
    Modules = {fadc, ti}
    NoModule = NoModule
    Malformed = Malformed
    LayerChoices <- MCLayerChoices
    ModuleIds = {fadc, ti}
    Parsers = {p1, p2, p3}
    NullParser = NullParser
    Registrars = {common, experiment}
    Programs <- MCPrograms
INVARIANTS
    TypeOK
    RoutesAreLayered
    SourcesAreTrue
    ParsersTypeOK
    RegistrationsExact
    BanksReachOneParser
PROPERTIES
    ImplementsRegistry
    ParsersImplementRegistry
