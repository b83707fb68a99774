SPECIFICATION Spec
CONSTANTS
    Procs = {a, b}
    a = a
    b = b
    c1 = c1
    r1 = r1
    p1 = p1
    Roles = {r1}
    Proxies = {p1}
    Conns = {c1}
    Asked <- MCAsked
    None = None
    Keep = Keep
    MaxFaults = 1
INVARIANTS
    TypeOK
    RowsAreSound
    ReferencesExist
    ResolvesToOneKind
    SomeTransactionProceeds
PROPERTIES
    FoundConnectionsResolve
    ServedOneByOne
