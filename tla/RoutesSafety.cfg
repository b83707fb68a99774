SPECIFICATION Spec
CHECK_DEADLOCK FALSE  \* a run ends when its requests are served and its devices deleted
CONSTANTS
    Requests = {q1, q2, q3}
    c1 = c1
    c2 = c2
    bad = bad
    Conns = {c1, c2, bad}
    Malformed = {bad}
    Loads <- ThreeOrTwo
    d1 = d1
    d2 = d2
    Dests = {d1, d2}
    NoDest = NoDest
    Seeds <- OneSeed
    ProviderIsFake = TRUE
    MaxFaults = 1
SYMMETRY RequestSymmetry
INVARIANTS
    TypeOK
    HistoryIsGapless
    RecordsMatchRoutes
    AnswersMatchRecords
PROPERTIES
    ChangesAreRecorded
    OnlyFakeDevicesChange
