SPECIFICATION FairSpec
CONSTANTS
    Jobs = {j1, j2}
    NoJob = NoJob
    c1 = c1
    c2 = c2
    Conns = {c1, c2}
    Selections <- OneSelection
    ProviderIsFake = FALSE
    SecondProcess = FALSE
    MaxFaults = 1
PROPERTIES
    JobsSettle
    ShutdownEnds
