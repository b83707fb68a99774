SPECIFICATION Spec
CONSTANTS
    Jobs = {j1, j2}
    NoJob = NoJob
    c1 = c1
    c2 = c2
    Conns = {c1, c2}
    Selections <- TwoSelections
    ProviderIsFake = TRUE
    SecondProcess = TRUE
    MaxFaults = 1
SYMMETRY JobSymmetry
INVARIANTS
    TypeOK
    OneActiveJob
    ReportFollowsSnapshot
    ActiveJobHasOwner
    OrderlyShutdown
    ShutdownLeavesWork
PROPERTIES
    TerminalIsFinal
    ImplementsService
