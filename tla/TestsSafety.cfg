SPECIFICATION Spec
CHECK_DEADLOCK FALSE  \* every test is performed once
CONSTANTS
    t1 = t1
    t2 = t2
    Tests = {t1, t2}
    Profiles <- MixedProfiles
    Slots = 1
    MaxAddresses = 2
    MaxFaults = 1
SYMMETRY TestSymmetry
INVARIANTS
    TypeOK
    NothingOutlivesTest
    SuccessIsTimely
    ResolversBounded
