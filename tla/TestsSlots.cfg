SPECIFICATION Spec
CHECK_DEADLOCK FALSE  \* every test is performed once
CONSTANTS
    t1 = t1
    t2 = t2
    Tests = {t1, t2}
    Profiles <- NamedProfiles
    Slots = 1
    MaxAddresses = 1
    MaxFaults = 1
INVARIANT SlotsAreHeld
