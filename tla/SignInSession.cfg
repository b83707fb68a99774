SPECIFICATION Spec
CONSTANTS
    q1 = q1
    q2 = q2
    Reqs = {q1, q2}
    Loads <- MCLoads
    Keys = {k1, k2}
    FirstKey = k1
    Flows = {f1, f2}
    RoleSets <- MCRoleSets
    Required = "Operator"
    None = None
    KeysTTL = 1
    FlowTTL = 1
    SessionTTL = 1
    TokenLife = 3
    CallTime = 1
    MaxTime = 3
PROPERTIES
    SessionsAuthenticate
CHECK_DEADLOCK FALSE
