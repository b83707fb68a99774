\* Two requests, one of them over Telnet, while administrators replace the
\* mappings.
SPECIFICATION Spec
CONSTANTS
    q1 = q1
    q2 = q2
    None = None
    Requests = {q1, q2}
    Loads <- MCLoads
    Roles = {"anonymous", "none", "Viewer", "Administrator"}
    Payloads <- MCPayloads
    Tables <- MCTables
    Bursts <- MCBursts
    Bytes <- MCBytes
    MaxBytes = 4
INVARIANTS
    TypeOK
    DispatchIsFresh
    SessionsAreClosed
    RepliesIgnoreCuts
    OutputIsWhole
    EnginesAreFew
\* Every request is answered once and the edits are bounded.
CHECK_DEADLOCK FALSE
