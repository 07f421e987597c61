\* A rejection read twice, the second time after a new chain began.
CONSTANTS
    Requests = {r1, r2}
    NoRequest = none
    Nonces = {0, 1, 2}
    MaxInflight = 2
    HasGrace = TRUE
    NodeMayFail = FALSE
    Readers = {watcher, sync}
    Watcher = watcher
    HubMayReject = TRUE
    TTLMayPass = FALSE
    ReceiptMayLapse = FALSE
    MemoryMayForget = FALSE
    LengthMayWrap = FALSE
SPECIFICATION Spec
PROPERTY
    LateResultHarmless
