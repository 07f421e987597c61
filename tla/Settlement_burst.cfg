\* A burst of three metatx of one user, in any order and with any nonces, on a
\* node that answers and a hub that rejects for the nonce only; the memory of
\* sent hashes forgets any of them at any time.
CONSTANTS
    Requests = {r1, r2, r3}
    NoRequest = none
    Nonces = {0, 1, 2}
    MaxInflight = 2
    HasGrace = TRUE
    NodeMayFail = FALSE
    Readers = {watcher, sync}
    Watcher = watcher
    HubMayReject = FALSE
    TTLMayPass = FALSE
    ReceiptMayLapse = FALSE
    MemoryMayForget = TRUE
    LengthMayWrap = FALSE
SPECIFICATION Spec
SYMMETRY RequestSymmetry
INVARIANTS
    HubTakesEverySend
    HeldExact
    TooManyMeansFull
    PendingNotShort
