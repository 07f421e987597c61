\* Two metatx of one user under every fault but a memory that forgets: failing
\* node, rejecting hub, expiring cache, lapsing receipts, two concurrent resolvers.
CONSTANTS
    Requests = {r1, r2}
    NoRequest = none
    Nonces = {0, 1}
    MaxInflight = 1
    HasGrace = TRUE
    NodeMayFail = TRUE
    Readers = {watcher, sync}
    Watcher = watcher
    HubMayReject = TRUE
    TTLMayPass = TRUE
    ReceiptMayLapse = TRUE
    MemoryMayForget = FALSE
    LengthMayWrap = TRUE
SPECIFICATION FairSpec
INVARIANTS
    PendingExact
    ReservationMatches
    ChainOrder
    ClosedOnce
PROPERTIES
    EveryRequestAnswered
    PlacesReturned
