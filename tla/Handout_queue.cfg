\* Three clients of one user: a failing node, tickets that expire, a chain that ends.
CONSTANTS
    Requests = {r1, r2, r3}
    NoRequest = none
    MaxInflight = 2
    HasGrace = TRUE
    NodeMayFail = TRUE
    EndingChains = 1
SPECIFICATION FairSpec
INVARIANTS
    OneTurn
    TicketsCleaned
PROPERTY
    EveryAskAnswered
