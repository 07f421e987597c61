\* Two clients, a node that answers, and a metatx that arrives in time.
CONSTANTS
    Requests = {r1, r2}
    NoRequest = none
    MaxInflight = 2
    HasGrace = TRUE
    NodeMayFail = FALSE
    EndingChains = 0
SPECIFICATION Spec
INVARIANT
    HandedOutOnce
SYMMETRY ClientSymmetry
