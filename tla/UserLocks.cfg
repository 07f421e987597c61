\* Three goroutines on two users, entering and leaving for ever.
CONSTANTS
    Keys = {k1, k2}
    Goroutines = {g1, g2, g3}
    Locks = {l1, l2, l3}
    NoLock = nolock
    NoOne = noone
SPECIFICATION FairSpec
INVARIANTS
    MutualExclusion
    EntryWhileUsed
PROPERTIES
    ImplementsMutex
    EveryoneEnters
