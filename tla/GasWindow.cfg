\* Two metatx and one private transaction of the same account, a node that may
\* fail every call and drop the socket, and a service that may be told to stop.
\* A word of two bits: 3 and 1 wrap around and fit any limit.
CONSTANTS
    Requests = {r1, r2}
    Privates = {p1}
    Word = 4
    GasValues = {1, 3}
    Limits = {1, 2}
    MaxBackoff = 2
    MaxHeaders = 1
    NodeMayFail = TRUE
    NoRequest = none
SPECIFICATION FairSpec
INVARIANTS AtMostOneEscapes OnlyPrivatesCross
PROPERTIES GrantedFits WindowReopens LoopStops
