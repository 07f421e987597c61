\* Metatx of every expiration, at both doors.
CONSTANTS
    Width = 20
    Millisecond = 8
    Now = 1000
    NoNonce = NoNonce
    Starts <- MCStarts
    Requests <- MCRequests
    Counterpart <- MCCounterpart
SPECIFICATION Spec
INVARIANT AmpleExpirationPasses
