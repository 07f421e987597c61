\* One request, and the same question at the other door, from every start of MCGateway.
CONSTANTS
    Width = 20
    Millisecond = 8
    Now = 1000
    NoNonce = NoNonce
    Starts <- MCStarts
    Requests <- MCRequests
    Counterpart <- MCCounterpart
SPECIFICATION Spec
INVARIANTS
    InfoTellsInForce
    AdmittedExactly
    DoorsAgree
    TraceOfMetaTx
    OneDocument
    AnswersTruthful
    NonceDoorsAgree
