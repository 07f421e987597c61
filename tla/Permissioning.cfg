\* One account, the node, asked about by two requests and at the start; the cache
\* keeps accounts apart, and the theorems are for any number of them.
CONSTANTS
    Contracts = {list}
    NoContract = nowhere
    Accounts = {node}
    Node = node
    Requests = {r1, r2}
    Startup = startup
    TTL = 2
    ReadMax = 1
SPECIFICATION Spec
INVARIANTS
    NodeReportGrounded
PROPERTIES
    AcceptedWasPermitted
    RefusedWasRefused
    ListensInTheEnd
