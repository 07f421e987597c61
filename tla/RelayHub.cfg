\* Two accounts, one of them the administrator too, and one user; four charges
\* of 5 lower the limit of the next period.
CONSTANTS
    Accounts = {n1, n2}
    Admin = n1
    Users = {u1}
    MaxNonce = 1
    MaxBlock = 3
    UserGas = {2}
    MaxGasUsed = 20
    Charges = {5}
    BlockLimits = {10}
    Frequencies = {0, 2}
SPECIFICATION Spec
INVARIANTS RegistryExact LimitsWithinCurrent
PROPERTIES LimitsFresh
