SPECIFICATION AuthSpec
CONSTANTS
    Users = {u1}
    Requests = {r1, r2}
    PoolSize = 2
    MaxCodes = 2
INVARIANTS
    OneCodeOnce
PROPERTIES
    EveryRequestEnds
CHECK_DEADLOCK FALSE
