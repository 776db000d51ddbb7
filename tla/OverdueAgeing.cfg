SPECIFICATION MCSpec
CONSTANTS
    a = a
    b = b
    Tenants <- MCTenants
    Founded <- MCFounded
    Failed <- MCFailed
    Operated <- MCFailed
    Emails = {e1, e2}
    Registered = {e1}
    Admins = {x, y}
    MaxEvents = 2
    Term <- MCTerm
    Runs = {"cron", "manual"}
    Total = 2
    Thresholds = {1, 2}
    DefaultThreshold = 2
    Terms = {1, 2}
    MaxRows = 2
    LastDay = 3
INVARIANTS
    ActiveIsProvisioned
PROPERTIES
    NpaIsNotShakenOff
    EventuallyOverdue
CHECK_DEADLOCK FALSE
