SPECIFICATION FairSpec
CONSTANTS
    MaxGen = 3
    MaxSlots = 3
    Leases = {l1, l2}
    Clients = {c1, c2}
    MaxRetiring = 1
CHECK_DEADLOCK FALSE
INVARIANTS
    RuntimeSafe
    NothingLeaks
PROPERTIES
    RuntimeSettles
