SPECIFICATION MCSpec
CONSTANTS
    Parts = {"crash", "keys"}
    Sessions = {"r1", "r2", "r3"}
    Keys = {"k1"}
    KeyOf <- MCKeyOf
    Cost <- MCCost
    Estimate = 1
    Budget = 2
    MaxActive = 3
    MaxRetained = 2
    Poisoned = {}
    DueKeys = {"k1"}
    Operations = {"update", "reset", "delete"}
    MaxFaults = 1
    Ambiguous = TRUE
    MaxPermanent = 1
    MaxCrashes = 1
CHECK_DEADLOCK FALSE
INVARIANTS
    BooksBalance
    LedgerKept
PROPERTIES
    ChargesOnce
    ResetsSettled
