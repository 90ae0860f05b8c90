SPECIFICATION MCFairSpec
CONSTANTS
    Parts = {"crash"}
    Sessions = {"r1", "r2"}
    Keys = {"k1"}
    KeyOf <- MCKeyOf
    Cost <- MCCost
    Estimate = 1
    Budget = 3
    MaxActive = 2
    MaxRetained = 2
    Poisoned = {}
    DueKeys = {}
    Operations = {}
    MaxFaults = 1
    Ambiguous = FALSE
    MaxPermanent = 0
    MaxCrashes = 0
CHECK_DEADLOCK FALSE
PROPERTIES
    AccountingSettles
