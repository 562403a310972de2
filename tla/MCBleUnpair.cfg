SPECIFICATION Spec
CONSTANTS
    NSlots = 2
    Generations = 4
    PersistSelected = TRUE
    StoreOutcomes = {TRUE}
    MaxPresses = 3
    MaxBonds = 1
    MaxLosses = 0
INVARIANTS UnpairedAddressRetired
