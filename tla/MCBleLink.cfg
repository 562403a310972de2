SPECIFICATION FairSpec
CONSTANTS
    NSlots = 2
    Generations = 4
    PersistSelected = TRUE
    StoreOutcomes = {TRUE, FALSE}
    MaxPresses = 3
    MaxBonds = 2
    MaxLosses = 1
INVARIANTS TypeOK AdvertisesSelectedSlot BondBelongsToAddress ForgottenStaysForgotten
PROPERTIES RestartSettles ImplementsPairingSlots
