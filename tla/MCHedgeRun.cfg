CONSTANTS
    NB = 3
    Cost <- MCCost
    Policies <- MCGated
    EventsCap = 1
    MaxChunks = 2
SPECIFICATION Spec
INVARIANTS
    TypeOK
    InFlightConserved
    CostConserved
    InFlightCapped
    CostCapped
    RelayIsOneStream
    AllFailedIsTrue
    HedgePending
PROPERTIES
    WinnerIsFinal
    KeepsContract
