CONSTANTS
    NB = 3
    Cost <- MCCost
    Policies <- MCTwoOfThree
    EventsCap <- MCEventsCap
    MaxChunks = 1
SPECIFICATION Spec
INVARIANT ErrorOnlyIfAllLose
