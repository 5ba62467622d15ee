CONSTANTS
    NB = 2
    Cost <- MCCost
    Policies <- MCPolicies
    EventsCap <- MCEventsCap
    MaxChunks = 1
SPECIFICATION FairSpec
PROPERTY TimeoutEndsRace
