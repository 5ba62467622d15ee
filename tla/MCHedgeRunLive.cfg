CONSTANTS
    NB = 2
    Cost <- MCCost
    Policies <- MCPolicies
    EventsCap = 1
    MaxChunks = 1
SPECIFICATION FairSpec
PROPERTIES
    ClientGoneReturns
    LosersTornDown
    HedgeFires
    TimeoutBoundsRace
