CONSTANTS
    Runs = {r1, r2, r3}
    NB = 2
    Cost <- MCCost
    Policies <- MCPolicies
    LossCooldownN = 2
    LossCooldown = 1
    MaxNow = 3
SYMMETRY MCSymmetry
SPECIFICATION Spec
PROPERTY ExpiryResetsStreak
