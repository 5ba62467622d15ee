CONSTANTS
    Requests = {r1, r2}
    b1 = b1
    b2 = b2
    Backends <- MCBackends
    Models = {"fast", "other"}
    Latencies = {0, 1, 4}
    Files <- MCFiles
    Envs <- MCEnvs
    DefaultWindow = 3
    MaxInt = 32767
    NsPerMs = 100
    MaxSamples = 4
SYMMETRY MCSymmetry
SPECIFICATION Spec
INVARIANTS
    RingHoldsTheLatest
    SuggestionIsMedian
    ColdPrimaryStaysStatic
    PolicyIsInBounds
