CONSTANTS
    Requests = {r1, r2}
    NB = 2
    MaxChunks = 1
    Kinds <- MCKinds
    Refusals = {401}
    Reasons <- MCReasons
    Bounds <- MCBounds
    Latencies <- MCLatencies
SYMMETRY MCSymmetry
VIEW MCView
SPECIFICATION Spec
INVARIANTS
    TypeOK
    NoObservationLost
    AnswersMatchCounters
    OneAnswer
    StreamIsWellFormed
    HistogramIsExact
    OutcomesComeWithLosses
