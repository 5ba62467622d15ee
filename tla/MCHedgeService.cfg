CONSTANTS
    NB = 2
    Cost <- MCCost
    Policies <- MCPolicies
    EventsCap = 2
    MaxChunks = 2
    Answers <- MCAnswers
    Contentful <- MCContentful
    q = q
    Kinds = {"sse", "json", "refused", "noFlusher"}
    Refusals = {401}
    Latencies = {1}
    Bounds <- MCBounds
SPECIFICATION ServiceSpec
INVARIANTS
    AnswerIsWhole
    ErrorsAreTrue
    CountsAreTrue
    NoConnectionLeft
PROPERTIES
    ImplementsProxy
    ImplementsRun
