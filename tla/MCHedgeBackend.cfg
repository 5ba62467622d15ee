CONSTANTS
    p1 = p1
    fire = fire
    Timers <- MCTimers
    Durations = {0, 1, 2}
    Rearms = {0, 2}
    MaxNow = 3
    Producers <- MCProducers
    HTTPScripts <- MCHTTPScripts
    FakeScripts <- MCFakeScripts
SPECIFICATION Spec
INVARIANTS
    TypeOK
    TokensOnTime
PROPERTIES
    KeepsTimerContract
    KeepsSendContract
    CancelledStreamEnds
