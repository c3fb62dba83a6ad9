CONSTANTS
    Interval     = 2
    Backoff      = 5
    ReconnectMax = 60
    NotFoundMax  = 10
    FailureCap   = 8
SPECIFICATION Spec
INVARIANTS
    TypeOK
    PollsInTime
    NoticedAfterPowerOn
PROPERTIES
    RetryWaitedFor
    BackoffGrows
