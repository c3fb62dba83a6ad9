CONSTANTS
    CacheTime   = 2
    Interval    = 1
    RequestTime = 1
    MaxAge      = 1
    AgeCap      = 8
SPECIFICATION Spec
INVARIANTS
    TypeOK
    MeasurementFresh
    InvalidOnlyInPassing
    NewFrameShown
