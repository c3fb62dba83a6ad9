CONSTANTS
    None         = None
    Responses    <- MCResponses
    RawIds       <- MCRawIds
    Levels       <- MCLevels
    Temperatures <- MCTemperatures
SPECIFICATION Spec
INVARIANTS
    TypeOK
    WellFormed
    TemperatureInUnit
    RunningNotCooling
    TruncationSafe
