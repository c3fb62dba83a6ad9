CONSTANTS
    Clients    = {c1}
    Poller     = Poller
    NoTask     = NoTask
    NoFrame    = NoFrame
    MaxQueue   = 1
    FailureCap = 1
SPECIFICATION FairSpec
PROPERTIES
    EveryRequestAnswered
    PollingNeverStops
    ConnectingPasses
    StaleConnectedClears
    StopCompletes
