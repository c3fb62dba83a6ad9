CONSTANTS
    Clients    = {c1, c2}
    Poller     = Poller
    NoTask     = NoTask
    NoFrame    = NoFrame
    MaxQueue   = 2
    FailureCap = 1
SYMMETRY ClientSymmetry
SPECIFICATION Spec
INVARIANTS
    TypeOK
    SingleSender
    SinglePoll
    ConnectLockUncontended
    CharacteristicsOfThisLink
    WriterHasClient
    ReportedWhenUp
    OkMeansRecentFrame
    InvalidFrameFlagged
    PolledFrameIsCurrent
    WrittenOnce
PROPERTIES
    ImplementsSerialLink
    ImplementsDaemonHealth
