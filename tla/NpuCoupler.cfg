SPECIFICATION FairSpec
CONSTANTS
    Buffers = {b1, b2, b3}
    Blocks = {m1, m2}
    None = None
    ReportInitCount = 1
    HostRestarts = TRUE
INVARIANTS
    OneOwner
    HostAndNpuAgree
    NoneLeftUnannounced
    QueuedBehindPending
PROPERTIES
    LostOnlyByRestart
    UplineSpec
    UplineProgress
