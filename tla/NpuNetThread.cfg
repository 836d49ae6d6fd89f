SPECIFICATION SpecNet
CONSTANTS
    Buffers = {b1, b2, b3}
    Blocks = {m1}
    None = None
    ReportInitCount = 1
    HostRestarts = FALSE
INVARIANT
    QueuedBehindPending
