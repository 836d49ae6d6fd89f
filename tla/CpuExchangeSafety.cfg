SPECIFICATION Spec
CONSTANTS
    Cpus = {0, 1}
    PpuCount = 2
    HasNoCejMej = FALSE
    IsSeries6x00 = FALSE
    StepsPerLoop = 1
    MayDeadstart = TRUE
INVARIANTS
    MonitorModeExclusive
    NoMutualWait
    ErrorExitEntersMonitor
    ExnIsHonoured
    RequestHasWaiter
PROPERTIES
    RequestNotOverwritten
    LockSpec
