SPECIFICATION Spec180
CONSTANTS
    Cpus = {0, 1}
    PpuCount = 1
    HasNoCejMej = FALSE
    IsSeries6x00 = FALSE
    StepsPerLoop = 1
    MayDeadstart = FALSE
INVARIANTS
    WaiterIsInMonitorMode
    ExitsFromMonitorMode
