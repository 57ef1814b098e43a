\* Two runs on one disk, every fault, files from empty to two bytes past the bound.
CONSTANTS
    Run = {r1, r2}
    Limit = 1
    TempHeadDir <- MCTempHeadDir
    TempName <- MCTempName
    TempDir <- MCTempDir
    Stray <- MCStray
    MayRaise <- AllFaults
SPECIFICATION Spec
CHECK_DEADLOCK FALSE
INVARIANTS
    OpenStoresStand
    EndsWithoutLitter
    HostsAfterClosing
    ExitStatusTells
    BoundIsExact
PROPERTY
    RunsEnd
