SPECIFICATION FairSpec
CONSTANTS
    Main = main
    Workers = {w1}
    None = none
    Calls = {"get_sync"}
    WorkerCalls = {"report"}
    Timeouts = {"get_sync", "report", "clear"}
    Faults = {}
    RecursiveMutex = FALSE
    Capacity = 2
    MaxReqs = 2
    MaxControls = 0
PROPERTIES RequestsResolved
CHECK_DEADLOCK FALSE
