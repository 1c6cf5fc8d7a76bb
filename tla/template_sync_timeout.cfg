SPECIFICATION Spec
CONSTANTS
    Main = main
    Workers = {}
    None = none
    Calls = {"report_sync"}
    WorkerCalls = {}
    Timeouts = {"report_sync"}
    Faults = {}
    RecursiveMutex = TRUE
    Capacity = 2
    MaxReqs = 1
    MaxControls = 0
INVARIANT ContextReturned
