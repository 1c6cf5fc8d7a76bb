SPECIFICATION Spec
CONSTANTS
    Main = main
    Workers = {w1}
    None = none
    Calls = {"report", "report_sync", "get_sync", "control_reply"}
    WorkerCalls = {"get"}
    Timeouts = {"report", "clear"}
    Faults = {"pub_fail", "garbled"}
    RecursiveMutex = TRUE
    Capacity = 2
    MaxReqs = 2
    MaxControls = 1
INVARIANTS TypeOK FrameAlive SyncSuccessIsClouds ControlCleared AnswerReaches
PROPERTIES RequestSpec
