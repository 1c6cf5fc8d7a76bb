SPECIFICATION FairSpec
CONSTANTS
    Threads = {main, w1}
    Main = main
    None = none
    Topics = {a, b}
    MaxTopics = 1
    RetryTimes = 2
    ModuleTypes = {"N21", "L206D", "ESP8266"}
    Ops = {"handshake", "info_set", "conn", "discon", "pub", "publ", "sub", "unsub", "is_connected", "net", "server", "cwmod", "log", "deliver"}
    WorkerOps = {"sub", "publ", "is_connected"}
    Faults = {"lost", "late", "discon", "power", "nomem"}
    MaxCalls = 2
    MaxMsgs = 1
INVARIANTS SubAnswered AnswersFromTheCall LockBracketed HandlerReady PayloadExpected
PROPERTY CallsReturn
CHECK_DEADLOCK FALSE
