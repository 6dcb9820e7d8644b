\* The server is started in its own directory, as run.sh does.
CONSTANTS
    Keys = {"worker.thread.num", "client.heartbeat.timeout.s"}
    WORD = WORD
    Garbage = {0, 7}
    NONE = NONE
    Files <- MCFiles
    FirstFiles <- MCFiles
    DefaultThreadNum = 4
    DefaultTimeout = 70
    UintRange = 10
    StartsAtRoot = FALSE
SPECIFICATION Spec
INVARIANT ReloadKeepsRunning
CHECK_DEADLOCK FALSE
