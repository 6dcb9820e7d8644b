\* Started in "/", so that SIGUSR1 finds the file.
CONSTANTS
    Keys = {"worker.thread.num", "client.heartbeat.timeout.s"}
    WORD = WORD
    Garbage = {0, 7}
    NONE = NONE
    Files <- TwoOrThree
    FirstFiles <- TwoOrThree
    DefaultThreadNum = 4
    DefaultTimeout = 70
    UintRange = 10
    StartsAtRoot = TRUE
SPECIFICATION Spec
INVARIANT ServingSurvivesReload
CHECK_DEADLOCK FALSE
