\* Any file at the start and at every SIGUSR1; started in "/", where it is found again.
CONSTANTS
    Keys = {"worker.thread.num", "client.heartbeat.timeout.s"}
    WORD = WORD
    Garbage = {0, 7}
    NONE = NONE
    Files <- MCFiles
    FirstFiles <- MCFiles
    DefaultThreadNum = 4
    DefaultTimeout = 70
    UintRange = 10
    StartsAtRoot = TRUE
SPECIFICATION Spec
INVARIANTS TypeOK DispatchHasThread AbortsOnlyIfSpoiled SettingsComeFromFile
CHECK_DEADLOCK FALSE
