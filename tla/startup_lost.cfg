\* The wakeup is lost when the last worker signals before the main thread waits.
CONSTANT ThreadNum = 4
SPECIFICATION FairSpec
PROPERTY StartupCompletes
CHECK_DEADLOCK FALSE
