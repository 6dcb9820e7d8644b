\* A client that stops reading against the heartbeat timeout.
CONSTANTS
    Sfds = {s1}
    Conns = {c1, c2}
    NULL = NULL
    ThreadNum = 2
    FreeTotal = 1
    PipeCap = 1
    MaxLines = 1
    NotifyMayFail = FALSE
    InitMayFail = FALSE
    ClientsMayStall = TRUE
    ClientsMayReset = FALSE
SPECIFICATION FairSpec
PROPERTY SilentClientIsReaped
