\* A recycled CONN against the token check of every new connection.
CONSTANTS
    Sfds = {s1, s2}
    Conns = {c1, c2, c3}
    NULL = NULL
    ThreadNum = 2
    FreeTotal = 1
    PipeCap = 1
    MaxLines = 1
    NotifyMayFail = FALSE
    InitMayFail = FALSE
    ClientsMayStall = FALSE
    ClientsMayReset = FALSE
SPECIFICATION Spec
PROPERTY NewConnStartsUnverified
