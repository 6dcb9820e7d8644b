\* Nothing fails and clients read; workers compete for mutex_, and the pipe is
\* full after one byte.
CONSTANTS
    Sfds = {s1, s2}
    Conns = {c1, c2, c3}
    NULL = NULL
    ThreadNum = 2
    FreeTotal = 3
    PipeCap = 1
    MaxLines = 1
    NotifyMayFail = FALSE
    InitMayFail = FALSE
    ClientsMayStall = FALSE
    ClientsMayReset = FALSE
SPECIFICATION FairSpec
INVARIANT NoConnStranded
PROPERTY AcceptedIsServed
