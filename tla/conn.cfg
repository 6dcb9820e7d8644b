\* Everything that may fail fails; the pipe is full after one byte.
CONSTANTS
    Sfds = {s1, s2}
    Conns = {c1, c2, c3}
    NULL = NULL
    ThreadNum = 2
    FreeTotal = 2
    PipeCap = 1
    MaxLines = 1
    NotifyMayFail = TRUE
    InitMayFail = TRUE
    ClientsMayStall = TRUE
    ClientsMayReset = TRUE
SPECIFICATION Spec
SYMMETRY Symmetry
INVARIANTS TypeOK EveryByteFindsItsConn FreelistInBounds NoConnLeaked SfdHasOneHolder
INVARIANTS ConnHasOneOwner HolderWaitsForNoLock
PROPERTY ImplementsHandoff
CHECK_DEADLOCK FALSE
