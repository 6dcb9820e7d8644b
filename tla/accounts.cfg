\* Statements fail, and inserts may be acknowledged before they are applied.
CONSTANTS
    ThreadNum = 2
    Names = {"0000", "ann"}
    Passwds = {"p", "q"}
    Devices = {"0000", ""}
    NONE = NONE
    QueryFailures = TRUE
    DelayedInserts = TRUE
    MaxRows = 2
SPECIFICATION Spec
INVARIANTS TypeOK HandleHasOneUser NamesUnique OkInsertIsStored
PROPERTY ImplementsAccountTable
