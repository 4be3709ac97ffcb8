SPECIFICATION Spec
CONSTANTS
    Requests = {r1, r2}
    MaxStatements = 2
    Nil = Nil
INVARIANTS
    TypeOK
    PoolOutlivesUsers
    CutOffOnlyByDeadline
PROPERTIES
    StopReturns
CHECK_DEADLOCK FALSE
