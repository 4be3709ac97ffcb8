CONSTANTS
    Instances = {i1, i2}
    Messages = 2
    RequestIds = {a}
    DrainCount = 2
    MaxTroubles = 2
    Nil = Nil
SPECIFICATION Spec
INVARIANTS
    TypeOK
    RunAtMostOnce
    AnswersStand
PROPERTIES
    StopReturns
    RequestsSettle
