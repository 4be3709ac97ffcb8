CONSTANTS
    TicksPerDay = 1
    DefaultStart = 1
    Callers = {cron, consumer}
    Cron = cron
    Draws = {1, 2, 3, 4}
    DrawDate <- MCDrawDate
    Eligible = {1, 2, 3, 4}
    Unparsable = {4}
    BatchSize = 2
    MaxPerRun = 2
    MaxFaults = 2
    Nil = Nil
SPECIFICATION Spec
INVARIANTS
    TypeOK
    NothingLeftUntold
    CapOvershoot
PROPERTIES
    ImplementsWriter
    CallsReturn
    BacklogDrains
