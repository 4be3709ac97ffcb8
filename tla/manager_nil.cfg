CONSTANTS
    TicksPerDay = 2
    DefaultStart = 1
    Draws = {d1}
    DrawDate <- MCDrawDate
    Windows <- MCTwoWindows
    Clients = {c1, c2}
    Entries = {e1, e2}
    MaxCacheEntries = 1
    EmptyCommits = TRUE
    Nil = Nil
SPECIFICATION Spec
SYMMETRY MCSymmetry
INVARIANTS
    NeverNilArchive
