CONSTANTS
    TicksPerDay = 2
    DefaultStart = 1
    Draws = {d1}
    DrawDate <- MCDrawDate
    Windows <- MCTwoWindows
    Clients = {c1, c2}
    Entries = {e1, e2, e3}
    MaxCacheEntries = 1
    EmptyCommits = FALSE
    Nil = Nil
SPECIFICATION Spec
SYMMETRY MCSymmetry
INVARIANTS
    CacheFresh
    AnswersFresh
    ListIsCache
    OneLoadUnlessTorn
PROPERTIES
    NoResurrection
    ImplementsReads
