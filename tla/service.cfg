CONSTANTS
    TicksPerDay = 2
    DefaultStart = 1
    Draws = {d1}
    DrawDate <- MCDrawDate
    Windows <- MCWindows
    Clients = {c1, c2}
    Entries = {e1, e2}
    MaxCacheEntries = 1
    EmptyCommits = FALSE
    Nil = Nil
SPECIFICATION ServiceSpec
SYMMETRY MCSymmetry
INVARIANTS
    AnswersWhatWasAsked
    
