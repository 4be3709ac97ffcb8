SPECIFICATION Spec
CONSTANTS
    None = None
    TicksPerDay = 1
    DefaultStart = 2
    MaxNumber = 5
    MaxGroupSize = 4
    MaxStrong = 2
    DrawSize = 4
    MaxFormSize = 5
    DefaultPrizes <- MCDefaultPrizes
    DefaultCost = 3
    AllDraws <- MCDraws
    Windows <- MCWindows
    Forms <- MCForms
    PlayedForms <- MCPlayedForms
    Overrides <- MCOverrides
    Costs = {0, 2}
    MaxHowMany = 3
INVARIANTS
    GroupCounts
    BestGroups
    AnalysisExact
    HeatAverages
    BacktestExact
