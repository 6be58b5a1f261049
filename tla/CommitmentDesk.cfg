\* Two threads and a term of three weeks with a day between the first two.
CONSTANTS
    s1 = s1
    h0 = h0
    h1 = h1
    t1 = t1
    t2 = t2
    NoValues = NoValues
    Students = {s1}
    NumWeeks = 3
    Hours = {h0, h1}
    ZeroHours = h0
    SeedBaselines <- NoRows
    SeedUpdates <- NoRows
    MaxBaselines = 1
    MaxUpdates = 2
    MaxChanges = 8
    Threads = {t1, t2}
    StartDay <- ThreeWeekStarts
    EndDay <- ThreeWeekEnds
    LastDay = 6
    MaxRequests = 3
    MaxResends = 1
SPECIFICATION DeskSpec
CHECK_DEADLOCK FALSE
SYMMETRY ThreadSymmetry
INVARIANTS
    DeskTypeOK
    EveryDecisionIsLoggedOnce
    DoneIsDone
PROPERTIES
    OlderWeeksAreLocked
    DefaultKeepsEarlierWeeks
