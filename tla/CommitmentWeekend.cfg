\* One thread and one edit: which weeks the edit window offers on each day.
CONSTANTS
    s1 = s1
    h0 = h0
    h1 = h1
    t1 = t1
    t2 = t2
    NoValues = NoValues
    Students = {s1}
    NumWeeks = 3
    Hours = {h0}
    ZeroHours = h0
    SeedBaselines <- NoRows
    SeedUpdates <- NoRows
    MaxBaselines = 0
    MaxUpdates = 1
    MaxChanges = 8
    Threads = {t1}
    StartDay <- ThreeWeekStarts
    EndDay <- ThreeWeekEnds
    LastDay = 6
    MaxRequests = 1
    MaxResends = 0
SPECIFICATION DeskSpec
CHECK_DEADLOCK FALSE
INVARIANTS
    FutureWeeksFollowTheBaseline
