\* The baseline change of spec.md, on one student.
CONSTANTS
    s1 = s1
    s2 = s2
    h0 = h0
    h1 = h1
    NoValues = NoValues
    Students = {s1}
    NumWeeks = 2
    Hours = {h0, h1}
    ZeroHours = h0
    SeedBaselines <- NoRows
    SeedUpdates <- NoRows
    MaxBaselines = 2
    MaxUpdates = 1
    MaxChanges = 6
SPECIFICATION Spec
CHECK_DEADLOCK FALSE
PROPERTIES
    EarlierWeeksKeepTheirHours
