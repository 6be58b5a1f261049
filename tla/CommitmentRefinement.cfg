\* A seeded student and a new one: submissions, decisions, edits and reversals of
\* both interleave in one change log.
CONSTANTS
    s1 = s1
    s2 = s2
    h0 = h0
    h1 = h1
    NoValues = NoValues
    Students = {s1, s2}
    NumWeeks = 2
    Hours = {h0, h1}
    ZeroHours = h0
    SeedBaselines <- SeededBaselines
    SeedUpdates <- SeededUpdates
    MaxBaselines = 3
    MaxUpdates = 4
    MaxChanges = 5
SPECIFICATION Spec
CHECK_DEADLOCK FALSE
INVARIANTS
    TypeOK
    OneApproved
    EditChain
    LatestApprovalCounts
    HoursAgreeWithLedger
    LogReplaysToTables
PROPERTIES
    ChangesAreLogged
    PendingIsInert
    DecisionsAreFinal
    ReversalRestores
    ImplementsLedger
