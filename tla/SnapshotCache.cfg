\* Readers of snapshots and of the store, a refresh and writers of two tables while the sheet is edited, fails and
\* comes back and the process restarts.
CONSTANTS
    t1 = t1
    t2 = t2
    None = None
    Threads = {t1, t2}
    Kinds = {"read", "commitments", "refresh", "decide", "putWeek"}
    Ttl = 1
    Cooldown = 1
    MaxTime = 1
    MaxRequests = 3
    MaxEdits = 1
    MaxOutages = 1
    MaxRestarts = 1
SPECIFICATION Spec
SYMMETRY ThreadSymmetry
CHECK_DEADLOCK FALSE
INVARIANTS
    TypeOK
    FreshAfterInvalidation
    ConfirmedWritesShow
    AnswersNeverGoBack
    StaleTellsTheTruth
