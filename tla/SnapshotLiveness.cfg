\* Two threads under fair scheduling; the sheet may stay down for good.
CONSTANTS
    t1 = t1
    t2 = t2
    None = None
    Threads = {t1, t2}
    Kinds = {"refresh", "putWeek"}
    Ttl = 1
    Cooldown = 1
    MaxTime = 1
    MaxRequests = 2
    MaxEdits = 0
    MaxOutages = 1
    MaxRestarts = 1
SPECIFICATION FairSpec
CHECK_DEADLOCK FALSE
PROPERTIES
    EveryRequestIsAnswered
