\* One thread, one outage, no restart: what a request gets while the sheet is down.
CONSTANTS
    t1 = t1
    t2 = t2
    None = None
    Threads = {t1}
    Kinds = {"read", "decide"}
    Ttl = 1
    Cooldown = 1
    MaxTime = 1
    MaxRequests = 3
    MaxEdits = 0
    MaxOutages = 1
    MaxRestarts = 0
SPECIFICATION Spec
CHECK_DEADLOCK FALSE
INVARIANTS
    LastGoodIsServed
