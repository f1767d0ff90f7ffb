SPECIFICATION Spec
CONSTANTS
    Tokens = {t1, dev}
    Reqs = {r1, r2}
    DevToken = dev
    ttl = 2
    Delay = 1
    MaxTime = 9
INVARIANTS EntriesExpire
PROPERTY AcceptsRecent
