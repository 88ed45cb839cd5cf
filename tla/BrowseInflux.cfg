SPECIFICATION Spec
CONSTANTS
    Callers = {t1, t2}
    Writers = {w1, w2}
    NoWriter = none
    NoEntry = noEntry
    NoReply = noReply
    Free = free
    Sources = {"InfluxDB"}
    Ttl = 2
    LongestBuild = 1
    MaxTime = 1
INVARIANTS
    FailuresAreNotCached
