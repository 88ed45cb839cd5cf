SPECIFICATION FairSpec
CONSTANTS
    Callers = {t1, t2}
    Writers = {w1}
    NoWriter = none
    NoEntry = noEntry
    NoReply = noReply
    Free = free
    Sources = {"ADX", "InfluxDB"}
    Ttl <- TwoUnits
    LongestBuild <- TwoUnits
    MaxTime <- ClockLimit
INVARIANTS
    Inv
    AgeIsBounded
    OneClient
    AdxFailuresAreNotCached
PROPERTIES
    EveryBrowseEnds
