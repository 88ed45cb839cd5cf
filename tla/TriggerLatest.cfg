SPECIFICATION Spec
CONSTANTS
    Stations = {ours}
    Ours = {ours}
    NoStation = nobody
    Window <- OneMinute
    MaxAge = 9
    Cycle <- OnePause
    LongestCycle <- SlowCycle
    MaxSamples = 2
    Sources = {"ADX"}
INVARIANTS
    LatestValueDecides
