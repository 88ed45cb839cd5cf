SPECIFICATION Spec
CONSTANTS
    Stations = {ours, other}
    Ours = {ours}
    NoStation = nobody
    Window <- OneMinute
    MaxAge = 9
    Cycle <- OnePause
    LongestCycle <- SlowCycle
    MaxSamples = 3
    Sources = {"ADX", "InfluxDB"}
INVARIANTS
    Inv
    RefiresAreBounded
PROPERTIES
    HighSurvivesFailures
