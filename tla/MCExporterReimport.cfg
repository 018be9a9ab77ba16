\* One device, one day, one crash.
CONSTANTS
    Sites = {s1}
    Devices = {v1}
    DayLen = 1
    MaxDay = 1
    PollInterval = 1
    Lookback = 4
    Faults = {"crash"}
    MaxLosses = 1
    MaxMoves = 0
    Healthy = {v1}
    NoKey = NoKey
    NoState = NoState
    NoFile = NoFile
    Torn = Torn
SPECIFICATION Spec
INVARIANTS NeverReimported
