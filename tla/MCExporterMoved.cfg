\* One device that moves once; no other fault.
CONSTANTS
    Sites = {s1, s2}
    Devices = {v1}
    DayLen = 1
    MaxDay = 1
    PollInterval = 1
    Lookback = 4
    Faults = {}
    MaxLosses = 0
    MaxMoves = 1
    Healthy = {v1}
    NoKey = NoKey
    NoState = NoState
    NoFile = NoFile
    Torn = Torn
SPECIFICATION Spec
INVARIANTS OneRowPerDeviceAndDay
