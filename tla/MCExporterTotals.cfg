\* One device, two days, no fault.
CONSTANTS
    Sites = {s1}
    Devices = {v1}
    DayLen = 2
    MaxDay = 2
    PollInterval = 1
    Lookback = 6
    Faults = {}
    MaxLosses = 0
    MaxMoves = 0
    Healthy = {v1}
    NoKey = NoKey
    NoState = NoState
    NoFile = NoFile
    Torn = Torn
SPECIFICATION Spec
INVARIANTS PastDaysHaveTotals
