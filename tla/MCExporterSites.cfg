\* One device that moves between two sites and back, answers that leave
\* days out.
CONSTANTS
    Sites = {s1, s2}
    Devices = {v1}
    DayLen = 1
    MaxDay = 2
    PollInterval = 1
    Lookback = 2
    Faults = {"partial"}
    MaxLosses = 0
    MaxMoves = 2
    Healthy = {v1}
    NoKey = NoKey
    NoState = NoState
    NoFile = NoFile
    Torn = Torn
SPECIFICATION Spec
INVARIANTS DuplicatesBounded WatermarkBacked
PROPERTIES ProgressKept
