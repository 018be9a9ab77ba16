\* One device, two days of two clock units, polls two units apart, one
\* event of any kind that loses progress; the lookback reaches back to the
\* first day.
CONSTANTS
    Sites = {s1}
    Devices = {v1}
    DayLen = 2
    MaxDay = 2
    PollInterval = 2
    Lookback = 6
    Faults = {"crash", "power", "lostack", "save", "unreadable"}
    MaxLosses = 1
    MaxMoves = 0
    Healthy = {v1}
    NoKey = NoKey
    NoState = NoState
    NoFile = NoFile
    Torn = Torn
SPECIFICATION Spec
INVARIANTS TypeOk DuplicatesBounded ImportsAccounted WatermarkBacked NoDaySkipped
    ShutdownRemembers
PROPERTIES ProgressKept ExportsSpaced
