\* Two devices, of which v2 may fail for ever, and no loss: calls fail, tokens
\* expire, and the process is shut down and started again.
CONSTANTS
    Sites = {s1}
    Devices = {v1, v2}
    DayLen = 1
    MaxDay = 1
    PollInterval = 1
    Lookback = 4
    Faults = {}
    MaxLosses = 0
    MaxMoves = 0
    Healthy = {v1}
    NoKey = NoKey
    NoState = NoState
    NoFile = NoFile
    Torn = Torn
SPECIFICATION LiveSpec
PROPERTIES ShutdownCompletes EveryDayExported
