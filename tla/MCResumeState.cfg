\* One key and two instants: the map has five values.
CONSTANTS
    Keys = {k1}
    Times <- MCTimes
    ZeroTime = 0
    NoState = NoState
    NoFile = NoFile
    Torn = Torn
    PowerLoss = TRUE
SPECIFICATION Spec
INVARIANT TypeOk
PROPERTIES TornOnlyByPowerLoss FlushedStateSurvives ImplementsDurableState
