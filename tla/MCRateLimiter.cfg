\* Two callers, two endpoints, a window of three units, limits of one and, by
\* default, two; delays of two and, by default, one.
CONSTANTS
    Callers = {c1, c2}
    Endpoints = {e1, e2}
    Window = 3
    DefaultLimit = 2
    DefaultDelay = 1
    EndpointLimits <- MCEndpointLimits
    RequestDelays <- MCRequestDelays
    LastCall = 4
    Never = Never
    NoOne = NoOne
    Unset = Unset
SPECIFICATION FairSpec
INVARIANTS TypeOk WindowRespected Admission HistoryBounded NoNeedlessWait
PROPERTIES ImplementsSlidingWindow EveryWaitEnds
CHECK_DEADLOCK FALSE
