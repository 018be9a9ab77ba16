\* One caller, one endpoint, endpoint_limit 0.
CONSTANTS
    Callers = {c1}
    Endpoints = {e1}
    Window = 4
    DefaultLimit = 1
    DefaultDelay = 1
    EndpointLimits = {0}
    RequestDelays = {1}
    LastCall = 4
    Never = Never
    NoOne = NoOne
    Unset = Unset
SPECIFICATION Spec
INVARIANT ZeroDisables
CHECK_DEADLOCK FALSE
