\* The three writers of TestConcurrentWrites on an empty database.
CONSTANTS
    Callers = {c1, c2, c3}
    SiteIDs <- TwoSites
    DeviceSNs <- TwoDevices
    Names <- OneName
    Batches <- SameDevice
    BatchSize = 2
    MaxCalls = 3
    MaxFaults = 0
    Blank = Blank
    NoRow = NoRow
    s1 = s1
    s2 = s2
    v1 = v1
    v2 = v2
    n1 = n1
    c1 = c1
    c2 = c2
    c3 = c3
SPECIFICATION Spec
INVARIANT NoWriterFails
\* When the bounded calls are used up nothing is left to do.
CHECK_DEADLOCK FALSE
