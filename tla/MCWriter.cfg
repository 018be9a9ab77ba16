\* Two callers, three calls, one fault, chunks of two.
CONSTANTS
    Callers = {c1, c2}
    SiteIDs <- TwoSites
    DeviceSNs <- TwoDevices
    Names <- OneName
    Batches <- PollBatches
    BatchSize = 2
    MaxCalls = 3
    MaxFaults = 1
    Blank = Blank
    NoRow = NoRow
    s1 = s1
    s2 = s2
    v1 = v1
    v2 = v2
    n1 = n1
    c1 = c1
    c2 = c2
    c3 = c3
SPECIFICATION FairSpec
INVARIANTS TypeOk ParentsExist LabelsAsReported
PROPERTIES KnownNamesKept ImplementsAtomicWrites RetrySucceeds
\* When the bounded calls are used up nothing is left to do.
CHECK_DEADLOCK FALSE
