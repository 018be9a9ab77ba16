\* Two processes that start on one database, two faults.
CONSTANTS
    Procs = {p1, p2}
    Deployments <- AllDeployments
    MaxRows = 1
    MaxFaults = 2
    Nobody = Nobody
    Orphan = Orphan
    Blank = Blank
    Unset = Unset
    Malformed = Malformed
    Spaced = Spaced
    Quoted = Quoted
    Escaped = Escaped
    Trailing = Trailing
    secret = secret
    name = name
    cert = cert
    certKey = certKey
    root = root
    NoDuration = NoDuration
SPECIFICATION FairSpec
INVARIANTS TypeOk RunsOnSchema SchemaAccounted HintNeedsFault ReadBack
PROPERTIES NothingLost StartsInTheEnd
\* A process that polls goes on for ever; here its rows are bounded.
CHECK_DEADLOCK FALSE
