\* Liveness: a bad circuit, a malformed message, connection errors once the loop is entered, one restart,
\* and a pending list that one trimmed entry can fill.
CONSTANTS
    j1 = j1
    j2 = j2
    Msgs = {1, 2, 3}
    Jobs = {j1, j2}
    NoJob = NoJob
    JobOf <- OwnJobOf
    BadFields = {3}
    BadIR = {2}
    Trimmable = {1}
    RecoverCount = 1
    RedisErrors = {"conn"}
    StartupFaults = FALSE
    MaxFaults = 1
    MaxStarts = 2
SPECIFICATION FairSpec
INVARIANTS
    NoPhantomJob
PROPERTIES
    EventuallyAcked
    ShutdownEnds
