\* Liveness of the batch path: a job in two messages and a bad circuit in a third, one Redis
\* failure of either kind, and a restart after a crash or a shutdown.
CONSTANTS
    j1 = j1
    j2 = j2
    Msgs = {1, 2, 3}
    Jobs = {j1, j2}
    NoJob = NoJob
    JobOf <- BatchJobOf
    BadFields = {}
    BadIR = {3}
    Trimmable = {}
    RecoverCount = 3
    ReadCount = 3
    ShortResults = TRUE
    RedisErrors = {"conn", "other"}
    StartupFaults = FALSE
    MaxFaults = 1
    MaxStarts = 2
SPECIFICATION FairBatchSpec
PROPERTY BatchEventuallyAcked
