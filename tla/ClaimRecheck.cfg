\* Two jobs in a batch, one connection error, no crash and no shutdown.
CONSTANTS
    j1 = j1
    j2 = j2
    Msgs = {1, 2}
    Jobs = {j1, j2}
    NoJob = NoJob
    JobOf <- BatchJobOf
    BadFields = {}
    BadIR = {}
    Trimmable = {}
    RecoverCount = 2
    ReadCount = 2
    ShortResults = FALSE
    RedisErrors = {"conn"}
    StartupFaults = FALSE
    MaxFaults = 1
    MaxStarts = 1
SPECIFICATION FairBatchSpec
PROPERTY StuckMessagesAreCaught
