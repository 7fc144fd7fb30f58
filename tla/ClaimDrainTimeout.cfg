\* One job, no Redis error, one graceful shutdown.
CONSTANTS
    j1 = j1
    j2 = j2
    Msgs = {1}
    Jobs = {j1}
    NoJob = NoJob
    JobOf <- OwnJobOf
    BadFields = {}
    BadIR = {}
    Trimmable = {}
    RecoverCount = 2
    RedisErrors = {"conn"}
    StartupFaults = TRUE
    MaxFaults = 0
    MaxStarts = 2
SPECIFICATION Spec
PROPERTY TimedOutMessageKept
