\* One job, two consecutive connection errors, no crash.
CONSTANTS
    j1 = j1
    j2 = j2
    Msgs = {1}
    Jobs = {j1}
    NoJob = NoJob
    JobOf <- OwnJobOf
    BadFields = {}
    BadIR = {}
    Trimmable = {}
    RecoverCount = 2
    RedisErrors = {"conn"}
    StartupFaults = FALSE
    MaxFaults = 2
    MaxStarts = 1
SPECIFICATION Spec
INVARIANT OutageNeverSilencesJob
