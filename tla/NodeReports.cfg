\* One job, two attempts per report, two starts, two failures of the network; no Redis failures here.
CONSTANTS
    Msgs = {1}
    Jobs = {1}
    NoJob = NoJob
    JobOf <- MCJobOf
    BadFields = {}
    BadIR = {}
    Trimmable = {}
    RecoverCount = 2
    RedisErrors = {"conn"}
    StartupFaults = FALSE
    MaxFaults = 0
    MaxStarts = 2
    MaxRetries = 2
    MaxLost = 2
    MaxMissed = 1
SPECIFICATION FairNodeSpec
INVARIANTS
    CompletedIsDelivered
    NoContradictionAtOnce
    ClosedClientIsIdle
PROPERTIES
    ImplementsDelivery
    ImplementsConsumer
    CloudSeesRest
CHECK_DEADLOCK FALSE
