\* A job in two messages and a job whose circuit does not parse in a third, one Redis
\* failure of either kind, one restart.  A consumer task that died at startup with no start
\* left is a real stop: no deadlock check.
CONSTANTS
    j1 = j1
    j2 = j2
    Msgs = {1, 2, 3}
    Jobs = {j1, j2}
    NoJob = NoJob
    JobOf <- BatchJobOf
    BadFields = {}
    BadIR = {3}
    Trimmable = {}
    RecoverCount = 3
    ReadCount = 2
    ShortResults = TRUE
    RedisErrors = {"conn", "other"}
    StartupFaults = TRUE
    MaxFaults = 1
    MaxStarts = 2
SPECIFICATION BatchSpec
INVARIANTS
    BatchTypeOK
    BatchEarlyCancelWins
    BatchNoOtherSilentAck
    HardwareWaitsForDelivery
PROPERTIES
    CleanDrainDeliversAll
    BatchImplementsJobLifecycle
CHECK_DEADLOCK FALSE
