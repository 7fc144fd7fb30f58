\* One job enqueued twice, another job, both kinds of Redis error,
\* one restart.  A consumer task that died with no start left is a real stop.
CONSTANTS
    j1 = j1
    j2 = j2
    Msgs = {1, 2, 3}
    Jobs = {j1, j2}
    NoJob = NoJob
    JobOf <- DupJobOf
    BadFields = {}
    BadIR = {}
    Trimmable = {2}
    RecoverCount = 2
    RedisErrors = {"conn", "other"}
    StartupFaults = TRUE
    MaxFaults = 2
    MaxStarts = 2
SPECIFICATION Spec
INVARIANTS
    TypeOK
    EarlyCancelWins
    NoOtherSilentAck
    SettledNeverRuns
    DeliveredNeverRuns
    RunsOverlapOnlyAfterError
    BusyIsVisible
PROPERTIES
    CancelledIsFinal
    ImplementsJobLifecycle
    CleanDrainCutsNothing
CHECK_DEADLOCK FALSE
