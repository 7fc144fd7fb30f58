\* Two tokens, three starts, two OpenVPN processes, two faults of any kind.
CONSTANTS
    Tokens = {1, 2}
    Daemons = {1, 2}
    AutoVpn = TRUE
    Retries = 2
    MaxFaults = 2
    MaxStarts = 3
    AllowDegraded = FALSE
SPECIFICATION FairSpec
INVARIANTS
    LifecycleTypeOK
    SavedUnlessCut
    ConnectedWithLiveKey
    NoOrphanDaemon
    CallbacksTrackReadiness
PROPERTY ReadinessFollowsNetwork
CHECK_DEADLOCK FALSE
