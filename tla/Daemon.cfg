\* Two operators, two pids, three commands in all: a start, a stop and a second start, in
\* sequence or overlapping, with every mishap and a recycled pid.  Afterwards it may be quiet.
CONSTANTS
    c1 = c1
    c2 = c2
    p1 = p1
    p2 = p2
    Clis = {c1, c2}
    Pids = {p1, p2}
    NoPid = NoPid
    MaxCommands = 3
SPECIFICATION FairSpec
INVARIANTS
    DaemonTypeOK
    OneConsumer
    NodeIsNamed
    OnlyStaleFileHits
PROPERTY CommandsEnd
CHECK_DEADLOCK FALSE
