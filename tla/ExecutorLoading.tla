-------------------------- MODULE ExecutorLoading --------------------------
(***************************************************************************)
(* load_executor (server/executor.py) in one start of the node.  It runs   *)
(* twice: connect_settings announces the topology of its executor to the   *)
(* cloud before the tunnel is up, and the lifespan loads the executor that *)
(* will run the jobs.  An import that failed the first time may succeed    *)
(* the second time.                                                        *)
(***************************************************************************)
EXTENDS Integers, FiniteSets

CONSTANTS
    Packages,       \* installed top-level packages
    EnvPath,        \* the import path in CODA_EXECUTOR_FACTORY
    DevicePath      \* the import path in the device config

Paths == Packages \cup {EnvPath, DevicePath}

\* what a path leads to (external): "hidden" and "bare" packages are not searched or
\* have no executor_factory module, a "poison" package raises when it is imported,
\* "broken" and "flaky" modules fail to import always or sometimes, "data" is
\* not callable, a factory makes "junk" (or raises) or is a "maker" of an executor
Kinds == {"hidden", "bare", "poison", "broken", "flaky", "data", "junk", "maker"}
PathKinds == {"malformed", "broken", "flaky", "data", "junk", "maker", "runner"}
\* the device of an executor: none, directed or logical edges, or neither attribute
Devices == {"none", "directed", "logical", "neither"}

VARIABLES
    kind,               \* of every path
    device,             \* of the executor behind every path
    env, deviceFile,    \* where a factory is configured
    executor_factory,   \* of Settings; "" when there is none
    cached,             \* flaky modules that are in sys.modules
    lpc,                \* "settings", "connect", "scan", "found", "vpn", "up" or "failed"
    phase,              \* the caller: "connect" or "start"
    todo, discovered,   \* locals of _discover_executor_factories
    offered, reported,  \* connectivity in the connect payload and in the heartbeats
    runner              \* the executor of the consumer

envVars == <<kind, device, env, deviceFile>>
scanVars == <<todo, discovered>>
lvars == <<envVars, executor_factory, cached, lpc, phase, scanVars, offered, reported, runner>>

NoPath == ""
NoTopology == <<>>      \* no connectivity
Noop == "noop"
Nobody == "nobody"

\* a path is not empty, and is told from the NoopExecutor
ASSUME LoaderAssumption == IsFiniteSet(Packages) /\ NoPath \notin Paths /\ Noop \notin Paths

-----------------------------------------------------------------------------
(***************************************************************************)
(* Settings and the device.                                                *)
(***************************************************************************)
\* _load_executor_factory_from_device_config: a file that cannot be read, or has no
\* such top-level key, names no factory
DeviceConfigFactory == IF deviceFile = "names" THEN DevicePath ELSE NoPath

\* Mutant of ResolveSettings: the device config takes precedence.
DeviceConfigWins ==
    /\ lpc = "settings"
    /\ executor_factory' = IF DeviceConfigFactory # NoPath THEN DeviceConfigFactory ELSE env
    /\ lpc' = "connect"
    /\ UNCHANGED <<envVars, cached, phase, scanVars, offered, reported, runner>>

\* the validators of Settings: the device config is read only when the environment
\* sets no factory
ResolveSettings ==
    /\ lpc = "settings"
    /\ executor_factory' = IF env # NoPath THEN env ELSE DeviceConfigFactory
    /\ lpc' = "connect"
    /\ UNCHANGED <<envVars, cached, phase, scanVars, offered, reported, runner>>

\* resolve_connectivity_from_device_spec; "neither" raises AttributeError
HasTopology(r) == r # Noop /\ device[r] \in {"directed", "logical"}
Topology(r) == IF HasTopology(r) THEN <<r, device[r]>> ELSE NoTopology
TopologyRaises(r) == r # Noop /\ device[r] = "neither"

-----------------------------------------------------------------------------
(***************************************************************************)
(* How load_executor ends, for either caller.                              *)
(***************************************************************************)
\* _connectivity_payload_for_connect turns every exception into no connectivity;
\* in the lifespan an exception ends the start
LoadRaises ==
    /\ \/ phase = "connect" /\ lpc' = "vpn"
       \/ phase = "start" /\ lpc' = "failed"
    /\ UNCHANGED <<offered, reported, runner>>

LoadReturns(r) ==
    \/ TopologyRaises(r) /\ LoadRaises
    \/ /\ ~TopologyRaises(r)
       /\ \/ /\ phase = "connect" /\ lpc' = "vpn"
             /\ offered' = Topology(r) /\ UNCHANGED <<reported, runner>>
          \/ /\ phase = "start" /\ lpc' = "up"
             /\ reported' = Topology(r) /\ runner' = r /\ UNCHANGED offered

\* _instantiate_factory: an executor object is used as it is, a factory is called;
\* anything else, and a path without module or attribute, raises
InstantiateFactory(p) ==
    \/ kind[p] \in {"runner", "maker", "flaky"} /\ LoadReturns(p)
    \/ kind[p] \notin {"runner", "maker"} /\ p \notin cached /\ LoadRaises

-----------------------------------------------------------------------------
(***************************************************************************)
(* load_executor.                                                          *)
(***************************************************************************)
\* a configured factory is the only one tried; without one the packages are scanned
BeginLoad ==
    /\ lpc = "connect"
    /\ \/ executor_factory # NoPath /\ InstantiateFactory(executor_factory)
          /\ UNCHANGED scanVars
       \/ executor_factory = NoPath /\ lpc' = "scan" /\ todo' = Packages /\ discovered' = {}
          /\ UNCHANGED <<offered, reported, runner>>
    /\ UNCHANGED <<envVars, executor_factory, cached, phase>>

\* an import that succeeded stays in sys.modules
ImportSucceeds(p) == kind[p] = "flaky" /\ cached' = cached \cup {p}
ImportFails(p) == kind[p] = "flaky" /\ p \notin cached /\ UNCHANGED cached

\* one package of _discover_executor_factories
ScanPackage(p) ==
    /\ lpc = "scan" /\ p \in todo
    /\ \/ \* skipped, or no callable create_executor
          /\ \/ kind[p] \in {"hidden", "bare", "broken", "data"} /\ UNCHANGED cached
             \/ ImportFails(p)
          /\ todo' = todo \ {p}
          /\ UNCHANGED <<lpc, discovered, offered, reported, runner>>
       \/ \* a candidate
          /\ \/ kind[p] \in {"junk", "maker"} /\ UNCHANGED cached
             \/ ImportSucceeds(p)
          /\ discovered' = discovered \cup {p} /\ todo' = todo \ {p}
          /\ UNCHANGED <<lpc, offered, reported, runner>>
       \/ \* find_spec imports the package itself: only ModuleNotFoundError and
          \* ValueError are caught
          kind[p] = "poison" /\ LoadRaises /\ UNCHANGED <<cached, scanVars>>
    /\ UNCHANGED <<envVars, executor_factory, phase>>

\* Mutant of Decide: one of several candidates is used.
DecideForOne ==
    /\ lpc = "scan" /\ todo = {}
    /\ \/ \E p \in discovered : InstantiateFactory(p)
       \/ discovered = {} /\ LoadReturns(Noop)
    /\ UNCHANGED <<envVars, executor_factory, cached, phase, scanVars>>

\* exactly one candidate is used; none or several leave the NoopExecutor
Decide ==
    /\ lpc = "scan" /\ todo = {}
    /\ \/ Cardinality(discovered) = 1 /\ \E p \in discovered : InstantiateFactory(p)
       \/ Cardinality(discovered) # 1 /\ LoadReturns(Noop)
    /\ UNCHANGED <<envVars, executor_factory, cached, phase, scanVars>>

\* the rest of connect_settings and the preflight, then the second load
NextLoad ==
    /\ lpc = "vpn" /\ lpc' = "connect" /\ phase' = "start" /\ todo' = {} /\ discovered' = {}
    /\ UNCHANGED <<envVars, executor_factory, cached, offered, reported, runner>>

\* the paths load_executor can come to look at; the others are all alike
Looked ==
    IF env # NoPath THEN {EnvPath} ELSE IF deviceFile = "names" THEN {DevicePath} ELSE Packages

LoaderInit ==
    /\ env \in {NoPath, EnvPath} /\ deviceFile \in {"absent", "unreadable", "silent", "names"}
    /\ \E k \in [Looked -> IF Looked = Packages THEN Kinds ELSE PathKinds] :
          kind = [p \in Paths |-> IF p \in Looked THEN k[p] ELSE "maker"]
    /\ \E d \in [Looked -> Devices] :
          device = [p \in Paths |-> IF p \in Looked THEN d[p] ELSE "none"]
    /\ executor_factory = NoPath /\ cached = {} /\ lpc = "settings" /\ phase = "connect"
    /\ todo = {} /\ discovered = {}
    /\ offered = NoTopology /\ reported = NoTopology /\ runner = Nobody

LoaderNext ==
    \/ ResolveSettings \/ BeginLoad \/ Decide \/ NextLoad
    \/ \E p \in Packages : ScanPackage(p)

LoaderSpec == LoaderInit /\ [][LoaderNext]_lvars

-----------------------------------------------------------------------------
(***************************************************************************)
(* Properties.                                                             *)
(***************************************************************************)
\* the packages that offer a factory, now
Offering == {p \in Packages : kind[p] \in {"junk", "maker"} \/ p \in cached}

\* A serving node runs the backend that the documented order of sources names:
\* environment, device config, the only package that offers a factory, and the
\* NoopExecutor only when nothing is configured and no or several packages offer
\* one (executor.py:7-18).
ResolutionOrder ==
    lpc = "up" =>
        runner = IF env # NoPath THEN env
                 ELSE IF deviceFile = "names" THEN DevicePath
                 ELSE IF Cardinality(Offering) = 1 THEN CHOOSE p \in Offering : TRUE
                 ELSE Noop

\* The topology the cloud validated at the handshake is the one the heartbeats
\* report, whenever both have one: a backend that only became importable in
\* between never replaces another one (service.py:378, app.py:84-87).
TopologyAgrees == offered # NoTopology /\ reported # NoTopology => offered = reported
=============================================================================
