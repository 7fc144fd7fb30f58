--------------------------- MODULE NodeLifecycle ---------------------------
(***************************************************************************)
(* The lifespan of server/app.py around the consumer: provisioning, the    *)
(* VPN preflight, the watch task, shutdown, and the VPN half of /ready.    *)
(***************************************************************************)
EXTENDS Provisioning, VPNGuard

CONSTANT AllowDegraded      \* allow_degraded_startup

ASSUME LifecycleAssumption == AllowDegraded \in BOOLEAN

VARIABLE reachable          \* do the probe targets resolve and answer?

nvars == <<pvars, guardVars, reachable>>

\* connect_settings has returned: the guard is created and its preflight begins
Preflight ==
    /\ pc = "preflight" /\ BeginPreflight
    /\ UNCHANGED <<pvars, reachable>>

\* a stage of the startup preflight, or of a check of the watch task
GuardStage ==
    /\ pc \in {"preflight", "up"}
    /\ \/ CheckInterface(Tunnel, vpnReq)
       \/ CheckDns(reachable, vpnReq)
       \/ CheckProbes(reachable, vpnReq)
    /\ UNCHANGED <<pvars, reachable>>

\* the startup preflight has passed, or may fail: the tasks start and the node serves
Serve ==
    /\ pc = "preflight" /\ gpc = "sleep"
    /\ gstate = "READY" \/ AllowDegraded
    /\ pc' = "up"
    /\ UNCHANGED <<diskVars, cloudVars, settings, bundle, attempt, file, vpnVars, histVars,
                   boundVars, guardVars, reachable>>

\* the preflight has failed, or load_executor raises: the tunnel is left as it is
StartupFails ==
    /\ pc = "preflight" /\ gpc = "sleep"
    /\ \/ gstate # "READY" /\ ~AllowDegraded /\ UNCHANGED faults
       \/ (gstate = "READY" \/ AllowDegraded) /\ Fault
    /\ UNCHANGED <<cloudVars, vpnVars, stray, spared, reachable>> /\ ProcessGone /\ GuardGone

Watch ==
    /\ pc = "up" /\ BeginCheck
    /\ UNCHANGED <<pvars, reachable>>

\* the lifespan ends: the watch task is cancelled, then OpenVPN is stopped, unless
\* awaiting the consumer task raises before that
Shutdown ==
    /\ pc = "up" /\ starts < MaxStarts
    /\ UNCHANGED <<cloudVars, reachable>>
    /\ \/ KillOpenvpn /\ UNCHANGED faults
       \/ KillRaises /\ UNCHANGED <<stray, faults>>
       \/ Fault /\ UNCHANGED <<vpnVars, stray, spared>>
    /\ ProcessGone /\ GuardGone

\* the network between the node and the cloud (external)
NetworkChanges ==
    /\ reachable' = ~reachable /\ (reachable => Fault) /\ (~reachable => UNCHANGED faults)
    /\ UNCHANGED <<diskVars, cloudVars, procVars, vpnVars, histVars, starts, guardVars>>

Init == ProvisioningInit /\ GuardInit /\ reachable = TRUE

Next ==
    \/ (\E t \in Tokens \cup {None} : Start(t)) /\ UNCHANGED <<guardVars, reachable>>
    \/ ConnectStep /\ UNCHANGED <<guardVars, reachable>>
    \/ Preflight \/ GuardStage \/ Serve \/ StartupFails \/ Watch \/ Shutdown
    \/ Crash /\ GuardGone /\ UNCHANGED reachable
    \/ (Reset \/ StopVpn \/ OpenvpnStep) /\ UNCHANGED <<guardVars, reachable>>
    \/ NetworkChanges

\* the event loop keeps running the watch task
Fairness == WF_nvars(Watch \/ GuardStage)

Spec == Init /\ [][Next]_nvars
FairSpec == Spec /\ Fairness

-----------------------------------------------------------------------------
(***************************************************************************)
(* Properties.                                                             *)
(***************************************************************************)
\* The types of both components; READY, DEGRADED and VPN_UNAVAILABLE only once a
\* preflight has been made.
LifecycleTypeOK ==
    /\ ProvisioningTypeOK
    /\ gstate \in {"BOOTING", "READY", "VPN_UNAVAILABLE", "DEGRADED"}
    /\ previous \in {"BOOTING", "READY", "VPN_UNAVAILABLE", "DEGRADED"}
    /\ gpc \in {"off", "iface", "dns", "probe", "sleep"}
    /\ told \in {"none", "READY", "DEGRADED"} /\ reachable \in BOOLEAN
    /\ pc = "up" => gstate # "BOOTING" /\ gpc # "off"

\* An observer that only follows on_change knows whether the node is ready, whatever
\* mixture of failures the checks have seen; a node that never called back is ready
\* unless a degraded start is allowed.
CallbacksTrackReadiness ==
    pc = "up" => IF told = "none" THEN gstate = "READY" \/ AllowDegraded
                                  ELSE told = "READY" <=> gstate = "READY"

\* A serving node whose tunnel or probe targets are gone for good stops being ready,
\* and becomes ready again when both are back for good (guard.py:385-397).
ReadinessFollowsNetwork ==
    LET Good == Tunnel /\ reachable IN
    /\ []<>(pc # "up" \/ ~vpnReq \/ Good \/ gstate # "READY")
    /\ []<>(pc # "up" \/ ~Good \/ gstate = "READY")
=============================================================================
