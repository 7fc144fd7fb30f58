------------------------------ MODULE VPNGuard ------------------------------
(***************************************************************************)
(* VPNGuard (vpn/guard.py): preflight() looks for a tunnel interface, then *)
(* resolves the probe hosts, then probes them, with an await between the   *)
(* stages; watch() repeats it and calls back when readiness changes.  What *)
(* a stage finds is a parameter of its action.                             *)
(***************************************************************************)
VARIABLES
    gstate,     \* _state
    gpc,        \* where preflight is; "sleep" between two checks of watch
    previous,   \* watch's copy of the state before the check
    told        \* history: the last state passed to on_change

guardVars == <<gstate, gpc, previous, told>>

GuardInit == gstate = "BOOTING" /\ gpc = "off" /\ previous = "BOOTING" /\ told = "none"

\* __init__ and the first preflight, which has no callback
BeginPreflight ==
    /\ gpc = "off" /\ gpc' = "iface"
    /\ UNCHANGED <<gstate, previous, told>>

\* watch wakes up
BeginCheck ==
    /\ gpc = "sleep" /\ gpc' = "iface" /\ previous' = gstate
    /\ UNCHANGED <<gstate, told>>

\* Mutant of Conclude: the return to READY is reported only after DEGRADED.
ConcludeAfterDegraded(ok) ==
    /\ gpc' = "sleep"
    /\ \/ ok /\ gstate' = "READY"
          /\ told' = IF previous = "DEGRADED" THEN "READY" ELSE told
       \/ ~ok /\ previous = "READY" /\ gstate' = "DEGRADED" /\ told' = "DEGRADED"
       \/ ~ok /\ previous # "READY" /\ gstate' = "VPN_UNAVAILABLE" /\ UNCHANGED told
    /\ UNCHANGED previous

\* preflight returns ok or not; watch, which runs on without an await, turns the
\* loss of READY into DEGRADED and reports what changed.  previous is BOOTING
\* exactly during the startup preflight.
Conclude(ok) ==
    /\ gpc' = "sleep"
    /\ \/ ok /\ gstate' = "READY"
          /\ told' = IF previous \in {"READY", "BOOTING"} THEN told ELSE "READY"
       \/ ~ok /\ previous = "READY" /\ gstate' = "DEGRADED" /\ told' = "DEGRADED"
       \/ ~ok /\ previous # "READY" /\ gstate' = "VPN_UNAVAILABLE" /\ UNCHANGED told
    /\ UNCHANGED previous

\* Mutant of Stage: the first two stages never end a check.
StagePassesOn(at, fine, required, next) ==
    gpc = at /\ gpc' = next /\ UNCHANGED <<gstate, previous, told>>

\* a stage that finds something wrong ends the check, but only if a VPN is required
Stage(at, fine, required, next) ==
    /\ gpc = at
    /\ \/ (fine \/ ~required) /\ gpc' = next /\ UNCHANGED <<gstate, previous, told>>
       \/ ~fine /\ required /\ Conclude(FALSE)

CheckInterface(tun, required) == Stage("iface", tun, required, "dns")
CheckDns(found, required) == Stage("dns", found, required, "probe")

CheckProbes(answered, required) ==
    /\ gpc = "probe"
    /\ Conclude(answered \/ ~required)

GuardGone == gstate' = "BOOTING" /\ gpc' = "off" /\ previous' = "BOOTING" /\ told' = "none"
=============================================================================
