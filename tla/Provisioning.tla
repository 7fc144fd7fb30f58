---------------------------- MODULE Provisioning ----------------------------
(***************************************************************************)
(* connect_settings (vpn/service.py) and Settings (server/config.py): how  *)
(* a start of the node obtains credentials, with a one-time token or with  *)
(* the files of an earlier start, brings up OpenVPN and writes the files   *)
(* the next start will need.  A crash may come between any two steps.      *)
(***************************************************************************)
EXTENDS Integers, FiniteSets

CONSTANTS
    Tokens,     \* one-time node tokens; redeeming t issues the key pair t
    Daemons,    \* process ids of OpenVPN daemons
    AutoVpn,    \* node_auto_vpn
    Retries,    \* node_connect_retries
    MaxFaults,  \* bound on failed requests, writes and daemons
    MaxStarts   \* bound on starts of the process

ASSUME ProvisioningAssumption ==
    /\ Tokens \subseteq Nat \ {0} /\ Daemons \subseteq Nat \ {0}
    /\ AutoVpn \in BOOLEAN /\ Retries \in Nat \ {0}
    /\ MaxFaults \in Nat /\ MaxStarts \in Nat

None == 0       \* no token, no key, no process id

VARIABLES
    disk,       \* the key file and the config file
    cfgVpn,     \* vpn_required in the config file
    profile,    \* is there a VPN profile on disk?
    spent,      \* tokens the cloud has redeemed
    liveKey,    \* the key the cloud accepts for this device
    pc,         \* where the starting process is; "up" when it serves
    token, key, kid, vpnReq,    \* fields of Settings
    bundle,     \* the answer of the connect endpoint, once there is one
    attempt,    \* of _post_connect
    file,       \* the file being written by _persist_runtime_config
    ovpn,       \* OpenVPN processes
    pidFile,    \* OPENVPN_PID_PATH
    lost,       \* history: keys given up by a failure the code does not survive
    stray,      \* history: an OpenVPN process was out of the code's sight
    spared,     \* history: live OpenVPN processes that could not be signalled
    faults, starts

diskVars == <<disk, cfgVpn, profile>>
cloudVars == <<spent, liveKey>>
settings == <<token, key, kid, vpnReq>>
procVars == <<pc, settings, bundle, attempt, file>>
vpnVars == <<ovpn, pidFile>>
histVars == <<lost, stray, spared>>
boundVars == <<faults, starts>>
pvars == <<diskVars, cloudVars, procVars, vpnVars, histVars, boundVars>>

Files == {"key", "cfg"}
Writing == {"open", "write", "chmod"}
Connecting == {"ensure", "spawn", "wait", "post", "apply"}

Fault == faults < MaxFaults /\ faults' = faults + 1
Live(d) == ovpn[d] \in {"starting", "up"}
\* detect_tun_interface: a terminating daemon still holds its interface
Tunnel == \E d \in Daemons : ovpn[d] \in {"up", "dying"}

-----------------------------------------------------------------------------
(***************************************************************************)
(* The end of a start.                                                     *)
(***************************************************************************)
\* what the end of the process now gives up for good: a redeemed token whose key
\* is not on disk yet, or a key whose files are being rewritten
AtRisk ==
    IF pc \in Writing \/ (pc \in Connecting /\ token \in spent') THEN {liveKey'} ELSE {}

ProcessGone ==
    /\ pc' = "off" /\ token' = None /\ key' = None /\ kid' = None /\ vpnReq' = TRUE
    /\ bundle' = "none" /\ attempt' = 1 /\ file' = "key"
    /\ lost' = lost \cup AtRisk
    /\ UNCHANGED <<diskVars, starts>>

\* the processes once the one in the pid file has got SIGTERM
Signalled == [d \in Daemons |-> IF d = pidFile /\ Live(d) THEN "dying" ELSE ovpn[d]]

\* kill_openvpn_daemon: the pid file goes, and the process in it gets SIGTERM, or runs
\* on because the file holds no pid or the signal is not permitted
KillOpenvpn ==
    /\ pidFile' = None /\ ovpn' \in {ovpn, Signalled}
    /\ stray' = (stray \/ \E d \in Daemons : d = pidFile /\ ovpn'[d] = "starting")
    /\ spared' = spared \cup {d \in Daemons : d = pidFile /\ ovpn'[d] = "up"}

\* ... and raises if the file cannot be removed, with or without the signal sent
KillRaises ==
    /\ pidFile # None /\ ovpn' \in {ovpn, Signalled}
    /\ UNCHANGED <<pidFile, spared>>

\* an exception leaves connect_settings: the daemon is stopped only when a bundle
\* was being applied for a token
Raise ==
    /\ ProcessGone
    /\ IF bundle # "none" /\ token # None
       THEN KillOpenvpn \/ (KillRaises /\ UNCHANGED stray)
       ELSE UNCHANGED <<vpnVars, stray, spared>>

-----------------------------------------------------------------------------
(***************************************************************************)
(* Settings().                                                             *)
(***************************************************************************)
\* load_persisted_runtime_config and check_jwt_or_node_token accept the files
Loadable == \A f \in Files : disk[f].state = "full" /\ disk[f].secure

\* a token keeps the persisted config out of Settings; without one the files must
\* load, or the start is refused
Start(t) ==
    /\ pc = "off" /\ starts < MaxStarts /\ starts' = starts + 1
    /\ \/ /\ t # None
          /\ token' = t /\ pc' = "post" /\ UNCHANGED <<key, kid, vpnReq>>
       \/ /\ t = None /\ Loadable
          /\ key' = disk["key"].id /\ kid' = disk["cfg"].id /\ vpnReq' = cfgVpn
          /\ pc' = "ensure" /\ UNCHANGED token
       \/ t = None /\ ~Loadable /\ UNCHANGED <<pc, settings>>
    /\ UNCHANGED <<diskVars, cloudVars, bundle, attempt, file, vpnVars, histVars, faults>>

-----------------------------------------------------------------------------
(***************************************************************************)
(* OpenVPN, as ensure_persisted_vpn and apply_node_bundle start it.        *)
(***************************************************************************)
\* Mutant of EnsurePersistedVpn: a daemon is started without a look for a tunnel.
EnsureBlindly ==
    /\ pc = "ensure"
    /\ UNCHANGED <<cloudVars, faults>>
    /\ \/ /\ \/ (AutoVpn => ~profile /\ ~vpnReq) /\ pc' = "post"
             \/ AutoVpn /\ profile /\ pc' = "spawn"
          /\ UNCHANGED <<diskVars, settings, bundle, attempt, file, vpnVars, histVars, starts>>
       \/ AutoVpn /\ ~profile /\ vpnReq /\ Raise

\* nothing to do, or a profile without a tunnel: a daemon is started; a missing profile
\* is an error where a VPN is required
EnsurePersistedVpn ==
    /\ pc = "ensure"
    /\ UNCHANGED <<cloudVars, faults>>
    /\ \/ /\ \/ (AutoVpn => IF profile THEN Tunnel ELSE ~vpnReq) /\ pc' = "post"
             \/ AutoVpn /\ profile /\ ~Tunnel /\ pc' = "spawn"
          /\ UNCHANGED <<diskVars, settings, bundle, attempt, file, vpnVars, histVars, starts>>
       \/ AutoVpn /\ ~profile /\ vpnReq /\ Raise

\* _start_openvpn: the daemon writes its pid file, or it does not start
StartOpenvpn ==
    /\ pc = "spawn" /\ UNCHANGED cloudVars
    /\ \/ /\ \E d \in Daemons : /\ ovpn[d] = "none" /\ pidFile' = d
                                /\ ovpn' = [ovpn EXCEPT ![d] = "starting"]
          /\ pc' = "wait"
          /\ UNCHANGED <<diskVars, settings, bundle, attempt, file, histVars, boundVars>>
       \/ Fault /\ Raise

\* _wait_for_tunnel: an interface appears, or the daemon is stopped at the timeout
WaitForTunnel ==
    /\ pc = "wait"
    /\ UNCHANGED <<cloudVars, faults>>
    /\ \/ /\ Tunnel /\ pc' = IF bundle = "none" THEN "post" ELSE "open"
          /\ UNCHANGED <<diskVars, settings, bundle, attempt, file, vpnVars, histVars, starts>>
       \/ /\ ~Tunnel /\ ProcessGone
          /\ \/ KillOpenvpn
             \/ KillRaises /\ stray' = (stray \/ \E d \in Daemons : ovpn'[d] = "starting")

-----------------------------------------------------------------------------
(***************************************************************************)
(* fetch_node_bundle, fetch_reconnect_bundle and _post_connect.            *)
(***************************************************************************)
\* Mutant of Retry: one attempt too many.
RetryOnceMore ==
    \/ /\ attempt <= Retries /\ attempt' = attempt + 1
       /\ UNCHANGED <<diskVars, pc, settings, bundle, file, vpnVars, histVars, starts>>
    \/ attempt > Retries /\ Raise

\* a request without an answer: the next attempt, or the last one raises
Retry ==
    \/ /\ attempt < Retries /\ attempt' = attempt + 1
       /\ UNCHANGED <<diskVars, pc, settings, bundle, file, vpnVars, histVars, starts>>
    \/ attempt = Retries /\ Raise

\* the cloud's answer: VPN mode, HTTPS mode, or one that apply_node_bundle rejects
Answer ==
    /\ bundle' \in {"vpn", "https", "bad"} /\ pc' = "apply"
    /\ UNCHANGED <<diskVars, settings, attempt, file, vpnVars, histVars, starts>>

\* the request is lost before the cloud sees it
RequestLost == pc = "post" /\ UNCHANGED cloudVars /\ Fault /\ Retry

\* the cloud redeems the token; its answer may be lost
RedeemToken ==
    /\ pc = "post" /\ token \in Tokens \ spent
    /\ spent' = spent \cup {token} /\ liveKey' = token
    /\ \/ Answer /\ UNCHANGED faults
       \/ Fault /\ Retry

\* the cloud checks the JWT against the key it holds for the device
Reconnect ==
    /\ pc = "post" /\ token = None /\ key = liveKey /\ UNCHANGED cloudVars
    /\ \/ Answer /\ UNCHANGED faults
       \/ Fault /\ Retry

\* 401: a token that was redeemed before, or a key that was revoked
Refused ==
    /\ pc = "post" /\ (token \in spent \/ (token = None /\ key # liveKey))
    /\ UNCHANGED <<cloudVars, faults>> /\ Raise

-----------------------------------------------------------------------------
(***************************************************************************)
(* apply_node_bundle and _persist_runtime_config.                          *)
(***************************************************************************)
\* Mutant of TakeCredentials: a key id that is already set is kept.
KeepKeyId ==
    /\ key' = (IF token # None THEN liveKey ELSE key)
    /\ kid' = (IF kid # None THEN kid ELSE liveKey)

\* only the answer to a token carries a private key; both carry the key id
TakeCredentials ==
    /\ key' = (IF token # None THEN liveKey ELSE key)
    /\ kid' = liveKey

ApplyBundle ==
    /\ pc = "apply"
    /\ UNCHANGED <<cloudVars, faults>>
    /\ \/ bundle = "bad" /\ Raise
       \/ /\ bundle # "bad" /\ TakeCredentials /\ vpnReq' = (bundle = "vpn")
          /\ \/ (bundle = "https" \/ ~AutoVpn) /\ pc' = "open" /\ UNCHANGED profile
             \/ /\ bundle = "vpn" /\ AutoVpn /\ profile' = TRUE
                /\ pc' = IF Tunnel THEN "open" ELSE "spawn"
          /\ UNCHANGED <<disk, cfgVpn, token, bundle, attempt, file, vpnVars, histVars, starts>>

PersistUnchanged ==
    UNCHANGED <<profile, cloudVars, settings, bundle, attempt, vpnVars, histVars, starts>>

\* path.write_text truncates, and a new file gets the permissions of the umask ...
OpenFile ==
    /\ pc = "open"
    /\ \/ /\ disk' = [disk EXCEPT ![file] =
                        [state |-> "empty", id |-> None,
                         secure |-> @.state # "absent" /\ @.secure]]
          /\ pc' = "write" /\ UNCHANGED <<cfgVpn, file, faults>> /\ PersistUnchanged
       \/ UNCHANGED cloudVars /\ Fault /\ Raise

\* ... then writes; a full disk leaves the file empty
WriteFile ==
    /\ pc = "write"
    /\ \/ /\ disk' = [disk EXCEPT ![file] = [state |-> "full", secure |-> @.secure,
                                             id |-> IF file = "key" THEN key ELSE kid]]
          /\ cfgVpn' = IF file = "cfg" THEN vpnReq ELSE cfgVpn
          /\ pc' = "chmod" /\ UNCHANGED <<file, faults>> /\ PersistUnchanged
       \/ UNCHANGED cloudVars /\ Fault /\ Raise

\* Mutant of ChmodFile: only the key file is restricted.
ChmodKeyOnly ==
    /\ pc = "chmod"
    /\ disk' = IF file = "key" THEN [disk EXCEPT ![file].secure = TRUE] ELSE disk
    /\ file' = "cfg" /\ pc' = IF file = "key" THEN "open" ELSE "preflight"
    /\ UNCHANGED <<cfgVpn, faults>> /\ PersistUnchanged

\* the key file first, then the config file
ChmodFile ==
    /\ pc = "chmod"
    /\ disk' = [disk EXCEPT ![file] = [state |-> @.state, secure |-> TRUE, id |-> @.id]]
    /\ file' = "cfg" /\ pc' = IF file = "key" THEN "open" ELSE "preflight"
    /\ UNCHANGED <<cfgVpn, faults>> /\ PersistUnchanged

-----------------------------------------------------------------------------
(***************************************************************************)
(* The operator, crashes, and OpenVPN itself (external).                   *)
(***************************************************************************)
\* a crash, or SIGKILL by `coda stop'; a daemon that is still connecting stays
Crash ==
    /\ pc # "off" /\ starts < MaxStarts
    /\ UNCHANGED <<cloudVars, vpnVars, spared, faults>>
    /\ ProcessGone
    /\ stray' = (stray \/ \E d \in Daemons : ovpn[d] = "starting")

\* `coda reset' on a stopped node; where kill_openvpn_daemon raises nothing is removed
Reset ==
    /\ pc = "off" /\ starts < MaxStarts
    /\ \/ /\ KillOpenvpn
          /\ disk' = [f \in Files |-> [state |-> "absent", secure |-> FALSE, id |-> None]]
          /\ profile' = FALSE /\ lost' = lost \cup {liveKey}
       \/ KillRaises /\ UNCHANGED <<disk, profile, lost, stray>>
    /\ UNCHANGED <<cfgVpn, cloudVars, procVars, boundVars>>

\* `coda stop-vpn', at any time
StopVpn ==
    /\ pidFile # None /\ (KillOpenvpn \/ (KillRaises /\ UNCHANGED stray))
    /\ UNCHANGED <<diskVars, cloudVars, procVars, lost, boundVars>>

Become(d, s) == ovpn' = [ovpn EXCEPT ![d] = s]

\* a daemon connects, ends, dies, or loses its peer and connects again
OpenvpnStep ==
    /\ \E d \in Daemons :
          \/ ovpn[d] = "starting" /\ Become(d, "up") /\ UNCHANGED <<stray, faults>>
          \/ ovpn[d] = "dying" /\ Become(d, "none") /\ UNCHANGED <<stray, faults>>
          \/ Live(d) /\ Fault /\ Become(d, "none") /\ UNCHANGED stray
          \/ ovpn[d] = "up" /\ Fault /\ Become(d, "starting") /\ stray' = TRUE
    /\ spared' = {d \in spared : ovpn'[d] # "none"}
    /\ UNCHANGED <<diskVars, cloudVars, procVars, pidFile, lost, starts>>

-----------------------------------------------------------------------------
ProvisioningInit ==
    /\ disk = [f \in Files |-> [state |-> "absent", secure |-> FALSE, id |-> None]]
    /\ cfgVpn = TRUE /\ profile = FALSE
    /\ spent = {} /\ liveKey = None
    /\ pc = "off" /\ token = None /\ key = None /\ kid = None /\ vpnReq = TRUE
    /\ bundle = "none" /\ attempt = 1 /\ file = "key"
    /\ ovpn = [d \in Daemons |-> "none"] /\ pidFile = None
    /\ lost = {} /\ stray = FALSE /\ spared = {} /\ faults = 0 /\ starts = 0

ConnectStep ==
    \/ EnsurePersistedVpn \/ StartOpenvpn \/ WaitForTunnel
    \/ RequestLost \/ RedeemToken \/ Reconnect \/ Refused
    \/ ApplyBundle \/ OpenFile \/ WriteFile \/ ChmodFile

-----------------------------------------------------------------------------
(***************************************************************************)
(* Properties.                                                             *)
(***************************************************************************)
\* The settings, the files and the OpenVPN processes have their types, and a file
\* is written only once a bundle has been applied.
ProvisioningTypeOK ==
    /\ disk \in [Files -> [state : {"absent", "empty", "full"}, secure : BOOLEAN,
                           id : Tokens \cup {None}]]
    /\ cfgVpn \in BOOLEAN /\ profile \in BOOLEAN
    /\ spent \subseteq Tokens /\ liveKey \in spent \cup {None}
    /\ pc \in {"off", "preflight", "up"} \cup Connecting \cup Writing
    /\ token \in Tokens \cup {None} /\ {key, kid} \subseteq Tokens \cup {None}
    /\ vpnReq \in BOOLEAN /\ bundle \in {"none", "vpn", "https", "bad"}
    /\ attempt \in 1 .. Retries /\ file \in Files
    /\ ovpn \in [Daemons -> {"none", "starting", "up", "dying"}]
    /\ pidFile \in Daemons \cup {None}
    /\ lost \subseteq Tokens \cup {None} /\ stray \in BOOLEAN /\ spared \subseteq Daemons
    /\ faults \in 0 .. MaxFaults /\ starts \in 0 .. MaxStarts
    /\ pc \in Writing => bundle \in {"vpn", "https"}

\* Whenever no process runs, the key the cloud accepts can be loaded from the files
\* (config.py:47-116) unless the answer that carried it was lost, or its
\* start failed or crashed before or while the files were written, or it was reset.
SavedUnlessCut ==
    pc = "off" /\ liveKey # None /\ liveKey \notin lost
        => Loadable /\ disk["key"].id = liveKey

\* A node that has connected signs with the key and the key id the cloud has on
\* record, also when a crash left a new key file beside an old config file.
ConnectedWithLiveKey == pc \in Writing \cup {"preflight", "up"} => key = liveKey /\ kid = liveKey

\* At most one OpenVPN process was not told to stop.  It is the one the pid file names,
\* so shutdown, reset and stop-vpn reach it, or one that kill_openvpn_daemon could not
\* signal (service.py:246-248), which is not joined by a second because its tunnel is
\* seen.  The exception is a daemon that was connecting, and so hidden from
\* detect_tun_interface, at a crash, after a drop of its tunnel or when kill_openvpn_daemon
\* failed on it: it runs on beside the next one.
NoOrphanDaemon ==
    stray \/ \A d \in Daemons : Live(d) => /\ pidFile = d \/ d \in spared
                                        /\ \A e \in Daemons : Live(e) => e = d
=============================================================================
