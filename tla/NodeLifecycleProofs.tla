------------------------ MODULE NodeLifecycleProofs ------------------------
(***************************************************************************)
(* What a start, a crash, a reset and the guard leave behind, for any      *)
(* number of tokens, OpenVPN processes, retries, faults and starts.        *)
(***************************************************************************)
EXTENDS NodeLifecycle, TLAPS

\* What is in hand at each point of connect_settings: nothing is left of an earlier
\* start, a bundle is there from the answer on, and the key file is written first.
Stages ==
    /\ pc = "off" => token = None
    /\ pc \in {"off", "ensure", "post"} => bundle = "none"
    /\ pc = "ensure" => token = None
    /\ pc \in {"spawn", "wait"} => bundle \in {"none", "vpn", "https"}
    /\ pc \in {"spawn", "wait"} /\ bundle = "none" => token = None
    /\ pc = "apply" => bundle # "none"
    /\ pc \in {"off"} \cup Connecting => file = "key"

\* gstate is BOOTING until a preflight has ended, and there is a guard only from the
\* preflight on.
GuardStages ==
    /\ pc \notin {"preflight", "up"} => gpc = "off"
    /\ gpc = "off" => gstate = "BOOTING" /\ previous = "BOOTING" /\ told = "none"
    /\ pc = "preflight" => told = "none" /\ previous = "BOOTING"
    /\ gpc = "sleep" => gstate # "BOOTING"
    /\ pc = "up" /\ gpc # "sleep" => previous = gstate

Types == LifecycleTypeOK /\ Stages /\ GuardStages

\* The credentials in memory: what the cloud's last answer fixed stays the live key
\* while the answer is applied, written down and used.
Credentials ==
    /\ ConnectedWithLiveKey
    /\ pc = "apply" => IF token = None THEN key = liveKey ELSE token \in spent /\ token = liveKey
    /\ pc \in {"spawn", "wait"} /\ bundle # "none" => key = liveKey /\ kid = liveKey

\* The credentials on disk: unless the process now holds the only copy of the live
\* key, or the key was given up, the files hold it; and once the key file is done
\* only the config file is outstanding.
Saved == Loadable /\ disk["key"].id = liveKey
OnlyInMemory == pc \in Writing \/ (pc \in Connecting /\ token \in spent)
DiskInv ==
    /\ liveKey # None /\ liveKey \notin lost /\ ~OnlyInMemory => Saved
    /\ pc \in Writing /\ file = "cfg"
       => disk["key"].state = "full" /\ disk["key"].secure /\ disk["key"].id = liveKey
    /\ pc = "chmod" => disk[file].state = "full"
    /\ pc = "chmod" /\ file = "key" => disk["key"].id = liveKey

\* Unless a daemon was hidden from detect_tun_interface, one that is connecting is
\* being waited for, and none is left when another is started, not even one that
\* could not be signalled: its tunnel was seen.
DaemonInv ==
    stray \/ /\ \A d \in Daemons : Live(d) => pidFile = d \/ d \in spared
             /\ \A d \in spared : ovpn[d] = "up" /\ pidFile # d
             /\ \A d \in Daemons : ovpn[d] = "starting" => pc = "wait"
             /\ pc = "spawn" => \A d \in Daemons : ovpn[d] = "none"
             /\ \A d, e \in Daemons : ovpn[d] # "none" /\ ovpn[e] # "none" => d = e

-----------------------------------------------------------------------------
\* kill_openvpn_daemon leaves every daemon in a known state, also where it raises.
LEMMA KillTypes ==
    ASSUME ProvisioningTypeOK, KillOpenvpn \/ KillRaises
    PROVE  /\ ovpn' \in [Daemons -> {"none", "starting", "up", "dying"}]
           /\ pidFile' \in Daemons \cup {None}
           /\ spared' \subseteq Daemons
           /\ KillOpenvpn => stray' \in BOOLEAN
  <1>1. Signalled \in [Daemons -> {"none", "starting", "up", "dying"}]
    BY DEF ProvisioningTypeOK, Signalled
  <1> QED
    BY <1>1 DEF ProvisioningTypeOK, KillOpenvpn, KillRaises

\* The end of a process, however it comes, leaves the state of a node that is off.
LEMMA GoneTypes ==
    ASSUME Types, ProcessGone, reachable' \in BOOLEAN,
           gstate' = "BOOTING", gpc' = "off", previous' = "BOOTING", told' = "none",
           spent' \subseteq Tokens, liveKey' \in spent' \cup {None},
           ovpn' \in [Daemons -> {"none", "starting", "up", "dying"}],
           pidFile' \in Daemons \cup {None},
           stray' \in BOOLEAN, spared' \subseteq Daemons, faults' \in 0 .. MaxFaults
    PROVE  Types'
  <1>1. AtRisk \subseteq Tokens \cup {None}
    BY DEF AtRisk
  <1>2. lost' \subseteq Tokens \cup {None}
    BY <1>1 DEF ProcessGone, Types, LifecycleTypeOK, ProvisioningTypeOK
  <1> QED
    BY <1>2, ProvisioningAssumption
    DEF Types, LifecycleTypeOK, ProvisioningTypeOK, Stages, GuardStages, Files, Writing,
        Connecting, None, ProcessGone, diskVars

\* An exception that leaves connect_settings ends the process.
LEMMA RaiseTypes ==
    ASSUME Types, Raise, UNCHANGED <<guardVars, reachable>>, pc \notin {"preflight", "up"},
           spent' \subseteq Tokens, liveKey' \in spent' \cup {None},
           faults' \in 0 .. MaxFaults
    PROVE  Types'
  <1>1. ProcessGone
    BY DEF Raise
  <1>2. /\ ovpn' \in [Daemons -> {"none", "starting", "up", "dying"}]
        /\ pidFile' \in Daemons \cup {None}
        /\ spared' \subseteq Daemons
        /\ stray' \in BOOLEAN
    BY KillTypes DEF Raise, vpnVars, Types, LifecycleTypeOK, ProvisioningTypeOK
  <1>3. /\ gstate' = "BOOTING" /\ gpc' = "off" /\ previous' = "BOOTING" /\ told' = "none"
        /\ reachable' \in BOOLEAN
    BY DEF Types, GuardStages, guardVars, LifecycleTypeOK
  <1> QED
    BY <1>1, <1>2, <1>3, GoneTypes

\* Before the preflight there is no guard, and connecting does not touch it.
LEMMA NoGuardYet ==
    ASSUME Types, UNCHANGED <<guardVars, reachable>>, pc \notin {"preflight", "up"},
           pc' # "up", ProvisioningTypeOK', Stages'
    PROVE  Types'
  <1>1. UNCHANGED <<gstate, previous, gpc, told, reachable>>
    BY DEF guardVars
  <1>2. gpc = "off" /\ gstate = "BOOTING" /\ previous = "BOOTING" /\ told = "none"
    BY DEF Types, GuardStages
  <1>3. GuardStages'
    BY <1>1, <1>2 DEF GuardStages
  <1>4. LifecycleTypeOK'
    BY <1>1 DEF Types, LifecycleTypeOK
  <1> QED BY <1>3, <1>4 DEF Types

\* ensure_persisted_vpn_connection goes on to the request or to a daemon.
LEMMA EnsureTypes ==
    ASSUME Types, EnsurePersistedVpn, ~Raise, UNCHANGED <<guardVars, reachable>>
    PROVE  Types'
  <1>1. /\ pc = "ensure" /\ pc' \in {"post", "spawn"}
        /\ UNCHANGED <<cloudVars, faults, diskVars, settings, bundle, attempt, file, vpnVars,
                      histVars, starts>>
    BY DEF EnsurePersistedVpn
  <1>2. ProvisioningTypeOK'
    BY <1>1 DEF Types, LifecycleTypeOK, ProvisioningTypeOK, cloudVars, diskVars, settings,
       vpnVars, histVars, Connecting, Writing, Files
  <1>3. Stages'
    BY <1>1 DEF Types, Stages, settings, Connecting
  <1> QED BY <1>1, <1>2, <1>3, NoGuardYet

\* _start_openvpn leaves a daemon that is connecting.
LEMMA SpawnTypes ==
    ASSUME Types, StartOpenvpn, ~Raise, UNCHANGED <<guardVars, reachable>>
    PROVE  Types'
  <1>1. PICK d \in Daemons : pidFile' = d /\ ovpn' = [ovpn EXCEPT ![d] = "starting"]
    BY DEF StartOpenvpn
  <1>2. /\ pc = "spawn" /\ pc' = "wait"
        /\ UNCHANGED <<cloudVars, diskVars, settings, bundle, attempt, file, histVars, boundVars>>
    BY DEF StartOpenvpn
  <1>3. /\ ovpn' \in [Daemons -> {"none", "starting", "up", "dying"}]
        /\ pidFile' \in Daemons \cup {None}
    BY <1>1 DEF Types, LifecycleTypeOK, ProvisioningTypeOK
  <1>4. ProvisioningTypeOK'
    BY <1>2, <1>3 DEF Types, LifecycleTypeOK, ProvisioningTypeOK, cloudVars, diskVars, settings,
       histVars, boundVars, Connecting, Writing, Files
  <1>5. Stages'
    BY <1>2 DEF Types, Stages, settings, Connecting
  <1> QED BY <1>2, <1>4, <1>5, NoGuardYet

\* _wait_for_tunnel goes on with the request or with the files.
LEMMA TunnelTypes ==
    ASSUME Types, WaitForTunnel, ~ProcessGone, UNCHANGED <<guardVars, reachable>>
    PROVE  Types'
  <1>1. /\ pc = "wait" /\ pc' = IF bundle = "none" THEN "post" ELSE "open"
        /\ UNCHANGED <<cloudVars, faults, diskVars, settings, bundle, attempt, file, vpnVars,
                      histVars, starts>>
    BY DEF WaitForTunnel
  <1>2. ProvisioningTypeOK'
    BY <1>1 DEF Types, LifecycleTypeOK, ProvisioningTypeOK, Stages, cloudVars, diskVars, settings,
       vpnVars, histVars, Connecting, Writing, Files
  <1>3. Stages'
    BY <1>1 DEF Types, Stages, settings, Connecting
  <1> QED BY <1>1, <1>2, <1>3, NoGuardYet

\* A request is answered, or it is tried again.
LEMMA RequestTypes ==
    ASSUME Types, pc = "post", UNCHANGED <<guardVars, reachable>>,
           spent' \subseteq Tokens, liveKey' \in spent' \cup {None}, faults' \in 0 .. MaxFaults,
           Answer \/ (Retry /\ ~Raise)
    PROVE  Types'
  <1>1. /\ pc' \in {"post", "apply"} /\ bundle' \in {"none", "vpn", "https", "bad"}
        /\ pc' = "post" => bundle' = bundle
        /\ pc' = "apply" => bundle' # "none"
        /\ UNCHANGED <<diskVars, settings, file, vpnVars, histVars, starts>>
    BY DEF Answer, Retry, Types, LifecycleTypeOK, ProvisioningTypeOK
  <1>2. attempt' \in 1 .. Retries
    BY ProvisioningAssumption DEF Answer, Retry, Types, LifecycleTypeOK, ProvisioningTypeOK
  <1>3. ProvisioningTypeOK'
    BY <1>1, <1>2 DEF Types, LifecycleTypeOK, ProvisioningTypeOK, diskVars, settings, vpnVars,
       histVars, Connecting, Writing, Files
  <1>4. Stages'
    BY <1>1 DEF Types, Stages, settings, Connecting
  <1> QED BY <1>1, <1>3, <1>4, NoGuardYet

\* apply_node_bundle takes the credentials of a bundle it accepts.
LEMMA ApplyTypes ==
    ASSUME Types, ApplyBundle, ~Raise, UNCHANGED <<guardVars, reachable>>
    PROVE  Types'
  <1>1. /\ pc = "apply" /\ pc' \in {"open", "spawn"} /\ bundle # "bad" /\ bundle # "none"
        /\ UNCHANGED <<cloudVars, faults, disk, cfgVpn, token, bundle, attempt, file, vpnVars,
                      histVars, starts>>
    BY DEF ApplyBundle, Types, Stages
  <1>2. profile' \in BOOLEAN /\ vpnReq' \in BOOLEAN
    BY DEF ApplyBundle, Types, LifecycleTypeOK, ProvisioningTypeOK
  <1>3. {key', kid'} \subseteq Tokens \cup {None}
    BY DEF ApplyBundle, TakeCredentials, Types, LifecycleTypeOK, ProvisioningTypeOK
  <1>4. ProvisioningTypeOK'
    BY <1>1, <1>2, <1>3 DEF Types, LifecycleTypeOK, ProvisioningTypeOK, cloudVars, vpnVars,
       histVars, Connecting, Writing, Files
  <1>5. Stages'
    BY <1>1 DEF Types, LifecycleTypeOK, ProvisioningTypeOK, Stages, Connecting
  <1> QED BY <1>1, <1>4, <1>5, NoGuardYet

\* A step of the writing of a file that leaves a file of the right kind behind.
LEMMA FileTypes ==
    ASSUME Types, UNCHANGED <<guardVars, reachable>>, PersistUnchanged,
           pc \in {"open", "write"}, pc' \in {"write", "chmod"}, UNCHANGED <<file, faults>>,
           cfgVpn' \in BOOLEAN,
           NEW c \in [state : {"absent", "empty", "full"}, secure : BOOLEAN,
                      id : Tokens \cup {None}],
           disk' = [disk EXCEPT ![file] = c]
    PROVE  Types'
  <1>1. disk' \in [Files -> [state : {"absent", "empty", "full"}, secure : BOOLEAN,
                             id : Tokens \cup {None}]]
    BY DEF Types, LifecycleTypeOK, ProvisioningTypeOK
  <1>2. UNCHANGED <<profile, cloudVars, settings, bundle, attempt, vpnVars, histVars, starts>>
    BY DEF PersistUnchanged
  <1>3. ProvisioningTypeOK'
    BY <1>1, <1>2 DEF Types, LifecycleTypeOK, ProvisioningTypeOK, cloudVars, settings,
       vpnVars, histVars, Connecting, Writing
  <1>4. Stages'
    BY <1>2 DEF Types, Stages, settings, Connecting
  <1> QED BY <1>3, <1>4, NoGuardYet

\* write_text truncates the file and then fills it.
LEMMA WriteTextTypes ==
    ASSUME Types, OpenFile \/ WriteFile, ~Raise, UNCHANGED <<guardVars, reachable>>
    PROVE  Types'
  <1>1. /\ disk[file] \in [state : {"absent", "empty", "full"}, secure : BOOLEAN,
                           id : Tokens \cup {None}]
        /\ {key, kid} \subseteq Tokens \cup {None} /\ cfgVpn \in BOOLEAN /\ vpnReq \in BOOLEAN
    BY DEF Types, LifecycleTypeOK, ProvisioningTypeOK
  <1>2. CASE OpenFile
    <2> DEFINE private == disk[file].state # "absent" /\ disk[file].secure
               c == [state |-> "empty", id |-> None, secure |-> private]
    <2>1. /\ disk' = [disk EXCEPT ![file] = c] /\ PersistUnchanged
          /\ pc = "open" /\ pc' = "write" /\ UNCHANGED <<cfgVpn, file, faults>>
      BY <1>2 DEF OpenFile
    <2>2. private \in BOOLEAN
      OBVIOUS
    <2> HIDE DEF private
    <2>3. c \in [state : {"absent", "empty", "full"}, secure : BOOLEAN, id : Tokens \cup {None}]
      BY <2>2
    <2> HIDE DEF c
    <2> QED BY <1>1, <2>1, <2>3, FileTypes
  <1>3. CASE WriteFile
    <2> DEFINE c == [state |-> "full", secure |-> disk[file].secure,
                     id |-> IF file = "key" THEN key ELSE kid]
    <2>1. /\ disk' = [disk EXCEPT ![file] = c] /\ PersistUnchanged
          /\ cfgVpn' = IF file = "cfg" THEN vpnReq ELSE cfgVpn
          /\ pc = "write" /\ pc' = "chmod" /\ UNCHANGED <<file, faults>>
      BY <1>3 DEF WriteFile
    <2>2. c \in [state : {"absent", "empty", "full"}, secure : BOOLEAN, id : Tokens \cup {None}]
      BY <1>1
    <2>3. cfgVpn' \in BOOLEAN
      BY <1>1, <2>1
    <2> HIDE DEF c
    <2> QED BY <2>1, <2>2, <2>3, FileTypes
  <1> QED BY <1>2, <1>3

\* The types and what is in hand at each point of connect_settings are inductive.
LEMMA TypesInductive ==
    ASSUME Types, [Next]_nvars
    PROVE  Types'
  <1> USE ProvisioningAssumption, LifecycleAssumption
      DEF Types, LifecycleTypeOK, ProvisioningTypeOK, Stages, GuardStages, Files, Writing,
          Connecting, None, diskVars, cloudVars, procVars, settings, vpnVars, histVars,
          boundVars, guardVars
  <1>1. CASE (\E t \in Tokens \cup {None} : Start(t)) /\ UNCHANGED <<guardVars, reachable>>
    BY <1>1 DEF Start, pvars
  <1>2. CASE EnsurePersistedVpn /\ UNCHANGED <<guardVars, reachable>>
    <2>1. CASE Raise
      BY <1>2, <2>1, RaiseTypes DEF EnsurePersistedVpn
    <2>2. CASE ~Raise
      BY <1>2, <2>2, EnsureTypes
    <2> QED BY <2>1, <2>2
  <1>3. CASE StartOpenvpn /\ UNCHANGED <<guardVars, reachable>>
    <2>1. CASE Raise
      BY <1>3, <2>1, RaiseTypes DEF StartOpenvpn, Fault
    <2>2. CASE ~Raise
      BY <1>3, <2>2, SpawnTypes
    <2> QED BY <2>1, <2>2
  <1>4. CASE WaitForTunnel /\ UNCHANGED <<guardVars, reachable>>
    <2>1. CASE ProcessGone
      BY <1>4, <2>1, GoneTypes, KillTypes DEF WaitForTunnel
    <2>2. CASE ~ProcessGone
      BY <1>4, <2>2, TunnelTypes
    <2> QED BY <2>1, <2>2
  <1>5. CASE RequestLost /\ UNCHANGED <<guardVars, reachable>>
    <2>1. CASE Raise
      BY <1>5, <2>1, RaiseTypes DEF RequestLost, Fault, Retry
    <2>2. CASE ~Raise
      <3>1. pc = "post" /\ faults' \in 0 .. MaxFaults /\ (Answer \/ Retry)
        BY <1>5 DEF RequestLost, Fault
      <3>2. spent' \subseteq Tokens /\ liveKey' \in spent' \cup {None}
        BY <1>5 DEF RequestLost
      <3> HIDE DEF Types, guardVars
      <3> QED BY <1>5, <2>2, <3>1, <3>2, RequestTypes
    <2> QED BY <2>1, <2>2
  <1>6. CASE RedeemToken /\ UNCHANGED <<guardVars, reachable>>
    <2>1. CASE Raise
      BY <1>6, <2>1, RaiseTypes DEF RedeemToken, Fault, Retry, Answer
    <2>2. CASE ~Raise
      <3>1. pc = "post" /\ faults' \in 0 .. MaxFaults /\ (Answer \/ Retry)
        BY <1>6 DEF RedeemToken, Fault
      <3>2. spent' \subseteq Tokens /\ liveKey' \in spent' \cup {None}
        BY <1>6 DEF RedeemToken
      <3> HIDE DEF Types, guardVars
      <3> QED BY <1>6, <2>2, <3>1, <3>2, RequestTypes
    <2> QED BY <2>1, <2>2
  <1>7. CASE Reconnect /\ UNCHANGED <<guardVars, reachable>>
    <2>1. CASE Raise
      BY <1>7, <2>1, RaiseTypes DEF Reconnect, Fault, Retry, Answer
    <2>2. CASE ~Raise
      <3>1. pc = "post" /\ faults' \in 0 .. MaxFaults /\ (Answer \/ Retry)
        BY <1>7 DEF Reconnect, Fault
      <3>2. spent' \subseteq Tokens /\ liveKey' \in spent' \cup {None}
        BY <1>7 DEF Reconnect
      <3> HIDE DEF Types, guardVars
      <3> QED BY <1>7, <2>2, <3>1, <3>2, RequestTypes
    <2> QED BY <2>1, <2>2
  <1>8. CASE Refused /\ UNCHANGED <<guardVars, reachable>>
    <2>1. CASE Raise
      BY <1>8, <2>1, RaiseTypes DEF Refused
    <2>2. CASE ~Raise
      BY <1>8, <2>2 DEF Refused
    <2> QED BY <2>1, <2>2
  <1>9. CASE ApplyBundle /\ UNCHANGED <<guardVars, reachable>>
    <2>1. CASE Raise
      BY <1>9, <2>1, RaiseTypes DEF ApplyBundle, TakeCredentials
    <2>2. CASE ~Raise
      BY <1>9, <2>2, ApplyTypes
    <2> QED BY <2>1, <2>2
  <1>10. CASE OpenFile /\ UNCHANGED <<guardVars, reachable>>
    <2>1. CASE Raise
      <3>1. pc = "open" /\ UNCHANGED cloudVars /\ (UNCHANGED faults \/ Fault)
        BY <1>10 DEF OpenFile, PersistUnchanged
      <3>2. faults' \in 0 .. MaxFaults
        BY <3>1 DEF Fault
      <3> QED BY <1>10, <2>1, <3>1, <3>2, RaiseTypes
    <2>2. CASE ~Raise
      BY <1>10, <2>2, WriteTextTypes
    <2> QED BY <2>1, <2>2
  <1>11. CASE WriteFile /\ UNCHANGED <<guardVars, reachable>>
    <2>1. CASE Raise
      <3>1. pc = "write" /\ UNCHANGED cloudVars /\ (UNCHANGED faults \/ Fault)
        BY <1>11 DEF WriteFile, PersistUnchanged
      <3>2. faults' \in 0 .. MaxFaults
        BY <3>1 DEF Fault
      <3> QED BY <1>11, <2>1, <3>1, <3>2, RaiseTypes
    <2>2. CASE ~Raise
      BY <1>11, <2>2, WriteTextTypes
    <2> QED BY <2>1, <2>2
  <1>12. CASE ChmodFile /\ UNCHANGED <<guardVars, reachable>>
    BY <1>12 DEF ChmodFile, PersistUnchanged, pvars
  <1>13. CASE Preflight
    BY <1>13 DEF Preflight, BeginPreflight, pvars
  <1>14. CASE GuardStage
    BY <1>14 DEF GuardStage, CheckInterface, CheckDns, CheckProbes, Stage, Conclude,
       pvars
  <1>15. CASE Serve
    BY <1>15 DEF Serve, pvars
  <1>16. CASE StartupFails
    <2>1. CASE ProcessGone
      BY <1>16, <2>1, GoneTypes, KillTypes DEF StartupFails, Fault, GuardGone
    <2> QED BY <1>16, <2>1 DEF StartupFails
  <1>17. CASE Watch
    BY <1>17 DEF Watch, BeginCheck, pvars
  <1>18. CASE Shutdown
    <2>1. CASE ProcessGone
      <3>1. /\ ovpn' \in [Daemons -> {"none", "starting", "up", "dying"}]
            /\ pidFile' \in Daemons \cup {None}
            /\ spared' \subseteq Daemons /\ stray' \in BOOLEAN
        BY <1>18, KillTypes DEF Shutdown
      <3>2. faults' \in 0 .. MaxFaults
        BY <1>18 DEF Shutdown, Fault
      <3> QED BY <1>18, <2>1, <3>1, <3>2, GoneTypes DEF Shutdown, GuardGone
    <2> QED BY <1>18, <2>1 DEF Shutdown
  <1>19. CASE Crash /\ GuardGone /\ UNCHANGED reachable
    <2>1. CASE ProcessGone
      BY <1>19, <2>1, GoneTypes, KillTypes DEF Crash, GuardGone
    <2> QED BY <1>19, <2>1 DEF Crash
  <1>20. CASE Reset /\ UNCHANGED <<guardVars, reachable>>
    <2>1. /\ ovpn' \in [Daemons -> {"none", "starting", "up", "dying"}]
          /\ pidFile' \in Daemons \cup {None}
          /\ spared' \subseteq Daemons /\ stray' \in BOOLEAN
      BY <1>20, KillTypes DEF Reset
    <2>2. UNCHANGED <<cfgVpn, spent, liveKey, pc, token, key, kid, vpnReq, bundle, attempt, file,
                     faults, starts, gstate, gpc, previous, told, reachable>>
      BY <1>20 DEF Reset
    <2>3. /\ profile' \in BOOLEAN /\ lost' \subseteq Tokens \cup {None}
          /\ disk' \in [Files -> [state : {"absent", "empty", "full"}, secure : BOOLEAN,
                                 id : Tokens \cup {None}]]
      <3>1. CASE KillRaises /\ UNCHANGED <<disk, profile, lost, stray>>
        BY <3>1
      <3>2. CASE /\ disk' = [f \in Files |-> [state |-> "absent", secure |-> FALSE, id |-> None]]
                 /\ profile' = FALSE /\ lost' = lost \cup {liveKey}
        BY <3>2
      <3> QED BY <1>20, <3>1, <3>2 DEF Reset
    <2> QED BY <2>1, <2>2, <2>3
  <1>21. CASE StopVpn /\ UNCHANGED <<guardVars, reachable>>
    BY <1>21, KillTypes DEF StopVpn, pvars
  <1>22. CASE OpenvpnStep /\ UNCHANGED <<guardVars, reachable>>
    <2>1. ovpn' \in [Daemons -> {"none", "starting", "up", "dying"}]
      BY <1>22 DEF OpenvpnStep, Become
    <2>2. faults' \in 0 .. MaxFaults
      BY <1>22 DEF OpenvpnStep, Fault
    <2>3. stray' \in BOOLEAN
      BY <1>22 DEF OpenvpnStep
    <2>4. spared' \subseteq Daemons
      BY <1>22 DEF OpenvpnStep
    <2> QED BY <1>22, <2>1, <2>2, <2>3, <2>4 DEF OpenvpnStep
  <1>23. CASE NetworkChanges
    BY <1>23 DEF NetworkChanges, Fault, pvars
  <1>24. CASE UNCHANGED nvars
    BY <1>24 DEF nvars, pvars
  <1> HIDE ProvisioningAssumption, LifecycleAssumption
      DEF Types, guardVars, diskVars, cloudVars, procVars, settings, vpnVars, histVars, boundVars
  <1> QED
    BY <1>1, <1>2, <1>3, <1>4, <1>5, <1>6, <1>7, <1>8, <1>9, <1>10, <1>11, <1>12,
       <1>13, <1>14, <1>15, <1>16, <1>17, <1>18, <1>19, <1>20, <1>21, <1>22, <1>23,
       <1>24 DEF Next, ConnectStep

\* The key and the key id that the answer brought are the live ones until the process
\* ends: the cloud issues another key only for a request this process would make.
LEMMA CredentialsInductive ==
    ASSUME Types, Credentials, [Next]_nvars
    PROVE  Credentials'
  <1> USE ProvisioningAssumption
      DEF Credentials, ConnectedWithLiveKey, Types, Stages, LifecycleTypeOK, ProvisioningTypeOK,
          Writing, Connecting, None, diskVars, cloudVars, procVars, settings, histVars, boundVars
  <1>1. CASE (\E t \in Tokens \cup {None} : Start(t)) /\ UNCHANGED <<guardVars, reachable>>
    BY <1>1 DEF Start
  <1>2. CASE EnsurePersistedVpn /\ UNCHANGED <<guardVars, reachable>>
    BY <1>2 DEF EnsurePersistedVpn, Raise, ProcessGone
  <1>3. CASE StartOpenvpn /\ UNCHANGED <<guardVars, reachable>>
    BY <1>3 DEF StartOpenvpn, Raise, ProcessGone
  <1>4. CASE WaitForTunnel /\ UNCHANGED <<guardVars, reachable>>
    BY <1>4 DEF WaitForTunnel, ProcessGone
  <1>5. CASE RequestLost /\ UNCHANGED <<guardVars, reachable>>
    BY <1>5 DEF RequestLost, Raise, ProcessGone, Retry
  <1>6. CASE RedeemToken /\ UNCHANGED <<guardVars, reachable>>
    BY <1>6 DEF RedeemToken, Raise, ProcessGone, Retry, Answer
  <1>7. CASE Reconnect /\ UNCHANGED <<guardVars, reachable>>
    BY <1>7 DEF Reconnect, Raise, ProcessGone, Retry, Answer
  <1>8. CASE Refused /\ UNCHANGED <<guardVars, reachable>>
    BY <1>8 DEF Refused, Raise, ProcessGone
  <1>9. CASE ApplyBundle /\ UNCHANGED <<guardVars, reachable>>
    BY <1>9 DEF ApplyBundle, Raise, ProcessGone, TakeCredentials
  <1>10. CASE OpenFile /\ UNCHANGED <<guardVars, reachable>>
    BY <1>10 DEF OpenFile, Raise, ProcessGone, PersistUnchanged
  <1>11. CASE WriteFile /\ UNCHANGED <<guardVars, reachable>>
    BY <1>11 DEF WriteFile, Raise, ProcessGone, PersistUnchanged
  <1>12. CASE ChmodFile /\ UNCHANGED <<guardVars, reachable>>
    BY <1>12 DEF ChmodFile, PersistUnchanged
  <1>13. CASE Preflight
    BY <1>13 DEF Preflight, pvars
  <1>14. CASE GuardStage
    BY <1>14 DEF GuardStage, pvars
  <1>15. CASE Serve
    BY <1>15 DEF Serve
  <1>16. CASE StartupFails
    BY <1>16 DEF StartupFails, ProcessGone
  <1>17. CASE Watch
    BY <1>17 DEF Watch, pvars
  <1>18. CASE Shutdown
    BY <1>18 DEF Shutdown, ProcessGone
  <1>19. CASE Crash /\ GuardGone /\ UNCHANGED reachable
    BY <1>19 DEF Crash, ProcessGone
  <1>20. CASE Reset /\ UNCHANGED <<guardVars, reachable>>
    BY <1>20 DEF Reset
  <1>21. CASE StopVpn /\ UNCHANGED <<guardVars, reachable>>
    BY <1>21 DEF StopVpn
  <1>22. CASE OpenvpnStep /\ UNCHANGED <<guardVars, reachable>>
    BY <1>22 DEF OpenvpnStep
  <1>23. CASE NetworkChanges
    BY <1>23 DEF NetworkChanges
  <1>24. CASE UNCHANGED nvars
    BY <1>24 DEF nvars, pvars
  <1> HIDE ProvisioningAssumption
      DEF Credentials, Types, diskVars, cloudVars, procVars, settings, histVars, boundVars
  <1> QED
    BY <1>1, <1>2, <1>3, <1>4, <1>5, <1>6, <1>7, <1>8, <1>9, <1>10, <1>11, <1>12,
       <1>13, <1>14, <1>15, <1>16, <1>17, <1>18, <1>19, <1>20, <1>21, <1>22, <1>23,
       <1>24 DEF Next, ConnectStep

\* watch compares with the state it read before the check, which no other step changes,
\* so a callback is left out only when readiness is what the last one said.
LEMMA CallbacksInductive ==
    ASSUME Types, CallbacksTrackReadiness, [Next]_nvars
    PROVE  CallbacksTrackReadiness'
  <1> USE DEF CallbacksTrackReadiness, Types, GuardStages, LifecycleTypeOK,
          Connecting, Writing, guardVars, procVars
  <1>1. CASE (\E t \in Tokens \cup {None} : Start(t)) /\ UNCHANGED <<guardVars, reachable>>
    BY <1>1 DEF Start
  <1>2. CASE EnsurePersistedVpn /\ UNCHANGED <<guardVars, reachable>>
    BY <1>2 DEF EnsurePersistedVpn, Raise, ProcessGone
  <1>3. CASE StartOpenvpn /\ UNCHANGED <<guardVars, reachable>>
    BY <1>3 DEF StartOpenvpn, Raise, ProcessGone
  <1>4. CASE WaitForTunnel /\ UNCHANGED <<guardVars, reachable>>
    BY <1>4 DEF WaitForTunnel, ProcessGone
  <1>5. CASE RequestLost /\ UNCHANGED <<guardVars, reachable>>
    BY <1>5 DEF RequestLost, Raise, ProcessGone, Retry
  <1>6. CASE RedeemToken /\ UNCHANGED <<guardVars, reachable>>
    BY <1>6 DEF RedeemToken, Raise, ProcessGone, Retry, Answer
  <1>7. CASE Reconnect /\ UNCHANGED <<guardVars, reachable>>
    BY <1>7 DEF Reconnect, Raise, ProcessGone, Retry, Answer
  <1>8. CASE Refused /\ UNCHANGED <<guardVars, reachable>>
    BY <1>8 DEF Refused, Raise, ProcessGone
  <1>9. CASE ApplyBundle /\ UNCHANGED <<guardVars, reachable>>
    BY <1>9 DEF ApplyBundle, Raise, ProcessGone, TakeCredentials
  <1>10. CASE OpenFile /\ UNCHANGED <<guardVars, reachable>>
    BY <1>10 DEF OpenFile, Raise, ProcessGone, PersistUnchanged
  <1>11. CASE WriteFile /\ UNCHANGED <<guardVars, reachable>>
    BY <1>11 DEF WriteFile, Raise, ProcessGone, PersistUnchanged
  <1>12. CASE ChmodFile /\ UNCHANGED <<guardVars, reachable>>
    BY <1>12 DEF ChmodFile, PersistUnchanged
  <1>13. CASE Preflight
    BY <1>13 DEF Preflight, BeginPreflight, pvars
  <1>14. CASE GuardStage
    BY <1>14 DEF GuardStage, CheckInterface, CheckDns, CheckProbes, Stage, Conclude,
       pvars
  <1>15. CASE Serve
    BY <1>15 DEF Serve
  <1>16. CASE StartupFails
    BY <1>16 DEF StartupFails, ProcessGone, GuardGone
  <1>17. CASE Watch
    BY <1>17 DEF Watch, BeginCheck, pvars
  <1>18. CASE Shutdown
    BY <1>18 DEF Shutdown, ProcessGone, GuardGone
  <1>19. CASE Crash /\ GuardGone /\ UNCHANGED reachable
    BY <1>19 DEF Crash, ProcessGone, GuardGone
  <1>20. CASE Reset /\ UNCHANGED <<guardVars, reachable>>
    BY <1>20 DEF Reset
  <1>21. CASE StopVpn /\ UNCHANGED <<guardVars, reachable>>
    BY <1>21 DEF StopVpn
  <1>22. CASE OpenvpnStep /\ UNCHANGED <<guardVars, reachable>>
    BY <1>22 DEF OpenvpnStep
  <1>23. CASE NetworkChanges
    BY <1>23 DEF NetworkChanges
  <1>24. CASE UNCHANGED nvars
    BY <1>24 DEF nvars, pvars
  <1> HIDE DEF CallbacksTrackReadiness, Types, guardVars, procVars
  <1> QED
    BY <1>1, <1>2, <1>3, <1>4, <1>5, <1>6, <1>7, <1>8, <1>9, <1>10, <1>11, <1>12,
       <1>13, <1>14, <1>15, <1>16, <1>17, <1>18, <1>19, <1>20, <1>21, <1>22, <1>23,
       <1>24 DEF Next, ConnectStep

\* What kill_openvpn_daemon leaves behind.
KillLeaves ==
    /\ \A d \in Daemons : ovpn'[d] \in {"starting", "up"} => pidFile' = d \/ d \in spared'
    /\ \A d \in spared' : ovpn'[d] = "up" /\ pidFile' # d
    /\ \A d \in Daemons : /\ ovpn'[d] = "starting" => ovpn[d] = "starting"
                          /\ ovpn'[d] # "none" => ovpn[d] # "none"
    /\ KillOpenvpn => \A d \in Daemons : ovpn'[d] = "starting" => pidFile # d

\* kill_openvpn_daemon signals the daemon in the pid file, remembers it as spared or, if
\* it was connecting, as hidden; where it raises the file still names it.
LEMMA KillDaemons ==
    ASSUME Types, DaemonInv, ~stray, ~stray', KillOpenvpn \/ KillRaises
    PROVE  KillLeaves
  <1> USE DEF Types, LifecycleTypeOK, ProvisioningTypeOK, DaemonInv, Live, KillLeaves
  <1>1. /\ \A d \in Daemons : d # pidFile => ovpn'[d] = ovpn[d]
        /\ \A d \in Daemons : ovpn'[d] = ovpn[d] \/ (Live(d) /\ ovpn'[d] = "dying")
    BY DEF KillOpenvpn, KillRaises, Signalled
  <1>2. CASE KillOpenvpn
    <2>1. /\ pidFile' = None
          /\ \A d \in Daemons : d = pidFile => ovpn'[d] # "starting"
          /\ \A d \in Daemons : d \in spared' <=> d \in spared \/ (d = pidFile /\ ovpn'[d] = "up")
      BY <1>2 DEF KillOpenvpn
    <2>2. spared' \subseteq Daemons
      BY <1>2, KillTypes
    <2>3. None \notin Daemons
      BY ProvisioningAssumption DEF None
    <2> QED BY <1>1, <2>1, <2>2, <2>3
  <1>3. CASE KillRaises /\ ~KillOpenvpn
    BY <1>1, <1>3 DEF KillRaises
  <1> QED BY <1>2, <1>3

\* The daemons stay named whoever calls it: a process that goes on, or one that ends
\* and leaves none that is connecting.
LEMMA KillKeeps ==
    ASSUME Types, DaemonInv, ~stray, ~stray', KillOpenvpn \/ KillRaises,
           \/ pc' = pc
           \/ pc' = "off" /\ (pc # "wait" \/ KillOpenvpn \/ \A d \in Daemons : ovpn'[d] # "starting")
    PROVE  DaemonInv'
  <1>1. KillLeaves
    BY KillDaemons
  <1>2. \A d \in Daemons : ovpn'[d] = "starting" => pc' = "wait"
    BY <1>1 DEF KillLeaves, DaemonInv, Live
  <1>3. pc' = "spawn" => \A d \in Daemons : ovpn'[d] = "none"
    BY <1>1 DEF KillLeaves, DaemonInv
  <1>4. \A d, e \in Daemons : ovpn'[d] # "none" /\ ovpn'[e] # "none" => d = e
    BY <1>1 DEF KillLeaves, DaemonInv
  <1> QED
    BY <1>1, <1>2, <1>3, <1>4 DEF KillLeaves, DaemonInv, Live

\* An exception that ends the process finds no daemon that is connecting.
LEMMA RaiseDaemons ==
    ASSUME Types, DaemonInv, Raise, pc # "wait"
    PROVE  DaemonInv'
  <1> SUFFICES ASSUME ~stray' PROVE DaemonInv'
    BY DEF DaemonInv
  <1>1. ~stray /\ pc' = "off"
    BY DEF Raise, ProcessGone, KillOpenvpn
  <1>2. CASE KillOpenvpn \/ KillRaises
    BY <1>1, <1>2, KillKeeps
  <1>3. CASE UNCHANGED <<vpnVars, stray, spared>>
    BY <1>1, <1>3 DEF DaemonInv, Live, vpnVars
  <1> QED BY <1>2, <1>3 DEF Raise

\* A daemon is started only where detect_tun_interface saw none, and by then the only
\* daemons it cannot see are the ones that made stray true.
LEMMA DaemonsInductive ==
    ASSUME Types, DaemonInv, [Next]_nvars
    PROVE  DaemonInv'
  <1> USE DEF DaemonInv, Types, LifecycleTypeOK, ProvisioningTypeOK, Live, Tunnel, Connecting,
          Writing, procVars, vpnVars, histVars
  <1>1. CASE (\E t \in Tokens \cup {None} : Start(t)) /\ UNCHANGED <<guardVars, reachable>>
    BY <1>1 DEF Start
  <1>2. CASE EnsurePersistedVpn /\ UNCHANGED <<guardVars, reachable>>
    <2>1. CASE Raise
      BY <1>2, <2>1, RaiseDaemons DEF EnsurePersistedVpn
    <2> QED BY <1>2, <2>1 DEF EnsurePersistedVpn
  <1>3. CASE StartOpenvpn /\ UNCHANGED <<guardVars, reachable>>
    <2>1. CASE Raise
      BY <1>3, <2>1, RaiseDaemons DEF StartOpenvpn
    <2> QED BY <1>3, <2>1 DEF StartOpenvpn
  <1>4. CASE WaitForTunnel /\ UNCHANGED <<guardVars, reachable>>
    <2> SUFFICES ASSUME ~stray' PROVE DaemonInv'
      OBVIOUS
    <2>1. CASE ~Tunnel /\ ProcessGone /\ (KillOpenvpn \/ KillRaises)
      <3>1. ~stray /\ pc' = "off"
        BY <1>4, <2>1 DEF WaitForTunnel, KillOpenvpn, ProcessGone
      <3>2. KillOpenvpn \/ \A d \in Daemons : ovpn'[d] # "starting"
        BY <1>4, <2>1 DEF WaitForTunnel
      <3> HIDE DEF DaemonInv, Types, LifecycleTypeOK, ProvisioningTypeOK
      <3> QED BY <3>1, <3>2, <2>1, KillKeeps
    <2> QED BY <1>4, <2>1 DEF WaitForTunnel
  <1>5. CASE RequestLost /\ UNCHANGED <<guardVars, reachable>>
    <2>1. CASE Raise
      BY <1>5, <2>1, RaiseDaemons DEF RequestLost
    <2> QED BY <1>5, <2>1 DEF RequestLost, Retry
  <1>6. CASE RedeemToken /\ UNCHANGED <<guardVars, reachable>>
    <2>1. CASE Raise
      BY <1>6, <2>1, RaiseDaemons DEF RedeemToken
    <2> QED BY <1>6, <2>1 DEF RedeemToken, Retry, Answer
  <1>7. CASE Reconnect /\ UNCHANGED <<guardVars, reachable>>
    <2>1. CASE Raise
      BY <1>7, <2>1, RaiseDaemons DEF Reconnect
    <2> QED BY <1>7, <2>1 DEF Reconnect, Retry, Answer
  <1>8. CASE Refused /\ UNCHANGED <<guardVars, reachable>>
    <2>1. CASE Raise
      BY <1>8, <2>1, RaiseDaemons DEF Refused
    <2> QED BY <1>8, <2>1 DEF Refused
  <1>9. CASE ApplyBundle /\ UNCHANGED <<guardVars, reachable>>
    <2>1. CASE Raise
      BY <1>9, <2>1, RaiseDaemons DEF ApplyBundle
    <2> QED BY <1>9, <2>1 DEF ApplyBundle
  <1>10. CASE OpenFile /\ UNCHANGED <<guardVars, reachable>>
    <2>1. CASE Raise
      BY <1>10, <2>1, RaiseDaemons DEF OpenFile
    <2> QED BY <1>10, <2>1 DEF OpenFile, PersistUnchanged
  <1>11. CASE WriteFile /\ UNCHANGED <<guardVars, reachable>>
    <2>1. CASE Raise
      BY <1>11, <2>1, RaiseDaemons DEF WriteFile
    <2> QED BY <1>11, <2>1 DEF WriteFile, PersistUnchanged
  <1>12. CASE ChmodFile /\ UNCHANGED <<guardVars, reachable>>
    BY <1>12 DEF ChmodFile, PersistUnchanged
  <1>13. CASE Preflight
    BY <1>13 DEF Preflight, pvars
  <1>14. CASE GuardStage
    BY <1>14 DEF GuardStage, pvars
  <1>15. CASE Serve
    BY <1>15 DEF Serve
  <1>16. CASE StartupFails
    BY <1>16 DEF StartupFails, ProcessGone
  <1>17. CASE Watch
    BY <1>17 DEF Watch, pvars
  <1>18. CASE Shutdown
    <2> SUFFICES ASSUME ~stray' PROVE DaemonInv'
      OBVIOUS
    <2>1. ~stray /\ pc = "up" /\ pc' = "off"
      BY <1>18 DEF Shutdown, KillOpenvpn, ProcessGone
    <2>2. CASE KillOpenvpn \/ KillRaises
      <3> HIDE DEF DaemonInv, Types, LifecycleTypeOK, ProvisioningTypeOK
      <3> QED BY <2>1, <2>2, KillKeeps
    <2> QED BY <1>18, <2>1, <2>2 DEF Shutdown
  <1>19. CASE Crash /\ GuardGone /\ UNCHANGED reachable
    BY <1>19 DEF Crash, ProcessGone
  <1>20. CASE Reset /\ UNCHANGED <<guardVars, reachable>>
    <2> SUFFICES ASSUME ~stray' PROVE DaemonInv'
      OBVIOUS
    <2>1. ~stray /\ pc = "off" /\ pc' = "off" /\ (KillOpenvpn \/ KillRaises)
      BY <1>20 DEF Reset, KillOpenvpn
    <2> HIDE DEF DaemonInv, Types, LifecycleTypeOK, ProvisioningTypeOK
    <2> QED BY <2>1, KillKeeps
  <1>21. CASE StopVpn /\ UNCHANGED <<guardVars, reachable>>
    <2> SUFFICES ASSUME ~stray' PROVE DaemonInv'
      OBVIOUS
    <2>1. ~stray /\ pc' = pc /\ (KillOpenvpn \/ KillRaises)
      BY <1>21 DEF StopVpn, KillOpenvpn
    <2> HIDE DEF DaemonInv, Types, LifecycleTypeOK, ProvisioningTypeOK
    <2> QED BY <2>1, KillKeeps
  <1>22. CASE OpenvpnStep /\ UNCHANGED <<guardVars, reachable>>
    BY <1>22 DEF OpenvpnStep, Become
  <1>23. CASE NetworkChanges
    BY <1>23 DEF NetworkChanges
  <1>24. CASE UNCHANGED nvars
    BY <1>24 DEF nvars, pvars
  <1> HIDE DEF DaemonInv, Types, LifecycleTypeOK, ProvisioningTypeOK, procVars, vpnVars, histVars
  <1> QED
    BY <1>1, <1>2, <1>3, <1>4, <1>5, <1>6, <1>7, <1>8, <1>9, <1>10, <1>11, <1>12,
       <1>13, <1>14, <1>15, <1>16, <1>17, <1>18, <1>19, <1>20, <1>21, <1>22, <1>23,
       <1>24 DEF Next, ConnectStep

\* A key that only the process holds, or whose files are being rewritten, is in lost by
\* the time the process is gone; any other key was loadable when the process started
\* and nothing but a write of the next key touches the files.
LEMMA DiskInductive ==
    ASSUME Types, Credentials, DiskInv, [Next]_nvars
    PROVE  DiskInv'
  <1> USE ProvisioningAssumption
      DEF DiskInv, Saved, OnlyInMemory, Loadable, Credentials, ConnectedWithLiveKey, Types, Stages,
          LifecycleTypeOK, ProvisioningTypeOK, Files,
          Writing, Connecting, None, diskVars, cloudVars, procVars, settings, histVars, boundVars
  <1>1. CASE (\E t \in Tokens \cup {None} : Start(t)) /\ UNCHANGED <<guardVars, reachable>>
    BY <1>1 DEF Start
  <1>2. CASE EnsurePersistedVpn /\ UNCHANGED <<guardVars, reachable>>
    BY <1>2 DEF EnsurePersistedVpn, Raise, ProcessGone, AtRisk
  <1>3. CASE StartOpenvpn /\ UNCHANGED <<guardVars, reachable>>
    BY <1>3 DEF StartOpenvpn, Raise, ProcessGone, AtRisk
  <1>4. CASE WaitForTunnel /\ UNCHANGED <<guardVars, reachable>>
    BY <1>4 DEF WaitForTunnel, ProcessGone, AtRisk
  <1>5. CASE RequestLost /\ UNCHANGED <<guardVars, reachable>>
    BY <1>5 DEF RequestLost, Raise, ProcessGone, Retry, AtRisk
  <1>6. CASE RedeemToken /\ UNCHANGED <<guardVars, reachable>>
    BY <1>6 DEF RedeemToken, Raise, ProcessGone, Retry, Answer, AtRisk
  <1>7. CASE Reconnect /\ UNCHANGED <<guardVars, reachable>>
    BY <1>7 DEF Reconnect, Raise, ProcessGone, Retry, Answer, AtRisk
  <1>8. CASE Refused /\ UNCHANGED <<guardVars, reachable>>
    BY <1>8 DEF Refused, Raise, ProcessGone, AtRisk
  <1>9. CASE ApplyBundle /\ UNCHANGED <<guardVars, reachable>>
    BY <1>9 DEF ApplyBundle, Raise, ProcessGone, TakeCredentials, AtRisk
  <1>10. CASE OpenFile /\ UNCHANGED <<guardVars, reachable>>
    BY <1>10 DEF OpenFile, Raise, ProcessGone, PersistUnchanged, AtRisk
  <1>11. CASE WriteFile /\ UNCHANGED <<guardVars, reachable>>
    BY <1>11 DEF WriteFile, Raise, ProcessGone, PersistUnchanged, AtRisk
  <1>12. CASE ChmodFile /\ UNCHANGED <<guardVars, reachable>>
    BY <1>12 DEF ChmodFile, PersistUnchanged
  <1>13. CASE Preflight
    BY <1>13 DEF Preflight, pvars
  <1>14. CASE GuardStage
    BY <1>14 DEF GuardStage, pvars
  <1>15. CASE Serve
    BY <1>15 DEF Serve
  <1>16. CASE StartupFails
    BY <1>16 DEF StartupFails, ProcessGone, AtRisk
  <1>17. CASE Watch
    BY <1>17 DEF Watch, pvars
  <1>18. CASE Shutdown
    BY <1>18 DEF Shutdown, ProcessGone, AtRisk
  <1>19. CASE Crash /\ GuardGone /\ UNCHANGED reachable
    BY <1>19 DEF Crash, ProcessGone, AtRisk
  <1>20. CASE Reset /\ UNCHANGED <<guardVars, reachable>>
    BY <1>20 DEF Reset
  <1>21. CASE StopVpn /\ UNCHANGED <<guardVars, reachable>>
    BY <1>21 DEF StopVpn
  <1>22. CASE OpenvpnStep /\ UNCHANGED <<guardVars, reachable>>
    BY <1>22 DEF OpenvpnStep
  <1>23. CASE NetworkChanges
    BY <1>23 DEF NetworkChanges
  <1>24. CASE UNCHANGED nvars
    BY <1>24 DEF nvars, pvars
  <1> HIDE ProvisioningAssumption
      DEF DiskInv, Credentials, Types, diskVars, cloudVars, procVars, settings, histVars, boundVars
  <1> QED
    BY <1>1, <1>2, <1>3, <1>4, <1>5, <1>6, <1>7, <1>8, <1>9, <1>10, <1>11, <1>12,
       <1>13, <1>14, <1>15, <1>16, <1>17, <1>18, <1>19, <1>20, <1>21, <1>22, <1>23,
       <1>24 DEF Next, ConnectStep
-----------------------------------------------------------------------------
LifecycleInv == Types /\ Credentials /\ DiskInv /\ DaemonInv /\ CallbacksTrackReadiness

\* The whole invariant holds of every behaviour of the lifespan.
LEMMA LifecycleInvHolds == Spec => []LifecycleInv
  <1>1. Init => LifecycleInv
    <2> SUFFICES ASSUME Init PROVE LifecycleInv
      OBVIOUS
    <2> USE ProvisioningAssumption DEF Init, ProvisioningInit, GuardInit
    <2>1. Types
      <3>1. /\ disk \in [Files -> [state : {"absent", "empty", "full"}, secure : BOOLEAN,
                                   id : Tokens \cup {None}]]
            /\ ovpn \in [Daemons -> {"none", "starting", "up", "dying"}]
        OBVIOUS
      <3>2. attempt \in 1 .. Retries /\ faults \in 0 .. MaxFaults /\ starts \in 0 .. MaxStarts
        OBVIOUS
      <3> QED
        BY <3>1, <3>2
        DEF Types, LifecycleTypeOK, ProvisioningTypeOK, Stages, GuardStages, Files, Writing,
            Connecting
    <2>2. Credentials /\ DiskInv /\ CallbacksTrackReadiness
      BY DEF Credentials, ConnectedWithLiveKey, DiskInv, CallbacksTrackReadiness, Writing
    <2>3. DaemonInv
      BY DEF DaemonInv, Live
    <2> QED BY <2>1, <2>2, <2>3 DEF LifecycleInv
  <1>2. LifecycleInv /\ [Next]_nvars => LifecycleInv'
    BY TypesInductive, CredentialsInductive, DiskInductive, DaemonsInductive, CallbacksInductive
    DEF LifecycleInv
  <1> QED BY <1>1, <1>2, PTL DEF Spec

-----------------------------------------------------------------------------
\* Every field of Settings, the files, the daemons and the guard keep their types; a
\* file is written only once a bundle was applied, and a serving node has a verdict of
\* its guard (service.py 560-629, app.py 60-142).
THEOREM LifecycleTypes == Spec => []LifecycleTypeOK
  <1>1. LifecycleInv => LifecycleTypeOK
    BY DEF LifecycleInv, Types
  <1> QED BY <1>1, LifecycleInvHolds, PTL

\* Whatever starts, retries, write errors, crashes and resets came before, the key the
\* cloud accepts is on disk and loads when no process runs, unless it was lost in one of
\* the ways the code cannot survive (service.py 116-148, 465-589, config.py 47-116).
THEOREM KeySurvives == Spec => []SavedUnlessCut
  <1>1. LifecycleInv => SavedUnlessCut
    BY DEF LifecycleInv, DiskInv, Saved, OnlyInMemory, SavedUnlessCut, Writing, Connecting
  <1> QED BY <1>1, LifecycleInvHolds, PTL

\* A node that persists, checks or serves signs with the key and the key id that the
\* cloud has on record, also after a start that found files of two different keys
\* (service.py 465-589).
THEOREM SignsWithLiveKey == Spec => []ConnectedWithLiveKey
  <1>1. LifecycleInv => ConnectedWithLiveKey
    BY DEF LifecycleInv, Credentials
  <1> QED BY <1>1, LifecycleInvHolds, PTL

\* Shutdown, reset and stop-vpn reach the one OpenVPN process that was not told to stop,
\* unless kill_openvpn_daemon could not signal it; also then it is not joined by a second
\* one.  Only a process that was still connecting is, if a crash, a dropped tunnel or a
\* failed kill hid it (service.py 151-272).
THEOREM DaemonsAreNamed == Spec => []NoOrphanDaemon
  <1>1. LifecycleInv => NoOrphanDaemon
    BY DEF LifecycleInv, DaemonInv, NoOrphanDaemon, Live
  <1> QED BY <1>1, LifecycleInvHolds, PTL

\* An observer of on_change alone knows whether a serving node is ready, whatever order
\* interfaces, names and probes fail and recover in (guard.py 376-397).
THEOREM ObserverKnowsReadiness == Spec => []CallbacksTrackReadiness
  <1>1. LifecycleInv => CallbacksTrackReadiness
    BY DEF LifecycleInv
  <1> QED BY <1>1, LifecycleInvHolds, PTL
=============================================================================
