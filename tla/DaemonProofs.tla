---------------------------- MODULE DaemonProofs ----------------------------
(***************************************************************************)
(* What the pid file protocol guarantees for any number of operators,      *)
(* processes and commands.                                                 *)
(***************************************************************************)
EXTENDS Daemon, FiniteSetTheorems, TLAPS

\* steps of a command at which it has a pid in hand
HasPid == {"open", "write", "term", "wait", "kill", "drop"}
NoPidYet == {"idle", "check", "clean", "unlink", "spawn", "read", "wipe"}

Types ==
    /\ file \in Pids \cup {"absent", "empty"}
    /\ proc \in [Pids -> {"none", "starting", "booted", "serving", "draining", "foreign"}]
    /\ cpc \in [Clis -> HasPid \cup NoPidYet]
    /\ cmd \in [Clis -> {"start", "stop", "reset"}]
    /\ held \in [Clis -> Pids \cup {NoPid}]
    /\ \A c \in Clis : (cpc[c] \in HasPid) <=> (held[c] \in Pids)

\* While the protocol is kept one command runs at a time, and it knows every node: by
\* the pid file before it has read or checked it, not at all where it has found
\* none, and by the pid it holds afterwards.
Known ==
    /\ \A c, d \in Clis : cpc[c] # "idle" /\ cpc[d] # "idle" => c = d
    /\ \/ \E c \in Clis : cpc[c] \notin {"idle", "check", "read"}
       \/ \A p \in Pids : p \in Nodes => p = file
    /\ \A c \in Clis : /\ cpc[c] \in {"clean", "unlink", "spawn", "drop", "wipe"}
                          => \A p \in Pids : p \notin Nodes
                       /\ cpc[c] \in HasPid => \A p \in Pids : p \in Nodes => p = held[c]

KnownInv == mishaps = {} => Known

\* While no node has ended by itself and commands neither overlap nor are cut off,
\* the pid file names a node, or the process that stop or reset is about to strike
\* off it, whose pid nobody can take over meanwhile.
Stopping == {"term", "wait", "kill", "drop"}
Fresh ==
    /\ ~hit
    /\ \A c, d \in Clis : cpc[c] # "idle" /\ cpc[d] # "idle" => c = d
    /\ file \in Pids => \/ file \in Nodes
                        \/ \E c \in Clis : cpc[c] \in Stopping /\ held[c] = file
    /\ \A c \in Clis : /\ cpc[c] \in Stopping => proc[held[c]] # "foreign" /\ cmd[c] # "start"
                       /\ cpc[c] \in {"open", "write"} => held[c] \in Nodes
                       /\ cpc[c] \in {"clean", "unlink", "spawn", "open", "write"}
                          => cmd[c] = "start"
                       /\ cpc[c] = "read" => cmd[c] # "start"

FreshInv == ~died /\ mishaps \cap {"overlap", "interrupt"} = {} => Fresh

-----------------------------------------------------------------------------
\* Types is inductive: a command has a pid in hand exactly at the steps of HasPid.
LEMMA TypesInductive ==
    ASSUME Types, [Next]_daemonVars
    PROVE  Types'
  <1> USE PidsAssumption
  <1>1. ASSUME NEW c \in Clis, CommandStep(c) PROVE Types'
    <2>1. CASE CheckRunning(c)
      BY <2>1 DEF CheckRunning, Types, Step, Hold, Finish, HasPid, NoPidYet
    <2>2. CASE FindStale(c)
      BY <2>2 DEF FindStale, Types, Step, HasPid, NoPidYet
    <2>3. CASE UnlinkStale(c)
      BY <2>3 DEF UnlinkStale, Types, Step, Hold, Finish, HasPid, NoPidYet
    <2>4. CASE Spawn(c)
      BY <2>4 DEF Spawn, Types, Step, Hold, Finish, Become, HasPid, NoPidYet
    <2>5. CASE OpenPidFile(c)
      BY <2>5 DEF OpenPidFile, Types, Step, HasPid, NoPidYet
    <2>6. CASE WritePidFile(c)
      BY <2>6 DEF WritePidFile, Types, Step, Hold, Finish, HasPid, NoPidYet
    <2>7. CASE ReadPid(c)
      BY <2>7 DEF ReadPid, Types, Step, Hold, StopReturns, IsDaemonRunning, HasPid, NoPidYet
    <2>8. CASE Term(c)
      <3>1. Alive(held[c]) => \A s \in Terminated(proc[held[c]]) : s \in {"none", "draining"}
        BY DEF Terminated
      <3> QED BY <2>8, <3>1 DEF Term, Types, Step, Become, HasPid, NoPidYet
    <2>9. CASE SeenGone(c) \/ TimedOut(c)
      BY <2>9 DEF SeenGone, TimedOut, Types, Step, HasPid, NoPidYet
    <2>10. CASE Kill(c)
      BY <2>10 DEF Kill, Types, Step, Become, HasPid, NoPidYet
    <2>11. CASE DropPidFile(c)
      BY <2>11 DEF DropPidFile, Types, Step, Hold, StopReturns, HasPid, NoPidYet
    <2>12. CASE Wipe(c)
      BY <2>12 DEF Wipe, Types, Step, Hold, Finish, HasPid, NoPidYet
    <2> QED BY <1>1, <2>1, <2>2, <2>3, <2>4, <2>5, <2>6, <2>7, <2>8, <2>9, <2>10, <2>11, <2>12
            DEF CommandStep
  <1>2. ASSUME NEW c \in Clis, Interrupt(c) PROVE Types'
    BY <1>2 DEF Interrupt, Types, Hold, HasPid, NoPidYet
  <1>3. ASSUME NEW c \in Clis, NEW k \in {"start", "stop", "reset"}, Begin(c, k) PROVE Types'
    BY <1>3 DEF Begin, Types, HasPid, NoPidYet
  <1>4. ASSUME NEW p \in Pids,
               Boot(p) \/ Bind(p) \/ ExitNode(p) \/ Die(p) \/ StopSignal(p)
                       \/ StartInTerminal(p) \/ ForeignProcess(p)
        PROVE  Types'
    BY <1>4 DEF Boot, Bind, ExitNode, Die, StopSignal, StartInTerminal, ForeignProcess, Types,
                Become, Others
  <1>5. CASE CleanTmp \/ UNCHANGED daemonVars
    BY <1>5 DEF CleanTmp, daemonVars, Types
  <1> QED BY <1>1, <1>2, <1>3, <1>4, <1>5 DEF Next

-----------------------------------------------------------------------------
\* A step of the only running command that leaves the processes' kinds alone except
\* for what it says keeps Known when it knows the nodes afterwards.
LEMMA CommandKeepsKnown ==
    ASSUME Types, Known, NEW c \in Clis, cpc[c] # "idle",
           NEW s, cpc' = [cpc EXCEPT ![c] = s],
           \A d \in Clis \ {c} : held'[d] = held[d],
           s \in {"idle", "check", "read"} => \A p \in Pids : p \in Nodes' => p = file',
           s \in {"clean", "unlink", "spawn", "drop", "wipe"} => \A p \in Pids : p \notin Nodes',
           s \in HasPid => \A p \in Pids : p \in Nodes' => p = held'[c]
    PROVE  Known'
  <1>1. cpc'[c] = s /\ \A d \in Clis \ {c} : cpc'[d] = "idle" /\ cpc[d] = "idle"
    BY DEF Types, Known
  <1>2. \A d, e \in Clis : cpc'[d] # "idle" /\ cpc'[e] # "idle" => d = e
    BY <1>1
  <1>3. \/ \E d \in Clis : cpc'[d] \notin {"idle", "check", "read"}
        \/ \A p \in Pids : p \in Nodes' => p = file'
    BY <1>1
  <1>4. \A d \in Clis : /\ cpc'[d] \in {"clean", "unlink", "spawn", "drop", "wipe"}
                           => \A p \in Pids : p \notin Nodes'
                        /\ cpc'[d] \in HasPid => \A p \in Pids : p \in Nodes' => p = held'[d]
    BY <1>1 DEF HasPid
  <1> QED BY <1>2, <1>3, <1>4 DEF Known

\* Fewer nodes keep Known.
LEMMA FewerNodes ==
    ASSUME Known, UNCHANGED <<file, cpc, held>>, \A p \in Pids : p \in Nodes' => p \in Nodes
    PROVE  Known'
  BY DEF Known

\* Before a command has looked at the pid file, that file names every node.
LEMMA FileNames ==
    ASSUME Types, Known, NEW c \in Clis, cpc[c] \in {"check", "read"}
    PROVE  \A p \in Pids : p \in Nodes => p = file
  BY DEF Known

\* KnownInv is inductive.
LEMMA KnownInductive ==
    ASSUME Types, KnownInv, [Next]_daemonVars
    PROVE  KnownInv'
  <1> SUFFICES ASSUME mishaps' = {} PROVE Known'
    BY DEF KnownInv
  <1> USE PidsAssumption
  <1>1. ASSUME NEW c \in Clis, CommandStep(c) PROVE Known'
    <2>0. mishaps' = mishaps
      BY <1>1 DEF CommandStep, CheckRunning, FindStale, UnlinkStale, Spawn, OpenPidFile,
                  WritePidFile, ReadPid, Term, SeenGone, TimedOut, Kill, DropPidFile, Wipe,
                  Step, Finish, StopReturns
    <2>a. Known
      BY <2>0 DEF KnownInv
    <2>1. CASE CheckRunning(c)
      <3>1. \A p \in Pids : p \in Nodes => p = file
        BY <2>a, <2>1, FileNames DEF CheckRunning
      <3>2. ~IsDaemonRunning => \A p \in Pids : p \notin Nodes
        BY <3>1 DEF IsDaemonRunning, Alive, Nodes
      <3>3. Nodes' = Nodes /\ file' = file
        BY <2>1 DEF CheckRunning, Nodes
      <3>4. CASE cmd[c] = "start" /\ ~IsDaemonRunning
        BY <2>a, <2>1, <3>2, <3>3, <3>4, CommandKeepsKnown DEF CheckRunning, Step, HasPid
      <3>5. CASE ~(cmd[c] = "start" /\ ~IsDaemonRunning)
        <4>1. PICK s \in {"idle", "read"} : cpc' = [cpc EXCEPT ![c] = s]
          BY <2>1, <3>5 DEF CheckRunning, Step, Finish
        <4>2. \A d \in Clis \ {c} : held'[d] = held[d]
          BY <2>1 DEF CheckRunning, Finish, Hold, Types
        <4>3. cpc[c] # "idle"
          BY <2>1 DEF CheckRunning
        <4> QED BY <2>a, <3>1, <3>3, <4>1, <4>2, <4>3, CommandKeepsKnown DEF HasPid
      <3> QED BY <3>4, <3>5
    <2>2. CASE FindStale(c)
      <3>1. \A p \in Pids : p \notin Nodes'
        BY <2>a, <2>2 DEF FindStale, Known, Nodes
      <3>2. PICK s \in {"spawn", "unlink"} : cpc' = [cpc EXCEPT ![c] = s]
        BY <2>2 DEF FindStale, Step
      <3> QED BY <2>a, <2>2, <3>1, <3>2, CommandKeepsKnown DEF FindStale, HasPid
    <2>3. CASE UnlinkStale(c)
      <3>1. \A p \in Pids : p \notin Nodes'
        BY <2>a, <2>3 DEF UnlinkStale, Known, Nodes
      <3>2. PICK s \in {"spawn", "idle"} : cpc' = [cpc EXCEPT ![c] = s]
        BY <2>3 DEF UnlinkStale, Step, Finish
      <3>3. \A d \in Clis \ {c} : held'[d] = held[d]
        BY <2>3 DEF UnlinkStale, Finish, Hold, Types
      <3> QED BY <2>a, <2>3, <3>1, <3>2, <3>3, CommandKeepsKnown DEF UnlinkStale, HasPid
    <2>4. CASE Spawn(c)
      <3>0. cpc[c] # "idle" /\ \A p \in Pids : p \notin Nodes
        BY <2>a, <2>4 DEF Spawn, Known
      <3>1. CASE \E p \in Pids : Free(p) /\ Become(p, "starting") /\ Hold(c, p)
        <4>1. PICK p \in Pids : Become(p, "starting") /\ Hold(c, p)
          BY <3>1
        <4>2. held'[c] = p /\ \A d \in Clis \ {c} : held'[d] = held[d]
          BY <4>1 DEF Hold, Types
        <4>3. \A q \in Pids : q \in Nodes' => q = held'[c]
          BY <3>0, <4>1, <4>2 DEF Become, Nodes, Types
        <4>4. cpc[c] = "spawn" /\ cpc' \in {[cpc EXCEPT ![c] = "open"], [cpc EXCEPT ![c] = "idle"]}
          BY <2>4 DEF Spawn, Step, Finish
        <4>5. CASE cpc' = [cpc EXCEPT ![c] = "open"]
          BY <2>a, <3>0, <4>2, <4>3, <4>5, CommandKeepsKnown DEF HasPid
        <4>6. CASE cpc' = [cpc EXCEPT ![c] = "idle"]
          <5>1. \A q \in Pids : ~Free(q)
            BY <2>4, <4>4, <4>6 DEF Spawn, Step, Types
          <5> QED BY <3>1, <5>1
        <4> QED BY <4>4, <4>5, <4>6
      <3>2. CASE Finish(c) /\ UNCHANGED proc
        <4>1. \A p \in Pids : p \notin Nodes'
          BY <3>0, <3>2 DEF Nodes
        <4>2. cpc' = [cpc EXCEPT ![c] = "idle"] /\ \A d \in Clis \ {c} : held'[d] = held[d]
          BY <3>2 DEF Finish, Step, Hold, Types
        <4> QED BY <2>a, <3>0, <4>1, <4>2, CommandKeepsKnown DEF HasPid
      <3> QED BY <2>4, <3>1, <3>2 DEF Spawn
    <2>5. CASE OpenPidFile(c)
      <3>1. /\ cpc[c] = "open" /\ cpc' = [cpc EXCEPT ![c] = "write"]
            /\ UNCHANGED <<proc, held>>
        BY <2>5 DEF OpenPidFile, Step
      <3>2. \A p \in Pids : p \in Nodes' => p = held'[c]
        BY <2>a, <3>1 DEF Known, Nodes, HasPid
      <3> QED BY <2>a, <3>1, <3>2, CommandKeepsKnown DEF HasPid
    <2>6. CASE WritePidFile(c)
      <3>1. /\ cpc[c] = "write" /\ cpc' = [cpc EXCEPT ![c] = "idle"] /\ file' = held[c]
            /\ UNCHANGED proc /\ \A d \in Clis \ {c} : held'[d] = held[d]
        BY <2>6 DEF WritePidFile, Step, Finish, Hold, Types
      <3>2. \A p \in Pids : p \in Nodes' => p = file'
        BY <2>a, <3>1 DEF Known, Nodes, HasPid
      <3> QED BY <2>a, <3>1, <3>2, CommandKeepsKnown DEF HasPid
    <2>7. CASE ReadPid(c)
      <3>0. cpc[c] = "read" /\ Nodes' = Nodes
        BY <2>7 DEF ReadPid, Nodes
      <3>1. \A p \in Pids : p \in Nodes => p = file
        BY <2>a, <3>0, FileNames
      <3>2. CASE ~IsDaemonRunning
        <4>1. \A p \in Pids : p \notin Nodes'
          BY <3>0, <3>1, <3>2 DEF IsDaemonRunning, Alive, Nodes
        <4>2. PICK s \in {"wipe", "idle"} : cpc' = [cpc EXCEPT ![c] = s]
          BY <2>7, <3>2 DEF ReadPid, StopReturns, Step
        <4>3. \A d \in Clis \ {c} : held'[d] = held[d]
          BY <2>7 DEF ReadPid, StopReturns, Hold, Types
        <4> QED BY <2>a, <3>0, <4>1, <4>2, <4>3, CommandKeepsKnown DEF HasPid
      <3>3. CASE IsDaemonRunning
        <4>1. file \in Pids
          BY <3>3 DEF IsDaemonRunning
        <4>2. Hold(c, file) /\ cpc' = [cpc EXCEPT ![c] = "term"]
          BY <2>7, <3>3, <4>1 DEF ReadPid, Step
        <4>3. held'[c] = file /\ \A d \in Clis \ {c} : held'[d] = held[d]
          BY <4>2 DEF Hold, Types
        <4> QED BY <2>a, <3>0, <3>1, <4>2, <4>3, CommandKeepsKnown DEF HasPid
      <3> QED BY <3>2, <3>3
    <2>8. CASE Term(c)
      <3>0. cpc[c] = "term" /\ UNCHANGED held /\ held[c] \in Pids
        BY <2>8 DEF Term, Types, HasPid
      <3>1. \A p \in Pids : p \in Nodes => p = held[c]
        BY <2>a, <3>0 DEF Known, HasPid
      <3>2. CASE ~Alive(held[c])
        <4>1. \A p \in Pids : p \notin Nodes'
          BY <2>8, <3>1, <3>2 DEF Term, Alive, Nodes
        <4>2. cpc' = [cpc EXCEPT ![c] = "drop"]
          BY <2>8, <3>2 DEF Term, Step
        <4> QED BY <2>a, <3>0, <4>1, <4>2, CommandKeepsKnown DEF HasPid
      <3>3. CASE Alive(held[c])
        <4>1. cpc' = [cpc EXCEPT ![c] = "wait"] /\ \E s : Become(held[c], s)
          BY <2>8, <3>3 DEF Term, Step
        <4>2. \A p \in Pids : p \in Nodes' => p = held'[c]
          BY <3>0, <3>1, <4>1 DEF Become, Nodes, Types
        <4> QED BY <2>a, <3>0, <4>1, <4>2, CommandKeepsKnown DEF HasPid
      <3> QED BY <3>2, <3>3
    <2>9. CASE SeenGone(c)
      <3>0. /\ cpc[c] = "wait" /\ UNCHANGED <<held, proc>> /\ ~Alive(held[c])
            /\ cpc' = [cpc EXCEPT ![c] = "drop"]
        BY <2>9 DEF SeenGone, Step
      <3>1. \A p \in Pids : p \notin Nodes'
        BY <2>a, <3>0 DEF Known, HasPid, Alive, Nodes
      <3> QED BY <2>a, <3>0, <3>1, CommandKeepsKnown DEF HasPid
    <2>10. CASE TimedOut(c)
      <3>0. cpc[c] = "wait" /\ UNCHANGED <<held, proc>> /\ cpc' = [cpc EXCEPT ![c] = "kill"]
        BY <2>10 DEF TimedOut, Step
      <3>1. \A p \in Pids : p \in Nodes' => p = held'[c]
        BY <2>a, <3>0 DEF Known, HasPid, Nodes
      <3> QED BY <2>a, <3>0, <3>1, CommandKeepsKnown DEF HasPid
    <2>11. CASE Kill(c)
      <3>0. /\ cpc[c] = "kill" /\ UNCHANGED held /\ Become(held[c], "none")
            /\ cpc' = [cpc EXCEPT ![c] = "drop"]
        BY <2>11 DEF Kill, Step
      <3>1. \A p \in Pids : p \notin Nodes'
        BY <2>a, <3>0 DEF Known, HasPid, Become, Nodes, Types
      <3> QED BY <2>a, <3>0, <3>1, CommandKeepsKnown DEF HasPid
    <2>12. CASE DropPidFile(c) \/ Wipe(c)
      <3>1. \A p \in Pids : p \notin Nodes'
        BY <2>a, <2>12 DEF DropPidFile, Wipe, Known, Nodes
      <3>2. PICK s \in {"wipe", "idle"} : cpc' = [cpc EXCEPT ![c] = s]
        BY <2>12 DEF DropPidFile, Wipe, StopReturns, Finish, Step
      <3>3. cpc[c] # "idle" /\ \A d \in Clis \ {c} : held'[d] = held[d]
        BY <2>12 DEF DropPidFile, Wipe, StopReturns, Finish, Hold, Types
      <3> QED BY <2>a, <3>1, <3>2, <3>3, CommandKeepsKnown DEF HasPid
    <2> QED BY <1>1, <2>1, <2>2, <2>3, <2>4, <2>5, <2>6, <2>7, <2>8, <2>9, <2>10, <2>11, <2>12
            DEF CommandStep
  <1>2. ASSUME NEW c \in Clis, NEW k \in {"start", "stop", "reset"}, Begin(c, k) PROVE Known'
    <2>1. mishaps = {} /\ \A d \in Clis : cpc[d] = "idle"
      BY <1>2 DEF Begin
    <2>2. \A p \in Pids : p \in Nodes' => p = file'
      BY <1>2, <2>1 DEF Begin, KnownInv, Known, Nodes
    <2>3. PICK s \in {"read", "check"} : cpc' = [cpc EXCEPT ![c] = s]
      BY <1>2 DEF Begin
    <2>4. cpc'[c] \in {"read", "check"} /\ \A d \in Clis \ {c} : cpc'[d] = "idle"
      BY <2>1, <2>3 DEF Types
    <2> QED BY <2>2, <2>4 DEF Known, HasPid
  <1>3. ASSUME NEW p \in Pids,
               Boot(p) \/ Bind(p) \/ ExitNode(p) \/ Die(p) \/ StopSignal(p) \/ ForeignProcess(p)
        PROVE  Known'
    <2>1. UNCHANGED <<file, cpc, held, mishaps>>
      BY <1>3 DEF Boot, Bind, ExitNode, Die, StopSignal, ForeignProcess, Others
    <2>2. \A q \in Pids : q \in Nodes' => q \in Nodes
      BY <1>3 DEF Boot, Bind, ExitNode, Die, StopSignal, ForeignProcess, Become, Nodes, Types
    <2> QED BY <2>1, <2>2, FewerNodes DEF KnownInv
  <1>4. ASSUME UNCHANGED daemonVars PROVE Known'
    BY <1>4 DEF daemonVars, KnownInv, Known, Nodes
  <1>5. /\ \A c \in Clis : ~Interrupt(c)
        /\ \A p \in Pids : ~StartInTerminal(p)
        /\ ~CleanTmp
    BY DEF Interrupt, StartInTerminal, CleanTmp
  <1> QED BY <1>1, <1>2, <1>3, <1>4, <1>5 DEF Next

\* FreshInv is inductive: a node that a command did not end sets died, and one that
\* a command did end has its pid kept from others until the file is gone.
LEMMA FreshInductive ==
    ASSUME Types, FreshInv, [Next]_daemonVars
    PROVE  FreshInv'
  <1> SUFFICES ASSUME ~died', mishaps' \cap {"overlap", "interrupt"} = {} PROVE Fresh'
    BY DEF FreshInv
  <1> USE PidsAssumption DEF Nodes, Stopping, HasPid, NoPidYet
  <1>0. mishaps \subseteq mishaps' /\ (died => died')
    <2>1. ASSUME NEW c \in Clis, CommandStep(c) PROVE UNCHANGED <<mishaps, died>>
      BY <2>1 DEF CommandStep, CheckRunning, FindStale, UnlinkStale, Spawn, OpenPidFile,
                  WritePidFile, ReadPid, Term, SeenGone, TimedOut, Kill, DropPidFile, Wipe,
                  Finish, StopReturns, Step
    <2>2. ASSUME NEW c \in Clis, \/ Interrupt(c)
                                 \/ \E k \in {"start", "stop", "reset"} : Begin(c, k)
          PROVE  mishaps \subseteq mishaps' /\ died' = died
      BY <2>2 DEF Interrupt, Begin
    <2>3. ASSUME NEW p \in Pids,
                 Boot(p) \/ Bind(p) \/ ExitNode(p) \/ Die(p) \/ StopSignal(p)
                         \/ StartInTerminal(p) \/ ForeignProcess(p)
          PROVE  mishaps \subseteq mishaps' /\ (died => died')
      <3>1. mishaps \subseteq mishaps'
        BY <2>3 DEF Boot, Bind, ExitNode, Die, StopSignal, StartInTerminal, ForeignProcess, Others
      <3>2. died => died'
        BY <2>3, Zenon
           DEF Boot, Bind, ExitNode, Die, StopSignal, StartInTerminal, ForeignProcess
      <3> QED BY <3>1, <3>2
    <2>4. CASE CleanTmp \/ UNCHANGED daemonVars
      BY <2>4 DEF CleanTmp, daemonVars
    <2> QED BY <2>1, <2>2, <2>3, <2>4 DEF Next
  <1>1. Fresh
    BY <1>0 DEF FreshInv
  <1>2. ASSUME NEW c \in Clis, CommandStep(c) PROVE Fresh'
    <2>1. CASE CheckRunning(c)
      BY <1>1, <2>1 DEF CheckRunning, Types, Fresh, Step, Hold, Finish
    <2>2. CASE FindStale(c)
      BY <1>1, <2>2 DEF FindStale, Types, Fresh, Step
    <2>3. CASE UnlinkStale(c)
      BY <1>1, <2>3 DEF UnlinkStale, Types, Fresh, Step, Hold, Finish
    <2>4. CASE Spawn(c)
      BY <1>1, <2>4 DEF Spawn, Types, Fresh, Step, Hold, Finish, Become, Free, Alive
    <2>5. CASE OpenPidFile(c)
      BY <1>1, <2>5 DEF OpenPidFile, Types, Fresh, Step
    <2>6. CASE WritePidFile(c)
      BY <1>1, <2>6 DEF WritePidFile, Types, Fresh, Step, Hold, Finish
    <2>7. CASE ReadPid(c)
      BY <1>1, <2>7 DEF ReadPid, Types, Fresh, Step, Hold, StopReturns, IsDaemonRunning, Alive
    <2>8. CASE Term(c)
      <3>1. \A s \in Terminated(proc[held[c]]) : s \in {"none", "draining"}
        BY DEF Terminated
      <3>2. held[c] \in Pids /\ proc[held[c]] # "foreign" /\ cmd[c] # "start"
        BY <1>1, <2>8 DEF Term, Types, Fresh
      <3>3. CASE ~Alive(held[c])
        BY <1>1, <2>8, <3>2, <3>3 DEF Term, Types, Fresh, Step
      <3>4. CASE Alive(held[c])
        <4>1. ~hit'
          BY <1>1, <2>8, <3>2, <3>4 DEF Term, Fresh, Signal
        <4>2. PICK s \in {"none", "draining"} : proc' = [proc EXCEPT ![held[c]] = s]
          BY <2>8, <3>1, <3>4 DEF Term, Become
        <4>3. cpc' = [cpc EXCEPT ![c] = "wait"] /\ UNCHANGED <<file, held, cmd>>
          BY <2>8, <3>4 DEF Term, Step
        <4> QED BY <1>1, <2>8, <3>2, <4>1, <4>2, <4>3 DEF Term, Types, Fresh
      <3> QED BY <3>3, <3>4
    <2>9. CASE SeenGone(c) \/ TimedOut(c)
      BY <1>1, <2>9 DEF SeenGone, TimedOut, Types, Fresh, Step
    <2>10. CASE Kill(c)
      <3>1. held[c] \in Pids /\ proc[held[c]] # "foreign" /\ cmd[c] # "start"
        BY <1>1, <2>10 DEF Kill, Types, Fresh
      <3>2. ~hit'
        BY <1>1, <2>10, <3>1 DEF Kill, Fresh, Signal
      <3> QED BY <1>1, <2>10, <3>1, <3>2 DEF Kill, Types, Fresh, Step, Become
    <2>11. CASE DropPidFile(c)
      BY <1>1, <2>11 DEF DropPidFile, Types, Fresh, Step, Hold, StopReturns
    <2>12. CASE Wipe(c)
      BY <1>1, <2>12 DEF Wipe, Types, Fresh, Step, Hold, Finish
    <2> QED BY <1>2, <2>1, <2>2, <2>3, <2>4, <2>5, <2>6, <2>7, <2>8, <2>9, <2>10, <2>11, <2>12
            DEF CommandStep
  <1>3. ASSUME NEW c \in Clis, NEW k \in {"start", "stop", "reset"}, Begin(c, k) PROVE Fresh'
    BY <1>1, <1>3 DEF Begin, Types, Fresh
  <1>4. ASSUME NEW p \in Pids, Boot(p) \/ Bind(p) \/ StopSignal(p) PROVE Fresh'
    BY <1>1, <1>4 DEF Boot, Bind, StopSignal, Types, Fresh, Become, Others
  <1>5. ASSUME NEW p \in Pids, ExitNode(p) PROVE Fresh'
    <2>1. PICK d \in Clis : held[d] = p /\ cmd[d] # "start"
      BY <1>5 DEF ExitNode
    <2>2. cpc[d] \in Stopping
      BY <1>1, <2>1 DEF Types, Fresh
    <2> QED BY <1>1, <1>5, <2>1, <2>2 DEF ExitNode, Types, Fresh, Become, Others
  <1>6. ASSUME NEW p \in Pids, StartInTerminal(p) \/ ForeignProcess(p) PROVE Fresh'
    BY <1>1, <1>6 DEF StartInTerminal, ForeignProcess, Types, Fresh, Become, Free, Alive, Others
  <1>7. CASE CleanTmp \/ UNCHANGED daemonVars
    BY <1>1, <1>7 DEF CleanTmp, daemonVars, Types, Fresh
  <1>8. /\ \A c \in Clis : ~Interrupt(c)
        /\ \A p \in Pids : ~Die(p)
    BY DEF Interrupt, Die
  <1> QED BY <1>2, <1>3, <1>4, <1>5, <1>6, <1>7, <1>8 DEF Next

\* Both invariants hold throughout.
LEMMA KnownHolds == Spec => [](Types /\ KnownInv)
  <1>1. Init => Types /\ KnownInv
    BY PidsAssumption DEF Init, Types, KnownInv, Known, Nodes, HasPid, NoPidYet
  <1> QED BY <1>1, TypesInductive, KnownInductive, PTL DEF Spec

-----------------------------------------------------------------------------
\* start_daemon and stop_daemon always know which process they signal or write down
\* (daemon.py 96-242): the pid is in hand from Popen or the read of the pid file on.
THEOREM PidInHand == Spec => []DaemonTypeOK
  <1>1. Types => DaemonTypeOK
    BY PidsAssumption DEF Types, DaemonTypeOK, HasPid, NoPidYet
  <1> QED BY <1>1, KnownHolds, PTL

\* The single consumer that RedisConsumer assumes: no sequence of starts, stops and
\* resets that do not overlap leaves two processes with a consumer task, whatever
\* the nodes do (daemon.py 119-184, 201-242).
THEOREM NeverTwoConsumers == Spec => []OneConsumer
  <1>1. ASSUME Types, KnownInv PROVE OneConsumer
    <2> SUFFICES ASSUME mishaps = {} PROVE Cardinality(Workers) <= 1
      BY DEF OneConsumer
    <2>1. Known
      BY <1>1 DEF KnownInv
    <2>2. \E x : Workers \subseteq {x}
      <3>1. \A p \in Workers : p \in Pids /\ p \in Nodes
        BY DEF Workers, Nodes
      <3>2. CASE \A p \in Pids : p \in Nodes => p = file
        BY <3>1, <3>2
      <3>3. CASE \E c \in Clis : cpc[c] \notin {"idle", "check", "read"}
        <4>1. PICK c \in Clis : cpc[c] \notin {"idle", "check", "read"}
          BY <3>3
        <4>2. cpc[c] \in HasPid \/ cpc[c] \in {"clean", "unlink", "spawn", "drop", "wipe"}
          BY <1>1, <4>1 DEF Types, HasPid, NoPidYet
        <4> QED BY <2>1, <3>1, <4>2 DEF Known
      <3> QED BY <2>1, <3>2, <3>3 DEF Known
    <2>3. PICK x : Workers = {} \/ Workers = {x}
      BY <2>2
    <2>4. CASE Workers = {}
      <3>1. Cardinality(Workers) = 0
        BY <2>4, FS_EmptySet, Zenon
      <3> QED BY <3>1
    <2>5. CASE Workers = {x}
      <3>1. Cardinality(Workers) = 1
        BY <2>5, FS_Singleton, Zenon
      <3> QED BY <3>1
    <2> QED BY <2>3, <2>4, <2>5
  <1> QED BY <1>1, KnownHolds, PTL

\* Every node that runs in the background can be stopped: between commands the pid
\* file names it, under the same terms.
THEOREM NodeAlwaysNamed == Spec => []NodeIsNamed
  <1>1. ASSUME Types, KnownInv PROVE NodeIsNamed
    BY <1>1 DEF NodeIsNamed, KnownInv, Known, Nodes
  <1> QED BY <1>1, KnownHolds, PTL

\* stop and reset signal a stranger's process only through the pid file of a node
\* that ended by itself, or when the protocol was broken (daemon.py 201-242).
THEOREM StrangersAreSafe == Spec => []OnlyStaleFileHits
  <1>1. Init => FreshInv
    BY PidsAssumption DEF Init, FreshInv, Fresh, Stopping
  <1>2. FreshInv => OnlyStaleFileHits
    BY DEF FreshInv, Fresh, OnlyStaleFileHits
  <1> QED BY <1>1, <1>2, KnownHolds, FreshInductive, PTL DEF Spec

\* How many steps a command has ahead of it at most; the polling for the exit is one.
StepsLeft(p) ==
    CASE p = "idle" -> 0 [] p \in {"wipe", "write"} -> 1 [] p \in {"drop", "open"} -> 2
      [] p \in {"kill", "spawn"} -> 3 [] p \in {"wait", "unlink"} -> 4
      [] p \in {"term", "clean"} -> 5 [] p = "read" -> 6 [] OTHER -> 7

\* A command never goes back, and nothing another operator or a process does sends it
\* back: each of its own steps brings its end nearer, so that it returns after at most
\* seven, whether the node it stops reacts or not (daemon.py 119-184, 221-237).  This is
\* the part of CommandsEnd that needs no fairness.
THEOREM CommandsMoveOn ==
    Spec => [][\A c \in Clis : cpc[c] # "idle" =>
                  \/ cpc'[c] = cpc[c] /\ ~CommandStep(c)
                  \/ StepsLeft(cpc'[c]) < StepsLeft(cpc[c])]_daemonVars
  <1>1. ASSUME Types, NEW c \in Clis, CommandStep(c)
        PROVE  cpc[c] # "idle" /\ StepsLeft(cpc'[c]) < StepsLeft(cpc[c])
    <2> USE DEF Types, StepsLeft, Step, Hold, Finish, StopReturns
    <2>1. CASE CheckRunning(c)
      BY <1>1, <2>1 DEF CheckRunning
    <2>2. CASE FindStale(c) \/ UnlinkStale(c)
      BY <1>1, <2>2 DEF FindStale, UnlinkStale
    <2>3. CASE Spawn(c) \/ OpenPidFile(c) \/ WritePidFile(c)
      BY <1>1, <2>3 DEF Spawn, OpenPidFile, WritePidFile
    <2>4. CASE ReadPid(c)
      BY <1>1, <2>4 DEF ReadPid
    <2>5. CASE Term(c) \/ SeenGone(c) \/ TimedOut(c) \/ Kill(c)
      BY <1>1, <2>5 DEF Term, SeenGone, TimedOut, Kill
    <2>6. CASE DropPidFile(c) \/ Wipe(c)
      BY <1>1, <2>6 DEF DropPidFile, Wipe
    <2> QED BY <1>1, <2>1, <2>2, <2>3, <2>4, <2>5, <2>6 DEF CommandStep
  <1>2. ASSUME Types, NEW c \in Clis, NEW d \in Clis, CommandStep(d), c # d
        PROVE  cpc'[c] = cpc[c]
    BY <1>2 DEF Types, CommandStep, CheckRunning, FindStale, UnlinkStale, Spawn, OpenPidFile,
       WritePidFile, ReadPid, Term, SeenGone, TimedOut, Kill, DropPidFile, Wipe, Step, Finish,
       StopReturns
  <1>3. ASSUME Types, NEW c \in Clis, NEW d \in Clis, Interrupt(d), cpc[c] # "idle"
        PROVE  cpc'[c] = cpc[c] \/ StepsLeft(cpc'[c]) < StepsLeft(cpc[c])
    BY <1>3 DEF Types, Interrupt, StepsLeft, HasPid, NoPidYet
  <1>4. ASSUME Types, NEW c \in Clis, NEW d \in Clis, NEW k, Begin(d, k), cpc[c] # "idle"
        PROVE  cpc'[c] = cpc[c]
    BY <1>4 DEF Types, Begin
  <1>5. ASSUME NEW p, \/ Boot(p) \/ Bind(p) \/ ExitNode(p) \/ Die(p) \/ StopSignal(p)
                      \/ StartInTerminal(p) \/ ForeignProcess(p) \/ CleanTmp
        PROVE  cpc' = cpc
    BY <1>5 DEF Boot, Bind, ExitNode, Die, StopSignal, StartInTerminal, ForeignProcess, CleanTmp,
       Others
  <1>6. Types /\ [Next]_daemonVars =>
          [\A c \in Clis : cpc[c] # "idle" =>
              \/ cpc'[c] = cpc[c] /\ ~CommandStep(c)
              \/ StepsLeft(cpc'[c]) < StepsLeft(cpc[c])]_daemonVars
    <2> SUFFICES ASSUME Types, Next, NEW c \in Clis, cpc[c] # "idle", ~CommandStep(c)
                 PROVE  cpc'[c] = cpc[c] \/ StepsLeft(cpc'[c]) < StepsLeft(cpc[c])
      BY <1>1
    <2> QED BY <1>2, <1>3, <1>4, <1>5 DEF Next
  <1> QED BY <1>6, KnownHolds, PTL DEF Spec
=============================================================================
