------------------------------- MODULE Daemon -------------------------------
(***************************************************************************)
(* The background node as `coda start --daemon', `stop' and `reset' see it *)
(* (server/daemon.py, server/cli.py): a pid file without a lock, commands  *)
(* of several operators that interleave between their file system and      *)
(* signal calls, and processes that boot, serve, drain and die.            *)
(*                                                                         *)
(* uvicorn is external: it runs the lifespan's startup, which creates the  *)
(* consumer task, before it binds the port; when the port is taken it      *)
(* shuts the lifespan down again and exits.  SIGTERM starts the drain.     *)
(* The pid file belongs to one user, so kill never fails for permission.   *)
(***************************************************************************)
EXTENDS Naturals, FiniteSets

CONSTANTS
    Clis,           \* operators, each with one command under way at most
    Pids, NoPid,    \* process ids, and none
    MaxCommands     \* bound: commands and terminal starts in a behaviour

ASSUME PidsAssumption ==
    NoPid \notin Pids /\ {"absent", "empty"} \cap Pids = {} /\ MaxCommands \in Nat

VARIABLES
    file,       \* the pid file: absent, empty (truncated, not yet written), or a pid
    proc,       \* per pid: none, starting, booted, serving, draining, foreign
    cpc, cmd,   \* per operator: next step of the command, and which command
    held,       \* per operator: the pid that start_daemon or stop_daemon works with
    commands,   \* history: commands so far
    mishaps,    \* history: what takes the pid file's protocol out of its terms
    died,       \* history: a node ended by itself
    hit         \* history: a process that is no node was signalled

daemonVars == <<file, proc, cpc, cmd, held, commands, mishaps, died, hit>>

Alive(p) == proc[p] # "none"
Nodes == {p \in Pids : proc[p] \in {"starting", "booted", "serving", "draining"}}
\* the processes whose consumer task exists
Workers == {p \in Pids : proc[p] \in {"booted", "serving", "draining"}}

\* A pid is not reused while a command still works with it: the kernel cycles
\* through its whole range before it does.
Free(p) == ~Alive(p) /\ \A c \in Clis : held[c] # p

\* is_daemon_running: read_daemon_pid, then kill(pid, 0)
IsDaemonRunning == \E p \in Pids : file = p /\ Alive(p)

Become(p, s) == proc' = [proc EXCEPT ![p] = s]

-----------------------------------------------------------------------------
(***************************************************************************)
(* Commands.                                                               *)
(***************************************************************************)
Step(c, next) == cpc' = [cpc EXCEPT ![c] = next] /\ UNCHANGED <<cmd, commands, mishaps>>
Hold(c, p) == held' = [held EXCEPT ![c] = p]
Finish(c) == Step(c, "idle") /\ Hold(c, NoPid)

\* stop_daemon returns: `reset' goes on to delete the files
StopReturns(c) == Step(c, IF cmd[c] = "reset" THEN "wipe" ELSE "idle") /\ Hold(c, NoPid)

Begin(c, k) ==
    /\ cpc[c] = "idle" /\ commands < MaxCommands
    /\ cmd' = [cmd EXCEPT ![c] = k] /\ commands' = commands + 1
    /\ cpc' = [cpc EXCEPT ![c] = IF k = "reset" THEN "read" ELSE "check"]
    /\ mishaps' = IF \E d \in Clis : cpc[d] # "idle" THEN mishaps \cup {"overlap"} ELSE mishaps
    /\ UNCHANGED <<file, proc, held, died, hit>>

\* Mutant of CheckRunning: stop signals without having read the pid.
StopUnread(c) ==
    /\ cpc[c] = "check"
    /\ Step(c, IF cmd[c] = "start" THEN "clean" ELSE "term")
    /\ UNCHANGED <<file, proc, held, died, hit>>

\* the checks of main() and, for start, the second one in start_daemon()
CheckRunning(c) ==
    /\ cpc[c] = "check"
    /\ \/ cmd[c] = "start" /\ IsDaemonRunning /\ Finish(c)
       \/ cmd[c] = "start" /\ ~IsDaemonRunning /\ Step(c, "clean") /\ UNCHANGED held
       \/ cmd[c] = "stop" /\ IsDaemonRunning /\ Step(c, "read") /\ UNCHANGED held
       \/ cmd[c] = "stop" /\ ~IsDaemonRunning /\ Finish(c)
    /\ UNCHANGED <<file, proc, died, hit>>

\* start_daemon: is there a stale pid file?
FindStale(c) ==
    /\ cpc[c] = "clean"
    /\ Step(c, IF file = "absent" THEN "spawn" ELSE "unlink")
    /\ UNCHANGED <<file, proc, held, died, hit>>

\* ... then it is removed; if it vanished meanwhile, FileNotFoundError ends the command
UnlinkStale(c) ==
    /\ cpc[c] = "unlink"
    /\ \/ file # "absent" /\ file' = "absent" /\ Step(c, "spawn") /\ UNCHANGED held
       \/ file = "absent" /\ Finish(c) /\ UNCHANGED file
    /\ UNCHANGED <<proc, died, hit>>

\* Popen, which raises when there is no pid left
Spawn(c) ==
    /\ cpc[c] = "spawn"
    /\ \/ /\ \E p \in Pids : Free(p) /\ Become(p, "starting") /\ Hold(c, p)
          /\ Step(c, "open")
       \/ (\A p \in Pids : ~Free(p)) /\ Finish(c) /\ UNCHANGED proc
    /\ UNCHANGED <<file, died, hit>>

\* write_text: the file is truncated, then written
OpenPidFile(c) ==
    /\ cpc[c] = "open" /\ file' = "empty" /\ Step(c, "write")
    /\ UNCHANGED <<proc, held, died, hit>>

\* Mutant of WritePidFile: the pid is never flushed.
NeverWritten(c) == cpc[c] = "write" /\ Finish(c) /\ UNCHANGED <<file, proc, died, hit>>

WritePidFile(c) ==
    /\ cpc[c] = "write" /\ file' = held[c] /\ Finish(c)
    /\ UNCHANGED <<proc, died, hit>>

\* stop_daemon: no pid, a stale pid (the file is removed), or a process to stop
ReadPid(c) ==
    /\ cpc[c] = "read"
    /\ \/ file \in {"absent", "empty"} /\ StopReturns(c) /\ UNCHANGED file
       \/ file \in Pids /\ ~IsDaemonRunning /\ file' = "absent" /\ StopReturns(c)
       \/ IsDaemonRunning /\ Hold(c, file) /\ Step(c, "term") /\ UNCHANGED file
    /\ UNCHANGED <<proc, died, hit>>

\* what SIGTERM makes of a process: before uvicorn has installed its handlers it
\* kills, and a drain under way is not disturbed
Terminated(s) ==
    CASE s = "starting" -> {"none", "draining"}
      [] s \in {"booted", "serving", "draining"} -> {"draining"}
      [] OTHER -> {"none"}

Signal(p) == hit' = (hit \/ proc[p] = "foreign")

\* SIGTERM; ProcessLookupError when the process is gone already
Term(c) ==
    /\ cpc[c] = "term"
    /\ \/ /\ Alive(held[c]) /\ Signal(held[c]) /\ Step(c, "wait")
          /\ \E s \in Terminated(proc[held[c]]) : Become(held[c], s)
       \/ ~Alive(held[c]) /\ Step(c, "drop") /\ UNCHANGED <<proc, hit>>
    /\ UNCHANGED <<file, held, died>>

\* the polling loop: the process is gone
SeenGone(c) ==
    /\ cpc[c] = "wait" /\ ~Alive(held[c]) /\ Step(c, "drop")
    /\ UNCHANGED <<file, proc, held, died, hit>>

\* Mutant of TimedOut: the command waits for as long as it takes.
NoTimeout(c) == FALSE
\* Mutant of TimedOut: a node that does not exit in time is left alone.
LetGo(c) ==
    /\ cpc[c] = "wait" /\ Alive(held[c]) /\ Step(c, "drop")
    /\ UNCHANGED <<file, proc, held, died, hit>>

\* ... or it is not after the timeout
TimedOut(c) ==
    /\ cpc[c] = "wait" /\ Alive(held[c]) /\ Step(c, "kill")
    /\ UNCHANGED <<file, proc, held, died, hit>>

\* SIGKILL, and half a second for it to take effect
Kill(c) ==
    /\ cpc[c] = "kill" /\ Step(c, "drop")
    /\ Become(held[c], "none") /\ Signal(held[c])
    /\ UNCHANGED <<file, held, died>>

\* Mutant of DropPidFile: the file is left behind.
KeepPidFile(c) == cpc[c] = "drop" /\ StopReturns(c) /\ UNCHANGED <<file, proc, died, hit>>

\* the pid file is removed, whatever it says by now
DropPidFile(c) ==
    /\ cpc[c] = "drop" /\ file' = "absent" /\ StopReturns(c)
    /\ UNCHANGED <<proc, died, hit>>

\* the rest of _reset, as far as the pid file goes
Wipe(c) ==
    /\ cpc[c] = "wipe" /\ file' = "absent" /\ Finish(c)
    /\ UNCHANGED <<proc, died, hit>>

CommandStep(c) ==
    \/ CheckRunning(c) \/ FindStale(c) \/ UnlinkStale(c) \/ Spawn(c) \/ OpenPidFile(c)
    \/ WritePidFile(c) \/ ReadPid(c) \/ Term(c) \/ SeenGone(c) \/ TimedOut(c) \/ Kill(c)
    \/ DropPidFile(c) \/ Wipe(c)

-----------------------------------------------------------------------------
(***************************************************************************)
(* Processes, and what else happens on the machine.                        *)
(***************************************************************************)
Others == <<file, cpc, cmd, held, commands, mishaps, hit>>

\* the lifespan's startup is done: tasks are running
Boot(p) == proc[p] = "starting" /\ Become(p, "booted") /\ UNCHANGED <<Others, died>>

\* uvicorn binds the port, or gives up because another node serves
Bind(p) ==
    /\ proc[p] = "booted"
    /\ Become(p, IF \E q \in Pids : proc[q] = "serving" THEN "draining" ELSE "serving")
    /\ UNCHANGED <<Others, died>>

\* the drain is over
ExitNode(p) ==
    /\ proc[p] = "draining" /\ Become(p, "none")
    /\ died' = (died \/ \A c \in Clis : held[c] # p \/ cmd[c] = "start")
    /\ UNCHANGED Others

\* a failed startup, or a crash
Die(p) == p \in Nodes /\ Become(p, "none") /\ died' = TRUE /\ UNCHANGED Others

\* Ctrl-C in a terminal, or a signal that no command of this module sends
StopSignal(p) ==
    /\ proc[p] \in {"booted", "serving"} /\ Become(p, "draining")
    /\ UNCHANGED <<Others, died>>

\* `coda start' in a terminal writes no pid file
StartInTerminal(p) ==
    /\ Free(p) /\ Become(p, "starting") /\ commands < MaxCommands
    /\ commands' = commands + 1 /\ mishaps' = mishaps \cup {"terminal"}
    /\ UNCHANGED <<file, cpc, cmd, held, died, hit>>

\* another program gets a free pid, or ends
ForeignProcess(p) ==
    /\ \/ Free(p) /\ Become(p, "foreign")
       \/ proc[p] = "foreign" /\ Become(p, "none")
    /\ UNCHANGED <<Others, died>>

\* an operator kills a command
Interrupt(c) ==
    /\ cpc[c] # "idle" /\ cpc' = [cpc EXCEPT ![c] = "idle"] /\ Hold(c, NoPid)
    /\ mishaps' = mishaps \cup {"interrupt"}
    /\ UNCHANGED <<file, proc, cmd, commands, died, hit>>

\* the temporary directory is cleaned up
CleanTmp ==
    /\ file # "absent" /\ file' = "absent" /\ mishaps' = mishaps \cup {"cleaned"}
    /\ UNCHANGED <<proc, cpc, cmd, held, commands, died, hit>>

-----------------------------------------------------------------------------
Init ==
    /\ file = "absent" /\ proc = [p \in Pids |-> "none"]
    /\ cpc = [c \in Clis |-> "idle"] /\ cmd = [c \in Clis |-> "stop"]
    /\ held = [c \in Clis |-> NoPid]
    /\ commands = 0 /\ mishaps = {} /\ died = FALSE /\ hit = FALSE

Next ==
    \/ \E c \in Clis : \/ CommandStep(c) \/ Interrupt(c)
                       \/ \E k \in {"start", "stop", "reset"} : Begin(c, k)
    \/ \E p \in Pids : \/ Boot(p) \/ Bind(p) \/ ExitNode(p) \/ Die(p) \/ StopSignal(p)
                       \/ StartInTerminal(p) \/ ForeignProcess(p)
    \/ CleanTmp

Spec == Init /\ [][Next]_daemonVars

\* Commands run on; nothing is assumed of the processes they wait for.
FairSpec == Spec /\ \A c \in Clis : WF_daemonVars(CommandStep(c))

-----------------------------------------------------------------------------
(***************************************************************************)
(* Properties.                                                             *)
(***************************************************************************)
\* Types; the pid a command works with is known exactly from Popen or the read of
\* the pid file on.
DaemonTypeOK ==
    /\ file \in Pids \cup {"absent", "empty"}
    /\ proc \in [Pids -> {"none", "starting", "booted", "serving", "draining", "foreign"}]
    /\ \A c \in Clis :
          IF cpc[c] \in {"open", "write", "term", "wait", "kill", "drop"}
          THEN held[c] \in Pids
          ELSE /\ cpc[c] \in {"idle", "check", "clean", "unlink", "spawn", "read", "wipe"}
               /\ held[c] = NoPid

\* There is never more than one consumer, as RedisConsumer assumes: not while a
\* stopped node still drains, not after crashes, failed binds and stale pid files,
\* as long as commands do not overlap, none is interrupted, nobody cleans the
\* temporary directory and no node is started in a terminal (daemon.py 119-180,
\* 221-237).
OneConsumer == mishaps = {} => Cardinality(Workers) <= 1

\* The node that runs in the background can be stopped: when no command is under
\* way the pid file names it, under the same terms.
NodeIsNamed ==
    /\ mishaps = {} /\ \A c \in Clis : cpc[c] = "idle"
    => Nodes \subseteq {file}

\* A process that is no node is signalled only when a node ended on its own and
\* left its pid file to a recycled pid, or the protocol was broken: stop and reset
\* remove the file of every node they end.
OnlyStaleFileHits == hit => died \/ mishaps \cap {"overlap", "interrupt"} # {}

\* Every command ends, even when the node never finishes its drain (230-235).
CommandsEnd == \A c \in Clis : cpc[c] # "idle" ~> cpc[c] = "idle"
=============================================================================
