---------------------------- MODULE JobLifecycle ----------------------------
(***************************************************************************)
(* What a node promises the cloud about its jobs, without streams,         *)
(* acknowledgements, Redis records or tasks.  RedisConsumer and            *)
(* BatchConsumer are shown to implement it.                                *)
(*                                                                         *)
(*   - a job is reported only between its submission and its close;        *)
(*   - a job that was barred, cancelled in time, is never reported;        *)
(*   - a job is closed only after it was reported, cancelled or dropped,   *)
(*     and it is dropped only while it is open.                            *)
(***************************************************************************)
CONSTANTS
    Jobs,
    Exempt      \* jobs the node may close without a word, and come back to

VARIABLES
    phase,      \* per job: new, open (submitted, not closed), closed
    reports,    \* per job: what the cloud was told, "completed" or "failed"
    cancelled,  \* jobs the cloud has cancelled
    barred,     \* the ones among them cancelled in time
    dropped     \* jobs whose processing was cut short

jobVars == <<phase, reports, cancelled, barred, dropped>>

Init ==
    /\ phase = [j \in Jobs |-> "new"] /\ reports = [j \in Jobs |-> {}]
    /\ cancelled = {} /\ barred = {} /\ dropped = {}

\* a job is submitted, or submitted again after it was closed
Submit(j) ==
    /\ UNCHANGED <<reports, cancelled, barred, dropped>>
    /\ phase[j] # "open" /\ phase' = [phase EXCEPT ![j] = "open"]

\* the cloud cancels a job, in time or too late
CancelJob(j) ==
    /\ j \notin cancelled /\ cancelled' = cancelled \cup {j}
    /\ \/ reports[j] = {} /\ barred' = barred \cup {j}
       \/ UNCHANGED barred
    /\ UNCHANGED <<reports, dropped, phase>>

Report(j, r) ==
    /\ reports' = [reports EXCEPT ![j] = @ \cup {r}]
    /\ j \notin barred /\ (phase[j] = "open" \/ j \in Exempt)
    /\ UNCHANGED <<cancelled, barred, dropped, phase>>

\* an outage, a shutdown or a crash cuts the processing of some jobs short
Drop(S) ==
    /\ S # {} /\ dropped' = dropped \cup S
    /\ \A j \in S : phase[j] = "open" \/ j \in Exempt
    /\ UNCHANGED <<reports, cancelled, barred, phase>>

\* the node is done with a job; the step that closes it may be the one that fails
Close(j) ==
    /\ reports[j] # {} \/ j \in cancelled \cup dropped \cup Exempt
    /\ dropped' \in {dropped, dropped \cup {j}}
    /\ UNCHANGED <<reports, cancelled, barred>>
    /\ phase[j] = "open" /\ phase' = [phase EXCEPT ![j] = "closed"]

Next ==
    \/ \E j \in Jobs : \/ Submit(j) \/ CancelJob(j) \/ Close(j)
                       \/ \E r \in {"completed", "failed"} : Report(j, r)
    \/ \E S \in SUBSET Jobs : Drop(S)

Spec == Init /\ [][Next]_jobVars
=============================================================================
