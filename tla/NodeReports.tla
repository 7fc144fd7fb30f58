---------------------------- MODULE NodeReports ----------------------------
(***************************************************************************)
(* Everything a running node tells the cloud: the consumer of RedisConsumer*)
(* reports through WebhookClient, attempt by attempt, while the heartbeat  *)
(* task reads the consumer's fields, under the lifespan that starts and    *)
(* stops them in the order of server/app.py.                               *)
(***************************************************************************)
EXTENDS RedisConsumer

CONSTANTS MaxRetries, MaxLost, MaxMissed

ASSUME ReportsAssumption ==
    MaxRetries \in Nat \ {0} /\ MaxLost \in Nat /\ MaxMissed \in Nat

VARIABLES
    hook, sending, attempt, open, late, accepted, asked, lost,   \* WebhookClient
    hb, hbRunning, hbOpen, beat, lateBeats, view, missed        \* Heartbeat

Web == INSTANCE WebhookClient
Beats == INSTANCE Heartbeat

webVars == <<hook, sending, attempt, open, late, accepted, asked, lost>>
hbVars == <<hb, hbRunning, hbOpen, beat, lateBeats, view, missed>>
nodeVars == <<vars, webVars, hbVars>>

-----------------------------------------------------------------------------
(***************************************************************************)
(* The consumer and its webhook calls.                                     *)
(***************************************************************************)
\* the consumer is in a webhook call, or about to make it
Calling == pc \in {"post", "postErr"}

\* Mutant of SendReport: send_result is not awaited.
SendUnawaited ==
    /\ Calling /\ ~Web!Busy(Job) /\ open
    /\ Web!Call(Job, IF pc = "post" THEN "completed" ELSE "failed")
    /\ Goto("final")
    /\ UNCHANGED <<redisVars, jobVars, lifeVars, outVars, faults, hbVars>>

\* send_result or send_error is called, always with an open client: see
\* ClosedClientIsIdle
SendReport ==
    /\ Calling /\ ~Web!Busy(Job) /\ open
    /\ Web!Call(Job, IF pc = "post" THEN "completed" ELSE "failed")
    /\ UNCHANGED <<vars, hbVars>>

\* bound: webhook attempts and heartbeats fail MaxLost times between them
NetworkBound == lost' + missed' > lost + missed => lost' + missed' <= MaxLost

Attempt == Calling /\ Web!Attempt(Job) /\ UNCHANGED hbVars /\ NetworkBound

\* an attempt of the call ends, or the next one begins
StillSending ==
    /\ Attempt /\ hook'[Job] \in {"post", "backoff"}
    /\ UNCHANGED vars

\* the call returns
ReportReturns ==
    /\ Attempt /\ hook'[Job] = "returned"
    /\ (Post /\ pc' = "final") \/ PostError

\* the call raises; send_error's exception is swallowed
ReportRaises ==
    /\ Attempt /\ hook'[Job] = "raised"
    /\ (Post /\ pc' = "exc") \/ PostError

WebhookStep == SendReport \/ StillSending \/ ReportReturns \/ ReportRaises

-----------------------------------------------------------------------------
(***************************************************************************)
(* The lifespan.                                                           *)
(***************************************************************************)
\* the new process has new clients; the tasks are created
StartNode == Start /\ UNCHANGED <<webVars, hbVars>>

\* the shutdown begins with heartbeat.close()
StopHeartbeat ==
    /\ app = "up" /\ hbOpen /\ starts < MaxStarts
    /\ Beats!CloseHeartbeat
    /\ UNCHANGED <<vars, webVars>>

\* heartbeat_task is cancelled and awaited
JoinHeartbeat ==
    /\ app = "up" /\ ~hbOpen /\ hb # "done"
    /\ Beats!CancelHeartbeat
    /\ UNCHANGED <<vars, webVars>>

\* then the drain begins
StopConsumer ==
    /\ ~hbOpen /\ hb = "done"
    /\ Stop
    /\ UNCHANGED <<webVars, hbVars>>

\* the consumer task is cancelled, a webhook call with it
CancelNode ==
    /\ Drained \/ DrainTimeout
    /\ IF Calling /\ Web!Busy(Job) THEN Web!Abort(Job) ELSE UNCHANGED webVars
    /\ UNCHANGED hbVars

\* Mutant of CloseWebhook: the client is closed before the consumer is joined.
CloseWebhookEarly ==
    /\ app = "drain" /\ open
    /\ Web!Close
    /\ UNCHANGED <<vars, hbVars>>

\* webhook.close(), after await consumer_task
CloseWebhook ==
    /\ app = "join" /\ pc = "exited" /\ open
    /\ Web!Close
    /\ UNCHANGED <<vars, hbVars>>

\* the process ends; a consumer task that died raises and skips the cleanup
ExitNode ==
    /\ ~open \/ pc = "dead"
    /\ Exit /\ Web!WebGone /\ Beats!HeartbeatGone

CrashNode == Crash /\ Web!WebGone /\ Beats!HeartbeatGone

-----------------------------------------------------------------------------
NodeInit == Init /\ Web!WebInit /\ Beats!HeartbeatInit

NodeConsumerStep == ~Calling /\ ConsumerStep /\ UNCHANGED <<webVars, hbVars>>

HeartbeatStep ==
    /\ app # "off" /\ Beats!HeartbeatStep
    /\ UNCHANGED <<vars, webVars>> /\ NetworkBound

NodeLifespan ==
    \/ StartNode \/ StopHeartbeat \/ JoinHeartbeat \/ StopConsumer \/ CancelNode
    \/ CloseWebhook \/ ExitNode \/ CrashNode

Network ==
    \/ Web!LateArrives /\ UNCHANGED <<vars, hbVars>>
    \/ Beats!LateBeatArrives /\ UNCHANGED <<vars, webVars>>

NodeNext ==
    \/ NodeConsumerStep \/ WebhookStep \/ HeartbeatStep \/ NodeLifespan \/ Network
    \/ (Executor \/ Cloud) /\ UNCHANGED <<webVars, hbVars>>

NodeSpec == NodeInit /\ [][NodeNext]_nodeVars

(***************************************************************************)
(* Fairness: the event loop schedules the heartbeat task, whose request    *)
(* httpx answers or times out and whose interval passes.  Nothing is       *)
(* assumed of Redis, of the backend or of the lifespan.                    *)
(***************************************************************************)
NodeFairness == WF_nodeVars(HeartbeatStep)

FairNodeSpec == NodeSpec /\ NodeFairness

-----------------------------------------------------------------------------
(***************************************************************************)
(* Properties.                                                             *)
(***************************************************************************)
\* WebhookClient keeps its promise in every use the node makes of it: a call that
\* returned was accepted, over lost, late and repeated requests, 4xx and 5xx
\* answers, cancellation and crashes (webhook.py 98-137).
ImplementsDelivery == Web!Promise!Spec

\* The node with real webhook calls and heartbeats is still the consumer of
\* RedisConsumer, so what is proved there of cancellation, acknowledgement and
\* execution holds here.
ImplementsConsumer == Spec

\* End to end: when no Redis operation failed, a message whose job Redis records
\* as completed is acknowledged only if the cloud has processed the result, unless
\* the job was cut short, or failed before and a duplicate message has made the
\* consumer run it again (579-596 and the skip at 551).
CompletedIsDelivered ==
    \A m \in Msgs \ BadFields :
        LET j == JobOf[m] IN
        faults = 0 /\ mq[m] = "acked" /\ status[j] = "completed"
        => "completed" \in accepted[j] \/ j \in cut \/ (Working(j) /\ pc \in InTry)

Duplicated(j) == \E m, n \in Msgs : m # n /\ JobOf[m] = j /\ JobOf[n] = j

\* The cloud never processes both a result and a failure of a job that it enqueued
\* once unless two attempts to post the result failed, or the only one that is made,
\* Redis did, or the node was restarted: a single lost answer is retried (webhook.py
\* 118-134).
NoContradictionAtOnce ==
    \A j \in Jobs :
        accepted[j] = Web!Reports
        => lost >= 2 \/ lost >= MaxRetries \/ faults > 0 \/ starts > 1 \/ Duplicated(j)

\* A closed webhook client is never used: when the lifespan closes it nothing is
\* being sent, and nothing is sent afterwards (app.py 138-142).
ClosedClientIsIdle == ~open => ~Calling /\ \A j \in Jobs : ~Web!Busy(j)

AtRest == app = "up" /\ hbOpen /\ currentJob = NoJob

\* While the node is up without a job, heartbeats make the cloud see that again
\* and again, whatever heartbeats were lost, came late or carried an older job.
CloudSeesRest == AtRest ~> (view.job = NoJob \/ ~AtRest)
=============================================================================
