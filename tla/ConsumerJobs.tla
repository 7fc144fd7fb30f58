---------------------------- MODULE ConsumerJobs ----------------------------
(***************************************************************************)
(* RedisConsumer implements JobLifecycle: a job is open while a message of *)
(* it is queued or pending, and closed once all of them are acknowledged.  *)
(***************************************************************************)
EXTENDS RedisConsumer

\* the well-formed messages of each job
Carriers == [j \in Jobs |-> {m \in Msgs \ BadFields : JobOf[m] = j}]

PhaseOf(states) ==
    IF states \cap {"queued", "pending"} # {} THEN "open"
    ELSE IF "acked" \in states THEN "closed" ELSE "new"

JobPhase == [j \in Jobs |-> PhaseOf({mq[m] : m \in Carriers[j]})]

Promise == INSTANCE JobLifecycle
    WITH Exempt <- {}, phase <- JobPhase, reports <- sent,
         cancelled <- cancelFlag, barred <- early, dropped <- cut

\* The consumer, seen through the stream and the webhooks, is a JobLifecycle:
\* each of its steps submits, cancels, reports, drops or closes a job or changes
\* nothing the cloud sees.  In particular no report is made of a job all of whose
\* messages are acknowledged, after any redelivery, crash or failed XACK.
ImplementsJobLifecycle == Promise!Spec
=============================================================================
