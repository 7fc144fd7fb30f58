---------------------------- MODULE BatchClaims ----------------------------
(***************************************************************************)
(* What the documentation says of recovery, on the batch path.             *)
(***************************************************************************)
EXTENDS MCBatchConsumer

\* docs/jobs/CONSUMER.md:45-48: the pending recheck catches messages that become
\* stuck mid-flight without requiring a full restart.  A delivery task that raised
\* is awaited again in every iteration of the loop (consumer.py:201-203), before
\* the recheck is reached.
StuckMessagesAreCaught ==
    \A m \in Msgs : (mq[m] = "pending") ~> (mq[m] = "acked")
=============================================================================
