--------------------------- MODULE ConsumerClaims ---------------------------
(***************************************************************************)
(* Statements the repository's documentation makes about the consumer that *)
(* the code does not keep.  Each is violated by a run of its own.          *)
(***************************************************************************)
EXTENDS MCRedisConsumer

\* docs/operations/GRACEFUL_SHUTDOWN.md:43-45: when the drain times out the
\* message is not ACK'd.  The CancelledError runs the finally of
\* _process_message (consumer.py:622), which XACKs it.
TimedOutMessageKept ==
    [][app = "join" /\ raised = "cancel" => mq'[cur] = mq[cur]]_vars

\* docs/jobs/CONSUMER.md:82-83: redis_healthy is False on a connection error and
\* drives /ready.  setup() and the first recover_pending() run outside the
\* loop's try (consumer.py:183-184): their failure ends the task and leaves the
\* flag True.
DeadConsumerIsNotHealthy == app = "up" /\ pc = "dead" => ~redisHealthy

\* docs/jobs/CONSUMER.md:87-90: a transient Redis outage during execution does
\* not prevent webhook delivery.  The cancel checks are not guarded: the one at
\* consumer.py:603 raises out of the handler, and the finally still XACKs.
OutageNeverSilencesJob ==
    \A m \in Msgs \ BadFields :
        mq[m] = "acked" => sent[JobOf[m]] # {} \/ JobOf[m] \in cancelFlag
=============================================================================
