--------------------------- MODULE BatchConsumer ---------------------------
(***************************************************************************)
(* The consumer when the executor offers batch_run (server/consumer.py):   *)
(* a read takes up to ReadCount messages; two or more are executed as one  *)
(* batch, whose results a background task delivers, one concurrent         *)
(* coroutine per job, while the consume loop already reads on.  A single   *)
(* message, recovery and the fallback after a failed batch use the         *)
(* one-message path of RedisConsumer, which this module extends.           *)
(***************************************************************************)
EXTENDS ConsumerJobs

CONSTANTS
    ReadCount,      \* _BATCH_READ_COUNT, 100 in the code
    ShortResults    \* may batch_run return the wrong number of results?

ASSUME BatchAssumption == ReadCount \in Nat \ {0} /\ ShortResults \in BOOLEAN

VARIABLES
    got,        \* stream_messages: what the last XREADGROUP returned
    rest,       \* the part of the list that the current for loop has not reached
    parsed,     \* messages accepted for the batch
    fallback,   \* the messages of todo are the batch's own, not recover_pending's
    pend,       \* _pending_batch_delivery: none, active, ok, or how it failed
    dpc         \* per message: suspension point of its delivery coroutine

batchVars == <<got, rest, parsed, fallback, pend, dpc>>
bvars == <<vars, batchVars>>

Active == {m \in Msgs : dpc[m] # "off"}

-----------------------------------------------------------------------------
(***************************************************************************)
(* consume_loop.                                                           *)
(***************************************************************************)
\* Mutant of Deal: pending messages are never rechecked.
DealWithoutRecheck(S) ==
    \/ Cardinality(S) > 1 /\ cur' = NoMsg /\ pc' = "bNext"
    \/ \E m \in S : S = {m} /\ cur' = m /\ pc' = Dispatch(m)
    \/ S = {} /\ cur' = NoMsg /\ pc' = LoopHead

\* where the loop goes with the messages S once no delivery is outstanding
Deal(S) ==
    \/ Cardinality(S) > 1 /\ cur' = NoMsg /\ pc' = "bNext"
    \/ \E m \in S : S = {m} /\ cur' = m /\ pc' = Dispatch(m)
    \/ S = {} /\ cur' = NoMsg /\ pc' \in {LoopHead, "scan"}

\* Mutant of AfterRead: the next batch does not wait for the delivery.
DealAtOnce(S) == Deal(S)

\* after XREADGROUP: an outstanding delivery is awaited first
AfterRead(S) ==
    \/ pend = "none" /\ Deal(S)
    \/ pend # "none" /\ pc' = "await" /\ UNCHANGED cur

\* XREADGROUP with the batch read count
BatchRead ==
    /\ pc = "read"
    /\ got' = Oldest(InState("queued"), ReadCount)
    /\ mq' = [m \in Msgs |-> IF m \in got' THEN "pending" ELSE mq[m]]
    /\ rest' = got' /\ parsed' = {} /\ redisHealthy' = TRUE
    /\ AfterRead(got')
    /\ UNCHANGED <<trimmed, status, cancelFlag, todo, booting, raised, jobVars,
                   lifeVars, outVars, faults, fallback, pend, dpc>>

\* the same when it fails, with or without the messages being assigned
BatchReadFails ==
    /\ pc = "read"
    /\ \E k \in ErrorKinds : Fault(k) /\ Escape(k)
    /\ \E S \in {{}, Oldest(InState("queued"), ReadCount)} :
          mq' = [m \in Msgs |-> IF m \in S THEN "pending" ELSE mq[m]]
    /\ UNCHANGED <<trimmed, status, cancelFlag, jobVars, lifeVars, outVars, batchVars>>

\* the delivery task is done: it is cleared, or its exception is raised again
AwaitDelivery ==
    /\ pc = "await"
    /\ \/ /\ pend = "ok" /\ pend' = "none"
          /\ Deal(got) /\ UNCHANGED <<todo, booting, raised, redisHealthy>>
       \/ pend \in ErrorKinds /\ Escape(pend) /\ UNCHANGED pend
    /\ UNCHANGED <<redisVars, jobVars, lifeVars, outVars, faults,
                   got, rest, parsed, fallback, dpc>>

-----------------------------------------------------------------------------
(***************************************************************************)
(* _process_batch.                                                         *)
(***************************************************************************)
\* the for loop over stream_messages (no await of its own); at its end the
\* batch begins, if any message is left
BatchNext ==
    /\ pc = "bNext"
    /\ \/ \E m \in Oldest(rest, 1) :
             /\ rest' = rest \ {m} /\ cur' = m
             /\ pc' = IF m \in BadFields THEN "bAck" ELSE "bStatus"
             /\ UNCHANGED idle
       \/ /\ rest = {} /\ parsed # {}
          /\ rest' = parsed /\ pc' = "bBegin" /\ idle' = FALSE /\ UNCHANGED cur
       \/ /\ rest = {} /\ parsed = {}
          /\ pc' = LoopHead /\ UNCHANGED <<cur, rest, idle>>
    /\ UNCHANGED <<redisVars, todo, booting, raised, redisHealthy, currentJob, exec,
                   zombie, lifeVars, outVars, faults, got, parsed, fallback, pend, dpc>>

\* leave the message at hand, with P as the batch so far
NextParse(P) ==
    /\ parsed' = P /\ pc' = "bNext" /\ cur' = NoMsg
    /\ UNCHANGED <<todo, booting, raised, redisHealthy>>

BatchStatus ==
    /\ pc = "bStatus"
    /\ \/ status[Job] \in SkipStates /\ Goto("bAck") /\ UNCHANGED faults
       \/ status[Job] \notin SkipStates /\ Goto("bCancel") /\ UNCHANGED faults
       \/ \E k \in ErrorKinds : Fault(k) /\ Escape(k)
    /\ UNCHANGED <<redisVars, jobVars, lifeVars, outVars, batchVars>>

\* the cancel check, then the parse of the circuit: a bad one is acknowledged
BatchCancel ==
    /\ pc = "bCancel"
    /\ \/ CancelSignal(Job) /\ Goto("bMark") /\ UNCHANGED parsed
       \/ NoCancelSignal(Job) /\ cur \in BadIR /\ Goto("bAck") /\ UNCHANGED parsed
       \/ NoCancelSignal(Job) /\ cur \notin BadIR /\ NextParse(parsed \cup {cur})
       \/ (\E k \in ErrorKinds : Fault(k) /\ Escape(k)) /\ UNCHANGED parsed
    /\ UNCHANGED <<redisVars, jobVars, lifeVars, outVars, got, rest, fallback, pend, dpc>>

BatchMark ==
    /\ pc = "bMark"
    /\ \/ SafeHset(Job, "cancelled") /\ Goto("bAck")
       \/ HsetRaises(Job, "cancelled") /\ Escape("other")
    /\ UNCHANGED <<mq, trimmed, cancelFlag, jobVars, lifeVars, outVars, batchVars>>

BatchAck ==
    /\ pc = "bAck"
    /\ \/ SafeXack(cur) /\ NextParse(parsed)
       \/ XackRaises(cur) /\ Escape("other") /\ UNCHANGED parsed
    /\ UNCHANGED <<trimmed, status, cancelFlag, jobVars, lifeVars, outVars,
                   got, rest, fallback, pend, dpc>>

\* HSET executing, one job after the other
BatchBegin ==
    /\ pc = "bBegin"
    /\ \E m \in Oldest(rest, 1) :
          \/ /\ SafeHset(JobOf[m], "executing")
             /\ rest' = rest \ {m}
             /\ Goto(IF rest' = {} THEN "bRun" ELSE "bBegin")
          \/ HsetRaises(JobOf[m], "executing") /\ Escape("other") /\ UNCHANGED rest
    /\ UNCHANGED <<mq, trimmed, cancelFlag, jobVars, lifeVars, outVars,
                   got, parsed, fallback, pend, dpc>>

\* batch_run returns: one delivery coroutine per job, gathered in a task; a
\* result list of the wrong length makes that task raise at once
BatchDone ==
    /\ pc = "bRun"
    /\ Goto(LoopHead)
    /\ \/ /\ dpc' = [m \in Msgs |-> IF m \in parsed THEN "check" ELSE "off"]
          /\ pend' = "active" /\ UNCHANGED idle
       \/ ShortResults /\ pend' = "other" /\ idle' = TRUE /\ UNCHANGED dpc
    /\ UNCHANGED <<redisVars, currentJob, exec, zombie, lifeVars, outVars, faults,
                   got, rest, parsed, fallback>>

\* batch_run raises: every message of the read goes through _process_message
BatchFails ==
    /\ pc = "bRun"
    /\ pc' = "fetch" /\ todo' = got /\ fallback' = TRUE
    /\ UNCHANGED <<redisVars, cur, booting, raised, redisHealthy, jobVars, lifeVars,
                   outVars, faults, got, rest, parsed, pend, dpc>>

FallbackNext ==
    /\ pc = "fetch" /\ fallback
    /\ \E m \in Oldest(todo, 1) : cur' = m /\ todo' = todo \ {m} /\ pc' = Dispatch(m)
    /\ UNCHANGED <<redisVars, booting, raised, redisHealthy, jobVars, lifeVars, outVars,
                   faults, batchVars>>

-----------------------------------------------------------------------------
(***************************************************************************)
(* _deliver_batch_results: the coroutines run concurrently.                *)
(***************************************************************************)
Deliver(m, p) == dpc' = [dpc EXCEPT ![m] = p]

\* Mutant of DeliveryEnds: the first coroutine to end ends the task.
FirstDeliveryEnds(m) ==
    /\ Deliver(m, "off")
    /\ IF pend = "active" THEN pend' = "ok" /\ idle' = TRUE ELSE UNCHANGED <<pend, idle>>

\* the coroutine of m ends; the last one ends the task
DeliveryEnds(m) ==
    /\ Deliver(m, "off")
    /\ IF pend = "active" /\ Active = {m} THEN pend' = "ok" /\ idle' = TRUE
                                          ELSE UNCHANGED <<pend, idle>>

\* the coroutine of m raises: gather raises at once, the others run on.  The
\* message stays pending; recovery will skip a job already marked completed.
DeliveryRaises(m, k) ==
    /\ Deliver(m, "off")
    /\ IF pend = "active" THEN pend' = k /\ idle' = TRUE ELSE UNCHANGED <<pend, idle>>
    /\ cut' = cut \cup {j \in {JobOf[m]} : status'[j] = "completed"}

\* a cancel check of a delivery
DeliveryChecks(m, next) ==
    /\ UNCHANGED redisVars
    /\ \/ CancelSignal(JobOf[m]) /\ Deliver(m, "mark") /\ UNCHANGED <<pend, idle, cut>>
       \/ NoCancelSignal(JobOf[m]) /\ Deliver(m, next) /\ UNCHANGED <<pend, idle, cut>>
       \/ \E k \in ErrorKinds : Fault(k) /\ DeliveryRaises(m, k)
    /\ UNCHANGED <<ctlVars, currentJob, exec, zombie, lifeVars, sent,
                   delivered, early, got, rest, parsed, fallback>>

\* HSET of a delivery
DeliveryWrites(m, s, next) ==
    /\ \/ SafeHset(JobOf[m], s) /\ Deliver(m, next) /\ UNCHANGED <<pend, idle, cut>>
       \/ HsetRaises(JobOf[m], s) /\ DeliveryRaises(m, "other")
    /\ UNCHANGED <<mq, trimmed, cancelFlag, ctlVars, currentJob, exec, zombie, lifeVars,
                   sent, delivered, early, got, rest, parsed, fallback>>

DeliveryCheck(m) == dpc[m] = "check" /\ DeliveryChecks(m, "complete")
DeliveryComplete(m) == dpc[m] = "complete" /\ DeliveryWrites(m, "completed", "recheck")

\* Mutant of DeliveryRecheck: no cancel check after HSET completed.
DeliveryPostsUnchecked(m) ==
    /\ dpc[m] = "recheck" /\ Deliver(m, "post")
    /\ UNCHANGED <<vars, got, rest, parsed, fallback, pend>>

\* Mutant of DeliveryRecheck: the message is acknowledged before the result is sent.
DeliveryAcksThenPosts(m) ==
    /\ dpc[m] = "recheck" /\ Deliver(m, "post") /\ SafeXack(m)
    /\ UNCHANGED <<trimmed, status, cancelFlag, ctlVars, jobVars, lifeVars, outVars,
                   got, rest, parsed, fallback, pend>>

DeliveryRecheck(m) == dpc[m] = "recheck" /\ DeliveryChecks(m, "post")
DeliveryMark(m) == dpc[m] = "mark" /\ DeliveryWrites(m, "cancelled", "ack")

\* send_result, whose exceptions are swallowed here; once the lifespan has closed
\* the webhook client nothing is sent any more
DeliveryPost(m) ==
    /\ dpc[m] = "post" /\ Deliver(m, "ack")
    /\ \/ /\ app # "closed" /\ UNCHANGED cut
          /\ sent' = [sent EXCEPT ![JobOf[m]] = @ \cup {"completed"}]
          /\ delivered' \in {delivered, delivered \cup {JobOf[m]}}
       \/ /\ app = "closed" /\ cut' = cut \cup {JobOf[m]}
          /\ UNCHANGED <<sent, delivered>>
    /\ UNCHANGED <<redisVars, ctlVars, jobVars, lifeVars, early, faults,
                   got, rest, parsed, fallback, pend>>

DeliveryAck(m) ==
    /\ dpc[m] = "ack"
    /\ \/ SafeXack(m) /\ DeliveryEnds(m) /\ UNCHANGED cut
       \/ XackRaises(m) /\ UNCHANGED status /\ DeliveryRaises(m, "other")
    /\ UNCHANGED <<trimmed, status, cancelFlag, ctlVars, currentJob, exec, zombie,
                   lifeVars, sent, delivered, early, got, rest, parsed, fallback>>

DeliveryStep ==
    \E m \in Msgs :
        \/ DeliveryCheck(m) \/ DeliveryComplete(m) \/ DeliveryRecheck(m)
        \/ DeliveryMark(m) \/ DeliveryPost(m) \/ DeliveryAck(m)

-----------------------------------------------------------------------------
(***************************************************************************)
(* The lifespan, with the delivery task.                                   *)
(***************************************************************************)
\* completed jobs whose delivery stops here and will be skipped by recovery
Orphaned == {j \in Jobs : /\ status[j] = "completed"
                          /\ \E m \in Active : JobOf[m] = j}

\* Mutant of BatchDrained: drain does not look at the delivery task.
DrainedIgnoringDelivery == Drained /\ UNCHANGED batchVars

\* drain: the consumer is idle and no delivery is outstanding
BatchDrained ==
    /\ pend \in {"none", "ok"}
    /\ Drained
    /\ UNCHANGED <<got, rest, parsed, fallback, dpc>> /\ pend' = "none"

NoBatch ==
    /\ got' = {} /\ rest' = {} /\ parsed' = {} /\ fallback' = FALSE
    /\ pend' = "none" /\ dpc' = [m \in Msgs |-> "off"]

\* drain re-raises the delivery's exception: the lifespan ends without its cleanup
DrainRaises ==
    /\ app = "drain" /\ idle /\ pend \in ErrorKinds
    /\ ProcessGone /\ NoBatch
    /\ cut' = cut \cup Orphaned

\* the timeout: a cancel that finds the loop awaiting the delivery cancels that too
BatchDrainTimeout ==
    \/ /\ pc = "await" /\ app = "drain" /\ app' = "join" /\ ~idle
       /\ Escape("cancel")
       /\ dpc' = [m \in Msgs |-> "off"] /\ pend' = "other" /\ idle' = TRUE
       /\ cut' = cut \cup Orphaned
       /\ UNCHANGED <<redisVars, currentJob, exec, zombie, running, starts, sent,
                      delivered, early, faults, got, rest, parsed, fallback>>
    \/ pc # "await" /\ DrainTimeout /\ UNCHANGED batchVars

\* await consumer_task returns; the lifespan closes the webhook client, then Redis
CloseClients ==
    /\ app = "join" /\ pc = "exited" /\ app' = "closed"
    /\ UNCHANGED <<redisVars, ctlVars, jobVars, running, starts, outVars, faults, batchVars>>

\* the process ends; a consumer task that died raises here and skips the cleanup
BatchExit ==
    /\ app = "closed" \/ (app = "join" /\ pc = "dead")
    /\ ProcessGone /\ NoBatch
    /\ cut' = cut \cup Orphaned

BatchCrash ==
    /\ app # "off" /\ starts < MaxStarts
    /\ ProcessGone /\ NoBatch
    /\ cut' = cut \cup Orphaned \cup CompletedInHand

\* the cancel flag of a submitted job is set
BatchCancelFlag(j) ==
    /\ j \notin cancelFlag
    /\ \E m \in Msgs : JobOf[m] = j /\ mq[m] # "absent"
    /\ cancelFlag' = cancelFlag \cup {j}
    /\ early' = early \cup {i \in {j} : /\ sent[i] = {}
                                      /\ ~(Working(i) /\ pc \in PastLastCheck)
                                      /\ \A m \in Msgs : JobOf[m] = i => dpc[m] # "post"}
    /\ UNCHANGED <<mq, trimmed, status, ctlVars, jobVars, lifeVars, sent, delivered, cut,
                   faults, batchVars>>

-----------------------------------------------------------------------------
BatchInit ==
    /\ Init
    /\ got = {} /\ rest = {} /\ parsed = {} /\ fallback = FALSE
    /\ pend = "none" /\ dpc = [m \in Msgs |-> "off"]

BatchConsumerStep ==
    \/ (Setup \/ Wake \/ ProcessMessage) /\ UNCHANGED batchVars
    \/ Scan /\ fallback' = FALSE /\ UNCHANGED <<got, rest, parsed, pend, dpc>>
    \/ ~fallback /\ Fetch /\ UNCHANGED batchVars
    \/ BatchRead \/ BatchReadFails \/ AwaitDelivery \/ BatchNext \/ BatchStatus
    \/ BatchCancel \/ BatchMark \/ BatchAck \/ BatchBegin \/ BatchDone \/ BatchFails
    \/ FallbackNext

BatchLifespan ==
    \/ (Start \/ Stop) /\ UNCHANGED batchVars
    \/ BatchDrained \/ DrainRaises \/ BatchDrainTimeout \/ CloseClients \/ BatchExit
    \/ BatchCrash

BatchEnvironment ==
    \/ (Executor \/ Enqueue) /\ UNCHANGED batchVars
    \/ \E j \in Jobs : BatchCancelFlag(j)

BatchNextState ==
    BatchConsumerStep \/ DeliveryStep \/ BatchLifespan \/ BatchEnvironment

BatchRedisPoints == RedisPoints \cup {"bStatus", "bCancel", "bMark", "bAck", "bBegin"}
DeliveryPosts == \E m \in Msgs : DeliveryPost(m)
DeliveryCallsRedis ==
    \E m \in Msgs : \/ DeliveryCheck(m) \/ DeliveryComplete(m) \/ DeliveryRecheck(m)
                    \/ DeliveryMark(m) \/ DeliveryAck(m)

(***************************************************************************)
(* Assumed of the environment, as in RedisConsumer: every call to Redis    *)
(* ends, in the loop and in the delivery coroutines.                       *)
(***************************************************************************)
BatchRedisCallsEnd ==
    /\ WF_bvars(pc \in BatchRedisPoints /\ BatchConsumerStep)
    /\ WF_bvars(BatchRead /\ pc' = "scan")
    /\ WF_bvars(DeliveryCallsRedis)

(***************************************************************************)
(* Fairness as in RedisConsumer; batch_run returns or raises, and the      *)
(* webhook calls of the deliveries end by their timeout.                   *)
(***************************************************************************)
BatchFairness ==
    /\ WF_bvars(pc \notin BatchRedisPoints /\ BatchConsumerStep)
    /\ WF_bvars(DeliveryPosts) /\ WF_bvars(RunEnds /\ UNCHANGED batchVars)
    /\ WF_bvars(BatchDrained \/ DrainRaises \/ BatchDrainTimeout)
    /\ WF_bvars(CloseClients \/ BatchExit) /\ WF_bvars(Start /\ UNCHANGED batchVars)

BatchSpec == BatchInit /\ [][BatchNextState]_bvars
FairBatchSpec == BatchSpec /\ BatchFairness /\ BatchRedisCallsEnd

-----------------------------------------------------------------------------
(***************************************************************************)
(* Properties.                                                             *)
(***************************************************************************)
\* What the loop has still to reach and what it accepted are part of what it read last;
\* a delivery task that is running has a coroutine left, and without a task, or once it
\* ended well, there is none.  A task that failed may leave coroutines behind: gather
\* raises at the first failure and lets the others run (504), so nothing is said of it.
BatchTypeOK ==
    /\ got \subseteq Msgs /\ rest \subseteq got /\ parsed \subseteq got
    /\ fallback \in BOOLEAN /\ pend \in ErrorKinds \cup {"none", "active", "ok"}
    /\ dpc \in [Msgs -> {"off", "check", "complete", "recheck", "post", "mark", "ack"}]
    /\ pend = "active" => Active # {}
    /\ pend \in {"none", "ok"} => Active = {}

\* A cancel flag set while a cancel check is still ahead in the consumer or in a
\* concurrent delivery wins over the report (468, 478 and the one-message path).
BatchEarlyCancelWins == EarlyCancelWins

\* A well-formed message whose circuit parses is acknowledged only when its job was
\* reported, cancelled or cut short: by a crash or a cancel after HSET completed,
\* by a Redis error in a handler or a delivery, or by a delivery that outlives the
\* webhook client.
BatchNoOtherSilentAck ==
    \A m \in Msgs \ (BadFields \cup BadIR) :
        mq[m] = "acked" => \/ sent[JobOf[m]] # {}
                           \/ JobOf[m] \in cancelFlag \cup cut

BatchPromise == INSTANCE JobLifecycle
    WITH Exempt <- {JobOf[m] : m \in BadIR}, phase <- JobPhase, reports <- sent,
         cancelled <- cancelFlag, barred <- early, dropped <- cut

\* The batch path implements JobLifecycle too: concurrent deliveries, also of one
\* job twice, report a job only while it is open and not barred; only jobs whose
\* circuit does not parse may be closed without a word, and come back when the batch
\* fails and its messages, acknowledged ones too, are done again one by one (456-457).
BatchImplementsJobLifecycle == BatchPromise!Spec

\* No job or batch is on the hardware while an earlier batch is being delivered
\* (the docstring at 374-376 asks the caller for this; 201-203 does it).
HardwareWaitsForDelivery == pc = "bRun" \/ exec = "running" => Active = {}

\* drain returns clean only when every result of the last batch is delivered.
CleanDrainDeliversAll == [][BatchDrained => Active = {}]_bvars

\* Every enqueued message is acknowledged in the end, through read errors, replies
\* that are lost with their connection, failed batches, a crash or a shutdown and the
\* restart after it, unless a delivery task failed.  Assumes BatchRedisCallsEnd.
BatchEventuallyAcked ==
    \A m \in Msgs : (mq[m] = "queued") ~> (mq[m] = "acked" \/ pend \in ErrorKinds)
=============================================================================
