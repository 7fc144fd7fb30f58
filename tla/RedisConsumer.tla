--------------------------- MODULE RedisConsumer ---------------------------
(***************************************************************************)
(* The job consumer of a Coda node (server/consumer.py) on its one-message *)
(* path, inside the process that the FastAPI lifespan (server/app.py)      *)
(* starts, drains and tears down.  Redis and the Coda cloud are external:  *)
(* they are modelled by what the consumer sees of them.                    *)
(*                                                                         *)
(* The consumer is one asyncio task.  `pc' names the await it is suspended *)
(* at; everything between two awaits is one step.  A step is the moment    *)
(* the awaited operation takes effect and the code runs on to the next     *)
(* await, so the cloud, the executor, the lifespan and a crash interleave  *)
(* exactly where the event loop lets them.                                 *)
(***************************************************************************)
EXTENDS Naturals, FiniteSets

CONSTANTS
    Msgs,           \* stream entry ids, ordered like the ids of a Redis stream
    Jobs,           \* job ids
    NoJob,          \* current_job_id is None
    JobOf,          \* the job_id field of each message (a job may be enqueued twice)
    BadFields,      \* messages without job_id or callback_url
    BadIR,          \* messages whose ir_json or shots do not parse
    Trimmable,      \* pending messages the cloud may trim from the stream
    RecoverCount,   \* the count argument of XPENDING (100 in the code)
    RedisErrors,    \* kinds of Redis failure considered, see ErrorKinds
    StartupFaults,  \* may Redis fail before the consume loop is entered?
    MaxFaults,      \* bound: failed Redis operations in a behaviour
    MaxStarts       \* bound: process starts in a behaviour

(***************************************************************************)
(* "conn": ConnectionError, OSError or redis ConnectionError, the ones     *)
(* _safe_hset, _safe_xack and the loop's first handler catch.  "other":    *)
(* any other exception of the client (a ResponseError, redis TimeoutError).*)
(***************************************************************************)
ErrorKinds == {"conn", "other"}

NoMsg == 0

ASSUME MsgsAssumption == Msgs \subseteq Nat \ {NoMsg} /\ IsFiniteSet(Msgs)
ASSUME JobsAssumption == NoJob \notin Jobs /\ JobOf \in [Msgs -> Jobs]
ASSUME InputAssumption ==
    /\ BadFields \subseteq Msgs /\ BadIR \subseteq Msgs /\ Trimmable \subseteq Msgs
    /\ RecoverCount \in Nat \ {0}
ASSUME FaultAssumption ==
    /\ RedisErrors \subseteq ErrorKinds /\ StartupFaults \in BOOLEAN
    /\ MaxFaults \in Nat /\ MaxStarts \in Nat

VARIABLES
    \* Redis: survives every crash of the node
    mq,            \* per message: absent, queued, pending (delivered, no XACK), acked
    trimmed,       \* pending messages whose stream entry is gone
    status,        \* qpu:job:<id>:status "state"
    cancelFlag,    \* jobs with a qpu:job:cancelled:<id> key
    \* the consumer task
    pc, cur, todo, \* suspension point, message in hand, rest of recover_pending's list
    booting,       \* still in setup() or the first recover_pending()
    raised,        \* exception that _process_message's finally will re-raise
    redisHealthy,  \* self.redis_healthy
    idle,          \* self._idle_event
    currentJob,    \* self.current_job_id
    exec,          \* run_task of _run_job_with_cancellation
    zombie,        \* a cancelled but never awaited run_task is still executing
    \* the process
    app,           \* lifespan: off, up, drain (in consumer.drain), join (await consumer_task)
    running,       \* self._running
    \* what the node told the cloud, and history
    sent,          \* per job: reports handed to the webhook client
    delivered,     \* jobs whose send_result returned
    early,         \* jobs cancelled while a cancel check was still ahead
    cut,           \* jobs whose processing was cut short before any report
    faults, starts

redisVars == <<mq, trimmed, status, cancelFlag>>
ctlVars   == <<pc, cur, todo, booting, raised, redisHealthy>>
jobVars   == <<idle, currentJob, exec, zombie>>
lifeVars  == <<app, running, starts>>
outVars   == <<sent, delivered, early, cut>>
vars == <<redisVars, ctlVars, jobVars, lifeVars, outVars, faults>>

-----------------------------------------------------------------------------
(***************************************************************************)
(* Suspension points.                                                      *)
(***************************************************************************)
\* awaits of _process_message inside its try statement
InTry == {"run", "poll", "halt", "check", "complete", "recheck", "post",
          "exc", "fail", "postErr", "markCancel"}
\* awaits between _idle_event.clear() and _idle_event.set()
InJob == InTry \cup {"begin", "final"}
\* awaits of _process_message before the job is taken on
InSkip == {"status", "cancelq", "markSkip", "skipAck"}
Points == {"off", "setup", "scan", "fetch", "read", "sleep", "dead", "exited"}
            \cup InSkip \cup InJob

MsgStates == {"absent", "queued", "pending", "acked"}
JobStates == {"none", "executing", "completed", "cancelled", "failed"}

InState(s) == {m \in Msgs : mq[m] = s}

\* the first k entries of a set of stream ids
Oldest(S, k) == {m \in S : Cardinality({n \in S : n < m}) < k}

Job == JobOf[cur]
Working(j) == cur \in Msgs /\ JobOf[cur] = j

-----------------------------------------------------------------------------
(***************************************************************************)
(* Redis operations.  A failed read returns nothing; a failed write may or *)
(* may not have been applied.                                              *)
(***************************************************************************)
Fault(k) ==
    /\ k \in RedisErrors
    /\ faults < MaxFaults
    /\ booting => StartupFaults
    /\ faults' = faults + 1

\* _has_cancel_signal
CancelSignal(j) == j \in cancelFlag /\ UNCHANGED faults
NoCancelSignal(j) == j \notin cancelFlag /\ UNCHANGED faults

\* _safe_hset: a connection error is logged and swallowed
SafeHset(j, s) ==
    \/ status' = [status EXCEPT ![j] = s] /\ UNCHANGED faults
    \/ Fault("conn") /\ status' \in {status, [status EXCEPT ![j] = s]}
HsetRaises(j, s) == Fault("other") /\ status' \in {status, [status EXCEPT ![j] = s]}

\* _safe_xack
SafeXack(m) ==
    \/ mq' = [mq EXCEPT ![m] = "acked"] /\ UNCHANGED faults
    \/ Fault("conn") /\ mq' \in {mq, [mq EXCEPT ![m] = "acked"]}
XackRaises(m) == Fault("other") /\ mq' \in {mq, [mq EXCEPT ![m] = "acked"]}

-----------------------------------------------------------------------------
(***************************************************************************)
(* Control.  Each step sets ctlVars by exactly one of these.               *)
(***************************************************************************)
Goto(p) == pc' = p /\ UNCHANGED <<cur, todo, booting, raised, redisHealthy>>

\* Mutant of LoopHead: the loop ignores stop().
LoopIgnoresStop == "read"

\* the loop head: `while self._running'
LoopHead == IF running THEN "read" ELSE "exited"

\* back to recover_pending's for loop with the messages t, or out of it
Resume(t) ==
    /\ todo' = t /\ cur' = NoMsg /\ raised' = "none"
    /\ pc' = IF t # {} THEN "fetch" ELSE LoopHead
    /\ booting' = IF t = {} THEN FALSE ELSE booting
    /\ UNCHANGED redisHealthy

\* an exception of kind k leaves _process_message or recover_pending: the
\* consume loop's handlers catch it, but nothing does before the loop is entered
Escape(k) ==
    /\ pc' = IF k = "cancel" THEN "exited" ELSE IF booting THEN "dead" ELSE "sleep"
    /\ redisHealthy' = IF k = "conn" /\ ~booting THEN FALSE ELSE redisHealthy
    /\ cur' = NoMsg /\ todo' = {} /\ raised' = "none"
    /\ UNCHANGED booting

\* an exception leaves the handlers of _process_message: its finally runs first
RaiseThroughFinally(k) ==
    /\ pc' = "final" /\ raised' = k
    /\ cut' = cut \cup {Job}
    /\ UNCHANGED <<cur, todo, booting, redisHealthy, sent, delivered, early>>

\* _process_message starts on message m
Dispatch(m) == IF m \in BadFields THEN "skipAck" ELSE "status"

-----------------------------------------------------------------------------
(***************************************************************************)
(* setup, recover_pending and consume_loop.                                *)
(***************************************************************************)
\* XGROUP CREATE (BUSYGROUP is success); a failure ends the task
Setup ==
    /\ pc = "setup"
    /\ \/ Goto("scan") /\ UNCHANGED faults
       \/ \E k \in ErrorKinds : Fault(k) /\ Escape(k)
    /\ UNCHANGED <<redisVars, jobVars, lifeVars, outVars>>

\* XPENDING for this consumer's own unacknowledged messages
Scan ==
    /\ pc = "scan"
    /\ \/ Resume(Oldest(InState("pending"), RecoverCount)) /\ UNCHANGED faults
       \/ \E k \in ErrorKinds : Fault(k) /\ Escape(k)
    /\ UNCHANGED <<redisVars, jobVars, lifeVars, outVars>>

\* XRANGE of one pending id; an id trimmed from the stream is passed over
Fetch ==
    /\ pc = "fetch"
    /\ \E m \in Oldest(todo, 1) :
          \/ /\ m \notin trimmed
             /\ cur' = m /\ todo' = todo \ {m} /\ pc' = Dispatch(m)
             /\ UNCHANGED <<booting, raised, redisHealthy, faults>>
          \/ m \in trimmed /\ Resume(todo \ {m}) /\ UNCHANGED faults
          \/ \E k \in ErrorKinds : Fault(k) /\ Escape(k)
    /\ UNCHANGED <<redisVars, jobVars, lifeVars, outVars>>

\* XREADGROUP delivers the oldest queued message (count = 1)
ReadMessage ==
    /\ pc = "read"
    /\ \E m \in Oldest(InState("queued"), 1) :
          /\ mq' = [mq EXCEPT ![m] = "pending"]
          /\ cur' = m /\ pc' = Dispatch(m)
    /\ redisHealthy' = TRUE
    /\ UNCHANGED <<trimmed, status, cancelFlag, todo, booting, raised,
                   jobVars, lifeVars, outVars, faults>>

\* XREADGROUP times out after 5 s and the recheck interval has not passed
ReadNothing ==
    /\ pc = "read" /\ InState("queued") = {}
    /\ pc' = LoopHead /\ redisHealthy' = TRUE
    /\ UNCHANGED <<redisVars, cur, todo, booting, raised,
                   jobVars, lifeVars, outVars, faults>>

\* Mutant of ReadRecheck: pending messages are recovered at startup only.
NoRecheck == FALSE

\* XREADGROUP times out and _PENDING_RECHECK_SECS have passed
ReadRecheck ==
    /\ pc = "read" /\ InState("queued") = {}
    /\ pc' = "scan" /\ redisHealthy' = TRUE
    /\ UNCHANGED <<redisVars, cur, todo, booting, raised,
                   jobVars, lifeVars, outVars, faults>>

\* XREADGROUP fails; Redis may have assigned the message before the reply was lost
ReadFails ==
    /\ pc = "read"
    /\ \E k \in ErrorKinds : Fault(k) /\ Escape(k)
    /\ mq' \in {mq} \cup {[mq EXCEPT ![m] = "pending"] : m \in Oldest(InState("queued"), 1)}
    /\ UNCHANGED <<trimmed, status, cancelFlag, jobVars, lifeVars, outVars>>

\* Mutant of Wake: the failed message is retried although it was let go of.
RetryInPlace ==
    /\ pc = "sleep"
    /\ Goto("status")
    /\ UNCHANGED <<redisVars, jobVars, lifeVars, outVars, faults>>

\* the back-off sleep ends
Wake ==
    /\ pc = "sleep"
    /\ Goto(LoopHead)
    /\ UNCHANGED <<redisVars, jobVars, lifeVars, outVars, faults>>

-----------------------------------------------------------------------------
(***************************************************************************)
(* _process_message up to the moment the job is taken on.                  *)
(***************************************************************************)
\* Mutant of SkipStates: a job that is executing somewhere is left alone.
SkipExecutingToo == {"executing", "completed", "cancelled"}
\* Mutant of SkipStates: completed jobs are run again.
SkipCancelledOnly == {"cancelled"}

SkipStates == {"completed", "cancelled"}

\* Mutant of CheckStatus: the recorded status is not looked at.
NoStatusCheck ==
    /\ pc = "status"
    /\ Goto("cancelq")
    /\ UNCHANGED <<redisVars, jobVars, lifeVars, outVars, faults>>

\* _get_job_status: settled jobs are acknowledged without running
CheckStatus ==
    /\ pc = "status"
    /\ \/ status[Job] \in SkipStates /\ Goto("skipAck") /\ UNCHANGED faults
       \/ status[Job] \notin SkipStates /\ Goto("cancelq") /\ UNCHANGED faults
       \/ \E k \in ErrorKinds : Fault(k) /\ Escape(k)
    /\ UNCHANGED <<redisVars, jobVars, lifeVars, outVars>>

\* Mutant of CheckCancel: _idle_event is not cleared.
TakeOnWhileIdle ==
    /\ pc = "cancelq"
    /\ \/ CancelSignal(Job) /\ Goto("markSkip") /\ UNCHANGED currentJob
       \/ NoCancelSignal(Job) /\ Goto("begin") /\ currentJob' = Job
    /\ UNCHANGED <<redisVars, idle, exec, zombie, lifeVars, outVars>>

\* the cancel check before execution; otherwise the consumer becomes busy
CheckCancel ==
    /\ pc = "cancelq"
    /\ \/ CancelSignal(Job) /\ Goto("markSkip") /\ UNCHANGED <<idle, currentJob>>
       \/ NoCancelSignal(Job) /\ Goto("begin") /\ idle' = FALSE /\ currentJob' = Job
       \/ (\E k \in ErrorKinds : Fault(k) /\ Escape(k)) /\ UNCHANGED <<idle, currentJob>>
    /\ UNCHANGED <<redisVars, exec, zombie, lifeVars, outVars>>

\* _mark_job_cancelled of a job that never ran
MarkSkip ==
    /\ pc = "markSkip"
    /\ \/ SafeHset(Job, "cancelled") /\ Goto("skipAck")
       \/ HsetRaises(Job, "cancelled") /\ Escape("other")
    /\ UNCHANGED <<mq, trimmed, cancelFlag, jobVars, lifeVars, outVars>>

\* XACK of a message that is malformed, settled or cancelled
SkipAck ==
    /\ pc = "skipAck"
    /\ \/ SafeXack(cur) /\ Resume(todo)
       \/ XackRaises(cur) /\ Escape("other")
    /\ UNCHANGED <<trimmed, status, cancelFlag, jobVars, lifeVars, outVars>>

-----------------------------------------------------------------------------
(***************************************************************************)
(* _process_message and _run_job_with_cancellation.                        *)
(***************************************************************************)
\* HSET executing, before the try: then the IR is parsed and run_task created
Begin ==
    /\ pc = "begin"
    /\ \/ /\ SafeHset(Job, "executing")
          /\ IF cur \in BadIR THEN Goto("exc") /\ UNCHANGED exec
                              ELSE Goto("run") /\ exec' = "running"
       \/ HsetRaises(Job, "executing") /\ Escape("other") /\ UNCHANGED exec
    /\ UNCHANGED <<mq, trimmed, cancelFlag, idle, currentJob, zombie, lifeVars, outVars>>

\* asyncio.wait returns run_task: its result is used, its exception handled
RunDone ==
    /\ pc = "run" /\ exec \in {"ok", "err"}
    /\ Goto(IF exec = "ok" THEN "check" ELSE "exc")
    /\ exec' = "off"
    /\ UNCHANGED <<redisVars, idle, currentJob, zombie, lifeVars, outVars, faults>>

\* asyncio.wait times out after _CANCEL_POLL_INTERVAL_SECS
RunTimeout ==
    /\ pc = "run" /\ exec = "running"
    /\ Goto("poll")
    /\ UNCHANGED <<redisVars, jobVars, lifeVars, outVars, faults>>

\* the finally of _run_job_with_cancellation cancels run_task without awaiting it
AbandonRun ==
    /\ exec' = "off"
    /\ zombie' = IF exec = "running" THEN TRUE ELSE zombie

\* the cancel check while run_task executes
Poll ==
    /\ pc = "poll"
    /\ \/ CancelSignal(Job) /\ Goto("halt") /\ UNCHANGED <<exec, zombie>>
       \/ NoCancelSignal(Job) /\ Goto("run") /\ UNCHANGED <<exec, zombie>>
       \/ (\E k \in ErrorKinds : Fault(k)) /\ Goto("exc") /\ AbandonRun
    /\ UNCHANGED <<redisVars, idle, currentJob, lifeVars, outVars>>

\* Mutant of Halt: the cancelled run_task is not awaited.
HaltWithoutAwait ==
    /\ pc = "halt"
    /\ Goto("markCancel") /\ AbandonRun
    /\ UNCHANGED <<redisVars, idle, currentJob, lifeVars, outVars, faults>>

\* cancel_current_job hook, run_task.cancel() and the await of run_task
Halt ==
    /\ pc = "halt"
    /\ Goto("markCancel") /\ exec' = "off"
    /\ UNCHANGED <<redisVars, idle, currentJob, zombie, lifeVars, outVars, faults>>

\* a cancel check inside the try statement: on to p, to the cancelled handler,
\* or to the general handler when Redis fails
CheckedGoto(p) ==
    \/ CancelSignal(Job) /\ Goto("markCancel")
    \/ NoCancelSignal(Job) /\ Goto(p)
    \/ (\E k \in ErrorKinds : Fault(k)) /\ Goto("exc")

\* the two consecutive cancel checks after execution, as one
CheckAfterRun ==
    /\ pc = "check"
    /\ CheckedGoto("complete")
    /\ UNCHANGED <<redisVars, jobVars, lifeVars, outVars>>

\* HSET completed
Complete ==
    /\ pc = "complete"
    /\ \/ SafeHset(Job, "completed") /\ Goto("recheck")
       \/ HsetRaises(Job, "completed") /\ Goto("exc")
    /\ UNCHANGED <<mq, trimmed, cancelFlag, jobVars, lifeVars, outVars>>

\* Mutant of CheckBeforePost: no cancel check after HSET completed.
PostUnchecked ==
    /\ pc = "recheck"
    /\ Goto("post")
    /\ UNCHANGED <<redisVars, jobVars, lifeVars, outVars, faults>>

\* Mutant of CheckBeforePost: the message is acknowledged before the result is sent.
AckThenPost ==
    /\ pc = "recheck"
    /\ SafeXack(cur) /\ Goto("post")
    /\ UNCHANGED <<trimmed, status, cancelFlag, jobVars, lifeVars, outVars>>

\* the last cancel check before the result webhook
CheckBeforePost ==
    /\ pc = "recheck"
    /\ CheckedGoto("post")
    /\ UNCHANGED <<redisVars, jobVars, lifeVars, outVars>>

Report(r) == sent' = [sent EXCEPT ![Job] = @ \cup {r}]

\* send_result: it returns, or raises once its attempts are used up
Post ==
    /\ pc = "post"
    /\ Report("completed")
    /\ \/ Goto("final") /\ delivered' = delivered \cup {Job}
       \/ Goto("exc") /\ UNCHANGED delivered
    /\ UNCHANGED <<redisVars, jobVars, lifeVars, early, cut, faults>>

\* the cancel check that opens `except Exception'; a failure of its own escapes
HandleException ==
    /\ pc = "exc"
    /\ \/ CancelSignal(Job) /\ Goto("markCancel") /\ UNCHANGED outVars
       \/ NoCancelSignal(Job) /\ Goto("fail") /\ UNCHANGED outVars
       \/ \E k \in ErrorKinds : Fault(k) /\ RaiseThroughFinally(k)
    /\ UNCHANGED <<redisVars, jobVars, lifeVars>>

\* HSET failed
Fail ==
    /\ pc = "fail"
    /\ \/ SafeHset(Job, "failed") /\ Goto("postErr") /\ UNCHANGED outVars
       \/ HsetRaises(Job, "failed") /\ RaiseThroughFinally("other")
    /\ UNCHANGED <<mq, trimmed, cancelFlag, jobVars, lifeVars>>

\* send_error: every exception is logged and swallowed
PostError ==
    /\ pc = "postErr"
    /\ Report("failed") /\ Goto("final")
    /\ UNCHANGED <<redisVars, jobVars, lifeVars, delivered, early, cut, faults>>

\* Mutant of MarkCancelled: the handler does not return.
MarkCancelledFallsThrough ==
    /\ pc = "markCancel"
    /\ SafeHset(Job, "cancelled") /\ Goto("fail")
    /\ UNCHANGED <<mq, trimmed, cancelFlag, jobVars, lifeVars, outVars>>

\* _mark_job_cancelled in either handler, then return
MarkCancelled ==
    /\ pc = "markCancel"
    /\ \/ SafeHset(Job, "cancelled") /\ Goto("final") /\ UNCHANGED outVars
       \/ HsetRaises(Job, "cancelled") /\ RaiseThroughFinally("other")
    /\ UNCHANGED <<mq, trimmed, cancelFlag, jobVars, lifeVars>>

\* Mutant of Finally: the node becomes idle only when no exception is pending.
FinallyWithoutReset ==
    /\ pc = "final"
    /\ SafeXack(cur)
    /\ IF raised = "none"
       THEN Resume(todo) /\ idle' = TRUE /\ currentJob' = NoJob
       ELSE Escape(raised) /\ UNCHANGED <<idle, currentJob>>
    /\ UNCHANGED <<trimmed, status, cancelFlag, exec, zombie, lifeVars, outVars>>

\* the finally clause: XACK, then idle again, then the pending exception if any
Finally ==
    /\ pc = "final"
    /\ \/ /\ SafeXack(cur)
          /\ idle' = TRUE /\ currentJob' = NoJob
          /\ IF raised = "none" THEN Resume(todo) ELSE Escape(raised)
       \/ XackRaises(cur) /\ Escape("other") /\ UNCHANGED <<idle, currentJob>>
    /\ UNCHANGED <<trimmed, status, cancelFlag, exec, zombie, lifeVars, outVars>>

-----------------------------------------------------------------------------
(***************************************************************************)
(* The executor (external: JobExecutor.run of the configured backend).     *)
(***************************************************************************)
RunEnds ==
    /\ exec = "running" /\ exec' \in {"ok", "err"}
    /\ UNCHANGED <<redisVars, ctlVars, idle, currentJob, zombie, lifeVars, outVars, faults>>

ZombieEnds ==
    /\ zombie /\ zombie' = FALSE
    /\ UNCHANGED <<redisVars, ctlVars, idle, currentJob, exec, lifeVars, outVars, faults>>

-----------------------------------------------------------------------------
(***************************************************************************)
(* The lifespan of the process.                                            *)
(***************************************************************************)
\* the fields and locals of a RedisConsumer that has done nothing yet
Fresh ==
    /\ cur' = NoMsg /\ todo' = {} /\ raised' = "none" /\ redisHealthy' = TRUE
    /\ idle' = TRUE /\ currentJob' = NoJob /\ exec' = "off" /\ zombie' = FALSE

\* a new RedisConsumer, and consume_loop as a task
Start ==
    /\ app = "off" /\ starts < MaxStarts
    /\ app' = "up" /\ running' = TRUE /\ starts' = starts + 1
    /\ pc' = "setup" /\ booting' = TRUE /\ Fresh
    /\ UNCHANGED <<redisVars, outVars, faults>>

\* consumer.drain() begins: stop()
Stop ==
    /\ app = "up" /\ starts < MaxStarts
    /\ app' = "drain" /\ running' = FALSE
    /\ UNCHANGED <<redisVars, ctlVars, jobVars, starts, outVars, faults>>

\* CancelledError arrives inside _process_message's try statement
CancelInTry ==
    /\ pc \in InTry
    /\ RaiseThroughFinally("cancel")
    /\ AbandonRun
    /\ UNCHANGED <<mq, status>>

\* ... at `await run_task' after a cancel signal, where the code swallows it
CancelSwallowed ==
    /\ pc = "halt"
    /\ Goto("markCancel") /\ exec' = "off"
    /\ UNCHANGED <<mq, status, zombie, outVars>>

\* ... or anywhere else: the task ends; a write in flight may still be applied
CancelOutsideTry ==
    /\ pc \notin InTry \cup {"dead", "exited"}
    /\ Escape("cancel")
    /\ mq' \in {mq} \cup {[mq EXCEPT ![m] = "acked"] :
                            m \in {n \in {cur} : pc \in {"skipAck", "final"}}}
    /\ status' \in {status} \cup {[status EXCEPT ![JobOf[m]] = "executing"] :
                            m \in {n \in {cur} : pc = "begin"}}
    /\ UNCHANGED <<exec, zombie, outVars>>

CancelTooLate ==
    /\ pc \in {"dead", "exited"}
    /\ UNCHANGED <<ctlVars, mq, status, exec, zombie, outVars>>

\* drain returns, idle or after its timeout; the lifespan cancels consumer_task
CancelConsumer ==
    /\ app = "drain" /\ app' = "join"
    /\ CancelInTry \/ CancelSwallowed \/ CancelOutsideTry \/ CancelTooLate
    /\ UNCHANGED <<trimmed, cancelFlag, idle, currentJob, running, starts, faults>>

Drained == idle /\ CancelConsumer
DrainTimeout == ~idle /\ CancelConsumer

\* everything in memory is gone
ProcessGone ==
    /\ app' = "off" /\ running' = FALSE
    /\ pc' = "off" /\ booting' = FALSE /\ Fresh
    /\ UNCHANGED <<redisVars, starts, faults, sent, delivered, early>>

\* await consumer_task returns, clients are closed, the process ends
Exit ==
    /\ app = "join" /\ pc \in {"dead", "exited"}
    /\ ProcessGone
    /\ UNCHANGED cut

\* the job at hand if it is marked completed: recovery will skip it
CompletedInHand == {j \in Jobs : Working(j) /\ pc \in InTry /\ status[j] = "completed"}

\* a crash, or SIGKILL
Crash ==
    /\ app # "off" /\ starts < MaxStarts
    /\ ProcessGone
    /\ cut' = cut \cup CompletedInHand

-----------------------------------------------------------------------------
(***************************************************************************)
(* The cloud (external).                                                   *)
(***************************************************************************)
\* XADD of the next message
Enqueue ==
    /\ \E m \in Oldest(InState("absent"), 1) : mq' = [mq EXCEPT ![m] = "queued"]
    /\ UNCHANGED <<trimmed, status, cancelFlag, ctlVars, jobVars, lifeVars, outVars, faults>>

\* past these points no cancel check precedes the next report
PastLastCheck == {"post", "fail", "postErr"}

\* the cancel flag of a submitted job is set
Cancel(j) ==
    /\ j \notin cancelFlag
    /\ \E m \in Msgs : JobOf[m] = j /\ mq[m] # "absent"
    /\ cancelFlag' = cancelFlag \cup {j}
    /\ early' = early \cup {i \in {j} : sent[i] = {} /\ ~(Working(i) /\ pc \in PastLastCheck)}
    /\ UNCHANGED <<mq, trimmed, status, ctlVars, jobVars, lifeVars, sent, delivered, cut, faults>>

\* MAXLEN or XTRIM drops an entry that is still in the pending list
Trim(m) ==
    /\ m \in Trimmable \ trimmed /\ mq[m] = "pending"
    /\ trimmed' = trimmed \cup {m}
    /\ UNCHANGED <<mq, status, cancelFlag, ctlVars, jobVars, lifeVars, outVars, faults>>

-----------------------------------------------------------------------------
Init ==
    /\ mq = [m \in Msgs |-> "absent"] /\ trimmed = {}
    /\ status = [j \in Jobs |-> "none"] /\ cancelFlag = {}
    /\ pc = "off" /\ cur = NoMsg /\ todo = {} /\ booting = FALSE /\ raised = "none"
    /\ redisHealthy = TRUE /\ idle = TRUE /\ currentJob = NoJob
    /\ exec = "off" /\ zombie = FALSE
    /\ app = "off" /\ running = FALSE
    /\ sent = [j \in Jobs |-> {}] /\ delivered = {} /\ early = {} /\ cut = {}
    /\ faults = 0 /\ starts = 0

\* one message: from XREADGROUP or XRANGE to its XACK
ProcessMessage ==
    \/ CheckStatus \/ CheckCancel \/ MarkSkip \/ SkipAck \/ Begin
    \/ RunDone \/ RunTimeout \/ Poll \/ Halt \/ CheckAfterRun \/ Complete
    \/ CheckBeforePost \/ Post \/ HandleException \/ Fail \/ PostError
    \/ MarkCancelled \/ Finally

ConsumerStep ==
    \/ Setup \/ Scan \/ Fetch \/ ReadMessage \/ ReadNothing \/ ReadRecheck
    \/ ReadFails \/ Wake \/ ProcessMessage

Executor == RunEnds \/ ZombieEnds
Lifespan == Start \/ Stop \/ Drained \/ DrainTimeout \/ Exit \/ Crash
Cloud == Enqueue \/ (\E j \in Jobs : Cancel(j)) \/ (\E m \in Msgs : Trim(m))

Next == ConsumerStep \/ Executor \/ Lifespan \/ Cloud

Spec == Init /\ [][Next]_vars

\* the awaits that only an answer of Redis, or an error of its client, ends
RedisPoints == Points \ {"off", "sleep", "dead", "exited", "run", "halt", "post", "postErr"}

(***************************************************************************)
(* Assumed of the environment, not ensured by the code: every call to      *)
(* Redis ends, with an answer or with an exception.  app.py:83 makes the   *)
(* client without a socket timeout, so on a connection that stays half     *)
(* open the consumer may wait for an answer for good.  Spec includes that  *)
(* wait, as stuttering; FairSpec excludes it.  A quiet stream is found     *)
(* quiet at a 60 s recheck in the end.                                     *)
(***************************************************************************)
RedisCallsEnd == WF_vars(pc \in RedisPoints /\ ConsumerStep) /\ WF_vars(ReadRecheck)

(***************************************************************************)
(* Fairness: the event loop keeps scheduling the consumer, whose other     *)
(* awaits end by a timeout (back-off, cancel poll, webhook); the backend's *)
(* run returns, also when it is cancelled, drain's timeout fires, and a    *)
(* supervisor restarts a node that has gone down.                          *)
(***************************************************************************)
Fairness ==
    /\ WF_vars(pc \notin RedisPoints /\ ConsumerStep) /\ WF_vars(RunEnds)
    /\ WF_vars(Drained \/ DrainTimeout) /\ WF_vars(Exit) /\ WF_vars(Start)

FairSpec == Spec /\ Fairness /\ RedisCallsEnd

-----------------------------------------------------------------------------
(***************************************************************************)
(* Properties.                                                             *)
(***************************************************************************)
\* Every variable has its type; a message is in hand exactly while it is
\* processed, and no consumer runs in a process that is down.
RedisTypeOK ==
    /\ mq \in [Msgs -> MsgStates] /\ trimmed \subseteq Msgs
    /\ status \in [Jobs -> JobStates] /\ cancelFlag \subseteq Jobs
CtlTypeOK ==
    /\ pc \in Points /\ todo \subseteq Msgs
    /\ cur \in IF pc \in InSkip \cup InJob THEN Msgs ELSE {NoMsg}
    /\ booting \in BOOLEAN /\ raised \in ErrorKinds \cup {"cancel", "none"}
    /\ redisHealthy \in BOOLEAN
JobTypeOK ==
    /\ idle \in BOOLEAN /\ currentJob \in Jobs \cup {NoJob}
    /\ exec \in {"off", "running", "ok", "err"} /\ zombie \in BOOLEAN
LifeTypeOK ==
    /\ app \in {"off", "up", "drain", "join"} /\ (app = "off" => pc = "off")
    /\ running \in BOOLEAN /\ starts \in Nat /\ faults \in Nat
OutTypeOK ==
    /\ sent \in [Jobs -> SUBSET {"completed", "failed"}]
    /\ delivered \subseteq Jobs /\ early \subseteq Jobs /\ cut \subseteq Jobs
TypeOK == RedisTypeOK /\ CtlTypeOK /\ JobTypeOK /\ LifeTypeOK /\ OutTypeOK

\* A job whose cancel flag was set while a cancel check was still ahead of the
\* consumer is never reported, neither as completed nor as failed: whatever
\* crashes, Redis errors, redeliveries and webhook failures come in between
\* (the cancel checks at consumer.py 346, 350, 555, 576, 586, 603).
EarlyCancelWins == \A j \in early : sent[j] = {}

\* A well-formed message is acknowledged only when its job was reported or
\* cancelled, or was cut short: by an exception that escapes the handlers of
\* _process_message, or by a crash after HSET completed.  There is no other way
\* to lose a job silently (the finally at 622 and the skip at 551).
NoOtherSilentAck ==
    \A m \in Msgs \ BadFields :
        mq[m] = "acked" => \/ sent[JobOf[m]] # {}
                           \/ JobOf[m] \in cancelFlag \cup cut

\* Once Redis says a job is cancelled, no step of any process overwrites it:
\* not a duplicate message, not the failure handler, not a restart.
CancelledIsFinal ==
    [][\A j \in Jobs : status[j] = "cancelled" => status'[j] = "cancelled"]_vars

\* A job that Redis records as completed or cancelled is never given to the
\* executor again, by a duplicate or a recovered message (550-558).
SettledNeverRuns == exec = "running" => status[Job] \notin SkipStates

\* Without a Redis error a result that the cloud accepted is final: no crash,
\* restart or duplicate makes the node execute the job again.
DeliveredNeverRuns ==
    faults = 0 /\ exec = "running" => Job \notin delivered

\* Only a Redis error lets two executor runs overlap: a cancelled run_task is
\* awaited before the next job starts (353-357), except when a poll raises.
RunsOverlapOnlyAfterError == faults = 0 => ~(zombie /\ exec = "running")

\* While a message is in the hands of the job's handlers the node says so:
\* drain cannot return clean, and /ready and the heartbeat name the job.
BusyIsVisible == pc \in InJob => ~idle /\ currentJob = Job

\* drain() returning clean never makes the cancel land in a job.
CleanDrainCutsNothing == [][Drained => raised' # "cancel" /\ cut' = cut]_vars

\* With connection errors only, a live consumer shows a current job only while
\* it handles one: no phantom job survives an outage.
NoPhantomJob ==
    /\ RedisErrors \subseteq {"conn"}
    /\ pc \in {"scan", "fetch", "read", "sleep"} \cup InSkip
    => idle /\ currentJob = NoJob

\* Every message the cloud enqueues is acknowledged in the end, through Redis
\* outages, replies that are lost with their connection, crashes and shutdowns,
\* unless the cloud trims it, or so many trimmed entries are pending that they fill
\* the answer of XPENDING, which nothing acknowledges (consumer.py:155-168): then
\* recovery sees no other message.  Assumes RedisCallsEnd: a reply that is lost
\* without an error holds the consumer, and the message, until the next restart.
EventuallyAcked ==
    \A m \in Msgs :
        (mq[m] = "queued")
            ~> \/ mq[m] = "acked" \/ m \in trimmed
               \/ Cardinality({n \in trimmed : mq[n] = "pending"}) >= RecoverCount

\* A shutdown ends: drain, the cancel and the await of the consumer task never
\* wait on each other for good.  Assumes RedisCallsEnd: what the task still does
\* after the one cancel it gets, at least the XACK of the finally (consumer.py:623),
\* waits for Redis without a timeout.
ShutdownEnds == (app = "drain") ~> (app = "off")
=============================================================================
