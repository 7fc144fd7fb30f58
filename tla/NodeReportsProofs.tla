------------------------- MODULE NodeReportsProofs -------------------------
(***************************************************************************)
(* What a node with real webhook calls guarantees end to end, for every    *)
(* set of messages and jobs and any number of attempts, faults, losses and *)
(* restarts.                                                               *)
(***************************************************************************)
EXTENDS NodeReports, ConsumerJobsProofs

\* the facts proved about the client alone, for the client of this node
Client == INSTANCE WebhookProofs

-----------------------------------------------------------------------------
(***************************************************************************)
(* The strengthenings.                                                     *)
(***************************************************************************)
Told(j) == "completed" \in accepted[j]

\* The only call under way is the one the consumer awaits, with the report of that
\* await; and once the client is closed the consumer task is over.
CallInv ==
    /\ \A j \in Jobs :
          Web!Busy(j) => /\ Calling /\ Job = j
                         /\ sending[j] = {IF pc = "post" THEN "completed" ELSE "failed"}
    /\ ~open => app = "join" /\ pc = "exited"

\* While no Redis operation has failed, a completed job that the cloud does not know
\* of is in the hands of the handlers that will report it, undo it or cut it short.
Unreported == {"recheck", "post", "exc", "fail", "markCancel"}
DeliveredInv ==
    faults = 0 =>
        \A j \in Jobs : status[j] = "completed" =>
            \/ Told(j) \/ j \in cut
            \/ Working(j) /\ pc \in Unreported

\* In the first start, while Redis has not failed, every message is handled once: what is
\* pending is in hand until the task ends, and a job enqueued once has not been reported
\* before its message comes to the webhook call.
FirstPass == faults = 0 /\ starts <= 1
Over == {"exited", "dead", "off"}
Reported == {"post", "exc", "fail", "postErr", "markCancel", "final"}
OnePass ==
    /\ todo = {}
    /\ starts = 0 => app = "off" /\ pc = "off" /\ \A m \in Msgs : mq[m] \in {"absent", "queued"}
    /\ \A m \in Msgs : mq[m] = "pending" => cur = m \/ pc \in Over
HandledOnce ==
    /\ \A m \in Msgs : mq[m] \in {"absent", "queued"} /\ ~Duplicated(JobOf[m])
                       => asked[JobOf[m]] = {}
    /\ cur \in Msgs /\ ~Duplicated(Job) =>
         /\ pc \notin Reported \/ (pc = "post" /\ ~Web!Busy(Job)) => asked[Job] = {}
         /\ pc \in {"post", "exc", "fail", "markCancel"} => "failed" \notin asked[Job]
FirstPassInv == FirstPass => OnePass /\ HandledOnce

\* In the first start and before a second loss, a failure is reported only of a job
\* whose result the cloud does not have and will not get.
NoResult(j) ==
    /\ "completed" \notin accepted[j] \cup sending[j]
    /\ \A q \in late : q[1] = j => q[2] # "completed"
Calm == FirstPass /\ lost < 2 /\ lost < MaxRetries
Consistent(j) ==
    /\ "failed" \in asked[j] => NoResult(j)
    /\ Working(j) /\ pc \in {"exc", "fail", "postErr"} => NoResult(j)
    /\ lost = 0 /\ Web!Busy(j) /\ sending[j] = {"completed"} =>
         ~Told(j) /\ \A q \in late : q[1] # j
ContradictionInv == Calm => \A j \in Jobs : ~Duplicated(j) => Consistent(j)

-----------------------------------------------------------------------------
(***************************************************************************)
(* The node is the consumer of RedisConsumer, and its client is the client *)
(* of WebhookClient.                                                       *)
(***************************************************************************)
\* Every step of the node is a step of the consumer or leaves it alone.
LEMMA NodeStep == [NodeNext]_nodeVars => [Next]_vars
  <1> SUFFICES ASSUME [NodeNext]_nodeVars PROVE [Next]_vars
    OBVIOUS
  <1>1. CASE NodeConsumerStep
    BY <1>1 DEF NodeConsumerStep, Next
  <1>2. CASE WebhookStep
    BY <1>2 DEF WebhookStep, SendReport, StillSending, ReportReturns, ReportRaises,
       Next, ConsumerStep, ProcessMessage
  <1>3. CASE HeartbeatStep \/ Network
    BY <1>3 DEF HeartbeatStep, Network
  <1>4. CASE NodeLifespan
    BY <1>4 DEF NodeLifespan, StartNode, StopHeartbeat, JoinHeartbeat, StopConsumer, CancelNode,
       CloseWebhook, ExitNode, CrashNode, Next, Lifespan
  <1>5. CASE (Executor \/ Cloud) /\ UNCHANGED <<webVars, hbVars>>
    BY <1>5 DEF Next
  <1>6. CASE UNCHANGED nodeVars
    BY <1>6 DEF nodeVars
  <1> QED BY <1>1, <1>2, <1>3, <1>4, <1>5, <1>6 DEF NodeNext

\* Real webhook calls and heartbeats add nothing to what the consumer may do to Redis,
\* to the executor or to its own state: what is proved of RedisConsumer holds of the node.
THEOREM NodeIsConsumer == NodeSpec => ImplementsConsumer
  <1>1. NodeInit => Init
    BY DEF NodeInit
  <1> QED BY <1>1, NodeStep, PTL DEF NodeSpec, ImplementsConsumer, Spec

\* With real webhook calls, attempt by attempt, and heartbeats, the node still treats every
\* job as JobLifecycle says.
THEOREM NodeKeepsPromise == NodeSpec => ImplementsJobLifecycle
  BY NodeIsConsumer, ConsumerKeepsPromise, PTL DEF ImplementsConsumer

\* The consumer's invariant holds of the node.
LEMMA NodeInv == NodeSpec => []Inv
  BY NodeIsConsumer, Invariance, PTL DEF ImplementsConsumer

\* Every step of the node is a step of its client or leaves it alone.
LEMMA ClientStep ==
    ASSUME Inv, [NodeNext]_nodeVars
    PROVE  [Client!WebNext]_(Client!webVars)
  <1>0. Calling => Job \in Jobs
    BY JobType DEF Inv, TypeOK, Calling, InJob, InTry
  <1>1. CASE SendReport
    BY <1>0, <1>1 DEF SendReport, Web!Call, Web!Busy, Web!Ends, Client!WebNext, Client!Call,
       Client!Busy, Client!Ends, Client!Reports
  <1>2. CASE Attempt
    BY <1>0, <1>2 DEF Attempt, Web!Attempt, Web!Answered, Web!Refused, Web!Fails, Web!Again,
       Web!GivesUp, Web!Ends, Web!Accepts, Web!Fate, Client!WebNext, Client!Attempt,
       Client!Answered, Client!Refused, Client!Fails, Client!Again, Client!GivesUp,
       Client!Ends, Client!Accepts, Client!Fate
  <1>3. CASE CancelNode
    BY <1>0, <1>3 DEF CancelNode, Web!Abort, Web!Busy, Web!Ends, Web!Accepts, Web!Fate, webVars,
       Client!webVars, Client!WebNext, Client!Abort, Client!Busy, Client!Ends, Client!Accepts,
       Client!Fate
  <1>4. CASE CloseWebhook
    BY <1>4 DEF CloseWebhook, Web!Close, Client!WebNext, Client!Close
  <1>5. CASE ExitNode \/ CrashNode
    BY <1>5 DEF ExitNode, CrashNode, Web!WebGone, Client!WebNext, Client!WebGone
  <1>6. CASE Network
    BY <1>6 DEF Network, Web!LateArrives, webVars, Client!webVars, Client!WebNext,
       Client!LateArrives
  <1>7. CASE UNCHANGED webVars
    BY <1>7 DEF webVars, Client!webVars
  <1> QED
    BY <1>1, <1>2, <1>3, <1>4, <1>5, <1>6, <1>7
    DEF NodeNext, NodeConsumerStep, WebhookStep, StillSending, ReportReturns, ReportRaises,
        HeartbeatStep, NodeLifespan, StartNode, StopHeartbeat, JoinHeartbeat, StopConsumer,
        nodeVars

\* The node uses the client only as WebhookClient allows, one call per job at a time.
LEMMA NodeUsesClient == NodeSpec => Client!WebSpec
  <1>1. NodeInit => Client!WebInit
    BY DEF NodeInit, Web!WebInit, Client!WebInit
  <1> QED BY <1>1, ClientStep, NodeInv, PTL DEF NodeSpec, Client!WebSpec

\* So the client's promise holds in every use the node makes of it: a call that returned
\* was accepted, and nothing reaches the cloud that the consumer did not report
\* (webhook.py 98-137).
THEOREM NodeKeepsDelivery == NodeSpec => ImplementsDelivery
  <1>1. NodeSpec => Client!Promise!Spec
    BY NodeUsesClient, Client!WebhookKeepsPromise
  <1>2. Client!Promise!Init => Web!Promise!Init
    BY DEF Client!Promise!Init, Web!Promise!Init, Client!Outcome, Web!Outcome, Client!Busy,
       Web!Busy
  <1>3. [Client!Promise!Next]_(Client!Promise!deliveryVars)
          => [Web!Promise!Next]_(Web!Promise!deliveryVars)
    BY DEF Client!Promise!Next, Client!Promise!deliveryVars, Client!Promise!Call,
       Client!Promise!Accept, Client!Promise!Return, Client!Promise!Raise, Client!Promise!Forget,
       Client!Promise!Ends, Client!Outcome, Client!Busy, Client!Reports,
       Web!Promise!Next, Web!Promise!deliveryVars, Web!Promise!Call,
       Web!Promise!Accept, Web!Promise!Return, Web!Promise!Raise, Web!Promise!Forget,
       Web!Promise!Ends, Web!Outcome, Web!Busy, Web!Reports
  <1> QED
    BY <1>1, <1>2, <1>3, PTL DEF ImplementsDelivery, Client!Promise!Spec, Web!Promise!Spec

-----------------------------------------------------------------------------
(***************************************************************************)
(* The calls of the consumer.                                              *)
(***************************************************************************)
\* A consumer task that is over takes no step.
LEMMA OverIsIdle == pc \in {"exited", "dead", "off"} => ~ConsumerStep
  BY DEF ConsumerStep, ProcessMessage, Setup, Scan, Fetch, ReadMessage, ReadNothing,
     ReadRecheck, ReadFails, Wake, CheckStatus, CheckCancel, MarkSkip, SkipAck, Begin, RunDone,
     RunTimeout, Poll, Halt, CheckAfterRun, Complete, CheckBeforePost, Post, HandleException,
     Fail, PostError, MarkCancelled, Finally

\* What an attempt does to the calls: it goes on or ends, for the job in hand alone.
LEMMA AttemptHook ==
    ASSUME Client!WebInv, Job \in Jobs, Attempt
    PROVE  /\ Web!Busy(Job) /\ open' = open
           /\ \A j \in Jobs \ {Job} : hook'[j] = hook[j] /\ sending'[j] = sending[j]
           /\ hook'[Job] \in {"post", "backoff"} => sending'[Job] = sending[Job]
  BY DEF Attempt, Web!Attempt, Web!Answered, Web!Refused, Web!Fails, Web!Again, Web!GivesUp,
     Web!Ends, Web!Busy, Client!WebInv

\* Only the awaited call is under way, and none once the client is closed.
LEMMA CallStep ==
    ASSUME Inv, Client!WebInv, CallInv, [NodeNext]_nodeVars
    PROVE  CallInv'
  <1>0. Calling => Job \in Jobs
    BY JobType DEF Inv, TypeOK, Calling, InJob, InTry
  <1>1. CASE NodeConsumerStep
    BY <1>1, OverIsIdle DEF NodeConsumerStep, CallInv, webVars, Web!Busy
  <1>2. CASE SendReport
    BY <1>0, <1>2 DEF SendReport, Web!Call, Web!Busy, CallInv, Client!WebInv, vars, ctlVars,
       lifeVars, Calling, Job
  <1>3. CASE StillSending
    <2>1. UNCHANGED <<pc, cur, app>> /\ Calling /\ Attempt
      BY <1>3 DEF StillSending, vars, ctlVars, lifeVars, Attempt
    <2> QED BY <1>0, <2>1, <1>3, AttemptHook DEF StillSending, CallInv, Web!Busy, Calling, Job
  <1>4. CASE ReportReturns \/ ReportRaises
    <2>1. Calling /\ Attempt /\ hook'[Job] \notin {"post", "backoff"}
      BY <1>4 DEF ReportReturns, ReportRaises, Attempt
    <2>2. \A j \in Jobs : ~Web!Busy(j)'
      BY <1>0, <2>1, AttemptHook DEF CallInv, Web!Busy
    <2>3. open
      BY <2>1 DEF CallInv, Calling
    <2> QED BY <1>0, <2>1, <2>2, <2>3, AttemptHook DEF CallInv
  <1>5. CASE HeartbeatStep \/ Network
    <2>1. UNCHANGED <<pc, cur, app, hook, sending, open>>
      BY <1>5 DEF HeartbeatStep, Network, Web!LateArrives, vars, ctlVars, lifeVars, webVars
    <2> QED BY <2>1 DEF CallInv, Web!Busy, Calling, Job
  <1>6. CASE StartNode \/ StopHeartbeat \/ JoinHeartbeat \/ StopConsumer
    BY <1>6 DEF StartNode, StopHeartbeat, JoinHeartbeat, StopConsumer, Start, Stop, vars, ctlVars,
       lifeVars, webVars, CallInv, Web!Busy, Calling, Job, Inv, TypeOK, LifeTypeOK
  <1>7. CASE CancelNode
    <2>1. \A j \in Jobs : ~Web!Busy(j)'
      <3>1. CASE Calling /\ Web!Busy(Job)
        BY <1>0, <1>7, <3>1 DEF CancelNode, Web!Abort, Web!Ends, Web!Busy, CallInv, Client!WebInv
      <3>2. CASE ~(Calling /\ Web!Busy(Job))
        BY <1>7, <3>2 DEF CancelNode, webVars, Web!Busy, CallInv
      <3> QED BY <3>1, <3>2
    <2>2. app = "drain" /\ open' = open
      BY <1>7 DEF CancelNode, Drained, DrainTimeout, CancelConsumer, webVars, Web!Abort
    <2> QED BY <2>1, <2>2 DEF CallInv
  <1>8. CASE CloseWebhook
    BY <1>8 DEF CloseWebhook, Web!Close, CallInv, Web!Busy, Calling, Job, vars, ctlVars, lifeVars
  <1>9. CASE ExitNode \/ CrashNode
    BY <1>9 DEF ExitNode, CrashNode, Web!WebGone, Web!Busy, CallInv
  <1>10. CASE (Executor \/ Cloud) /\ UNCHANGED <<webVars, hbVars>>
    BY <1>10 DEF Executor, RunEnds, ZombieEnds, Cloud, Enqueue, Cancel, Trim, webVars, ctlVars,
       lifeVars, CallInv, Web!Busy, Calling, Job
  <1>11. CASE UNCHANGED nodeVars
    BY <1>11 DEF nodeVars, vars, ctlVars, lifeVars, webVars, CallInv, Web!Busy, Calling, Job
  <1> QED
    BY <1>1, <1>2, <1>3, <1>4, <1>5, <1>6, <1>7, <1>8, <1>9, <1>10, <1>11
    DEF NodeNext, WebhookStep, NodeLifespan
-----------------------------------------------------------------------------
(***************************************************************************)
(* From the job's record to the cloud.                                        *)
(***************************************************************************)
\* Nothing takes back a Redis failure, a start of the process or a job cut short.
LEMMA CountsGrow ==
    ASSUME [Next]_vars
    PROVE  /\ faults' \in {faults, faults + 1} /\ starts' \in {starts, starts + 1}
           /\ cut \subseteq cut'
  <1> USE DEF redisVars, jobVars, lifeVars, outVars, Fault
  <1>1. CASE Setup \/ Scan \/ Fetch \/ ReadMessage \/ ReadNothing \/ ReadRecheck \/ ReadFails
             \/ Wake \/ CheckStatus \/ CheckCancel \/ MarkSkip \/ SkipAck \/ Begin
    BY <1>1 DEF Setup, Scan, Fetch, ReadMessage, ReadNothing, ReadRecheck, ReadFails, Wake,
       CheckStatus, CheckCancel, MarkSkip, SkipAck, Begin, SafeHset, HsetRaises, SafeXack,
       XackRaises, CancelSignal, NoCancelSignal
  <1>2. CASE RunDone \/ RunTimeout \/ Poll \/ Halt \/ CheckAfterRun \/ Complete \/ CheckBeforePost
             \/ Post \/ HandleException \/ Fail \/ PostError \/ MarkCancelled \/ Finally
    BY <1>2 DEF RunDone, RunTimeout, Poll, Halt, CheckAfterRun, CheckedGoto, Complete,
       CheckBeforePost, Post, HandleException, Fail, PostError, MarkCancelled, Finally,
       RaiseThroughFinally, SafeHset, HsetRaises, SafeXack, XackRaises, CancelSignal,
       NoCancelSignal
  <1>3. CASE Executor \/ Lifespan \/ Cloud
    BY <1>3 DEF Executor, RunEnds, ZombieEnds, Lifespan, Start, Stop, Drained, DrainTimeout,
       CancelConsumer, CancelInTry, CancelSwallowed, CancelOutsideTry, CancelTooLate,
       RaiseThroughFinally, Exit, Crash, ProcessGone, Cloud, Enqueue, Cancel, Trim
  <1>4. CASE UNCHANGED vars
    BY <1>4 DEF vars
  <1> QED BY <1>1, <1>2, <1>3, <1>4 DEF Next, ConsumerStep, ProcessMessage

\* While no Redis operation fails, the consumer lets go of a job it has marked completed
\* only when the cloud has the result, or by cutting the job short.
LEMMA DeliveredStep ==
    ASSUME Inv, DeliveredInv, [Next]_vars,
           \A j \in Jobs : Told(j) => Told(j)',
           \A j \in Jobs : Working(j) /\ pc = "post" /\ pc' = "final" => Told(j)' \/ j \in cut'
    PROVE  DeliveredInv'
  <1> SUFFICES ASSUME faults' = 0, NEW i \in Jobs, status'[i] = "completed",
                      ~Told(i)', i \notin cut'
               PROVE  Working(i)' /\ pc' \in Unreported
    BY DEF DeliveredInv
  <1>a. faults = 0 /\ \A k : ~Fault(k)
    BY CountsGrow DEF Inv, TypeOK, LifeTypeOK, Fault
  <1>b. i \notin cut /\ ~Told(i)
    BY CountsGrow
  <1>c. /\ status[i] = "completed" => Working(i) /\ pc \in Unreported
        /\ Working(i) => ~(pc = "post" /\ pc' = "final")
    BY <1>a, <1>b DEF DeliveredInv
  <1> USE <1>a, <1>c, JobsAssumption
      DEF Inv, TypeOK, RedisTypeOK, CtlTypeOK, LifeTypeOK, Points, InJob, InTry, InSkip, NoMsg,
          Job, Working, redisVars, jobVars, lifeVars, outVars, SafeHset, HsetRaises, Unreported
  <1>1. CASE Setup
    BY <1>1 DEF Setup, Goto, Escape
  <1>2. CASE Scan
    BY <1>2 DEF Scan, Oldest, InState, Resume, LoopHead, Escape
  <1>3. CASE Fetch
    BY <1>3 DEF Fetch, Oldest, Resume, LoopHead, Escape, Dispatch
  <1>4. CASE ReadMessage
    BY <1>4 DEF ReadMessage, Dispatch, Oldest, InState
  <1>5. CASE ReadNothing
    BY <1>5 DEF ReadNothing, LoopHead
  <1>6. CASE ReadRecheck
    BY <1>6 DEF ReadRecheck
  <1>7. CASE ReadFails
    BY <1>7 DEF ReadFails, Escape, Oldest, InState
  <1>8. CASE Wake
    BY <1>8 DEF Wake, Goto, LoopHead
  <1>9. CASE CheckStatus
    BY <1>9 DEF CheckStatus, Goto, Escape, SkipStates
  <1>10. CASE CheckCancel
    BY <1>10 DEF CheckCancel, Goto, Escape, CancelSignal, NoCancelSignal
  <1>11. CASE MarkSkip
    BY <1>11 DEF MarkSkip, Goto, Escape, SafeHset
  <1>12. CASE SkipAck
    BY <1>12 DEF SkipAck, Resume, LoopHead, Escape, SafeXack
  <1>13. CASE Begin
    BY <1>13 DEF Begin, Goto, Escape, SafeHset
  <1>14. CASE RunDone
    BY <1>14 DEF RunDone, Goto
  <1>15. CASE RunTimeout
    BY <1>15 DEF RunTimeout, Goto
  <1>16. CASE Poll
    BY <1>16 DEF Poll, Goto, CancelSignal, NoCancelSignal, AbandonRun
  <1>17. CASE Halt
    BY <1>17 DEF Halt, Goto
  <1>18. CASE CheckAfterRun
    BY <1>18 DEF CheckAfterRun, Goto, CheckedGoto, CancelSignal, NoCancelSignal
  <1>19. CASE Complete
    BY <1>19 DEF Complete, Goto, SafeHset
  <1>20. CASE CheckBeforePost
    BY <1>20 DEF CheckBeforePost, Goto, CheckedGoto, CancelSignal, NoCancelSignal
  <1>21. CASE Post
    BY <1>21 DEF Post, Goto, Report
  <1>22. CASE HandleException
    BY <1>22 DEF HandleException, Goto, RaiseThroughFinally, CancelSignal,
       NoCancelSignal
  <1>23. CASE Fail
    BY <1>23 DEF Fail, Goto, RaiseThroughFinally, SafeHset
  <1>24. CASE PostError
    BY <1>24 DEF PostError, Goto, Report
  <1>25. CASE MarkCancelled
    BY <1>25 DEF MarkCancelled, Goto, RaiseThroughFinally, SafeHset
  <1>26. CASE Finally
    BY <1>26 DEF Finally, Resume, LoopHead, Escape, SafeXack
  <1>27. CASE RunEnds
    BY <1>27 DEF RunEnds, ctlVars
  <1>28. CASE ZombieEnds
    BY <1>28 DEF ZombieEnds, ctlVars
  <1>29. CASE Start
    BY <1>29 DEF Start, Fresh
  <1>30. CASE Stop
    BY <1>30 DEF Stop, ctlVars
  <1>31. CASE Exit
    BY <1>31 DEF Exit, ProcessGone, Fresh
  <1>32. CASE Crash
    BY <1>32 DEF Crash, CompletedInHand, ProcessGone, Fresh
  <1>33. CASE Enqueue
    BY <1>33 DEF Enqueue, ctlVars, Oldest, InState
  <1>34. CASE CancelConsumer
    <2>1. CASE CancelInTry
      BY <1>34, <2>1 DEF CancelConsumer, CancelInTry, AbandonRun,
         RaiseThroughFinally
    <2>2. CASE CancelSwallowed
      BY <1>34, <2>2 DEF CancelConsumer, CancelSwallowed, Goto
    <2>3. CASE CancelOutsideTry
      BY <1>34, <2>3 DEF CancelConsumer, CancelOutsideTry, Escape
    <2>4. CASE CancelTooLate
      BY <1>34, <2>4 DEF CancelConsumer, CancelTooLate, ctlVars
    <2> QED
      BY <1>34, <2>1, <2>2, <2>3, <2>4 DEF CancelConsumer
  <1>35. ASSUME NEW j \in Jobs, Cancel(j) PROVE Working(i)' /\ pc' \in Unreported
    BY <1>35 DEF Cancel, ctlVars
  <1>36. ASSUME NEW m \in Msgs, Trim(m) PROVE Working(i)' /\ pc' \in Unreported
    BY <1>36 DEF Trim, ctlVars
  <1>37. CASE UNCHANGED vars
    BY <1>37 DEF vars, ctlVars
  <1> QED
    BY <1>1, <1>2, <1>3, <1>4, <1>5, <1>6, <1>7, <1>8, <1>9, <1>10, <1>11, <1>12,
       <1>13, <1>14, <1>15, <1>16, <1>17, <1>18, <1>19, <1>20, <1>21, <1>22,
       <1>23, <1>24, <1>25, <1>26, <1>27, <1>28, <1>29, <1>30, <1>31, <1>32,
       <1>33, <1>34, <1>35, <1>36, <1>37 DEF Next, ConsumerStep, ProcessMessage,
       Executor, Lifespan, Cloud, Drained, DrainTimeout

\* A result is answered, and so accepted, before the consumer goes on to its XACK.
LEMMA ReturnTells ==
    ASSUME Inv, Client!WebInv, CallInv, NodeNext, NEW j \in Jobs, Working(j),
           pc = "post", pc' = "final"
    PROVE  Told(j)' \/ j \in cut'
  <1>0. Job = j /\ Calling
    BY DEF Job, Working, Calling
  <1>1. CASE ReportReturns
    <2>1. Web!Answered(j)
      BY <1>0, <1>1 DEF ReportReturns, Attempt, Web!Attempt, Web!Refused, Web!Fails, Web!Again,
         Web!GivesUp, Web!Ends, Client!WebInv
    <2>2. sending[j] = {"completed"}
      BY <1>0, <2>1 DEF CallInv, Web!Answered, Web!Busy
    <2> QED BY <2>1, <2>2 DEF Web!Answered, Web!Accepts, Told, Client!WebInv
  <1>2. CASE CancelNode
    BY <1>0, <1>2 DEF CancelNode, Drained, DrainTimeout, CancelConsumer, CancelInTry,
       CancelSwallowed, CancelOutsideTry, CancelTooLate, RaiseThroughFinally, InTry
  <1>3. ~(NodeConsumerStep \/ SendReport \/ StillSending \/ HeartbeatStep \/ Network)
    BY <1>0 DEF NodeConsumerStep, SendReport, StillSending, HeartbeatStep, Network, vars, ctlVars
  <1>4. ~(ReportRaises \/ Executor \/ Cloud)
    BY DEF ReportRaises, PostError, Executor, RunEnds, ZombieEnds, Cloud, Enqueue, Cancel, Trim,
       ctlVars
  <1>5. ~(StartNode \/ StopHeartbeat \/ JoinHeartbeat \/ StopConsumer \/ CloseWebhook
          \/ ExitNode \/ CrashNode)
    BY DEF StartNode, Start, StopHeartbeat, JoinHeartbeat, StopConsumer, Stop, CloseWebhook,
       ExitNode, Exit, CrashNode, Crash, ProcessGone, vars, ctlVars
  <1> QED BY <1>1, <1>2, <1>3, <1>4, <1>5 DEF NodeNext, WebhookStep, NodeLifespan

\* What the node's steps need of the consumer and of the client.
LEMMA NodeClient == NodeSpec => [](Inv /\ Client!WebInv /\ Client!HistoryInv)
  BY NodeInv, NodeUsesClient, Client!WebInvHolds, Client!HistoryHolds, PTL

\* The calls of the node, throughout.
LEMMA CallInvHolds == NodeSpec => []CallInv
  <1>1. NodeInit => CallInv
    BY DEF NodeInit, Web!WebInit, CallInv, Web!Busy
  <1> QED BY <1>1, CallStep, NodeClient, PTL DEF NodeSpec

\* For any number of jobs and messages, at every shutdown: webhook.close() finds no call
\* under way and none follows it, because the consumer task has been awaited before
\* (app.py 138-142).
THEOREM ClosedClientStaysIdle == NodeSpec => []ClosedClientIsIdle
  <1>1. CallInv => ClosedClientIsIdle
    BY DEF CallInv, ClosedClientIsIdle, Calling
  <1> QED BY <1>1, CallInvHolds, PTL

\* While Redis does not fail, a job that Redis records as completed has its result with
\* the cloud once its message is acknowledged, whatever requests and answers are lost,
\* late or repeated, and whatever crashes, restarts and duplicates come in between;
\* unless the job was cut short, or is being run again (consumer.py 579-596).
THEOREM CompletedAlwaysDelivered == NodeSpec => []CompletedIsDelivered
  <1>1. NodeInit => DeliveredInv
    BY DEF NodeInit, Init, DeliveredInv
  <1>2. ASSUME Inv, Client!WebInv, CallInv, DeliveredInv, [NodeNext]_nodeVars
        PROVE  DeliveredInv'
    <2>1. [Next]_vars
      BY <1>2, NodeStep
    <2>2. \A j \in Jobs : Told(j) => Told(j)'
      BY <1>2, ClientStep, Client!ReportsGrow DEF Told
    <2>3. \A j \in Jobs : Working(j) /\ pc = "post" /\ pc' = "final" => Told(j)' \/ j \in cut'
      BY <1>2, ReturnTells DEF nodeVars, vars, ctlVars
    <2> QED BY <1>2, <2>1, <2>2, <2>3, DeliveredStep
  <1>3. DeliveredInv => CompletedIsDelivered
    BY JobsAssumption DEF DeliveredInv, CompletedIsDelivered, Told, Unreported, InTry
  <1> QED BY <1>1, <1>2, <1>3, NodeClient, CallInvHolds, PTL DEF NodeSpec

\* Nothing takes back a lost attempt.
LEMMA LostGrows ==
    ASSUME [NodeNext]_nodeVars, Inv
    PROVE  lost' \in {lost, lost + 1}
  BY ClientStep DEF Client!WebNext, Client!webVars, Client!Call, Client!Attempt, Client!Answered,
     Client!Refused, Client!Fails, Client!Again, Client!GivesUp, Client!Abort, Client!Close,
     Client!LateArrives, Client!WebGone

\* Only the end of a webhook call changes what the consumer has on record as reported.
LEMMA OnlyReports ==
    ASSUME [NodeNext]_nodeVars, ~ReportReturns, ~ReportRaises
    PROVE  UNCHANGED <<sent, delivered>>
  <1>1. CASE NodeConsumerStep
    <2>1. ~Post /\ ~PostError
      BY <1>1 DEF NodeConsumerStep, Calling, Post, PostError
    <2> QED BY <1>1, <2>1
        DEF NodeConsumerStep, ConsumerStep, ProcessMessage, Setup, Scan, Fetch, ReadMessage,
            ReadNothing, ReadRecheck, ReadFails, Wake, CheckStatus, CheckCancel, MarkSkip,
            SkipAck, Begin, RunDone, RunTimeout, Poll, Halt, CheckAfterRun, Complete,
            CheckBeforePost, HandleException, Fail, RaiseThroughFinally, MarkCancelled,
            Finally, outVars
  <1>2. CASE SendReport \/ StillSending \/ HeartbeatStep \/ Network \/ UNCHANGED nodeVars
    BY <1>2 DEF SendReport, StillSending, HeartbeatStep, Network, nodeVars, vars, outVars
  <1>3. CASE NodeLifespan
    BY <1>3 DEF NodeLifespan, StartNode, StopHeartbeat, JoinHeartbeat, StopConsumer, CancelNode,
       CloseWebhook, ExitNode, CrashNode, Start, Stop, Drained, DrainTimeout, CancelConsumer,
       CancelInTry, CancelSwallowed, CancelOutsideTry, CancelTooLate, RaiseThroughFinally, Exit,
       Crash, ProcessGone, vars, outVars
  <1>4. CASE (Executor \/ Cloud) /\ UNCHANGED <<webVars, hbVars>>
    BY <1>4 DEF Executor, RunEnds, ZombieEnds, Cloud, Enqueue, Cancel, Trim, outVars
  <1> QED BY <1>1, <1>2, <1>3, <1>4 DEF NodeNext, WebhookStep

\* The result of every send_result that returned is with the cloud; while no attempt has
\* failed, so is every report the consumer has made.
Known ==
    /\ \A j \in delivered : Told(j)
    /\ lost = 0 => \A j \in Jobs : sent[j] \subseteq accepted[j]

\* Every step of the node keeps that so: a call returns only when it is answered, and
\* raises only after an attempt that failed.
LEMMA KnownStep ==
    ASSUME Inv, Client!WebInv, Client!HistoryInv, CallInv, Known, [NodeNext]_nodeVars
    PROVE  Known'
  <1>1. /\ delivered \subseteq Jobs /\ sent \in [Jobs -> SUBSET Web!Reports]
    BY DEF Inv, TypeOK, OutTypeOK, Web!Reports
  <1>2. \A j \in Jobs : accepted[j] \subseteq accepted'[j]
    BY ClientStep, Client!ReportsGrow
  <1>3. lost' = 0 => lost = 0
    <2>1. lost \in Nat /\ lost' \in {lost, lost + 1}
      BY LostGrows DEF Client!HistoryInv
    <2> QED BY <2>1
  <1>4. CASE ~ReportReturns /\ ~ReportRaises
    BY <1>1, <1>2, <1>3, <1>4, OnlyReports DEF Known, Told
  <1>5. CASE ReportReturns \/ ReportRaises
    <2> DEFINE r == IF pc = "post" THEN "completed" ELSE "failed"
    <2>1. Calling /\ Job \in Jobs /\ Web!Attempt(Job) /\ Web!Busy(Job) /\ open
      BY <1>5, JobType, AttemptHook
      DEF Inv, TypeOK, Calling, InJob, InTry, ReportReturns, ReportRaises, Attempt, CallInv
    <2>2. sent' = [sent EXCEPT ![Job] = @ \cup {r}]
      BY <1>5 DEF ReportReturns, ReportRaises, Post, PostError, Report
    <2>3. delivered' = delivered \/ (ReportReturns /\ pc = "post" /\ delivered' = delivered \cup {Job})
      BY <1>5 DEF ReportReturns, ReportRaises, Post, PostError, Goto
    <2>4. hook'[Job] = "returned" => r \in accepted'[Job]
      <3> SUFFICES ASSUME hook'[Job] = "returned" PROVE r \in accepted'[Job]
        OBVIOUS
      <3>1. Web!Answered(Job)
        BY <2>1 DEF Web!Attempt, Web!Refused, Web!Fails, Web!Again, Web!GivesUp, Web!Ends,
           Client!WebInv
      <3>2. sending[Job] = {r}
        BY <2>1 DEF CallInv
      <3> QED BY <2>1, <3>1, <3>2 DEF Web!Answered, Web!Accepts, Client!WebInv
    <2>5. hook'[Job] = "raised" => lost' # 0
      <3> SUFFICES ASSUME hook'[Job] = "raised" PROVE lost' # 0
        OBVIOUS
      <3>1. Web!Refused(Job) \/ Web!GivesUp(Job)
        BY <2>1 DEF Web!Attempt, Web!Answered, Web!Fails, Web!Again, Web!Ends, Client!WebInv
      <3>2. lost \in Nat
        BY DEF Client!HistoryInv
      <3>3. CASE Web!Refused(Job)
        BY <3>2, <3>3 DEF Web!Refused
      <3>4. CASE Web!GivesUp(Job)
        <4>1. lost' = lost /\ attempt[Job] >= MaxRetries /\ hook[Job] = "backoff"
          BY <3>4 DEF Web!GivesUp
        <4>2. lost >= attempt[Job] /\ attempt[Job] \in Nat
          BY <2>1, <4>1 DEF Client!HistoryInv
        <4> QED BY <3>2, <4>1, <4>2, ReportsAssumption
      <3> QED BY <3>1, <3>3, <3>4
    <2>6. hook'[Job] \in {"returned", "raised"}
      BY <1>5 DEF ReportReturns, ReportRaises
    <2>7. \A j \in delivered' : "completed" \in accepted'[j]
      <3>1. \A j \in delivered : "completed" \in accepted'[j]
        BY <1>1, <1>2 DEF Known, Told
      <3>2. ReportReturns /\ pc = "post" => "completed" \in accepted'[Job]
        BY <2>4 DEF ReportReturns
      <3> QED BY <2>3, <3>1, <3>2
    <2>8. ASSUME lost' = 0, NEW j \in Jobs PROVE sent'[j] \subseteq accepted'[j]
      <3>1. sent[j] \subseteq accepted'[j]
        BY <1>2, <1>3, <2>8 DEF Known
      <3>2. r \in accepted'[Job]
        BY <2>4, <2>5, <2>6, <2>8
      <3>3. j # Job => sent'[j] = sent[j]
        BY <1>1, <2>2
      <3>4. sent'[Job] = sent[Job] \cup {r}
        BY <1>1, <2>1, <2>2
      <3> HIDE DEF r
      <3>5. CASE j = Job
        BY <3>1, <3>2, <3>4, <3>5
      <3> QED BY <3>1, <3>3, <3>5
    <2> QED BY <2>7, <2>8 DEF Known, Told
  <1> QED BY <1>4, <1>5

\* The same, throughout.
LEMMA KnownHolds == NodeSpec => []Known
  <1>1. NodeInit => Known
    BY DEF NodeInit, Init, Known
  <1> QED BY <1>1, KnownStep, NodeClient, CallInvHolds, PTL DEF NodeSpec

\* What the consumer believes delivered the cloud has processed, with Redis failures,
\* restarts and duplicates too: `delivered' grows only when send_result returns, and
\* send_result returns only after a 2xx answer (consumer.py 596, webhook.py 108-117).
THEOREM DeliveredIsKnown == NodeSpec => [](\A j \in delivered : Told(j))
  <1>1. Known => \A j \in delivered : Told(j)
    BY DEF Known
  <1> QED BY <1>1, KnownHolds, PTL

\* From the stream to the cloud: as long as no webhook attempt has failed, the cloud has
\* processed a report of every job whose well-formed message is acknowledged, unless the
\* job is cancelled or was cut short, whatever Redis operations failed and however often
\* the node was restarted.
THEOREM AckedIsKnown ==
    NodeSpec => [](lost = 0 => \A m \in Msgs \ BadFields :
                     mq[m] = "acked" => accepted[JobOf[m]] # {} \/ JobOf[m] \in cancelFlag \cup cut)
  <1>1. Inv /\ Known => (lost = 0 => \A m \in Msgs \ BadFields :
             mq[m] = "acked" => accepted[JobOf[m]] # {} \/ JobOf[m] \in cancelFlag \cup cut)
    BY JobsAssumption DEF Inv, AckInv, Settled, Known
  <1> QED BY <1>1, NodeInv, KnownHolds, PTL

\* No webhook call, and so no attempt or retry, is ever under way for a job that was
\* cancelled while a cancel check of it was ahead: EarlyCancelWins with the calls in view.
THEOREM CancelledIsNeverSent == NodeSpec => [](\A j \in early : ~Web!Busy(j))
  <1>1. Inv /\ CallInv => \A j \in early : ~Web!Busy(j)
    <2> SUFFICES ASSUME Inv, CallInv, NEW j \in early, Web!Busy(j) PROVE FALSE
      OBVIOUS
    <2>1. j \in Jobs /\ ~(Working(j) /\ pc \in PastLastCheck)
      BY DEF Inv, TypeOK, OutTypeOK, EarlyInv
    <2>2. Calling /\ Job = j
      BY <2>1 DEF CallInv
    <2>3. cur \in Msgs
      BY <2>2, JobType DEF Inv, TypeOK, Calling, InJob, InTry
    <2> QED BY <2>1, <2>2, <2>3 DEF Calling, Working, Job, PastLastCheck
  <1> QED BY <1>1, NodeInv, CallInvHolds, PTL

-----------------------------------------------------------------------------
(***************************************************************************)
(* The first pass.                                                         *)
(***************************************************************************)
\* In a step that calls nothing, the first start handles every message once at most:
\* nothing is recovered, and only a message that was queued comes into the consumer's hands.
LEMMA FirstPassStep ==
    ASSUME Inv, FirstPassInv, [Next]_vars, UNCHANGED asked,
           \A j \in Jobs : pc = "post" /\ pc' = "post" /\ ~Web!Busy(j)' => ~Web!Busy(j)
    PROVE  FirstPassInv'
  <1> SUFFICES ASSUME FirstPass' PROVE OnePass' /\ HandledOnce'
    BY DEF FirstPassInv
  <1>a. faults = 0 /\ starts <= 1 /\ \A k : ~Fault(k)
    BY CountsGrow DEF Inv, TypeOK, LifeTypeOK, Fault, FirstPass
  <1>b. OnePass /\ HandledOnce
    BY <1>a DEF FirstPassInv, FirstPass
  <1> USE <1>a, <1>b, JobsAssumption, MsgsAssumption
      DEF Inv, TypeOK, RedisTypeOK, CtlTypeOK, LifeTypeOK, Points, InJob, InTry, InSkip, NoMsg,
          Job, HandInv, redisVars, jobVars, lifeVars, outVars, Over, Reported, OnePass,
          HandledOnce, HsetRaises, XackRaises
  <1>1. CASE Setup
    BY <1>1 DEF Setup, Goto, Escape
  <1>2. CASE Scan
    BY <1>2 DEF Scan, Oldest, InState, Resume, LoopHead, Escape
  <1>3. CASE Fetch
    BY <1>3 DEF Fetch, Oldest, Resume, LoopHead, Escape, Dispatch
  <1>4. CASE ReadMessage
    BY <1>4 DEF ReadMessage, Dispatch, Oldest, InState
  <1>5. CASE ReadNothing
    BY <1>5 DEF ReadNothing, LoopHead
  <1>6. CASE ReadRecheck
    BY <1>6 DEF ReadRecheck
  <1>7. CASE ReadFails
    BY <1>7 DEF ReadFails, Escape, Oldest, InState
  <1>8. CASE Wake
    BY <1>8 DEF Wake, Goto, LoopHead
  <1>9. CASE CheckStatus
    BY <1>9 DEF CheckStatus, Goto, Escape, SkipStates
  <1>10. CASE CheckCancel
    BY <1>10 DEF CheckCancel, Goto, Escape, CancelSignal, NoCancelSignal
  <1>11. CASE MarkSkip
    BY <1>11 DEF MarkSkip, Goto, Escape, SafeHset
  <1>12. CASE SkipAck
    BY <1>12 DEF SkipAck, Resume, LoopHead, Escape, SafeXack
  <1>13. CASE Begin
    BY <1>13 DEF Begin, Goto, Escape, SafeHset
  <1>14. CASE RunDone
    BY <1>14 DEF RunDone, Goto
  <1>15. CASE RunTimeout
    BY <1>15 DEF RunTimeout, Goto
  <1>16. CASE Poll
    BY <1>16 DEF Poll, Goto, CancelSignal, NoCancelSignal, AbandonRun
  <1>17. CASE Halt
    BY <1>17 DEF Halt, Goto
  <1>18. CASE CheckAfterRun
    BY <1>18 DEF CheckAfterRun, Goto, CheckedGoto, CancelSignal, NoCancelSignal
  <1>19. CASE Complete
    BY <1>19 DEF Complete, Goto, SafeHset
  <1>20. CASE CheckBeforePost
    BY <1>20 DEF CheckBeforePost, Goto, CheckedGoto, CancelSignal, NoCancelSignal
  <1>21. CASE Post
    BY <1>21 DEF Post, Goto, Report
  <1>22. CASE HandleException
    BY <1>22 DEF HandleException, Goto, RaiseThroughFinally, CancelSignal,
       NoCancelSignal
  <1>23. CASE Fail
    BY <1>23 DEF Fail, Goto, RaiseThroughFinally, SafeHset
  <1>24. CASE PostError
    BY <1>24 DEF PostError, Goto, Report
  <1>25. CASE MarkCancelled
    BY <1>25 DEF MarkCancelled, Goto, RaiseThroughFinally, SafeHset
  <1>26. CASE Finally
    BY <1>26 DEF Finally, Resume, LoopHead, Escape, SafeXack
  <1>27. CASE RunEnds
    BY <1>27 DEF RunEnds, ctlVars
  <1>28. CASE ZombieEnds
    BY <1>28 DEF ZombieEnds, ctlVars
  <1>29. CASE Start
    BY <1>29 DEF Start, Fresh, FirstPass
  <1>30. CASE Stop
    BY <1>30 DEF Stop, ctlVars
  <1>31. CASE Exit
    BY <1>31 DEF Exit, ProcessGone, Fresh
  <1>32. CASE Crash
    BY <1>32 DEF Crash, CompletedInHand, ProcessGone, Fresh
  <1>33. CASE Enqueue
    BY <1>33 DEF Enqueue, ctlVars, Oldest, InState
  <1>34. CASE CancelConsumer
    <2>1. CASE CancelInTry
      BY <1>34, <2>1 DEF CancelConsumer, CancelInTry, AbandonRun,
         RaiseThroughFinally
    <2>2. CASE CancelSwallowed
      BY <1>34, <2>2 DEF CancelConsumer, CancelSwallowed, Goto
    <2>3. CASE CancelOutsideTry
      BY <1>34, <2>3 DEF CancelConsumer, CancelOutsideTry, Escape
    <2>4. CASE CancelTooLate
      BY <1>34, <2>4 DEF CancelConsumer, CancelTooLate, ctlVars
    <2> QED
      BY <1>34, <2>1, <2>2, <2>3, <2>4 DEF CancelConsumer
  <1>35. ASSUME NEW j \in Jobs, Cancel(j) PROVE OnePass' /\ HandledOnce'
    BY <1>35 DEF Cancel, ctlVars
  <1>36. ASSUME NEW m \in Msgs, Trim(m) PROVE OnePass' /\ HandledOnce'
    BY <1>36 DEF Trim, ctlVars
  <1>37. CASE UNCHANGED vars
    BY <1>37 DEF vars, ctlVars
  <1> QED
    BY <1>1, <1>2, <1>3, <1>4, <1>5, <1>6, <1>7, <1>8, <1>9, <1>10, <1>11, <1>12,
       <1>13, <1>14, <1>15, <1>16, <1>17, <1>18, <1>19, <1>20, <1>21, <1>22,
       <1>23, <1>24, <1>25, <1>26, <1>27, <1>28, <1>29, <1>30, <1>31, <1>32,
       <1>33, <1>34, <1>35, <1>36, <1>37 DEF Next, ConsumerStep, ProcessMessage,
       Executor, Lifespan, Cloud, Drained, DrainTimeout

\* A step that does not begin a call leaves alone what the client was asked, and ends a
\* call that is awaited only by moving the consumer on.
LEMMA QuietStep ==
    ASSUME Inv, Client!WebInv, CallInv, [NodeNext]_nodeVars, ~SendReport
    PROVE  /\ UNCHANGED asked
           /\ \A j \in Jobs : pc = "post" /\ pc' = "post" /\ ~Web!Busy(j)' => ~Web!Busy(j)
  <1>0. Calling => Job \in Jobs
    BY JobType DEF Inv, TypeOK, Calling, InJob, InTry
  <1>1. CASE StillSending
    <2>1. Attempt /\ hook'[Job] \in {"post", "backoff"}
      BY <1>1 DEF StillSending
    <2>2. UNCHANGED asked
      BY <2>1 DEF Attempt, Web!Attempt, Web!Answered, Web!Refused, Web!Fails, Web!Again,
         Web!GivesUp
    <2> QED BY <1>0, <2>1, <2>2, AttemptHook DEF Attempt, Web!Busy
  <1>2. CASE ReportReturns \/ ReportRaises
    <2>1. Attempt /\ (pc = "post" => pc' # "post")
      BY <1>2 DEF ReportReturns, ReportRaises, PostError
    <2> QED BY <2>1 DEF Attempt, Web!Attempt, Web!Answered, Web!Refused, Web!Fails, Web!Again,
         Web!GivesUp
  <1>3. CASE CancelNode
    <2>1. pc = "post" => pc' # "post"
      BY <1>3 DEF CancelNode, Drained, DrainTimeout, CancelConsumer, CancelInTry,
         CancelSwallowed, CancelOutsideTry, CancelTooLate, RaiseThroughFinally, InTry
    <2> QED BY <1>3, <2>1 DEF CancelNode, Web!Abort, webVars
  <1>4. CASE ExitNode \/ CrashNode
    BY <1>4 DEF ExitNode, CrashNode, Exit, Crash, ProcessGone, Web!WebGone
  <1>5. CASE CloseWebhook \/ Network
    BY <1>5 DEF CloseWebhook, Web!Close, Network, Web!LateArrives, webVars, Web!Busy
  <1>6. CASE UNCHANGED webVars
    BY <1>6 DEF webVars, Web!Busy
  <1> QED
    BY <1>1, <1>2, <1>3, <1>4, <1>5, <1>6
    DEF NodeNext, NodeConsumerStep, WebhookStep, HeartbeatStep, NodeLifespan, StartNode,
        StopHeartbeat, JoinHeartbeat, StopConsumer, nodeVars

\* Beginning a call is recorded for the job in hand, whose message is not queued any more.
LEMMA FirstPassCall ==
    ASSUME Inv, Client!WebInv, FirstPassInv, SendReport
    PROVE  FirstPassInv'
  <1>1. /\ UNCHANGED <<mq, pc, cur, todo, app, starts, faults>> /\ Calling /\ Job \in Jobs
        /\ cur \in Msgs /\ mq[cur] = "pending"
    BY JobType DEF SendReport, vars, redisVars, ctlVars, lifeVars, Inv, TypeOK, Calling, InJob,
       InTry, HandInv
  <1>2. /\ hook' = [hook EXCEPT ![Job] = "post"]
        /\ asked' = [asked EXCEPT ![Job] = @ \cup {IF pc = "post" THEN "completed" ELSE "failed"}]
    BY <1>1 DEF SendReport, Web!Call
  <1> SUFFICES ASSUME FirstPass PROVE OnePass' /\ HandledOnce'
    BY <1>1 DEF FirstPassInv, FirstPass
  <1>3. OnePass /\ HandledOnce
    BY DEF FirstPassInv
  <1>4. OnePass'
    BY <1>1, <1>3 DEF OnePass
  <1>5. \A m \in Msgs : mq'[m] \in {"absent", "queued"} /\ ~Duplicated(JobOf[m])
                        => asked'[JobOf[m]] = {}
    <2> SUFFICES ASSUME NEW m \in Msgs, mq[m] \in {"absent", "queued"}, ~Duplicated(JobOf[m])
                 PROVE  asked'[JobOf[m]] = {}
      BY <1>1
    <2>1. JobOf[m] # Job /\ JobOf[m] \in Jobs
      BY <1>1, JobsAssumption DEF Duplicated, Job
    <2>2. asked[JobOf[m]] = {}
      BY <1>3 DEF HandledOnce
    <2> QED BY <1>2, <2>1, <2>2 DEF Client!WebInv
  <1>6. Job' = Job /\ (pc = "post" => Web!Busy(Job)')
    BY <1>1, <1>2 DEF Job, Web!Busy, Client!WebInv
  <1>7. pc = "post" /\ ~Duplicated(Job) => "failed" \notin asked'[Job]
    BY <1>1, <1>2, <1>3 DEF HandledOnce, Client!WebInv
  <1> QED BY <1>1, <1>4, <1>5, <1>6, <1>7 DEF HandledOnce, Calling, Reported, Job

\* The first pass, throughout.
LEMMA FirstPassHolds == NodeSpec => []FirstPassInv
  <1>1. NodeInit => FirstPassInv
    BY MsgsAssumption, JobsAssumption DEF NodeInit, Init, Web!WebInit, FirstPassInv, OnePass,
       HandledOnce, NoMsg
  <1>2. ASSUME Inv, Client!WebInv, CallInv, FirstPassInv, [NodeNext]_nodeVars
        PROVE  FirstPassInv'
    <2>1. CASE SendReport
      BY <1>2, <2>1, FirstPassCall
    <2>2. CASE ~SendReport
      BY <1>2, <2>2, NodeStep, QuietStep, FirstPassStep
    <2> QED BY <2>1, <2>2
  <1> QED BY <1>1, <1>2, NodeClient, CallInvHolds, PTL DEF NodeSpec

-----------------------------------------------------------------------------
(***************************************************************************)
(* No contradiction at once.                                               *)
(***************************************************************************)
\* A call of one job has no effect on the reports of another.
LEMMA OtherJob ==
    ASSUME Client!WebInv, NEW k \in Jobs, NEW i \in Jobs, i # k, Web!Attempt(k) \/ Web!Abort(k)
    PROVE  /\ hook'[i] = hook[i] /\ sending'[i] = sending[i] /\ accepted'[i] = accepted[i]
           /\ asked' = asked /\ \A q \in late' : q[1] = i => q \in late
  <1>1. \A q \in {k} \X (sending[k] \ accepted[k]) : q[1] = k
    OBVIOUS
  <1> QED
    BY <1>1 DEF Web!Attempt, Web!Answered, Web!Refused, Web!Fails, Web!Again, Web!GivesUp,
       Web!Abort, Web!Ends, Web!Fate, Web!Accepts, Client!WebInv

\* A call that does not carry the result does not bring it to the cloud.
LEMMA NoResultKept ==
    ASSUME Client!WebInv, NEW i \in Jobs, NoResult(i), Web!Attempt(i) \/ Web!Abort(i)
    PROVE  NoResult(i)'
  <1>1. \A q \in {i} \X (sending[i] \ accepted[i]) : q[2] # "completed"
    BY DEF NoResult
  <1>2. "completed" \notin sending'[i] /\ "completed" \notin accepted'[i]
    BY DEF NoResult, Web!Attempt, Web!Answered, Web!Refused, Web!Fails, Web!Again, Web!GivesUp,
       Web!Abort, Web!Ends, Web!Fate, Web!Accepts, Client!WebInv
  <1>3. \A q \in late' : q \in late \/ q[2] # "completed"
    BY <1>1 DEF Web!Attempt, Web!Answered, Web!Refused, Web!Fails, Web!Again, Web!GivesUp,
       Web!Abort, Web!Fate
  <1> QED BY <1>2, <1>3 DEF NoResult

\* Without a webhook call, the consumer comes to the failure handler only from a job that
\* it has not reported.
LEMMA ToFailure ==
    ASSUME Inv, ConsumerStep, ~Calling, pc' \in {"exc", "fail", "postErr"}
    PROVE  cur' = cur /\ pc \in (InTry \cup {"begin"}) \ {"post", "postErr", "markCancel"}
  <1>1. ~(Setup \/ Scan \/ Fetch \/ ReadMessage \/ ReadNothing \/ ReadRecheck \/ ReadFails \/ Wake)
    BY DEF Setup, Scan, Fetch, ReadMessage, ReadNothing, ReadRecheck, ReadFails, Wake, Goto,
       Escape, Resume, LoopHead, Dispatch
  <1>2. ~(CheckStatus \/ CheckCancel \/ MarkSkip \/ SkipAck \/ Halt \/ MarkCancelled \/ Finally)
    BY DEF CheckStatus, CheckCancel, MarkSkip, SkipAck, Halt, MarkCancelled, Finally, Goto,
       Escape, Resume, LoopHead, RaiseThroughFinally
  <1>3. CASE Begin \/ RunDone \/ RunTimeout \/ Poll \/ CheckAfterRun \/ Complete \/ CheckBeforePost
             \/ HandleException \/ Fail
    BY <1>3 DEF Begin, RunDone, RunTimeout, Poll, CheckAfterRun, Complete, CheckBeforePost,
       CheckedGoto, HandleException, Fail, Goto, Escape, RaiseThroughFinally, InTry
  <1>4. ~(Post \/ PostError)
    BY DEF Post, PostError, Calling
  <1> QED BY <1>1, <1>2, <1>3, <1>4 DEF ConsumerStep, ProcessMessage

\* An attempt that loses its answer once is repeated, and one that is refused was the first:
\* the failure handler is not reached while the result may have arrived.
LEMMA CallKeepsConsistent ==
    ASSUME Inv, Client!WebInv, Client!HistoryInv, CallInv, FirstPassInv, Calm, Calm',
           NEW i \in Jobs, ~Duplicated(i), Consistent(i),
           Attempt, StillSending \/ ReportReturns \/ ReportRaises
    PROVE  Consistent(i)'
  <1>0. Job \in Jobs /\ cur \in Msgs /\ Calling /\ Web!Attempt(Job) /\ open /\ Web!Busy(Job)
    BY JobType, AttemptHook DEF Inv, TypeOK, Attempt, Calling, InJob, InTry, CallInv
  <1>1. cur' = cur /\ asked' = asked
    BY <1>0 DEF StillSending, ReportReturns, ReportRaises, Post, PostError, Goto, vars, ctlVars,
       Web!Attempt, Web!Answered, Web!Refused, Web!Fails, Web!Again, Web!GivesUp
  <1>2. lost \in Nat /\ (lost' = 0 => lost = 0)
    <2>1. lost \in Nat
      BY DEF Client!HistoryInv
    <2>2. lost' \in {lost, lost + 1}
      BY <1>0 DEF Web!Attempt, Web!Answered, Web!Refused, Web!Fails, Web!Again, Web!GivesUp
    <2> QED BY <2>1, <2>2
  <1>3. CASE i # Job
    <2>1. ~Working(i) /\ ~Working(i)'
      BY <1>1, <1>3 DEF Working, Job
    <2>2. NoResult(i) => NoResult(i)'
      BY <1>0, <1>3, OtherJob DEF NoResult
    <2>3. (Web!Busy(i)' = Web!Busy(i)) /\ sending'[i] = sending[i] /\ accepted'[i] = accepted[i]
          /\ \A q \in late' : q[1] = i => q \in late
      BY <1>0, <1>3, OtherJob DEF Web!Busy
    <2> QED BY <1>1, <1>2, <2>1, <2>2, <2>3 DEF Consistent, Told
  <1>4. CASE i = Job /\ pc = "postErr"
    <2>1. NoResult(i)
      BY <1>0, <1>4 DEF Consistent, Working, Job
    <2>2. NoResult(i)'
      BY <1>0, <1>4, <2>1, NoResultKept
    <2>3. sending'[i] # {"completed"}
      BY <2>2 DEF NoResult
    <2> QED BY <2>2, <2>3 DEF Consistent
  <1>5. CASE i = Job /\ pc = "post"
    <2>1. "failed" \notin asked'[i]
      BY <1>0, <1>1, <1>5 DEF FirstPassInv, Calm, HandledOnce
    <2>2. sending[i] = {"completed"} /\ Web!Busy(i)
      BY <1>0, <1>5 DEF CallInv
    <2>3. CASE StillSending
      <3>1. pc' = "post"
        BY <1>5, <2>3 DEF StillSending, vars, ctlVars
      <3>2. ASSUME lost' = 0, Web!Busy(i)', sending'[i] = {"completed"}
            PROVE  ~Told(i)' /\ \A q \in late' : q[1] # i
        <4>1. ~Web!Fails(i)
          <5>1. Web!Fails(i) => lost' = lost + 1
            BY <1>0 DEF Web!Fails
          <5> QED BY <1>2, <3>2, <5>1
        <4>2. Web!Again(i)
          BY <1>0, <1>5, <3>2, <4>1 DEF Web!Attempt, Web!Answered, Web!Refused, Web!GivesUp,
             Web!Ends, Web!Busy, Client!WebInv
        <4> QED BY <1>0, <1>2, <2>2, <3>2, <4>2 DEF Web!Again, Consistent, Told
      <3> QED BY <2>1, <3>1, <3>2 DEF Consistent
    <2>4. CASE ReportReturns
      <3>1. pc' = "final" /\ ~Web!Busy(i)'
        BY <1>5, <2>4 DEF ReportReturns, PostError, Web!Busy
      <3> QED BY <2>1, <3>1 DEF Consistent
    <2>5. CASE ReportRaises
      <3>1. hook'[i] = "raised" /\ ~Web!Busy(i)'
        BY <1>5, <2>5 DEF ReportRaises, Web!Busy
      <3>2. ~Web!GivesUp(i)
        <4>1. Web!GivesUp(i) => lost >= attempt[i] /\ attempt[i] >= MaxRetries
          BY <1>0, <1>5 DEF Web!GivesUp, Client!HistoryInv
        <4>2. attempt[i] \in Nat /\ MaxRetries \in Nat
          BY ReportsAssumption DEF Client!HistoryInv
        <4> QED BY <1>2, <4>1, <4>2 DEF Calm
      <3>3. Web!Refused(i)
        BY <1>0, <1>5, <3>1, <3>2 DEF Web!Attempt, Web!Answered, Web!Fails, Web!Again, Web!Ends,
           Client!WebInv
      <3>4. lost = 0
        BY <3>3 DEF Web!Refused, Calm, Client!HistoryInv
      <3>5. ~Told(i) /\ \A q \in late : q[1] # i
        BY <2>2, <3>4 DEF Consistent
      <3>6. NoResult(i)'
        BY <3>3, <3>5 DEF Web!Refused, Web!Ends, NoResult, Told, Client!WebInv
      <3> QED BY <2>1, <3>1, <3>6 DEF Consistent
    <2> QED BY <2>3, <2>4, <2>5
  <1> QED BY <1>0, <1>3, <1>4, <1>5 DEF Calling

\* A step that leaves the reports alone keeps them consistent, unless it brings the consumer
\* to the failure handler.
LEMMA SameReports ==
    ASSUME NEW i \in Jobs, Consistent(i), UNCHANGED webVars,
           Working(i)' /\ pc' \in {"exc", "fail", "postErr"} => NoResult(i)
    PROVE  Consistent(i)'
  BY DEF Consistent, NoResult, Told, Web!Busy, webVars

\* No step of the node contradicts, while it is calm.
LEMMA ContradictionStep ==
    ASSUME Inv, Client!WebInv, Client!HistoryInv, CallInv, FirstPassInv, ContradictionInv,
           [NodeNext]_nodeVars
    PROVE  ContradictionInv'
  <1> SUFFICES ASSUME Calm', NEW i \in Jobs, ~Duplicated(i) PROVE Consistent(i)'
    BY DEF ContradictionInv, Duplicated
  <1>1. Calm
    <2>1. faults \in Nat /\ starts \in Nat /\ lost \in Nat /\ MaxRetries \in Nat
      BY ReportsAssumption DEF Inv, TypeOK, LifeTypeOK, Client!HistoryInv
    <2>2. /\ faults' \in {faults, faults + 1} /\ starts' \in {starts, starts + 1}
          /\ lost' \in {lost, lost + 1}
      BY NodeStep, CountsGrow, LostGrows
    <2> QED BY <2>1, <2>2 DEF Calm, FirstPass
  <1>2. Consistent(i) /\ OnePass /\ HandledOnce
    BY <1>1 DEF ContradictionInv, FirstPassInv, Calm
  <1>3. asked[i] = {} => NoResult(i) /\ ~Told(i) /\ \A q \in late : q[1] # i
    BY DEF Client!WebInv, Client!HistoryInv, NoResult, Told
  <1>4. CASE NodeConsumerStep
    <2>1. ASSUME Working(i)', pc' \in {"exc", "fail", "postErr"} PROVE NoResult(i)
      <3>1. cur' = cur /\ pc \in (InTry \cup {"begin"}) \ {"post", "postErr", "markCancel"}
        BY <1>4, <2>1, ToFailure DEF NodeConsumerStep
      <3>2. Working(i)
        BY <2>1, <3>1 DEF Working
      <3> QED BY <1>2, <1>3, <3>1, <3>2
          DEF Consistent, HandledOnce, Working, Job, InTry, Reported
    <2> QED BY <1>2, <1>4, <2>1, SameReports DEF NodeConsumerStep
  <1>5. CASE SendReport
    <2>0. Job \in Jobs /\ cur \in Msgs /\ Calling
      BY <1>5, JobType DEF Inv, TypeOK, SendReport, Calling, InJob, InTry
    <2>1. /\ UNCHANGED <<pc, cur, late, accepted, lost>> /\ ~Web!Busy(Job)
          /\ hook' = [hook EXCEPT ![Job] = "post"]
          /\ sending' = [sending EXCEPT ![Job] = {IF pc = "post" THEN "completed" ELSE "failed"}]
          /\ asked' = [asked EXCEPT ![Job] = @ \cup {IF pc = "post" THEN "completed" ELSE "failed"}]
      BY <1>5 DEF SendReport, Web!Call, vars, ctlVars
    <2>2. CASE i # Job
      <3>1. hook'[i] = hook[i] /\ sending'[i] = sending[i] /\ asked'[i] = asked[i]
        BY <2>0, <2>1, <2>2 DEF Client!WebInv
      <3>2. (Working(i)' = Working(i)) /\ (NoResult(i)' = NoResult(i))
        BY <2>1, <3>1 DEF Working, NoResult
      <3> QED BY <1>2, <2>1, <3>1, <3>2 DEF Consistent, Told, Web!Busy
    <2>3. CASE i = Job /\ pc = "post"
      <3>1. asked[i] = {}
        BY <1>2, <2>0, <2>1, <2>3 DEF HandledOnce
      <3>2. asked'[i] = {"completed"}
        BY <2>1, <2>3, <3>1 DEF Client!WebInv
      <3> QED BY <1>3, <2>1, <2>3, <3>1, <3>2 DEF Consistent, Told
    <2>4. CASE i = Job /\ pc = "postErr"
      <3>1. NoResult(i)
        BY <1>2, <2>0, <2>4 DEF Consistent, Working, Job
      <3>2. sending'[i] = {"failed"}
        BY <2>1, <2>4 DEF Client!WebInv
      <3>3. NoResult(i)'
        BY <2>1, <3>1, <3>2 DEF NoResult
      <3> QED BY <3>2, <3>3 DEF Consistent
    <2> QED BY <2>0, <2>2, <2>3, <2>4 DEF Calling
  <1>6. CASE StillSending \/ ReportReturns \/ ReportRaises
    BY <1>1, <1>2, <1>6, CallKeepsConsistent DEF StillSending, ReportReturns, ReportRaises
  <1>7. CASE CancelNode
    <2>1. pc' \notin {"exc", "fail", "postErr"}
      BY <1>7 DEF CancelNode, Drained, DrainTimeout, CancelConsumer, CancelInTry,
         CancelSwallowed, CancelOutsideTry, CancelTooLate, RaiseThroughFinally, Goto, Escape,
         InTry, ctlVars
    <2>2. CASE ~(Calling /\ Web!Busy(Job))
      BY <1>2, <1>7, <2>1, <2>2, SameReports DEF CancelNode
    <2>3. CASE Calling /\ Web!Busy(Job)
      <3>0. Job \in Jobs /\ cur \in Msgs /\ Web!Abort(Job)
        BY <1>7, <2>3, JobType DEF Inv, TypeOK, CancelNode, Calling, InJob, InTry
      <3>1. lost' = lost /\ asked' = asked /\ (i = Job => ~Web!Busy(i)')
        BY <3>0 DEF Web!Abort, Web!Ends, Web!Busy, Client!WebInv
      <3>2. CASE i # Job
        <4>1. NoResult(i) => NoResult(i)'
          BY <3>0, <3>2, OtherJob DEF NoResult
        <4>2. /\ (Web!Busy(i)' = Web!Busy(i)) /\ sending'[i] = sending[i]
              /\ accepted'[i] = accepted[i] /\ \A q \in late' : q[1] = i => q \in late
          BY <3>0, <3>2, OtherJob DEF Web!Busy
        <4> QED BY <1>2, <2>1, <3>1, <4>1, <4>2 DEF Consistent, Told
      <3>3. CASE i = Job
        <4>1. "failed" \in asked[i] => NoResult(i)'
          BY <1>2, <3>0, <3>3, NoResultKept DEF Consistent
        <4> QED BY <2>1, <3>1, <3>3, <4>1 DEF Consistent
      <3> QED BY <3>2, <3>3
    <2> QED BY <2>2, <2>3
  <1>8. CASE ExitNode \/ CrashNode
    <2>1. Web!WebGone /\ pc' = "off"
      BY <1>8 DEF ExitNode, CrashNode, Exit, Crash, ProcessGone
    <2>2. ~Web!Busy(i)' /\ asked' = asked
      BY <2>1 DEF Web!WebGone, Web!Busy
    <2>3. NoResult(i) => NoResult(i)'
      BY <2>1 DEF Web!WebGone, NoResult
    <2> QED BY <1>2, <2>1, <2>2, <2>3 DEF Consistent
  <1>9. CASE Network
    <2>1. CASE Web!LateArrives /\ UNCHANGED <<vars, hbVars>>
      <3>1. PICK q \in late :
              /\ late' = late \ {q}
              /\ accepted' \in {accepted, [accepted EXCEPT ![q[1]] = @ \cup {q[2]}]}
        BY <2>1 DEF Web!LateArrives
      <3>2. UNCHANGED <<hook, sending, asked, lost, pc, cur>>
        BY <2>1 DEF Web!LateArrives, vars, ctlVars
      <3>3. NoResult(i) => NoResult(i)'
        BY <3>1, <3>2 DEF NoResult, Client!WebInv
      <3>4. (\A x \in late : x[1] # i) => accepted'[i] = accepted[i] /\ \A x \in late' : x[1] # i
        BY <3>1 DEF Client!WebInv
      <3>5. (Working(i)' = Working(i)) /\ (Web!Busy(i)' = Web!Busy(i))
        BY <3>2 DEF Working, Web!Busy
      <3> QED BY <1>2, <3>2, <3>3, <3>4, <3>5 DEF Consistent, Told
    <2>2. CASE UNCHANGED <<vars, webVars>>
      BY <1>2, <2>2, SameReports DEF vars, ctlVars, Working, Consistent
    <2> QED BY <1>9, <2>1, <2>2 DEF Network
  <1>10. CASE CloseWebhook
    BY <1>2, <1>10 DEF CloseWebhook, Web!Close, vars, ctlVars, Consistent, Working, NoResult, Told,
       Web!Busy
  <1>11. CASE \/ HeartbeatStep \/ StartNode \/ StopHeartbeat \/ JoinHeartbeat \/ StopConsumer
              \/ ((Executor \/ Cloud) /\ UNCHANGED <<webVars, hbVars>>) \/ UNCHANGED nodeVars
    <2>1. UNCHANGED webVars /\ (UNCHANGED <<pc, cur>> \/ pc' = "setup")
      BY <1>11 DEF HeartbeatStep, StartNode, Start, StopHeartbeat, JoinHeartbeat, StopConsumer,
         Stop, Executor, RunEnds, ZombieEnds, Cloud, Enqueue, Cancel, Trim, nodeVars, vars, ctlVars
    <2> QED BY <1>2, <2>1, SameReports DEF Working, Consistent
  <1> QED
    BY <1>4, <1>5, <1>6, <1>7, <1>8, <1>9, <1>10, <1>11
    DEF NodeNext, WebhookStep, NodeLifespan

\* For any jobs, messages and number of attempts: the cloud processes a result and a failure
\* of a job that it enqueued once only after two attempts, or all that are made, were lost,
\* or a Redis operation failed, or the node was restarted (webhook.py 118-134).
THEOREM NeverContradictsAtOnce == NodeSpec => []NoContradictionAtOnce
  <1>1. NodeInit => ContradictionInv
    BY DEF NodeInit, Init, Web!WebInit, ContradictionInv, Consistent, Working, Web!Busy
  <1>2. Inv /\ Client!HistoryInv /\ ContradictionInv => NoContradictionAtOnce
    <2> SUFFICES ASSUME Inv, Client!HistoryInv, ContradictionInv, NEW j \in Jobs,
                        accepted[j] = Web!Reports, ~Duplicated(j)
                 PROVE  lost >= 2 \/ lost >= MaxRetries \/ faults > 0 \/ starts > 1
      BY DEF NoContradictionAtOnce
    <2>1. ~Consistent(j)
      BY DEF Web!Reports, Client!HistoryInv, Consistent, NoResult
    <2>2. ~Calm
      BY <2>1 DEF ContradictionInv
    <2>3. faults \in Nat /\ starts \in Nat /\ lost \in Nat /\ MaxRetries \in Nat
      BY ReportsAssumption DEF Inv, TypeOK, LifeTypeOK, Client!HistoryInv
    <2> QED BY <2>2, <2>3 DEF Calm, FirstPass
  <1> QED
    BY <1>1, <1>2, ContradictionStep, NodeClient, CallInvHolds, FirstPassHolds, PTL DEF NodeSpec
=============================================================================
