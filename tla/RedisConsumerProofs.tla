------------------------ MODULE RedisConsumerProofs ------------------------
(***************************************************************************)
(* Proofs about RedisConsumer for every set of messages and jobs, every    *)
(* assignment of jobs to messages and any number of faults and restarts.   *)
(*                                                                         *)
(* TypeStep shows that TypeOK is inductive; EarlyStep, AckStep, RunStep,   *)
(* DeliverStep, ZombieStep, BusyStep, PhantomStep and HandStep show the    *)
(* same of one strengthening each, relative to TypeOK, with one step per   *)
(* action.                                                                 *)
(***************************************************************************)
EXTENDS RedisConsumer, TLAPS

-----------------------------------------------------------------------------
(***************************************************************************)
(* What the building blocks of the actions do to the types.                *)
(***************************************************************************)
\* Goto keeps the control state well typed when it does not change whether a
\* message is in hand.
LEMMA GotoType ==
    ASSUME CtlTypeOK, NEW p \in Points, Goto(p),
           p \in InSkip \cup InJob <=> pc \in InSkip \cup InJob
    PROVE  CtlTypeOK'
BY DEF CtlTypeOK, Goto

\* Returning to recover_pending's loop, or leaving it, lets go of the message.
LEMMA ResumeType ==
    ASSUME CtlTypeOK, NEW t \in SUBSET Msgs, Resume(t)
    PROVE  CtlTypeOK'
BY DEF CtlTypeOK, Resume, LoopHead, Points, InSkip, InJob, InTry

\* So does an exception that escapes to the consume loop.
LEMMA EscapeType ==
    ASSUME CtlTypeOK, NEW k, Escape(k)
    PROVE  CtlTypeOK'
BY DEF CtlTypeOK, Escape, Points, InSkip, InJob, InTry

\* An exception that runs the finally clause first keeps the message in hand.
LEMMA RaiseType ==
    ASSUME CtlTypeOK, OutTypeOK, pc \in InTry, NEW k \in ErrorKinds \cup {"cancel"},
           RaiseThroughFinally(k)
    PROVE  CtlTypeOK' /\ OutTypeOK'
BY JobsAssumption
   DEF CtlTypeOK, OutTypeOK, RaiseThroughFinally, Points, InSkip, InJob, InTry, Job

\* A Redis failure is counted and has a known kind.
LEMMA FaultType ==
    ASSUME LifeTypeOK, NEW k, Fault(k)
    PROVE  faults' \in Nat \ {0} /\ k \in ErrorKinds
BY FaultAssumption DEF LifeTypeOK, Fault

\* HSET, applied or not, leaves a well-typed status hash.
LEMMA HsetType ==
    ASSUME RedisTypeOK, LifeTypeOK, NEW j \in Jobs, NEW s \in JobStates,
           SafeHset(j, s) \/ HsetRaises(j, s)
    PROVE  status' \in [Jobs -> JobStates] /\ faults' \in Nat
BY FaultType DEF RedisTypeOK, LifeTypeOK, SafeHset, HsetRaises

\* XACK, applied or not, leaves a well-typed stream.
LEMMA XackType ==
    ASSUME RedisTypeOK, LifeTypeOK, NEW m \in Msgs, SafeXack(m) \/ XackRaises(m)
    PROVE  mq' \in [Msgs -> MsgStates] /\ faults' \in Nat
BY FaultType DEF RedisTypeOK, LifeTypeOK, SafeXack, XackRaises, MsgStates

\* While _process_message runs there is a message in hand, and it has a job.
LEMMA JobType ==
    ASSUME CtlTypeOK, pc \in InSkip \cup InJob
    PROVE  cur \in Msgs /\ Job \in Jobs
BY JobsAssumption DEF CtlTypeOK, Job

-----------------------------------------------------------------------------
\* Every step keeps every variable in its type.
LEMMA TypeStep == TypeOK /\ [Next]_vars => TypeOK'
<1> SUFFICES ASSUME TypeOK, [Next]_vars PROVE TypeOK'
  OBVIOUS
<1> USE JobsAssumption
    DEF TypeOK, RedisTypeOK, JobTypeOK, LifeTypeOK, OutTypeOK, Points, InJob,
        InTry, InSkip, redisVars, jobVars, lifeVars, outVars
<1>1. CASE Setup
  BY <1>1, GotoType, EscapeType, FaultType DEF Setup
<1>2. CASE Scan
  BY <1>2, ResumeType, EscapeType, FaultType DEF Scan, Oldest, InState
<1>3. CASE Fetch
  BY <1>3, ResumeType, EscapeType, FaultType DEF Fetch, Oldest, Dispatch,
     CtlTypeOK
<1>4. CASE ReadMessage
  BY <1>4 DEF ReadMessage, Oldest, InState, Dispatch, CtlTypeOK, MsgStates
<1>5. CASE ReadNothing
  BY <1>5 DEF ReadNothing, LoopHead, CtlTypeOK
<1>6. CASE ReadRecheck
  BY <1>6 DEF ReadRecheck, CtlTypeOK
<1>7. CASE ReadFails
  BY <1>7, EscapeType, FaultType DEF ReadFails, Oldest, InState, MsgStates
<1>8. CASE Wake
  BY <1>8, GotoType DEF Wake, LoopHead
<1>9. CASE CheckStatus
  BY <1>9, GotoType, EscapeType, FaultType DEF CheckStatus
<1>10. CASE CheckCancel
  BY <1>10, GotoType, EscapeType, FaultType, JobType DEF CheckCancel,
     CancelSignal, NoCancelSignal
<1>11. CASE MarkSkip
  BY <1>11, GotoType, EscapeType, FaultType, HsetType, JobType DEF MarkSkip,
     JobStates
<1>12. CASE SkipAck
  BY <1>12, ResumeType, EscapeType, XackType, JobType DEF SkipAck, CtlTypeOK
<1>13. CASE Begin
  BY <1>13, GotoType, EscapeType, HsetType, JobType DEF Begin, JobStates
<1>14. CASE RunDone
  BY <1>14, GotoType DEF RunDone
<1>15. CASE RunTimeout
  BY <1>15, GotoType DEF RunTimeout
<1>16. CASE Poll
  BY <1>16, GotoType, FaultType DEF Poll, CancelSignal, NoCancelSignal,
     AbandonRun
<1>17. CASE Halt
  BY <1>17, GotoType DEF Halt
<1>18. CASE CheckAfterRun
  BY <1>18, GotoType, FaultType DEF CheckAfterRun, CheckedGoto, CancelSignal,
     NoCancelSignal
<1>19. CASE Complete
  BY <1>19, GotoType, HsetType, JobType DEF Complete, JobStates
<1>20. CASE CheckBeforePost
  BY <1>20, GotoType, FaultType DEF CheckBeforePost, CheckedGoto, CancelSignal,
     NoCancelSignal
<1>21. CASE Post
  BY <1>21, GotoType, JobType DEF Post, Report
<1>22. CASE HandleException
  BY <1>22, GotoType, RaiseType, FaultType DEF HandleException, CancelSignal,
     NoCancelSignal, ErrorKinds
<1>23. CASE Fail
  BY <1>23, GotoType, RaiseType, HsetType, JobType DEF Fail, JobStates,
     ErrorKinds
<1>24. CASE PostError
  BY <1>24, GotoType, JobType DEF PostError, Report
<1>25. CASE MarkCancelled
  BY <1>25, GotoType, RaiseType, HsetType, JobType DEF MarkCancelled, JobStates,
     ErrorKinds
<1>26. CASE Finally
  BY <1>26, ResumeType, EscapeType, XackType, JobType DEF Finally, CtlTypeOK
<1>27. CASE RunEnds
  BY <1>27 DEF RunEnds, ctlVars, CtlTypeOK
<1>28. CASE ZombieEnds
  <2>1. CtlTypeOK'
    BY <1>28 DEF ZombieEnds, ctlVars, CtlTypeOK
  <2>2. LifeTypeOK'
    BY <1>28 DEF ZombieEnds, ctlVars
  <2>3. JobTypeOK'
    BY <1>28 DEF ZombieEnds
  <2> QED
    BY <1>28, <2>1, <2>2, <2>3 DEF ZombieEnds
<1>29. CASE Start
  <2>1. CtlTypeOK'
    BY <1>29 DEF Start, Fresh, CtlTypeOK
  <2>2. LifeTypeOK'
    BY <1>29 DEF Start
  <2>3. JobTypeOK'
    BY <1>29 DEF Start, Fresh
  <2> QED
    BY <1>29, <2>1, <2>2, <2>3 DEF Start
<1>30. CASE Stop
  <2>1. CtlTypeOK'
    BY <1>30 DEF Stop, ctlVars, CtlTypeOK
  <2>2. LifeTypeOK'
    BY <1>30 DEF Stop, ctlVars
  <2>3. JobTypeOK'
    BY <1>30 DEF Stop
  <2> QED
    BY <1>30, <2>1, <2>2, <2>3 DEF Stop
<1>31. CASE Exit
  BY <1>31 DEF Exit, ProcessGone, Fresh, CtlTypeOK
<1>32. CASE Crash
  BY <1>32 DEF Crash, CompletedInHand, ProcessGone, Fresh, CtlTypeOK
<1>33. CASE Enqueue
  BY <1>33 DEF Enqueue, Oldest, InState, MsgStates, ctlVars, CtlTypeOK
<1>34. CASE CancelConsumer
  <2>1. CASE CancelInTry
    BY <1>34, <2>1, RaiseType DEF CancelConsumer, CancelInTry, AbandonRun
  <2>2. CASE CancelSwallowed
    BY <1>34, <2>2, GotoType DEF CancelConsumer, CancelSwallowed
  <2>3. CASE CancelOutsideTry
    <3>1. mq' \in [Msgs -> MsgStates]
      BY <2>3 DEF CancelOutsideTry, MsgStates
    <3>2. status' \in [Jobs -> JobStates]
      BY <2>3 DEF CancelOutsideTry, JobStates
    <3> QED
      BY <1>34, <2>3, <3>1, <3>2, EscapeType DEF CancelConsumer,
         CancelOutsideTry
  <2>4. CASE CancelTooLate
    BY <1>34, <2>4 DEF CancelConsumer, CancelTooLate, ctlVars, CtlTypeOK
  <2> QED
    BY <1>34, <2>1, <2>2, <2>3, <2>4 DEF CancelConsumer
<1>35. ASSUME NEW j \in Jobs, Cancel(j) PROVE TypeOK'
  BY <1>35 DEF Cancel, ctlVars, CtlTypeOK
<1>36. ASSUME NEW m \in Msgs, Trim(m) PROVE TypeOK'
  BY <1>36 DEF Trim, ctlVars, CtlTypeOK
<1>37. CASE UNCHANGED vars
  BY <1>37 DEF vars, ctlVars, CtlTypeOK
<1> QED
  BY <1>1, <1>2, <1>3, <1>4, <1>5, <1>6, <1>7, <1>8, <1>9, <1>10, <1>11, <1>12,
     <1>13, <1>14, <1>15, <1>16, <1>17, <1>18, <1>19, <1>20, <1>21, <1>22,
     <1>23, <1>24, <1>25, <1>26, <1>27, <1>28, <1>29, <1>30, <1>31, <1>32,
     <1>33, <1>34, <1>35, <1>36, <1>37 DEF Next, ConsumerStep, ProcessMessage,
     Executor, Lifespan, Cloud, Drained, DrainTimeout

-----------------------------------------------------------------------------
(***************************************************************************)
(* The strengthenings.                                                     *)
(***************************************************************************)
\* A job cancelled in time still has its flag, has not been reported, and the
\* consumer is not past the last cancel check of it.
EarlyInv ==
    \A j \in early : /\ j \in cancelFlag /\ sent[j] = {}
                     /\ ~(Working(j) /\ pc \in PastLastCheck)

\* The job was reported, is cancelled, or was cut short.
Settled(j) == sent[j] # {} \/ j \in cancelFlag \cup cut

\* Acknowledged messages are settled, and so is the message at hand wherever the
\* code is about to acknowledge it; Redis never calls a job completed or
\* cancelled without it being settled, except the job whose handlers still run.
AckInv ==
    /\ \A m \in Msgs \ BadFields : mq[m] = "acked" => Settled(JobOf[m])
    /\ pc = "final" => Settled(Job)
    /\ pc = "skipAck" => cur \in BadFields \/ Settled(Job)
    /\ pc \in {"markSkip", "halt", "markCancel"} => Job \in cancelFlag
    /\ \A j \in Jobs : status[j] = "cancelled" => j \in cancelFlag
    /\ \A j \in Jobs : status[j] = "completed" =>
          Settled(j) \/ (Working(j) /\ pc \in InTry)

\* points between the status check and HSET completed
Unsettled == {"cancelq", "begin", "run", "poll", "halt", "check", "complete"}

\* What CheckStatus saw stays true while the job is handled: nobody else writes
\* the status.  run_task exists only inside _run_job_with_cancellation, and an
\* exception is pending only in the finally clause.
RunInv ==
    /\ pc \in Unsettled => status[Job] # "completed"
    /\ pc \in Unsettled \cup {"recheck", "post", "exc", "fail", "postErr"} =>
          status[Job] # "cancelled"
    /\ exec # "off" => pc \in {"run", "poll", "halt"}
    /\ pc # "final" => raised = "none"

\* While no Redis operation has failed, Redis knows every accepted result, and
\* the job at hand is not one of them.
DeliverInv ==
    faults = 0 =>
        /\ \A j \in delivered : status[j] \in SkipStates
        /\ pc \in InTry \cup {"cancelq", "begin"} => Job \notin delivered
        /\ pc \in {"recheck", "post"} => status[Job] = "completed"

\* While no Redis operation has failed, an abandoned run is left only by the
\* cancel that ends the task.
ZombieInv ==
    faults = 0 /\ zombie = TRUE =>
        (pc = "final" /\ raised = "cancel") \/ pc = "exited"

\* While the client fails with connection errors only, a consumer outside of a job has
\* no job to show: every way out of a job but the task's end passes the reset in finally.
PhantomInv ==
    RedisErrors \subseteq {"conn"} /\ pc \in {"setup", "scan", "fetch", "read", "sleep"} \cup InSkip
        => idle = TRUE /\ currentJob = NoJob

\* The message in hand and the ones recover_pending has still to fetch are pending and
\* distinct, and a malformed message gets no further than its XACK.
HandInv ==
    /\ pc \in InSkip \cup InJob => mq[cur] = "pending" /\ cur \notin todo
    /\ \A m \in todo : mq[m] = "pending"
    /\ pc \in (InSkip \cup InJob) \ {"skipAck"} => cur \notin BadFields

-----------------------------------------------------------------------------
\* Only an unset flag lets the consumer pass a cancel check, so no job of early
\* reaches a report.
LEMMA EarlyStep == TypeOK /\ EarlyInv /\ [Next]_vars => EarlyInv'
<1> SUFFICES ASSUME TypeOK, EarlyInv, [Next]_vars PROVE EarlyInv'
  OBVIOUS
<1> USE JobsAssumption
    DEF TypeOK, RedisTypeOK, CtlTypeOK, JobTypeOK, LifeTypeOK, OutTypeOK,
        Points, InJob, InTry, InSkip, NoMsg, Job, Working, redisVars, jobVars,
        lifeVars, outVars, EarlyInv, PastLastCheck
<1>1. CASE Setup
  BY <1>1 DEF Setup, Goto, Escape
<1>2. CASE Scan
  BY <1>2 DEF Scan, Resume, LoopHead, Escape
<1>3. CASE Fetch
  BY <1>3 DEF Fetch, Resume, LoopHead, Escape, Dispatch
<1>4. CASE ReadMessage
  BY <1>4 DEF ReadMessage, Dispatch, Oldest, InState
<1>5. CASE ReadNothing
  BY <1>5 DEF ReadNothing, LoopHead
<1>6. CASE ReadRecheck
  BY <1>6 DEF ReadRecheck
<1>7. CASE ReadFails
  BY <1>7 DEF ReadFails, Escape, Oldest, InState
<1>8. CASE Wake
  BY <1>8 DEF Wake, Goto, LoopHead
<1>9. CASE CheckStatus
  BY <1>9 DEF CheckStatus, Goto, Escape, SkipStates
<1>10. CASE CheckCancel
  BY <1>10 DEF CheckCancel, Goto, Escape, CancelSignal, NoCancelSignal
<1>11. CASE MarkSkip
  BY <1>11 DEF MarkSkip, Goto, Escape, SafeHset, HsetRaises
<1>12. CASE SkipAck
  BY <1>12 DEF SkipAck, Resume, LoopHead, Escape, SafeXack, XackRaises
<1>13. CASE Begin
  BY <1>13 DEF Begin, Goto, Escape, SafeHset, HsetRaises
<1>14. CASE RunDone
  BY <1>14 DEF RunDone, Goto
<1>15. CASE RunTimeout
  BY <1>15 DEF RunTimeout, Goto
<1>16. CASE Poll
  BY <1>16 DEF Poll, Goto, CancelSignal, NoCancelSignal, AbandonRun
<1>17. CASE Halt
  BY <1>17 DEF Halt, Goto
<1>18. CASE CheckAfterRun
  BY <1>18 DEF CheckAfterRun, Goto, CheckedGoto, CancelSignal, NoCancelSignal
<1>19. CASE Complete
  BY <1>19 DEF Complete, Goto, SafeHset, HsetRaises
<1>20. CASE CheckBeforePost
  BY <1>20 DEF CheckBeforePost, Goto, CheckedGoto, CancelSignal, NoCancelSignal
<1>21. CASE Post
  BY <1>21 DEF Post, Goto, Report
<1>22. CASE HandleException
  BY <1>22 DEF HandleException, Goto, RaiseThroughFinally, CancelSignal,
     NoCancelSignal
<1>23. CASE Fail
  BY <1>23 DEF Fail, Goto, RaiseThroughFinally, SafeHset, HsetRaises
<1>24. CASE PostError
  BY <1>24 DEF PostError, Goto, Report
<1>25. CASE MarkCancelled
  BY <1>25 DEF MarkCancelled, Goto, RaiseThroughFinally, SafeHset, HsetRaises
<1>26. CASE Finally
  BY <1>26 DEF Finally, Resume, LoopHead, Escape, SafeXack, XackRaises
<1>27. CASE RunEnds
  BY <1>27 DEF RunEnds, ctlVars
<1>28. CASE ZombieEnds
  BY <1>28 DEF ZombieEnds, ctlVars
<1>29. CASE Start
  BY <1>29 DEF Start, Fresh
<1>30. CASE Stop
  BY <1>30 DEF Stop, ctlVars
<1>31. CASE Exit
  BY <1>31 DEF Exit, ProcessGone, Fresh
<1>32. CASE Crash
  BY <1>32 DEF Crash, CompletedInHand, ProcessGone, Fresh
<1>33. CASE Enqueue
  BY <1>33 DEF Enqueue, ctlVars, Oldest, InState
<1>34. CASE CancelConsumer
  <2>1. CASE CancelInTry
    BY <1>34, <2>1 DEF CancelConsumer, CancelInTry, AbandonRun,
       RaiseThroughFinally
  <2>2. CASE CancelSwallowed
    BY <1>34, <2>2 DEF CancelConsumer, CancelSwallowed, Goto
  <2>3. CASE CancelOutsideTry
    BY <1>34, <2>3 DEF CancelConsumer, CancelOutsideTry, Escape
  <2>4. CASE CancelTooLate
    BY <1>34, <2>4 DEF CancelConsumer, CancelTooLate, ctlVars
  <2> QED
    BY <1>34, <2>1, <2>2, <2>3, <2>4 DEF CancelConsumer
<1>35. ASSUME NEW j \in Jobs, Cancel(j) PROVE EarlyInv'
  BY <1>35 DEF Cancel, ctlVars
<1>36. ASSUME NEW m \in Msgs, Trim(m) PROVE EarlyInv'
  BY <1>36 DEF Trim, ctlVars
<1>37. CASE UNCHANGED vars
  BY <1>37 DEF vars, ctlVars
<1> QED
  BY <1>1, <1>2, <1>3, <1>4, <1>5, <1>6, <1>7, <1>8, <1>9, <1>10, <1>11, <1>12,
     <1>13, <1>14, <1>15, <1>16, <1>17, <1>18, <1>19, <1>20, <1>21, <1>22,
     <1>23, <1>24, <1>25, <1>26, <1>27, <1>28, <1>29, <1>30, <1>31, <1>32,
     <1>33, <1>34, <1>35, <1>36, <1>37 DEF Next, ConsumerStep, ProcessMessage,
     Executor, Lifespan, Cloud, Drained, DrainTimeout

\* Every way to an XACK passes a report, a cancel flag, or a recorded cut.
LEMMA AckStep == TypeOK /\ AckInv /\ [Next]_vars => AckInv'
<1> SUFFICES ASSUME TypeOK, AckInv, [Next]_vars PROVE AckInv'
  OBVIOUS
<1> USE JobsAssumption
    DEF TypeOK, RedisTypeOK, CtlTypeOK, JobTypeOK, LifeTypeOK, OutTypeOK,
        Points, InJob, InTry, InSkip, NoMsg, Job, Working, redisVars, jobVars,
        lifeVars, outVars, AckInv, Settled
<1>1. CASE Setup
  BY <1>1 DEF Setup, Goto, Escape
<1>2. CASE Scan
  BY <1>2 DEF Scan, Resume, LoopHead, Escape
<1>3. CASE Fetch
  BY <1>3 DEF Fetch, Resume, LoopHead, Escape, Dispatch
<1>4. CASE ReadMessage
  BY <1>4 DEF ReadMessage, Dispatch, Oldest, InState
<1>5. CASE ReadNothing
  BY <1>5 DEF ReadNothing, LoopHead
<1>6. CASE ReadRecheck
  BY <1>6 DEF ReadRecheck
<1>7. CASE ReadFails
  BY <1>7 DEF ReadFails, Escape, Oldest, InState
<1>8. CASE Wake
  BY <1>8 DEF Wake, Goto, LoopHead
<1>9. CASE CheckStatus
  BY <1>9 DEF CheckStatus, Goto, Escape, SkipStates
<1>10. CASE CheckCancel
  BY <1>10 DEF CheckCancel, Goto, Escape, CancelSignal, NoCancelSignal
<1>11. CASE MarkSkip
  BY <1>11 DEF MarkSkip, Goto, Escape, SafeHset, HsetRaises
<1>12. CASE SkipAck
  BY <1>12 DEF SkipAck, Resume, LoopHead, Escape, SafeXack, XackRaises
<1>13. CASE Begin
  BY <1>13 DEF Begin, Goto, Escape, SafeHset, HsetRaises
<1>14. CASE RunDone
  BY <1>14 DEF RunDone, Goto
<1>15. CASE RunTimeout
  BY <1>15 DEF RunTimeout, Goto
<1>16. CASE Poll
  BY <1>16 DEF Poll, Goto, CancelSignal, NoCancelSignal, AbandonRun
<1>17. CASE Halt
  BY <1>17 DEF Halt, Goto
<1>18. CASE CheckAfterRun
  BY <1>18 DEF CheckAfterRun, Goto, CheckedGoto, CancelSignal, NoCancelSignal
<1>19. CASE Complete
  BY <1>19 DEF Complete, Goto, SafeHset, HsetRaises
<1>20. CASE CheckBeforePost
  BY <1>20 DEF CheckBeforePost, Goto, CheckedGoto, CancelSignal, NoCancelSignal
<1>21. CASE Post
  BY <1>21 DEF Post, Goto, Report
<1>22. CASE HandleException
  BY <1>22 DEF HandleException, Goto, RaiseThroughFinally, CancelSignal,
     NoCancelSignal
<1>23. CASE Fail
  BY <1>23 DEF Fail, Goto, RaiseThroughFinally, SafeHset, HsetRaises
<1>24. CASE PostError
  BY <1>24 DEF PostError, Goto, Report
<1>25. CASE MarkCancelled
  BY <1>25 DEF MarkCancelled, Goto, RaiseThroughFinally, SafeHset, HsetRaises
<1>26. CASE Finally
  BY <1>26 DEF Finally, Resume, LoopHead, Escape, SafeXack, XackRaises
<1>27. CASE RunEnds
  BY <1>27 DEF RunEnds, ctlVars
<1>28. CASE ZombieEnds
  BY <1>28 DEF ZombieEnds, ctlVars
<1>29. CASE Start
  BY <1>29 DEF Start, Fresh
<1>30. CASE Stop
  BY <1>30 DEF Stop, ctlVars
<1>31. CASE Exit
  BY <1>31 DEF Exit, ProcessGone, Fresh
<1>32. CASE Crash
  BY <1>32 DEF Crash, CompletedInHand, ProcessGone, Fresh
<1>33. CASE Enqueue
  BY <1>33 DEF Enqueue, ctlVars, Oldest, InState
<1>34. CASE CancelConsumer
  <2>1. CASE CancelInTry
    BY <1>34, <2>1 DEF CancelConsumer, CancelInTry, AbandonRun,
       RaiseThroughFinally
  <2>2. CASE CancelSwallowed
    BY <1>34, <2>2 DEF CancelConsumer, CancelSwallowed, Goto
  <2>3. CASE CancelOutsideTry
    BY <1>34, <2>3 DEF CancelConsumer, CancelOutsideTry, Escape
  <2>4. CASE CancelTooLate
    BY <1>34, <2>4 DEF CancelConsumer, CancelTooLate, ctlVars
  <2> QED
    BY <1>34, <2>1, <2>2, <2>3, <2>4 DEF CancelConsumer
<1>35. ASSUME NEW j \in Jobs, Cancel(j) PROVE AckInv'
  BY <1>35 DEF Cancel, ctlVars
<1>36. ASSUME NEW m \in Msgs, Trim(m) PROVE AckInv'
  BY <1>36 DEF Trim, ctlVars
<1>37. CASE UNCHANGED vars
  BY <1>37 DEF vars, ctlVars
<1> QED
  BY <1>1, <1>2, <1>3, <1>4, <1>5, <1>6, <1>7, <1>8, <1>9, <1>10, <1>11, <1>12,
     <1>13, <1>14, <1>15, <1>16, <1>17, <1>18, <1>19, <1>20, <1>21, <1>22,
     <1>23, <1>24, <1>25, <1>26, <1>27, <1>28, <1>29, <1>30, <1>31, <1>32,
     <1>33, <1>34, <1>35, <1>36, <1>37 DEF Next, ConsumerStep, ProcessMessage,
     Executor, Lifespan, Cloud, Drained, DrainTimeout

\* Every write of the status hash is by the handlers of the message in hand.
LEMMA RunStep == TypeOK /\ RunInv /\ [Next]_vars => RunInv'
<1> SUFFICES ASSUME TypeOK, RunInv, [Next]_vars PROVE RunInv'
  OBVIOUS
<1> USE JobsAssumption
    DEF TypeOK, RedisTypeOK, CtlTypeOK, JobTypeOK, LifeTypeOK, OutTypeOK,
        Points, InJob, InTry, InSkip, NoMsg, Job, Working, redisVars, jobVars,
        lifeVars, outVars, RunInv, Unsettled
<1>1. CASE Setup
  BY <1>1 DEF Setup, Goto, Escape
<1>2. CASE Scan
  BY <1>2 DEF Scan, Resume, LoopHead, Escape
<1>3. CASE Fetch
  BY <1>3 DEF Fetch, Resume, LoopHead, Escape, Dispatch
<1>4. CASE ReadMessage
  BY <1>4 DEF ReadMessage, Dispatch, Oldest, InState
<1>5. CASE ReadNothing
  BY <1>5 DEF ReadNothing, LoopHead
<1>6. CASE ReadRecheck
  BY <1>6 DEF ReadRecheck
<1>7. CASE ReadFails
  BY <1>7 DEF ReadFails, Escape, Oldest, InState
<1>8. CASE Wake
  BY <1>8 DEF Wake, Goto, LoopHead
<1>9. CASE CheckStatus
  BY <1>9 DEF CheckStatus, Goto, Escape, SkipStates
<1>10. CASE CheckCancel
  BY <1>10 DEF CheckCancel, Goto, Escape, CancelSignal, NoCancelSignal
<1>11. CASE MarkSkip
  BY <1>11 DEF MarkSkip, Goto, Escape, SafeHset, HsetRaises
<1>12. CASE SkipAck
  BY <1>12 DEF SkipAck, Resume, LoopHead, Escape, SafeXack, XackRaises
<1>13. CASE Begin
  BY <1>13 DEF Begin, Goto, Escape, SafeHset, HsetRaises
<1>14. CASE RunDone
  BY <1>14 DEF RunDone, Goto
<1>15. CASE RunTimeout
  BY <1>15 DEF RunTimeout, Goto
<1>16. CASE Poll
  BY <1>16 DEF Poll, Goto, CancelSignal, NoCancelSignal, AbandonRun
<1>17. CASE Halt
  BY <1>17 DEF Halt, Goto
<1>18. CASE CheckAfterRun
  BY <1>18 DEF CheckAfterRun, Goto, CheckedGoto, CancelSignal, NoCancelSignal
<1>19. CASE Complete
  BY <1>19 DEF Complete, Goto, SafeHset, HsetRaises
<1>20. CASE CheckBeforePost
  BY <1>20 DEF CheckBeforePost, Goto, CheckedGoto, CancelSignal, NoCancelSignal
<1>21. CASE Post
  BY <1>21 DEF Post, Goto, Report
<1>22. CASE HandleException
  BY <1>22 DEF HandleException, Goto, RaiseThroughFinally, CancelSignal,
     NoCancelSignal
<1>23. CASE Fail
  BY <1>23 DEF Fail, Goto, RaiseThroughFinally, SafeHset, HsetRaises
<1>24. CASE PostError
  BY <1>24 DEF PostError, Goto, Report
<1>25. CASE MarkCancelled
  BY <1>25 DEF MarkCancelled, Goto, RaiseThroughFinally, SafeHset, HsetRaises
<1>26. CASE Finally
  BY <1>26 DEF Finally, Resume, LoopHead, Escape, SafeXack, XackRaises
<1>27. CASE RunEnds
  BY <1>27 DEF RunEnds, ctlVars
<1>28. CASE ZombieEnds
  BY <1>28 DEF ZombieEnds, ctlVars
<1>29. CASE Start
  BY <1>29 DEF Start, Fresh
<1>30. CASE Stop
  BY <1>30 DEF Stop, ctlVars
<1>31. CASE Exit
  BY <1>31 DEF Exit, ProcessGone, Fresh
<1>32. CASE Crash
  BY <1>32 DEF Crash, CompletedInHand, ProcessGone, Fresh
<1>33. CASE Enqueue
  BY <1>33 DEF Enqueue, ctlVars, Oldest, InState
<1>34. CASE CancelConsumer
  <2>1. CASE CancelInTry
    BY <1>34, <2>1 DEF CancelConsumer, CancelInTry, AbandonRun,
       RaiseThroughFinally
  <2>2. CASE CancelSwallowed
    BY <1>34, <2>2 DEF CancelConsumer, CancelSwallowed, Goto
  <2>3. CASE CancelOutsideTry
    BY <1>34, <2>3 DEF CancelConsumer, CancelOutsideTry, Escape
  <2>4. CASE CancelTooLate
    BY <1>34, <2>4 DEF CancelConsumer, CancelTooLate, ctlVars
  <2> QED
    BY <1>34, <2>1, <2>2, <2>3, <2>4 DEF CancelConsumer
<1>35. ASSUME NEW j \in Jobs, Cancel(j) PROVE RunInv'
  BY <1>35 DEF Cancel, ctlVars
<1>36. ASSUME NEW m \in Msgs, Trim(m) PROVE RunInv'
  BY <1>36 DEF Trim, ctlVars
<1>37. CASE UNCHANGED vars
  BY <1>37 DEF vars, ctlVars
<1> QED
  BY <1>1, <1>2, <1>3, <1>4, <1>5, <1>6, <1>7, <1>8, <1>9, <1>10, <1>11, <1>12,
     <1>13, <1>14, <1>15, <1>16, <1>17, <1>18, <1>19, <1>20, <1>21, <1>22,
     <1>23, <1>24, <1>25, <1>26, <1>27, <1>28, <1>29, <1>30, <1>31, <1>32,
     <1>33, <1>34, <1>35, <1>36, <1>37 DEF Next, ConsumerStep, ProcessMessage,
     Executor, Lifespan, Cloud, Drained, DrainTimeout

\* HSET completed precedes the webhook, and CheckStatus precedes every run.
LEMMA DeliverStep == TypeOK /\ DeliverInv /\ [Next]_vars => DeliverInv'
<1> SUFFICES ASSUME TypeOK, DeliverInv, [Next]_vars PROVE DeliverInv'
  OBVIOUS
<1> USE JobsAssumption
    DEF TypeOK, RedisTypeOK, CtlTypeOK, JobTypeOK, LifeTypeOK, OutTypeOK,
        Points, InJob, InTry, InSkip, NoMsg, Job, Working, redisVars, jobVars,
        lifeVars, outVars, DeliverInv, SkipStates
<1>1. CASE Setup
  BY <1>1, FaultType DEF Setup, Goto, Escape
<1>2. CASE Scan
  BY <1>2, FaultType DEF Scan, Resume, LoopHead, Escape
<1>3. CASE Fetch
  BY <1>3, FaultType DEF Fetch, Resume, LoopHead, Escape, Dispatch
<1>4. CASE ReadMessage
  BY <1>4 DEF ReadMessage, Dispatch, Oldest, InState
<1>5. CASE ReadNothing
  BY <1>5 DEF ReadNothing, LoopHead
<1>6. CASE ReadRecheck
  BY <1>6 DEF ReadRecheck
<1>7. CASE ReadFails
  BY <1>7, FaultType DEF ReadFails, Escape, Oldest, InState
<1>8. CASE Wake
  BY <1>8 DEF Wake, Goto, LoopHead
<1>9. CASE CheckStatus
  BY <1>9, FaultType DEF CheckStatus, Goto, Escape, SkipStates
<1>10. CASE CheckCancel
  BY <1>10, FaultType DEF CheckCancel, Goto, Escape, CancelSignal,
     NoCancelSignal
<1>11. CASE MarkSkip
  BY <1>11, FaultType DEF MarkSkip, Goto, Escape, SafeHset, HsetRaises
<1>12. CASE SkipAck
  BY <1>12, FaultType DEF SkipAck, Resume, LoopHead, Escape, SafeXack,
     XackRaises
<1>13. CASE Begin
  BY <1>13, FaultType DEF Begin, Goto, Escape, SafeHset, HsetRaises
<1>14. CASE RunDone
  BY <1>14 DEF RunDone, Goto
<1>15. CASE RunTimeout
  BY <1>15 DEF RunTimeout, Goto
<1>16. CASE Poll
  BY <1>16, FaultType DEF Poll, Goto, CancelSignal, NoCancelSignal, AbandonRun
<1>17. CASE Halt
  BY <1>17 DEF Halt, Goto
<1>18. CASE CheckAfterRun
  BY <1>18, FaultType DEF CheckAfterRun, Goto, CheckedGoto, CancelSignal,
     NoCancelSignal
<1>19. CASE Complete
  BY <1>19, FaultType DEF Complete, Goto, SafeHset, HsetRaises
<1>20. CASE CheckBeforePost
  BY <1>20, FaultType DEF CheckBeforePost, Goto, CheckedGoto, CancelSignal,
     NoCancelSignal
<1>21. CASE Post
  BY <1>21 DEF Post, Goto, Report
<1>22. CASE HandleException
  BY <1>22, FaultType DEF HandleException, Goto, RaiseThroughFinally,
     CancelSignal, NoCancelSignal
<1>23. CASE Fail
  BY <1>23, FaultType DEF Fail, Goto, RaiseThroughFinally, SafeHset, HsetRaises
<1>24. CASE PostError
  BY <1>24 DEF PostError, Goto, Report
<1>25. CASE MarkCancelled
  BY <1>25, FaultType DEF MarkCancelled, Goto, RaiseThroughFinally, SafeHset,
     HsetRaises
<1>26. CASE Finally
  BY <1>26, FaultType DEF Finally, Resume, LoopHead, Escape, SafeXack,
     XackRaises
<1>27. CASE RunEnds
  BY <1>27 DEF RunEnds, ctlVars
<1>28. CASE ZombieEnds
  BY <1>28 DEF ZombieEnds, ctlVars
<1>29. CASE Start
  BY <1>29 DEF Start, Fresh
<1>30. CASE Stop
  BY <1>30 DEF Stop, ctlVars
<1>31. CASE Exit
  BY <1>31 DEF Exit, ProcessGone, Fresh
<1>32. CASE Crash
  BY <1>32 DEF Crash, CompletedInHand, ProcessGone, Fresh
<1>33. CASE Enqueue
  BY <1>33 DEF Enqueue, ctlVars, Oldest, InState
<1>34. CASE CancelConsumer
  <2>1. CASE CancelInTry
    BY <1>34, <2>1 DEF CancelConsumer, CancelInTry, AbandonRun,
       RaiseThroughFinally
  <2>2. CASE CancelSwallowed
    BY <1>34, <2>2 DEF CancelConsumer, CancelSwallowed, Goto
  <2>3. CASE CancelOutsideTry
    BY <1>34, <2>3 DEF CancelConsumer, CancelOutsideTry, Escape
  <2>4. CASE CancelTooLate
    BY <1>34, <2>4 DEF CancelConsumer, CancelTooLate, ctlVars
  <2> QED
    BY <1>34, <2>1, <2>2, <2>3, <2>4 DEF CancelConsumer
<1>35. ASSUME NEW j \in Jobs, Cancel(j) PROVE DeliverInv'
  BY <1>35 DEF Cancel, ctlVars
<1>36. ASSUME NEW m \in Msgs, Trim(m) PROVE DeliverInv'
  BY <1>36 DEF Trim, ctlVars
<1>37. CASE UNCHANGED vars
  BY <1>37 DEF vars, ctlVars
<1> QED
  BY <1>1, <1>2, <1>3, <1>4, <1>5, <1>6, <1>7, <1>8, <1>9, <1>10, <1>11, <1>12,
     <1>13, <1>14, <1>15, <1>16, <1>17, <1>18, <1>19, <1>20, <1>21, <1>22,
     <1>23, <1>24, <1>25, <1>26, <1>27, <1>28, <1>29, <1>30, <1>31, <1>32,
     <1>33, <1>34, <1>35, <1>36, <1>37 DEF Next, ConsumerStep, ProcessMessage,
     Executor, Lifespan, Cloud, Drained, DrainTimeout

\* Only Poll's failure and the final cancel abandon a run.
LEMMA ZombieStep == TypeOK /\ ZombieInv /\ [Next]_vars => ZombieInv'
<1> SUFFICES ASSUME TypeOK, ZombieInv, [Next]_vars PROVE ZombieInv'
  OBVIOUS
<1> USE JobsAssumption
    DEF TypeOK, RedisTypeOK, CtlTypeOK, JobTypeOK, LifeTypeOK, OutTypeOK,
        Points, InJob, InTry, InSkip, NoMsg, Job, Working, redisVars, jobVars,
        lifeVars, outVars, ZombieInv
<1>1. CASE Setup
  BY <1>1, FaultType DEF Setup, Goto, Escape
<1>2. CASE Scan
  BY <1>2, FaultType DEF Scan, Resume, LoopHead, Escape
<1>3. CASE Fetch
  BY <1>3, FaultType DEF Fetch, Resume, LoopHead, Escape, Dispatch
<1>4. CASE ReadMessage
  BY <1>4 DEF ReadMessage, Dispatch, Oldest, InState
<1>5. CASE ReadNothing
  BY <1>5 DEF ReadNothing, LoopHead
<1>6. CASE ReadRecheck
  BY <1>6 DEF ReadRecheck
<1>7. CASE ReadFails
  BY <1>7, FaultType DEF ReadFails, Escape, Oldest, InState
<1>8. CASE Wake
  BY <1>8 DEF Wake, Goto, LoopHead
<1>9. CASE CheckStatus
  BY <1>9, FaultType DEF CheckStatus, Goto, Escape, SkipStates
<1>10. CASE CheckCancel
  BY <1>10, FaultType DEF CheckCancel, Goto, Escape, CancelSignal,
     NoCancelSignal
<1>11. CASE MarkSkip
  BY <1>11, FaultType DEF MarkSkip, Goto, Escape, SafeHset, HsetRaises
<1>12. CASE SkipAck
  BY <1>12, FaultType DEF SkipAck, Resume, LoopHead, Escape, SafeXack,
     XackRaises
<1>13. CASE Begin
  BY <1>13, FaultType DEF Begin, Goto, Escape, SafeHset, HsetRaises
<1>14. CASE RunDone
  BY <1>14 DEF RunDone, Goto
<1>15. CASE RunTimeout
  BY <1>15 DEF RunTimeout, Goto
<1>16. CASE Poll
  BY <1>16, FaultType DEF Poll, Goto, CancelSignal, NoCancelSignal, AbandonRun
<1>17. CASE Halt
  BY <1>17 DEF Halt, Goto
<1>18. CASE CheckAfterRun
  BY <1>18, FaultType DEF CheckAfterRun, Goto, CheckedGoto, CancelSignal,
     NoCancelSignal
<1>19. CASE Complete
  BY <1>19, FaultType DEF Complete, Goto, SafeHset, HsetRaises
<1>20. CASE CheckBeforePost
  BY <1>20, FaultType DEF CheckBeforePost, Goto, CheckedGoto, CancelSignal,
     NoCancelSignal
<1>21. CASE Post
  BY <1>21 DEF Post, Goto, Report
<1>22. CASE HandleException
  BY <1>22, FaultType DEF HandleException, Goto, RaiseThroughFinally,
     CancelSignal, NoCancelSignal
<1>23. CASE Fail
  BY <1>23, FaultType DEF Fail, Goto, RaiseThroughFinally, SafeHset, HsetRaises
<1>24. CASE PostError
  BY <1>24 DEF PostError, Goto, Report
<1>25. CASE MarkCancelled
  BY <1>25, FaultType DEF MarkCancelled, Goto, RaiseThroughFinally, SafeHset,
     HsetRaises
<1>26. CASE Finally
  BY <1>26, FaultType DEF Finally, Resume, LoopHead, Escape, SafeXack,
     XackRaises
<1>27. CASE RunEnds
  BY <1>27 DEF RunEnds, ctlVars
<1>28. CASE ZombieEnds
  BY <1>28 DEF ZombieEnds, ctlVars
<1>29. CASE Start
  BY <1>29 DEF Start, Fresh
<1>30. CASE Stop
  BY <1>30 DEF Stop, ctlVars
<1>31. CASE Exit
  BY <1>31 DEF Exit, ProcessGone, Fresh
<1>32. CASE Crash
  BY <1>32 DEF Crash, CompletedInHand, ProcessGone, Fresh
<1>33. CASE Enqueue
  BY <1>33 DEF Enqueue, ctlVars, Oldest, InState
<1>34. CASE CancelConsumer
  <2>1. CASE CancelInTry
    BY <1>34, <2>1 DEF CancelConsumer, CancelInTry, AbandonRun,
       RaiseThroughFinally
  <2>2. CASE CancelSwallowed
    BY <1>34, <2>2 DEF CancelConsumer, CancelSwallowed, Goto
  <2>3. CASE CancelOutsideTry
    BY <1>34, <2>3 DEF CancelConsumer, CancelOutsideTry, Escape
  <2>4. CASE CancelTooLate
    BY <1>34, <2>4 DEF CancelConsumer, CancelTooLate, ctlVars
  <2> QED
    BY <1>34, <2>1, <2>2, <2>3, <2>4 DEF CancelConsumer
<1>35. ASSUME NEW j \in Jobs, Cancel(j) PROVE ZombieInv'
  BY <1>35 DEF Cancel, ctlVars
<1>36. ASSUME NEW m \in Msgs, Trim(m) PROVE ZombieInv'
  BY <1>36 DEF Trim, ctlVars
<1>37. CASE UNCHANGED vars
  BY <1>37 DEF vars, ctlVars
<1> QED
  BY <1>1, <1>2, <1>3, <1>4, <1>5, <1>6, <1>7, <1>8, <1>9, <1>10, <1>11, <1>12,
     <1>13, <1>14, <1>15, <1>16, <1>17, <1>18, <1>19, <1>20, <1>21, <1>22,
     <1>23, <1>24, <1>25, <1>26, <1>27, <1>28, <1>29, <1>30, <1>31, <1>32,
     <1>33, <1>34, <1>35, <1>36, <1>37 DEF Next, ConsumerStep, ProcessMessage,
     Executor, Lifespan, Cloud, Drained, DrainTimeout

\* idle is cleared on the way into a job and set only on the way out of it.
LEMMA BusyStep == TypeOK /\ BusyIsVisible /\ [Next]_vars => BusyIsVisible'
<1> SUFFICES ASSUME TypeOK, BusyIsVisible, [Next]_vars PROVE BusyIsVisible'
  OBVIOUS
<1> USE JobsAssumption
    DEF TypeOK, RedisTypeOK, CtlTypeOK, JobTypeOK, LifeTypeOK, OutTypeOK,
        Points, InJob, InTry, InSkip, NoMsg, Job, Working, redisVars, jobVars,
        lifeVars, outVars, BusyIsVisible
<1>1. CASE Setup
  BY <1>1 DEF Setup, Goto, Escape
<1>2. CASE Scan
  BY <1>2 DEF Scan, Resume, LoopHead, Escape
<1>3. CASE Fetch
  BY <1>3 DEF Fetch, Resume, LoopHead, Escape, Dispatch
<1>4. CASE ReadMessage
  BY <1>4 DEF ReadMessage, Dispatch, Oldest, InState
<1>5. CASE ReadNothing
  BY <1>5 DEF ReadNothing, LoopHead
<1>6. CASE ReadRecheck
  BY <1>6 DEF ReadRecheck
<1>7. CASE ReadFails
  BY <1>7 DEF ReadFails, Escape, Oldest, InState
<1>8. CASE Wake
  BY <1>8 DEF Wake, Goto, LoopHead
<1>9. CASE CheckStatus
  BY <1>9 DEF CheckStatus, Goto, Escape, SkipStates
<1>10. CASE CheckCancel
  BY <1>10 DEF CheckCancel, Goto, Escape, CancelSignal, NoCancelSignal
<1>11. CASE MarkSkip
  BY <1>11 DEF MarkSkip, Goto, Escape, SafeHset, HsetRaises
<1>12. CASE SkipAck
  BY <1>12 DEF SkipAck, Resume, LoopHead, Escape, SafeXack, XackRaises
<1>13. CASE Begin
  BY <1>13 DEF Begin, Goto, Escape, SafeHset, HsetRaises
<1>14. CASE RunDone
  BY <1>14 DEF RunDone, Goto
<1>15. CASE RunTimeout
  BY <1>15 DEF RunTimeout, Goto
<1>16. CASE Poll
  BY <1>16 DEF Poll, Goto, CancelSignal, NoCancelSignal, AbandonRun
<1>17. CASE Halt
  BY <1>17 DEF Halt, Goto
<1>18. CASE CheckAfterRun
  BY <1>18 DEF CheckAfterRun, Goto, CheckedGoto, CancelSignal, NoCancelSignal
<1>19. CASE Complete
  BY <1>19 DEF Complete, Goto, SafeHset, HsetRaises
<1>20. CASE CheckBeforePost
  BY <1>20 DEF CheckBeforePost, Goto, CheckedGoto, CancelSignal, NoCancelSignal
<1>21. CASE Post
  BY <1>21 DEF Post, Goto, Report
<1>22. CASE HandleException
  BY <1>22 DEF HandleException, Goto, RaiseThroughFinally, CancelSignal,
     NoCancelSignal
<1>23. CASE Fail
  BY <1>23 DEF Fail, Goto, RaiseThroughFinally, SafeHset, HsetRaises
<1>24. CASE PostError
  BY <1>24 DEF PostError, Goto, Report
<1>25. CASE MarkCancelled
  BY <1>25 DEF MarkCancelled, Goto, RaiseThroughFinally, SafeHset, HsetRaises
<1>26. CASE Finally
  BY <1>26 DEF Finally, Resume, LoopHead, Escape, SafeXack, XackRaises
<1>27. CASE RunEnds
  BY <1>27 DEF RunEnds, ctlVars
<1>28. CASE ZombieEnds
  BY <1>28 DEF ZombieEnds, ctlVars
<1>29. CASE Start
  BY <1>29 DEF Start, Fresh
<1>30. CASE Stop
  BY <1>30 DEF Stop, ctlVars
<1>31. CASE Exit
  BY <1>31 DEF Exit, ProcessGone, Fresh
<1>32. CASE Crash
  BY <1>32 DEF Crash, CompletedInHand, ProcessGone, Fresh
<1>33. CASE Enqueue
  BY <1>33 DEF Enqueue, ctlVars, Oldest, InState
<1>34. CASE CancelConsumer
  <2>1. CASE CancelInTry
    BY <1>34, <2>1 DEF CancelConsumer, CancelInTry, AbandonRun,
       RaiseThroughFinally
  <2>2. CASE CancelSwallowed
    BY <1>34, <2>2 DEF CancelConsumer, CancelSwallowed, Goto
  <2>3. CASE CancelOutsideTry
    BY <1>34, <2>3 DEF CancelConsumer, CancelOutsideTry, Escape
  <2>4. CASE CancelTooLate
    BY <1>34, <2>4 DEF CancelConsumer, CancelTooLate, ctlVars
  <2> QED
    BY <1>34, <2>1, <2>2, <2>3, <2>4 DEF CancelConsumer
<1>35. ASSUME NEW j \in Jobs, Cancel(j) PROVE BusyIsVisible'
  BY <1>35 DEF Cancel, ctlVars
<1>36. ASSUME NEW m \in Msgs, Trim(m) PROVE BusyIsVisible'
  BY <1>36 DEF Trim, ctlVars
<1>37. CASE UNCHANGED vars
  BY <1>37 DEF vars, ctlVars
<1> QED
  BY <1>1, <1>2, <1>3, <1>4, <1>5, <1>6, <1>7, <1>8, <1>9, <1>10, <1>11, <1>12,
     <1>13, <1>14, <1>15, <1>16, <1>17, <1>18, <1>19, <1>20, <1>21, <1>22,
     <1>23, <1>24, <1>25, <1>26, <1>27, <1>28, <1>29, <1>30, <1>31, <1>32,
     <1>33, <1>34, <1>35, <1>36, <1>37 DEF Next, ConsumerStep, ProcessMessage,
     Executor, Lifespan, Cloud, Drained, DrainTimeout

\* A failed XACK of kind "conn" does not keep finally from its reset.
LEMMA PhantomStep == TypeOK /\ PhantomInv /\ [Next]_vars => PhantomInv'
<1> SUFFICES ASSUME TypeOK, PhantomInv, [Next]_vars PROVE PhantomInv'
  OBVIOUS
<1> USE JobsAssumption
    DEF TypeOK, RedisTypeOK, CtlTypeOK, JobTypeOK, LifeTypeOK, OutTypeOK,
        Points, InJob, InTry, InSkip, NoMsg, Job, Working, redisVars, jobVars,
        lifeVars, outVars, PhantomInv
<1>1. CASE Setup
  BY <1>1 DEF Setup, Goto, Escape
<1>2. CASE Scan
  BY <1>2 DEF Scan, Resume, LoopHead, Escape
<1>3. CASE Fetch
  BY <1>3 DEF Fetch, Resume, LoopHead, Escape, Dispatch
<1>4. CASE ReadMessage
  BY <1>4 DEF ReadMessage, Dispatch, Oldest, InState
<1>5. CASE ReadNothing
  BY <1>5 DEF ReadNothing, LoopHead
<1>6. CASE ReadRecheck
  BY <1>6 DEF ReadRecheck
<1>7. CASE ReadFails
  BY <1>7 DEF ReadFails, Escape, Oldest, InState
<1>8. CASE Wake
  BY <1>8 DEF Wake, Goto, LoopHead
<1>9. CASE CheckStatus
  BY <1>9 DEF CheckStatus, Goto, Escape, SkipStates
<1>10. CASE CheckCancel
  BY <1>10 DEF CheckCancel, Goto, Escape, CancelSignal, NoCancelSignal
<1>11. CASE MarkSkip
  BY <1>11 DEF MarkSkip, Goto, Escape, SafeHset, HsetRaises
<1>12. CASE SkipAck
  BY <1>12 DEF SkipAck, Resume, LoopHead, Escape, SafeXack, XackRaises
<1>13. CASE Begin
  BY <1>13 DEF Begin, Fault, Goto, Escape, SafeHset, HsetRaises
<1>14. CASE RunDone
  BY <1>14 DEF RunDone, Goto
<1>15. CASE RunTimeout
  BY <1>15 DEF RunTimeout, Goto
<1>16. CASE Poll
  BY <1>16 DEF Poll, Goto, CancelSignal, NoCancelSignal, AbandonRun
<1>17. CASE Halt
  BY <1>17 DEF Halt, Goto
<1>18. CASE CheckAfterRun
  BY <1>18 DEF CheckAfterRun, Goto, CheckedGoto, CancelSignal, NoCancelSignal
<1>19. CASE Complete
  BY <1>19 DEF Complete, Goto, SafeHset, HsetRaises
<1>20. CASE CheckBeforePost
  BY <1>20 DEF CheckBeforePost, Goto, CheckedGoto, CancelSignal, NoCancelSignal
<1>21. CASE Post
  BY <1>21 DEF Post, Goto, Report
<1>22. CASE HandleException
  BY <1>22 DEF HandleException, Goto, RaiseThroughFinally, CancelSignal,
     NoCancelSignal
<1>23. CASE Fail
  BY <1>23 DEF Fail, Goto, RaiseThroughFinally, SafeHset, HsetRaises
<1>24. CASE PostError
  BY <1>24 DEF PostError, Goto, Report
<1>25. CASE MarkCancelled
  BY <1>25 DEF MarkCancelled, Goto, RaiseThroughFinally, SafeHset, HsetRaises
<1>26. CASE Finally
  BY <1>26 DEF Finally, Fault, Resume, LoopHead, Escape, SafeXack, XackRaises
<1>27. CASE RunEnds
  BY <1>27 DEF RunEnds, ctlVars
<1>28. CASE ZombieEnds
  BY <1>28 DEF ZombieEnds, ctlVars
<1>29. CASE Start
  BY <1>29 DEF Start, Fresh
<1>30. CASE Stop
  BY <1>30 DEF Stop, ctlVars
<1>31. CASE Exit
  BY <1>31 DEF Exit, ProcessGone, Fresh
<1>32. CASE Crash
  BY <1>32 DEF Crash, CompletedInHand, ProcessGone, Fresh
<1>33. CASE Enqueue
  BY <1>33 DEF Enqueue, ctlVars, Oldest, InState
<1>34. CASE CancelConsumer
  <2>1. CASE CancelInTry
    BY <1>34, <2>1 DEF CancelConsumer, CancelInTry, AbandonRun,
       RaiseThroughFinally
  <2>2. CASE CancelSwallowed
    BY <1>34, <2>2 DEF CancelConsumer, CancelSwallowed, Goto
  <2>3. CASE CancelOutsideTry
    BY <1>34, <2>3 DEF CancelConsumer, CancelOutsideTry, Escape
  <2>4. CASE CancelTooLate
    BY <1>34, <2>4 DEF CancelConsumer, CancelTooLate, ctlVars
  <2> QED
    BY <1>34, <2>1, <2>2, <2>3, <2>4 DEF CancelConsumer
<1>35. ASSUME NEW j \in Jobs, Cancel(j) PROVE PhantomInv'
  BY <1>35 DEF Cancel, ctlVars
<1>36. ASSUME NEW m \in Msgs, Trim(m) PROVE PhantomInv'
  BY <1>36 DEF Trim, ctlVars
<1>37. CASE UNCHANGED vars
  BY <1>37 DEF vars, ctlVars
<1> QED
  BY <1>1, <1>2, <1>3, <1>4, <1>5, <1>6, <1>7, <1>8, <1>9, <1>10, <1>11, <1>12,
     <1>13, <1>14, <1>15, <1>16, <1>17, <1>18, <1>19, <1>20, <1>21, <1>22,
     <1>23, <1>24, <1>25, <1>26, <1>27, <1>28, <1>29, <1>30, <1>31, <1>32,
     <1>33, <1>34, <1>35, <1>36, <1>37 DEF Next, ConsumerStep, ProcessMessage,
     Executor, Lifespan, Cloud, Drained, DrainTimeout

\* A message enters the consumer's hands as pending and leaves them with its XACK.
LEMMA HandStep == TypeOK /\ HandInv /\ [Next]_vars => HandInv'
<1> SUFFICES ASSUME TypeOK, HandInv, [Next]_vars PROVE HandInv'
  OBVIOUS
<1> USE JobsAssumption
    DEF TypeOK, RedisTypeOK, CtlTypeOK, JobTypeOK, LifeTypeOK, OutTypeOK,
        Points, InJob, InTry, InSkip, NoMsg, Job, Working, redisVars, jobVars,
        lifeVars, outVars, HandInv
<1>1. CASE Setup
  BY <1>1 DEF Setup, Goto, Escape
<1>2. CASE Scan
  BY <1>2 DEF Scan, Oldest, InState, Resume, LoopHead, Escape
<1>3. CASE Fetch
  BY <1>3 DEF Fetch, Oldest, Resume, LoopHead, Escape, Dispatch
<1>4. CASE ReadMessage
  BY <1>4 DEF ReadMessage, Dispatch, Oldest, InState
<1>5. CASE ReadNothing
  BY <1>5 DEF ReadNothing, LoopHead
<1>6. CASE ReadRecheck
  BY <1>6 DEF ReadRecheck
<1>7. CASE ReadFails
  BY <1>7 DEF ReadFails, Escape, Oldest, InState
<1>8. CASE Wake
  BY <1>8 DEF Wake, Goto, LoopHead
<1>9. CASE CheckStatus
  BY <1>9 DEF CheckStatus, Goto, Escape, SkipStates
<1>10. CASE CheckCancel
  BY <1>10 DEF CheckCancel, Goto, Escape, CancelSignal, NoCancelSignal
<1>11. CASE MarkSkip
  BY <1>11 DEF MarkSkip, Goto, Escape, SafeHset, HsetRaises
<1>12. CASE SkipAck
  BY <1>12 DEF SkipAck, Resume, LoopHead, Escape, SafeXack, XackRaises
<1>13. CASE Begin
  BY <1>13 DEF Begin, Goto, Escape, SafeHset, HsetRaises
<1>14. CASE RunDone
  BY <1>14 DEF RunDone, Goto
<1>15. CASE RunTimeout
  BY <1>15 DEF RunTimeout, Goto
<1>16. CASE Poll
  BY <1>16 DEF Poll, Goto, CancelSignal, NoCancelSignal, AbandonRun
<1>17. CASE Halt
  BY <1>17 DEF Halt, Goto
<1>18. CASE CheckAfterRun
  BY <1>18 DEF CheckAfterRun, Goto, CheckedGoto, CancelSignal, NoCancelSignal
<1>19. CASE Complete
  BY <1>19 DEF Complete, Goto, SafeHset, HsetRaises
<1>20. CASE CheckBeforePost
  BY <1>20 DEF CheckBeforePost, Goto, CheckedGoto, CancelSignal, NoCancelSignal
<1>21. CASE Post
  BY <1>21 DEF Post, Goto, Report
<1>22. CASE HandleException
  BY <1>22 DEF HandleException, Goto, RaiseThroughFinally, CancelSignal,
     NoCancelSignal
<1>23. CASE Fail
  BY <1>23 DEF Fail, Goto, RaiseThroughFinally, SafeHset, HsetRaises
<1>24. CASE PostError
  BY <1>24 DEF PostError, Goto, Report
<1>25. CASE MarkCancelled
  BY <1>25 DEF MarkCancelled, Goto, RaiseThroughFinally, SafeHset, HsetRaises
<1>26. CASE Finally
  <2>1. \A m \in todo : mq'[m] = "pending"
    BY <1>26 DEF Finally, SafeXack, XackRaises
  <2>2. pc' \notin InSkip \cup InJob /\ todo' \in {todo, {}}
    BY <1>26 DEF Finally, Resume, LoopHead, Escape
  <2> QED BY <2>1, <2>2
<1>27. CASE RunEnds
  BY <1>27 DEF RunEnds, ctlVars
<1>28. CASE ZombieEnds
  BY <1>28 DEF ZombieEnds, ctlVars
<1>29. CASE Start
  BY <1>29 DEF Start, Fresh
<1>30. CASE Stop
  BY <1>30 DEF Stop, ctlVars
<1>31. CASE Exit
  BY <1>31 DEF Exit, ProcessGone, Fresh
<1>32. CASE Crash
  BY <1>32 DEF Crash, CompletedInHand, ProcessGone, Fresh
<1>33. CASE Enqueue
  BY <1>33 DEF Enqueue, ctlVars, Oldest, InState
<1>34. CASE CancelConsumer
  <2>1. CASE CancelInTry
    BY <1>34, <2>1 DEF CancelConsumer, CancelInTry, AbandonRun,
       RaiseThroughFinally
  <2>2. CASE CancelSwallowed
    BY <1>34, <2>2 DEF CancelConsumer, CancelSwallowed, Goto
  <2>3. CASE CancelOutsideTry
    BY <1>34, <2>3 DEF CancelConsumer, CancelOutsideTry, Escape
  <2>4. CASE CancelTooLate
    BY <1>34, <2>4 DEF CancelConsumer, CancelTooLate, ctlVars
  <2> QED
    BY <1>34, <2>1, <2>2, <2>3, <2>4 DEF CancelConsumer
<1>35. ASSUME NEW j \in Jobs, Cancel(j) PROVE HandInv'
  BY <1>35 DEF Cancel, ctlVars
<1>36. ASSUME NEW m \in Msgs, Trim(m) PROVE HandInv'
  BY <1>36 DEF Trim, ctlVars
<1>37. CASE UNCHANGED vars
  BY <1>37 DEF vars, ctlVars
<1> QED
  BY <1>1, <1>2, <1>3, <1>4, <1>5, <1>6, <1>7, <1>8, <1>9, <1>10, <1>11, <1>12,
     <1>13, <1>14, <1>15, <1>16, <1>17, <1>18, <1>19, <1>20, <1>21, <1>22,
     <1>23, <1>24, <1>25, <1>26, <1>27, <1>28, <1>29, <1>30, <1>31, <1>32,
     <1>33, <1>34, <1>35, <1>36, <1>37 DEF Next, ConsumerStep, ProcessMessage,
     Executor, Lifespan, Cloud, Drained, DrainTimeout

-----------------------------------------------------------------------------
(***************************************************************************)
(* The theorems.                                                           *)
(***************************************************************************)
\* The conjunction of the strengthenings.
Inv == /\ TypeOK /\ EarlyInv /\ AckInv /\ RunInv
       /\ DeliverInv /\ ZombieInv /\ BusyIsVisible /\ PhantomInv /\ HandInv

\* The initial state is well typed.
LEMMA InitType == Init => TypeOK
<1> SUFFICES ASSUME Init PROVE TypeOK
  OBVIOUS
<1>1. RedisTypeOK
  BY DEF Init, RedisTypeOK, MsgStates, JobStates
<1>2. CtlTypeOK
  BY DEF Init, CtlTypeOK, Points, InSkip, InJob, InTry
<1>3. JobTypeOK
  BY DEF Init, JobTypeOK
<1>4. LifeTypeOK
  BY DEF Init, LifeTypeOK
<1>5. OutTypeOK
  BY DEF Init, OutTypeOK
<1> QED
  BY <1>1, <1>2, <1>3, <1>4, <1>5 DEF TypeOK

\* Every variable keeps its type in every behaviour of the consumer, and a
\* message is in hand exactly while _process_message runs.
THEOREM TypeCorrect == Spec => []TypeOK
  BY InitType, TypeStep, PTL DEF Spec

\* The strengthenings hold together in every reachable state.
LEMMA Invariance == Spec => []Inv
<1>1. Init => TypeOK
  BY InitType
<1>2. Init => /\ EarlyInv /\ AckInv /\ RunInv /\ DeliverInv /\ ZombieInv
              /\ BusyIsVisible /\ PhantomInv /\ HandInv
  BY JobsAssumption
     DEF Init, EarlyInv, AckInv, RunInv, DeliverInv, ZombieInv, BusyIsVisible,
         PhantomInv, HandInv, Settled, Unsettled, InJob, InTry, InSkip
<1>3. Inv /\ [Next]_vars => Inv'
  BY TypeStep, EarlyStep, AckStep, RunStep, DeliverStep, ZombieStep, BusyStep,
     PhantomStep, HandStep DEF Inv
<1> QED
  BY <1>1, <1>2, <1>3, PTL DEF Spec, Inv

\* No report of a job leaves the node once the job was cancelled in time, for any
\* number of messages, duplicates, crashes and Redis errors.
THEOREM EarlyCancelAlwaysWins == Spec => []EarlyCancelWins
<1>1. Inv => EarlyCancelWins
  BY DEF Inv, EarlyInv, EarlyCancelWins
<1> QED
  BY <1>1, Invariance, PTL

\* The finally clause and the skip of settled jobs acknowledge no message
\* silently, except those of a job that was cut short.
THEOREM NoOtherSilentAckEver == Spec => []NoOtherSilentAck
<1>1. Inv => NoOtherSilentAck
  BY DEF Inv, AckInv, Settled, NoOtherSilentAck
<1> QED
  BY <1>1, Invariance, PTL

\* No step of any process takes a cancelled job out of that state.
THEOREM CancelledStaysCancelled == Spec => CancelledIsFinal
<1>1. Inv /\ [Next]_vars =>
        [\A j \in Jobs : status[j] = "cancelled" => status'[j] = "cancelled"]_vars
  <2> SUFFICES ASSUME Inv, [Next]_vars, NEW j \in Jobs, status[j] = "cancelled"
               PROVE  status'[j] = "cancelled"
    OBVIOUS
  <2> USE JobsAssumption DEF Inv, TypeOK, RedisTypeOK, RunInv, Unsettled
  <2>1. status' = status => status'[j] = "cancelled"
    OBVIOUS
  <2>2. CASE MarkSkip \/ MarkCancelled
    BY <2>2 DEF MarkSkip, MarkCancelled, SafeHset, HsetRaises
  <2>3. CASE Begin
    BY <2>3 DEF Begin, SafeHset, HsetRaises
  <2>4. CASE Complete
    BY <2>4 DEF Complete, SafeHset, HsetRaises
  <2>5. CASE Fail
    BY <2>5 DEF Fail, SafeHset, HsetRaises
  <2>6. CASE CancelConsumer
    BY <2>6 DEF CancelConsumer, CancelInTry, CancelSwallowed, CancelOutsideTry,
                CancelTooLate, Job
  <2>7. CASE Setup \/ Scan \/ Fetch \/ ReadMessage \/ ReadNothing \/ ReadRecheck
             \/ ReadFails \/ Wake \/ CheckStatus \/ CheckCancel \/ SkipAck
    BY <2>1, <2>7 DEF Setup, Scan, Fetch, ReadMessage, ReadNothing, ReadRecheck,
       ReadFails, Wake, CheckStatus, CheckCancel, SkipAck, redisVars
  <2>8. CASE RunDone \/ RunTimeout \/ Poll \/ Halt \/ CheckAfterRun \/ CheckBeforePost
             \/ Post \/ HandleException \/ PostError \/ Finally
    BY <2>1, <2>8 DEF RunDone, RunTimeout, Poll, Halt, CheckAfterRun,
       CheckBeforePost, Post, HandleException, PostError, Finally, redisVars
  <2>9. CASE Executor \/ Start \/ Stop \/ Exit \/ Crash
    BY <2>1, <2>9 DEF Executor, RunEnds, ZombieEnds, Start, Stop, Exit, Crash,
       ProcessGone, redisVars
  <2>10. CASE Cloud
    BY <2>1, <2>10 DEF Cloud, Enqueue, Cancel, Trim
  <2>11. CASE UNCHANGED vars
    BY <2>1, <2>11 DEF vars, redisVars
  <2> QED
    BY <2>2, <2>3, <2>4, <2>5, <2>6, <2>7, <2>8, <2>9, <2>10, <2>11
       DEF Next, ConsumerStep, ProcessMessage, Lifespan, Drained, DrainTimeout
<1> QED
  BY <1>1, Invariance, PTL DEF Spec, CancelledIsFinal

\* The executor is never given a job that Redis records as settled.
THEOREM SettledNeverRunsAgain == Spec => []SettledNeverRuns
<1>1. Inv => SettledNeverRuns
  BY DEF Inv, RunInv, Unsettled, SettledNeverRuns, SkipStates
<1> QED
  BY <1>1, Invariance, PTL

\* Nor, while Redis has not failed, a job whose result the cloud accepted.
THEOREM DeliveredNeverRunsAgain == Spec => []DeliveredNeverRuns
<1>1. Inv => DeliveredNeverRuns
  BY DEF Inv, RunInv, DeliverInv, InTry, DeliveredNeverRuns
<1> QED
  BY <1>1, Invariance, PTL

\* While Redis has not failed, no two executor runs overlap.
THEOREM RunsAreExclusive == Spec => []RunsOverlapOnlyAfterError
<1>1. Inv => RunsOverlapOnlyAfterError
  BY DEF Inv, RunInv, ZombieInv, RunsOverlapOnlyAfterError, TypeOK, JobTypeOK
<1> QED
  BY <1>1, Invariance, PTL

\* drain, /ready and the heartbeat see every job that is being handled.
THEOREM BusyAlwaysVisible == Spec => []BusyIsVisible
<1>1. Inv => BusyIsVisible
  BY DEF Inv
<1> QED
  BY <1>1, Invariance, PTL

\* A drain that returns clean cuts no job short.
THEOREM CleanDrain == Spec => CleanDrainCutsNothing
<1>1. Inv => [Drained => raised' # "cancel" /\ cut' = cut]_vars
  BY DEF Inv, RunInv, BusyIsVisible, InJob, Drained, CancelConsumer, CancelInTry,
         CancelSwallowed, CancelOutsideTry, CancelTooLate, Escape, InTry, ctlVars,
         outVars
<1> QED
  BY <1>1, Invariance, PTL DEF Spec, CleanDrainCutsNothing

\* Through any number of lost connections, a consumer that handles no job shows none:
\* the current job and the idle flag never survive the job (consumer.py 616-625).
THEOREM NoPhantomJobEver == Spec => []NoPhantomJob
<1>1. Inv => NoPhantomJob
  BY DEF Inv, PhantomInv, NoPhantomJob
<1> QED
  BY <1>1, Invariance, PTL
=============================================================================
