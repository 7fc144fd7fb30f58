------------------------- MODULE ConsumerJobsProofs -------------------------
(***************************************************************************)
(* RedisConsumer implements JobLifecycle, for every set of messages and    *)
(* jobs and any number of faults and restarts: every step of the consumer, *)
(* the cloud or the lifespan is a step of JobLifecycle or leaves it alone. *)
(***************************************************************************)
EXTENDS ConsumerJobs, RedisConsumerProofs

-----------------------------------------------------------------------------
(***************************************************************************)
(* What one change of the stream does to the phase of a job.               *)
(***************************************************************************)
Held(q, j) == \E m \in Msgs \ BadFields : JobOf[m] = j /\ q[m] \in {"queued", "pending"}
Done(q, j) == \E m \in Msgs \ BadFields : JobOf[m] = j /\ q[m] = "acked"
PhaseIn(q, j) == IF Held(q, j) THEN "open" ELSE IF Done(q, j) THEN "closed" ELSE "new"

\* PhaseOf, in terms of the messages of the job.
LEMMA PhaseByMessages ==
    ASSUME NEW q, NEW j \in Jobs
    PROVE  PhaseOf({q[m] : m \in Carriers[j]}) = PhaseIn(q, j)
  <1>1. \A m : m \in Carriers[j] <=> m \in Msgs \ BadFields /\ JobOf[m] = j
    BY DEF Carriers
  <1>2. {q[m] : m \in Carriers[j]} \cap {"queued", "pending"} # {} <=> Held(q, j)
    BY <1>1 DEF Held
  <1>3. "acked" \in {q[m] : m \in Carriers[j]} <=> Done(q, j)
    BY <1>1 DEF Done
  <1> QED BY <1>2, <1>3 DEF PhaseOf, PhaseIn

\* The phase of every job before ...
LEMMA PhaseNow == JobPhase = [j \in Jobs |-> PhaseIn(mq, j)]
  BY PhaseByMessages DEF JobPhase

\* ... and after a step, by its messages.
LEMMA PhaseNext == JobPhase' = [j \in Jobs |-> PhaseIn(mq', j)]
  <1>1. JobPhase' = [j \in Jobs |-> PhaseOf({mq'[m] : m \in Carriers[j]})]
    BY DEF JobPhase
  <1> QED BY <1>1, PhaseByMessages

\* XADD opens a job that is not open, and changes nothing for one that is.
LEMMA EnqueuePhase ==
    ASSUME RedisTypeOK, NEW m \in Msgs, mq[m] = "absent", mq' = [mq EXCEPT ![m] = "queued"]
    PROVE  \/ JobPhase' = JobPhase
           \/ /\ JobPhase[JobOf[m]] # "open"
              /\ JobPhase' = [JobPhase EXCEPT ![JobOf[m]] = "open"]
  <1> DEFINE i == JobOf[m]
  <1> USE JobsAssumption DEF RedisTypeOK
  <1>1. \A j \in Jobs : j # i => PhaseIn(mq', j) = PhaseIn(mq, j)
    BY DEF PhaseIn, Held, Done
  <1>2. CASE m \in BadFields
    <2>1. PhaseIn(mq', i) = PhaseIn(mq, i)
      BY <1>2 DEF PhaseIn, Held, Done
    <2> QED BY <1>1, <2>1, PhaseNow, PhaseNext
  <1>3. CASE m \notin BadFields
    <2>1. PhaseIn(mq', i) = "open"
      BY <1>3 DEF PhaseIn, Held
    <2> QED BY <1>1, <2>1, PhaseNow, PhaseNext
  <1> QED BY <1>2, <1>3

\* The delivery of a message changes no phase.
LEMMA DeliverPhase ==
    ASSUME RedisTypeOK, NEW m \in Msgs, mq[m] = "queued", mq' = [mq EXCEPT ![m] = "pending"]
    PROVE  JobPhase' = JobPhase
  <1>1. \A j \in Jobs : PhaseIn(mq', j) = PhaseIn(mq, j)
    BY DEF PhaseIn, Held, Done, RedisTypeOK
  <1> QED BY <1>1, PhaseNow, PhaseNext

\* XACK closes the job if this was its last message, and changes nothing otherwise.
LEMMA AckPhase ==
    ASSUME RedisTypeOK, NEW m \in Msgs, mq[m] = "pending", mq' = [mq EXCEPT ![m] = "acked"]
    PROVE  \/ JobPhase' = JobPhase
           \/ /\ m \notin BadFields /\ JobPhase[JobOf[m]] = "open"
              /\ JobPhase' = [JobPhase EXCEPT ![JobOf[m]] = "closed"]
  <1> DEFINE i == JobOf[m]
  <1> USE JobsAssumption DEF RedisTypeOK
  <1>1. \A j \in Jobs : j # i => PhaseIn(mq', j) = PhaseIn(mq, j)
    BY DEF PhaseIn, Held, Done
  <1>2. CASE m \in BadFields
    <2>1. PhaseIn(mq', i) = PhaseIn(mq, i)
      BY <1>2 DEF PhaseIn, Held, Done
    <2> QED BY <1>1, <2>1, PhaseNow, PhaseNext
  <1>3. CASE m \notin BadFields
    <2>1. PhaseIn(mq, i) = "open" /\ PhaseIn(mq', i) \in {"open", "closed"}
      BY <1>3 DEF PhaseIn, Held, Done
    <2> QED BY <1>1, <1>3, <2>1, PhaseNow, PhaseNext
  <1> QED BY <1>2, <1>3

\* The job of the message in hand is open.
LEMMA JobInHandOpen ==
    ASSUME TypeOK, HandInv, pc \in InSkip \cup InJob, cur \notin BadFields
    PROVE  Job \in Jobs /\ JobPhase[Job] = "open"
  <1>1. cur \in Msgs /\ Job \in Jobs
    BY JobType DEF TypeOK
  <1>2. Held(mq, Job)
    BY <1>1 DEF HandInv, Held, Job
  <1> QED BY <1>1, <1>2, PhaseNow DEF PhaseIn

-----------------------------------------------------------------------------
(***************************************************************************)
(* The steps of the consumer as steps of JobLifecycle.                     *)
(***************************************************************************)
Allowed == [Promise!Next]_(Promise!jobVars)

\* Nothing the cloud sees has changed.
LEMMA Quiet ==
    ASSUME UNCHANGED <<mq, sent, cancelFlag, early, cut>>
    PROVE  Allowed
  <1>1. JobPhase' = JobPhase
    BY PhaseNow, PhaseNext
  <1> QED BY <1>1 DEF Allowed, Promise!jobVars

\* An XACK, applied or not, of a message that is skipped or that finally gives back:
\* its job is closed only if it is settled.
LEMMA AckAllowed ==
    ASSUME Inv, pc \in {"skipAck", "final"}, mq' \in {mq, [mq EXCEPT ![cur] = "acked"]},
           UNCHANGED <<sent, cancelFlag, early, cut>>
    PROVE  Allowed
  <1>1. CASE mq' = mq
    BY <1>1, Quiet
  <1>2. CASE mq' = [mq EXCEPT ![cur] = "acked"]
    <2>1. cur \in Msgs /\ Job \in Jobs /\ mq[cur] = "pending"
      BY JobType DEF Inv, TypeOK, HandInv, InSkip, InJob
    <2>2. CASE JobPhase' = JobPhase
      BY <2>2 DEF Allowed, Promise!jobVars
    <2>3. CASE /\ cur \notin BadFields /\ JobPhase[Job] = "open"
               /\ JobPhase' = [JobPhase EXCEPT ![Job] = "closed"]
      <3>1. sent[Job] # {} \/ Job \in cancelFlag \cup cut
        BY <2>3 DEF Inv, AckInv, Settled
      <3>2. Promise!Close(Job)
        BY <2>3, <3>1 DEF Promise!Close
      <3> QED BY <2>1, <3>2 DEF Allowed, Promise!Next
    <2> QED BY <1>2, <2>1, <2>2, <2>3, AckPhase DEF Inv, TypeOK, Job
  <1> QED BY <1>1, <1>2

\* An exception that leaves the handlers drops the job in hand, which is open.
LEMMA RaiseAllowed ==
    ASSUME Inv, pc \in InTry, NEW k, RaiseThroughFinally(k), UNCHANGED <<mq, cancelFlag>>
    PROVE  Allowed
  <1>1. Job \in Jobs /\ JobPhase[Job] = "open"
    BY JobInHandOpen DEF Inv, HandInv, InTry, InJob
  <1>2. JobPhase' = JobPhase
    BY PhaseNow, PhaseNext
  <1>3. Promise!Drop({Job})
    BY <1>1, <1>2 DEF Promise!Drop, RaiseThroughFinally
  <1> QED BY <1>1, <1>3 DEF Allowed, Promise!Next

\* A report is made of the job in hand, which is open and was not cancelled in time.
LEMMA ReportAllowed ==
    ASSUME Inv, pc \in {"post", "postErr"}, NEW r \in {"completed", "failed"}, Report(r),
           UNCHANGED <<mq, cancelFlag, early, cut>>
    PROVE  Allowed
  <1>1. Job \in Jobs /\ JobPhase[Job] = "open"
    BY JobInHandOpen DEF Inv, HandInv, InTry, InJob
  <1>2. JobPhase' = JobPhase
    BY PhaseNow, PhaseNext
  <1>3. Job \notin early
    <2>1. Working(Job)
      BY JobType DEF Inv, TypeOK, Working, Job, InJob, InTry
    <2> QED BY <2>1 DEF Inv, EarlyInv, PastLastCheck
  <1>4. Promise!Report(Job, r)
    BY <1>1, <1>2, <1>3 DEF Promise!Report, Report
  <1> QED BY <1>1, <1>4 DEF Allowed, Promise!Next

\* The cloud submits a job, or a further message of an open one.
LEMMA EnqueueAllowed == ASSUME Inv, Enqueue PROVE Allowed
  <1>1. PICK m \in Msgs : mq[m] = "absent" /\ mq' = [mq EXCEPT ![m] = "queued"]
    BY DEF Enqueue, Oldest, InState
  <1>2. CASE JobPhase' = JobPhase
    BY <1>2 DEF Allowed, Promise!jobVars, Enqueue, outVars
  <1>3. CASE /\ JobPhase[JobOf[m]] # "open"
             /\ JobPhase' = [JobPhase EXCEPT ![JobOf[m]] = "open"]
    <2>1. Promise!Submit(JobOf[m])
      BY <1>3 DEF Promise!Submit, Enqueue, outVars
    <2> QED BY <2>1, JobsAssumption DEF Allowed, Promise!Next
  <1> QED BY <1>1, <1>2, <1>3, EnqueuePhase DEF Inv, TypeOK

\* The cloud cancels a job, in time or too late.
LEMMA CancelAllowed == ASSUME Inv, NEW j \in Jobs, Cancel(j) PROVE Allowed
  <1>1. JobPhase' = JobPhase
    BY PhaseNow, PhaseNext DEF Cancel
  <1>2. (early' = early \cup {j} /\ sent[j] = {}) \/ early' = early
    BY DEF Cancel
  <1>3. Promise!CancelJob(j)
    BY <1>1, <1>2 DEF Promise!CancelJob, Cancel
  <1> QED BY <1>3 DEF Allowed, Promise!Next

\* XREADGROUP, with or without its answer, changes nothing the cloud sees.
LEMMA ReadAllowed == ASSUME Inv, ReadMessage \/ ReadFails PROVE Allowed
  <1>1. UNCHANGED <<sent, cancelFlag, early, cut>>
    BY DEF ReadMessage, ReadFails, outVars
  <1>2. CASE mq' = mq
    BY <1>1, <1>2, Quiet
  <1>3. CASE \E m \in Msgs : mq[m] = "queued" /\ mq' = [mq EXCEPT ![m] = "pending"]
    BY <1>1, <1>3, DeliverPhase DEF Inv, TypeOK, Allowed, Promise!jobVars
  <1> QED BY <1>2, <1>3 DEF ReadMessage, ReadFails, Oldest, InState

\* A crash drops the job in hand if Redis already calls it completed.
LEMMA CrashAllowed == ASSUME Inv, Crash PROVE Allowed
  <1>1. mq' = mq /\ UNCHANGED <<sent, cancelFlag, early>>
    BY DEF Crash, ProcessGone, redisVars
  <1>2. CASE CompletedInHand = {}
    BY <1>1, <1>2, Quiet DEF Crash
  <1>3. CASE CompletedInHand # {}
    <2>1. JobPhase' = JobPhase
      BY <1>1, PhaseNow, PhaseNext
    <2>2. \A j \in CompletedInHand : j = Job /\ pc \in InTry
      BY DEF CompletedInHand, Working, Job
    <2>3. \A j \in CompletedInHand : JobPhase[j] = "open"
      BY <2>2, JobInHandOpen DEF Inv, HandInv, InTry, InJob
    <2>4. Promise!Drop(CompletedInHand)
      BY <1>1, <1>3, <2>1, <2>3 DEF Promise!Drop, Crash
    <2> QED BY <2>4 DEF Allowed, Promise!Next, CompletedInHand
  <1> QED BY <1>2, <1>3

\* The cancel of the consumer task drops the job in hand, or may close the one whose
\* XACK was in flight, or changes nothing the cloud sees.
LEMMA CancelConsumerAllowed == ASSUME Inv, CancelConsumer PROVE Allowed
  <1>1. CASE CancelInTry
    BY <1>1, RaiseAllowed DEF CancelConsumer, CancelInTry
  <1>2. CASE CancelSwallowed \/ CancelTooLate
    BY <1>2, Quiet DEF CancelConsumer, CancelSwallowed, CancelTooLate, outVars
  <1>3. CASE CancelOutsideTry
    <2>1. UNCHANGED <<sent, cancelFlag, early, cut>>
      BY <1>3 DEF CancelConsumer, CancelOutsideTry, outVars
    <2>2. \/ mq' = mq
          \/ pc \in {"skipAck", "final"} /\ mq' = [mq EXCEPT ![cur] = "acked"]
      BY <1>3 DEF CancelOutsideTry
    <2> QED BY <2>1, <2>2, Quiet, AckAllowed
  <1> QED BY <1>1, <1>2, <1>3 DEF CancelConsumer

\* Every step is a step of JobLifecycle or changes nothing the cloud sees.
LEMMA StepAllowed == ASSUME Inv, [Next]_vars PROVE Allowed
  <1> USE DEF redisVars, outVars
  <1>1. CASE Setup \/ Scan \/ Fetch \/ ReadNothing \/ ReadRecheck \/ Wake
    BY <1>1, Quiet DEF Setup, Scan, Fetch, ReadNothing, ReadRecheck, Wake
  <1>2. CASE CheckStatus \/ CheckCancel \/ MarkSkip \/ Begin \/ RunDone \/ RunTimeout
             \/ Poll \/ Halt \/ CheckAfterRun \/ Complete \/ CheckBeforePost
    BY <1>2, Quiet DEF CheckStatus, CheckCancel, MarkSkip, Begin, RunDone, RunTimeout,
       Poll, Halt, CheckAfterRun, Complete, CheckBeforePost
  <1>3. CASE ReadMessage \/ ReadFails
    BY <1>3, ReadAllowed
  <1>4. CASE SkipAck \/ Finally
    BY <1>4, AckAllowed DEF SkipAck, Finally, SafeXack, XackRaises
  <1>5. CASE Post \/ PostError
    BY <1>5, ReportAllowed DEF Post, PostError
  <1>6. CASE HandleException \/ Fail \/ MarkCancelled
    <2>1. CASE \E k : RaiseThroughFinally(k)
      BY <1>6, <2>1, RaiseAllowed DEF HandleException, Fail, MarkCancelled, InTry
    <2>2. CASE ~\E k : RaiseThroughFinally(k)
      BY <1>6, <2>2, Quiet DEF HandleException, Fail, MarkCancelled
    <2> QED BY <2>1, <2>2
  <1>7. CASE Executor \/ Start \/ Stop \/ Exit
    BY <1>7, Quiet DEF Executor, RunEnds, ZombieEnds, Start, Stop, Exit, ProcessGone
  <1>8. CASE CancelConsumer
    BY <1>8, CancelConsumerAllowed
  <1>9. CASE Crash
    BY <1>9, CrashAllowed
  <1>10. CASE Enqueue
    BY <1>10, EnqueueAllowed
  <1>11. CASE \E j \in Jobs : Cancel(j)
    BY <1>11, CancelAllowed
  <1>12. CASE \E m \in Msgs : Trim(m)
    BY <1>12, Quiet DEF Trim
  <1>13. CASE UNCHANGED vars
    BY <1>13, Quiet DEF vars
  <1> QED
    BY <1>1, <1>2, <1>3, <1>4, <1>5, <1>6, <1>7, <1>8, <1>9, <1>10, <1>11, <1>12, <1>13
       DEF Next, ConsumerStep, ProcessMessage, Lifespan, Cloud, Drained, DrainTimeout

-----------------------------------------------------------------------------
\* The consumer keeps the node's promise to the cloud about its jobs: it reports a job
\* only between submission and close, never one cancelled in time, and closes it only
\* once it was reported, cancelled or dropped, whatever is redelivered, fails or crashes.
THEOREM ConsumerKeepsPromise == Spec => ImplementsJobLifecycle
  <1>1. Init => Promise!Init
    <2> SUFFICES ASSUME Init PROVE Promise!Init
      OBVIOUS
    <2>1. \A j \in Jobs : PhaseIn(mq, j) = "new"
      BY DEF Init, PhaseIn, Held, Done
    <2>2. JobPhase = [j \in Jobs |-> "new"]
      BY <2>1, PhaseNow
    <2> QED BY <2>2 DEF Init, Promise!Init
  <1>2. Inv /\ [Next]_vars => [Promise!Next]_(Promise!jobVars)
    BY StepAllowed DEF Allowed
  <1> QED BY <1>1, <1>2, Invariance, PTL DEF Spec, ImplementsJobLifecycle, Promise!Spec
=============================================================================
