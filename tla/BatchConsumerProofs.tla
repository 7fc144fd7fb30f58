------------------------ MODULE BatchConsumerProofs ------------------------
(***************************************************************************)
(* Proofs about the consumer's batch path for every set of messages and    *)
(* jobs, every read count and any number of faults and restarts.           *)
(*                                                                         *)
(* While the consume loop is on its one-message path it is the consumer of *)
(* RedisConsumer, whose step lemmas are reused; the steps of the batch, of *)
(* the concurrent deliveries and of the lifespan are treated here.         *)
(***************************************************************************)
EXTENDS BatchConsumer, ConsumerJobsProofs

-----------------------------------------------------------------------------
(***************************************************************************)
(* The strengthenings.                                                     *)
(***************************************************************************)
\* awaits of _process_batch for one message
InParse == {"bStatus", "bCancel", "bMark", "bAck"}
\* ... and the points of the loop and of _process_batch without one
InBatch == {"bNext", "bBegin", "bRun"} \cup InParse

\* The types of the consumer with a batch: a message is in hand also while the batch is
\* put together, and it is one of those just read; a batch that begins has a message.
BatchCtlOK ==
    /\ pc \in Points \cup InBatch \cup {"await"} /\ todo \subseteq Msgs
    /\ cur \in IF pc \in InSkip \cup InJob \cup InParse THEN Msgs ELSE {NoMsg}
    /\ pc \in InParse => cur \in got
    /\ pc \in {"bBegin", "bRun"} => parsed # {}
    /\ booting \in BOOLEAN /\ raised \in ErrorKinds \cup {"cancel", "none"}
    /\ redisHealthy \in BOOLEAN
BatchLifeOK ==
    /\ app \in {"off", "up", "drain", "join", "closed"}
    /\ app = "off" => pc = "off"
    /\ app = "closed" => pc = "exited"
    /\ running \in BOOLEAN /\ starts \in Nat /\ faults \in Nat
Types == /\ RedisTypeOK /\ BatchCtlOK /\ JobTypeOK /\ BatchLifeOK /\ OutTypeOK
         /\ BatchTypeOK

\* The loop takes on messages, one or a batch, only when no delivery is outstanding.
Taking == {"off", "setup", "scan", "fetch"} \cup InSkip \cup InJob \cup InBatch
WaitInv == pc \in Taking => pend = "none"

\* A job cancelled in time is not being posted by any delivery.
BatchEarlyInv ==
    /\ EarlyInv
    /\ \A m \in Msgs : dpc[m] = "post" => JobOf[m] \notin early

\* What AckInv says, on the batch path: with messages whose circuit does not
\* parse, which a batch acknowledges without a word, and with the deliveries: one that is
\* about to acknowledge has settled its job, and a job that Redis calls completed is settled
\* or still has a delivery that will report it, undo it or cut it short.
Tells == {"recheck", "post"}
BatchAckInv ==
    /\ \A m \in Msgs \ (BadFields \cup BadIR) : mq[m] = "acked" => Settled(JobOf[m])
    /\ pc = "final" => Settled(Job)
    /\ pc \in {"skipAck", "bAck"} => cur \in BadFields \cup BadIR \/ Settled(Job)
    /\ pc \in {"markSkip", "halt", "markCancel", "bMark"} => Job \in cancelFlag
    /\ \A j \in Jobs : status[j] = "cancelled" => j \in cancelFlag
    /\ \A j \in Jobs : status[j] = "completed" =>
          \/ Settled(j) \/ (Working(j) /\ pc \in InTry)
          \/ \E m \in Msgs : JobOf[m] = j /\ dpc[m] \in Tells
    /\ \A m \in Msgs : /\ dpc[m] = "mark" => JobOf[m] \in cancelFlag
                       /\ dpc[m] = "ack" => Settled(JobOf[m])

\* A message that was acknowledged already but is handled again, when a failed batch falls
\* back to one message at a time (442-443, 456-457), will not be run: its circuit or its
\* fields are bad, its job is cancelled, or its job is completed.
Excused(m) ==
    \/ m \in BadFields \cup BadIR \/ JobOf[m] \in cancelFlag
    \/ status[JobOf[m]] = "completed" /\ ~(Working(JobOf[m]) /\ pc \in InTry)
InHand(m) == mq[m] = "pending" \/ (mq[m] = "acked" /\ Excused(m))

\* What the loop holds: the message in hand, the messages still to come and the batch; and
\* a message with a delivery is pending and well-formed.
ListInv ==
    /\ \A m \in todo : InHand(m)
    /\ pc \in InSkip \cup InJob => cur \notin todo
    /\ pc \notin {"fetch"} \cup InSkip \cup InJob => todo = {}
OneInv ==
    /\ pc \in InSkip => InHand(cur) /\ (pc = "skipAck" \/ cur \notin BadFields)
    /\ pc \in InJob => /\ cur \notin BadFields
                       /\ mq[cur] = "pending" \/ (mq[cur] = "acked" /\ cur \in BadIR)
ParseInv ==
    /\ pc \in InBatch \cup {"await"} => \A m \in got : InHand(m)
    /\ pc \in {"bNext", "await"} \cup InParse =>
          rest \cap parsed = {} /\ \A m \in rest : mq[m] = "pending"
    /\ pc \in InParse => mq[cur] = "pending" /\ cur \notin rest \cup parsed
    /\ pc \in InParse \ {"bAck"} => cur \notin BadFields
    /\ pc = "bCancel" => status[Job] # "completed"
    /\ pc = "bAck" => Excused(cur)
ParsedInv ==
    /\ pc \in InBatch => \A m \in parsed : /\ mq[m] = "pending" /\ m \notin BadFields \cup BadIR
                                           /\ status[JobOf[m]] # "completed"
    /\ pc = "bBegin" => rest \subseteq parsed
    /\ pc = "await" => parsed = {} /\ \A m \in got : dpc[m] = "off" /\ mq[m] = "pending"
DeliveryInv ==
    \A m \in Msgs : dpc[m] # "off" => mq[m] = "pending" /\ m \notin BadFields \cup BadIR
BatchHandInv == ListInv /\ OneInv /\ ParseInv /\ ParsedInv /\ DeliveryInv

-----------------------------------------------------------------------------
(***************************************************************************)
(* The one-message path.                                                   *)
(***************************************************************************)
\* the steps of RedisConsumer that are steps of the batch consumer as they stand
OneMessage == Setup \/ Wake \/ ProcessMessage \/ Scan \/ Fetch \/ Start

\* On the one-message path the state is one of RedisConsumer.
LEMMA OneMessageState ==
    ASSUME Types, OneMessage
    PROVE  TypeOK /\ Next
  <1>1. pc \in Points /\ app # "closed"
    BY DEF OneMessage, Setup, Wake, ProcessMessage, Scan, Fetch, Start, CheckStatus, CheckCancel,
       MarkSkip, SkipAck, Begin, RunDone, RunTimeout, Poll, Halt, CheckAfterRun, Complete,
       CheckBeforePost, Post, HandleException, Fail, PostError, MarkCancelled, Finally, Types,
       BatchLifeOK, BatchCtlOK, Points, InSkip, InJob, InTry
  <1>2. CtlTypeOK /\ LifeTypeOK
    BY <1>1 DEF Types, BatchCtlOK, BatchLifeOK, CtlTypeOK, LifeTypeOK, Points, InSkip, InJob,
       InTry, InParse
  <1> QED BY <1>2 DEF Types, TypeOK, OneMessage, Next, ConsumerStep, Lifespan

\* A Redis failure is counted.
LEMMA FaultCount == ASSUME faults \in Nat, NEW k, Fault(k) PROVE faults' \in Nat
  BY DEF Fault

\* What the batch keeps of a step on the one-message path.
LEMMA OneMessageTypes ==
    ASSUME Types, OneMessage, UNCHANGED <<got, rest, parsed, pend, dpc>>,
           fallback' \in {fallback, FALSE}
    PROVE  Types'
  <1>1. TypeOK'
    BY OneMessageState, TypeStep
  <1>2. BatchTypeOK'
    BY DEF Types, BatchTypeOK, Active
  <1>3. BatchCtlOK' /\ BatchLifeOK'
    BY <1>1 DEF TypeOK, CtlTypeOK, LifeTypeOK, BatchCtlOK, BatchLifeOK, Points, InSkip, InJob,
       InTry, InParse
  <1> QED BY <1>1, <1>2, <1>3 DEF Types, TypeOK

-----------------------------------------------------------------------------
(***************************************************************************)
(* Types, and the wait for the delivery.                                   *)
(***************************************************************************)
\* Every step of the batch consumer keeps every variable in its type.
LEMMA BatchTypeStep ==
    ASSUME Types, [BatchNextState]_bvars
    PROVE  Types'
  <1> USE JobsAssumption DEF Types, redisVars, jobVars, lifeVars, outVars, ctlVars, batchVars, Job
  <1>1. CASE /\ OneMessage /\ UNCHANGED <<got, rest, parsed, pend, dpc>>
             /\ fallback' \in {fallback, FALSE}
    BY <1>1, OneMessageTypes
  <1>2. CASE BatchRead
    <2>1. RedisTypeOK' /\ OutTypeOK'
      BY <1>2 DEF RedisTypeOK, OutTypeOK, BatchCtlOK, InParse, InSkip, InJob, InTry, MsgStates,
         JobStates, BatchRead, AfterRead, Deal, Dispatch, LoopHead, Oldest, InState
    <2>2. JobTypeOK' /\ BatchLifeOK'
      BY <1>2 DEF JobTypeOK, BatchLifeOK, BatchRead, AfterRead, Deal, Dispatch, LoopHead, Oldest,
         InState
    <2>3. BatchCtlOK'
      BY <1>2 DEF BatchTypeOK, BatchCtlOK, Points, InJob, InTry, InSkip, InParse, InBatch, NoMsg,
         ErrorKinds, BatchRead, AfterRead, Deal, Dispatch, LoopHead, Oldest, InState
    <2>4. BatchTypeOK'
      BY <1>2 DEF BatchTypeOK, BatchCtlOK, InParse, Active, ErrorKinds, BatchRead, AfterRead,
         Deal, Dispatch, LoopHead, Oldest, InState
    <2> QED BY <2>1, <2>2, <2>3, <2>4
  <1>3. CASE BatchReadFails
    <2>1. RedisTypeOK' /\ OutTypeOK'
      BY <1>3 DEF RedisTypeOK, OutTypeOK, BatchCtlOK, InParse, InSkip, InJob, InTry, MsgStates,
         JobStates, BatchReadFails, Escape, Oldest, InState
    <2>2. JobTypeOK' /\ BatchLifeOK'
      BY <1>3, FaultCount DEF JobTypeOK, BatchLifeOK, BatchReadFails, Escape, Oldest, InState
    <2>3. BatchCtlOK'
      BY <1>3 DEF BatchTypeOK, BatchCtlOK, Points, InJob, InTry, InSkip, InParse, InBatch, NoMsg,
         ErrorKinds, BatchReadFails, Escape, Oldest, InState
    <2>4. BatchTypeOK'
      BY <1>3 DEF BatchTypeOK, BatchCtlOK, InParse, Active, ErrorKinds, BatchReadFails, Escape,
         Oldest, InState
    <2> QED BY <2>1, <2>2, <2>3, <2>4
  <1>4. CASE AwaitDelivery
    <2>1. RedisTypeOK' /\ OutTypeOK'
      BY <1>4 DEF RedisTypeOK, OutTypeOK, BatchCtlOK, InParse, InSkip, InJob, InTry, MsgStates,
         JobStates, AwaitDelivery, Deal, Dispatch, LoopHead, Escape
    <2>2. JobTypeOK' /\ BatchLifeOK'
      BY <1>4, FaultCount DEF JobTypeOK, BatchLifeOK, AwaitDelivery, Deal, Dispatch, LoopHead,
         Escape
    <2>3. BatchCtlOK'
      BY <1>4 DEF BatchTypeOK, BatchCtlOK, Points, InJob, InTry, InSkip, InParse, InBatch, NoMsg,
         ErrorKinds, AwaitDelivery, Deal, Dispatch, LoopHead, Escape
    <2>4. BatchTypeOK'
      BY <1>4 DEF BatchTypeOK, BatchCtlOK, InParse, Active, ErrorKinds, AwaitDelivery, Deal,
         Dispatch, LoopHead, Escape
    <2> QED BY <2>1, <2>2, <2>3, <2>4
  <1>5. CASE BatchNext
    <2>1. RedisTypeOK' /\ OutTypeOK'
      BY <1>5 DEF RedisTypeOK, OutTypeOK, BatchCtlOK, InParse, InSkip, InJob, InTry, MsgStates,
         JobStates, BatchNext, Oldest, LoopHead
    <2>2. JobTypeOK' /\ BatchLifeOK'
      BY <1>5 DEF JobTypeOK, BatchLifeOK, BatchNext, Oldest, LoopHead
    <2>3. BatchCtlOK'
      BY <1>5 DEF BatchTypeOK, BatchCtlOK, Points, InJob, InTry, InSkip, InParse, InBatch, NoMsg,
         ErrorKinds, BatchNext, Oldest, LoopHead
    <2>4. BatchTypeOK'
      BY <1>5 DEF BatchTypeOK, BatchCtlOK, InParse, Active, ErrorKinds, BatchNext, Oldest,
         LoopHead
    <2> QED BY <2>1, <2>2, <2>3, <2>4
  <1>6. CASE BatchStatus
    <2>1. RedisTypeOK' /\ OutTypeOK'
      BY <1>6 DEF RedisTypeOK, OutTypeOK, BatchCtlOK, InParse, InSkip, InJob, InTry, MsgStates,
         JobStates, BatchStatus, Goto, Escape
    <2>2. JobTypeOK' /\ BatchLifeOK'
      BY <1>6, FaultCount DEF JobTypeOK, BatchLifeOK, BatchStatus, Goto, Escape
    <2>3. BatchCtlOK'
      BY <1>6 DEF BatchTypeOK, BatchCtlOK, Points, InJob, InTry, InSkip, InParse, InBatch, NoMsg,
         ErrorKinds, BatchStatus, Goto, Escape
    <2>4. BatchTypeOK'
      BY <1>6 DEF BatchTypeOK, BatchCtlOK, InParse, Active, ErrorKinds, BatchStatus, Goto, Escape
    <2> QED BY <2>1, <2>2, <2>3, <2>4
  <1>7. CASE BatchCancel
    <2>1. RedisTypeOK' /\ OutTypeOK'
      BY <1>7 DEF RedisTypeOK, OutTypeOK, BatchCtlOK, InParse, InSkip, InJob, InTry, MsgStates,
         JobStates, BatchCancel, CancelSignal, NoCancelSignal, NextParse, Goto, Escape
    <2>2. JobTypeOK' /\ BatchLifeOK'
      BY <1>7, FaultCount DEF JobTypeOK, BatchLifeOK, BatchCancel, CancelSignal, NoCancelSignal,
         NextParse, Goto, Escape
    <2>3. BatchCtlOK'
      BY <1>7 DEF BatchTypeOK, BatchCtlOK, Points, InJob, InTry, InSkip, InParse, InBatch, NoMsg,
         ErrorKinds, BatchCancel, CancelSignal, NoCancelSignal, NextParse, Goto, Escape
    <2>4. BatchTypeOK'
      BY <1>7 DEF BatchTypeOK, BatchCtlOK, InParse, Active, ErrorKinds, BatchCancel,
         CancelSignal, NoCancelSignal, NextParse, Goto, Escape
    <2> QED BY <2>1, <2>2, <2>3, <2>4
  <1>8. CASE BatchMark
    BY <1>8, FaultCount DEF RedisTypeOK, OutTypeOK, JobTypeOK, BatchLifeOK, BatchTypeOK, Active,
       MsgStates, JobStates, BatchCtlOK, Points, InJob, InTry, InSkip, InParse, InBatch, NoMsg,
       ErrorKinds, BatchMark, SafeHset, HsetRaises, Goto, Escape
  <1>9. CASE BatchAck
    BY <1>9, FaultCount DEF RedisTypeOK, OutTypeOK, JobTypeOK, BatchLifeOK, BatchTypeOK, Active,
       MsgStates, JobStates, BatchCtlOK, Points, InJob, InTry, InSkip, InParse, InBatch, NoMsg,
       ErrorKinds, BatchAck, SafeXack, XackRaises, NextParse, Escape
  <1>10. CASE BatchBegin
    BY <1>10, FaultCount DEF RedisTypeOK, OutTypeOK, JobTypeOK, BatchLifeOK, BatchTypeOK, Active,
       MsgStates, JobStates, BatchCtlOK, Points, InJob, InTry, InSkip, InParse, InBatch, NoMsg,
       ErrorKinds, BatchBegin, SafeHset, HsetRaises, Goto, Escape, Oldest
  <1>11. CASE BatchDone
    <2>1. RedisTypeOK' /\ OutTypeOK'
      BY <1>11 DEF RedisTypeOK, OutTypeOK, BatchCtlOK, InParse, InSkip, InJob, InTry, MsgStates,
         JobStates, BatchDone, Goto, LoopHead
    <2>2. JobTypeOK' /\ BatchLifeOK'
      BY <1>11 DEF JobTypeOK, BatchLifeOK, BatchDone, Goto, LoopHead
    <2>3. BatchCtlOK'
      BY <1>11 DEF BatchTypeOK, BatchCtlOK, Points, InJob, InTry, InSkip, InParse, InBatch,
         NoMsg, ErrorKinds, BatchDone, Goto, LoopHead
    <2>4. BatchTypeOK'
      BY <1>11 DEF BatchTypeOK, BatchCtlOK, InParse, Active, ErrorKinds, BatchDone, Goto,
         LoopHead
    <2> QED BY <2>1, <2>2, <2>3, <2>4
  <1>12. CASE BatchFails
    BY <1>12 DEF RedisTypeOK, OutTypeOK, JobTypeOK, BatchLifeOK, BatchTypeOK, Active, MsgStates,
       JobStates, BatchCtlOK, Points, InJob, InTry, InSkip, InParse, InBatch, NoMsg, ErrorKinds,
       BatchFails
  <1>13. CASE FallbackNext
    BY <1>13 DEF RedisTypeOK, OutTypeOK, JobTypeOK, BatchLifeOK, BatchTypeOK, Active, MsgStates,
       JobStates, BatchCtlOK, Points, InJob, InTry, InSkip, InParse, InBatch, NoMsg, ErrorKinds,
       FallbackNext, Oldest, Dispatch
  <1>14. ASSUME NEW m \in Msgs, DeliveryCheck(m) \/ DeliveryRecheck(m) PROVE Types'
    <2>1. RedisTypeOK' /\ OutTypeOK'
      BY <1>14 DEF RedisTypeOK, OutTypeOK, BatchCtlOK, InParse, InSkip, InJob, InTry, MsgStates,
         JobStates, DeliveryCheck, DeliveryRecheck, DeliveryChecks, CancelSignal, NoCancelSignal,
         Deliver, DeliveryRaises
    <2>2. JobTypeOK' /\ BatchLifeOK'
      BY <1>14, FaultCount DEF JobTypeOK, BatchLifeOK, DeliveryCheck, DeliveryRecheck,
         DeliveryChecks, CancelSignal, NoCancelSignal, Deliver, DeliveryRaises
    <2>3. BatchCtlOK'
      BY <1>14 DEF BatchTypeOK, BatchCtlOK, Points, InJob, InTry, InSkip, InParse, InBatch,
         NoMsg, ErrorKinds, DeliveryCheck, DeliveryRecheck, DeliveryChecks, CancelSignal,
         NoCancelSignal, Deliver, DeliveryRaises
    <2>4. BatchTypeOK'
      BY <1>14 DEF BatchTypeOK, BatchCtlOK, InParse, Active, ErrorKinds, DeliveryCheck,
         DeliveryRecheck, DeliveryChecks, CancelSignal, NoCancelSignal, Deliver, DeliveryRaises
    <2> QED BY <2>1, <2>2, <2>3, <2>4
  <1>15. ASSUME NEW m \in Msgs, DeliveryComplete(m) \/ DeliveryMark(m) PROVE Types'
    <2>1. RedisTypeOK' /\ OutTypeOK'
      BY <1>15 DEF RedisTypeOK, OutTypeOK, BatchCtlOK, InParse, InSkip, InJob, InTry, MsgStates,
         JobStates, DeliveryComplete, DeliveryMark, DeliveryWrites, SafeHset, HsetRaises,
         Deliver, DeliveryRaises
    <2>2. JobTypeOK' /\ BatchLifeOK'
      BY <1>15, FaultCount DEF JobTypeOK, BatchLifeOK, DeliveryComplete, DeliveryMark,
         DeliveryWrites, SafeHset, HsetRaises, Deliver, DeliveryRaises
    <2>3. BatchCtlOK'
      BY <1>15 DEF BatchTypeOK, BatchCtlOK, Points, InJob, InTry, InSkip, InParse, InBatch,
         NoMsg, ErrorKinds, DeliveryComplete, DeliveryMark, DeliveryWrites, SafeHset, HsetRaises,
         Deliver, DeliveryRaises
    <2>4. BatchTypeOK'
      BY <1>15 DEF BatchTypeOK, BatchCtlOK, InParse, Active, ErrorKinds, DeliveryComplete,
         DeliveryMark, DeliveryWrites, SafeHset, HsetRaises, Deliver, DeliveryRaises
    <2> QED BY <2>1, <2>2, <2>3, <2>4
  <1>16. ASSUME NEW m \in Msgs, DeliveryPost(m) PROVE Types'
    <2>1. RedisTypeOK' /\ OutTypeOK'
      BY <1>16 DEF RedisTypeOK, OutTypeOK, BatchCtlOK, InParse, InSkip, InJob, InTry, MsgStates,
         JobStates, DeliveryPost, Deliver
    <2>2. JobTypeOK' /\ BatchLifeOK'
      BY <1>16 DEF JobTypeOK, BatchLifeOK, DeliveryPost, Deliver
    <2>3. BatchCtlOK'
      BY <1>16 DEF BatchTypeOK, BatchCtlOK, Points, InJob, InTry, InSkip, InParse, InBatch,
         NoMsg, ErrorKinds, DeliveryPost, Deliver
    <2>4. BatchTypeOK'
      BY <1>16 DEF BatchTypeOK, BatchCtlOK, InParse, Active, ErrorKinds, DeliveryPost, Deliver
    <2> QED BY <2>1, <2>2, <2>3, <2>4
  <1>17. ASSUME NEW m \in Msgs, DeliveryAck(m) PROVE Types'
    <2>1. RedisTypeOK' /\ OutTypeOK'
      BY <1>17 DEF RedisTypeOK, OutTypeOK, BatchCtlOK, InParse, InSkip, InJob, InTry, MsgStates,
         JobStates, DeliveryAck, SafeXack, XackRaises, DeliveryEnds, Deliver, DeliveryRaises
    <2>2. JobTypeOK' /\ BatchLifeOK'
      BY <1>17, FaultCount DEF JobTypeOK, BatchLifeOK, DeliveryAck, SafeXack, XackRaises,
         DeliveryEnds, Deliver, DeliveryRaises
    <2>3. BatchCtlOK'
      BY <1>17 DEF BatchTypeOK, BatchCtlOK, Points, InJob, InTry, InSkip, InParse, InBatch,
         NoMsg, ErrorKinds, DeliveryAck, SafeXack, XackRaises, DeliveryEnds, Deliver,
         DeliveryRaises
    <2>4. BatchTypeOK'
      BY <1>17 DEF BatchTypeOK, BatchCtlOK, InParse, Active, ErrorKinds, DeliveryAck, SafeXack,
         XackRaises, DeliveryEnds, Deliver, DeliveryRaises
    <2> QED BY <2>1, <2>2, <2>3, <2>4
  <1>18. CASE Stop /\ UNCHANGED batchVars
    <2>1. RedisTypeOK' /\ OutTypeOK'
      BY <1>18 DEF RedisTypeOK, OutTypeOK, BatchCtlOK, InParse, InSkip, InJob, InTry, MsgStates,
         JobStates, Stop
    <2>2. JobTypeOK' /\ BatchLifeOK'
      BY <1>18 DEF JobTypeOK, BatchLifeOK, Stop
    <2>3. BatchCtlOK'
      BY <1>18 DEF BatchTypeOK, BatchCtlOK, Points, InJob, InTry, InSkip, InParse, InBatch,
         NoMsg, ErrorKinds, Stop
    <2>4. BatchTypeOK'
      BY <1>18 DEF BatchTypeOK, BatchCtlOK, InParse, Active, ErrorKinds, Stop
    <2> QED BY <2>1, <2>2, <2>3, <2>4
  <1>19. CASE BatchDrained \/ (DrainTimeout /\ UNCHANGED batchVars)
    <2>1. RedisTypeOK' /\ OutTypeOK'
      BY <1>19 DEF RedisTypeOK, OutTypeOK, BatchCtlOK, InParse, InSkip, InJob, InTry, MsgStates,
         JobStates, BatchDrained, Drained, DrainTimeout, CancelConsumer, CancelInTry,
         CancelSwallowed, CancelOutsideTry, CancelTooLate, AbandonRun, RaiseThroughFinally, Goto,
         Escape
    <2>2. JobTypeOK' /\ BatchLifeOK'
      BY <1>19 DEF JobTypeOK, BatchLifeOK, BatchDrained, Drained, DrainTimeout, CancelConsumer,
         CancelInTry, CancelSwallowed, CancelOutsideTry, CancelTooLate, AbandonRun,
         RaiseThroughFinally, Goto, Escape
    <2>3. BatchCtlOK'
      <3>0. CancelConsumer /\ UNCHANGED <<got, rest, parsed>>
        BY <1>19 DEF BatchDrained, Drained, DrainTimeout
      <3>1. CASE CancelInTry
        BY <3>0, <3>1 DEF BatchCtlOK, Points, InJob, InTry, InSkip, InParse, InBatch, NoMsg,
           ErrorKinds, CancelInTry, RaiseThroughFinally
      <3>2. CASE CancelSwallowed
        BY <3>0, <3>2 DEF BatchCtlOK, Points, InJob, InTry, InSkip, InParse, InBatch, NoMsg,
           ErrorKinds, CancelSwallowed, Goto
      <3>3. CASE CancelOutsideTry
        BY <3>0, <3>3 DEF BatchCtlOK, Points, InJob, InTry, InSkip, InParse, InBatch, NoMsg,
           ErrorKinds, CancelOutsideTry, Escape
      <3>4. CASE CancelTooLate
        BY <3>0, <3>4 DEF BatchCtlOK, Points, InJob, InTry, InSkip, InParse, InBatch, NoMsg,
           ErrorKinds, CancelTooLate
      <3> QED BY <3>0, <3>1, <3>2, <3>3, <3>4 DEF CancelConsumer
    <2>4. BatchTypeOK'
      BY <1>19 DEF BatchTypeOK, BatchCtlOK, InParse, Active, ErrorKinds, BatchDrained, Drained,
         DrainTimeout, CancelConsumer, CancelInTry, CancelSwallowed, CancelOutsideTry,
         CancelTooLate, AbandonRun, RaiseThroughFinally, Goto, Escape
    <2> QED BY <2>1, <2>2, <2>3, <2>4
  <1>20. CASE DrainRaises \/ BatchExit \/ BatchCrash
    <2>1. RedisTypeOK' /\ OutTypeOK'
      BY <1>20 DEF RedisTypeOK, OutTypeOK, BatchCtlOK, InParse, InSkip, InJob, InTry, MsgStates,
         JobStates, DrainRaises, BatchExit, BatchCrash, ProcessGone, Fresh, NoBatch, Orphaned,
         CompletedInHand
    <2>2. JobTypeOK' /\ BatchLifeOK'
      BY <1>20 DEF JobTypeOK, BatchLifeOK, DrainRaises, BatchExit, BatchCrash, ProcessGone,
         Fresh, NoBatch, Orphaned, CompletedInHand
    <2>3. BatchCtlOK'
      BY <1>20 DEF BatchTypeOK, BatchCtlOK, Points, InJob, InTry, InSkip, InParse, InBatch,
         NoMsg, ErrorKinds, DrainRaises, BatchExit, BatchCrash, ProcessGone, Fresh, NoBatch,
         Orphaned, CompletedInHand
    <2>4. BatchTypeOK'
      BY <1>20 DEF BatchTypeOK, BatchCtlOK, InParse, Active, ErrorKinds, DrainRaises, BatchExit,
         BatchCrash, ProcessGone, Fresh, NoBatch, Orphaned, CompletedInHand
    <2> QED BY <2>1, <2>2, <2>3, <2>4
  <1>21. CASE pc = "await" /\ BatchDrainTimeout
    <2>1. RedisTypeOK' /\ OutTypeOK'
      BY <1>21 DEF RedisTypeOK, OutTypeOK, BatchCtlOK, InParse, InSkip, InJob, InTry, MsgStates,
         JobStates, BatchDrainTimeout, Escape, Orphaned
    <2>2. JobTypeOK' /\ BatchLifeOK'
      BY <1>21, FaultCount DEF JobTypeOK, BatchLifeOK, BatchDrainTimeout, Escape, Orphaned
    <2>3. BatchCtlOK'
      BY <1>21 DEF BatchTypeOK, BatchCtlOK, Points, InJob, InTry, InSkip, InParse, InBatch,
         NoMsg, ErrorKinds, BatchDrainTimeout, Escape, Orphaned
    <2>4. BatchTypeOK'
      BY <1>21 DEF BatchTypeOK, BatchCtlOK, InParse, Active, ErrorKinds, BatchDrainTimeout,
         Escape, Orphaned
    <2> QED BY <2>1, <2>2, <2>3, <2>4
  <1>22. CASE CloseClients
    BY <1>22 DEF RedisTypeOK, OutTypeOK, JobTypeOK, BatchLifeOK, BatchTypeOK, Active, MsgStates,
       JobStates, BatchCtlOK, Points, InJob, InTry, InSkip, InParse, InBatch, NoMsg, ErrorKinds,
       CloseClients
  <1>23. CASE (Executor \/ Enqueue) /\ UNCHANGED batchVars
    <2>1. RedisTypeOK' /\ OutTypeOK'
      BY <1>23 DEF RedisTypeOK, OutTypeOK, BatchCtlOK, InParse, InSkip, InJob, InTry, MsgStates,
         JobStates, Executor, RunEnds, ZombieEnds, Enqueue, Oldest, InState
    <2>2. JobTypeOK' /\ BatchLifeOK'
      BY <1>23 DEF JobTypeOK, BatchLifeOK, Executor, RunEnds, ZombieEnds, Enqueue, Oldest,
         InState
    <2>3. BatchCtlOK'
      BY <1>23 DEF BatchTypeOK, BatchCtlOK, Points, InJob, InTry, InSkip, InParse, InBatch,
         NoMsg, ErrorKinds, Executor, RunEnds, ZombieEnds, Enqueue, Oldest, InState
    <2>4. BatchTypeOK'
      BY <1>23 DEF BatchTypeOK, BatchCtlOK, InParse, Active, ErrorKinds, Executor, RunEnds,
         ZombieEnds, Enqueue, Oldest, InState
    <2> QED BY <2>1, <2>2, <2>3, <2>4
  <1>24. ASSUME NEW j \in Jobs, BatchCancelFlag(j) PROVE Types'
    BY <1>24 DEF RedisTypeOK, OutTypeOK, JobTypeOK, BatchLifeOK, BatchTypeOK, Active, MsgStates,
       JobStates, BatchCtlOK, Points, InJob, InTry, InSkip, InParse, InBatch, NoMsg, ErrorKinds,
       BatchCancelFlag
  <1>25. CASE UNCHANGED bvars
    BY <1>25 DEF RedisTypeOK, OutTypeOK, JobTypeOK, BatchLifeOK, BatchTypeOK, Active, MsgStates,
       JobStates, BatchCtlOK, Points, InJob, InTry, InSkip, InParse, InBatch, NoMsg, ErrorKinds,
       bvars, vars
  <1> QED
    BY <1>1, <1>2, <1>3, <1>4, <1>5, <1>6, <1>7, <1>8, <1>9, <1>10, <1>11, <1>12, <1>13, <1>14,
       <1>15, <1>16, <1>17, <1>18, <1>19, <1>20, <1>21, <1>22, <1>23, <1>24, <1>25
    DEF BatchNextState, BatchConsumerStep, OneMessage, DeliveryStep, BatchLifespan,
       BatchDrainTimeout, BatchEnvironment

\* The loop comes back to work only through the read, which waits for the delivery.
LEMMA WaitStep ==
    ASSUME Types, WaitInv, [BatchNextState]_bvars
    PROVE  WaitInv'
  <1> USE DEF WaitInv, Taking, InJob, InTry, InSkip, InParse, InBatch, redisVars, jobVars, lifeVars,
          outVars, ctlVars, batchVars
  <1>1. CASE /\ OneMessage /\ UNCHANGED <<got, rest, parsed, pend, dpc>>
             /\ fallback' \in {fallback, FALSE}
    BY <1>1 DEF OneMessage, Setup, Wake, Goto, LoopHead, Scan, Fetch, Start, ProcessMessage,
       CheckStatus, CheckCancel, MarkSkip, SkipAck, Begin, RunDone, RunTimeout, Poll, Halt,
       CheckAfterRun, Complete, CheckBeforePost, Post, HandleException, Fail, PostError,
       MarkCancelled, Finally, Types, BatchLifeOK
  <1>2. CASE BatchRead
    BY <1>2 DEF BatchRead, AfterRead, Deal, Dispatch, LoopHead, Oldest, InState
  <1>3. CASE BatchReadFails
    BY <1>3 DEF BatchReadFails, Escape, Oldest, InState
  <1>4. CASE AwaitDelivery
    BY <1>4 DEF AwaitDelivery, Deal, Dispatch, LoopHead, Escape
  <1>5. CASE BatchNext
    BY <1>5 DEF BatchNext, Oldest, LoopHead
  <1>6. CASE BatchStatus
    BY <1>6 DEF BatchStatus, Goto, Escape
  <1>7. CASE BatchCancel
    BY <1>7 DEF BatchCancel, CancelSignal, NoCancelSignal, NextParse, Goto, Escape
  <1>8. CASE BatchMark
    BY <1>8 DEF BatchMark, SafeHset, HsetRaises, Goto, Escape
  <1>9. CASE BatchAck
    BY <1>9 DEF BatchAck, SafeXack, XackRaises, NextParse, Escape
  <1>10. CASE BatchBegin
    BY <1>10 DEF BatchBegin, SafeHset, HsetRaises, Goto, Escape, Oldest
  <1>11. CASE BatchDone
    BY <1>11 DEF BatchDone, Goto, LoopHead
  <1>12. CASE BatchFails
    BY <1>12 DEF BatchFails
  <1>13. CASE FallbackNext
    BY <1>13 DEF FallbackNext, Oldest, Dispatch
  <1>14. ASSUME NEW m \in Msgs, DeliveryCheck(m) \/ DeliveryRecheck(m) PROVE WaitInv'
    BY <1>14 DEF DeliveryCheck, DeliveryRecheck, DeliveryChecks, CancelSignal, NoCancelSignal,
       Deliver, DeliveryRaises
  <1>15. ASSUME NEW m \in Msgs, DeliveryComplete(m) \/ DeliveryMark(m) PROVE WaitInv'
    BY <1>15 DEF DeliveryComplete, DeliveryMark, DeliveryWrites, SafeHset, HsetRaises, Deliver,
       DeliveryRaises
  <1>16. ASSUME NEW m \in Msgs, DeliveryPost(m) PROVE WaitInv'
    BY <1>16 DEF DeliveryPost, Deliver
  <1>17. ASSUME NEW m \in Msgs, DeliveryAck(m) PROVE WaitInv'
    BY <1>17 DEF DeliveryAck, SafeXack, XackRaises, DeliveryEnds, Deliver, DeliveryRaises
  <1>18. CASE Stop /\ UNCHANGED batchVars
    BY <1>18 DEF Stop
  <1>19. CASE BatchDrained \/ (DrainTimeout /\ UNCHANGED batchVars)
    <2>0. CancelConsumer /\ UNCHANGED <<got, rest, parsed, dpc>> /\ pend' \in {pend, "none"}
      BY <1>19 DEF BatchDrained, Drained, DrainTimeout
    <2>1. CASE CancelInTry
      BY <2>0, <2>1 DEF CancelConsumer, CancelInTry, RaiseThroughFinally, AbandonRun
    <2>2. CASE CancelSwallowed
      BY <2>0, <2>2 DEF CancelConsumer, CancelSwallowed, Goto
    <2>3. CASE CancelOutsideTry
      BY <2>0, <2>3 DEF CancelConsumer, CancelOutsideTry, Escape
    <2>4. CASE CancelTooLate
      BY <2>0, <2>4 DEF CancelConsumer, CancelTooLate
    <2> QED BY <2>0, <2>1, <2>2, <2>3, <2>4 DEF CancelConsumer
  <1>20. CASE DrainRaises \/ BatchExit \/ BatchCrash
    BY <1>20 DEF DrainRaises, BatchExit, BatchCrash, ProcessGone, Fresh, NoBatch, Orphaned,
       CompletedInHand
  <1>21. CASE pc = "await" /\ BatchDrainTimeout
    BY <1>21 DEF BatchDrainTimeout, Escape, Orphaned
  <1>22. CASE CloseClients
    BY <1>22 DEF CloseClients
  <1>23. CASE (Executor \/ Enqueue) /\ UNCHANGED batchVars
    BY <1>23 DEF Executor, RunEnds, ZombieEnds, Enqueue, Oldest, InState
  <1>24. ASSUME NEW j \in Jobs, BatchCancelFlag(j) PROVE WaitInv'
    BY <1>24 DEF BatchCancelFlag
  <1>25. CASE UNCHANGED bvars
    BY <1>25 DEF bvars, vars
  <1> QED
    BY <1>1, <1>2, <1>3, <1>4, <1>5, <1>6, <1>7, <1>8, <1>9, <1>10, <1>11, <1>12, <1>13, <1>14,
       <1>15, <1>16, <1>17, <1>18, <1>19, <1>20, <1>21, <1>22, <1>23, <1>24, <1>25
    DEF BatchNextState, BatchConsumerStep, OneMessage, DeliveryStep, BatchLifespan,
       BatchDrainTimeout, BatchEnvironment

\* While a delivery runs the loop has taken on nothing.
LEMMA Delivering ==
    ASSUME Types, WaitInv, NEW m \in Msgs, dpc[m] # "off"
    PROVE  pc \notin Taking /\ pend \notin {"none", "ok"}
  BY DEF Types, BatchTypeOK, Active, WaitInv

\* No delivery writes a status while a job is handled, so what CheckStatus saw stays true.
LEMMA BatchRunStep ==
    ASSUME Types, WaitInv, RunInv, [BatchNextState]_bvars
    PROVE  RunInv'
  <1> USE JobsAssumption
      DEF WaitInv, Taking, InJob, InTry, InSkip, InParse, InBatch, redisVars, jobVars, lifeVars,
          outVars, ctlVars, batchVars, Types, RedisTypeOK, BatchCtlOK, Points, RunInv, Unsettled,
          Job
  <1>1. CASE /\ OneMessage /\ UNCHANGED <<got, rest, parsed, pend, dpc>>
             /\ fallback' \in {fallback, FALSE}
    BY <1>1, OneMessageState, RunStep
  <1>2. CASE BatchRead
    BY <1>2 DEF BatchRead, AfterRead, Deal, Dispatch, LoopHead, Oldest, InState
  <1>3. CASE BatchReadFails
    BY <1>3 DEF BatchReadFails, Escape, Oldest, InState
  <1>4. CASE AwaitDelivery
    BY <1>4 DEF AwaitDelivery, Deal, Dispatch, LoopHead, Escape
  <1>5. CASE BatchNext
    BY <1>5 DEF BatchNext, Oldest, LoopHead
  <1>6. CASE BatchStatus
    BY <1>6 DEF BatchStatus, Goto, Escape
  <1>7. CASE BatchCancel
    BY <1>7 DEF BatchCancel, CancelSignal, NoCancelSignal, NextParse, Goto, Escape
  <1>8. CASE BatchMark
    BY <1>8 DEF BatchMark, SafeHset, HsetRaises, Goto, Escape
  <1>9. CASE BatchAck
    BY <1>9 DEF BatchAck, SafeXack, XackRaises, NextParse, Escape
  <1>10. CASE BatchBegin
    BY <1>10 DEF BatchBegin, SafeHset, HsetRaises, Goto, Escape, Oldest
  <1>11. CASE BatchDone
    BY <1>11 DEF BatchDone, Goto, LoopHead
  <1>12. CASE BatchFails
    BY <1>12 DEF BatchFails
  <1>13. CASE FallbackNext
    BY <1>13 DEF FallbackNext, Oldest, Dispatch
  <1>14. ASSUME NEW m \in Msgs, DeliveryCheck(m) \/ DeliveryRecheck(m) PROVE RunInv'
    BY <1>14 DEF DeliveryCheck, DeliveryRecheck, DeliveryChecks, CancelSignal, NoCancelSignal,
       Deliver, DeliveryRaises
  <1>15. ASSUME NEW m \in Msgs, DeliveryComplete(m) \/ DeliveryMark(m) PROVE RunInv'
    <2>1. pc \notin Taking
      BY <1>15, Delivering DEF DeliveryComplete, DeliveryMark
    <2>2. UNCHANGED <<pc, raised, exec>>
      BY <1>15 DEF DeliveryComplete, DeliveryMark, DeliveryWrites
    <2> QED BY <2>1, <2>2
  <1>16. ASSUME NEW m \in Msgs, DeliveryPost(m) PROVE RunInv'
    BY <1>16 DEF DeliveryPost, Deliver
  <1>17. ASSUME NEW m \in Msgs, DeliveryAck(m) PROVE RunInv'
    BY <1>17 DEF DeliveryAck, SafeXack, XackRaises, DeliveryEnds, Deliver, DeliveryRaises
  <1>18. CASE Stop /\ UNCHANGED batchVars
    BY <1>18 DEF Stop
  <1>19. CASE BatchDrained \/ (DrainTimeout /\ UNCHANGED batchVars)
    <2>0. CancelConsumer /\ UNCHANGED <<got, rest, parsed, dpc>> /\ pend' \in {pend, "none"}
      BY <1>19 DEF BatchDrained, Drained, DrainTimeout
    <2>1. CASE CancelInTry
      BY <2>0, <2>1 DEF CancelConsumer, CancelInTry, RaiseThroughFinally, AbandonRun
    <2>2. CASE CancelSwallowed
      BY <2>0, <2>2 DEF CancelConsumer, CancelSwallowed, Goto
    <2>3. CASE CancelOutsideTry
      BY <2>0, <2>3 DEF CancelConsumer, CancelOutsideTry, Escape
    <2>4. CASE CancelTooLate
      BY <2>0, <2>4 DEF CancelConsumer, CancelTooLate
    <2> QED BY <2>0, <2>1, <2>2, <2>3, <2>4 DEF CancelConsumer
  <1>20. CASE DrainRaises \/ BatchExit \/ BatchCrash
    BY <1>20 DEF DrainRaises, BatchExit, BatchCrash, ProcessGone, Fresh, NoBatch, Orphaned,
       CompletedInHand
  <1>21. CASE pc = "await" /\ BatchDrainTimeout
    BY <1>21 DEF BatchDrainTimeout, Escape, Orphaned
  <1>22. CASE CloseClients
    BY <1>22 DEF CloseClients
  <1>23. CASE (Executor \/ Enqueue) /\ UNCHANGED batchVars
    BY <1>23 DEF Executor, RunEnds, ZombieEnds, Enqueue, Oldest, InState
  <1>24. ASSUME NEW j \in Jobs, BatchCancelFlag(j) PROVE RunInv'
    BY <1>24 DEF BatchCancelFlag
  <1>25. CASE UNCHANGED bvars
    BY <1>25 DEF bvars, vars
  <1> QED
    BY <1>1, <1>2, <1>3, <1>4, <1>5, <1>6, <1>7, <1>8, <1>9, <1>10, <1>11, <1>12, <1>13, <1>14,
       <1>15, <1>16, <1>17, <1>18, <1>19, <1>20, <1>21, <1>22, <1>23, <1>24, <1>25
    DEF BatchNextState, BatchConsumerStep, OneMessage, DeliveryStep, BatchLifespan,
       BatchDrainTimeout, BatchEnvironment

\* A delivery comes to its post only past a cancel check of the job.
LEMMA BatchEarlyStep ==
    ASSUME Types, BatchEarlyInv, [BatchNextState]_bvars
    PROVE  BatchEarlyInv'
  <1> USE JobsAssumption
      DEF InJob, InTry, InSkip, InParse, InBatch, redisVars, jobVars, lifeVars, outVars, ctlVars,
          batchVars, Types, RedisTypeOK, OutTypeOK, BatchCtlOK, BatchTypeOK, Points, NoMsg,
          BatchEarlyInv, EarlyInv, PastLastCheck, Working
  <1>1. CASE /\ OneMessage /\ UNCHANGED <<got, rest, parsed, pend, dpc>>
             /\ fallback' \in {fallback, FALSE}
    <2>1. EarlyInv'
      BY <1>1, OneMessageState, EarlyStep
    <2>2. early' = early
      BY <1>1 DEF OneMessage, Setup, Wake, Scan, Fetch, Start, ProcessMessage, CheckStatus,
         CheckCancel, MarkSkip, SkipAck, Begin, RunDone, RunTimeout, Poll, Halt, CheckAfterRun,
         Complete, CheckBeforePost, Post, HandleException, Fail, PostError, MarkCancelled,
         Finally, RaiseThroughFinally
    <2> QED BY <1>1, <2>1, <2>2
  <1>2. CASE BatchRead
    BY <1>2 DEF BatchRead, AfterRead, Deal, Dispatch, LoopHead, Oldest, InState
  <1>3. CASE BatchReadFails
    BY <1>3 DEF BatchReadFails, Escape, Oldest, InState
  <1>4. CASE AwaitDelivery
    BY <1>4 DEF AwaitDelivery, Deal, Dispatch, LoopHead, Escape
  <1>5. CASE BatchNext
    BY <1>5 DEF BatchNext, Oldest, LoopHead
  <1>6. CASE BatchStatus
    BY <1>6 DEF BatchStatus, Goto, Escape
  <1>7. CASE BatchCancel
    BY <1>7 DEF BatchCancel, CancelSignal, NoCancelSignal, NextParse, Goto, Escape
  <1>8. CASE BatchMark
    BY <1>8 DEF BatchMark, SafeHset, HsetRaises, Goto, Escape
  <1>9. CASE BatchAck
    BY <1>9 DEF BatchAck, SafeXack, XackRaises, NextParse, Escape
  <1>10. CASE BatchBegin
    BY <1>10 DEF BatchBegin, SafeHset, HsetRaises, Goto, Escape, Oldest
  <1>11. CASE BatchDone
    BY <1>11 DEF BatchDone, Goto, LoopHead
  <1>12. CASE BatchFails
    BY <1>12 DEF BatchFails
  <1>13. CASE FallbackNext
    BY <1>13 DEF FallbackNext, Oldest, Dispatch
  <1>14. ASSUME NEW m \in Msgs, DeliveryCheck(m) \/ DeliveryRecheck(m) PROVE BatchEarlyInv'
    BY <1>14 DEF DeliveryCheck, DeliveryRecheck, DeliveryChecks, CancelSignal, NoCancelSignal,
       Deliver, DeliveryRaises
  <1>15. ASSUME NEW m \in Msgs, DeliveryComplete(m) \/ DeliveryMark(m) PROVE BatchEarlyInv'
    BY <1>15 DEF DeliveryComplete, DeliveryMark, DeliveryWrites, SafeHset, HsetRaises, Deliver,
       DeliveryRaises
  <1>16. ASSUME NEW m \in Msgs, DeliveryPost(m) PROVE BatchEarlyInv'
    BY <1>16 DEF DeliveryPost, Deliver
  <1>17. ASSUME NEW m \in Msgs, DeliveryAck(m) PROVE BatchEarlyInv'
    BY <1>17 DEF DeliveryAck, SafeXack, XackRaises, DeliveryEnds, Deliver, DeliveryRaises
  <1>18. CASE Stop /\ UNCHANGED batchVars
    BY <1>18 DEF Stop
  <1>19. CASE BatchDrained \/ (DrainTimeout /\ UNCHANGED batchVars)
    <2>0. CancelConsumer /\ UNCHANGED <<got, rest, parsed, dpc>> /\ pend' \in {pend, "none"}
      BY <1>19 DEF BatchDrained, Drained, DrainTimeout
    <2>1. CASE CancelInTry
      BY <2>0, <2>1 DEF CancelConsumer, CancelInTry, RaiseThroughFinally, AbandonRun
    <2>2. CASE CancelSwallowed
      BY <2>0, <2>2 DEF CancelConsumer, CancelSwallowed, Goto
    <2>3. CASE CancelOutsideTry
      BY <2>0, <2>3 DEF CancelConsumer, CancelOutsideTry, Escape
    <2>4. CASE CancelTooLate
      BY <2>0, <2>4 DEF CancelConsumer, CancelTooLate
    <2> QED BY <2>0, <2>1, <2>2, <2>3, <2>4 DEF CancelConsumer
  <1>20. CASE DrainRaises \/ BatchExit \/ BatchCrash
    BY <1>20 DEF DrainRaises, BatchExit, BatchCrash, ProcessGone, Fresh, NoBatch, Orphaned,
       CompletedInHand
  <1>21. CASE pc = "await" /\ BatchDrainTimeout
    BY <1>21 DEF BatchDrainTimeout, Escape, Orphaned
  <1>22. CASE CloseClients
    BY <1>22 DEF CloseClients
  <1>23. CASE (Executor \/ Enqueue) /\ UNCHANGED batchVars
    BY <1>23 DEF Executor, RunEnds, ZombieEnds, Enqueue, Oldest, InState
  <1>24. ASSUME NEW j \in Jobs, BatchCancelFlag(j) PROVE BatchEarlyInv'
    BY <1>24 DEF BatchCancelFlag
  <1>25. CASE UNCHANGED bvars
    BY <1>25 DEF bvars, vars
  <1> QED
    BY <1>1, <1>2, <1>3, <1>4, <1>5, <1>6, <1>7, <1>8, <1>9, <1>10, <1>11, <1>12, <1>13, <1>14,
       <1>15, <1>16, <1>17, <1>18, <1>19, <1>20, <1>21, <1>22, <1>23, <1>24, <1>25
    DEF BatchNextState, BatchConsumerStep, OneMessage, DeliveryStep, BatchLifespan,
       BatchDrainTimeout, BatchEnvironment

\* Every way to an XACK passes a report, a cancel flag or a recorded cut: the one-message path.
LEMMA OneMessageAck ==
    ASSUME Types, WaitInv, BatchAckInv, OneMessage, UNCHANGED dpc
    PROVE  BatchAckInv'
  <1>q. pc \in Taking => \A m \in Msgs : dpc[m] = "off"
    BY Delivering
  <1> USE <1>q, JobsAssumption
      DEF Taking, InJob, InTry, InSkip, InParse, InBatch, redisVars, jobVars, lifeVars, outVars,
          ctlVars, batchVars, Types, RedisTypeOK, OutTypeOK, BatchCtlOK, BatchTypeOK, Points,
          NoMsg, Job, Working, BatchAckInv, Settled, Tells
  <1>1. CASE Setup
    BY <1>1 DEF Setup, Goto, Escape
  <1>2. CASE Scan
    BY <1>2 DEF Scan, Resume, LoopHead, Escape
  <1>3. CASE Fetch
    <2>1. /\ UNCHANGED <<mq, status, cancelFlag, sent, cut, dpc>> /\ pc = "fetch"
          /\ pc' = "skipAck" => cur' \in BadFields
          /\ pc' \in {"skipAck", "status", "fetch", "read", "exited", "dead", "sleep"}
      BY <1>3 DEF Fetch, Resume, LoopHead, Escape, Dispatch
    <2> QED BY <2>1
  <1>4. CASE Wake
    BY <1>4 DEF Wake, Goto, LoopHead
  <1>5. CASE CheckStatus
    BY <1>5, ZenonT(60) DEF CheckStatus, Goto, Escape, SkipStates
  <1>6. CASE CheckCancel
    BY <1>6 DEF CheckCancel, Goto, Escape, CancelSignal, NoCancelSignal
  <1>7. CASE MarkSkip
    BY <1>7 DEF MarkSkip, Goto, Escape, SafeHset, HsetRaises
  <1>8. CASE SkipAck
    BY <1>8, ZenonT(60) DEF SkipAck, Resume, LoopHead, Escape, SafeXack, XackRaises
  <1>9. CASE Begin
    BY <1>9 DEF Begin, Goto, Escape, SafeHset, HsetRaises
  <1>10. CASE RunDone
    BY <1>10 DEF RunDone, Goto
  <1>11. CASE RunTimeout
    BY <1>11 DEF RunTimeout, Goto
  <1>12. CASE Poll
    BY <1>12 DEF Poll, Goto, CancelSignal, NoCancelSignal, AbandonRun
  <1>13. CASE Halt
    BY <1>13 DEF Halt, Goto
  <1>14. CASE CheckAfterRun
    BY <1>14 DEF CheckAfterRun, Goto, CheckedGoto, CancelSignal, NoCancelSignal
  <1>15. CASE Complete
    BY <1>15 DEF Complete, Goto, SafeHset, HsetRaises
  <1>16. CASE CheckBeforePost
    BY <1>16 DEF CheckBeforePost, Goto, CheckedGoto, CancelSignal, NoCancelSignal
  <1>17. CASE Post
    BY <1>17 DEF Post, Goto, Report
  <1>18. CASE HandleException
    BY <1>18 DEF HandleException, Goto, RaiseThroughFinally, CancelSignal, NoCancelSignal
  <1>19. CASE Fail
    BY <1>19 DEF Fail, Goto, RaiseThroughFinally, SafeHset, HsetRaises
  <1>20. CASE PostError
    BY <1>20, SMTT(30) DEF PostError, Goto, Report
  <1>21. CASE MarkCancelled
    BY <1>21 DEF MarkCancelled, Goto, RaiseThroughFinally, SafeHset, HsetRaises
  <1>22. CASE Finally
    BY <1>22, ZenonT(60) DEF Finally, Resume, LoopHead, Escape, SafeXack, XackRaises
  <1>23. CASE Start
    BY <1>23 DEF Start, Fresh, BatchLifeOK
  <1> QED
    BY <1>1, <1>2, <1>3, <1>4, <1>5, <1>6, <1>7, <1>8, <1>9, <1>10, <1>11, <1>12, <1>13, <1>14,
       <1>15, <1>16, <1>17, <1>18, <1>19, <1>20, <1>21, <1>22, <1>23 DEF OneMessage,
       ProcessMessage

\* ... and the batch, its deliveries and the lifespan.
LEMMA BatchAckStep ==
    ASSUME Types, WaitInv, BatchAckInv, [BatchNextState]_bvars
    PROVE  BatchAckInv'
  <1>q. pc \in Taking => \A m \in Msgs : dpc[m] = "off"
    BY Delivering
  <1> USE <1>q, JobsAssumption
      DEF Taking, InJob, InTry, InSkip, InParse, InBatch, redisVars, jobVars, lifeVars, outVars,
          ctlVars, batchVars, Types, RedisTypeOK, OutTypeOK, BatchCtlOK, BatchTypeOK, Points,
          NoMsg, Job, Working, BatchAckInv, Settled, Tells
  <1>1. CASE /\ OneMessage /\ UNCHANGED <<got, rest, parsed, pend, dpc>>
             /\ fallback' \in {fallback, FALSE}
    BY <1>1, OneMessageAck
  <1>2. CASE BatchRead
    <2>1. \A m \in Msgs : mq'[m] = "acked" => mq[m] = "acked"
      BY <1>2 DEF BatchRead
    <2>2. /\ UNCHANGED <<status, cancelFlag, sent, cut, dpc>> /\ pc = "read"
          /\ pc' = "skipAck" => cur' \in BadFields
          /\ pc' \in {"skipAck", "status", "await", "bNext", "read", "exited", "scan"}
      BY <1>2 DEF BatchRead, AfterRead, Deal, Dispatch, LoopHead
    <2> QED BY <2>1, <2>2
  <1>3. CASE BatchReadFails
    BY <1>3 DEF BatchReadFails, Escape, Oldest, InState
  <1>4. CASE AwaitDelivery
    BY <1>4, ZenonT(60) DEF AwaitDelivery, Deal, Dispatch, LoopHead, Escape
  <1>5. CASE BatchNext
    <2>1. /\ UNCHANGED <<mq, status, cancelFlag, sent, cut, dpc>> /\ pc = "bNext"
          /\ pc' = "bAck" => cur' \in BadFields
          /\ pc' \in {"bAck", "bStatus", "bBegin", "read", "exited"}
      BY <1>5 DEF BatchNext, LoopHead
    <2> QED BY <2>1
  <1>6. CASE BatchStatus
    BY <1>6, ZenonT(60) DEF BatchStatus, Goto, Escape, SkipStates
  <1>7. CASE BatchCancel
    BY <1>7 DEF BatchCancel, CancelSignal, NoCancelSignal, NextParse, Goto, Escape
  <1>8. CASE BatchMark
    BY <1>8 DEF BatchMark, SafeHset, HsetRaises, Goto, Escape
  <1>9. CASE BatchAck
    BY <1>9 DEF BatchAck, SafeXack, XackRaises, NextParse, Escape
  <1>10. CASE BatchBegin
    BY <1>10 DEF BatchBegin, SafeHset, HsetRaises, Goto, Escape, Oldest
  <1>11. CASE BatchDone
    BY <1>11 DEF BatchDone, Goto, LoopHead
  <1>12. CASE BatchFails
    BY <1>12 DEF BatchFails
  <1>13. CASE FallbackNext
    BY <1>13 DEF FallbackNext, Oldest, Dispatch
  <1>14. ASSUME NEW m \in Msgs, DeliveryCheck(m) \/ DeliveryRecheck(m) PROVE BatchAckInv'
    BY <1>14 DEF DeliveryCheck, DeliveryRecheck, DeliveryChecks, CancelSignal, NoCancelSignal,
       Deliver, DeliveryRaises
  <1>15. ASSUME NEW m \in Msgs, DeliveryComplete(m) \/ DeliveryMark(m) PROVE BatchAckInv'
    BY <1>15 DEF DeliveryComplete, DeliveryMark, DeliveryWrites, SafeHset, HsetRaises, Deliver,
       DeliveryRaises
  <1>16. ASSUME NEW m \in Msgs, DeliveryPost(m) PROVE BatchAckInv'
    BY <1>16, SMTT(30) DEF DeliveryPost, Deliver
  <1>17. ASSUME NEW m \in Msgs, DeliveryAck(m) PROVE BatchAckInv'
    BY <1>17 DEF DeliveryAck, SafeXack, XackRaises, DeliveryEnds, Deliver, DeliveryRaises
  <1>18. CASE Stop /\ UNCHANGED batchVars
    BY <1>18 DEF Stop
  <1>19. CASE BatchDrained \/ (DrainTimeout /\ UNCHANGED batchVars)
    <2>0. CancelConsumer /\ UNCHANGED <<got, rest, parsed, dpc>> /\ pend' \in {pend, "none"}
      BY <1>19 DEF BatchDrained, Drained, DrainTimeout
    <2>1. CASE CancelInTry
      BY <2>0, <2>1 DEF CancelConsumer, CancelInTry, RaiseThroughFinally, AbandonRun
    <2>2. CASE CancelSwallowed
      BY <2>0, <2>2 DEF CancelConsumer, CancelSwallowed, Goto
    <2>3. CASE CancelOutsideTry
      BY <2>0, <2>3 DEF CancelConsumer, CancelOutsideTry, Escape
    <2>4. CASE CancelTooLate
      BY <2>0, <2>4 DEF CancelConsumer, CancelTooLate
    <2> QED BY <2>0, <2>1, <2>2, <2>3, <2>4 DEF CancelConsumer
  <1>20. CASE DrainRaises \/ BatchExit \/ BatchCrash
    <2>1. /\ UNCHANGED <<mq, status, cancelFlag, sent>> /\ pc' = "off"
          /\ \A m \in Msgs : dpc'[m] = "off"
      BY <1>20 DEF DrainRaises, BatchExit, BatchCrash, ProcessGone, NoBatch
    <2>2. cut \subseteq cut'
      BY <1>20 DEF DrainRaises, BatchExit, BatchCrash
    <2>3. ASSUME NEW j \in Jobs, status[j] = "completed" PROVE Settled(j)'
      <3>1. CASE \E m \in Msgs : JobOf[m] = j /\ dpc[m] \in Tells
        <4>1. j \in Orphaned
          BY <2>3, <3>1 DEF Orphaned, Active
        <4> QED BY <4>1, <1>20 DEF DrainRaises, BatchExit, BatchCrash
      <3>2. CASE Working(j) /\ pc \in InTry
        <4>1. BatchCrash
          BY <1>20, <3>2 DEF DrainRaises, BatchExit, BatchLifeOK, ErrorKinds, WaitInv
        <4> QED BY <2>3, <3>2, <4>1 DEF BatchCrash, CompletedInHand
      <3>3. CASE Settled(j)
        BY <2>1, <2>2, <3>3
      <3> QED BY <2>3, <3>1, <3>2, <3>3
    <2> QED BY <2>1, <2>2, <2>3
  <1>21. CASE pc = "await" /\ BatchDrainTimeout
    BY <1>21 DEF BatchDrainTimeout, Escape, Orphaned, Active
  <1>22. CASE CloseClients
    BY <1>22 DEF CloseClients
  <1>23. CASE (Executor \/ Enqueue) /\ UNCHANGED batchVars
    <2>1. /\ UNCHANGED <<status, cancelFlag, sent, cut, dpc, pc, cur>>
          /\ \A m \in Msgs : mq'[m] = "acked" => mq[m] = "acked"
      BY <1>23 DEF Executor, RunEnds, ZombieEnds, Enqueue
    <2> QED BY <2>1
  <1>24. ASSUME NEW j \in Jobs, BatchCancelFlag(j) PROVE BatchAckInv'
    BY <1>24 DEF BatchCancelFlag
  <1>25. CASE UNCHANGED bvars
    BY <1>25 DEF bvars, vars
  <1> QED
    BY <1>1, <1>2, <1>3, <1>4, <1>5, <1>6, <1>7, <1>8, <1>9, <1>10, <1>11, <1>12, <1>13, <1>14,
       <1>15, <1>16, <1>17, <1>18, <1>19, <1>20, <1>21, <1>22, <1>23, <1>24, <1>25
    DEF BatchNextState, BatchConsumerStep, OneMessage, DeliveryStep, BatchLifespan,
       BatchDrainTimeout, BatchEnvironment

-----------------------------------------------------------------------------
(***************************************************************************)
(* BatchHandInv: what the loop holds in its hands.                         *)
(***************************************************************************)
\* On the one-message path an excused message stays excused: nobody undoes a cancel flag, and
\* a completed job is not taken on.
LEMMA ExcusedKept ==
    ASSUME Types, RunInv, BatchAckInv, OneMessage, NEW m \in Msgs, Excused(m)
    PROVE  Excused(m)'
  <1> USE JobsAssumption
      DEF InJob, InTry, InSkip, InParse, InBatch, redisVars, jobVars, lifeVars, outVars,
          Types, RedisTypeOK, BatchCtlOK, Points, NoMsg, Job, Working, RunInv, Unsettled,
          BatchAckInv, Excused
  <1>1. CASE Setup
    BY <1>1 DEF Setup, Goto, Escape
  <1>2. CASE Scan
    BY <1>2 DEF Scan, Resume, LoopHead, Escape
  <1>3. CASE Fetch
    BY <1>3 DEF Fetch, Resume, LoopHead, Escape, Dispatch
  <1>4. CASE Wake
    BY <1>4 DEF Wake, Goto, LoopHead
  <1>5. CASE CheckStatus
    BY <1>5 DEF CheckStatus, Goto, Escape, SkipStates
  <1>6. CASE CheckCancel
    BY <1>6 DEF CheckCancel, Goto, Escape, CancelSignal, NoCancelSignal
  <1>7. CASE MarkSkip
    BY <1>7 DEF MarkSkip, Goto, Escape, SafeHset, HsetRaises
  <1>8. CASE SkipAck
    BY <1>8 DEF SkipAck, Resume, LoopHead, Escape, SafeXack, XackRaises
  <1>9. CASE Begin
    BY <1>9 DEF Begin, Goto, Escape, SafeHset, HsetRaises
  <1>10. CASE RunDone
    BY <1>10 DEF RunDone, Goto
  <1>11. CASE RunTimeout
    BY <1>11 DEF RunTimeout, Goto
  <1>12. CASE Poll
    BY <1>12 DEF Poll, Goto, CancelSignal, NoCancelSignal, AbandonRun
  <1>13. CASE Halt
    BY <1>13 DEF Halt, Goto
  <1>14. CASE CheckAfterRun
    BY <1>14 DEF CheckAfterRun, Goto, CheckedGoto, CancelSignal, NoCancelSignal
  <1>15. CASE Complete
    BY <1>15 DEF Complete, Goto, SafeHset, HsetRaises
  <1>16. CASE CheckBeforePost
    BY <1>16 DEF CheckBeforePost, Goto, CheckedGoto, CancelSignal, NoCancelSignal
  <1>17. CASE Post
    BY <1>17 DEF Post, Goto, Report
  <1>18. CASE HandleException
    BY <1>18 DEF HandleException, Goto, RaiseThroughFinally, CancelSignal, NoCancelSignal
  <1>19. CASE Fail
    BY <1>19 DEF Fail, Goto, RaiseThroughFinally, SafeHset, HsetRaises
  <1>20. CASE PostError
    BY <1>20 DEF PostError, Goto, Report
  <1>21. CASE MarkCancelled
    BY <1>21 DEF MarkCancelled, Goto, RaiseThroughFinally, SafeHset, HsetRaises
  <1>22. CASE Finally
    BY <1>22 DEF Finally, Resume, LoopHead, Escape, SafeXack, XackRaises
  <1>23. CASE Start
    BY <1>23 DEF Start, Fresh, BatchLifeOK
  <1> QED
    BY <1>1, <1>2, <1>3, <1>4, <1>5, <1>6, <1>7, <1>8, <1>9, <1>10, <1>11, <1>12, <1>13, <1>14,
       <1>15, <1>16, <1>17, <1>18, <1>19, <1>20, <1>21, <1>22, <1>23 DEF OneMessage,
       ProcessMessage

\* ... and a message in hand stays in hand until its XACK.
LEMMA HandKept ==
    ASSUME Types, RunInv, BatchAckInv, OneMessage, NEW m \in Msgs, InHand(m), mq'[m] = mq[m]
    PROVE  InHand(m)'
  BY ExcusedKept DEF InHand

\* One message at a time: the list shrinks and its messages stay in hand.
LEMMA OneList ==
    ASSUME Types, RunInv, BatchAckInv, ListInv, OneInv, OneMessage
    PROVE  ListInv'
  <1>h. \A m \in Msgs : InHand(m) /\ mq'[m] = mq[m] => InHand(m)'
    BY HandKept
  <1>p. \A m \in Msgs : mq'[m] = "pending" => InHand(m)'
    BY DEF InHand
  <1> USE <1>h, <1>p, JobsAssumption
      DEF InJob, InTry, InSkip, InParse, InBatch, redisVars, jobVars, lifeVars, outVars,
          Types, RedisTypeOK, BatchCtlOK, Points, NoMsg, Job, Working, ListInv, OneInv
  <1>1. CASE Setup
    BY <1>1 DEF Setup, Goto, Escape
  <1>2. CASE Scan
    BY <1>2 DEF Scan, Resume, LoopHead, Escape, Oldest, InState
  <1>3. CASE Fetch
    BY <1>3 DEF Fetch, Resume, LoopHead, Escape, Dispatch
  <1>4. CASE Wake
    BY <1>4 DEF Wake, Goto, LoopHead
  <1>5. CASE CheckStatus
    BY <1>5 DEF CheckStatus, Goto, Escape, SkipStates
  <1>6. CASE CheckCancel
    BY <1>6 DEF CheckCancel, Goto, Escape, CancelSignal, NoCancelSignal
  <1>7. CASE MarkSkip
    BY <1>7 DEF MarkSkip, Goto, Escape, SafeHset, HsetRaises
  <1>8. CASE SkipAck
    BY <1>8 DEF SkipAck, Resume, LoopHead, Escape, SafeXack, XackRaises
  <1>9. CASE Begin
    BY <1>9 DEF Begin, Goto, Escape, SafeHset, HsetRaises
  <1>10. CASE RunDone
    BY <1>10 DEF RunDone, Goto
  <1>11. CASE RunTimeout
    BY <1>11 DEF RunTimeout, Goto
  <1>12. CASE Poll
    BY <1>12 DEF Poll, Goto, CancelSignal, NoCancelSignal, AbandonRun
  <1>13. CASE Halt
    BY <1>13 DEF Halt, Goto
  <1>14. CASE CheckAfterRun
    BY <1>14 DEF CheckAfterRun, Goto, CheckedGoto, CancelSignal, NoCancelSignal
  <1>15. CASE Complete
    BY <1>15 DEF Complete, Goto, SafeHset, HsetRaises
  <1>16. CASE CheckBeforePost
    BY <1>16 DEF CheckBeforePost, Goto, CheckedGoto, CancelSignal, NoCancelSignal
  <1>17. CASE Post
    BY <1>17 DEF Post, Goto, Report
  <1>18. CASE HandleException
    BY <1>18 DEF HandleException, Goto, RaiseThroughFinally, CancelSignal, NoCancelSignal
  <1>19. CASE Fail
    BY <1>19 DEF Fail, Goto, RaiseThroughFinally, SafeHset, HsetRaises
  <1>20. CASE PostError
    BY <1>20 DEF PostError, Goto, Report
  <1>21. CASE MarkCancelled
    BY <1>21 DEF MarkCancelled, Goto, RaiseThroughFinally, SafeHset, HsetRaises
  <1>22. CASE Finally
    <2>1. /\ todo' = {} \/ (todo' = todo /\ pc' = "fetch")
          /\ pc' \notin InSkip \cup InJob
      BY <1>22 DEF Finally, Resume, LoopHead, Escape
    <2>2. \A m \in todo : mq'[m] = mq[m]
      BY <1>22 DEF Finally, SafeXack, XackRaises
    <2> QED BY <2>1, <2>2
  <1>23. CASE Start
    BY <1>23 DEF Start, Fresh, BatchLifeOK
  <1> QED
    BY <1>1, <1>2, <1>3, <1>4, <1>5, <1>6, <1>7, <1>8, <1>9, <1>10, <1>11, <1>12, <1>13, <1>14,
       <1>15, <1>16, <1>17, <1>18, <1>19, <1>20, <1>21, <1>22, <1>23 DEF OneMessage,
       ProcessMessage

\* One message at a time: a message passes the checks only if it is pending or its circuit is bad.
LEMMA OneHand ==
    ASSUME Types, RunInv, BatchAckInv, ListInv, OneInv, OneMessage
    PROVE  OneInv'
  <1>h. \A m \in Msgs : InHand(m) /\ mq'[m] = mq[m] => InHand(m)'
    BY HandKept
  <1>p. \A m \in Msgs : mq'[m] = "pending" => InHand(m)'
    BY DEF InHand
  <1> USE <1>h, <1>p, JobsAssumption
      DEF InJob, InTry, InSkip, InParse, InBatch, redisVars, jobVars, lifeVars, outVars,
          Types, RedisTypeOK, BatchCtlOK, Points, NoMsg, Job, Working, ListInv, OneInv
  <1>1. CASE Setup
    BY <1>1 DEF Setup, Goto, Escape
  <1>2. CASE Scan
    BY <1>2 DEF Scan, Resume, LoopHead, Escape
  <1>3. CASE Fetch
    BY <1>3 DEF Fetch, Resume, LoopHead, Escape, Dispatch, Oldest
  <1>4. CASE Wake
    BY <1>4 DEF Wake, Goto, LoopHead
  <1>5. CASE CheckStatus
    BY <1>5 DEF CheckStatus, Goto, Escape, SkipStates
  <1>6. CASE CheckCancel
    BY <1>6 DEF CheckCancel, Goto, Escape, CancelSignal, NoCancelSignal, InHand, Excused, RunInv,
       Unsettled
  <1>7. CASE MarkSkip
    BY <1>7 DEF MarkSkip, Goto, Escape, SafeHset, HsetRaises
  <1>8. CASE SkipAck
    BY <1>8 DEF SkipAck, Resume, LoopHead, Escape, SafeXack, XackRaises
  <1>9. CASE Begin
    BY <1>9 DEF Begin, Goto, Escape, SafeHset, HsetRaises
  <1>10. CASE RunDone
    BY <1>10 DEF RunDone, Goto
  <1>11. CASE RunTimeout
    BY <1>11 DEF RunTimeout, Goto
  <1>12. CASE Poll
    BY <1>12 DEF Poll, Goto, CancelSignal, NoCancelSignal, AbandonRun
  <1>13. CASE Halt
    BY <1>13 DEF Halt, Goto
  <1>14. CASE CheckAfterRun
    BY <1>14 DEF CheckAfterRun, Goto, CheckedGoto, CancelSignal, NoCancelSignal
  <1>15. CASE Complete
    BY <1>15 DEF Complete, Goto, SafeHset, HsetRaises
  <1>16. CASE CheckBeforePost
    BY <1>16 DEF CheckBeforePost, Goto, CheckedGoto, CancelSignal, NoCancelSignal
  <1>17. CASE Post
    BY <1>17 DEF Post, Goto, Report
  <1>18. CASE HandleException
    BY <1>18 DEF HandleException, Goto, RaiseThroughFinally, CancelSignal, NoCancelSignal
  <1>19. CASE Fail
    BY <1>19 DEF Fail, Goto, RaiseThroughFinally, SafeHset, HsetRaises
  <1>20. CASE PostError
    BY <1>20 DEF PostError, Goto, Report
  <1>21. CASE MarkCancelled
    BY <1>21 DEF MarkCancelled, Goto, RaiseThroughFinally, SafeHset, HsetRaises
  <1>22. CASE Finally
    BY <1>22 DEF Finally, Resume, LoopHead, Escape, SafeXack, XackRaises
  <1>23. CASE Start
    BY <1>23 DEF Start, Fresh, BatchLifeOK
  <1> QED
    BY <1>1, <1>2, <1>3, <1>4, <1>5, <1>6, <1>7, <1>8, <1>9, <1>10, <1>11, <1>12, <1>13, <1>14,
       <1>15, <1>16, <1>17, <1>18, <1>19, <1>20, <1>21, <1>22, <1>23 DEF OneMessage,
       ProcessMessage

\* Nothing the batch, its deliveries or the lifespan do takes an excuse away.
LEMMA BatchExcusedKept ==
    ASSUME Types, WaitInv, RunInv, BatchAckInv, BatchHandInv,
           [BatchNextState]_bvars, NEW n \in Msgs, Excused(n)
    PROVE  Excused(n)'
  <1>q. pc \in Taking => \A m \in Msgs : dpc[m] = "off"
    BY Delivering
  <1> USE <1>q, JobsAssumption
      DEF Taking, InJob, InTry, InSkip, InParse, InBatch, redisVars, jobVars, lifeVars, outVars,
          ctlVars, batchVars, Types, RedisTypeOK, BatchCtlOK, BatchTypeOK, Points,
          NoMsg, Job, Working, RunInv, Unsettled, BatchAckInv, Excused,
          BatchHandInv, ParsedInv
  <1>1. CASE /\ OneMessage /\ UNCHANGED <<got, rest, parsed, pend, dpc>>
             /\ fallback' \in {fallback, FALSE}
    BY <1>1, ExcusedKept
  <1>2. CASE BatchRead
    BY <1>2 DEF BatchRead, AfterRead, Deal, Dispatch, LoopHead, Oldest, InState
  <1>3. CASE BatchReadFails
    BY <1>3 DEF BatchReadFails, Escape, Oldest, InState
  <1>4. CASE AwaitDelivery
    BY <1>4 DEF AwaitDelivery, Deal, Dispatch, LoopHead, Escape
  <1>5. CASE BatchNext
    BY <1>5 DEF BatchNext, Oldest, LoopHead
  <1>6. CASE BatchStatus
    BY <1>6 DEF BatchStatus, Goto, Escape
  <1>7. CASE BatchCancel
    BY <1>7 DEF BatchCancel, CancelSignal, NoCancelSignal, NextParse, Goto, Escape
  <1>8. CASE BatchMark
    BY <1>8 DEF BatchMark, SafeHset, HsetRaises, Goto, Escape
  <1>9. CASE BatchAck
    BY <1>9 DEF BatchAck, SafeXack, XackRaises, NextParse, Escape
  <1>10. CASE BatchBegin
    BY <1>10 DEF BatchBegin, SafeHset, HsetRaises, Goto, Escape, Oldest
  <1>11. CASE BatchDone
    BY <1>11 DEF BatchDone, Goto, LoopHead
  <1>12. CASE BatchFails
    BY <1>12 DEF BatchFails
  <1>13. CASE FallbackNext
    BY <1>13 DEF FallbackNext, Oldest, Dispatch
  <1>14. ASSUME NEW m \in Msgs, DeliveryCheck(m) \/ DeliveryRecheck(m) PROVE Excused(n)'
    BY <1>14 DEF DeliveryCheck, DeliveryRecheck, DeliveryChecks, CancelSignal, NoCancelSignal,
       Deliver, DeliveryRaises
  <1>15. ASSUME NEW m \in Msgs, DeliveryComplete(m) \/ DeliveryMark(m) PROVE Excused(n)'
    BY <1>15 DEF DeliveryComplete, DeliveryMark, DeliveryWrites, SafeHset, HsetRaises, Deliver,
       DeliveryRaises
  <1>16. ASSUME NEW m \in Msgs, DeliveryPost(m) PROVE Excused(n)'
    BY <1>16 DEF DeliveryPost, Deliver
  <1>17. ASSUME NEW m \in Msgs, DeliveryAck(m) PROVE Excused(n)'
    BY <1>17 DEF DeliveryAck, SafeXack, XackRaises, DeliveryEnds, Deliver, DeliveryRaises
  <1>18. CASE Stop /\ UNCHANGED batchVars
    BY <1>18 DEF Stop
  <1>19. CASE BatchDrained \/ (DrainTimeout /\ UNCHANGED batchVars)
    <2>0. CancelConsumer /\ UNCHANGED <<got, rest, parsed, dpc>> /\ pend' \in {pend, "none"}
      BY <1>19 DEF BatchDrained, Drained, DrainTimeout
    <2>1. CASE CancelInTry
      BY <2>0, <2>1 DEF CancelConsumer, CancelInTry, RaiseThroughFinally, AbandonRun
    <2>2. CASE CancelSwallowed
      BY <2>0, <2>2 DEF CancelConsumer, CancelSwallowed, Goto
    <2>3. CASE CancelOutsideTry
      BY <2>0, <2>3 DEF CancelConsumer, CancelOutsideTry, Escape
    <2>4. CASE CancelTooLate
      BY <2>0, <2>4 DEF CancelConsumer, CancelTooLate
    <2> QED BY <2>0, <2>1, <2>2, <2>3, <2>4 DEF CancelConsumer
  <1>20. CASE DrainRaises \/ BatchExit \/ BatchCrash
    BY <1>20 DEF DrainRaises, BatchExit, BatchCrash, ProcessGone, Fresh, NoBatch, Orphaned,
       CompletedInHand
  <1>21. CASE pc = "await" /\ BatchDrainTimeout
    BY <1>21 DEF BatchDrainTimeout, Escape, Orphaned
  <1>22. CASE CloseClients
    BY <1>22 DEF CloseClients
  <1>23. CASE (Executor \/ Enqueue) /\ UNCHANGED batchVars
    BY <1>23 DEF Executor, RunEnds, ZombieEnds, Enqueue, Oldest, InState
  <1>24. ASSUME NEW j \in Jobs, BatchCancelFlag(j) PROVE Excused(n)'
    BY <1>24 DEF BatchCancelFlag
  <1>25. CASE UNCHANGED bvars
    BY <1>25 DEF bvars, vars
  <1> QED
    BY <1>1, <1>2, <1>3, <1>4, <1>5, <1>6, <1>7, <1>8, <1>9, <1>10, <1>11, <1>12, <1>13, <1>14,
       <1>15, <1>16, <1>17, <1>18, <1>19, <1>20, <1>21, <1>22, <1>23, <1>24, <1>25
    DEF BatchNextState, BatchConsumerStep, OneMessage, DeliveryStep, BatchLifespan,
       BatchDrainTimeout, BatchEnvironment

\* ... so a message in hand stays in hand until its XACK.
LEMMA BatchHandKept ==
    ASSUME Types, WaitInv, RunInv, BatchAckInv, BatchHandInv, [BatchNextState]_bvars,
           NEW m \in Msgs, InHand(m), mq'[m] = mq[m]
    PROVE  InHand(m)'
  BY BatchExcusedKept DEF InHand

\* The one-message path stays out of the batch, and acknowledges only what it has taken on.
LEMMA OneMessagePoints ==
    ASSUME Types, OneMessage
    PROVE  pc' \in Points /\ (pc \in Taking \/ mq' = mq)
  <1>1. pc' \in Points
    BY OneMessageState, TypeStep DEF TypeOK, CtlTypeOK
  <1>2. pc \in Taking \/ mq' = mq
    BY DEF OneMessage, Setup, Wake, Scan, Fetch, Start, ProcessMessage, CheckStatus, CheckCancel,
       MarkSkip, SkipAck, Begin, RunDone, RunTimeout, Poll, Halt, CheckAfterRun, Complete,
       CheckBeforePost, Post, HandleException, Fail, PostError, MarkCancelled, Finally, redisVars,
       Taking, InJob, InTry, InSkip, Types, BatchLifeOK
  <1> QED BY <1>1, <1>2

\* The messages still to come are in hand.
LEMMA BatchListInv ==
    ASSUME Types, WaitInv, RunInv, BatchAckInv, BatchHandInv,
           [BatchNextState]_bvars
    PROVE  ListInv'
  <1>q. pc \in Taking => \A m \in Msgs : dpc[m] = "off"
    BY Delivering
  <1>h. \A m \in Msgs : InHand(m) /\ mq'[m] = mq[m] => InHand(m)'
    BY BatchHandKept
  <1>p. \A m \in Msgs : mq'[m] = "pending" => InHand(m)'
    BY DEF InHand
  <1> USE <1>q, <1>h, <1>p, JobsAssumption
      DEF Taking, InJob, InTry, InSkip, InParse, InBatch, redisVars, jobVars, lifeVars, outVars,
          ctlVars, batchVars, Types, RedisTypeOK, BatchCtlOK, BatchTypeOK, Points,
          NoMsg, Job, Working, BatchHandInv,
          ListInv, OneInv, ParseInv
  <1>1. CASE /\ OneMessage /\ UNCHANGED <<got, rest, parsed, pend, dpc>>
             /\ fallback' \in {fallback, FALSE}
    BY <1>1, OneList
  <1>2. CASE BatchRead
    BY <1>2 DEF BatchRead, AfterRead, Deal, Dispatch, LoopHead, Oldest, InState
  <1>3. CASE BatchReadFails
    BY <1>3 DEF BatchReadFails, Escape, Oldest, InState
  <1>4. CASE AwaitDelivery
    BY <1>4 DEF AwaitDelivery, Deal, Dispatch, LoopHead, Escape
  <1>5. CASE BatchNext
    BY <1>5 DEF BatchNext, Oldest, LoopHead
  <1>6. CASE BatchStatus
    BY <1>6 DEF BatchStatus, Goto, Escape
  <1>7. CASE BatchCancel
    BY <1>7 DEF BatchCancel, CancelSignal, NoCancelSignal, NextParse, Goto, Escape
  <1>8. CASE BatchMark
    BY <1>8 DEF BatchMark, SafeHset, HsetRaises, Goto, Escape
  <1>9. CASE BatchAck
    BY <1>9 DEF BatchAck, SafeXack, XackRaises, NextParse, Escape
  <1>10. CASE BatchBegin
    BY <1>10 DEF BatchBegin, SafeHset, HsetRaises, Goto, Escape, Oldest
  <1>11. CASE BatchDone
    BY <1>11 DEF BatchDone, Goto, LoopHead
  <1>12. CASE BatchFails
    BY <1>12 DEF BatchFails
  <1>13. CASE FallbackNext
    BY <1>13 DEF FallbackNext, Oldest, Dispatch
  <1>14. ASSUME NEW m \in Msgs, DeliveryCheck(m) \/ DeliveryRecheck(m) PROVE ListInv'
    BY <1>14 DEF DeliveryCheck, DeliveryRecheck, DeliveryChecks, CancelSignal, NoCancelSignal,
       Deliver, DeliveryRaises
  <1>15. ASSUME NEW m \in Msgs, DeliveryComplete(m) \/ DeliveryMark(m) PROVE ListInv'
    BY <1>15 DEF DeliveryComplete, DeliveryMark, DeliveryWrites, SafeHset, HsetRaises, Deliver,
       DeliveryRaises
  <1>16. ASSUME NEW m \in Msgs, DeliveryPost(m) PROVE ListInv'
    BY <1>16 DEF DeliveryPost, Deliver
  <1>17. ASSUME NEW m \in Msgs, DeliveryAck(m) PROVE ListInv'
    BY <1>17 DEF DeliveryAck, SafeXack, XackRaises, DeliveryEnds, Deliver, DeliveryRaises
  <1>18. CASE Stop /\ UNCHANGED batchVars
    BY <1>18 DEF Stop
  <1>19. CASE BatchDrained \/ (DrainTimeout /\ UNCHANGED batchVars)
    <2>0. CancelConsumer /\ UNCHANGED <<got, rest, parsed, dpc>> /\ pend' \in {pend, "none"}
      BY <1>19 DEF BatchDrained, Drained, DrainTimeout
    <2>1. CASE CancelInTry
      BY <2>0, <2>1 DEF CancelConsumer, CancelInTry, RaiseThroughFinally, AbandonRun
    <2>2. CASE CancelSwallowed
      BY <2>0, <2>2 DEF CancelConsumer, CancelSwallowed, Goto
    <2>3. CASE CancelOutsideTry
      BY <2>0, <2>3 DEF CancelConsumer, CancelOutsideTry, Escape
    <2>4. CASE CancelTooLate
      BY <2>0, <2>4 DEF CancelConsumer, CancelTooLate
    <2> QED BY <2>0, <2>1, <2>2, <2>3, <2>4 DEF CancelConsumer
  <1>20. CASE DrainRaises \/ BatchExit \/ BatchCrash
    BY <1>20 DEF DrainRaises, BatchExit, BatchCrash, ProcessGone, Fresh, NoBatch, Orphaned,
       CompletedInHand
  <1>21. CASE pc = "await" /\ BatchDrainTimeout
    BY <1>21 DEF BatchDrainTimeout, Escape, Orphaned
  <1>22. CASE CloseClients
    BY <1>22 DEF CloseClients
  <1>23. CASE (Executor \/ Enqueue) /\ UNCHANGED batchVars
    <2>1. UNCHANGED <<pc, cur, todo, status, cancelFlag, got, rest, parsed, dpc>>
      BY <1>23 DEF Executor, RunEnds, ZombieEnds, Enqueue
    <2>2. \A m \in Msgs : mq[m] # "absent" => mq'[m] = mq[m]
      BY <1>23 DEF Executor, RunEnds, ZombieEnds, Enqueue, Oldest, InState
    <2>3. \A m \in Msgs : InHand(m) => mq[m] # "absent"
      BY DEF InHand
    <2> QED BY <2>1, <2>2, <2>3
  <1>24. ASSUME NEW j \in Jobs, BatchCancelFlag(j) PROVE ListInv'
    BY <1>24 DEF BatchCancelFlag
  <1>25. CASE UNCHANGED bvars
    BY <1>25 DEF bvars, vars
  <1> QED
    BY <1>1, <1>2, <1>3, <1>4, <1>5, <1>6, <1>7, <1>8, <1>9, <1>10, <1>11, <1>12, <1>13, <1>14,
       <1>15, <1>16, <1>17, <1>18, <1>19, <1>20, <1>21, <1>22, <1>23, <1>24, <1>25
    DEF BatchNextState, BatchConsumerStep, OneMessage, DeliveryStep, BatchLifespan,
       BatchDrainTimeout, BatchEnvironment

\* So is the message at hand; it is run only if it is pending or its circuit is bad.
LEMMA BatchOneInv ==
    ASSUME Types, WaitInv, RunInv, BatchAckInv, BatchHandInv,
           [BatchNextState]_bvars
    PROVE  OneInv'
  <1>q. pc \in Taking => \A m \in Msgs : dpc[m] = "off"
    BY Delivering
  <1>h. \A m \in Msgs : InHand(m) /\ mq'[m] = mq[m] => InHand(m)'
    BY BatchHandKept
  <1>p. \A m \in Msgs : mq'[m] = "pending" => InHand(m)'
    BY DEF InHand
  <1> USE <1>q, <1>h, <1>p, JobsAssumption
      DEF Taking, InJob, InTry, InSkip, InParse, InBatch, redisVars, jobVars, lifeVars, outVars,
          ctlVars, batchVars, Types, RedisTypeOK, BatchCtlOK, BatchTypeOK, Points,
          NoMsg, Job, Working, BatchHandInv,
          ListInv, OneInv, ParseInv
  <1>1. CASE /\ OneMessage /\ UNCHANGED <<got, rest, parsed, pend, dpc>>
             /\ fallback' \in {fallback, FALSE}
    BY <1>1, OneHand
  <1>2. CASE BatchRead
    BY <1>2 DEF BatchRead, AfterRead, Deal, Dispatch, LoopHead, Oldest, InState
  <1>3. CASE BatchReadFails
    BY <1>3 DEF BatchReadFails, Escape, Oldest, InState
  <1>4. CASE AwaitDelivery
    BY <1>4 DEF AwaitDelivery, Deal, Dispatch, LoopHead, Escape
  <1>5. CASE BatchNext
    BY <1>5 DEF BatchNext, Oldest, LoopHead
  <1>6. CASE BatchStatus
    BY <1>6 DEF BatchStatus, Goto, Escape
  <1>7. CASE BatchCancel
    BY <1>7 DEF BatchCancel, CancelSignal, NoCancelSignal, NextParse, Goto, Escape
  <1>8. CASE BatchMark
    BY <1>8 DEF BatchMark, SafeHset, HsetRaises, Goto, Escape
  <1>9. CASE BatchAck
    BY <1>9 DEF BatchAck, SafeXack, XackRaises, NextParse, Escape
  <1>10. CASE BatchBegin
    BY <1>10 DEF BatchBegin, SafeHset, HsetRaises, Goto, Escape, Oldest
  <1>11. CASE BatchDone
    BY <1>11 DEF BatchDone, Goto, LoopHead
  <1>12. CASE BatchFails
    BY <1>12 DEF BatchFails
  <1>13. CASE FallbackNext
    BY <1>13 DEF FallbackNext, Oldest, Dispatch
  <1>14. ASSUME NEW m \in Msgs, DeliveryCheck(m) \/ DeliveryRecheck(m) PROVE OneInv'
    BY <1>14 DEF DeliveryCheck, DeliveryRecheck, DeliveryChecks, CancelSignal, NoCancelSignal,
       Deliver, DeliveryRaises
  <1>15. ASSUME NEW m \in Msgs, DeliveryComplete(m) \/ DeliveryMark(m) PROVE OneInv'
    BY <1>15 DEF DeliveryComplete, DeliveryMark, DeliveryWrites, SafeHset, HsetRaises, Deliver,
       DeliveryRaises
  <1>16. ASSUME NEW m \in Msgs, DeliveryPost(m) PROVE OneInv'
    BY <1>16 DEF DeliveryPost, Deliver
  <1>17. ASSUME NEW m \in Msgs, DeliveryAck(m) PROVE OneInv'
    BY <1>17 DEF DeliveryAck, SafeXack, XackRaises, DeliveryEnds, Deliver, DeliveryRaises
  <1>18. CASE Stop /\ UNCHANGED batchVars
    BY <1>18 DEF Stop
  <1>19. CASE BatchDrained \/ (DrainTimeout /\ UNCHANGED batchVars)
    <2>0. CancelConsumer /\ UNCHANGED <<got, rest, parsed, dpc>> /\ pend' \in {pend, "none"}
      BY <1>19 DEF BatchDrained, Drained, DrainTimeout
    <2>1. CASE CancelInTry
      BY <2>0, <2>1 DEF CancelConsumer, CancelInTry, RaiseThroughFinally, AbandonRun
    <2>2. CASE CancelSwallowed
      BY <2>0, <2>2 DEF CancelConsumer, CancelSwallowed, Goto
    <2>3. CASE CancelOutsideTry
      BY <2>0, <2>3 DEF CancelConsumer, CancelOutsideTry, Escape
    <2>4. CASE CancelTooLate
      BY <2>0, <2>4 DEF CancelConsumer, CancelTooLate
    <2> QED BY <2>0, <2>1, <2>2, <2>3, <2>4 DEF CancelConsumer
  <1>20. CASE DrainRaises \/ BatchExit \/ BatchCrash
    BY <1>20 DEF DrainRaises, BatchExit, BatchCrash, ProcessGone, Fresh, NoBatch, Orphaned,
       CompletedInHand
  <1>21. CASE pc = "await" /\ BatchDrainTimeout
    BY <1>21 DEF BatchDrainTimeout, Escape, Orphaned
  <1>22. CASE CloseClients
    BY <1>22 DEF CloseClients
  <1>23. CASE (Executor \/ Enqueue) /\ UNCHANGED batchVars
    <2>1. UNCHANGED <<pc, cur, todo, status, cancelFlag, got, rest, parsed, dpc>>
      BY <1>23 DEF Executor, RunEnds, ZombieEnds, Enqueue
    <2>2. \A m \in Msgs : mq[m] # "absent" => mq'[m] = mq[m]
      BY <1>23 DEF Executor, RunEnds, ZombieEnds, Enqueue, Oldest, InState
    <2>3. \A m \in Msgs : InHand(m) => mq[m] # "absent"
      BY DEF InHand
    <2> QED BY <2>1, <2>2, <2>3
  <1>24. ASSUME NEW j \in Jobs, BatchCancelFlag(j) PROVE OneInv'
    BY <1>24 DEF BatchCancelFlag
  <1>25. CASE UNCHANGED bvars
    BY <1>25 DEF bvars, vars
  <1> QED
    BY <1>1, <1>2, <1>3, <1>4, <1>5, <1>6, <1>7, <1>8, <1>9, <1>10, <1>11, <1>12, <1>13, <1>14,
       <1>15, <1>16, <1>17, <1>18, <1>19, <1>20, <1>21, <1>22, <1>23, <1>24, <1>25
    DEF BatchNextState, BatchConsumerStep, OneMessage, DeliveryStep, BatchLifespan,
       BatchDrainTimeout, BatchEnvironment

\* Only the delivery of a message acknowledges it while it runs.
LEMMA BatchDeliveryInv ==
    ASSUME Types, WaitInv, RunInv, BatchAckInv, BatchHandInv,
           [BatchNextState]_bvars
    PROVE  DeliveryInv'
  <1>q. pc \in Taking => \A m \in Msgs : dpc[m] = "off"
    BY Delivering
  <1> USE <1>q, JobsAssumption
      DEF Taking, InJob, InTry, InSkip, InParse, InBatch, redisVars, jobVars, lifeVars, outVars,
          ctlVars, batchVars, Types, RedisTypeOK, BatchCtlOK, BatchTypeOK, Points,
          NoMsg, Job, Working, BatchHandInv,
          OneInv, ParseInv, ParsedInv, DeliveryInv
  <1>1. CASE /\ OneMessage /\ UNCHANGED <<got, rest, parsed, pend, dpc>>
             /\ fallback' \in {fallback, FALSE}
    BY <1>1, OneMessagePoints
  <1>2. CASE BatchRead
    BY <1>2 DEF BatchRead, AfterRead, Deal, Dispatch, LoopHead, Oldest, InState
  <1>3. CASE BatchReadFails
    BY <1>3 DEF BatchReadFails, Escape, Oldest, InState
  <1>4. CASE AwaitDelivery
    BY <1>4 DEF AwaitDelivery, Deal, Dispatch, LoopHead, Escape
  <1>5. CASE BatchNext
    BY <1>5 DEF BatchNext, Oldest, LoopHead
  <1>6. CASE BatchStatus
    BY <1>6 DEF BatchStatus, Goto, Escape
  <1>7. CASE BatchCancel
    BY <1>7 DEF BatchCancel, CancelSignal, NoCancelSignal, NextParse, Goto, Escape
  <1>8. CASE BatchMark
    BY <1>8 DEF BatchMark, SafeHset, HsetRaises, Goto, Escape
  <1>9. CASE BatchAck
    BY <1>9 DEF BatchAck, SafeXack, XackRaises, NextParse, Escape
  <1>10. CASE BatchBegin
    BY <1>10 DEF BatchBegin, SafeHset, HsetRaises, Goto, Escape, Oldest
  <1>11. CASE BatchDone
    BY <1>11 DEF BatchDone, Goto, LoopHead
  <1>12. CASE BatchFails
    BY <1>12 DEF BatchFails
  <1>13. CASE FallbackNext
    BY <1>13 DEF FallbackNext, Oldest, Dispatch
  <1>14. ASSUME NEW m \in Msgs, DeliveryCheck(m) \/ DeliveryRecheck(m) PROVE DeliveryInv'
    BY <1>14 DEF DeliveryCheck, DeliveryRecheck, DeliveryChecks, CancelSignal, NoCancelSignal,
       Deliver, DeliveryRaises
  <1>15. ASSUME NEW m \in Msgs, DeliveryComplete(m) \/ DeliveryMark(m) PROVE DeliveryInv'
    BY <1>15 DEF DeliveryComplete, DeliveryMark, DeliveryWrites, SafeHset, HsetRaises, Deliver,
       DeliveryRaises
  <1>16. ASSUME NEW m \in Msgs, DeliveryPost(m) PROVE DeliveryInv'
    BY <1>16 DEF DeliveryPost, Deliver
  <1>17. ASSUME NEW m \in Msgs, DeliveryAck(m) PROVE DeliveryInv'
    BY <1>17 DEF DeliveryAck, SafeXack, XackRaises, DeliveryEnds, Deliver, DeliveryRaises
  <1>18. CASE Stop /\ UNCHANGED batchVars
    BY <1>18 DEF Stop
  <1>19. CASE BatchDrained \/ (DrainTimeout /\ UNCHANGED batchVars)
    <2>0. CancelConsumer /\ UNCHANGED <<got, rest, parsed, dpc>> /\ pend' \in {pend, "none"}
      BY <1>19 DEF BatchDrained, Drained, DrainTimeout
    <2>1. CASE CancelInTry
      BY <2>0, <2>1 DEF CancelConsumer, CancelInTry, RaiseThroughFinally, AbandonRun
    <2>2. CASE CancelSwallowed
      BY <2>0, <2>2 DEF CancelConsumer, CancelSwallowed, Goto
    <2>3. CASE CancelOutsideTry
      BY <2>0, <2>3 DEF CancelConsumer, CancelOutsideTry, Escape
    <2>4. CASE CancelTooLate
      BY <2>0, <2>4 DEF CancelConsumer, CancelTooLate
    <2> QED BY <2>0, <2>1, <2>2, <2>3, <2>4 DEF CancelConsumer
  <1>20. CASE DrainRaises \/ BatchExit \/ BatchCrash
    BY <1>20 DEF DrainRaises, BatchExit, BatchCrash, ProcessGone, Fresh, NoBatch, Orphaned,
       CompletedInHand
  <1>21. CASE pc = "await" /\ BatchDrainTimeout
    BY <1>21 DEF BatchDrainTimeout, Escape, Orphaned
  <1>22. CASE CloseClients
    BY <1>22 DEF CloseClients
  <1>23. CASE (Executor \/ Enqueue) /\ UNCHANGED batchVars
    <2>1. UNCHANGED <<pc, cur, todo, status, cancelFlag, got, rest, parsed, dpc>>
      BY <1>23 DEF Executor, RunEnds, ZombieEnds, Enqueue
    <2>2. \A m \in Msgs : mq[m] # "absent" => mq'[m] = mq[m]
      BY <1>23, ZenonT(60) DEF Executor, RunEnds, ZombieEnds, Enqueue, Oldest, InState
    <2>3. \A m \in Msgs : InHand(m) => mq[m] # "absent"
      BY DEF InHand
    <2> QED BY <2>1, <2>2, <2>3
  <1>24. ASSUME NEW j \in Jobs, BatchCancelFlag(j) PROVE DeliveryInv'
    BY <1>24 DEF BatchCancelFlag
  <1>25. CASE UNCHANGED bvars
    BY <1>25 DEF bvars, vars
  <1> QED
    BY <1>1, <1>2, <1>3, <1>4, <1>5, <1>6, <1>7, <1>8, <1>9, <1>10, <1>11, <1>12, <1>13, <1>14,
       <1>15, <1>16, <1>17, <1>18, <1>19, <1>20, <1>21, <1>22, <1>23, <1>24, <1>25
    DEF BatchNextState, BatchConsumerStep, OneMessage, DeliveryStep, BatchLifespan,
       BatchDrainTimeout, BatchEnvironment

\* The accepted messages are pending, and their jobs not completed.
LEMMA BatchParsedInv ==
    ASSUME Types, WaitInv, RunInv, BatchAckInv, BatchHandInv,
           [BatchNextState]_bvars
    PROVE  ParsedInv'
  <1>q. pc \in Taking => \A m \in Msgs : dpc[m] = "off"
    BY Delivering
  <1> USE <1>q, JobsAssumption
      DEF Taking, InJob, InTry, InSkip, InParse, InBatch, redisVars, jobVars, lifeVars, outVars,
          ctlVars, batchVars, Types, RedisTypeOK, BatchCtlOK, BatchTypeOK, Points,
          NoMsg, Job, Working, BatchHandInv,
          OneInv, ParseInv, ParsedInv, DeliveryInv
  <1>1. CASE /\ OneMessage /\ UNCHANGED <<got, rest, parsed, pend, dpc>>
             /\ fallback' \in {fallback, FALSE}
    BY <1>1, OneMessagePoints
  <1>2. CASE BatchRead
    BY <1>2 DEF BatchRead, AfterRead, Deal, Dispatch, LoopHead, Oldest, InState
  <1>3. CASE BatchReadFails
    BY <1>3 DEF BatchReadFails, Escape, Oldest, InState
  <1>4. CASE AwaitDelivery
    BY <1>4 DEF AwaitDelivery, Deal, Dispatch, LoopHead, Escape
  <1>5. CASE BatchNext
    BY <1>5 DEF BatchNext, Oldest, LoopHead
  <1>6. CASE BatchStatus
    BY <1>6 DEF BatchStatus, Goto, Escape
  <1>7. CASE BatchCancel
    BY <1>7 DEF BatchCancel, CancelSignal, NoCancelSignal, NextParse, Goto, Escape
  <1>8. CASE BatchMark
    BY <1>8 DEF BatchMark, SafeHset, HsetRaises, Goto, Escape
  <1>9. CASE BatchAck
    BY <1>9 DEF BatchAck, SafeXack, XackRaises, NextParse, Escape
  <1>10. CASE BatchBegin
    BY <1>10 DEF BatchBegin, SafeHset, HsetRaises, Goto, Escape, Oldest
  <1>11. CASE BatchDone
    BY <1>11 DEF BatchDone, Goto, LoopHead
  <1>12. CASE BatchFails
    BY <1>12 DEF BatchFails
  <1>13. CASE FallbackNext
    BY <1>13 DEF FallbackNext, Oldest, Dispatch
  <1>14. ASSUME NEW m \in Msgs, DeliveryCheck(m) \/ DeliveryRecheck(m) PROVE ParsedInv'
    BY <1>14 DEF DeliveryCheck, DeliveryRecheck, DeliveryChecks, CancelSignal, NoCancelSignal,
       Deliver, DeliveryRaises
  <1>15. ASSUME NEW m \in Msgs, DeliveryComplete(m) \/ DeliveryMark(m) PROVE ParsedInv'
    BY <1>15 DEF DeliveryComplete, DeliveryMark, DeliveryWrites, SafeHset, HsetRaises, Deliver,
       DeliveryRaises
  <1>16. ASSUME NEW m \in Msgs, DeliveryPost(m) PROVE ParsedInv'
    BY <1>16 DEF DeliveryPost, Deliver
  <1>17. ASSUME NEW m \in Msgs, DeliveryAck(m) PROVE ParsedInv'
    BY <1>17 DEF DeliveryAck, SafeXack, XackRaises, DeliveryEnds, Deliver, DeliveryRaises
  <1>18. CASE Stop /\ UNCHANGED batchVars
    BY <1>18 DEF Stop
  <1>19. CASE BatchDrained \/ (DrainTimeout /\ UNCHANGED batchVars)
    <2>0. CancelConsumer /\ UNCHANGED <<got, rest, parsed, dpc>> /\ pend' \in {pend, "none"}
      BY <1>19 DEF BatchDrained, Drained, DrainTimeout
    <2>1. CASE CancelInTry
      BY <2>0, <2>1 DEF CancelConsumer, CancelInTry, RaiseThroughFinally, AbandonRun
    <2>2. CASE CancelSwallowed
      BY <2>0, <2>2 DEF CancelConsumer, CancelSwallowed, Goto
    <2>3. CASE CancelOutsideTry
      BY <2>0, <2>3 DEF CancelConsumer, CancelOutsideTry, Escape
    <2>4. CASE CancelTooLate
      BY <2>0, <2>4 DEF CancelConsumer, CancelTooLate
    <2> QED BY <2>0, <2>1, <2>2, <2>3, <2>4 DEF CancelConsumer
  <1>20. CASE DrainRaises \/ BatchExit \/ BatchCrash
    BY <1>20 DEF DrainRaises, BatchExit, BatchCrash, ProcessGone, Fresh, NoBatch, Orphaned,
       CompletedInHand
  <1>21. CASE pc = "await" /\ BatchDrainTimeout
    BY <1>21 DEF BatchDrainTimeout, Escape, Orphaned
  <1>22. CASE CloseClients
    BY <1>22 DEF CloseClients
  <1>23. CASE (Executor \/ Enqueue) /\ UNCHANGED batchVars
    <2>1. UNCHANGED <<pc, cur, todo, status, cancelFlag, got, rest, parsed, dpc>>
      BY <1>23 DEF Executor, RunEnds, ZombieEnds, Enqueue
    <2>2. \A m \in Msgs : mq[m] # "absent" => mq'[m] = mq[m]
      BY <1>23, ZenonT(60) DEF Executor, RunEnds, ZombieEnds, Enqueue, Oldest, InState
    <2>3. \A m \in Msgs : InHand(m) => mq[m] # "absent"
      BY DEF InHand
    <2> QED BY <2>1, <2>2, <2>3
  <1>24. ASSUME NEW j \in Jobs, BatchCancelFlag(j) PROVE ParsedInv'
    BY <1>24 DEF BatchCancelFlag
  <1>25. CASE UNCHANGED bvars
    BY <1>25 DEF bvars, vars
  <1> QED
    BY <1>1, <1>2, <1>3, <1>4, <1>5, <1>6, <1>7, <1>8, <1>9, <1>10, <1>11, <1>12, <1>13, <1>14,
       <1>15, <1>16, <1>17, <1>18, <1>19, <1>20, <1>21, <1>22, <1>23, <1>24, <1>25
    DEF BatchNextState, BatchConsumerStep, OneMessage, DeliveryStep, BatchLifespan,
       BatchDrainTimeout, BatchEnvironment

\* The messages of the read that the batch has not reached are pending.
LEMMA BatchParseInv ==
    ASSUME Types, WaitInv, RunInv, BatchAckInv, BatchHandInv,
           [BatchNextState]_bvars
    PROVE  ParseInv'
  <1>q. pc \in Taking => \A m \in Msgs : dpc[m] = "off"
    BY Delivering
  <1>h. \A m \in Msgs : InHand(m) /\ mq'[m] = mq[m] => InHand(m)'
    BY BatchHandKept
  <1>x. \A m \in Msgs : Excused(m) => Excused(m)'
    BY BatchExcusedKept
  <1>p. \A m \in Msgs : mq'[m] = "pending" => InHand(m)'
    BY DEF InHand
  <1> USE <1>q, <1>h, <1>x, <1>p, JobsAssumption
      DEF Taking, InJob, InTry, InSkip, InParse, InBatch, redisVars, jobVars, lifeVars, outVars,
          ctlVars, batchVars, Types, RedisTypeOK, BatchCtlOK, BatchTypeOK, Points,
          NoMsg, Job, Working, BatchHandInv,
          ListInv, OneInv, ParseInv, ParsedInv, DeliveryInv
  <1>1. CASE /\ OneMessage /\ UNCHANGED <<got, rest, parsed, pend, dpc>>
             /\ fallback' \in {fallback, FALSE}
    BY <1>1, OneMessagePoints
  <1>2. CASE BatchRead
    BY <1>2 DEF BatchRead, AfterRead, Deal, Dispatch, LoopHead, Oldest, InState
  <1>3. CASE BatchReadFails
    BY <1>3 DEF BatchReadFails, Escape, Oldest, InState
  <1>4. CASE AwaitDelivery
    BY <1>4 DEF AwaitDelivery, Deal, Dispatch, LoopHead, Escape
  <1>5. CASE BatchNext
    <2>1. UNCHANGED <<mq, status, cancelFlag, got, parsed>> /\ pc = "bNext"
      BY <1>5 DEF BatchNext
    <2>2. CASE \E m \in Oldest(rest, 1) : /\ rest' = rest \ {m} /\ cur' = m
                                          /\ pc' = IF m \in BadFields THEN "bAck" ELSE "bStatus"
      <3>1. PICK m \in rest : /\ rest' = rest \ {m} /\ cur' = m
                              /\ pc' = IF m \in BadFields THEN "bAck" ELSE "bStatus"
        BY <2>2 DEF Oldest
      <3>2. pc' = "bAck" => Excused(cur)'
        BY <3>1 DEF Excused
      <3> QED BY <2>1, <3>1, <3>2
    <2>3. CASE pc' \in {"bBegin", "read", "exited"}
      BY <2>1, <2>3
    <2> QED BY <1>5, <2>2, <2>3 DEF BatchNext, LoopHead
  <1>6. CASE BatchStatus
    <2>1. /\ UNCHANGED <<mq, status, cancelFlag, got, rest, parsed>> /\ pc = "bStatus"
          /\ \/ pc' = "bAck" /\ cur' = cur /\ status[Job] \in {"completed", "cancelled"}
             \/ pc' = "bCancel" /\ cur' = cur /\ status[Job] # "completed"
             \/ pc' \in {"dead", "sleep"}
      BY <1>6 DEF BatchStatus, SkipStates, Goto, Escape, ErrorKinds
    <2>2. status[Job] = "cancelled" => Job \in cancelFlag
      BY <2>1 DEF BatchAckInv
    <2>3. pc' = "bAck" => Excused(cur)'
      BY <2>1, <2>2 DEF Excused
    <2> QED BY <2>1, <2>3
  <1>7. CASE BatchCancel
    <2>1. /\ UNCHANGED <<mq, status, cancelFlag, got, rest>> /\ pc = "bCancel"
          /\ \/ pc' = "bMark" /\ cur' = cur /\ parsed' = parsed
             \/ pc' = "bAck" /\ cur' = cur /\ parsed' = parsed /\ cur \in BadIR
             \/ pc' = "bNext" /\ parsed' = parsed \cup {cur}
             \/ pc' \in {"dead", "sleep"}
      BY <1>7 DEF BatchCancel, NextParse, Goto, Escape, ErrorKinds
    <2>2. pc' = "bAck" => Excused(cur)'
      BY <2>1 DEF Excused
    <2> QED BY <2>1, <2>2
  <1>8. CASE BatchMark
    BY <1>8 DEF BatchMark, SafeHset, HsetRaises, Goto, Escape, Excused, BatchAckInv
  <1>9. CASE BatchAck
    <2>1. /\ UNCHANGED <<got, rest>> /\ pc = "bAck"
          /\ \/ pc' = "bNext" /\ parsed' = parsed
             \/ pc' \in {"dead", "sleep"}
      BY <1>9 DEF BatchAck, NextParse, Escape
    <2>2. mq' \in {mq, [mq EXCEPT ![cur] = "acked"]}
      BY <1>9 DEF BatchAck, SafeXack, XackRaises
    <2>3. \A m \in Msgs : m # cur => mq'[m] = mq[m]
      BY <2>2
    <2>4. ASSUME NEW m, m = cur PROVE InHand(m)'
      <3>1. m \in Msgs /\ Excused(m)' /\ mq'[m] \in {"pending", "acked"}
        BY <2>1, <2>2, <2>4
      <3> QED BY <3>1 DEF InHand
    <2> QED BY <2>1, <2>3, <2>4
  <1>10. CASE BatchBegin
    BY <1>10 DEF BatchBegin, SafeHset, HsetRaises, Goto, Escape, Oldest
  <1>11. CASE BatchDone
    BY <1>11 DEF BatchDone, Goto, LoopHead
  <1>12. CASE BatchFails
    BY <1>12 DEF BatchFails
  <1>13. CASE FallbackNext
    BY <1>13 DEF FallbackNext, Oldest, Dispatch
  <1>14. ASSUME NEW m \in Msgs, DeliveryCheck(m) \/ DeliveryRecheck(m) PROVE ParseInv'
    BY <1>14 DEF DeliveryCheck, DeliveryRecheck, DeliveryChecks, CancelSignal, NoCancelSignal,
       Deliver, DeliveryRaises
  <1>15. ASSUME NEW m \in Msgs, DeliveryComplete(m) \/ DeliveryMark(m) PROVE ParseInv'
    BY <1>15 DEF DeliveryComplete, DeliveryMark, DeliveryWrites, SafeHset, HsetRaises, Deliver,
       DeliveryRaises
  <1>16. ASSUME NEW m \in Msgs, DeliveryPost(m) PROVE ParseInv'
    BY <1>16 DEF DeliveryPost, Deliver
  <1>17. ASSUME NEW m \in Msgs, DeliveryAck(m) PROVE ParseInv'
    BY <1>17 DEF DeliveryAck, SafeXack, XackRaises, DeliveryEnds, Deliver, DeliveryRaises
  <1>18. CASE Stop /\ UNCHANGED batchVars
    BY <1>18 DEF Stop
  <1>19. CASE BatchDrained \/ (DrainTimeout /\ UNCHANGED batchVars)
    <2>0. CancelConsumer /\ UNCHANGED <<got, rest, parsed, dpc>> /\ pend' \in {pend, "none"}
      BY <1>19 DEF BatchDrained, Drained, DrainTimeout
    <2>1. CASE CancelInTry
      BY <2>0, <2>1 DEF CancelConsumer, CancelInTry, RaiseThroughFinally, AbandonRun
    <2>2. CASE CancelSwallowed
      BY <2>0, <2>2 DEF CancelConsumer, CancelSwallowed, Goto
    <2>3. CASE CancelOutsideTry
      BY <2>0, <2>3 DEF CancelConsumer, CancelOutsideTry, Escape
    <2>4. CASE CancelTooLate
      BY <2>0, <2>4 DEF CancelConsumer, CancelTooLate
    <2> QED BY <2>0, <2>1, <2>2, <2>3, <2>4 DEF CancelConsumer
  <1>20. CASE DrainRaises \/ BatchExit \/ BatchCrash
    BY <1>20 DEF DrainRaises, BatchExit, BatchCrash, ProcessGone, Fresh, NoBatch, Orphaned,
       CompletedInHand
  <1>21. CASE pc = "await" /\ BatchDrainTimeout
    BY <1>21 DEF BatchDrainTimeout, Escape, Orphaned
  <1>22. CASE CloseClients
    BY <1>22 DEF CloseClients
  <1>23. CASE (Executor \/ Enqueue) /\ UNCHANGED batchVars
    <2>1. UNCHANGED <<pc, cur, todo, status, cancelFlag, got, rest, parsed, dpc>>
      BY <1>23 DEF Executor, RunEnds, ZombieEnds, Enqueue
    <2>2. \A m \in Msgs : mq[m] # "absent" => mq'[m] = mq[m]
      BY <1>23, ZenonT(60) DEF Executor, RunEnds, ZombieEnds, Enqueue, Oldest, InState
    <2>3. \A m \in Msgs : InHand(m) => mq[m] # "absent"
      BY DEF InHand
    <2> QED BY <2>1, <2>2, <2>3
  <1>24. ASSUME NEW j \in Jobs, BatchCancelFlag(j) PROVE ParseInv'
    BY <1>24 DEF BatchCancelFlag
  <1>25. CASE UNCHANGED bvars
    BY <1>25 DEF bvars, vars
  <1> QED
    BY <1>1, <1>2, <1>3, <1>4, <1>5, <1>6, <1>7, <1>8, <1>9, <1>10, <1>11, <1>12, <1>13, <1>14,
       <1>15, <1>16, <1>17, <1>18, <1>19, <1>20, <1>21, <1>22, <1>23, <1>24, <1>25
    DEF BatchNextState, BatchConsumerStep, OneMessage, DeliveryStep, BatchLifespan,
       BatchDrainTimeout, BatchEnvironment

\* What the loop holds, all together.
LEMMA BatchHandStep ==
    ASSUME Types, WaitInv, RunInv, BatchAckInv, BatchHandInv, [BatchNextState]_bvars
    PROVE  BatchHandInv'
  BY BatchListInv, BatchOneInv, BatchParseInv, BatchParsedInv, BatchDeliveryInv DEF BatchHandInv

-----------------------------------------------------------------------------
(***************************************************************************)
(* The invariants of the batch consumer, and what they give.               *)
(***************************************************************************)
BatchInv == /\ Types /\ WaitInv /\ RunInv /\ BatchEarlyInv /\ BatchAckInv /\ BatchHandInv

\* Nothing is read, in hand or outstanding at first.
LEMMA BatchInitInv == ASSUME BatchInit PROVE BatchInv
  <1>1. TypeOK
    BY InitType DEF BatchInit
  <1>2. Types
    BY <1>1 DEF BatchInit, Init, TypeOK, CtlTypeOK, LifeTypeOK, Types, BatchCtlOK, BatchLifeOK,
       BatchTypeOK, Active, InSkip, InJob, InTry, InParse, InBatch, Points
  <1>3. WaitInv /\ RunInv
    BY DEF BatchInit, Init, WaitInv, RunInv, Unsettled
  <1>4. BatchEarlyInv
    BY DEF BatchInit, Init, BatchEarlyInv, EarlyInv
  <1>5. BatchAckInv
    BY JobsAssumption DEF BatchInit, Init, BatchAckInv, InTry
  <1>6. BatchHandInv
    BY DEF BatchInit, Init, BatchHandInv, ListInv, OneInv, ParseInv, ParsedInv, DeliveryInv, InSkip,
       InJob, InTry, InParse, InBatch
  <1> QED BY <1>2, <1>3, <1>4, <1>5, <1>6 DEF BatchInv

\* The conjunction is inductive.
LEMMA BatchInvariance == BatchSpec => []BatchInv
  <1>1. BatchInv /\ [BatchNextState]_bvars => BatchInv'
    BY BatchTypeStep, WaitStep, BatchRunStep, BatchEarlyStep, BatchAckStep, BatchHandStep
       DEF BatchInv
  <1> QED BY <1>1, BatchInitInv, PTL DEF BatchSpec

\* What the loop has still to reach and what it accepted are part of what it read last, for
\* every read count; a running delivery task has a coroutine left, and without a task, or after
\* one that ended well, there is none.  Of a failed gather, which may leave some, nothing is said.
THEOREM BatchTypes == BatchSpec => []BatchTypeOK
  <1>1. BatchInv => BatchTypeOK
    BY DEF BatchInv, Types
  <1> QED BY <1>1, BatchInvariance, PTL

\* The cancel checks of concurrent deliveries (468, 478) and of the one-message path keep
\* every job cancelled in time from being reported, for any number of both.
THEOREM BatchEarlyCancelAlwaysWins == BatchSpec => []BatchEarlyCancelWins
  <1>1. BatchInv => BatchEarlyCancelWins
    BY DEF BatchInv, BatchEarlyInv, EarlyInv, BatchEarlyCancelWins, EarlyCancelWins
  <1> QED BY <1>1, BatchInvariance, PTL

\* No batch, delivery, fallback or shutdown loses a job silently, except those recorded as
\* cut short and those whose circuit does not parse.
THEOREM BatchNoOtherSilentAckEver == BatchSpec => []BatchNoOtherSilentAck
  <1>1. BatchInv => BatchNoOtherSilentAck
    BY DEF BatchInv, BatchAckInv, BatchNoOtherSilentAck, Settled
  <1> QED BY <1>1, BatchInvariance, PTL

\* The wait at 201-203 keeps the hardware free while results are delivered, although the
\* loop already reads on.
THEOREM HardwareAlwaysWaits == BatchSpec => []HardwareWaitsForDelivery
  <1>1. BatchInv => HardwareWaitsForDelivery
    <2> SUFFICES ASSUME BatchInv, pc = "bRun" \/ exec = "running" PROVE Active = {}
      BY DEF HardwareWaitsForDelivery
    <2>1. pc \in Taking
      BY DEF BatchInv, RunInv, Taking, InJob, InTry, InBatch
    <2> QED BY <2>1 DEF BatchInv, WaitInv, Types, BatchTypeOK
  <1> QED BY <1>1, BatchInvariance, PTL

\* drain returns clean only when the last coroutine of the delivery has ended.
THEOREM CleanDrainDelivers == BatchSpec => CleanDrainDeliversAll
  <1>1. BatchInv => (BatchDrained => Active = {})
    BY DEF BatchInv, Types, BatchTypeOK, BatchDrained
  <1>2. BatchInv /\ [BatchNextState]_bvars => [BatchDrained => Active = {}]_bvars
    BY <1>1
  <1> QED BY <1>2, BatchInvariance, PTL DEF BatchSpec, CleanDrainDeliversAll

-----------------------------------------------------------------------------
(***************************************************************************)
(* What is on the hardware, and what stays final: the properties of the    *)
(* one-message path that the batch path keeps, as they are or weakened.    *)
(***************************************************************************)
\* While no Redis operation has failed, Redis knows every accepted result, and neither the
\* job at hand nor a job of the batch is one of them.
BatchDeliverInv ==
    /\ DeliverInv
    /\ faults = 0 =>
          /\ pc = "bCancel" => Job \notin delivered
          /\ pc \in InBatch => \A m \in parsed : JobOf[m] \notin delivered
          /\ \A m \in Msgs : dpc[m] \in Tells => status[JobOf[m]] \in SkipStates

\* From the first status of a batch to the end of its delivery the node is not idle.
BatchBusyInv ==
    /\ BusyIsVisible
    /\ pc \in {"bBegin", "bRun"} \/ pend = "active" => ~idle

\* A job that only one message carries: no other copy of it writes its status.
CarriedOnce(j) == \A m, n \in Msgs : JobOf[m] = j /\ JobOf[n] = j => m = n

\* Such a job is not cancelled between its status check and the end of its delivery.
BatchFinalInv ==
    /\ pc = "bCancel" /\ CarriedOnce(Job) => status[Job] # "cancelled"
    /\ \A m \in Msgs : CarriedOnce(JobOf[m]) =>
          /\ pc \in InBatch /\ m \in parsed => status[JobOf[m]] # "cancelled"
          /\ dpc[m] \in {"check", "complete"} \cup Tells => status[JobOf[m]] # "cancelled"

\* While no Redis operation has failed none fails in this step either.
LEMMA NoFaultYet ==
    ASSUME faults \in Nat, [BatchNextState]_bvars, faults' = 0
    PROVE  faults = 0 /\ \A k : ~Fault(k)
  <1>1. \A k : ~Fault(k)
    BY DEF Fault
  <1>2. faults' = faults
    <2> USE <1>1 DEF SafeHset, HsetRaises, SafeXack, XackRaises, CancelSignal, NoCancelSignal
    <2>1. CASE \/ Setup \/ Scan \/ Fetch \/ Wake \/ CheckStatus \/ CheckCancel \/ MarkSkip
               \/ SkipAck \/ Begin \/ RunDone \/ RunTimeout \/ Poll
      BY <2>1 DEF Setup, Scan, Fetch, Wake, CheckStatus, CheckCancel, MarkSkip, SkipAck, Begin,
         RunDone, RunTimeout, Poll
    <2>2. CASE \/ Halt \/ CheckAfterRun \/ Complete \/ CheckBeforePost \/ Post \/ HandleException
               \/ Fail \/ PostError \/ MarkCancelled \/ Finally
      BY <2>2 DEF Halt, CheckAfterRun, Complete, CheckBeforePost, Post, HandleException, Fail,
         PostError, MarkCancelled, Finally, CheckedGoto
    <2>3. CASE \/ BatchRead \/ BatchReadFails \/ AwaitDelivery \/ BatchNext \/ BatchStatus
               \/ BatchCancel \/ BatchMark \/ BatchAck \/ BatchBegin \/ BatchDone \/ BatchFails
               \/ FallbackNext
      BY <2>3 DEF BatchRead, BatchReadFails, AwaitDelivery, BatchNext, BatchStatus, BatchCancel,
         BatchMark, BatchAck, BatchBegin, BatchDone, BatchFails, FallbackNext
    <2>4. CASE DeliveryStep
      BY <2>4 DEF DeliveryStep, DeliveryCheck, DeliveryComplete, DeliveryRecheck, DeliveryMark,
         DeliveryPost, DeliveryAck, DeliveryChecks, DeliveryWrites
    <2>5. CASE BatchLifespan
      BY <2>5 DEF BatchLifespan, Start, Stop, BatchDrained, Drained, DrainRaises,
         BatchDrainTimeout, DrainTimeout, CancelConsumer, CloseClients, BatchExit, BatchCrash,
         ProcessGone
    <2>6. CASE BatchEnvironment \/ UNCHANGED bvars
      BY <2>6 DEF BatchEnvironment, Executor, RunEnds, ZombieEnds, Enqueue, BatchCancelFlag, bvars,
         vars
    <2> QED
      BY <2>1, <2>2, <2>3, <2>4, <2>5, <2>6 DEF BatchNextState, BatchConsumerStep, ProcessMessage
  <1> QED BY <1>1, <1>2

\* Results are accepted only while the loop has taken on nothing.
LEMMA BatchDeliverStep ==
    ASSUME Types, WaitInv, ParsedInv, BatchDeliverInv, [BatchNextState]_bvars
    PROVE  BatchDeliverInv'
  <1> USE JobsAssumption
      DEF WaitInv, Taking, InJob, InTry, InSkip, InParse, InBatch, redisVars, jobVars, lifeVars,
          outVars, ctlVars, batchVars, Types, RedisTypeOK, BatchCtlOK, BatchTypeOK, Points, Job,
          Active, BatchDeliverInv, DeliverInv, SkipStates, Tells, ParsedInv
  <1> SUFFICES ASSUME faults' = 0 PROVE BatchDeliverInv'
    OBVIOUS
  <1>0. faults = 0 /\ \A k : ~Fault(k)
    BY NoFaultYet DEF BatchLifeOK
  <1> USE <1>0
  <1>1. CASE /\ OneMessage /\ UNCHANGED <<got, rest, parsed, pend, dpc>>
             /\ fallback' \in {fallback, FALSE}
    <2>1. DeliverInv'
      BY <1>1, OneMessageState, DeliverStep
    <2>2. TypeOK /\ Next
      BY <1>1, OneMessageState
    <2>3. pc' \notin InBatch
      BY <1>1, OneMessageTypes, <2>2, TypeStep DEF TypeOK, CtlTypeOK
    <2>4. \A m \in Msgs : dpc[m] = "off" \/ status' = status
      BY <1>1, Delivering DEF OneMessage, Setup, Wake, Scan, Fetch, Start, ProcessMessage,
         CheckStatus, CheckCancel, SkipAck, RunDone, RunTimeout, Poll, Halt, CheckAfterRun,
         CheckBeforePost, Post, HandleException, PostError, Finally, MarkSkip, Begin, Complete,
         Fail, MarkCancelled
    <2> QED BY <1>1, <2>1, <2>3, <2>4
  <1>2. CASE BatchRead
    BY <1>2 DEF BatchRead, AfterRead, Deal, Dispatch, LoopHead, Oldest, InState
  <1>3. CASE BatchReadFails
    BY <1>3 DEF BatchReadFails, Escape, Oldest, InState
  <1>4. CASE AwaitDelivery
    <2>1. pc = "await" /\ UNCHANGED <<status, delivered, parsed, dpc>>
      BY <1>4 DEF AwaitDelivery
    <2>2. pc' \in {"bNext", "skipAck", "status", "read", "exited", "scan", "dead", "sleep"}
      BY <1>4 DEF AwaitDelivery, Deal, Dispatch, LoopHead, Escape
    <2> QED BY <2>1, <2>2
  <1>5. CASE BatchNext
    BY <1>5 DEF BatchNext, Oldest, LoopHead
  <1>6. CASE BatchStatus
    BY <1>6 DEF BatchStatus, Goto, Escape
  <1>7. CASE BatchCancel
    BY <1>7 DEF BatchCancel, CancelSignal, NoCancelSignal, NextParse, Goto, Escape
  <1>8. CASE BatchMark
    <2>1. /\ pc = "bMark" /\ pc' = "bAck" /\ status' = [status EXCEPT ![Job] = "cancelled"]
          /\ UNCHANGED <<cur, delivered, parsed, dpc>>
      BY <1>8 DEF BatchMark, SafeHset, HsetRaises, Goto, Escape
    <2>2. Job \in Jobs /\ \A m \in Msgs : dpc[m] = "off"
      BY <2>1
    <2> QED BY <2>1, <2>2
  <1>9. CASE BatchAck
    BY <1>9 DEF BatchAck, SafeXack, XackRaises, NextParse, Escape
  <1>10. CASE BatchBegin
    <2>1. PICK m \in rest : /\ status' = [status EXCEPT ![JobOf[m]] = "executing"]
                            /\ pc = "bBegin" /\ pc' \in {"bRun", "bBegin"}
                            /\ UNCHANGED <<cur, delivered, parsed, dpc>>
      BY <1>10 DEF BatchBegin, SafeHset, HsetRaises, Goto, Escape, Oldest
    <2>2. m \in parsed /\ JobOf[m] \in Jobs /\ JobOf[m] \notin delivered
      BY <2>1
    <2>3. \A n \in Msgs : dpc[n] = "off"
      BY <2>1
    <2> QED BY <2>1, <2>2, <2>3
  <1>11. CASE BatchDone
    BY <1>11 DEF BatchDone, Goto, LoopHead
  <1>12. CASE BatchFails
    BY <1>12 DEF BatchFails
  <1>13. CASE FallbackNext
    BY <1>13 DEF FallbackNext, Oldest, Dispatch
  <1>14. ASSUME NEW m \in Msgs, DeliveryCheck(m) \/ DeliveryRecheck(m) PROVE BatchDeliverInv'
    BY <1>14 DEF DeliveryCheck, DeliveryRecheck, DeliveryChecks, CancelSignal, NoCancelSignal,
       Deliver, DeliveryRaises
  <1>15. ASSUME NEW m \in Msgs, DeliveryComplete(m) \/ DeliveryMark(m) PROVE BatchDeliverInv'
    <2>1. pc \notin Taking
      BY <1>15, Delivering DEF DeliveryComplete, DeliveryMark
    <2>2. \E s \in SkipStates, p \in {"recheck", "ack"} :
             status' = [status EXCEPT ![JobOf[m]] = s] /\ dpc' = [dpc EXCEPT ![m] = p]
      BY <1>15 DEF DeliveryComplete, DeliveryMark, DeliveryWrites, SafeHset, HsetRaises, Deliver
    <2>3. UNCHANGED <<pc, delivered>>
      BY <1>15 DEF DeliveryComplete, DeliveryMark, DeliveryWrites
    <2>4. \A j \in Jobs : status[j] \in SkipStates => status'[j] \in SkipStates
      BY <2>2
    <2>5. \A n \in Msgs : dpc'[n] \in Tells => status'[JobOf[n]] \in SkipStates
      BY <2>2, <2>4
    <2>6. \A j \in delivered' : status'[j] \in SkipStates
      BY <2>3, <2>4 DEF OutTypeOK
    <2> QED BY <2>1, <2>3, <2>5, <2>6
  <1>16. ASSUME NEW m \in Msgs, DeliveryPost(m) PROVE BatchDeliverInv'
    BY <1>16 DEF DeliveryPost, Deliver
  <1>17. ASSUME NEW m \in Msgs, DeliveryAck(m) PROVE BatchDeliverInv'
    BY <1>17 DEF DeliveryAck, SafeXack, XackRaises, DeliveryEnds, Deliver, DeliveryRaises
  <1>18. CASE Stop /\ UNCHANGED batchVars
    BY <1>18 DEF Stop
  <1>19. CASE BatchDrained \/ (DrainTimeout /\ UNCHANGED batchVars)
    <2>0. CancelConsumer /\ UNCHANGED <<got, rest, parsed, dpc>> /\ pend' \in {pend, "none"}
      BY <1>19 DEF BatchDrained, Drained, DrainTimeout
    <2>1. CASE CancelInTry
      BY <2>0, <2>1 DEF CancelConsumer, CancelInTry, RaiseThroughFinally, AbandonRun
    <2>2. CASE CancelSwallowed
      BY <2>0, <2>2 DEF CancelConsumer, CancelSwallowed, Goto
    <2>3. CASE CancelOutsideTry
      <3>1. /\ pc' = "exited" /\ UNCHANGED <<delivered, dpc>>
            /\ \/ status' = status
               \/ pc = "begin" /\ status' = [status EXCEPT ![Job] = "executing"]
        BY <2>0, <2>3 DEF CancelOutsideTry, Escape
      <3>2. CASE status' = status
        BY <3>1, <3>2
      <3>3. CASE pc = "begin" /\ status' = [status EXCEPT ![Job] = "executing"]
        <4>1. Job \in Jobs /\ Job \notin delivered /\ \A m \in Msgs : dpc[m] = "off"
          BY <3>3
        <4> QED BY <3>1, <3>3, <4>1
      <3> QED BY <3>1, <3>2, <3>3
    <2>4. CASE CancelTooLate
      BY <2>0, <2>4 DEF CancelConsumer, CancelTooLate
    <2> QED BY <2>0, <2>1, <2>2, <2>3, <2>4 DEF CancelConsumer
  <1>20. CASE DrainRaises \/ BatchExit \/ BatchCrash
    BY <1>20 DEF DrainRaises, BatchExit, BatchCrash, ProcessGone, Fresh, NoBatch, Orphaned,
       CompletedInHand
  <1>21. CASE pc = "await" /\ BatchDrainTimeout
    BY <1>21 DEF BatchDrainTimeout, Escape, Orphaned
  <1>22. CASE CloseClients
    BY <1>22 DEF CloseClients
  <1>23. CASE (Executor \/ Enqueue) /\ UNCHANGED batchVars
    BY <1>23 DEF Executor, RunEnds, ZombieEnds, Enqueue, Oldest, InState
  <1>24. ASSUME NEW j \in Jobs, BatchCancelFlag(j) PROVE BatchDeliverInv'
    BY <1>24 DEF BatchCancelFlag
  <1>25. CASE UNCHANGED bvars
    BY <1>25 DEF bvars, vars
  <1> QED
    BY <1>1, <1>2, <1>3, <1>4, <1>5, <1>6, <1>7, <1>8, <1>9, <1>10, <1>11, <1>12, <1>13, <1>14,
       <1>15, <1>16, <1>17, <1>18, <1>19, <1>20, <1>21, <1>22, <1>23, <1>24, <1>25
    DEF BatchNextState, BatchConsumerStep, OneMessage, DeliveryStep, BatchLifespan,
       BatchDrainTimeout, BatchEnvironment

\* _idle_event is cleared before the first HSET of a batch and set when its delivery ends.
LEMMA BatchBusyStep ==
    ASSUME Types, WaitInv, RunInv, BatchBusyInv, [BatchNextState]_bvars
    PROVE  BatchBusyInv'
  <1> USE JobsAssumption
      DEF WaitInv, Taking, InJob, InTry, InSkip, InParse, InBatch, redisVars, jobVars, lifeVars,
          outVars, ctlVars, batchVars, Types, RedisTypeOK, BatchCtlOK, BatchTypeOK, Points, Job,
          Active, BatchLifeOK, JobTypeOK, BatchBusyInv, BusyIsVisible, RunInv
  <1>1. CASE /\ OneMessage /\ UNCHANGED <<got, rest, parsed, pend, dpc>>
             /\ fallback' \in {fallback, FALSE}
    <2>1. TypeOK /\ Next
      BY <1>1, OneMessageState
    <2>2. BusyIsVisible'
      BY <2>1, BusyStep
    <2>3. pc' \notin InBatch
      BY <2>1, TypeStep DEF TypeOK, CtlTypeOK
    <2>4. pend = "active" => idle' = idle
      BY <1>1 DEF OneMessage, Setup, Wake, Scan, Fetch, Start, ProcessMessage, CheckStatus,
         CheckCancel, MarkSkip, SkipAck, Begin, RunDone, RunTimeout, Poll, Halt, CheckAfterRun,
         Complete, CheckBeforePost, Post, HandleException, Fail, PostError, MarkCancelled,
         Finally
    <2> QED BY <1>1, <2>2, <2>3, <2>4
  <1>2. CASE BatchRead
    BY <1>2 DEF BatchRead, AfterRead, Deal, Dispatch, LoopHead, Oldest, InState
  <1>3. CASE BatchReadFails
    BY <1>3 DEF BatchReadFails, Escape, Oldest, InState
  <1>4. CASE AwaitDelivery
    BY <1>4 DEF AwaitDelivery, Deal, Dispatch, LoopHead, Escape
  <1>5. CASE BatchNext
    BY <1>5 DEF BatchNext, Oldest, LoopHead
  <1>6. CASE BatchStatus
    BY <1>6 DEF BatchStatus, Goto, Escape
  <1>7. CASE BatchCancel
    BY <1>7 DEF BatchCancel, CancelSignal, NoCancelSignal, NextParse, Goto, Escape
  <1>8. CASE BatchMark
    BY <1>8 DEF BatchMark, SafeHset, HsetRaises, Goto, Escape
  <1>9. CASE BatchAck
    BY <1>9 DEF BatchAck, SafeXack, XackRaises, NextParse, Escape
  <1>10. CASE BatchBegin
    BY <1>10 DEF BatchBegin, SafeHset, HsetRaises, Goto, Escape, Oldest
  <1>11. CASE BatchDone
    BY <1>11 DEF BatchDone, Goto, LoopHead
  <1>12. CASE BatchFails
    BY <1>12 DEF BatchFails
  <1>13. CASE FallbackNext
    BY <1>13 DEF FallbackNext, Oldest, Dispatch
  <1>14. ASSUME NEW m \in Msgs, DeliveryCheck(m) \/ DeliveryRecheck(m) PROVE BatchBusyInv'
    <2>1. pc \notin Taking
      BY <1>14, Delivering DEF DeliveryCheck, DeliveryRecheck
    <2>2. pc' = pc /\ ((idle' = idle /\ pend' = pend) \/ pend' \in ErrorKinds)
      BY <1>14 DEF DeliveryCheck, DeliveryRecheck, DeliveryChecks, DeliveryRaises
    <2> QED BY <2>1, <2>2 DEF ErrorKinds
  <1>15. ASSUME NEW m \in Msgs, DeliveryComplete(m) \/ DeliveryMark(m) PROVE BatchBusyInv'
    <2>1. pc \notin Taking
      BY <1>15, Delivering DEF DeliveryComplete, DeliveryMark
    <2>2. pc' = pc /\ ((idle' = idle /\ pend' = pend) \/ pend' = "other")
      BY <1>15 DEF DeliveryComplete, DeliveryMark, DeliveryWrites, DeliveryRaises
    <2> QED BY <2>1, <2>2
  <1>16. ASSUME NEW m \in Msgs, DeliveryPost(m) PROVE BatchBusyInv'
    BY <1>16 DEF DeliveryPost, Deliver
  <1>17. ASSUME NEW m \in Msgs, DeliveryAck(m) PROVE BatchBusyInv'
    BY <1>17 DEF DeliveryAck, SafeXack, XackRaises, DeliveryEnds, Deliver, DeliveryRaises
  <1>18. CASE Stop /\ UNCHANGED batchVars
    BY <1>18 DEF Stop
  <1>19. CASE BatchDrained \/ (DrainTimeout /\ UNCHANGED batchVars)
    <2>0. CancelConsumer /\ UNCHANGED <<got, rest, parsed, dpc>> /\ pend' \in {pend, "none"}
      BY <1>19 DEF BatchDrained, Drained, DrainTimeout
    <2>1. CASE CancelInTry
      BY <2>0, <2>1 DEF CancelConsumer, CancelInTry, RaiseThroughFinally, AbandonRun
    <2>2. CASE CancelSwallowed
      BY <2>0, <2>2 DEF CancelConsumer, CancelSwallowed, Goto
    <2>3. CASE CancelOutsideTry
      BY <2>0, <2>3 DEF CancelConsumer, CancelOutsideTry, Escape
    <2>4. CASE CancelTooLate
      BY <2>0, <2>4 DEF CancelConsumer, CancelTooLate
    <2> QED BY <2>0, <2>1, <2>2, <2>3, <2>4 DEF CancelConsumer
  <1>20. CASE DrainRaises \/ BatchExit \/ BatchCrash
    BY <1>20 DEF DrainRaises, BatchExit, BatchCrash, ProcessGone, Fresh, NoBatch, Orphaned,
       CompletedInHand
  <1>21. CASE pc = "await" /\ BatchDrainTimeout
    BY <1>21 DEF BatchDrainTimeout, Escape, Orphaned
  <1>22. CASE CloseClients
    BY <1>22 DEF CloseClients
  <1>23. CASE (Executor \/ Enqueue) /\ UNCHANGED batchVars
    BY <1>23 DEF Executor, RunEnds, ZombieEnds, Enqueue, Oldest, InState
  <1>24. ASSUME NEW j \in Jobs, BatchCancelFlag(j) PROVE BatchBusyInv'
    BY <1>24 DEF BatchCancelFlag
  <1>25. CASE UNCHANGED bvars
    BY <1>25 DEF bvars, vars
  <1> QED
    BY <1>1, <1>2, <1>3, <1>4, <1>5, <1>6, <1>7, <1>8, <1>9, <1>10, <1>11, <1>12, <1>13, <1>14,
       <1>15, <1>16, <1>17, <1>18, <1>19, <1>20, <1>21, <1>22, <1>23, <1>24, <1>25
    DEF BatchNextState, BatchConsumerStep, OneMessage, DeliveryStep, BatchLifespan,
       BatchDrainTimeout, BatchEnvironment

\* Without a Redis error an abandoned run is left only by the cancel that ends the task.
LEMMA BatchZombieStep ==
    ASSUME Types, ZombieInv, [BatchNextState]_bvars
    PROVE  ZombieInv'
  <1> USE JobsAssumption
      DEF WaitInv, Taking, InJob, InTry, InSkip, InParse, InBatch, redisVars, jobVars, lifeVars,
          outVars, ctlVars, batchVars, Types, RedisTypeOK, BatchCtlOK, BatchTypeOK, Points, Job,
          Active, JobTypeOK, ZombieInv
  <1> SUFFICES ASSUME faults' = 0 PROVE ZombieInv'
    OBVIOUS
  <1>0. faults = 0 /\ \A k : ~Fault(k)
    BY NoFaultYet DEF BatchLifeOK
  <1> USE <1>0
  <1>1. CASE /\ OneMessage /\ UNCHANGED <<got, rest, parsed, pend, dpc>>
             /\ fallback' \in {fallback, FALSE}
    BY <1>1, OneMessageState, ZombieStep
  <1>2. CASE BatchRead
    BY <1>2 DEF BatchRead, AfterRead, Deal, Dispatch, LoopHead, Oldest, InState
  <1>3. CASE BatchReadFails
    BY <1>3 DEF BatchReadFails, Escape, Oldest, InState
  <1>4. CASE AwaitDelivery
    BY <1>4 DEF AwaitDelivery, Deal, Dispatch, LoopHead, Escape
  <1>5. CASE BatchNext
    BY <1>5 DEF BatchNext, Oldest, LoopHead
  <1>6. CASE BatchStatus
    BY <1>6 DEF BatchStatus, Goto, Escape
  <1>7. CASE BatchCancel
    BY <1>7 DEF BatchCancel, CancelSignal, NoCancelSignal, NextParse, Goto, Escape
  <1>8. CASE BatchMark
    BY <1>8 DEF BatchMark, SafeHset, HsetRaises, Goto, Escape
  <1>9. CASE BatchAck
    BY <1>9 DEF BatchAck, SafeXack, XackRaises, NextParse, Escape
  <1>10. CASE BatchBegin
    BY <1>10 DEF BatchBegin, SafeHset, HsetRaises, Goto, Escape, Oldest
  <1>11. CASE BatchDone
    BY <1>11 DEF BatchDone, Goto, LoopHead
  <1>12. CASE BatchFails
    BY <1>12 DEF BatchFails
  <1>13. CASE FallbackNext
    BY <1>13 DEF FallbackNext, Oldest, Dispatch
  <1>14. ASSUME NEW m \in Msgs, DeliveryCheck(m) \/ DeliveryRecheck(m) PROVE ZombieInv'
    BY <1>14 DEF DeliveryCheck, DeliveryRecheck, DeliveryChecks, CancelSignal, NoCancelSignal,
       Deliver, DeliveryRaises
  <1>15. ASSUME NEW m \in Msgs, DeliveryComplete(m) \/ DeliveryMark(m) PROVE ZombieInv'
    BY <1>15 DEF DeliveryComplete, DeliveryMark, DeliveryWrites
  <1>16. ASSUME NEW m \in Msgs, DeliveryPost(m) PROVE ZombieInv'
    BY <1>16 DEF DeliveryPost, Deliver
  <1>17. ASSUME NEW m \in Msgs, DeliveryAck(m) PROVE ZombieInv'
    BY <1>17 DEF DeliveryAck, SafeXack, XackRaises, DeliveryEnds, Deliver, DeliveryRaises
  <1>18. CASE Stop /\ UNCHANGED batchVars
    BY <1>18 DEF Stop
  <1>19. CASE BatchDrained \/ (DrainTimeout /\ UNCHANGED batchVars)
    <2>0. CancelConsumer /\ UNCHANGED <<got, rest, parsed, dpc>> /\ pend' \in {pend, "none"}
      BY <1>19 DEF BatchDrained, Drained, DrainTimeout
    <2>1. CASE CancelInTry
      BY <2>0, <2>1 DEF CancelConsumer, CancelInTry, RaiseThroughFinally, AbandonRun
    <2>2. CASE CancelSwallowed
      BY <2>0, <2>2 DEF CancelConsumer, CancelSwallowed, Goto
    <2>3. CASE CancelOutsideTry
      BY <2>0, <2>3 DEF CancelConsumer, CancelOutsideTry, Escape
    <2>4. CASE CancelTooLate
      BY <2>0, <2>4 DEF CancelConsumer, CancelTooLate
    <2> QED BY <2>0, <2>1, <2>2, <2>3, <2>4 DEF CancelConsumer
  <1>20. CASE DrainRaises \/ BatchExit \/ BatchCrash
    BY <1>20 DEF DrainRaises, BatchExit, BatchCrash, ProcessGone, Fresh, NoBatch, Orphaned,
       CompletedInHand
  <1>21. CASE pc = "await" /\ BatchDrainTimeout
    BY <1>21 DEF BatchDrainTimeout, Escape, Orphaned
  <1>22. CASE CloseClients
    BY <1>22 DEF CloseClients
  <1>23. CASE (Executor \/ Enqueue) /\ UNCHANGED batchVars
    BY <1>23 DEF Executor, RunEnds, ZombieEnds, Enqueue, Oldest, InState
  <1>24. ASSUME NEW j \in Jobs, BatchCancelFlag(j) PROVE ZombieInv'
    BY <1>24 DEF BatchCancelFlag
  <1>25. CASE UNCHANGED bvars
    BY <1>25 DEF bvars, vars
  <1> QED
    BY <1>1, <1>2, <1>3, <1>4, <1>5, <1>6, <1>7, <1>8, <1>9, <1>10, <1>11, <1>12, <1>13, <1>14,
       <1>15, <1>16, <1>17, <1>18, <1>19, <1>20, <1>21, <1>22, <1>23, <1>24, <1>25
    DEF BatchNextState, BatchConsumerStep, OneMessage, DeliveryStep, BatchLifespan,
       BatchDrainTimeout, BatchEnvironment

\* Only the copy of a message that saw the cancel flag marks the job cancelled, and it goes no
\* further.
LEMMA BatchFinalStep ==
    ASSUME Types, WaitInv, ParseInv, ParsedInv, BatchFinalInv, [BatchNextState]_bvars
    PROVE  BatchFinalInv'
  <1> USE JobsAssumption
      DEF WaitInv, Taking, InJob, InTry, InSkip, InParse, InBatch, redisVars, jobVars, lifeVars,
          outVars, ctlVars, batchVars, Types, RedisTypeOK, BatchCtlOK, BatchTypeOK, Points, Job,
          Active, BatchFinalInv, CarriedOnce, Tells, SkipStates, ParseInv, ParsedInv
  <1>1. CASE /\ OneMessage /\ UNCHANGED <<got, rest, parsed, pend, dpc>>
             /\ fallback' \in {fallback, FALSE}
    <2>1. TypeOK /\ Next
      BY <1>1, OneMessageState
    <2>2. pc' \notin InBatch
      BY <2>1, TypeStep DEF TypeOK, CtlTypeOK
    <2>3. \A m \in Msgs : dpc[m] = "off" \/ status' = status
      BY <1>1, Delivering DEF OneMessage, Setup, Wake, Scan, Fetch, Start, ProcessMessage,
         CheckStatus, CheckCancel, SkipAck, RunDone, RunTimeout, Poll, Halt, CheckAfterRun,
         CheckBeforePost, Post, HandleException, PostError, Finally, MarkSkip, Begin, Complete,
         Fail, MarkCancelled
    <2> QED BY <1>1, <2>2, <2>3
  <1>2. CASE BatchRead
    BY <1>2 DEF BatchRead, AfterRead, Deal, Dispatch, LoopHead, Oldest, InState
  <1>3. CASE BatchReadFails
    BY <1>3 DEF BatchReadFails, Escape, Oldest, InState
  <1>4. CASE AwaitDelivery
    BY <1>4 DEF AwaitDelivery, Deal, Dispatch, LoopHead, Escape
  <1>5. CASE BatchNext
    BY <1>5 DEF BatchNext, Oldest, LoopHead
  <1>6. CASE BatchStatus
    BY <1>6 DEF BatchStatus, Goto, Escape
  <1>7. CASE BatchCancel
    <2>1. pc = "bCancel" /\ UNCHANGED <<status, dpc>>
      BY <1>7 DEF BatchCancel
    <2>2. pc' \in {"bMark", "bAck", "bNext", "dead", "sleep", "exited"}
      BY <1>7 DEF BatchCancel, NextParse, Goto, Escape
    <2>3. parsed' \in {parsed, parsed \cup {cur}}
      BY <1>7 DEF BatchCancel, NextParse
    <2> QED BY <2>1, <2>2, <2>3
  <1>8. CASE BatchMark
    BY <1>8 DEF BatchMark, SafeHset, HsetRaises, Goto, Escape
  <1>9. CASE BatchAck
    BY <1>9 DEF BatchAck, SafeXack, XackRaises, NextParse, Escape
  <1>10. CASE BatchBegin
    BY <1>10 DEF BatchBegin, SafeHset, HsetRaises, Goto, Escape, Oldest
  <1>11. CASE BatchDone
    BY <1>11 DEF BatchDone, Goto, LoopHead
  <1>12. CASE BatchFails
    BY <1>12 DEF BatchFails
  <1>13. CASE FallbackNext
    BY <1>13 DEF FallbackNext, Oldest, Dispatch
  <1>14. ASSUME NEW m \in Msgs, DeliveryCheck(m) \/ DeliveryRecheck(m) PROVE BatchFinalInv'
    BY <1>14 DEF DeliveryCheck, DeliveryRecheck, DeliveryChecks, CancelSignal, NoCancelSignal,
       Deliver, DeliveryRaises
  <1>15. ASSUME NEW m \in Msgs, DeliveryComplete(m) \/ DeliveryMark(m) PROVE BatchFinalInv'
    <2>1. pc \notin Taking /\ pc' = pc
      BY <1>15, Delivering DEF DeliveryComplete, DeliveryMark, DeliveryWrites
    <2>2. \E s \in {"completed", "cancelled"} :
             status' \in {status, [status EXCEPT ![JobOf[m]] = s]}
      BY <1>15 DEF DeliveryComplete, DeliveryMark, DeliveryWrites, SafeHset, HsetRaises
    <2>3. \A n \in Msgs \ {m} : dpc'[n] = dpc[n]
      BY <1>15 DEF DeliveryComplete, DeliveryMark, DeliveryWrites, Deliver, DeliveryRaises
    <2>4. \A n \in Msgs : CarriedOnce(JobOf[n]) /\ n # m => status'[JobOf[n]] = status[JobOf[n]]
      BY <2>2
    <2>5. \/ dpc'[m] \in {"off", "ack"}
          \/ /\ dpc[m] = "complete"
             /\ status' \in {status, [status EXCEPT ![JobOf[m]] = "completed"]}
      BY <1>15 DEF DeliveryComplete, DeliveryMark, DeliveryWrites, SafeHset, HsetRaises, Deliver,
         DeliveryRaises
    <2>6. CarriedOnce(JobOf[m]) /\ dpc'[m] \notin {"off", "ack"} => status'[JobOf[m]] # "cancelled"
      BY <2>5
    <2> QED BY <2>1, <2>3, <2>4, <2>6
  <1>16. ASSUME NEW m \in Msgs, DeliveryPost(m) PROVE BatchFinalInv'
    BY <1>16 DEF DeliveryPost, Deliver
  <1>17. ASSUME NEW m \in Msgs, DeliveryAck(m) PROVE BatchFinalInv'
    BY <1>17 DEF DeliveryAck, SafeXack, XackRaises, DeliveryEnds, Deliver, DeliveryRaises
  <1>18. CASE Stop /\ UNCHANGED batchVars
    BY <1>18 DEF Stop
  <1>19. CASE BatchDrained \/ (DrainTimeout /\ UNCHANGED batchVars)
    <2>0. CancelConsumer /\ UNCHANGED <<got, rest, parsed, dpc>> /\ pend' \in {pend, "none"}
      BY <1>19 DEF BatchDrained, Drained, DrainTimeout
    <2>1. CASE CancelInTry
      BY <2>0, <2>1 DEF CancelConsumer, CancelInTry, RaiseThroughFinally, AbandonRun
    <2>2. CASE CancelSwallowed
      BY <2>0, <2>2 DEF CancelConsumer, CancelSwallowed, Goto
    <2>3. CASE CancelOutsideTry
      BY <2>0, <2>3 DEF CancelConsumer, CancelOutsideTry, Escape
    <2>4. CASE CancelTooLate
      BY <2>0, <2>4 DEF CancelConsumer, CancelTooLate
    <2> QED BY <2>0, <2>1, <2>2, <2>3, <2>4 DEF CancelConsumer
  <1>20. CASE DrainRaises \/ BatchExit \/ BatchCrash
    BY <1>20 DEF DrainRaises, BatchExit, BatchCrash, ProcessGone, Fresh, NoBatch, Orphaned,
       CompletedInHand
  <1>21. CASE pc = "await" /\ BatchDrainTimeout
    BY <1>21 DEF BatchDrainTimeout, Escape, Orphaned
  <1>22. CASE CloseClients
    BY <1>22 DEF CloseClients
  <1>23. CASE (Executor \/ Enqueue) /\ UNCHANGED batchVars
    BY <1>23 DEF Executor, RunEnds, ZombieEnds, Enqueue, Oldest, InState
  <1>24. ASSUME NEW j \in Jobs, BatchCancelFlag(j) PROVE BatchFinalInv'
    BY <1>24 DEF BatchCancelFlag
  <1>25. CASE UNCHANGED bvars
    BY <1>25 DEF bvars, vars
  <1> QED
    BY <1>1, <1>2, <1>3, <1>4, <1>5, <1>6, <1>7, <1>8, <1>9, <1>10, <1>11, <1>12, <1>13, <1>14,
       <1>15, <1>16, <1>17, <1>18, <1>19, <1>20, <1>21, <1>22, <1>23, <1>24, <1>25
    DEF BatchNextState, BatchConsumerStep, OneMessage, DeliveryStep, BatchLifespan,
       BatchDrainTimeout, BatchEnvironment

\* The conjunction with the batch's other invariants is inductive.
HardwareInv == BatchDeliverInv /\ ZombieInv /\ BatchBusyInv /\ BatchFinalInv

\* It holds in every reachable state.
LEMMA HardwareInvariance == BatchSpec => []HardwareInv
  <1>1. BatchInit => HardwareInv
    BY JobsAssumption DEF BatchInit, Init, HardwareInv, BatchDeliverInv, DeliverInv, ZombieInv,
       BatchBusyInv, BusyIsVisible, BatchFinalInv, InBatch, InParse, InJob, InTry, Tells
  <1>2. BatchInv /\ HardwareInv /\ [BatchNextState]_bvars => HardwareInv'
    BY BatchDeliverStep, BatchZombieStep, BatchBusyStep, BatchFinalStep
       DEF HardwareInv, BatchInv, BatchHandInv
  <1> QED BY <1>1, <1>2, BatchInvariance, PTL DEF BatchSpec

\* Neither the one-message path nor a batch runs a job that Redis records as completed: a
\* fallback or a duplicate finds the status that the delivery of the first copy wrote.
THEOREM BatchSettledNeverRuns ==
    BatchSpec => []/\ SettledNeverRuns
                   /\ pc = "bRun" => \A m \in parsed : status[JobOf[m]] # "completed"
  <1>1. BatchInv => /\ SettledNeverRuns
                    /\ pc = "bRun" => \A m \in parsed : status[JobOf[m]] # "completed"
    BY DEF BatchInv, RunInv, Unsettled, SettledNeverRuns, SkipStates, BatchHandInv, ParsedInv,
       InBatch
  <1> QED BY <1>1, BatchInvariance, PTL

\* While Redis has not failed, no batch, fallback, duplicate or restart executes a job whose
\* result the cloud accepted.
THEOREM BatchDeliveredNeverRuns ==
    BatchSpec => []/\ DeliveredNeverRuns
                   /\ faults = 0 /\ pc = "bRun" => \A m \in parsed : JobOf[m] \notin delivered
  <1>1. BatchInv /\ HardwareInv =>
           /\ DeliveredNeverRuns
           /\ faults = 0 /\ pc = "bRun" => \A m \in parsed : JobOf[m] \notin delivered
    BY DEF BatchInv, RunInv, HardwareInv, BatchDeliverInv, DeliverInv, InTry, InBatch,
       DeliveredNeverRuns
  <1> QED BY <1>1, BatchInvariance, HardwareInvariance, PTL

\* While Redis has not failed, neither a job nor a batch starts beside an abandoned run.
THEOREM BatchRunsAreExclusive ==
    BatchSpec => []/\ RunsOverlapOnlyAfterError
                   /\ faults = 0 /\ pc = "bRun" => ~zombie
  <1>1. BatchInv /\ HardwareInv =>
           RunsOverlapOnlyAfterError /\ (faults = 0 /\ pc = "bRun" => ~zombie)
    BY DEF BatchInv, RunInv, HardwareInv, ZombieInv, RunsOverlapOnlyAfterError, Types, JobTypeOK
  <1> QED BY <1>1, BatchInvariance, HardwareInvariance, PTL

\* drain cannot find the node idle while it handles a job, executes a batch or delivers one.
THEOREM BatchBusyAlwaysVisible ==
    BatchSpec => []/\ BusyIsVisible
                   /\ pc \in {"bBegin", "bRun"} \/ pend = "active" => ~idle
  <1>1. HardwareInv => /\ BusyIsVisible
                       /\ pc \in {"bBegin", "bRun"} \/ pend = "active" => ~idle
    BY DEF HardwareInv, BatchBusyInv
  <1> QED BY <1>1, HardwareInvariance, PTL

\* No step of the batch path takes a job that one message carries out of the cancelled
\* state.  A job in two messages of one batch can lose it: the copy parsed before the cancel
\* flag is set writes executing after the other copy wrote cancelled (402-405, 426-433).
THEOREM BatchCancelledIsFinal ==
    BatchSpec => [][\A j \in Jobs : CarriedOnce(j) /\ status[j] = "cancelled"
                                        => status'[j] = "cancelled"]_bvars
  <1>1. BatchInv /\ HardwareInv /\ [BatchNextState]_bvars =>
          [\A j \in Jobs : CarriedOnce(j) /\ status[j] = "cancelled"
                              => status'[j] = "cancelled"]_bvars
    <2> SUFFICES ASSUME BatchInv, HardwareInv, [BatchNextState]_bvars, NEW j \in Jobs,
                        CarriedOnce(j), status[j] = "cancelled"
                 PROVE  status'[j] = "cancelled"
      OBVIOUS
    <2> USE JobsAssumption DEF BatchInv, Types, RedisTypeOK, RunInv, Unsettled, redisVars
    <2>1. status' = status => status'[j] = "cancelled"
      OBVIOUS
    <2>2. CASE MarkSkip \/ MarkCancelled \/ BatchMark
      BY <2>2 DEF MarkSkip, MarkCancelled, BatchMark, SafeHset, HsetRaises
    <2>3. CASE Begin \/ Complete \/ Fail
      BY <2>3 DEF Begin, Complete, Fail, SafeHset, HsetRaises
    <2>4. CASE CancelConsumer
      BY <2>4 DEF CancelConsumer, CancelInTry, CancelSwallowed, CancelOutsideTry, CancelTooLate,
         Job
    <2>5. CASE BatchBegin
      <3>1. PICK m \in rest : status' \in {status, [status EXCEPT ![JobOf[m]] = "executing"]}
        BY <2>5 DEF BatchBegin, Oldest, SafeHset, HsetRaises
      <3>2. m \in Msgs /\ m \in parsed /\ pc \in InBatch
        BY <2>5, <3>1 DEF BatchBegin, BatchHandInv, ParsedInv, BatchTypeOK, InBatch
      <3>3. JobOf[m] # j
        BY <3>2 DEF HardwareInv, BatchFinalInv
      <3> QED BY <3>1, <3>2, <3>3
    <2>6. ASSUME NEW m \in Msgs, DeliveryComplete(m) PROVE status'[j] = "cancelled"
      <3>1. JobOf[m] # j
        BY <2>6 DEF DeliveryComplete, HardwareInv, BatchFinalInv
      <3> QED BY <2>6, <3>1 DEF DeliveryComplete, DeliveryWrites, SafeHset, HsetRaises
    <2>7. ASSUME NEW m \in Msgs, DeliveryMark(m) PROVE status'[j] = "cancelled"
      BY <2>7 DEF DeliveryMark, DeliveryWrites, SafeHset, HsetRaises
    <2>8. ASSUME NEW m \in Msgs,
                 DeliveryCheck(m) \/ DeliveryRecheck(m) \/ DeliveryPost(m) \/ DeliveryAck(m)
          PROVE  status'[j] = "cancelled"
      BY <2>1, <2>8 DEF DeliveryCheck, DeliveryRecheck, DeliveryChecks, DeliveryPost, DeliveryAck
    <2>9. CASE Setup \/ Scan \/ Fetch \/ Wake \/ CheckStatus \/ CheckCancel \/ SkipAck
      BY <2>1, <2>9 DEF Setup, Scan, Fetch, Wake, CheckStatus, CheckCancel, SkipAck
    <2>10. CASE RunDone \/ RunTimeout \/ Poll \/ Halt \/ CheckAfterRun \/ CheckBeforePost
                \/ Post \/ HandleException \/ PostError \/ Finally
      BY <2>1, <2>10 DEF RunDone, RunTimeout, Poll, Halt, CheckAfterRun, CheckBeforePost, Post,
         HandleException, PostError, Finally
    <2>11. CASE \/ BatchRead \/ BatchReadFails \/ AwaitDelivery \/ BatchNext \/ BatchStatus
                \/ BatchCancel \/ BatchAck \/ BatchDone \/ BatchFails \/ FallbackNext
      BY <2>1, <2>11 DEF BatchRead, BatchReadFails, AwaitDelivery, BatchNext, BatchStatus,
         BatchCancel, BatchAck, BatchDone, BatchFails, FallbackNext
    <2>12. CASE \/ Start \/ Stop \/ DrainRaises \/ (pc = "await" /\ BatchDrainTimeout)
                \/ CloseClients \/ BatchExit \/ BatchCrash
      BY <2>1, <2>12 DEF Start, Stop, DrainRaises, BatchDrainTimeout, CloseClients, BatchExit,
         BatchCrash, ProcessGone
    <2>13. CASE BatchEnvironment \/ UNCHANGED bvars
      BY <2>1, <2>13 DEF BatchEnvironment, Executor, RunEnds, ZombieEnds, Enqueue,
         BatchCancelFlag, bvars, vars
    <2> QED
      BY <2>2, <2>3, <2>4, <2>5, <2>6, <2>7, <2>8, <2>9, <2>10, <2>11, <2>12, <2>13
         DEF BatchNextState, BatchConsumerStep, ProcessMessage, DeliveryStep, BatchLifespan,
             BatchDrained, Drained, BatchDrainTimeout, DrainTimeout
  <1> QED BY <1>1, BatchInvariance, HardwareInvariance, PTL DEF BatchSpec

-----------------------------------------------------------------------------
(***************************************************************************)
(* The steps of the batch consumer as steps of JobLifecycle.               *)
(***************************************************************************)
Spared == {JobOf[m] : m \in BadIR}
BatchAllowed == [BatchPromise!Next]_(BatchPromise!jobVars)

\* A job with a queued or pending well-formed message is open.
LEMMA CarrierOpen ==
    ASSUME NEW m \in Msgs \ BadFields, mq[m] \in {"queued", "pending"}
    PROVE  JobPhase[JobOf[m]] = "open"
  BY PhaseNow, JobsAssumption DEF PhaseIn, Held

\* So the job in hand is open or exempt.
LEMMA InHandOpen ==
    ASSUME BatchInv, pc \in InJob
    PROVE  Job \in Jobs /\ (JobPhase[Job] = "open" \/ Job \in Spared)
  <1>1. cur \in Msgs
    BY DEF BatchInv, Types, BatchCtlOK
  <1>2. Job \in Jobs
    BY <1>1, JobsAssumption DEF Job
  <1>3. cur \notin BadFields /\ (mq[cur] = "pending" \/ cur \in BadIR)
    BY DEF BatchInv, BatchHandInv, OneInv
  <1> QED BY <1>1, <1>2, <1>3, CarrierOpen DEF Job, Spared

\* ... and so is a job that is being delivered.
LEMMA DeliveredOpen ==
    ASSUME BatchInv, NEW m \in Msgs, dpc[m] # "off"
    PROVE  JobOf[m] \in Jobs /\ JobPhase[JobOf[m]] = "open"
  BY CarrierOpen, JobsAssumption DEF BatchInv, BatchHandInv, DeliveryInv

\* Nothing the cloud sees has changed.
LEMMA BatchQuiet ==
    ASSUME UNCHANGED <<mq, sent, cancelFlag, early, cut>>
    PROVE  BatchAllowed
  <1>1. JobPhase' = JobPhase
    BY PhaseNow, PhaseNext
  <1> QED BY <1>1 DEF BatchAllowed, BatchPromise!jobVars

\* Jobs are cut short while they are open, or exempt.
LEMMA BatchDrops ==
    ASSUME NEW S \in SUBSET Jobs, cut' = cut \cup S, UNCHANGED <<mq, sent, cancelFlag, early>>,
           \A j \in S : JobPhase[j] = "open" \/ j \in Spared
    PROVE  BatchAllowed
  <1>1. CASE S = {}
    BY <1>1, BatchQuiet
  <1>2. CASE S # {}
    <2>1. JobPhase' = JobPhase
      BY PhaseNow, PhaseNext
    <2>2. BatchPromise!Drop(S)
      BY <1>2, <2>1 DEF BatchPromise!Drop, Spared
    <2> QED BY <2>2 DEF BatchAllowed, BatchPromise!Next
  <1> QED BY <1>1, <1>2

\* ... for one job.
LEMMA BatchDropsOne ==
    ASSUME NEW j \in Jobs, cut' = cut \cup {j}, UNCHANGED <<mq, sent, cancelFlag, early>>,
           JobPhase[j] = "open" \/ j \in Spared
    PROVE  BatchAllowed
  <1> DEFINE S == {j}
  <1>1. S \in SUBSET Jobs /\ cut' = cut \cup S /\ \A i \in S : JobPhase[i] = "open" \/ i \in Spared
    OBVIOUS
  <1> HIDE DEF S
  <1> QED BY <1>1, BatchDrops

\* A job is reported while it is open or exempt, unless it was cancelled in time.
LEMMA BatchReports ==
    ASSUME NEW j \in Jobs, NEW r \in {"completed", "failed"}, j \notin early,
           JobPhase[j] = "open" \/ j \in Spared,
           sent' = [sent EXCEPT ![j] = @ \cup {r}], UNCHANGED <<mq, cancelFlag, early, cut>>
    PROVE  BatchAllowed
  <1>1. JobPhase' = JobPhase
    BY PhaseNow, PhaseNext
  <1>2. BatchPromise!Report(j, r)
    BY <1>1 DEF BatchPromise!Report, Spared
  <1> QED BY <1>2 DEF BatchAllowed, BatchPromise!Next

\* An XACK, applied or not, closes a job only if it is settled or exempt; the step may at
\* once be the failure that cuts the job short.
LEMMA BatchAcks ==
    ASSUME RedisTypeOK, NEW m \in Msgs, mq[m] \in {"pending", "acked"},
           mq' \in {mq, [mq EXCEPT ![m] = "acked"]}, UNCHANGED <<sent, cancelFlag, early>>,
           m \in BadFields \cup BadIR \/ Settled(JobOf[m]),
           \/ cut' = cut
           \/ cut' = cut \cup {JobOf[m]} /\ m \notin BadFields /\ mq[m] = "pending"
    PROVE  BatchAllowed
  <1> USE JobsAssumption
  <1>1. CASE JobPhase' = JobPhase
    <2>1. CASE cut' = cut
      BY <1>1, <2>1 DEF BatchAllowed, BatchPromise!jobVars
    <2>2. CASE cut' = cut \cup {JobOf[m]} /\ m \notin BadFields /\ mq[m] = "pending"
      <3>1. JobPhase[JobOf[m]] = "open"
        BY <2>2, CarrierOpen
      <3>2. BatchPromise!Drop({JobOf[m]})
        BY <1>1, <2>2, <3>1 DEF BatchPromise!Drop
      <3> QED BY <3>2 DEF BatchAllowed, BatchPromise!Next
    <2> QED BY <2>1, <2>2
  <1>2. CASE /\ m \notin BadFields /\ JobPhase[JobOf[m]] = "open"
             /\ JobPhase' = [JobPhase EXCEPT ![JobOf[m]] = "closed"]
    <2>1. sent[JobOf[m]] # {} \/ JobOf[m] \in cancelFlag \cup cut \cup Spared
      BY <1>2 DEF Settled, Spared
    <2>2. BatchPromise!Close(JobOf[m])
      BY <1>2, <2>1 DEF BatchPromise!Close, Spared
    <2> QED BY <2>2 DEF BatchAllowed, BatchPromise!Next
  <1>3. CASE mq' = mq
    BY <1>1, <1>3, PhaseNow, PhaseNext
  <1>4. CASE mq' # mq
    <2>1. mq[m] = "pending" /\ mq' = [mq EXCEPT ![m] = "acked"]
      BY <1>4 DEF RedisTypeOK
    <2> QED BY <1>1, <1>2, <2>1, AckPhase
  <1> QED BY <1>3, <1>4

\* XREADGROUP, with or without its answer, changes nothing the cloud sees.
LEMMA BatchTakes ==
    ASSUME RedisTypeOK, NEW S, S \subseteq InState("queued"),
           mq' = [m \in Msgs |-> IF m \in S THEN "pending" ELSE mq[m]],
           UNCHANGED <<sent, cancelFlag, early, cut>>
    PROVE  BatchAllowed
  <1>1. \A j \in Jobs : PhaseIn(mq', j) = PhaseIn(mq, j)
    BY DEF PhaseIn, Held, Done, RedisTypeOK, InState
  <1>2. JobPhase' = JobPhase
    BY <1>1, PhaseNow, PhaseNext
  <1> QED BY <1>2 DEF BatchAllowed, BatchPromise!jobVars

\* The message in hand where the code acknowledges it: it is settled, or bad.
LEMMA HandAck ==
    ASSUME BatchInv, pc \in {"skipAck", "final", "bAck"},
           mq' \in {mq, [mq EXCEPT ![cur] = "acked"]}, UNCHANGED <<sent, cancelFlag, early, cut>>
    PROVE  BatchAllowed
  <1>1. cur \in Msgs /\ RedisTypeOK
    BY DEF BatchInv, Types, BatchCtlOK, InSkip, InJob, InParse
  <1>2. mq[cur] \in {"pending", "acked"}
    BY DEF BatchInv, BatchHandInv, OneInv, ParseInv, InHand, InSkip, InJob, InParse
  <1>3. cur \in BadFields \cup BadIR \/ Settled(JobOf[cur])
    BY DEF BatchInv, BatchAckInv, Job
  <1> QED BY <1>1, <1>2, <1>3, BatchAcks

\* An exception that leaves the handlers of _process_message drops the job in hand.
LEMMA RaiseDrops ==
    ASSUME BatchInv, pc \in InTry, NEW k, RaiseThroughFinally(k), UNCHANGED <<mq, cancelFlag>>
    PROVE  BatchAllowed
  <1>1. Job \in Jobs /\ (JobPhase[Job] = "open" \/ Job \in Spared)
    BY InHandOpen DEF InJob
  <1> QED BY <1>1, BatchDropsOne DEF RaiseThroughFinally

\* The one-message path, inside a batch consumer.
LEMMA OneMessageAllowed == ASSUME BatchInv, OneMessage PROVE BatchAllowed
  <1> USE DEF redisVars, outVars
  <1>1. CASE \/ Setup \/ Wake \/ Scan \/ Fetch \/ Start \/ CheckStatus \/ CheckCancel \/ MarkSkip
             \/ Begin \/ RunDone \/ RunTimeout \/ Poll \/ Halt \/ CheckAfterRun \/ Complete
             \/ CheckBeforePost
    BY <1>1, BatchQuiet DEF Setup, Wake, Scan, Fetch, Start, CheckStatus, CheckCancel, MarkSkip,
       Begin, RunDone, RunTimeout, Poll, Halt, CheckAfterRun, Complete, CheckBeforePost
  <1>2. CASE SkipAck \/ Finally
    <2>1. /\ pc \in {"skipAck", "final"} /\ UNCHANGED <<sent, cancelFlag, early, cut>>
          /\ mq' \in {mq, [mq EXCEPT ![cur] = "acked"]}
      BY <1>2 DEF SkipAck, Finally, SafeXack, XackRaises
    <2> QED BY <2>1, HandAck
  <1>3. CASE Post \/ PostError
    <2>1. Job \in Jobs /\ (JobPhase[Job] = "open" \/ Job \in Spared)
      BY <1>3, InHandOpen DEF Post, PostError, InJob, InTry
    <2>2. Job \notin early
      BY <1>3 DEF Post, PostError, BatchInv, Types, BatchCtlOK, BatchEarlyInv, EarlyInv, Working,
         PastLastCheck, Job, InJob, InTry
    <2>3. /\ \E r \in {"completed", "failed"} : sent' = [sent EXCEPT ![Job] = @ \cup {r}]
          /\ UNCHANGED <<mq, cancelFlag, early, cut>>
      BY <1>3 DEF Post, PostError, Report
    <2> QED BY <2>1, <2>2, <2>3, BatchReports
  <1>4. CASE HandleException \/ Fail \/ MarkCancelled
    <2>1. CASE \E k : RaiseThroughFinally(k)
      BY <1>4, <2>1, RaiseDrops DEF HandleException, Fail, MarkCancelled, InTry
    <2>2. CASE ~\E k : RaiseThroughFinally(k)
      BY <1>4, <2>2, BatchQuiet DEF HandleException, Fail, MarkCancelled
    <2> QED BY <2>1, <2>2
  <1> QED BY <1>1, <1>2, <1>3, <1>4 DEF OneMessage, ProcessMessage

\* The coroutines of _deliver_batch_results: each reports or drops a job that is open.
LEMMA DeliveryAllowed == ASSUME BatchInv, DeliveryStep PROVE BatchAllowed
  <1> USE DEF redisVars, outVars
  <1>1. ASSUME NEW m \in Msgs, DeliveryCheck(m) \/ DeliveryRecheck(m) PROVE BatchAllowed
    <2>1. dpc[m] # "off" /\ UNCHANGED <<mq, sent, cancelFlag, early>>
      BY <1>1 DEF DeliveryCheck, DeliveryRecheck, DeliveryChecks
    <2>2. cut' = cut \/ cut' = cut \cup {JobOf[m]}
      BY <1>1 DEF DeliveryCheck, DeliveryRecheck, DeliveryChecks, DeliveryRaises
    <2> QED BY <2>1, <2>2, BatchQuiet, BatchDropsOne, DeliveredOpen
  <1>2. ASSUME NEW m \in Msgs, DeliveryComplete(m) \/ DeliveryMark(m) PROVE BatchAllowed
    <2>1. dpc[m] # "off" /\ UNCHANGED <<mq, sent, cancelFlag, early>>
      BY <1>2 DEF DeliveryComplete, DeliveryMark, DeliveryWrites
    <2>2. cut' = cut \/ cut' = cut \cup {JobOf[m]}
      BY <1>2 DEF DeliveryComplete, DeliveryMark, DeliveryWrites, DeliveryRaises
    <2> QED BY <2>1, <2>2, BatchQuiet, BatchDropsOne, DeliveredOpen
  <1>3. ASSUME NEW m \in Msgs, DeliveryPost(m) PROVE BatchAllowed
    <2>1. dpc[m] = "post" /\ UNCHANGED <<mq, cancelFlag, early>>
      BY <1>3 DEF DeliveryPost
    <2>2. \/ cut' = cut /\ sent' = [sent EXCEPT ![JobOf[m]] = @ \cup {"completed"}]
          \/ cut' = cut \cup {JobOf[m]} /\ sent' = sent
      BY <1>3 DEF DeliveryPost
    <2>3. JobOf[m] \notin early
      BY <2>1 DEF BatchInv, BatchEarlyInv
    <2> QED BY <2>1, <2>2, <2>3, BatchReports, BatchDropsOne, DeliveredOpen
  <1>4. ASSUME NEW m \in Msgs, DeliveryAck(m) PROVE BatchAllowed
    <2>1. /\ dpc[m] = "ack" /\ mq' \in {mq, [mq EXCEPT ![m] = "acked"]}
          /\ UNCHANGED <<sent, cancelFlag, early>>
      BY <1>4 DEF DeliveryAck, SafeXack, XackRaises
    <2>2. cut' = cut \/ cut' = cut \cup {JobOf[m]}
      BY <1>4 DEF DeliveryAck, DeliveryRaises
    <2>3. mq[m] = "pending" /\ m \notin BadFields /\ Settled(JobOf[m])
      BY <2>1 DEF BatchInv, BatchHandInv, DeliveryInv, BatchAckInv
    <2>4. RedisTypeOK
      BY DEF BatchInv, Types
    <2> QED BY <2>1, <2>2, <2>3, <2>4, BatchAcks
  <1> QED BY <1>1, <1>2, <1>3, <1>4 DEF DeliveryStep

\* The lifespan: whatever ends the consumer or its deliveries drops only open jobs.
LEMMA LifespanAllowed ==
    ASSUME BatchInv,
           \/ Stop \/ BatchDrained \/ DrainRaises \/ BatchDrainTimeout \/ CloseClients
           \/ BatchExit \/ BatchCrash
    PROVE  BatchAllowed
  <1> USE DEF redisVars, outVars
  <1>1. CASE Stop \/ CloseClients
    BY <1>1, BatchQuiet DEF Stop, CloseClients
  <1>2. CASE CancelConsumer
    <2>1. CASE CancelInTry
      BY <1>2, <2>1, RaiseDrops DEF CancelConsumer, CancelInTry
    <2>2. CASE CancelSwallowed \/ CancelTooLate
      BY <1>2, <2>2, BatchQuiet DEF CancelConsumer, CancelSwallowed, CancelTooLate
    <2>3. CASE CancelOutsideTry
      <3>1. UNCHANGED <<sent, cancelFlag, early, cut>>
        BY <1>2, <2>3 DEF CancelConsumer, CancelOutsideTry
      <3>2. \/ mq' = mq
            \/ pc \in {"skipAck", "final"} /\ mq' = [mq EXCEPT ![cur] = "acked"]
        BY <2>3 DEF CancelOutsideTry
      <3> QED BY <3>1, <3>2, BatchQuiet, HandAck
    <2> QED BY <1>2, <2>1, <2>2, <2>3 DEF CancelConsumer
  <1>3. CASE DrainRaises \/ BatchExit \/ BatchCrash \/ (pc = "await" /\ BatchDrainTimeout)
    <2>1. UNCHANGED <<mq, sent, cancelFlag, early>>
      BY <1>3 DEF DrainRaises, BatchExit, BatchCrash, BatchDrainTimeout, ProcessGone
    <2>2. cut' = cut \cup Orphaned \/ cut' = cut \cup (Orphaned \cup CompletedInHand)
      BY <1>3 DEF DrainRaises, BatchExit, BatchCrash, BatchDrainTimeout
    <2>3. \A j \in Orphaned : JobPhase[j] = "open"
      BY DeliveredOpen DEF Orphaned, Active
    <2>4. \A j \in CompletedInHand : JobPhase[j] = "open" \/ j \in Spared
      BY InHandOpen DEF CompletedInHand, Working, Job, InJob
    <2>5. Orphaned \in SUBSET Jobs /\ Orphaned \cup CompletedInHand \in SUBSET Jobs
      BY DEF Orphaned, CompletedInHand
    <2> QED BY <2>1, <2>2, <2>3, <2>4, <2>5, BatchDrops
  <1> QED BY <1>1, <1>2, <1>3 DEF BatchDrained, Drained, BatchDrainTimeout, DrainTimeout

\* The batch itself reads, checks and acknowledges.
LEMMA BatchPathAllowed ==
    ASSUME BatchInv,
           \/ BatchRead \/ BatchReadFails \/ AwaitDelivery \/ BatchNext \/ BatchStatus
           \/ BatchCancel \/ BatchMark \/ BatchAck \/ BatchBegin \/ BatchDone \/ BatchFails
           \/ FallbackNext
    PROVE  BatchAllowed
  <1> USE DEF redisVars, outVars
  <1>t. RedisTypeOK
    BY DEF BatchInv, Types
  <1>1. CASE BatchRead
    <2>1. got' \subseteq InState("queued")
      BY <1>1 DEF BatchRead, Oldest
    <2> QED BY <1>t, <1>1, <2>1, BatchTakes DEF BatchRead
  <1>2. CASE BatchReadFails
    <2>1. PICK S \in {{}, Oldest(InState("queued"), ReadCount)} :
             mq' = [m \in Msgs |-> IF m \in S THEN "pending" ELSE mq[m]]
      BY <1>2 DEF BatchReadFails
    <2>2. S \subseteq InState("queued")
      BY <2>1 DEF Oldest
    <2> QED BY <1>t, <1>2, <2>1, <2>2, BatchTakes DEF BatchReadFails
  <1>3. CASE BatchAck
    <2>1. /\ pc = "bAck" /\ UNCHANGED <<sent, cancelFlag, early, cut>>
          /\ mq' \in {mq, [mq EXCEPT ![cur] = "acked"]}
      BY <1>3 DEF BatchAck, SafeXack, XackRaises
    <2> QED BY <2>1, HandAck
  <1>4. CASE \/ AwaitDelivery \/ BatchNext \/ BatchStatus \/ BatchCancel \/ BatchMark
             \/ BatchBegin \/ BatchDone \/ BatchFails \/ FallbackNext
    BY <1>4, BatchQuiet DEF AwaitDelivery, BatchNext, BatchStatus, BatchCancel, BatchMark,
       BatchBegin, BatchDone, BatchFails, FallbackNext
  <1> QED BY <1>1, <1>2, <1>3, <1>4

\* The cloud and the executor.
LEMMA EnvironmentAllowed == ASSUME BatchInv, BatchEnvironment PROVE BatchAllowed
  <1> USE DEF redisVars, outVars
  <1>1. CASE Executor
    BY <1>1, BatchQuiet DEF Executor, RunEnds, ZombieEnds
  <1>2. CASE Enqueue
    <2>1. PICK m \in Msgs : mq[m] = "absent" /\ mq' = [mq EXCEPT ![m] = "queued"]
      BY <1>2 DEF Enqueue, Oldest, InState
    <2>2. CASE JobPhase' = JobPhase
      BY <1>2, <2>2 DEF BatchAllowed, BatchPromise!jobVars, Enqueue
    <2>3. CASE /\ JobPhase[JobOf[m]] # "open"
               /\ JobPhase' = [JobPhase EXCEPT ![JobOf[m]] = "open"]
      <3>1. BatchPromise!Submit(JobOf[m])
        BY <1>2, <2>3 DEF BatchPromise!Submit, Enqueue
      <3> QED BY <3>1, JobsAssumption DEF BatchAllowed, BatchPromise!Next
    <2> QED BY <2>1, <2>2, <2>3, EnqueuePhase DEF BatchInv, Types
  <1>3. ASSUME NEW j \in Jobs, BatchCancelFlag(j) PROVE BatchAllowed
    <2>1. JobPhase' = JobPhase
      BY <1>3, PhaseNow, PhaseNext DEF BatchCancelFlag
    <2>2. (early' = early \cup {j} /\ sent[j] = {}) \/ early' = early
      BY <1>3 DEF BatchCancelFlag
    <2>3. BatchPromise!CancelJob(j)
      BY <1>3, <2>1, <2>2 DEF BatchPromise!CancelJob, BatchCancelFlag
    <2> QED BY <2>3 DEF BatchAllowed, BatchPromise!Next
  <1> QED BY <1>1, <1>2, <1>3 DEF BatchEnvironment

\* The batch path keeps the node's promise too: also a job in two messages of one batch,
\* whose deliveries run concurrently, a batch that fails and is done again one message at a
\* time, and a delivery that outlives a shutdown report a job only while it is open and not
\* cancelled in time, and close it only once it is reported, cancelled, dropped or exempt.
THEOREM BatchKeepsPromise == BatchSpec => BatchImplementsJobLifecycle
  <1>1. BatchInit => BatchPromise!Init
    <2> SUFFICES ASSUME BatchInit PROVE BatchPromise!Init
      OBVIOUS
    <2>1. \A j \in Jobs : PhaseIn(mq, j) = "new"
      BY DEF BatchInit, Init, PhaseIn, Held, Done
    <2>2. JobPhase = [j \in Jobs |-> "new"]
      BY <2>1, PhaseNow
    <2> QED BY <2>2 DEF BatchInit, Init, BatchPromise!Init
  <1>2. BatchInv /\ [BatchNextState]_bvars => [BatchPromise!Next]_(BatchPromise!jobVars)
    <2> SUFFICES ASSUME BatchInv, [BatchNextState]_bvars PROVE BatchAllowed
      BY DEF BatchAllowed
    <2>1. CASE UNCHANGED bvars
      BY <2>1, BatchQuiet DEF bvars, vars, redisVars, outVars
    <2> QED BY <2>1, OneMessageAllowed, BatchPathAllowed, DeliveryAllowed, LifespanAllowed,
               EnvironmentAllowed
            DEF BatchNextState, BatchConsumerStep, BatchLifespan, OneMessage
  <1> QED
    BY <1>1, <1>2, BatchInvariance, PTL
       DEF BatchSpec, BatchImplementsJobLifecycle, BatchPromise!Spec
=============================================================================
