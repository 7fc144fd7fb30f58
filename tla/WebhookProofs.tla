--------------------------- MODULE WebhookProofs ---------------------------
(***************************************************************************)
(* WebhookClient implements ReportDelivery, for any jobs, any number of    *)
(* attempts and any number of failures.                                    *)
(***************************************************************************)
EXTENDS WebhookClient, TLAPS

\* What the refinement rests on: a call under way has one report, of which the
\* client was asked, and no request is on its way that was not.
WebInv ==
    /\ hook \in [Jobs -> {"none", "post", "backoff", "returned", "raised"}]
    /\ sending \in [Jobs -> SUBSET Reports]
    /\ asked \in [Jobs -> SUBSET Reports]
    /\ accepted \in [Jobs -> SUBSET Reports]
    /\ \A j \in Jobs : Busy(j) => \E r \in asked[j] : sending[j] = {r}
    /\ \A q \in late : q[1] \in Jobs /\ q[2] \in asked[q[1]]

-----------------------------------------------------------------------------
\* Ending a call keeps the parts of the invariant that are about calls.
LEMMA EndsKeeps ==
    ASSUME WebInv, NEW j \in Jobs, NEW o \in {"returned", "raised"}, Ends(j, o),
           asked' \in [Jobs -> SUBSET Reports], \A k \in Jobs : asked[k] \subseteq asked'[k]
    PROVE  /\ hook' \in [Jobs -> {"none", "post", "backoff", "returned", "raised"}]
           /\ sending' \in [Jobs -> SUBSET Reports]
           /\ \A k \in Jobs : Busy(k)' => \E r \in asked'[k] : sending'[k] = {r}
  <1>1. hook' \in [Jobs -> {"none", "post", "backoff", "returned", "raised"}]
        /\ sending' \in [Jobs -> SUBSET Reports]
    BY DEF WebInv, Ends
  <1>2. \A k \in Jobs : Busy(k)' => \E r \in asked'[k] : sending'[k] = {r}
    <2> TAKE k \in Jobs
    <2>1. CASE k = j
      BY <2>1 DEF WebInv, Ends, Busy
    <2>2. CASE k # j
      <3>1. Busy(k)' = Busy(k) /\ sending'[k] = sending[k]
        BY <2>2 DEF WebInv, Ends, Busy
      <3> QED BY <3>1 DEF WebInv
    <2> QED BY <2>1, <2>2
  <1> QED BY <1>1, <1>2

\* What the network does with a request keeps the invariant's other parts.
LEMMA FateKeeps ==
    ASSUME WebInv, NEW j \in Jobs, Busy(j), Fate(j), UNCHANGED asked
    PROVE  /\ accepted' \in [Jobs -> SUBSET Reports]
           /\ \A q \in late' : q[1] \in Jobs /\ q[2] \in asked'[q[1]]
           /\ accepted' \in {accepted, [accepted EXCEPT ![j] = @ \cup sending[j]]}
  <1>1. PICK r \in asked[j] : sending[j] = {r}
    BY DEF WebInv
  <1>2. CASE UNCHANGED <<accepted, late>>
    BY <1>2 DEF WebInv
  <1>3. CASE Accepts(j) /\ UNCHANGED late
    BY <1>3 DEF WebInv, Accepts
  <1>4. CASE late' = late \cup ({j} \X (sending[j] \ accepted[j])) /\ UNCHANGED accepted
    <2>1. \A q \in {j} \X (sending[j] \ accepted[j]) : q[1] = j /\ q[2] \in sending[j]
      OBVIOUS
    <2> QED BY <1>1, <1>4, <2>1 DEF WebInv
  <1> QED BY <1>2, <1>3, <1>4 DEF Fate

\* WebInv is inductive.
LEMMA WebInvInductive ==
    ASSUME WebInv, [WebNext]_webVars
    PROVE  WebInv'
  <1>1. ASSUME NEW j \in Jobs, NEW r \in Reports, Call(j, r) PROVE WebInv'
    <2>0. asked' \in [Jobs -> SUBSET Reports] /\ \A k \in Jobs : asked[k] \subseteq asked'[k]
      BY <1>1 DEF Call, WebInv
    <2>1. \A q \in late' : q[1] \in Jobs /\ q[2] \in asked'[q[1]]
      BY <1>1, <2>0 DEF Call, WebInv
    <2>2. CASE open
      <3>1. hook' = [hook EXCEPT ![j] = "post"] /\ sending' = [sending EXCEPT ![j] = {r}]
            /\ asked' = [asked EXCEPT ![j] = @ \cup {r}] /\ UNCHANGED accepted
        BY <1>1, <2>2 DEF Call
      <3>2. \A k \in Jobs : Busy(k)' => \E x \in asked'[k] : sending'[k] = {x}
        <4> TAKE k \in Jobs
        <4>1. CASE k = j
          <5>1. r \in asked'[j] /\ sending'[j] = {r}
            BY <3>1 DEF WebInv
          <5> QED BY <4>1, <5>1
        <4>2. CASE k # j
          <5>1. Busy(k)' = Busy(k) /\ sending'[k] = sending[k] /\ asked'[k] = asked[k]
            BY <3>1, <4>2 DEF WebInv, Busy
          <5> QED BY <5>1 DEF WebInv
        <4> QED BY <4>1, <4>2
      <3>3. hook' \in [Jobs -> {"none", "post", "backoff", "returned", "raised"}]
            /\ sending' \in [Jobs -> SUBSET Reports] /\ accepted' \in [Jobs -> SUBSET Reports]
        BY <3>1 DEF WebInv
      <3> QED BY <2>0, <2>1, <3>2, <3>3 DEF WebInv
    <2>3. CASE ~open
      <3>1. Ends(j, "raised") /\ UNCHANGED accepted
        BY <1>1, <2>3 DEF Call
      <3> QED BY <2>0, <2>1, <3>1, EndsKeeps DEF WebInv
    <2> QED BY <2>2, <2>3
  <1>2. ASSUME NEW j \in Jobs, Answered(j) PROVE WebInv'
    <2>1. Ends(j, "returned") /\ Accepts(j) /\ UNCHANGED <<late, asked>>
      BY <1>2 DEF Answered
    <2>2. accepted' \in [Jobs -> SUBSET Reports]
      BY <2>1 DEF Accepts, WebInv
    <2> QED BY <2>1, <2>2, EndsKeeps DEF WebInv
  <1>3. ASSUME NEW j \in Jobs, Refused(j) \/ GivesUp(j) PROVE WebInv'
    <2>1. Ends(j, "raised") /\ UNCHANGED <<late, accepted, asked>>
      BY <1>3 DEF Refused, GivesUp
    <2> QED BY <2>1, EndsKeeps DEF WebInv
  <1>4. ASSUME NEW j \in Jobs, Fails(j) PROVE WebInv'
    <2>1. /\ hook[j] = "post" /\ hook' = [hook EXCEPT ![j] = "backoff"] /\ Fate(j)
          /\ UNCHANGED <<sending, asked>>
      BY <1>4 DEF Fails
    <2>2. Busy(j)
      BY <2>1 DEF Busy
    <2>3. \A k \in Jobs : Busy(k)' = Busy(k)
      BY <2>1 DEF Busy, WebInv
    <2>4. \A k \in Jobs : Busy(k)' => \E r \in asked'[k] : sending'[k] = {r}
      BY <2>1, <2>3 DEF WebInv
    <2>5. hook' \in [Jobs -> {"none", "post", "backoff", "returned", "raised"}]
      BY <2>1 DEF WebInv
    <2> QED BY <2>1, <2>2, <2>4, <2>5, FateKeeps DEF WebInv
  <1>5. ASSUME NEW j \in Jobs, Again(j) PROVE WebInv'
    <2>1. CASE open
      <3>1. /\ hook[j] = "backoff" /\ hook' = [hook EXCEPT ![j] = "post"]
            /\ UNCHANGED <<sending, asked, late, accepted>>
        BY <1>5, <2>1 DEF Again
      <3>2. \A k \in Jobs : Busy(k)' = Busy(k)
        BY <3>1 DEF Busy, WebInv
      <3>3. \A k \in Jobs : Busy(k)' => \E r \in asked'[k] : sending'[k] = {r}
        BY <3>1, <3>2 DEF WebInv
      <3>4. hook' \in [Jobs -> {"none", "post", "backoff", "returned", "raised"}]
        BY <3>1 DEF WebInv
      <3> QED BY <3>1, <3>3, <3>4 DEF WebInv
    <2>2. CASE ~open
      <3>1. Ends(j, "raised") /\ UNCHANGED <<late, accepted, asked>>
        BY <1>5, <2>2 DEF Again
      <3> QED BY <3>1, EndsKeeps DEF WebInv
    <2> QED BY <2>1, <2>2
  <1>6. ASSUME NEW j \in Jobs, Abort(j) PROVE WebInv'
    <2>1. Busy(j) /\ Ends(j, "raised") /\ UNCHANGED asked
          /\ (Fate(j) \/ UNCHANGED <<accepted, late>>)
      BY <1>6 DEF Abort
    <2>2. Fate(j)
      BY <2>1 DEF Fate
    <2> QED BY <2>1, <2>2, EndsKeeps, FateKeeps DEF WebInv
  <1>7. ASSUME LateArrives PROVE WebInv'
    <2>1. PICK q \in late : /\ late' = late \ {q}
                            /\ accepted' \in {accepted, [accepted EXCEPT ![q[1]] = @ \cup {q[2]}]}
      BY <1>7 DEF LateArrives
    <2>2. UNCHANGED <<hook, sending, asked>>
      BY <1>7 DEF LateArrives
    <2>3. q[1] \in Jobs /\ q[2] \in Reports
      BY DEF WebInv
    <2>4. accepted' \in [Jobs -> SUBSET Reports]
      BY <2>1, <2>3 DEF WebInv
    <2> QED BY <2>1, <2>2, <2>4 DEF WebInv, Busy
  <1>8. ASSUME WebGone PROVE WebInv'
    <2>1. /\ hook' = [j \in Jobs |-> "none"] /\ sending' = [j \in Jobs |-> {}]
          /\ UNCHANGED <<late, asked>>
      BY <1>8 DEF WebGone
    <2>2. accepted' \in [Jobs -> SUBSET Reports]
      BY <1>8 DEF WebGone, WebInv
    <2> QED BY <2>1, <2>2 DEF WebInv, Busy
  <1>9. CASE Close \/ UNCHANGED webVars
    BY <1>9 DEF Close, webVars, WebInv, Busy
  <1> QED BY <1>1, <1>2, <1>3, <1>4, <1>5, <1>6, <1>7, <1>8, <1>9 DEF WebNext, Attempt

-----------------------------------------------------------------------------
\* Ending a call ends it in the abstract client too.
LEMMA EndsRefines ==
    ASSUME WebInv, NEW j \in Jobs, NEW o \in {"returned", "raised"}, Ends(j, o)
    PROVE  Promise!Ends(j, o)
  BY DEF WebInv, Ends, Promise!Ends, Outcome, Busy

\* Every step of the client is a step of the abstract one, or changes nothing there.
LEMMA StepRefines ==
    ASSUME WebInv, [WebNext]_webVars
    PROVE  [Promise!Next]_(Promise!deliveryVars)
  <1>0. \A j \in Jobs : (Outcome[j] = "busy") = Busy(j)
    BY DEF WebInv, Outcome, Busy
  <1>1. ASSUME NEW j \in Jobs, NEW r \in Reports, Call(j, r) PROVE Promise!Call(j, r)
    <2>1. CASE open
      <3>1. Outcome' = [Outcome EXCEPT ![j] = "busy"]
        BY <1>1, <2>1 DEF Call, WebInv, Outcome, Busy
      <3> QED BY <1>0, <1>1, <2>1, <3>1 DEF Call, Promise!Call
    <2>2. CASE ~open
      BY <1>0, <1>1, <2>2, EndsRefines DEF Call, Promise!Call
    <2> QED BY <2>1, <2>2
  <1>2. ASSUME NEW j \in Jobs, Answered(j) PROVE Promise!Return(j)
    <2>1. Busy(j) /\ Ends(j, "returned") /\ Accepts(j) /\ UNCHANGED asked
      BY <1>2 DEF Answered, Busy
    <2> QED BY <1>0, <2>1, EndsRefines DEF Accepts, Promise!Return
  <1>3. ASSUME NEW j \in Jobs, Refused(j) \/ GivesUp(j) \/ (Again(j) /\ ~open)
        PROVE  Promise!Raise(j)
    <2>1. Busy(j) /\ Ends(j, "raised") /\ UNCHANGED <<accepted, asked>>
      BY <1>3 DEF Refused, GivesUp, Again, Busy
    <2> QED BY <1>0, <2>1, EndsRefines DEF Promise!Raise
  <1>4. ASSUME NEW j \in Jobs, Abort(j) PROVE Promise!Raise(j)
    <2>1. Busy(j) /\ Ends(j, "raised") /\ UNCHANGED asked
          /\ (Fate(j) \/ UNCHANGED <<accepted, late>>)
      BY <1>4 DEF Abort
    <2>2. Fate(j)
      BY <2>1 DEF Fate
    <2> QED BY <1>0, <2>1, <2>2, EndsRefines, FateKeeps DEF Promise!Raise
  <1>5. ASSUME NEW j \in Jobs, Fails(j)
        PROVE  (\E r \in Reports : Promise!Accept(j, r)) \/ UNCHANGED Promise!deliveryVars
    <2>1. /\ hook[j] = "post" /\ hook' = [hook EXCEPT ![j] = "backoff"] /\ Fate(j)
          /\ UNCHANGED <<sending, asked>>
      BY <1>5 DEF Fails
    <2>2. Busy(j)
      BY <2>1 DEF Busy
    <2>3. UNCHANGED Outcome
      BY <2>1 DEF WebInv, Outcome, Busy
    <2>4. PICK r \in asked[j] : sending[j] = {r}
      BY <2>2 DEF WebInv
    <2>5. r \in Reports
      BY <2>4 DEF WebInv
    <2>6. accepted' \in {accepted, [accepted EXCEPT ![j] = @ \cup {r}]}
      BY <2>1, <2>2, <2>4, FateKeeps
    <2>7. CASE UNCHANGED accepted
      BY <2>1, <2>3, <2>7 DEF Promise!deliveryVars
    <2>8. CASE accepted' = [accepted EXCEPT ![j] = @ \cup {r}]
      BY <2>1, <2>3, <2>4, <2>5, <2>8 DEF Promise!Accept
    <2> QED BY <2>6, <2>7, <2>8
  <1>6. ASSUME NEW j \in Jobs, Again(j), open PROVE UNCHANGED Promise!deliveryVars
    <2>1. hook[j] = "backoff" /\ hook' = [hook EXCEPT ![j] = "post"]
          /\ UNCHANGED <<sending, asked, accepted>>
      BY <1>6 DEF Again
    <2>2. UNCHANGED Outcome
      BY <2>1 DEF WebInv, Outcome, Busy
    <2> QED BY <2>1, <2>2 DEF Promise!deliveryVars
  <1>7. ASSUME LateArrives
        PROVE  (\E j \in Jobs, r \in Reports : Promise!Accept(j, r))
               \/ UNCHANGED Promise!deliveryVars
    <2>1. PICK q \in late : accepted' \in {accepted, [accepted EXCEPT ![q[1]] = @ \cup {q[2]}]}
      BY <1>7 DEF LateArrives
    <2>2. UNCHANGED <<hook, sending, asked>> /\ UNCHANGED Outcome
      BY <1>7 DEF LateArrives, Outcome, Busy
    <2>3. q[1] \in Jobs /\ q[2] \in asked[q[1]] /\ q[2] \in Reports
      BY DEF WebInv
    <2>4. CASE UNCHANGED accepted
      BY <2>2, <2>4 DEF Promise!deliveryVars
    <2>5. CASE accepted' = [accepted EXCEPT ![q[1]] = @ \cup {q[2]}]
      <3>1. Promise!Accept(q[1], q[2])
        BY <2>2, <2>3, <2>5 DEF Promise!Accept
      <3> QED BY <2>3, <3>1
    <2> QED BY <2>1, <2>4, <2>5
  <1>8. ASSUME WebGone PROVE Promise!Forget
    <2>1. Outcome' = [j \in Jobs |-> "none"]
      BY <1>8 DEF WebGone, Outcome, Busy
    <2>2. PICK S \in SUBSET {j \in Jobs : hook[j] = "post"} :
                accepted' = [j \in Jobs |-> accepted[j] \cup {r \in sending[j] : j \in S}]
      BY <1>8 DEF WebGone
    <2>3. S \in SUBSET {j \in Jobs : Outcome[j] = "busy"}
      BY <1>0, <2>2 DEF Busy
    <2>4. UNCHANGED asked /\ sending' = [j \in Jobs |-> {}]
      BY <1>8 DEF WebGone
    <2> QED BY <2>1, <2>2, <2>3, <2>4 DEF Promise!Forget
  <1>9. ASSUME Close \/ UNCHANGED webVars PROVE UNCHANGED Promise!deliveryVars
    BY <1>9 DEF Close, webVars, Promise!deliveryVars, Outcome, Busy
  <1> QED
    BY <1>1, <1>2, <1>3, <1>4, <1>5, <1>6, <1>7, <1>8, <1>9 DEF WebNext, Attempt, Promise!Next

\* The initial states map to initial states.
LEMMA InitRefines == WebInit => Promise!Init
  BY DEF WebInit, Promise!Init, Outcome, Busy

\* The invariant holds throughout.
LEMMA WebInvHolds == WebSpec => []WebInv
  <1>1. WebInit => WebInv
    BY DEF WebInit, WebInv, Busy
  <1> QED BY <1>1, WebInvInductive, PTL DEF WebSpec

\* _post_with_retry keeps its promise (webhook.py 98-137): a call that returns was
\* accepted by the cloud, a call that raises may have been, and nothing reaches the
\* cloud that the client was not asked to send; for every number of jobs, attempts,
\* lost requests, late requests, cancellations and restarts.
THEOREM WebhookKeepsPromise == WebSpec => Promise!Spec
  BY InitRefines, StepRefines, WebInvHolds, PTL DEF WebSpec, Promise!Spec

-----------------------------------------------------------------------------
(***************************************************************************)
(* What an open client remembers of its attempts, for its callers.         *)
(***************************************************************************)
\* Every report that was processed or is being sent is one the client was asked for;
\* while it is open, the client has lost as many attempts as it has begun in a call, but
\* for the one under way.
HistoryInv ==
    /\ attempt \in [Jobs -> Nat] /\ lost \in Nat
    /\ \A j \in Jobs : accepted[j] \subseteq asked[j] /\ sending[j] \subseteq asked[j]
    /\ \A j \in Jobs : ~Busy(j) => attempt[j] = 1
    /\ open => \A j \in Jobs : /\ hook[j] = "post" => lost + 1 >= attempt[j]
                               /\ hook[j] = "backoff" => lost >= attempt[j]

\* What the cloud has processed, and what the client was asked for, is never taken back.
LEMMA ReportsGrow ==
    ASSUME WebInv, [WebNext]_webVars
    PROVE  \A j \in Jobs : accepted[j] \subseteq accepted'[j] /\ asked[j] \subseteq asked'[j]
  <1>1. ASSUME NEW j \in Jobs, NEW r \in Reports, Call(j, r)
        PROVE  \A k \in Jobs : accepted[k] \subseteq accepted'[k] /\ asked[k] \subseteq asked'[k]
    BY <1>1 DEF Call, WebInv
  <1>2. ASSUME NEW j \in Jobs, Attempt(j) \/ Abort(j)
        PROVE  \A k \in Jobs : accepted[k] \subseteq accepted'[k] /\ asked[k] \subseteq asked'[k]
    BY <1>2 DEF Attempt, Answered, Refused, Fails, Again, GivesUp, Abort, Fate, Accepts, WebInv
  <1>3. CASE LateArrives
    BY <1>3 DEF LateArrives, WebInv
  <1>4. CASE WebGone
    BY <1>4 DEF WebGone, WebInv
  <1>5. CASE Close \/ UNCHANGED webVars
    BY <1>5 DEF Close, webVars
  <1> QED BY <1>1, <1>2, <1>3, <1>4, <1>5 DEF WebNext

\* A call that ends starts the count of attempts anew.
LEMMA EndsHistory ==
    ASSUME WebInv, HistoryInv, NEW j \in Jobs, NEW o \in {"returned", "raised"}, Ends(j, o),
           lost' \in {lost, lost + 1}, open' = open, UNCHANGED asked, Fate(j)
    PROVE  HistoryInv'
  <1>1. attempt' \in [Jobs -> Nat] /\ lost' \in Nat
    BY DEF HistoryInv, Ends
  <1>2. \A k \in Jobs : accepted'[k] \subseteq asked'[k] /\ sending'[k] \subseteq asked'[k]
    BY DEF HistoryInv, WebInv, Ends, Fate, Accepts
  <1>3. \A k \in Jobs : ~Busy(k)' => attempt'[k] = 1
    BY DEF HistoryInv, WebInv, Ends, Busy
  <1>4. ASSUME open', NEW k \in Jobs
        PROVE  /\ hook'[k] = "post" => lost' + 1 >= attempt'[k]
               /\ hook'[k] = "backoff" => lost' >= attempt'[k]
    <2>1. CASE k = j
      BY <2>1 DEF Ends, WebInv
    <2>2. CASE k # j
      <3>1. hook'[k] = hook[k] /\ attempt'[k] = attempt[k]
        BY <2>2 DEF Ends, WebInv, HistoryInv
      <3> QED BY <1>4, <3>1 DEF HistoryInv
    <2> QED BY <2>1, <2>2
  <1> QED BY <1>1, <1>2, <1>3, <1>4 DEF HistoryInv

\* The client backs off only after a lost attempt, and every further one follows a back-off.
LEMMA HistoryInductive ==
    ASSUME WebInv, HistoryInv, [WebNext]_webVars
    PROVE  HistoryInv'
  <1>1. ASSUME NEW j \in Jobs, NEW r \in Reports, Call(j, r) PROVE HistoryInv'
    <2>1. CASE open
      <3>1. /\ ~Busy(j) /\ hook' = [hook EXCEPT ![j] = "post"]
            /\ sending' = [sending EXCEPT ![j] = {r}] /\ asked' = [asked EXCEPT ![j] = @ \cup {r}]
            /\ UNCHANGED <<attempt, open, accepted, lost>>
        BY <1>1, <2>1 DEF Call
      <3>2. \A k \in Jobs : accepted'[k] \subseteq asked'[k] /\ sending'[k] \subseteq asked'[k]
        BY <3>1 DEF HistoryInv, WebInv
      <3>3. \A k \in Jobs : ~Busy(k)' => attempt'[k] = 1
        BY <3>1 DEF HistoryInv, WebInv, Busy
      <3>4. \A k \in Jobs : /\ hook'[k] = "post" => lost' + 1 >= attempt'[k]
                            /\ hook'[k] = "backoff" => lost' >= attempt'[k]
        BY <2>1, <3>1 DEF HistoryInv, WebInv
      <3> QED BY <3>1, <3>2, <3>3, <3>4 DEF HistoryInv
    <2>2. CASE ~open
      <3>1. Ends(j, "raised") /\ UNCHANGED <<open, late, accepted, lost>>
            /\ asked' = [asked EXCEPT ![j] = @ \cup {r}]
        BY <1>1, <2>2 DEF Call
      <3>2. \A k \in Jobs : accepted'[k] \subseteq asked'[k] /\ sending'[k] \subseteq asked'[k]
        BY <3>1 DEF HistoryInv, WebInv, Ends
      <3>3. \A k \in Jobs : ~Busy(k)' => attempt'[k] = 1
        BY <3>1 DEF HistoryInv, WebInv, Ends, Busy
      <3>4. attempt' \in [Jobs -> Nat]
        BY <3>1 DEF HistoryInv, Ends
      <3> QED BY <2>2, <3>1, <3>2, <3>3, <3>4 DEF HistoryInv
    <2> QED BY <2>1, <2>2
  <1>2. ASSUME NEW j \in Jobs, Answered(j) \/ Refused(j) \/ GivesUp(j) \/ Abort(j)
               \/ (Again(j) /\ ~open)
        PROVE  HistoryInv'
    <2>1. /\ Ends(j, "returned") \/ Ends(j, "raised")
          /\ lost' \in {lost, lost + 1} /\ open' = open /\ UNCHANGED asked /\ Fate(j)
      BY <1>2 DEF Answered, Refused, GivesUp, Abort, Again, Fate
    <2> QED BY <2>1, EndsHistory
  <1>3. ASSUME NEW j \in Jobs, Fails(j) PROVE HistoryInv'
    <2>1. /\ hook[j] = "post" /\ hook' = [hook EXCEPT ![j] = "backoff"] /\ Fate(j)
          /\ lost' \in {lost, lost + 1} /\ (open => lost' = lost + 1)
          /\ UNCHANGED <<sending, asked, attempt, open>>
      BY <1>3 DEF Fails
    <2>2. \A k \in Jobs : accepted'[k] \subseteq asked'[k] /\ sending'[k] \subseteq asked'[k]
      BY <2>1 DEF HistoryInv, WebInv, Fate, Accepts
    <2>3. \A k \in Jobs : ~Busy(k)' => attempt'[k] = 1
      BY <2>1 DEF HistoryInv, WebInv, Busy
    <2>4. lost' \in Nat
      BY <2>1 DEF HistoryInv
    <2>5. ASSUME open', NEW k \in Jobs
          PROVE  /\ hook'[k] = "post" => lost' + 1 >= attempt'[k]
                 /\ hook'[k] = "backoff" => lost' >= attempt'[k]
      <3>1. lost' = lost + 1
        BY <2>1, <2>5
      <3> QED BY <2>1, <2>5, <3>1 DEF HistoryInv, WebInv
    <2> QED BY <2>1, <2>2, <2>3, <2>4, <2>5 DEF HistoryInv
  <1>4. ASSUME NEW j \in Jobs, Again(j), open PROVE HistoryInv'
    <2>1. /\ hook[j] = "backoff" /\ hook' = [hook EXCEPT ![j] = "post"]
          /\ attempt' = [attempt EXCEPT ![j] = @ + 1]
          /\ UNCHANGED <<sending, accepted, asked, open, lost>>
      BY <1>4 DEF Again
    <2>2. attempt' \in [Jobs -> Nat]
      BY <2>1 DEF HistoryInv
    <2>3. \A k \in Jobs : ~Busy(k)' => attempt'[k] = 1
      BY <2>1 DEF HistoryInv, WebInv, Busy
    <2>4. \A k \in Jobs : /\ hook'[k] = "post" => lost' + 1 >= attempt'[k]
                          /\ hook'[k] = "backoff" => lost' >= attempt'[k]
      BY <1>4, <2>1 DEF HistoryInv, WebInv
    <2> QED BY <2>1, <2>2, <2>3, <2>4 DEF HistoryInv
  <1>5. CASE LateArrives
    BY <1>5 DEF LateArrives, HistoryInv, WebInv, Busy
  <1>6. CASE WebGone
    BY <1>6 DEF WebGone, HistoryInv, WebInv, Busy
  <1>7. CASE Close \/ UNCHANGED webVars
    BY <1>7 DEF Close, webVars, HistoryInv, Busy
  <1> QED BY <1>1, <1>2, <1>3, <1>4, <1>5, <1>6, <1>7 DEF WebNext, Attempt

\* The history of the attempts holds throughout.
LEMMA HistoryHolds == WebSpec => []HistoryInv
  <1>1. WebInit => HistoryInv
    BY DEF WebInit, HistoryInv, Busy
  <1> QED BY <1>1, HistoryInductive, WebInvHolds, PTL DEF WebSpec
=============================================================================
