--------------------------- MODULE ReportDelivery ---------------------------
(***************************************************************************)
(* What WebhookClient promises its callers, without requests, attempts or  *)
(* a network: a call ends by returning or by raising, and it returns only  *)
(* when the cloud has the report.  The cloud may get a report more than    *)
(* once, after the call has raised, or after the node has forgotten it.    *)
(***************************************************************************)
CONSTANTS
    Jobs, Reports

VARIABLES
    outcome,    \* per job: none, busy (call under way), returned, raised
    asked,      \* per job: the reports the client was ever called with
    sending,    \* per job: the report of the call under way, a set of at most one
    accepted    \* per job: the reports the cloud has processed

deliveryVars == <<outcome, sending, asked, accepted>>

Init ==
    /\ outcome = [j \in Jobs |-> "none"] /\ asked = [j \in Jobs |-> {}]
    /\ accepted = [j \in Jobs |-> {}] /\ sending = [j \in Jobs |-> {}]

\* the call of j is over, with outcome o
Ends(j, o) ==
    /\ outcome' = [outcome EXCEPT ![j] = o] /\ sending' = [sending EXCEPT ![j] = {}]

\* a call begins; on a closed client it raises at once
Call(j, r) ==
    /\ outcome[j] # "busy"
    /\ \/ /\ outcome' = [outcome EXCEPT ![j] = "busy"]
          /\ sending' = [sending EXCEPT ![j] = {r}]
       \/ Ends(j, "raised")
    /\ asked' = [asked EXCEPT ![j] = @ \cup {r}]
    /\ UNCHANGED accepted

\* the cloud gets a report it was sent, now or again
Accept(j, r) ==
    /\ r \in asked[j] /\ accepted' = [accepted EXCEPT ![j] = @ \cup {r}]
    /\ UNCHANGED <<outcome, sending, asked>>

\* the call returns: the cloud has the report at that moment
Return(j) ==
    /\ outcome[j] = "busy" /\ Ends(j, "returned")
    /\ accepted' = [accepted EXCEPT ![j] = @ \cup sending[j]]
    /\ UNCHANGED asked

\* the call raises, or the caller is cancelled; the cloud may have the report
Raise(j) ==
    /\ outcome[j] = "busy" /\ Ends(j, "raised")
    /\ accepted' \in {accepted, [accepted EXCEPT ![j] = @ \cup sending[j]]}
    /\ UNCHANGED asked

\* the process ends: calls under way are forgotten
Forget ==
    /\ outcome' = [j \in Jobs |-> "none"] /\ sending' = [j \in Jobs |-> {}]
    /\ \E S \in SUBSET {j \in Jobs : outcome[j] = "busy"} :
          accepted' = [j \in Jobs |-> accepted[j] \cup {r \in sending[j] : j \in S}]
    /\ UNCHANGED asked

Next ==
    \/ \E j \in Jobs, r \in Reports : Call(j, r) \/ Accept(j, r)
    \/ \E j \in Jobs : Return(j) \/ Raise(j)
    \/ Forget

Spec == Init /\ [][Next]_deliveryVars
=============================================================================
