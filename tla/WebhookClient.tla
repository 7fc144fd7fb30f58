--------------------------- MODULE WebhookClient ---------------------------
(***************************************************************************)
(* WebhookClient (server/webhook.py): the attempts of _post_with_retry     *)
(* over a network that loses requests, loses answers and delivers late,    *)
(* and a cloud that may answer 4xx or 5xx.  send_result and send_error are *)
(* calls that differ in the report they carry.                             *)
(***************************************************************************)
EXTENDS Naturals

CONSTANTS
    Jobs,
    MaxRetries,     \* max_retries, 3 in the code: attempts per call, at least 1
    MaxLost         \* bound: attempts that fail while the client is open

Reports == {"completed", "failed"}

VARIABLES
    hook,       \* per job: none, post (awaiting the answer), backoff, returned, raised
    sending,    \* per job: the report of the call under way, a set of at most one
    attempt,    \* per job: the attempt under way
    open,       \* the httpx client is open
    late,       \* requests still on their way although their attempt has ended
    accepted,   \* per job: the reports the cloud has processed
    asked,      \* history, per job: the reports of all calls
    lost        \* history: failed attempts so far

webVars == <<hook, sending, attempt, open, late, accepted, asked, lost>>

Busy(j) == hook[j] \in {"post", "backoff"}

WebInit ==
    /\ hook = [j \in Jobs |-> "none"] /\ sending = [j \in Jobs |-> {}]
    /\ attempt = [j \in Jobs |-> 1] /\ open = TRUE /\ late = {}
    /\ accepted = [j \in Jobs |-> {}] /\ asked = [j \in Jobs |-> {}] /\ lost = 0

Accepts(j) == accepted' = [accepted EXCEPT ![j] = @ \cup sending[j]]

\* what becomes of a request whose answer the client does not get (a late copy of
\* a report the cloud has makes no difference)
Fate(j) ==
    \/ UNCHANGED <<accepted, late>>
    \/ Accepts(j) /\ UNCHANGED late
    \/ late' = late \cup ({j} \X (sending[j] \ accepted[j])) /\ UNCHANGED accepted

\* the call ends with outcome o
Ends(j, o) ==
    /\ hook' = [hook EXCEPT ![j] = o] /\ sending' = [sending EXCEPT ![j] = {}]
    /\ attempt' = [attempt EXCEPT ![j] = 1]

\* send_result or send_error; a closed client raises in the first attempt
Call(j, r) ==
    /\ ~Busy(j)
    /\ \/ open /\ hook' = [hook EXCEPT ![j] = "post"]
            /\ sending' = [sending EXCEPT ![j] = {r}] /\ UNCHANGED attempt
       \/ ~open /\ Ends(j, "raised")
    /\ asked' = [asked EXCEPT ![j] = @ \cup {r}]
    /\ UNCHANGED <<open, late, accepted, lost>>

\* a 2xx answer
Answered(j) ==
    /\ hook[j] = "post" /\ Ends(j, "returned") /\ Accepts(j)
    /\ UNCHANGED <<open, late, asked, lost>>

\* a 4xx answer is raised at once
Refused(j) ==
    /\ hook[j] = "post" /\ lost < MaxLost /\ lost' = lost + 1
    /\ Ends(j, "raised")
    /\ UNCHANGED <<open, late, accepted, asked>>

\* Mutant of Fails: every failure is raised at once.
FailsForGood(j) ==
    /\ hook[j] = "post" /\ lost < MaxLost /\ lost' = lost + 1
    /\ Ends(j, "raised") /\ Fate(j)
    /\ UNCHANGED <<open, asked>>

\* a 5xx answer or a transport error, time-outs and a closed pool included
Fails(j) ==
    /\ hook[j] = "post" /\ hook' = [hook EXCEPT ![j] = "backoff"]
    /\ \/ lost < MaxLost /\ lost' = lost + 1
       \/ ~open /\ UNCHANGED lost
    /\ Fate(j)
    /\ UNCHANGED <<sending, attempt, open, asked>>

\* the back-off ends and the next attempt begins
Again(j) ==
    /\ hook[j] = "backoff" /\ attempt[j] < MaxRetries
    /\ \/ open /\ hook' = [hook EXCEPT ![j] = "post"]
            /\ attempt' = [attempt EXCEPT ![j] = @ + 1] /\ UNCHANGED sending
       \/ ~open /\ Ends(j, "raised")
    /\ UNCHANGED <<open, late, accepted, asked, lost>>

\* Mutant of GivesUp: the loop is left without `raise last_exc'.
GivesUpQuietly(j) ==
    /\ hook[j] = "backoff" /\ attempt[j] >= MaxRetries
    /\ Ends(j, "returned")
    /\ UNCHANGED <<open, late, accepted, asked, lost>>

\* ... or, after the back-off of the last one, the last exception is raised
GivesUp(j) ==
    /\ hook[j] = "backoff" /\ attempt[j] >= MaxRetries
    /\ Ends(j, "raised")
    /\ UNCHANGED <<open, late, accepted, asked, lost>>

\* CancelledError lands in a call
Abort(j) ==
    /\ Busy(j) /\ Ends(j, "raised")
    /\ IF hook[j] = "post" THEN Fate(j) ELSE UNCHANGED <<accepted, late>>
    /\ UNCHANGED <<open, asked, lost>>

\* close()
Close == open' = FALSE /\ UNCHANGED <<hook, sending, attempt, late, accepted, asked, lost>>

\* a late request reaches the cloud, or never does
LateArrives ==
    /\ \E q \in late : /\ late' = late \ {q}
                       /\ accepted' \in {accepted, [accepted EXCEPT ![q[1]] = @ \cup {q[2]}]}
    /\ UNCHANGED <<hook, sending, attempt, open, asked, lost>>

\* the process ends, and with it the calls; the next one has a new client
WebGone ==
    /\ hook' = [j \in Jobs |-> "none"] /\ sending' = [j \in Jobs |-> {}]
    /\ attempt' = [j \in Jobs |-> 1] /\ open' = TRUE
    /\ \E S \in SUBSET {j \in Jobs : hook[j] = "post"} :
          accepted' = [j \in Jobs |-> accepted[j] \cup {r \in sending[j] : j \in S}]
    /\ UNCHANGED <<late, asked, lost>>

\* what the client does by itself
Attempt(j) == Answered(j) \/ Refused(j) \/ Fails(j) \/ Again(j) \/ GivesUp(j)

\* the client under any caller that makes one call per job at a time
WebNext ==
    \/ \E j \in Jobs : (\E r \in Reports : Call(j, r)) \/ Attempt(j) \/ Abort(j)
    \/ Close \/ LateArrives \/ WebGone

WebSpec == WebInit /\ [][WebNext]_webVars

Outcome == [j \in Jobs |-> IF Busy(j) THEN "busy" ELSE hook[j]]

Promise == INSTANCE ReportDelivery WITH outcome <- Outcome
=============================================================================
