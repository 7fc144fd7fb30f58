----------------------------- MODULE Heartbeat -----------------------------
(***************************************************************************)
(* HeartbeatClient (server/heartbeat.py): a task that posts the consumer's *)
(* current job and Redis health every interval and swallows every failure. *)
(* The body is read before the await, so the cloud may get it when it is   *)
(* no longer true, and a late one after a newer one.                       *)
(***************************************************************************)
EXTENDS Naturals

CONSTANTS
    MaxMissed       \* bound: heartbeats without an answer while the client is open

VARIABLES
    currentJob, redisHealthy,   \* the consumer's fields
    hb,         \* the task: off, send, sleep, done
    hbRunning,  \* self._running
    hbOpen,     \* the httpx client is open
    beat,       \* the heartbeat being sent, if any: a set of at most one
    lateBeats,  \* heartbeats still on their way although their attempt has ended
    view,       \* what the cloud last heard
    missed      \* history: failed heartbeats so far

hbVars == <<hb, hbRunning, hbOpen, beat, lateBeats, view, missed>>

Status == [job |-> currentJob, healthy |-> redisHealthy]

HeartbeatInit ==
    /\ hb = "off" /\ hbRunning = FALSE /\ hbOpen = TRUE
    /\ beat = {} /\ lateBeats = {} /\ view = Status /\ missed = 0

\* the loop head; _send reads the consumer's fields before it awaits
HeartbeatLoop(on) ==
    /\ hb' = IF on THEN "send" ELSE "done"
    /\ beat' = IF on THEN {Status} ELSE {}

\* the task's first step
RunHeartbeat ==
    /\ hb = "off" /\ hbRunning' = TRUE /\ HeartbeatLoop(TRUE)
    /\ UNCHANGED <<hbOpen, lateBeats, view, missed>>

\* a 2xx answer
Beat ==
    /\ hb = "send" /\ hbOpen /\ hb' = "sleep" /\ view' \in beat /\ beat' = {}
    /\ UNCHANGED <<hbRunning, hbOpen, lateBeats, missed>>

\* Mutant of BeatFails: an exception of _send ends the loop.
BeatFailureEndsLoop ==
    /\ hb = "send" /\ hb' = "done" /\ beat' = {}
    /\ hbOpen /\ missed < MaxMissed /\ missed' = missed + 1
    /\ UNCHANGED <<hbRunning, hbOpen, view, lateBeats>>

\* any other answer, a transport error or a closed client: logged, and on
BeatFails ==
    /\ hb = "send" /\ hb' = "sleep" /\ beat' = {}
    /\ \/ hbOpen /\ missed < MaxMissed /\ missed' = missed + 1
       \/ ~hbOpen /\ UNCHANGED missed
    /\ \/ UNCHANGED <<view, lateBeats>>
       \/ view' \in beat /\ UNCHANGED lateBeats
       \/ lateBeats' = lateBeats \cup beat /\ UNCHANGED view
    /\ UNCHANGED <<hbRunning, hbOpen>>

\* the interval has passed
NextBeat ==
    /\ hb = "sleep" /\ HeartbeatLoop(hbRunning)
    /\ UNCHANGED <<hbRunning, hbOpen, lateBeats, view, missed>>

HeartbeatStep == RunHeartbeat \/ Beat \/ BeatFails \/ NextBeat

\* a late heartbeat reaches the cloud, or never does
LateBeatArrives ==
    /\ \E b \in lateBeats : lateBeats' = lateBeats \ {b} /\ view' \in {view, b}
    /\ UNCHANGED <<hb, hbRunning, hbOpen, beat, missed>>

\* close(): stop(), then the connection pool
CloseHeartbeat ==
    /\ hbRunning' = FALSE /\ hbOpen' = FALSE
    /\ UNCHANGED <<hb, beat, lateBeats, view, missed>>

\* a heartbeat whose task goes away may still have reached the cloud
Stray == beat' = {} /\ view' \in {view} \cup beat

\* the lifespan cancels the task: CancelledError is no Exception, the loop ends;
\* a task that has not run yet never does
CancelHeartbeat ==
    /\ hb' = "done" /\ Stray
    /\ UNCHANGED <<hbRunning, hbOpen, lateBeats, missed>>

\* the process ends; the next one has a new client
HeartbeatGone ==
    /\ hb' = "off" /\ hbRunning' = FALSE /\ hbOpen' = TRUE /\ Stray
    /\ UNCHANGED <<lateBeats, missed>>
=============================================================================
