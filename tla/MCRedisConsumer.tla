-------------------------- MODULE MCRedisConsumer --------------------------
(* Small instances of RedisConsumer for TLC. *)
EXTENDS ConsumerJobs

CONSTANTS j1, j2

\* messages 1 and 2 carry the same job, message 3 another one
DupJobOf == [m \in Msgs |-> IF m \in {1, 2} THEN j1 ELSE j2]
\* one job per message
OwnJobOf == [m \in Msgs |-> IF m = 1 THEN j1 ELSE j2]
=============================================================================
