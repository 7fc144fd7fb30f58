-------------------------- MODULE MCBatchConsumer --------------------------
(* Small instances of BatchConsumer for TLC. *)
EXTENDS BatchConsumer

CONSTANTS j1, j2

\* messages 1 and 2 carry the same job, message 3 another one
BatchJobOf == [m \in Msgs |-> IF m = 3 THEN j2 ELSE j1]
=============================================================================
