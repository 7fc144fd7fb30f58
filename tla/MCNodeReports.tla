--------------------------- MODULE MCNodeReports ---------------------------
(* Instances of NodeReports for TLC. *)
EXTENDS NodeReports

\* one message per job
MCJobOf == [m \in Msgs |-> m]
=============================================================================
