--------------------------- MODULE MCReplicaReads ---------------------------
(* The instance of ReplicaReads that TLC checks.                           *)
EXTENDS ReplicaReads
=============================================================================
