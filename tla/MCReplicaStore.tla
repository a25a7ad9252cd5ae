---------------------------- MODULE MCReplicaStore ----------------------------
(* A small instance of ReplicaStore for TLC. *)
EXTENDS ReplicaStore, TLC

=============================================================================
