----------------------------- MODULE MCClientARQ -----------------------------
(***************************************************************************)
(* Small instances of ClientARQ.  A message's name gives its kind: the     *)
(* .cfg files choose which messages a run has.                             *)
(***************************************************************************)
EXTENDS ClientARQ

CONSTANTS app, read, peek, write, strict, copy

\* One thin client owns every message.
OneApp == [m \in Msgs |-> app]

KindByName == [m \in Msgs |-> CASE m = read -> "read"
                                [] m = peek -> "peek"
                                [] m = write -> "write"
                                [] m = strict -> "strict"
                                [] m = copy -> "copy"]

\* Every message has an envelope of its own.
OwnHash == [m \in Msgs |-> m]
=============================================================================
