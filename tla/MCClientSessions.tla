--------------------------- MODULE MCClientSessions ---------------------------
(* Small instances of ClientSessions for TLC. *)
EXTENDS ClientSessions, TLC

\* Clients without a token are interchangeable.
LegacySymmetry == Permutations(Legacy)
=============================================================================
