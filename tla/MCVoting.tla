------------------------------ MODULE MCVoting ------------------------------
(* Instances of Voting for TLC. *)
EXTENDS Voting, TLC

CONSTANTS d1, d2

OneUpload  == {{d1}}
MixedUpload == {{d1}, {d1, d2}}

Symmetry == Permutations(Auth)
=============================================================================
