---------------------------- MODULE MCAdmission ----------------------------
(***************************************************************************)
(* The gates of the agent on a small instance: a bucket of one and a half  *)
(* tokens that gains one token a tick, a store of two nonces, one restart. *)
(***************************************************************************)
EXTENDS Admission, TLC

Symmetry == Permutations(Nonces)
=============================================================================
