------------------------- MODULE MCChallengeVerifier -------------------------
(***************************************************************************)
(* The identity worker on a small instance: two cycles overlap, and a code *)
(* may be registered twice.                                                *)
(***************************************************************************)
EXTENDS ChallengeVerifier
=============================================================================
