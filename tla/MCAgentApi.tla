----------------------------- MODULE MCAgentApi -----------------------------
(***************************************************************************)
(* The agent API on a small instance: requests are interchangeable, and so *)
(* are commands.                                                           *)
(***************************************************************************)
EXTENDS AgentApi, TLC

Symmetry == Permutations(Requests) \cup Permutations(Commands)
=============================================================================
