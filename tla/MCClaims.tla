------------------------------- MODULE MCClaims -------------------------------
(***************************************************************************)
(* Instances of Claims for TLC.                                            *)
(***************************************************************************)
EXTENDS Claims, TLC

\* Agents differ only by name.
AgentSymmetry == Permutations(Agents)
=============================================================================
