---------------------------- MODULE MCAgentPool ----------------------------
(***************************************************************************)
(* Instances of AgentPool for TLC.                                         *)
(***************************************************************************)
EXTENDS AgentPool, TLC

MCSymmetry == Permutations(Keys) \cup Permutations(Runs) \cup Permutations(Procs)
=============================================================================
