---- MODULE MCAgentRun ----
(***************************************************************************)
(* AgentRun on a small instance: model values for the job and connections.  *)
(***************************************************************************)
EXTENDS AgentRun, TLC

(* The connections are interchangeable.                                     *)
ConnectionSymmetry == Permutations(Client)

====
