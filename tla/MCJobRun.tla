---- MODULE MCJobRun ----
(***************************************************************************)
(* JobRun on a small instance: model values for the jobs and the clients.   *)
(***************************************************************************)
EXTENDS JobRun, TLC

(* The clients are interchangeable: no definition singles one out.          *)
ClientSymmetry == Permutations(Client)

====
