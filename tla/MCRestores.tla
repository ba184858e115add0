---- MODULE MCRestores ----
(* Restores on a small instance; requests and SQL instances are alike.      *)
EXTENDS Restores, TLC

Symmetry == Permutations(Client) \cup Permutations(Instance)

====
