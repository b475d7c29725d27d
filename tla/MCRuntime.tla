----------------------------- MODULE MCRuntime -----------------------------
(***************************************************************************)
(* Runtime on small instances: the constant functions the configurations   *)
(* choose from, and the symmetry of instances in which all Sessions, all   *)
(* Runs and all backend identities are alike.                              *)
(***************************************************************************)
EXTENDS Runtime

AllAcp == [s \in Sessions |-> "acp"]
AllCli == [s \in Sessions |-> "cli"]
OneEngine == [s \in Sessions |-> "e1"]

Alike == Permutations(Sessions) \cup Permutations(Runs) \cup Permutations(BackendIds)

=============================================================================
