---------------------------- MODULE MCStoreCalls ----------------------------
(***************************************************************************)
(* StoreCalls on a small instance.                                         *)
(***************************************************************************)
EXTENDS StoreCalls, TLC

Symmetry == Permutations(Runs) \cup Permutations(Perms) \cup Permutations(Options)
            \cup Permutations(BackendIds) \cup Permutations(Hashes)

=============================================================================
