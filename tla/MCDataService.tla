---------------------------- MODULE MCDataService ----------------------------
(* Instances of DataService for TLC. *)
EXTENDS DataService, TLC

Symmetry == Permutations(Requests)
==============================================================================
