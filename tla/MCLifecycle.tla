---------------------------- MODULE MCLifecycle -----------------------------
(* TLC instances of Lifecycle.  Ids, paths and calls are interchangeable:   *)
(* no definition orders them or picks one with CHOOSE.                      *)
EXTENDS Lifecycle, TLC

AllSymmetry == Permutations(Ids) \cup Permutations(Paths) \cup Permutations(Calls)

(* Bound: between two starts of the server one session is missed by its     *)
(* teardown, which may leave its worker, its record, or both.               *)
FewMissed == Cardinality(unstopped \cup unremoved) <= 1
=============================================================================
