---------------------------- MODULE MCReadiness -----------------------------
(* TLC instances of Readiness.  Calls of one kind are interchangeable.      *)
EXTENDS Readiness, TLC

CallSymmetry == Permutations(Analyzers) \cup Permutations(Waiters)
                \cup Permutations(Listers)
=============================================================================
