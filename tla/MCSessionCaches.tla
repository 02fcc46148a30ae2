-------------------------- MODULE MCSessionCaches ---------------------------
(* TLC instances of SessionCaches.  Functions are interchangeable when all  *)
(* of them, or none, are callers, and so are writes.                        *)
EXTENDS SessionCaches, TLC

(* Removed is the filter of a sequence, on short lists of two elements.     *)
ASSUME RemovedFilters ==
    \A n \in 0..4 : \A list \in [1..n -> {1, 2}] : \A S \in SUBSET {1, 2} :
        Removed(list, S) = SelectSeq(list, LAMBDA x : x \notin S)

(* Bound: texts and cross-references are not read at the same time, nor     *)
(* both cached.  They share nothing but the moments when both are dropped.  *)
OneKind ==
    \/ xrefs = Nil /\ \A r \in Readers : rd[r].pc \in {"idle", "text", "settext"}
    \/ /\ \A f \in Functions : texts[f] = Nil
       /\ \A r \in Readers : rd[r].pc \in {"idle", "to", "from", "setxrefs"}

CacheSymmetry == Permutations(Functions) \cup Permutations(Writers)
=============================================================================
