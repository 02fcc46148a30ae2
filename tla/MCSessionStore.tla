-------------------------- MODULE MCSessionStore ----------------------------
(* TLC instance of SessionStore, with the start of the server that makes    *)
(* it: main has its settings before NewStore.  Ids are interchangeable.     *)
EXTENDS SessionStore, Configuration, TLC

FewInts == {-1, 0, 1, 2}

IdSymmetry == Permutations(Ids)

StartedInit == StartInit /\ Init
StartedNext == \/ StartStep /\ UNCHANGED vars
               \/ start = Up /\ Next /\ UNCHANGED start
StartedSpec == StartedInit /\ [][StartedNext]_<<start, vars>>
=============================================================================
