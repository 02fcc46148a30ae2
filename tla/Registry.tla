------------------------------ MODULE Registry ------------------------------
(***************************************************************************)
(* The in-memory session registry (internal/session/registry.go): the map  *)
(* from session id to session, the index from binary path to the session   *)
(* handling it, and the session limit.  Every operation runs under the     *)
(* registry's mutex, so each one is a single step here.                    *)
(*                                                                         *)
(* A session object is identified with its id: ids are drawn from random   *)
(* UUIDs and are assumed not to repeat.  Of a session's fields only the    *)
(* binary path matters to the registry.                                    *)
(***************************************************************************)
EXTENDS Naturals, FiniteSets

CONSTANTS
    Ids,          \* session ids
    Paths,        \* cleaned binary paths
    None,         \* the absence of a map entry
    MaxSessions   \* maxSessions; 0 means no limit

ASSUME NoneAssumption == None \notin Ids /\ None \notin Paths
ASSUME MaxAssumption  == MaxSessions \in Nat

VARIABLES
    sessions,     \* sessions[id]: the path of session id, None if absent
    binaryIndex,  \* binaryIndex[p]: the session indexed under p, or None
    shared        \* history: open paths that two sessions have had at once

registryVars == <<sessions, binaryIndex, shared>>

----------------------------------------------------------------------------

Live == {id \in Ids : sessions[id] # None}

Of(path) == {id \in Live : sessions[id] = path}

NewRegistry ==
    /\ sessions    = [id \in Ids |-> None]
    /\ binaryIndex = [p \in Paths |-> None]
    /\ shared      = {}

(* A faulty variant: one session too many.                                  *)
FullOffByOne == MaxSessions > 0 /\ Cardinality(Live) > MaxSessions

Full == MaxSessions > 0 /\ Cardinality(Live) >= MaxSessions

(* Both maps are written: an existing index entry for the path is replaced. *)
Insert(id, path) ==
    /\ sessions'    = [sessions EXCEPT ![id] = path]
    /\ binaryIndex' = [binaryIndex EXCEPT ![path] = id]
    /\ shared'      = IF Of(path) = {} THEN shared ELSE shared \cup {path}

Create(id, path) ==
    /\ ~Full
    /\ Insert(id, path)

(* A faulty variant: a restored session is not indexed.                     *)
RestoreUnindexed(id, path) ==
    /\ ~Full
    /\ sessions[id] = None
    /\ sessions' = [sessions EXCEPT ![id] = path]
    /\ UNCHANGED <<binaryIndex, shared>>

Restore(id, path) ==
    /\ ~Full
    /\ sessions[id] = None
    /\ Insert(id, path)

(* A faulty variant: the index entry is left behind.                        *)
DeleteKeepsIndex(id) ==
    /\ sessions' = [sessions EXCEPT ![id] = None]
    /\ UNCHANGED <<binaryIndex, shared>>

(* The index entry of the session's path goes, whichever session it names. *)
Delete(id) ==
    \/ /\ sessions[id] # None
       /\ sessions'    = [sessions EXCEPT ![id] = None]
       /\ binaryIndex' = [binaryIndex EXCEPT ![sessions[id]] = None]
       /\ shared' = IF Of(sessions[id]) = {id} THEN shared \ {sessions[id]} ELSE shared
    \/ /\ sessions[id] = None
       /\ UNCHANGED registryVars

FindByBinaryPath(path) == binaryIndex[path]

(* A new server process starts with an empty registry. *)
Renew ==
    /\ sessions'    = [id \in Ids |-> None]
    /\ binaryIndex' = [p \in Paths |-> None]
    /\ shared'      = {}

----------------------------------------------------------------------------

(* RestoreSessions restores and, when the worker does not start, deletes:   *)
(* seen from outside it is one step when nothing else runs in between.      *)
RestoreThenDelete(id, path) ==
    /\ ~Full
    /\ sessions[id] = None
    /\ binaryIndex' = [binaryIndex EXCEPT ![path] = None]
    /\ shared' = IF Of(path) = {} THEN shared ELSE shared \cup {path}
    /\ UNCHANGED sessions

RegistryNext ==
    \/ \E id \in Ids \ Live, p \in Paths :
           Create(id, p) \/ Restore(id, p) \/ RestoreThenDelete(id, p)
    \/ \E id \in Ids : Delete(id)
    \/ Renew

RegistrySpec == NewRegistry /\ [][RegistryNext]_registryVars

----------------------------------------------------------------------------

RegistryTypeOK ==
    /\ sessions \in [Ids -> Paths \cup {None}]
    /\ binaryIndex \in [Paths -> Ids \cup {None}]
    /\ shared \subseteq Paths

(* What FindByBinaryPath relies on when open_binary reuses a session: an    *)
(* index entry never dangles, it names a registered session of that path.   *)
IndexSound ==
    \A p \in Paths :
        binaryIndex[p] # None => sessions[binaryIndex[p]] = p

(* open_binary finds the session of a binary that is open and reuses it, as *)
(* long as the path has had one session at a time: Delete drops the index   *)
(* entry of the path, whoever it names, and loses the other session of a    *)
(* path that two have shared (registry.go:189).                             *)
SessionFound ==
    \A id \in Live : sessions[id] \notin shared => FindByBinaryPath(sessions[id]) = id

(* Create and Restore together never let the registry outgrow maxSessions.  *)
WithinLimit == MaxSessions > 0 => Cardinality(Live) <= MaxSessions
=============================================================================
