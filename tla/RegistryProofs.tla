--------------------------- MODULE RegistryProofs ---------------------------
(* Theorems about the registry, for every set of ids and paths and every    *)
(* session limit.                                                           *)
EXTENDS Registry, FiniteSetTheorems, TLAPS

(* The index invariant is inductive together with the types.                *)
RegistryInv == RegistryTypeOK /\ IndexSound

LEMMA RegistryInitInv == NewRegistry => RegistryInv
  BY NoneAssumption DEF NewRegistry, RegistryInv, RegistryTypeOK, IndexSound

(* Writing a new session into both maps keeps the index sound: the entry of *)
(* the path names the new session, other entries name other sessions.       *)
LEMMA InsertInv ==
  ASSUME RegistryInv, NEW id \in Ids, sessions[id] = None, NEW p \in Paths,
         Insert(id, p)
  PROVE  RegistryInv'
  BY NoneAssumption DEF RegistryInv, RegistryTypeOK, IndexSound, Insert

LEMMA DeleteInv ==
  ASSUME RegistryInv, NEW id \in Ids, Delete(id)
  PROVE  RegistryInv'
  <1>1. CASE sessions[id] # None
    BY <1>1, NoneAssumption
       DEF RegistryInv, RegistryTypeOK, IndexSound, Delete, registryVars
  <1>2. CASE sessions[id] = None
    BY <1>2 DEF RegistryInv, RegistryTypeOK, IndexSound, Delete, registryVars
  <1> QED BY <1>1, <1>2

LEMMA RestoreThenDeleteInv ==
  ASSUME RegistryInv, NEW id \in Ids, NEW p \in Paths, RestoreThenDelete(id, p)
  PROVE  RegistryInv'
  BY NoneAssumption DEF RegistryInv, RegistryTypeOK, IndexSound, RestoreThenDelete

LEMMA RegistryStepInv == RegistryInv /\ [RegistryNext]_registryVars => RegistryInv'
  <1> SUFFICES ASSUME RegistryInv, [RegistryNext]_registryVars
               PROVE  RegistryInv'
    OBVIOUS
  <1>1. ASSUME NEW id \in Ids \ Live, NEW p \in Paths,
               Create(id, p) \/ Restore(id, p) \/ RestoreThenDelete(id, p)
        PROVE  RegistryInv'
    <2>1. sessions[id] = None
      BY DEF Live
    <2>2. CASE Insert(id, p)
      BY <2>1, <2>2, InsertInv
    <2>3. CASE RestoreThenDelete(id, p)
      BY <2>3, RestoreThenDeleteInv
    <2> QED BY <1>1, <2>2, <2>3 DEF Create, Restore
  <1>2. ASSUME NEW id \in Ids, Delete(id)
        PROVE  RegistryInv'
    BY <1>2, DeleteInv
  <1>3. CASE Renew
    BY <1>3, NoneAssumption DEF Renew, RegistryInv, RegistryTypeOK, IndexSound
  <1>4. CASE UNCHANGED registryVars
    BY <1>4 DEF registryVars, RegistryInv, RegistryTypeOK, IndexSound
  <1> QED BY <1>1, <1>2, <1>3, <1>4 DEF RegistryNext

(* FindByBinaryPath never returns a session that is gone or that handles    *)
(* another binary, whatever sequence of creations, restores and deletions   *)
(* the registry has seen.                                                   *)
THEOREM RegistryIndexSound == RegistrySpec => []IndexSound
  <1>1. RegistryInv => IndexSound
    BY DEF RegistryInv
  <1> QED BY <1>1, RegistryInitInv, RegistryStepInv, PTL DEF RegistrySpec

(* The index and the sessions agree on every path that one session has had  *)
(* at a time.                                                               *)
LEMMA InsertFound ==
  ASSUME RegistryTypeOK, SessionFound, NEW id \in Ids, sessions[id] = None, NEW p \in Paths,
         Insert(id, p)
  PROVE  SessionFound'
  <1> SUFFICES ASSUME NEW i \in Live', sessions'[i] \notin shared'
               PROVE  binaryIndex'[sessions'[i]] = i
    BY DEF SessionFound, FindByBinaryPath
  <1>1. CASE i = id
    BY <1>1 DEF Insert, RegistryTypeOK, Live
  <1>2. CASE i # id
    <2>1. i \in Live /\ sessions'[i] = sessions[i]
      BY <1>2 DEF Insert, RegistryTypeOK, Live
    <2>2. sessions[i] \notin shared /\ binaryIndex[sessions[i]] = i
      BY <2>1 DEF Insert, SessionFound, FindByBinaryPath
    <2>3. sessions[i] # p
      BY <2>1 DEF Insert, Of
    <2> QED BY <2>1, <2>2, <2>3 DEF Insert, RegistryTypeOK, Live
  <1> QED BY <1>1, <1>2

LEMMA DeleteFound ==
  ASSUME RegistryTypeOK, SessionFound, NEW id \in Ids, Delete(id)
  PROVE  SessionFound'
  <1>1. CASE sessions[id] = None
    BY <1>1 DEF Delete, registryVars, SessionFound, FindByBinaryPath, Live
  <1>2. CASE sessions[id] # None
    <2>1. /\ sessions' = [sessions EXCEPT ![id] = None]
          /\ binaryIndex' = [binaryIndex EXCEPT ![sessions[id]] = None]
          /\ shared' = IF Of(sessions[id]) = {id} THEN shared \ {sessions[id]} ELSE shared
      BY <1>2 DEF Delete
    <2> SUFFICES ASSUME NEW i \in Live', sessions'[i] \notin shared'
                 PROVE  binaryIndex'[sessions'[i]] = i
      BY DEF SessionFound, FindByBinaryPath
    <2>2. i # id /\ i \in Live /\ sessions'[i] = sessions[i] /\ sessions[i] \in Paths
      BY <2>1, NoneAssumption DEF RegistryTypeOK, Live
    <2>3. sessions[i] # sessions[id]
      <3>1. SUFFICES ASSUME sessions[i] = sessions[id] PROVE FALSE
        OBVIOUS
      <3>2. i \in Of(sessions[id])
        BY <2>2, <3>1 DEF Of
      <3>3. shared' = shared
        BY <2>1, <2>2, <3>2
      <3>4. id \in Live
        BY <1>2 DEF Live
      <3>5. binaryIndex[sessions[i]] = i /\ binaryIndex[sessions[i]] = id
        BY <2>2, <3>1, <3>3, <3>4 DEF SessionFound, FindByBinaryPath
      <3> QED BY <2>2, <3>5
    <2>4. sessions[i] \notin shared
      BY <2>1, <2>2, <2>3
    <2> QED BY <2>1, <2>2, <2>3, <2>4 DEF SessionFound, FindByBinaryPath, RegistryTypeOK
  <1> QED BY <1>1, <1>2

LEMMA RestoreThenDeleteFound ==
  ASSUME RegistryTypeOK, SessionFound, NEW id \in Ids, NEW p \in Paths,
         RestoreThenDelete(id, p)
  PROVE  SessionFound'
  <1> SUFFICES ASSUME NEW i \in Live, sessions[i] \notin shared'
               PROVE  binaryIndex'[sessions[i]] = i
    BY DEF RestoreThenDelete, SessionFound, FindByBinaryPath, Live
  <1>1. sessions[i] # p /\ sessions[i] \notin shared
    BY DEF RestoreThenDelete, Of
  <1> QED BY <1>1 DEF RestoreThenDelete, SessionFound, FindByBinaryPath, RegistryTypeOK, Live

LEMMA RegistryStepFound ==
  RegistryTypeOK /\ SessionFound /\ [RegistryNext]_registryVars => SessionFound'
  <1> SUFFICES ASSUME RegistryTypeOK, SessionFound, [RegistryNext]_registryVars
               PROVE  SessionFound'
    OBVIOUS
  <1>1. ASSUME NEW id \in Ids \ Live, NEW p \in Paths,
               Create(id, p) \/ Restore(id, p) \/ RestoreThenDelete(id, p)
        PROVE  SessionFound'
    BY <1>1, InsertFound, RestoreThenDeleteFound DEF Live, Create, Restore
  <1>2. ASSUME NEW id \in Ids, Delete(id)
        PROVE  SessionFound'
    BY <1>2, DeleteFound
  <1>3. CASE Renew
    BY <1>3 DEF Renew, SessionFound, Live
  <1>4. CASE UNCHANGED registryVars
    BY <1>4 DEF registryVars, SessionFound, FindByBinaryPath, Live
  <1> QED BY <1>1, <1>2, <1>3, <1>4 DEF RegistryNext

(* The registry finds the session of an open path, and no other, unless two *)
(* sessions share the path or have shared it since it was opened.           *)
THEOREM RegistryFindsSession == RegistrySpec => []SessionFound
  <1>1. NewRegistry => SessionFound
    BY DEF NewRegistry, SessionFound, Live
  <1>2. RegistryInv => RegistryTypeOK
    BY DEF RegistryInv
  <1> QED BY <1>1, <1>2, RegistryInitInv, RegistryStepInv, RegistryStepFound, PTL
          DEF RegistrySpec

(* The set of live sessions is finite, which counting needs, and within the *)
(* limit.                                                                   *)
LimitInv == MaxSessions > 0 => IsFiniteSet(Live) /\ Cardinality(Live) <= MaxSessions

LEMMA InsertLimit ==
  ASSUME LimitInv, RegistryTypeOK, NEW id \in Ids \ Live, NEW p \in Paths,
         ~Full, Insert(id, p)
  PROVE  LimitInv'
  <1> SUFFICES ASSUME MaxSessions > 0
               PROVE  IsFiniteSet(Live') /\ Cardinality(Live') <= MaxSessions
    BY DEF LimitInv
  <1>1. Live' = Live \cup {id}
    BY NoneAssumption DEF Live, Insert, RegistryTypeOK
  <1>2. IsFiniteSet(Live) /\ Cardinality(Live) <= MaxSessions
    BY DEF LimitInv
  <1>3. Cardinality(Live) \in Nat /\ Cardinality(Live) < MaxSessions
    BY <1>2, FS_CardinalityType, MaxAssumption DEF Full
  <1>4. IsFiniteSet(Live \cup {id}) /\ Cardinality(Live \cup {id}) = Cardinality(Live) + 1
    BY <1>2, FS_AddElement
  <1> QED BY <1>1, <1>3, <1>4, MaxAssumption

LEMMA ShrinkLimit ==
  ASSUME LimitInv, Live' \subseteq Live
  PROVE  LimitInv'
  <1> SUFFICES ASSUME MaxSessions > 0
               PROVE  IsFiniteSet(Live') /\ Cardinality(Live') <= MaxSessions
    BY DEF LimitInv
  <1>1. IsFiniteSet(Live) /\ Cardinality(Live) <= MaxSessions
    BY DEF LimitInv
  <1>2. IsFiniteSet(Live') /\ Cardinality(Live') <= Cardinality(Live)
    BY <1>1, FS_Subset
  <1>3. Cardinality(Live) \in Nat /\ Cardinality(Live') \in Nat
    BY <1>1, <1>2, FS_CardinalityType
  <1> QED BY <1>1, <1>2, <1>3, MaxAssumption

LEMMA RegistryStepLimit ==
  RegistryTypeOK /\ LimitInv /\ [RegistryNext]_registryVars => LimitInv'
  <1> SUFFICES ASSUME RegistryTypeOK, LimitInv, [RegistryNext]_registryVars
               PROVE  LimitInv'
    OBVIOUS
  <1>1. ASSUME NEW id \in Ids \ Live, NEW p \in Paths, ~Full, Insert(id, p)
        PROVE  LimitInv'
    BY <1>1, InsertLimit
  <1>2. ASSUME NEW id \in Ids, NEW p \in Paths, RestoreThenDelete(id, p)
        PROVE  LimitInv'
    BY <1>2, ShrinkLimit DEF RestoreThenDelete, Live
  <1>3. ASSUME NEW id \in Ids, Delete(id)
        PROVE  LimitInv'
    BY <1>3, ShrinkLimit DEF Delete, Live, registryVars, RegistryTypeOK
  <1>4. CASE Renew
    BY <1>4, ShrinkLimit DEF Renew, Live
  <1>5. CASE UNCHANGED registryVars
    BY <1>5, ShrinkLimit DEF registryVars, Live
  <1> QED BY <1>1, <1>2, <1>3, <1>4, <1>5 DEF RegistryNext, Create, Restore

(* The session limit holds for every limit, every set of ids and paths, and *)
(* every order of operations.                                               *)
THEOREM RegistryWithinLimit == RegistrySpec => []WithinLimit
  <1>1. NewRegistry => RegistryTypeOK /\ LimitInv
    <2> SUFFICES ASSUME NewRegistry
                 PROVE  RegistryTypeOK /\ LimitInv
      OBVIOUS
    <2>1. Live = {}
      BY DEF NewRegistry, Live
    <2>2. LimitInv
      BY <2>1, FS_EmptySet, MaxAssumption DEF LimitInv
    <2> QED BY <2>2, RegistryInitInv DEF RegistryInv
  <1>2. RegistryInv /\ LimitInv => WithinLimit
    BY DEF LimitInv, WithinLimit
  <1>3. RegistryInv => RegistryTypeOK
    BY DEF RegistryInv
  <1> QED BY <1>1, <1>2, <1>3, RegistryInitInv, RegistryStepInv, RegistryStepLimit,
             PTL DEF RegistrySpec
=============================================================================
