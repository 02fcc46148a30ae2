-------------------------- MODULE LifecycleProofs ---------------------------
(* Theorems about the session lifecycle: what the registry keeps, what the  *)
(* store keeps, what a teardown leaves behind, and the tool tier.  They     *)
(* hold for every number of concurrent calls, ids, paths and exits, and     *)
(* whichever faults happen.                                                 *)
EXTENDS Lifecycle, RegistryProofs

(* Steps of open_binary that follow the creation of the session.            *)
CreatedPcs == {"start", "client", "undo", "persist", "promote"}

(* Ids in use anywhere were drawn before: a fresh id meets no old state.    *)
UsedInv ==
    /\ Live \subseteq used
    /\ \A id \in Ids : records[id] # None => id \in used

(* A handler past its first steps has a path to open, or an id to work on.  *)
CallInv ==
    \A c \in Calls :
        /\ call[c].pc \in {"idle", "find", "reuse", "create"} => call[c].id = None
        /\ call[c].pc \in OpenPcs => call[c].path \in Paths
        /\ call[c].pc \in CreatedPcs \cup ClosePcs \cup {"analyze"}
               => call[c].id \in used

DogInv ==
    /\ dog.pc \in {"stop", "delete", "forget"} => dog.id \in used
    /\ dog.todo \subseteq used

(* While the server is down or restoring nothing else runs, and what is     *)
(* still to be restored has a record and no session.                        *)
BootInv ==
    /\ mode # "up" => dog = DogIdle /\ \A c \in Calls : call[c] = Idle
    /\ mode = "up" => pending = {}
    /\ mode = "down" => Live = {}
    /\ \A id \in pending : records[id] # None /\ sessions[id] = None

(* The record is written before the open ends and removed after the session *)
(* has left the registry, to which an id never returns.                     *)
RecordInv ==
    /\ SessionsPersisted
    /\ \A c \in Calls :
           /\ call[c].pc \in CreatedPcs /\ call[c].id \in Live
                  => sessions[call[c].id] = call[c].path
           /\ call[c].pc = "promote" /\ call[c].id \in Live
                  => records[call[c].id] = call[c].path
           /\ call[c].pc = "forget" => call[c].id \notin Live
    /\ dog.pc = "forget" => dog.id \notin Live

BaseInv == TypeOK /\ UsedInv /\ CallInv /\ DogInv /\ BootInv

PersistInv == BaseInv /\ RecordInv

LEMMA InitBase == Init => BaseInv
  <1>1. Init => raced \in BOOLEAN
    BY DEF Init
  <1> QED BY <1>1, NoneAssumption, CrashAssumption
     DEF Init, NewRegistry, BaseInv, TypeOK, RegistryTypeOK, UsedInv, CallInv,
         DogInv, BootInv, Live, Idle, DogIdle, OpenPcs, ClosePcs, CreatedPcs

(* Every step keeps the base invariant.                                     *)
LEMMA OpenBase ==
  ASSUME BaseInv, NEW c \in Calls, OpenStep(c)
  PROVE  BaseInv'
  <1> USE NoneAssumption DEF BaseInv, TypeOK, RegistryTypeOK, UsedInv, CallInv,
            DogInv, BootInv, Live, Idle, DogIdle, OpenPcs, ClosePcs, CreatedPcs,
            registryVars, workerVars, storeVars, tierVars, bootVars, Goto, Return
  <1>1. CASE OpenFind(c)
    BY <1>1 DEF OpenFind
  <1>2. CASE OpenReuse(c)
    BY <1>2 DEF OpenReuse, promoteToTier
  <1>3. CASE OpenCreate(c)
    BY <1>3 DEF OpenCreate, Create, Insert
  <1>4. CASE OpenRefused(c)
    BY <1>4 DEF OpenRefused
  <1>5. CASE OpenStart(c)
    BY <1>5 DEF OpenStart, Start, Launch
  <1>6. CASE OpenStartFails(c)
    BY <1>6 DEF OpenStartFails
  <1>7. CASE OpenClient(c)
    BY <1>7 DEF OpenClient
  <1>8. CASE OpenUndo(c)
    BY <1>8 DEF OpenUndo, Delete
  <1>9. CASE OpenPersist(c)
    BY <1>9 DEF OpenPersist
  <1>10. CASE OpenPromote(c)
    BY <1>10 DEF OpenPromote, promoteToTier
  <1> QED BY <1>1, <1>2, <1>3, <1>4, <1>5, <1>6, <1>7, <1>8, <1>9, <1>10 DEF OpenStep

LEMMA CloseBase ==
  ASSUME BaseInv, NEW c \in Calls, CloseStep(c)
  PROVE  BaseInv'
  <1> USE NoneAssumption DEF BaseInv, TypeOK, RegistryTypeOK, UsedInv, CallInv,
            DogInv, BootInv, Live, Idle, DogIdle, OpenPcs, ClosePcs, CreatedPcs,
            registryVars, workerVars, storeVars, tierVars, bootVars, Goto, Return
  <1>1. CASE CloseStop(c)
    BY <1>1 DEF CloseStop, Stop
  <1>2. CASE CloseDelete(c)
    <2>1. call' = [call EXCEPT ![c].pc = "forget"] /\ mode = "up"
      BY <1>2 DEF CloseDelete
    <2>2. call[c].id \in Ids
      BY <1>2 DEF CloseDelete
    <2>3. RegistryTypeOK' /\ \A id \in Ids : sessions'[id] \in {sessions[id], None}
      BY <1>2, <2>2 DEF CloseDelete, Delete
    <2>4. TypeOK'
      BY <1>2, <2>1, <2>3 DEF CloseDelete
    <2>5. (UsedInv /\ CallInv)'
      BY <1>2, <2>1, <2>3 DEF CloseDelete
    <2>6. (DogInv /\ BootInv)'
      BY <1>2, <2>1, <2>3 DEF CloseDelete
    <2> QED BY <2>4, <2>5, <2>6
  <1>3. CASE CloseForget(c)
    BY <1>3 DEF CloseForget, deleteSessionState
  <1>4. CASE CloseList(c)
    BY <1>4 DEF CloseList
  <1>5. CASE CloseDemote(c)
    BY <1>5 DEF CloseDemote, demoteToTier0
  <1> QED BY <1>1, <1>2, <1>3, <1>4, <1>5 DEF CloseStep

LEMMA CallBase ==
  ASSUME BaseInv, NEW c \in Calls,
         \/ \E p \in Paths : ClientOpen(c, p)
         \/ \E id \in Ids : ClientClose(c, id) \/ ClientAnalyze(c, id)
         \/ AnalyzePromote(c) \/ AnalyzeFails(c)
  PROVE  BaseInv'
  <1> USE NoneAssumption DEF BaseInv, TypeOK, RegistryTypeOK, UsedInv, CallInv,
            DogInv, BootInv, Live, Idle, DogIdle, OpenPcs, ClosePcs, CreatedPcs,
            registryVars, workerVars, storeVars, tierVars, bootVars, Goto, Return
  <1>1. CASE \E p \in Paths : ClientOpen(c, p)
    BY <1>1 DEF ClientOpen
  <1>2. CASE \E id \in Ids : ClientClose(c, id)
    BY <1>2 DEF ClientClose
  <1>3. CASE \E id \in Ids : ClientAnalyze(c, id)
    BY <1>3 DEF ClientAnalyze
  <1>4. CASE AnalyzePromote(c)
    BY <1>4 DEF AnalyzePromote, promoteToTier
  <1>5. CASE AnalyzeFails(c)
    BY <1>5 DEF AnalyzeFails
  <1> QED BY <1>1, <1>2, <1>3, <1>4, <1>5

LEMMA DogBase ==
  ASSUME BaseInv, DogTick \/ DogStep
  PROVE  BaseInv'
  <1> USE NoneAssumption DEF BaseInv, TypeOK, RegistryTypeOK, UsedInv, CallInv,
            DogInv, BootInv, Live, Idle, DogIdle, OpenPcs, ClosePcs, CreatedPcs,
            registryVars, workerVars, storeVars, tierVars, bootVars, Goto, Return
  <1>1. CASE DogTick
    BY <1>1 DEF DogTick
  <1>2. CASE \E id \in Ids : DogSkip(id)
    BY <1>2 DEF DogSkip
  <1>3. CASE \E id \in Ids : DogPick(id)
    <2>1. PICK id \in Ids : DogPick(id)
      BY <1>3
    <2>2. dog' = [pc |-> "stop", todo |-> dog.todo \ {id}, id |-> id,
                  cleaned |-> dog.cleaned]
      BY <2>1 DEF DogPick
    <2> QED BY <2>1, <2>2 DEF DogPick
  <1>4. CASE DogStop
    BY <1>4 DEF DogStop, Stop
  <1>5. CASE DogDelete
    BY <1>5 DEF DogDelete, Delete
  <1>6. CASE DogForget
    <2>1. dog' = [pc |-> "scan", todo |-> dog.todo, id |-> None,
                  cleaned |-> dog.cleaned \cup {dog.id}]
      BY <1>6 DEF DogForget
    <2> QED BY <1>6, <2>1 DEF DogForget, deleteSessionState
  <1>7. CASE DogList
    BY <1>7 DEF DogList
  <1>8. CASE DogDemote
    BY <1>8 DEF DogDemote, demoteToTier0
  <1> QED BY <1>1, <1>2, <1>3, <1>4, <1>5, <1>6, <1>7, <1>8 DEF DogStep

LEMMA WorkerBase ==
  ASSUME BaseInv, NEW id \in Ids,
         BackgroundDone(id) \/ WorkerExit(id) \/ monitorWorker(id)
  PROVE  BaseInv'
  <1> USE NoneAssumption DEF BaseInv, TypeOK, RegistryTypeOK, UsedInv, CallInv,
            DogInv, BootInv, Live, Idle, DogIdle, OpenPcs, ClosePcs, CreatedPcs,
            registryVars, workerVars, storeVars, tierVars, bootVars, Goto, Return
  <1>1. CASE BackgroundDone(id)
    BY <1>1 DEF BackgroundDone
  <1>2. CASE WorkerExit(id)
    BY <1>2 DEF WorkerExit
  <1>3. CASE monitorWorker(id)
    BY <1>3 DEF monitorWorker
  <1> QED BY <1>1, <1>2, <1>3

LEMMA ServerBase ==
  ASSUME BaseInv, ServerExit \/ Boot \/ RestoreStep
  PROVE  BaseInv'
  <1> USE NoneAssumption DEF BaseInv, TypeOK, RegistryTypeOK, UsedInv, CallInv,
            DogInv, BootInv, Live, Idle, DogIdle, OpenPcs, ClosePcs, CreatedPcs,
            registryVars, workerVars, storeVars, tierVars, bootVars, Goto, Return
  <1>1. CASE ServerExit
    <2>1. raced' \in BOOLEAN
      BY <1>1, Zenon DEF ServerExit
    <2> QED BY <1>1, <2>1, CrashAssumption DEF ServerExit, Renew
  <1>2. CASE Boot
    BY <1>2 DEF Boot
  <1>3. CASE \E id \in Ids : RestoreStale(id)
    BY <1>3 DEF RestoreStale, Visit, deleteSessionState
  <1>4. CASE \E id \in Ids : RestoreSkip(id)
    BY <1>4 DEF RestoreSkip, Visit
  <1>5. CASE \E id \in Ids : RestoreSession(id)
    BY <1>5 DEF RestoreSession, Visit, Restore, Insert, Start, Launch
  <1>6. CASE \E id \in Ids : RestoreFails(id)
    BY <1>6 DEF RestoreFails, Visit, RestoreThenDelete, deleteSessionState
  <1>7. CASE Listen
    <2>1. raced' \in BOOLEAN
      BY <1>7, Zenon DEF Listen
    <2> QED BY <1>7, <2>1 DEF Listen
  <1> QED BY <1>1, <1>2, <1>3, <1>4, <1>5, <1>6, <1>7 DEF RestoreStep

LEMMA StepBase == BaseInv /\ [Next]_vars => BaseInv'
  <1> SUFFICES ASSUME BaseInv, [Next]_vars
               PROVE  BaseInv'
    OBVIOUS
  <1>1. CASE UNCHANGED vars
    BY <1>1 DEF vars, registryVars, workerVars, storeVars, tierVars, bootVars, BaseInv, TypeOK,
                RegistryTypeOK, UsedInv, CallInv, DogInv, BootInv, Live
  <1>2. CASE Next
    BY <1>2, OpenBase, CloseBase, CallBase, DogBase, WorkerBase, ServerBase
       DEF Next, ClientStep, Handler
  <1> QED BY <1>1, <1>2

(* The types hold, for every number of calls, ids and exits.                *)
THEOREM LifecycleTypes == Spec => []TypeOK
  <1>1. BaseInv => TypeOK
    BY DEF BaseInv
  <1> QED BY <1>1, InitBase, StepBase, PTL DEF Spec

----------------------------------------------------------------------------
(* Each step is a step of the registry, or leaves it alone.                 *)

LEMMA StepImplements == BaseInv /\ [Next]_vars => [RegistryNext]_registryVars
  <1> SUFFICES ASSUME BaseInv, Next
               PROVE  RegistryNext \/ UNCHANGED registryVars
    BY DEF vars
  <1>1. ASSUME NEW c \in Calls, OpenCreate(c)
        PROVE  RegistryNext
    <2>1. PICK id \in Ids \ used : Create(id, call[c].path)
      BY <1>1 DEF OpenCreate
    <2>2. id \in Ids \ Live
      BY DEF BaseInv, UsedInv
    <2>3. call[c].path \in Paths
      BY <1>1 DEF OpenCreate, BaseInv, CallInv, OpenPcs
    <2> QED BY <2>1, <2>2, <2>3 DEF RegistryNext
  <1>2. ASSUME NEW c \in Calls, OpenUndo(c) \/ CloseDelete(c)
        PROVE  RegistryNext
    <2>1. call[c].id \in Ids
      BY <1>2 DEF OpenUndo, CloseDelete, BaseInv, TypeOK, CallInv, CreatedPcs, ClosePcs
    <2>2. Delete(call[c].id)
      BY <1>2 DEF OpenUndo, CloseDelete
    <2> QED BY <2>1, <2>2 DEF RegistryNext
  <1>3. CASE DogDelete
    <2>1. dog.id \in Ids
      BY <1>3 DEF DogDelete, BaseInv, TypeOK, DogInv
    <2> QED BY <1>3, <2>1 DEF DogDelete, RegistryNext
  <1>4. ASSUME NEW id \in Ids, RestoreSession(id) \/ RestoreFails(id)
        PROVE  RegistryNext
    <2>1. records[id] \in Paths
      BY <1>4 DEF RestoreSession, RestoreFails, Visit, BaseInv, BootInv, TypeOK
    <2>2. id \in Ids \ Live
      BY <1>4 DEF RestoreSession, RestoreFails, Visit, BaseInv, BootInv, Live
    <2>3. Restore(id, records[id]) \/ RestoreThenDelete(id, records[id])
      BY <1>4 DEF RestoreSession, RestoreFails
    <2> QED BY <2>1, <2>2, <2>3 DEF RegistryNext
  <1>5. CASE ServerExit
    BY <1>5 DEF ServerExit, RegistryNext
  <1>6. ASSUME NEW c \in Calls, OpenStep(c) \/ CloseStep(c)
        PROVE  RegistryNext \/ UNCHANGED registryVars
    BY <1>1, <1>2, <1>6
       DEF OpenStep, CloseStep, OpenFind, OpenReuse, OpenRefused, OpenStart,
           OpenStartFails, OpenClient, OpenPersist, OpenPromote, CloseStop,
           CloseForget, CloseList, CloseDemote
  <1>7. CASE DogTick \/ DogStep
    BY <1>3, <1>7 DEF DogTick, DogStep, DogSkip, DogPick, DogStop, DogForget,
                      DogList, DogDemote
  <1>8. ASSUME NEW id \in Ids, BackgroundDone(id) \/ WorkerExit(id) \/ monitorWorker(id)
        PROVE  UNCHANGED registryVars
    BY <1>8 DEF BackgroundDone, WorkerExit, monitorWorker
  <1>9. CASE Boot \/ RestoreStep
    BY <1>4, <1>9 DEF Boot, RestoreStep, RestoreStale, RestoreSkip, Listen
  <1>10. CASE ClientStep
    BY <1>10 DEF ClientStep, ClientOpen, ClientClose, ClientAnalyze
  <1>11. ASSUME NEW c \in Calls, AnalyzePromote(c) \/ AnalyzeFails(c)
         PROVE  UNCHANGED registryVars
    BY <1>11 DEF AnalyzePromote, AnalyzeFails
  <1> QED BY <1>5, <1>6, <1>7, <1>8, <1>9, <1>10, <1>11 DEF Next, Handler

LEMMA LifecycleImplementsRegistry == Spec => RegistrySpec
  <1>1. Init => NewRegistry
    BY DEF Init
  <1> QED BY <1>1, InitBase, StepBase, StepImplements, PTL DEF Spec, RegistrySpec

(* The guarantees of the registry hold in the running server: the index     *)
(* never dangles and the session limit is never exceeded, whatever the      *)
(* concurrent handlers, the watchdog and the restarts do.                   *)
THEOREM LifecycleIndexAndLimit == Spec => [](IndexSound /\ WithinLimit)
  BY LifecycleImplementsRegistry, RegistryIndexSound, RegistryWithinLimit, PTL

(* And open_binary finds the open session of a path, unless two sessions    *)
(* share the path or have shared it since it was opened.                    *)
THEOREM LifecycleSessionFound == Spec => []SessionFound
  BY LifecycleImplementsRegistry, RegistryFindsSession, PTL

----------------------------------------------------------------------------
(* Persistence.  A step that writes neither the registry nor the store      *)
(* keeps the record invariant if the opening calls go on opening.           *)

LEMMA FrameRecord ==
  ASSUME BaseInv, RecordInv, UNCHANGED <<sessions, records>>,
         dog'.pc = "forget" => dog'.id \notin Live,
         NEW c \in Calls, call' \in [Calls -> [pc : {"idle", "analyze"} \cup OpenPcs
                                                        \cup ClosePcs,
                                               path : Paths \cup {None},
                                               id : Ids \cup {None}]],
         \A d \in Calls \ {c} : call'[d] = call[d],
         call[c].pc \in CreatedPcs /\ call[c].id \in Live =>
             \/ call[c].pc = "promote"
             \/ call'[c].pc \in CreatedPcs /\ call'[c].id = call[c].id,
         call'[c].pc \in CreatedPcs \ {"promote"} =>
             call[c].pc \in CreatedPcs /\ call'[c].id = call[c].id
                                       /\ call'[c].path = call[c].path,
         call'[c].pc \notin {"promote", "forget"}
  PROVE  RecordInv'
  <1> USE NoneAssumption DEF OpenPcs, ClosePcs, CreatedPcs
  <1>1. Live' = Live
    BY DEF Live
  <1>2. SessionsPersisted'
    <2> SUFFICES ASSUME NEW id \in Live, ~Opening(id)'
                 PROVE  records[id] = sessions[id]
      BY <1>1 DEF SessionsPersisted
    <2>1. CASE Opening(id)
      <3>1. PICK d \in Calls : call[d].id = id /\ call[d].pc \in OpenPcs
        BY <2>1 DEF Opening
      <3>2. d = c
        BY <3>1 DEF Opening
      <3>3. call[c].pc \in CreatedPcs
        BY <3>1, <3>2 DEF BaseInv, CallInv, Live
      <3>4. call[c].pc = "promote"
        BY <3>1, <3>2, <3>3 DEF Opening
      <3> QED BY <3>1, <3>2, <3>4 DEF RecordInv
    <2>2. CASE ~Opening(id)
      BY <2>2 DEF RecordInv, SessionsPersisted
    <2> QED BY <2>1, <2>2
  <1>3. ASSUME NEW d \in Calls
        PROVE  /\ call'[d].pc \in CreatedPcs /\ call'[d].id \in Live
                      => sessions[call'[d].id] = call'[d].path
               /\ call'[d].pc = "promote" /\ call'[d].id \in Live
                      => records[call'[d].id] = call'[d].path
               /\ call'[d].pc = "forget" => call'[d].id \notin Live
    <2>1. CASE d = c
      BY <2>1 DEF RecordInv
    <2>2. CASE d # c
      BY <2>2 DEF RecordInv
    <2> QED BY <2>1, <2>2
  <1> QED BY <1>1, <1>2, <1>3 DEF RecordInv

(* A step that leaves the calls alone, may remove a session, and may remove *)
(* the record of what is no session.                                        *)
LEMMA ShrinkRecord ==
  ASSUME RecordInv, UNCHANGED call, RegistryTypeOK,
         \A id \in Ids : sessions'[id] \in {sessions[id], None},
         \A id \in Live : records'[id] = records[id],
         dog'.pc = "forget" => dog'.id \notin Live'
  PROVE  RecordInv'
  <1>1. Live' \subseteq Live /\ \A id \in Live' : sessions'[id] = sessions[id]
    BY DEF Live
  <1> QED BY <1>1 DEF RecordInv, SessionsPersisted, Opening

LEMMA CallRecord ==
  ASSUME BaseInv, RecordInv, NEW c \in Calls,
         \/ \E p \in Paths : ClientOpen(c, p)
         \/ \E id \in Ids : ClientClose(c, id) \/ ClientAnalyze(c, id)
         \/ AnalyzePromote(c) \/ AnalyzeFails(c)
         \/ OpenFind(c) \/ OpenReuse(c) \/ OpenRefused(c) \/ OpenStart(c)
         \/ OpenStartFails(c) \/ OpenClient(c) \/ OpenPromote(c)
         \/ CloseStop(c) \/ CloseList(c) \/ CloseDemote(c)
  PROVE  RecordInv'
  <1> USE NoneAssumption DEF Idle, OpenPcs, ClosePcs, CreatedPcs, Goto, Return
  <1>1. /\ UNCHANGED <<sessions, records, dog>>
        /\ \A d \in Calls \ {c} : call'[d] = call[d]
    BY DEF BaseInv, TypeOK, registryVars, storeVars, ClientOpen, ClientClose, ClientAnalyze,
           AnalyzePromote, AnalyzeFails, OpenFind, OpenReuse, OpenRefused, OpenStart,
           OpenStartFails, OpenClient, OpenPromote, CloseStop, CloseList, CloseDemote
  <1>2. call' \in [Calls -> [pc : {"idle", "analyze"} \cup OpenPcs \cup ClosePcs,
                             path : Paths \cup {None}, id : Ids \cup {None}]]
    BY OpenBase, CloseBase, CallBase DEF BaseInv, TypeOK, OpenStep, CloseStep
  <1>3. call'[c].pc \notin {"promote", "forget"}
    BY DEF BaseInv, TypeOK, ClientOpen, ClientClose, ClientAnalyze,
           AnalyzePromote, AnalyzeFails, OpenFind, OpenReuse, OpenRefused, OpenStart,
           OpenStartFails, OpenClient, OpenPromote, CloseStop, CloseList, CloseDemote
  <1>4. call'[c].pc \in CreatedPcs \ {"promote"} =>
             call[c].pc \in CreatedPcs /\ call'[c].id = call[c].id
                                       /\ call'[c].path = call[c].path
    BY DEF BaseInv, TypeOK, ClientOpen, ClientClose, ClientAnalyze,
           AnalyzePromote, AnalyzeFails, OpenFind, OpenReuse, OpenRefused, OpenStart,
           OpenStartFails, OpenClient, OpenPromote, CloseStop, CloseList, CloseDemote
  <1>5. call[c].pc \in CreatedPcs =>
             \/ call[c].pc = "promote"
             \/ call'[c].pc \in CreatedPcs /\ call'[c].id = call[c].id
    BY DEF BaseInv, TypeOK, ClientOpen, ClientClose, ClientAnalyze,
           AnalyzePromote, AnalyzeFails, OpenFind, OpenReuse, OpenRefused, OpenStart,
           OpenStartFails, OpenClient, OpenPromote, CloseStop, CloseList, CloseDemote
  <1>6. dog'.pc = "forget" => dog'.id \notin Live
    BY <1>1 DEF RecordInv
  <1> QED BY <1>1, <1>2, <1>3, <1>4, <1>5, <1>6, FrameRecord

(* A fresh id is nobody's: the new session is the calling handler's only.   *)
LEMMA CreateRecord ==
  ASSUME BaseInv, RecordInv, NEW c \in Calls, OpenCreate(c)
  PROVE  RecordInv'
  <1> USE NoneAssumption DEF OpenPcs, ClosePcs, CreatedPcs
  <1>1. PICK id \in Ids \ used :
               /\ sessions' = [sessions EXCEPT ![id] = call[c].path]
               /\ call' = [call EXCEPT ![c].id = id, ![c].pc = "start"]
    BY DEF OpenCreate, Create, Insert
  <1>2. UNCHANGED <<records, dog>>
    BY DEF OpenCreate, storeVars
  <1>3. call[c].pc = "create" /\ call[c].id = None /\ call[c].path \in Paths
    BY DEF OpenCreate, BaseInv, CallInv
  <1>4. id \notin Live /\ Live' = Live \cup {id}
    BY <1>1, <1>3 DEF BaseInv, UsedInv, Live, TypeOK, RegistryTypeOK
  <1>5. /\ call'[c].id = id /\ call'[c].pc = "start" /\ call'[c].path = call[c].path
        /\ \A d \in Calls \ {c} : call'[d] = call[d]
    BY <1>1 DEF BaseInv, TypeOK
  <1>6. sessions'[id] = call[c].path /\ \A i \in Live : sessions'[i] = sessions[i]
    BY <1>1, <1>4 DEF BaseInv, TypeOK, RegistryTypeOK, Live
  <1>7. \A d \in Calls : call[d].pc \in CreatedPcs \cup {"forget"} => call[d].id # id
    BY <1>1 DEF BaseInv, CallInv
  <1>8. dog.pc = "forget" => dog.id # id
    BY <1>1 DEF BaseInv, DogInv
  <1>9. SessionsPersisted'
    <2> SUFFICES ASSUME NEW i \in Live, ~Opening(i)'
                 PROVE  records[i] = sessions[i]
      BY <1>2, <1>4, <1>5, <1>6 DEF SessionsPersisted, Opening
    <2>1. i # None
      BY DEF Live
    <2>2. ~Opening(i)
      BY <1>3, <1>5, <2>1 DEF Opening
    <2> QED BY <2>2 DEF RecordInv, SessionsPersisted
  <1> QED BY <1>2, <1>4, <1>5, <1>6, <1>7, <1>8, <1>9 DEF RecordInv

(* Undo and delete: the session leaves the registry first.                  *)
LEMMA DeleteRecord ==
  ASSUME BaseInv, RecordInv, NEW c \in Calls, OpenUndo(c) \/ CloseDelete(c)
  PROVE  RecordInv'
  <1> USE NoneAssumption DEF OpenPcs, ClosePcs, CreatedPcs
  <1> DEFINE gone == call[c].id
  <1>1. gone \in Ids /\ Delete(gone) /\ UNCHANGED <<records, dog>>
    BY DEF OpenUndo, CloseDelete, storeVars, BaseInv, TypeOK, CallInv
  <1>2. Live' = Live \ {gone} /\ \A i \in Live' : sessions'[i] = sessions[i]
    BY <1>1 DEF Live, Delete, registryVars, BaseInv, TypeOK, RegistryTypeOK
  <1>3. /\ \A d \in Calls \ {c} : call'[d] = call[d]
        /\ call'[c].pc \in {"idle", "forget"}
        /\ call'[c].pc = "forget" => call'[c].id = gone
    BY DEF OpenUndo, CloseDelete, Goto, Return, Idle, BaseInv, TypeOK
  <1>4. SessionsPersisted'
    <2> SUFFICES ASSUME NEW i \in Live', ~Opening(i)'
                 PROVE  records[i] = sessions[i]
      BY <1>1, <1>2 DEF SessionsPersisted
    <2>1. ~Opening(i)
      BY <1>2, <1>3 DEF Opening
    <2> QED BY <1>2, <2>1 DEF RecordInv, SessionsPersisted
  <1> QED BY <1>1, <1>2, <1>3, <1>4 DEF RecordInv

(* The record is written with the path of the session, if it still is one.  *)
LEMMA SaveRecord ==
  ASSUME "save" \notin Faults, BaseInv, RecordInv, NEW c \in Calls, OpenPersist(c)
  PROVE  RecordInv'
  <1> USE NoneAssumption DEF OpenPcs, ClosePcs, CreatedPcs
  <1>1. /\ call[c].pc = "persist" /\ call[c].id \in Ids
        /\ UNCHANGED <<sessions, dog>>
        /\ records' = [records EXCEPT ![call[c].id] = call[c].path]
    BY DEF OpenPersist, registryVars, BaseInv, TypeOK, CallInv
  <1>2. /\ \A d \in Calls \ {c} : call'[d] = call[d]
        /\ call'[c].pc = "promote" /\ call'[c].id = call[c].id
        /\ call'[c].path = call[c].path
    BY DEF OpenPersist, Goto, BaseInv, TypeOK
  <1>3. \A i \in Live : i = call[c].id => sessions[i] = call[c].path
    BY <1>1 DEF RecordInv
  <1>4. Live' = Live
    BY <1>1 DEF Live
  <1>5. \A i \in Live : records'[i] = IF i = call[c].id THEN sessions[i] ELSE records[i]
    BY <1>1, <1>3 DEF BaseInv, TypeOK, Live
  <1>6. \A i \in Ids : Opening(i)' <=> Opening(i)
    BY <1>1, <1>2 DEF Opening
  <1>7. SessionsPersisted'
    BY <1>1, <1>4, <1>5, <1>6 DEF RecordInv, SessionsPersisted, Live
  <1>8. ASSUME NEW d \in Calls
        PROVE  /\ call'[d].pc \in CreatedPcs /\ call'[d].id \in Live
                      => sessions[call'[d].id] = call'[d].path
               /\ call'[d].pc = "promote" /\ call'[d].id \in Live
                      => records'[call'[d].id] = call'[d].path
               /\ call'[d].pc = "forget" => call'[d].id \notin Live
    <2>1. CASE d = c
      BY <1>1, <1>2, <1>3, <1>5, <2>1
    <2>2. CASE d # c
      BY <1>2, <1>5, <2>2 DEF RecordInv
    <2> QED BY <2>1, <2>2
  <1> QED BY <1>1, <1>4, <1>7, <1>8 DEF RecordInv

(* What is forgotten has left the registry.                                 *)
LEMMA ForgetRecord ==
  ASSUME BaseInv, RecordInv, NEW c \in Calls, CloseForget(c)
  PROVE  RecordInv'
  <1> USE NoneAssumption DEF OpenPcs, ClosePcs, CreatedPcs
  <1>1. /\ call[c].id \in Ids \ Live /\ UNCHANGED <<sessions, dog>>
        /\ \A i \in Live : records'[i] = records[i]
    BY DEF CloseForget, deleteSessionState, registryVars, BaseInv, TypeOK, CallInv,
           RecordInv, Live
  <1>2. /\ \A d \in Calls \ {c} : call'[d] = call[d]
        /\ call[c].pc = "forget" /\ call'[c].pc = "list"
    BY DEF CloseForget, Goto, BaseInv, TypeOK
  <1>3. Live' = Live
    BY <1>1 DEF Live
  <1>4. \A i \in Ids : Opening(i)' <=> Opening(i)
    BY <1>2 DEF Opening
  <1>5. SessionsPersisted'
    BY <1>1, <1>3, <1>4 DEF RecordInv, SessionsPersisted, Live
  <1> QED BY <1>1, <1>2, <1>3, <1>5 DEF RecordInv

LEMMA DogRecord ==
  ASSUME BaseInv, RecordInv, DogTick \/ DogStep
  PROVE  RecordInv'
  <1> USE NoneAssumption DEF registryVars
  <1>1. CASE DogDelete
    <2>1. dog.id \in Ids /\ dog'.pc = "forget" /\ dog'.id = dog.id
      BY <1>1 DEF DogDelete, BaseInv, TypeOK, DogInv
    <2>2. sessions'[dog.id] = None /\ \A i \in Ids : sessions'[i] \in {sessions[i], None}
      BY <1>1, <2>1 DEF DogDelete, Delete, BaseInv, TypeOK, RegistryTypeOK
    <2>3. UNCHANGED <<call, records>>
      BY <1>1 DEF DogDelete, storeVars
    <2> QED BY <2>1, <2>2, <2>3, ShrinkRecord DEF Live, BaseInv, TypeOK
  <1>2. CASE DogForget
    <2>1. dog.id \in Ids \ Live /\ dog'.pc = "scan" /\ UNCHANGED <<sessions, call>>
      BY <1>2 DEF DogForget, BaseInv, TypeOK, DogInv, RecordInv
    <2>2. \A i \in Live : records'[i] = records[i]
      BY <1>2, <2>1 DEF DogForget, deleteSessionState, BaseInv, TypeOK, Live
    <2> QED BY <2>1, <2>2, ShrinkRecord DEF BaseInv, TypeOK
  <1>3. CASE \/ DogTick \/ DogStop \/ DogList \/ DogDemote
             \/ \E id \in Ids : DogSkip(id) \/ DogPick(id)
    <2>1. UNCHANGED <<sessions, call, records>>
      BY <1>3 DEF storeVars, DogTick, DogStop, DogList, DogDemote, DogSkip, DogPick
    <2>2. dog'.pc # "forget"
      <3>1. CASE DogTick \/ DogStop \/ DogList \/ DogDemote
        BY <3>1 DEF DogTick, DogStop, DogList, DogDemote, DogIdle, BaseInv, TypeOK
      <3>2. CASE \E id \in Ids : DogSkip(id) \/ DogPick(id)
        BY <3>2 DEF DogSkip, DogPick, BaseInv, TypeOK
      <3> QED BY <1>3, <3>1, <3>2
    <2> QED BY <2>1, <2>2, ShrinkRecord DEF BaseInv, TypeOK
  <1> QED BY <1>1, <1>2, <1>3 DEF DogStep

LEMMA QuietRecord ==
  ASSUME BaseInv, RecordInv,
         \/ \E id \in Ids : BackgroundDone(id) \/ WorkerExit(id) \/ monitorWorker(id)
         \/ Boot \/ Listen \/ \E id \in Ids : RestoreSkip(id)
         \/ UNCHANGED vars
  PROVE  RecordInv'
  <1>1. UNCHANGED <<sessions, call, records, dog>>
    BY DEF BackgroundDone, WorkerExit, monitorWorker, Boot, Listen, RestoreSkip, Visit,
           vars, registryVars, storeVars
  <1>2. Live' = Live
    BY <1>1 DEF Live
  <1> QED BY <1>1, <1>2, ShrinkRecord DEF RecordInv, BaseInv, TypeOK

(* While restoring there are no calls: a restored session has the record it *)
(* was restored from, and a record is only dropped for what is not live.    *)
LEMMA ServerRecord ==
  ASSUME BaseInv, RecordInv, ServerExit \/ Boot \/ RestoreStep
  PROVE  RecordInv'
  <1> USE NoneAssumption
  <1>1. CASE ServerExit
    <2>1. Live' = {} /\ dog' = DogIdle /\ \A c \in Calls : call'[c] = Idle
      BY <1>1 DEF ServerExit, Renew, Live
    <2> QED BY <2>1 DEF RecordInv, SessionsPersisted, DogIdle, Idle, CreatedPcs
  <1>2. CASE \E id \in Ids : RestoreStale(id) \/ RestoreFails(id)
    <2>1. PICK id \in Ids : RestoreStale(id) \/ RestoreFails(id)
      BY <1>2
    <2>2. id \notin Live /\ UNCHANGED <<sessions, call, dog>>
      BY <2>1 DEF RestoreStale, RestoreFails, Visit, RestoreThenDelete, registryVars,
                  BaseInv, BootInv, Live
    <2>3. \A i \in Live : records'[i] = records[i]
      BY <2>1, <2>2 DEF RestoreStale, RestoreFails, deleteSessionState, BaseInv,
                        TypeOK, Live
    <2>4. Live' = Live
      BY <2>2 DEF Live
    <2> QED BY <2>2, <2>3, <2>4, ShrinkRecord DEF RecordInv, BaseInv, TypeOK
  <1>3. CASE \E id \in Ids : RestoreSession(id)
    <2>1. PICK id \in Ids : RestoreSession(id)
      BY <1>3
    <2>2. /\ dog' = DogIdle /\ \A c \in Calls : call'[c] = Idle /\ call[c] = Idle
          /\ UNCHANGED records
      BY <2>1 DEF RestoreSession, Visit, storeVars, BaseInv, BootInv
    <2>3. \A i \in Ids : sessions'[i] = IF i = id THEN records[i] ELSE sessions[i]
      BY <2>1 DEF RestoreSession, Restore, Insert, BaseInv, TypeOK, RegistryTypeOK
    <2>4. \A i \in Live : records[i] = sessions[i]
      BY <2>2 DEF RecordInv, SessionsPersisted, Opening, Idle, OpenPcs
    <2>5. SessionsPersisted'
      BY <2>2, <2>3, <2>4 DEF SessionsPersisted, Live
    <2> QED BY <2>2, <2>5 DEF RecordInv, DogIdle, Idle, CreatedPcs
  <1> QED BY <1>1, <1>2, <1>3, QuietRecord DEF RestoreStep

LEMMA StepPersist ==
  ASSUME "save" \notin Faults, PersistInv, [Next]_vars
  PROVE  PersistInv'
  <1>1. BaseInv'
    BY StepBase DEF PersistInv
  <1>2. RecordInv'
    <2> USE DEF PersistInv
    <2>1. CASE UNCHANGED vars
      BY <2>1, QuietRecord
    <2>2. CASE ClientStep
      BY <2>2, CallRecord DEF ClientStep
    <2>3. ASSUME NEW c \in Calls, Handler(c)
          PROVE  RecordInv'
      BY <2>3, CallRecord, CreateRecord, DeleteRecord, SaveRecord, ForgetRecord
         DEF Handler, OpenStep, CloseStep
    <2> QED BY <2>1, <2>2, <2>3, DogRecord, QuietRecord, ServerRecord DEF Next
  <1> QED BY <1>1, <1>2 DEF PersistInv

(* As long as records can be written, every registered session whose        *)
(* open_binary call has returned can be restored from the store: through    *)
(* concurrent closes and expiries, even of a session that is still opening, *)
(* failing kills and removals, server exits and restarts.                   *)
THEOREM LifecyclePersists ==
  ASSUME "save" \notin Faults
  PROVE  Spec => []SessionsPersisted
  <1>1. Init => PersistInv
    BY InitBase, NoneAssumption
       DEF PersistInv, RecordInv, SessionsPersisted, Init, NewRegistry, Live, Idle,
           DogIdle, CreatedPcs
  <1>2. PersistInv /\ [Next]_vars => PersistInv'
    BY StepPersist
  <1>3. PersistInv => SessionsPersisted
    BY DEF PersistInv, RecordInv
  <1> QED BY <1>1, <1>2, <1>3, PTL DEF Spec

----------------------------------------------------------------------------
(* Workers.  Each step is a step of the pool, or leaves it alone.           *)

LEMMA StopImplementsPool ==
  ASSUME NEW id \in Ids, Stop(id)
  PROVE  Pool!Next \/ UNCHANGED Pool!poolVars
  BY DEF Stop, workerVars, Pool!Next, Pool!Stop, Pool!poolVars

LEMMA StepImplementsPool == BaseInv /\ [Next]_vars => [Pool!Next]_(Pool!poolVars)
  <1> SUFFICES ASSUME BaseInv, Next
               PROVE  Pool!Next \/ UNCHANGED Pool!poolVars
    BY DEF vars, workerVars, Pool!poolVars
  <1>1. ASSUME NEW c \in Calls, OpenStart(c)
        PROVE  Pool!Next
    <2>1. call[c].id \in Ids
      BY <1>1 DEF OpenStart, BaseInv, TypeOK, CallInv, CreatedPcs
    <2> QED BY <1>1, <2>1 DEF OpenStart, Start, Launch, Pool!Next, Pool!Enter
  <1>2. ASSUME NEW c \in Calls, CloseStop(c)
        PROVE  Pool!Next \/ UNCHANGED Pool!poolVars
    <2>1. call[c].id \in Ids
      BY <1>2 DEF CloseStop, BaseInv, TypeOK, CallInv, ClosePcs
    <2> QED BY <1>2, <2>1, StopImplementsPool DEF CloseStop
  <1>3. CASE DogStop
    <2>1. dog.id \in Ids
      BY <1>3 DEF DogStop, BaseInv, TypeOK, DogInv
    <2> QED BY <1>3, <2>1, StopImplementsPool DEF DogStop
  <1>4. ASSUME NEW id \in Ids, WorkerExit(id) \/ monitorWorker(id) \/ RestoreSession(id)
        PROVE  Pool!Next
    BY <1>4 DEF WorkerExit, monitorWorker, RestoreSession, Start, Launch, Pool!Next,
                Pool!Exit, Pool!Forget, Pool!Enter
  <1>5. CASE ServerExit
    BY <1>5 DEF ServerExit, Pool!Next, Pool!Shutdown
  <1>6. ASSUME NEW c \in Calls, OpenStep(c) \/ CloseStep(c)
        PROVE  Pool!Next \/ UNCHANGED Pool!poolVars
    BY <1>1, <1>2, <1>6
       DEF OpenStep, CloseStep, OpenFind, OpenReuse, OpenCreate, OpenRefused,
           OpenStartFails, OpenClient, OpenUndo, OpenPersist, OpenPromote,
           CloseDelete, CloseForget, CloseList, CloseDemote, workerVars, Pool!poolVars
  <1>7. CASE DogTick \/ DogStep
    BY <1>3, <1>7 DEF DogTick, DogStep, DogSkip, DogPick, DogDelete, DogForget,
                      DogList, DogDemote, workerVars, Pool!poolVars
  <1>8. ASSUME NEW id \in Ids, BackgroundDone(id)
        PROVE  UNCHANGED Pool!poolVars
    BY <1>8 DEF BackgroundDone, Pool!poolVars
  <1>9. CASE Boot \/ RestoreStep
    BY <1>4, <1>9 DEF Boot, RestoreStep, RestoreStale, RestoreSkip, RestoreFails,
                      Listen, workerVars, Pool!poolVars
  <1>10. CASE ClientStep
    BY <1>10 DEF ClientStep, ClientOpen, ClientClose, ClientAnalyze, workerVars,
                 Pool!poolVars
  <1>11. ASSUME NEW c \in Calls, AnalyzePromote(c) \/ AnalyzeFails(c)
         PROVE  UNCHANGED Pool!poolVars
    BY <1>11 DEF AnalyzePromote, AnalyzeFails, workerVars, Pool!poolVars
  <1> QED BY <1>4, <1>5, <1>6, <1>7, <1>8, <1>9, <1>10, <1>11 DEF Next, Handler

(* The handlers, the watchdog and the restarts treat workers as WorkerPool  *)
(* says, so that what WorkerProofs shows of one worker holds for theirs.    *)
THEOREM LifecycleUsesPool == Spec => ImplementsPool
  <1>1. Init => Pool!Init
    BY DEF Init, Pool!Init
  <1> QED BY <1>1, InitBase, StepBase, StepImplementsPool, PTL
          DEF Spec, ImplementsPool, Pool!Spec

----------------------------------------------------------------------------
(* A session that is gone: only an opening call or a restart could bring it *)
(* back, and the first has a fresh id, the second a record to start from.   *)

LEMMA StepKeepsGone ==
  ASSUME BaseInv, Next, NEW i \in used, Gone(i), ~Opening(i)
  PROVE  Gone(i)'
  <1> i \in Ids
    BY DEF BaseInv, TypeOK
  <1> USE DEF Gone, BaseInv, TypeOK, RegistryTypeOK, registryVars, workerVars, storeVars, tierVars
  <1>1. ASSUME NEW c \in Calls, OpenCreate(c)
        PROVE  Gone(i)'
    BY <1>1 DEF OpenCreate, Create, Insert
  <1>2. ASSUME NEW c \in Calls, OpenStart(c) \/ OpenPersist(c)
        PROVE  Gone(i)'
    <2>1. call[c].id # i
      BY <1>2 DEF OpenStart, OpenPersist, Opening, OpenPcs
    <2> QED BY <1>2, <2>1 DEF OpenStart, Start, Launch, OpenPersist
  <1>3. ASSUME NEW c \in Calls, OpenUndo(c) \/ CloseDelete(c)
        PROVE  Gone(i)'
    BY <1>3 DEF OpenUndo, CloseDelete, Delete
  <1>4. ASSUME NEW c \in Calls, CloseStop(c) \/ CloseForget(c)
        PROVE  Gone(i)'
    BY <1>4 DEF CloseStop, Stop, CloseForget, deleteSessionState
  <1>5. ASSUME NEW c \in Calls, OpenStep(c) \/ CloseStep(c)
        PROVE  Gone(i)'
    BY <1>1, <1>2, <1>3, <1>4, <1>5
       DEF OpenStep, CloseStep, OpenFind, OpenReuse, OpenRefused, OpenStartFails,
           OpenClient, OpenPromote, CloseList, CloseDemote
  <1>6. CASE DogTick \/ DogStep
    BY <1>6 DEF DogTick, DogStep, DogSkip, DogPick, DogStop, Stop, DogDelete, Delete,
                DogForget, deleteSessionState, DogList, DogDemote
  <1>7. ASSUME NEW id \in Ids, BackgroundDone(id) \/ WorkerExit(id) \/ monitorWorker(id)
        PROVE  Gone(i)'
    BY <1>7 DEF BackgroundDone, WorkerExit, monitorWorker
  <1>8. CASE ServerExit \/ Boot \/ Listen
    BY <1>8 DEF ServerExit, Renew, Boot, Listen
  <1>9. ASSUME NEW id \in Ids, RestoreStale(id) \/ RestoreSkip(id)
        PROVE  Gone(i)'
    BY <1>9 DEF RestoreStale, RestoreSkip, deleteSessionState
  <1>10. ASSUME NEW id \in Ids, RestoreSession(id) \/ RestoreFails(id)
         PROVE  Gone(i)'
    <2>1. id # i
      BY <1>10 DEF RestoreSession, RestoreFails, Visit, BootInv
    <2> QED BY <1>10, <2>1 DEF RestoreSession, RestoreFails, Restore, Insert,
               RestoreThenDelete, Start, Launch, deleteSessionState
  <1>11. CASE ClientStep
    BY <1>11 DEF ClientStep, ClientOpen, ClientClose, ClientAnalyze
  <1>12. ASSUME NEW c \in Calls, AnalyzePromote(c) \/ AnalyzeFails(c)
         PROVE  Gone(i)'
    BY <1>12 DEF AnalyzePromote, AnalyzeFails
  <1> QED BY <1>5, <1>6, <1>7, <1>8, <1>9, <1>10, <1>11, <1>12
          DEF Next, Handler, RestoreStep

(* A closed or expired session never comes back, not by a late step of a    *)
(* concurrent call, the watchdog or a goroutine, nor after a restart.       *)
THEOREM LifecycleCloseIsFinal == Spec => CloseIsFinal
  <1>1. BaseInv /\ [Next]_vars =>
            [\A id \in used : Gone(id) /\ ~Opening(id) => Gone(id)']_vars
    BY StepKeepsGone
  <1> QED BY <1>1, InitBase, StepBase, PTL DEF Spec, CloseIsFinal

----------------------------------------------------------------------------
(* Teardown.  Each opening call has an id of its own.                       *)

OpenersInv ==
    \A c, d \in Calls : call[c].pc \in CreatedPcs /\ call[d].pc \in CreatedPcs
                            /\ call[c].id = call[d].id => c = d


LEMMA OpenOpeners ==
  ASSUME BaseInv, OpenersInv, NEW c \in Calls, OpenStep(c)
  PROVE  OpenersInv'
  <1> USE NoneAssumption DEF BaseInv, TypeOK, UsedInv, CallInv, Idle, OpenPcs, ClosePcs,
            CreatedPcs, OpenersInv, Goto, Return
  <1>1. CASE OpenFind(c)
    BY <1>1 DEF OpenFind
  <1>2. CASE OpenReuse(c)
    BY <1>2 DEF OpenReuse
  <1>3. CASE OpenCreate(c)
    BY <1>3 DEF OpenCreate
  <1>4. CASE OpenRefused(c)
    BY <1>4 DEF OpenRefused
  <1>5. CASE OpenStart(c) \/ OpenStartFails(c) \/ OpenClient(c) \/ OpenPersist(c)
    BY <1>5 DEF OpenStart, OpenStartFails, OpenClient, OpenPersist
  <1>6. CASE OpenUndo(c) \/ OpenPromote(c)
    BY <1>6 DEF OpenUndo, OpenPromote
  <1> QED BY <1>1, <1>2, <1>3, <1>4, <1>5, <1>6 DEF OpenStep

LEMMA StepOpeners ==
  ASSUME BaseInv, OpenersInv, [Next]_vars
  PROVE  OpenersInv'
  <1> USE NoneAssumption DEF BaseInv, TypeOK, CallInv, Idle, OpenPcs, ClosePcs,
            CreatedPcs, OpenersInv, Goto, Return
  <1>1. ASSUME NEW c \in Calls, CloseStep(c) \/ AnalyzePromote(c) \/ AnalyzeFails(c)
        PROVE  OpenersInv'
    BY <1>1 DEF CloseStep, CloseStop, CloseDelete, CloseForget, CloseList, CloseDemote,
                AnalyzePromote, AnalyzeFails
  <1>2. CASE ClientStep
    BY <1>2 DEF ClientStep, ClientOpen, ClientClose, ClientAnalyze
  <1>3. CASE \/ \E id \in Ids : BackgroundDone(id) \/ WorkerExit(id) \/ monitorWorker(id)
             \/ DogTick \/ DogStep \/ UNCHANGED vars
    BY <1>3 DEF BackgroundDone, WorkerExit, monitorWorker, DogTick, DogStep, DogSkip,
                DogPick, DogStop, DogDelete, DogForget, DogList, DogDemote, vars
  <1>4. CASE ServerExit
    BY <1>4 DEF ServerExit
  <1>5. CASE Boot \/ RestoreStep
    BY <1>5 DEF Boot, RestoreStep, RestoreStale, RestoreSkip, RestoreSession,
                RestoreFails, Listen, Visit
  <1> HIDE DEF OpenersInv
  <1> QED BY <1>1, <1>2, <1>3, <1>4, <1>5, OpenOpeners DEF Next, Handler

LEMMA InitOpeners == Init => OpenersInv
  BY DEF Init, OpenersInv, Idle, CreatedPcs

(* A stop that finds the client leaves no process and none to be started;   *)
(* one that does not leaves its mark on what is still to be started.        *)
WorkerInv ==
    /\ WorkersOwned
    /\ alive \subseteq clients /\ clients \subseteq used
    /\ \A c \in Calls :
           /\ call[c].pc \in {"start", "undo"} => call[c].id \notin clients
           /\ call[c].pc = "start" => call[c].id \in Live \cup unstopped
           /\ call[c].pc \in {"delete", "forget", "list", "demote"} =>
                  (call[c].id \in alive \/ Starting(call[c].id) => call[c].id \in unstopped)
    /\ dog.pc \in {"delete", "forget"} =>
           (dog.id \in alive \/ Starting(dog.id) => dog.id \in unstopped)

LEMMA CallWorkers ==
  ASSUME BaseInv, OpenersInv, WorkerInv, NEW c \in Calls, OpenStep(c) \/ CloseStep(c)
  PROVE  WorkerInv'
  <1> USE NoneAssumption DEF BaseInv, TypeOK, RegistryTypeOK, UsedInv, CallInv, DogInv,
            Live, Idle, OpenPcs, ClosePcs, CreatedPcs, OpenersInv, WorkerInv,
            WorkersOwned, At, Starting, registryVars, workerVars, Goto, Return
  <1>1. CASE OpenFind(c) \/ OpenRefused(c)
    BY <1>1 DEF OpenFind, OpenRefused
  <1>2. CASE OpenReuse(c)
    BY <1>2 DEF OpenReuse
  <1>3. CASE OpenCreate(c)
    BY <1>3 DEF OpenCreate, Create, Insert
  <1>4. CASE OpenStart(c)
    BY <1>4 DEF OpenStart, Start, Launch
  <1>5. CASE OpenStartFails(c)
    BY <1>5 DEF OpenStartFails
  <1>6. CASE OpenClient(c)
    BY <1>6 DEF OpenClient
  <1>7. CASE OpenUndo(c)
    BY <1>7 DEF OpenUndo, Delete
  <1>8. CASE OpenPersist(c)
    BY <1>8 DEF OpenPersist
  <1>9. CASE OpenPromote(c)
    BY <1>9 DEF OpenPromote
  <1>10. CASE CloseStop(c)
    BY <1>10 DEF CloseStop, Stop
  <1>11. CASE CloseDelete(c)
    BY <1>11 DEF CloseDelete, Delete
  <1>12. CASE CloseForget(c)
    BY <1>12 DEF CloseForget
  <1>13. CASE CloseList(c) \/ CloseDemote(c)
    BY <1>13 DEF CloseList, CloseDemote
  <1> QED BY <1>1, <1>2, <1>3, <1>4, <1>5, <1>6, <1>7, <1>8, <1>9, <1>10, <1>11, <1>12,
             <1>13 DEF OpenStep, CloseStep

LEMMA DogWorkers ==
  ASSUME BaseInv, WorkerInv, DogTick \/ DogStep
  PROVE  WorkerInv'
  <1> USE NoneAssumption DEF BaseInv, TypeOK, RegistryTypeOK, DogInv, UsedInv, Live,
            DogIdle, WorkerInv, WorkersOwned, At, Starting, registryVars, workerVars
  <1>1. CASE DogTick
    BY <1>1 DEF DogTick
  <1>2. CASE \E id \in Ids : DogSkip(id) \/ DogPick(id)
    BY <1>2 DEF DogSkip, DogPick
  <1>3. CASE DogStop
    BY <1>3 DEF DogStop, Stop
  <1>4. CASE DogDelete
    BY <1>4 DEF DogDelete, Delete
  <1>5. CASE DogForget
    BY <1>5 DEF DogForget
  <1>6. CASE DogList
    BY <1>6 DEF DogList
  <1>7. CASE DogDemote
    BY <1>7 DEF DogDemote
  <1> QED BY <1>1, <1>2, <1>3, <1>4, <1>5, <1>6, <1>7 DEF DogStep

LEMMA ServerWorkers ==
  ASSUME BaseInv, WorkerInv, ServerExit \/ Boot \/ RestoreStep
  PROVE  WorkerInv'
  <1> USE NoneAssumption DEF BaseInv, TypeOK, RegistryTypeOK, UsedInv, BootInv, Live,
            Idle, DogIdle, WorkerInv, WorkersOwned, At, Starting, registryVars, workerVars
  <1>1. CASE ServerExit
    BY <1>1 DEF ServerExit
  <1>2. CASE Boot
    BY <1>2 DEF Boot
  <1>3. CASE \E id \in Ids : RestoreStale(id)
    BY <1>3 DEF RestoreStale, Visit
  <1>4. CASE \E id \in Ids : RestoreSkip(id)
    BY <1>4 DEF RestoreSkip, Visit
  <1>5. CASE \E id \in Ids : RestoreSession(id)
    BY <1>5 DEF RestoreSession, Visit, Restore, Insert, Start, Launch
  <1>6. CASE \E id \in Ids : RestoreFails(id)
    BY <1>6 DEF RestoreFails, Visit, RestoreThenDelete
  <1>7. CASE Listen
    BY <1>7 DEF Listen
  <1> QED BY <1>1, <1>2, <1>3, <1>4, <1>5, <1>6, <1>7 DEF RestoreStep

LEMMA StepWorkers ==
  ASSUME BaseInv, OpenersInv, WorkerInv, [Next]_vars
  PROVE  WorkerInv'
  <1> USE DEF WorkerInv, WorkersOwned, Live, At, Starting, registryVars, workerVars
  <1>1. ASSUME NEW id \in Ids, BackgroundDone(id) \/ WorkerExit(id) \/ monitorWorker(id)
        PROVE  WorkerInv'
    BY <1>1 DEF BackgroundDone, WorkerExit, monitorWorker
  <1>2. CASE UNCHANGED vars
    BY <1>2 DEF vars
  <1>3. CASE ClientStep
    BY <1>3 DEF ClientStep, ClientOpen, ClientClose, ClientAnalyze, BaseInv, TypeOK
  <1>4. ASSUME NEW c \in Calls, AnalyzePromote(c) \/ AnalyzeFails(c)
        PROVE  WorkerInv'
    BY <1>4 DEF AnalyzePromote, AnalyzeFails, Return, Idle, BaseInv, TypeOK
  <1> HIDE DEF WorkerInv
  <1> QED BY <1>1, <1>2, <1>3, <1>4, CallWorkers, DogWorkers, ServerWorkers
          DEF Next, Handler

(* However opens, closes, expiries, worker exits, failing kills and restarts *)
(* overlap, a worker process without a session is one that its teardown did *)
(* not stop: the kill failed, or the client was not filed yet.              *)
THEOREM LifecycleOwnsWorkers == Spec => []WorkersOwned
  <1> DEFINE Inv == BaseInv /\ OpenersInv /\ WorkerInv
  <1>1. Init => Inv
    BY InitBase, InitOpeners DEF Init, WorkerInv, WorkersOwned, Idle, DogIdle
  <1>2. Inv /\ [Next]_vars => Inv'
    BY StepBase, StepOpeners, StepWorkers
  <1>3. Inv => WorkersOwned
    BY DEF WorkerInv
  <1> QED BY <1>1, <1>2, <1>3, PTL DEF Spec

----------------------------------------------------------------------------
(* Whoever takes the session from the registry removes the record, or       *)
(* leaves its mark on one that is still to be written.                      *)
OwnerInv ==
    /\ RecordsOwned
    /\ mode = "restoring" =>
           \A id \in Ids : records[id] # None
                               => id \in Live \cup pending \cup skipped \cup unremoved
    /\ \A c \in Calls :
           /\ call[c].pc \in CreatedPcs \ {"promote"} => records[call[c].id] = None
           /\ call[c].pc \in {"start", "client", "persist"} =>
                  \/ call[c].id \in Live \cup unremoved
                  \/ Forgetting(call[c].id)
           /\ call[c].pc \in {"list", "demote"} =>
                  (Unwritten(call[c].id) \/ records[call[c].id] # None
                       => call[c].id \in unremoved)

LEMMA CallOwners ==
  ASSUME BaseInv, OpenersInv, OwnerInv, NEW c \in Calls, OpenStep(c) \/ CloseStep(c)
  PROVE  OwnerInv'
  <1> USE NoneAssumption DEF BaseInv, TypeOK, RegistryTypeOK, UsedInv, CallInv, DogInv,
            BootInv, Live, Idle, OpenPcs, ClosePcs, CreatedPcs, OpenersInv, OwnerInv,
            RecordsOwned, Leftover, Forgetting, At, Unwritten, registryVars, storeVars,
            bootVars, Goto, Return
  <1>0. mode = "up"
    BY DEF OpenStep, CloseStep, OpenFind, OpenReuse, OpenCreate, OpenRefused, OpenStart,
           OpenStartFails, OpenClient, OpenUndo, OpenPersist, OpenPromote, CloseStop,
           CloseDelete, CloseForget, CloseList, CloseDemote
  <1>1. CASE OpenFind(c) \/ OpenRefused(c)
    <2>1. CASE OpenFind(c)
      BY <1>0, <2>1 DEF OpenFind
    <2>2. CASE OpenRefused(c)
      BY <1>0, <2>2 DEF OpenRefused
    <2> QED BY <1>1, <2>1, <2>2
  <1>2. CASE OpenReuse(c)
    BY <1>0, <1>2 DEF OpenReuse
  <1>3. CASE OpenCreate(c)
    BY <1>0, <1>3 DEF OpenCreate, Create, Insert
  <1>4. CASE OpenStart(c)
    BY <1>0, <1>4 DEF OpenStart
  <1>5. CASE OpenStartFails(c)
    BY <1>0, <1>5 DEF OpenStartFails
  <1>6. CASE OpenClient(c)
    BY <1>0, <1>6 DEF OpenClient
  <1>7. CASE OpenUndo(c)
    BY <1>0, <1>7 DEF OpenUndo, Delete
  <1>8. CASE OpenPersist(c)
    BY <1>0, <1>8 DEF OpenPersist
  <1>9. CASE OpenPromote(c)
    <2>1. /\ UNCHANGED <<sessions, records, unremoved, mode, skipped, pending, dog>>
          /\ call' = [call EXCEPT ![c] = Idle]
          /\ call[c].pc = "promote"
      BY <1>9 DEF OpenPromote
    <2> QED BY <1>0, <2>1
  <1>10. CASE CloseStop(c)
    BY <1>0, <1>10 DEF CloseStop
  <1>11. CASE CloseDelete(c)
    BY <1>0, <1>11 DEF CloseDelete, Delete
  <1>12. CASE CloseForget(c)
    BY <1>0, <1>12 DEF CloseForget, deleteSessionState
  <1>13. CASE CloseList(c) \/ CloseDemote(c)
    BY <1>0, <1>13 DEF CloseList, CloseDemote
  <1> QED BY <1>1, <1>2, <1>3, <1>4, <1>5, <1>6, <1>7, <1>8, <1>9, <1>10, <1>11, <1>12,
             <1>13 DEF OpenStep, CloseStep

LEMMA DogOwners ==
  ASSUME BaseInv, OwnerInv, DogTick \/ DogStep
  PROVE  OwnerInv'
  <1> USE NoneAssumption DEF BaseInv, TypeOK, RegistryTypeOK, CallInv, DogInv, BootInv,
            Live, DogIdle, CreatedPcs, ClosePcs, OwnerInv, RecordsOwned, Leftover,
            Forgetting, At, Unwritten, registryVars, storeVars, bootVars
  <1>1. CASE DogTick
    BY <1>1 DEF DogTick
  <1>2. CASE \E id \in Ids : DogSkip(id) \/ DogPick(id)
    BY <1>2 DEF DogSkip, DogPick
  <1>3. CASE DogStop
    BY <1>3 DEF DogStop
  <1>4. CASE DogDelete
    BY <1>4 DEF DogDelete, Delete
  <1>5. CASE DogForget
    BY <1>5 DEF DogForget, deleteSessionState
  <1>6. CASE DogList
    BY <1>6 DEF DogList
  <1>7. CASE DogDemote
    BY <1>7 DEF DogDemote
  <1> QED BY <1>1, <1>2, <1>3, <1>4, <1>5, <1>6, <1>7 DEF DogStep

LEMMA ServerOwners ==
  ASSUME BaseInv, OwnerInv, ServerExit \/ Boot \/ RestoreStep
  PROVE  OwnerInv'
  <1> USE NoneAssumption DEF BaseInv, TypeOK, RegistryTypeOK, BootInv, Live, Idle,
            DogIdle, CreatedPcs, OwnerInv, RecordsOwned, Leftover, Forgetting, At,
            Unwritten, registryVars, storeVars, bootVars
  <1>1. CASE ServerExit
    BY <1>1 DEF ServerExit
  <1>2. CASE Boot
    BY <1>2 DEF Boot
  <1>3. CASE \E id \in Ids : RestoreStale(id)
    BY <1>3 DEF RestoreStale, Visit, deleteSessionState
  <1>4. CASE \E id \in Ids : RestoreSkip(id)
    BY <1>4 DEF RestoreSkip, Visit
  <1>5. CASE \E id \in Ids : RestoreSession(id)
    BY <1>5 DEF RestoreSession, Visit, Restore, Insert
  <1>6. CASE \E id \in Ids : RestoreFails(id)
    BY <1>6 DEF RestoreFails, Visit, RestoreThenDelete, deleteSessionState
  <1>7. CASE Listen
    BY <1>7 DEF Listen
  <1> QED BY <1>1, <1>2, <1>3, <1>4, <1>5, <1>6, <1>7 DEF RestoreStep

LEMMA StepOwners ==
  ASSUME BaseInv, OpenersInv, OwnerInv, [Next]_vars
  PROVE  OwnerInv'
  <1> USE DEF OwnerInv, RecordsOwned, Leftover, Live, Forgetting, At, Unwritten,
              registryVars, storeVars, bootVars
  <1>1. ASSUME NEW id \in Ids, BackgroundDone(id) \/ WorkerExit(id) \/ monitorWorker(id)
        PROVE  OwnerInv'
    BY <1>1 DEF BackgroundDone, WorkerExit, monitorWorker
  <1>2. CASE UNCHANGED vars
    BY <1>2 DEF vars
  <1>3. CASE ClientStep
    BY <1>3 DEF ClientStep, ClientOpen, ClientClose, ClientAnalyze, BaseInv, TypeOK,
                Idle, CreatedPcs
  <1>4. ASSUME NEW c \in Calls, AnalyzePromote(c) \/ AnalyzeFails(c)
        PROVE  OwnerInv'
    BY <1>4 DEF AnalyzePromote, AnalyzeFails, Return, Idle, BaseInv, TypeOK, CreatedPcs
  <1> HIDE DEF OwnerInv
  <1> QED BY <1>1, <1>2, <1>3, <1>4, CallOwners, DogOwners, ServerOwners
          DEF Next, Handler

(* A record outlives its session only where its removal failed, or where    *)
(* the teardown came before the open had written it: no other order of      *)
(* opens, closes, expiries, exits and restarts leaves one.                  *)
THEOREM LifecycleOwnsRecords == Spec => []RecordsOwned
  <1> DEFINE Inv == BaseInv /\ OpenersInv /\ OwnerInv
  <1>1. Init => Inv
    BY InitBase, InitOpeners
       DEF Init, OwnerInv, RecordsOwned, Leftover, Idle, CreatedPcs
  <1>2. Inv /\ [Next]_vars => Inv'
    BY StepBase, StepOpeners, StepOwners
  <1>3. Inv => RecordsOwned
    BY DEF OwnerInv
  <1> QED BY <1>1, <1>2, <1>3, PTL DEF Spec

----------------------------------------------------------------------------
(* What close_binary leaves.                                                *)

ClosedInv ==
    \A c \in Calls : call[c].pc \in {"forget", "list", "demote"}
                         => sessions[call[c].id] = None

LEMMA StepClosed ==
  ASSUME BaseInv, ClosedInv, [Next]_vars
  PROVE  ClosedInv'
  <1> USE NoneAssumption DEF BaseInv, TypeOK, RegistryTypeOK, CallInv, Idle, ClosePcs,
            CreatedPcs, OpenPcs, ClosedInv, registryVars, Goto, Return
  <1>1. ASSUME NEW c \in Calls, OpenCreate(c)
        PROVE  ClosedInv'
    BY <1>1 DEF OpenCreate, Create, Insert
  <1>2. ASSUME NEW c \in Calls, OpenUndo(c) \/ CloseDelete(c)
        PROVE  ClosedInv'
    BY <1>2 DEF OpenUndo, CloseDelete, Delete
  <1>3. ASSUME NEW c \in Calls,
               \/ OpenFind(c) \/ OpenReuse(c) \/ OpenRefused(c) \/ OpenStart(c)
               \/ OpenStartFails(c) \/ OpenClient(c) \/ OpenPersist(c) \/ OpenPromote(c)
               \/ CloseStop(c) \/ CloseForget(c) \/ CloseList(c) \/ CloseDemote(c)
               \/ AnalyzePromote(c) \/ AnalyzeFails(c)
        PROVE  ClosedInv'
    BY <1>3 DEF OpenFind, OpenReuse, OpenRefused, OpenStart, OpenStartFails, OpenClient,
                OpenPersist, OpenPromote, CloseStop, CloseForget, CloseList, CloseDemote,
                AnalyzePromote, AnalyzeFails
  <1>4. CASE DogTick \/ DogStep
    <2>1. UNCHANGED call
      BY <1>4 DEF DogTick, DogStep, DogSkip, DogPick, DogStop, DogDelete, DogForget,
                  DogList, DogDemote
    <2>2. \A i \in Ids : sessions'[i] \in {sessions[i], None}
      <3>1. CASE DogDelete
        BY <3>1 DEF DogDelete, Delete
      <3> QED BY <1>4, <3>1 DEF DogTick, DogStep, DogSkip, DogPick, DogStop, DogForget,
                                DogList, DogDemote
    <2> QED BY <2>1, <2>2
  <1>5. ASSUME NEW id \in Ids, BackgroundDone(id) \/ WorkerExit(id) \/ monitorWorker(id)
        PROVE  ClosedInv'
    BY <1>5 DEF BackgroundDone, WorkerExit, monitorWorker
  <1>6. CASE ServerExit
    BY <1>6 DEF ServerExit
  <1>7. CASE Boot \/ RestoreStep
    <2>1. \A c \in Calls : call'[c] = Idle
      BY <1>7 DEF Boot, RestoreStep, RestoreStale, RestoreSkip, RestoreSession,
                  RestoreFails, Listen, Visit, BootInv
    <2> QED BY <2>1
  <1>8. CASE ClientStep
    BY <1>8 DEF ClientStep, ClientOpen, ClientClose, ClientAnalyze
  <1>9. CASE UNCHANGED vars
    BY <1>9 DEF vars
  <1> HIDE DEF ClosedInv
  <1> QED BY <1>1, <1>2, <1>3, <1>4, <1>5, <1>6, <1>7, <1>8, <1>9
          DEF Next, Handler, OpenStep, CloseStep

(* When close_binary is past its last deletion, the session is out of the   *)
(* registry, whoever else was closing it; its record and its worker are     *)
(* gone too, or were missed as above.                                       *)
THEOREM LifecycleCloseRemoves == Spec => []CloseRemoves
  <1> DEFINE Inv == BaseInv /\ OpenersInv /\ WorkerInv /\ OwnerInv /\ ClosedInv
  <1>1. Init => Inv
    BY InitBase, InitOpeners
       DEF Init, WorkerInv, WorkersOwned, OwnerInv, RecordsOwned, Leftover, ClosedInv,
           Idle, DogIdle, CreatedPcs
  <1>2. Inv /\ [Next]_vars => Inv'
    BY StepBase, StepOpeners, StepWorkers, StepOwners, StepClosed
  <1>3. Inv => CloseRemoves
    BY DEF WorkerInv, OwnerInv, ClosedInv, CloseRemoves
  <1> QED BY <1>1, <1>2, <1>3, PTL DEF Spec

----------------------------------------------------------------------------
(* The tool tier.  Unless raced, tier 0 means that what there is is still   *)
(* being opened, and a higher one that there is a session, or that whoever  *)
(* took the last one has yet to count them.                                 *)
Demoting == \/ \E c \in Calls : call[c].pc \in {"forget", "list", "demote"}
            \/ dog.pc \in {"forget", "demote"} \/ dog.cleaned # {}

TierInv ==
    /\ dog.pc = "idle" => dog.cleaned = {}
    /\ mode = "up" /\ ~raced =>
           /\ tier = 0 => \A id \in Live : At(id, CreatedPcs)
           /\ tier > 0 /\ Live = {} => Demoting

LEMMA CallTier ==
  ASSUME BaseInv, TierInv, mode = "up", NEW c \in Calls, Handler(c)
  PROVE  TierInv'
  <1> USE NoneAssumption DEF BaseInv, TypeOK, RegistryTypeOK, CallInv, Live, Idle,
            OpenPcs, ClosePcs, CreatedPcs, TierInv, Demoting, At, registryVars, tierVars,
            bootVars, Goto, Return
  <1>1. CASE OpenFind(c) \/ OpenRefused(c)
    BY <1>1 DEF OpenFind, OpenRefused
  <1>2. CASE OpenReuse(c) \/ OpenPromote(c) \/ AnalyzePromote(c)
    <2>1. /\ UNCHANGED <<sessions, mode, dog>>
          /\ call' = [call EXCEPT ![c] = Idle]
          /\ tier' > 0
      BY <1>2 DEF OpenReuse, OpenPromote, AnalyzePromote, promoteToTier
    <2>2. Live = {} => raced'
      BY <1>2, Zenon DEF OpenReuse, OpenPromote, AnalyzePromote, promoteToTier
    <2>3. Live' = Live
      BY <2>1
    <2> QED BY <2>1, <2>2, <2>3
  <1>3. CASE OpenCreate(c)
    BY <1>3 DEF OpenCreate, Create, Insert
  <1>4. CASE OpenStart(c) \/ OpenStartFails(c) \/ OpenClient(c) \/ OpenPersist(c)
    BY <1>4 DEF OpenStart, OpenStartFails, OpenClient, OpenPersist
  <1>5. CASE OpenUndo(c)
    <2>1. /\ UNCHANGED <<mode, dog, tier>>
          /\ call' = [call EXCEPT ![c] = Idle]
          /\ Live' = Live \ {call[c].id}
          /\ call[c].pc = "undo"
      BY <1>5 DEF OpenUndo, Delete
    <2>2. raced \/ (tier > 0 /\ Live = {call[c].id}) => raced'
      BY <1>5, Zenon DEF OpenUndo
    <2>3. \A id \in Live' : At(id, CreatedPcs) => At(id, CreatedPcs)'
      BY <2>1
    <2>4. Demoting => Demoting'
      BY <2>1
    <2>5. (dog.pc = "idle" => dog.cleaned = {})'
      BY <2>1
    <2> HIDE DEF At, Demoting
    <2>6. ASSUME mode' = "up", ~raced', tier' = 0, NEW id \in Live'
          PROVE  At(id, CreatedPcs)'
      BY <2>1, <2>2, <2>3, <2>6
    <2>7. ASSUME mode' = "up", ~raced', tier' > 0, Live' = {}
          PROVE  Demoting'
      BY <2>1, <2>2, <2>4, <2>7
    <2> QED BY <2>5, <2>6, <2>7
  <1>6. CASE CloseStop(c) \/ CloseForget(c) \/ CloseList(c) \/ AnalyzeFails(c)
    BY <1>6 DEF CloseStop, CloseForget, CloseList, AnalyzeFails
  <1>7. CASE CloseDelete(c)
    BY <1>7 DEF CloseDelete, Delete
  <1>8. CASE CloseDemote(c)
    <2>1. UNCHANGED <<sessions, dog>> /\ tier' = 0
      BY <1>8 DEF CloseDemote, demoteToTier0
    <2>2. Live # {} => raced'
      BY <1>8, Zenon DEF CloseDemote, demoteToTier0
    <2>3. Live' = Live
      BY <2>1
    <2> QED BY <2>1, <2>2, <2>3
  <1> QED BY <1>1, <1>2, <1>3, <1>4, <1>5, <1>6, <1>7, <1>8
          DEF Handler, OpenStep, CloseStep

LEMMA DogTier ==
  ASSUME BaseInv, TierInv, mode = "up", DogTick \/ DogStep
  PROVE  TierInv'
  <1> USE NoneAssumption DEF BaseInv, TypeOK, RegistryTypeOK, DogInv, Live, DogIdle,
            TierInv, Demoting, At, registryVars, tierVars, bootVars
  <1>1. CASE DogTick
    BY <1>1 DEF DogTick
  <1>2. CASE \E id \in Ids : DogSkip(id) \/ DogPick(id)
    <2>1. UNCHANGED <<sessions, call, tier, raced, mode>> /\ dog.pc = "scan"
      BY <1>2 DEF DogSkip, DogPick
    <2>2. PICK id \in Ids : DogSkip(id) \/ DogPick(id)
      BY <1>2
    <2>3. \/ dog' = [dog EXCEPT !.todo = @ \ {id}]
          \/ dog' = [dog EXCEPT !.pc = "stop", !.id = id, !.todo = @ \ {id}]
      BY <2>2, Zenon DEF DogSkip, DogPick
    <2>4. dog \in [pc : {"scan"}, todo : SUBSET Ids, id : Ids \cup {None},
                   cleaned : SUBSET Ids]
      BY <2>1
    <2>5. dog'.pc \in {"scan", "stop"} /\ dog'.cleaned = dog.cleaned
      BY <2>3, <2>4
    <2> QED BY <2>1, <2>5
  <1>3. CASE DogStop
    BY <1>3 DEF DogStop
  <1>4. CASE DogDelete
    BY <1>4 DEF DogDelete, Delete
  <1>5. CASE DogForget
    BY <1>5 DEF DogForget
  <1>6. CASE DogList
    BY <1>6 DEF DogList
  <1>7. CASE DogDemote
    <2>1. UNCHANGED <<sessions, call, mode>> /\ dog' = DogIdle /\ tier' = 0
      BY <1>7 DEF DogDemote, demoteToTier0
    <2>2. Live # {} => raced'
      BY <1>7, Zenon DEF DogDemote, demoteToTier0
    <2>3. Live' = Live
      BY <2>1
    <2> QED BY <2>1, <2>2, <2>3
  <1> QED BY <1>1, <1>2, <1>3, <1>4, <1>5, <1>6, <1>7 DEF DogStep

LEMMA StepTier ==
  ASSUME BaseInv, TierInv, [Next]_vars
  PROVE  TierInv'
  <1>1. CASE ClientStep
    BY <1>1 DEF ClientStep, ClientOpen, ClientClose, ClientAnalyze, BaseInv, TypeOK,
                CallInv, Idle, CreatedPcs, TierInv, Demoting, At, Live, registryVars,
                tierVars, bootVars
  <1>2. CASE \/ \E id \in Ids : BackgroundDone(id) \/ WorkerExit(id) \/ monitorWorker(id)
             \/ UNCHANGED vars
    BY <1>2 DEF BackgroundDone, WorkerExit, monitorWorker, TierInv, Demoting, At, Live,
                registryVars, tierVars, bootVars, vars
  <1>3. CASE ServerExit \/ Boot \/ \E id \in Ids : \/ RestoreStale(id) \/ RestoreSkip(id)
                                                   \/ RestoreSession(id)
                                                   \/ RestoreFails(id)
    BY <1>3 DEF ServerExit, Boot, RestoreStale, RestoreSkip, RestoreSession, RestoreFails,
                Visit, BaseInv, BootInv, TierInv, DogIdle
  <1>4. CASE Listen
    <2>1. dog' = DogIdle /\ tier' = IF Live' # {} THEN 1 ELSE 0
      BY <1>4 DEF Listen, BaseInv, BootInv, Live, registryVars
    <2> QED BY <2>1 DEF TierInv, DogIdle
  <1>5. mode = "up" \/ ~\E c \in Calls : Handler(c)
    BY DEF BaseInv, BootInv, Idle, Handler, OpenStep, CloseStep, OpenFind, OpenReuse,
           OpenCreate, OpenRefused, OpenStart, OpenStartFails, OpenClient, OpenUndo,
           OpenPersist, OpenPromote, CloseStop, CloseDelete, CloseForget, CloseList,
           CloseDemote, AnalyzePromote, AnalyzeFails
  <1>6. mode = "up" \/ ~(DogTick \/ DogStep)
    <2>1. DogStep => dog.pc # "idle"
      BY DEF DogStep, DogSkip, DogPick, DogStop, DogDelete, DogForget, DogList, DogDemote
    <2> QED BY <2>1 DEF BaseInv, BootInv, DogIdle, DogTick
  <1> QED BY <1>1, <1>2, <1>3, <1>4, <1>5, <1>6, CallTier, DogTier
          DEF Next, RestoreStep

(* At rest the tier follows the sessions, through every overlap of opens,   *)
(* closes, expiries and analysis calls, failures and restarts, unless the   *)
(* last to set it passed another, or an open failed as the last session.    *)
THEOREM LifecycleTierSettles == Spec => []TierSettles
  <1>1. Init => TierInv
    BY DEF Init, NewRegistry, Live, TierInv, DogIdle
  <1>2. BaseInv /\ TierInv => TierSettles
    BY DEF TierInv, Demoting, TierSettles, TierFits, Quiet, Idle, At, CreatedPcs,
           BaseInv, TypeOK
  <1> QED BY <1>1, <1>2, StepTier, InitBase, StepBase, PTL DEF Spec
=============================================================================
