----------------------------- MODULE Lifecycle ------------------------------
(***************************************************************************)
(* The life of sessions in the server: open_binary, close_binary, the      *)
(* analysis calls that promote the tool tier, the idle watchdog, worker    *)
(* exits, and the restart of the server with RestoreSessions.              *)
(* (internal/server/session.go, internal/server/server.go,                 *)
(* internal/worker/manager.go, cmd/ida-pilot/main.go.)                     *)
(*                                                                         *)
(* Handlers run concurrently and share the registry, the worker manager,   *)
(* the session store and the tool tier; each of these has its own lock, so *)
(* a step is one operation on one of them.  Progress snapshots and caches, *)
(* which the same handlers also clear, are the subject of Readiness.       *)
(***************************************************************************)
EXTENDS Registry

CONSTANTS
    Calls,         \* concurrent tool calls
    Faults,        \* the I/O failures that may happen: writing a record,
                   \* killing a worker, removing a record
    WatchdogRuns,  \* is the idle watchdog part of the instance?
    MaxCrashes     \* bound on the number of server exits

ASSUME FaultsAssumption == Faults \subseteq {"save", "kill", "remove"}
ASSUME FlagsAssumption  == WatchdogRuns \in BOOLEAN
ASSUME CrashAssumption  == MaxCrashes \in Nat

VARIABLES
    clients,   \* Manager.sessions: ids with a worker client
    alive,     \* ids whose worker process is running
    records,   \* the session store: records[id] is the saved path, or None
    tier,      \* the tool tier, 0..2
    used,      \* ids drawn so far
    mode,      \* the server process: "down", "restoring" or "up"
    pending,   \* loaded metadata that RestoreSessions has still to visit
    skipped,   \* ids RestoreSessions left on disk because the limit was hit
    call,      \* call[c]: the handler running in slot c
    bg,        \* ids whose backgroundOpen goroutine is running
    dog,       \* the watchdog goroutine
    crashes    \* number of server exits so far

(* History, read by the properties alone: what a teardown missed because an *)
(* open_binary call had yet to make it, or because a fault kept it; and     *)
(* whether the tier was last set against the sessions there were.           *)
VARIABLES
    unstopped, \* ids whose worker was not stopped
    unremoved, \* ids whose record was not removed
    raced      \* did the last promotion find no session, the last demotion
               \* one, or a failed open end the last session?

workerVars == <<clients, alive, bg, unstopped>>
storeVars  == <<records, unremoved>>
tierVars   == <<tier, raced>>
bootVars   == <<mode, pending, skipped, crashes>>
vars == <<registryVars, workerVars, storeVars, tierVars, used, bootVars, call, dog>>

Idle    == [pc |-> "idle", path |-> None, id |-> None]
DogIdle == [pc |-> "idle", todo |-> {}, id |-> None, cleaned |-> {}]

OpenPcs  == {"find", "reuse", "create", "start", "client", "undo",
             "persist", "promote"}
ClosePcs == {"stop", "delete", "forget", "list", "demote"}

Init ==
    /\ NewRegistry
    /\ clients = {} /\ alive = {} /\ bg = {} /\ unstopped = {}
    /\ records = [id \in Ids |-> None] /\ unremoved = {}
    /\ tier = 0 /\ raced = FALSE /\ used = {}
    /\ mode = "up" /\ pending = {} /\ skipped = {} /\ crashes = 0
    /\ call = [c \in Calls |-> Idle]
    /\ dog = DogIdle

----------------------------------------------------------------------------
(* Shared operations.                                                      *)

Goto(c, pc)  == call' = [call EXCEPT ![c].pc = pc]
Return(c)    == call' = [call EXCEPT ![c] = Idle]
Opening(id)  == \E c \in Calls : call[c].id = id /\ call[c].pc \in OpenPcs
InFlight(id) == id \in bg \/ \E c \in Calls : call[c].id = id
                                              /\ call[c].pc = "analyze"

(* An open_binary call is at these steps before it files the worker's       *)
(* client, and before it writes the record.                                 *)
At(id, pcs)   == \E c \in Calls : call[c].id = id /\ call[c].pc \in pcs
Starting(id)  == At(id, {"start"})
Unwritten(id) == At(id, {"start", "client", "persist"})

promoteToTier(target) ==
    /\ tier' = IF tier >= target THEN tier ELSE target
    /\ raced' = (Live = {})

demoteToTier0 == tier' = 0 /\ raced' = (Live # {})

(* The worker process is launched, which may take seconds, and has          *)
(* answered; its client is filed.  A Stop that comes before finds no client *)
(* to stop, whether or not the process runs.                                *)
Launch(id) == alive' = alive \cup {id}
Start(id)  == Launch(id) /\ clients' = clients \cup {id}

(* A faulty variant: the client is dropped, the process is not killed.      *)
StopForgetsOnly(id) == clients' = clients \ {id} /\ UNCHANGED <<alive, bg, unstopped>>

(* Manager.Stop: nothing to do without a client; otherwise the worker is   *)
(* asked to save, killed and forgotten, or the kill fails and both stay.   *)
Stop(id) ==
    \/ /\ id \notin clients
       /\ unstopped' = IF Starting(id) THEN unstopped \cup {id} ELSE unstopped
       /\ UNCHANGED <<clients, alive, bg>>
    \/ /\ id \in clients
       /\ alive'   = alive \ {id}
       /\ clients' = clients \ {id}
       /\ UNCHANGED <<bg, unstopped>>
    \/ /\ id \in clients
       /\ "kill" \in Faults
       /\ unstopped' = unstopped \cup {id}
       /\ UNCHANGED <<clients, alive, bg>>

(* Bound: a call starts to open only while an unused id is left for it.    *)
IdsLeft == Cardinality({c \in Calls : call[c].pc \in {"find", "create"}})
               < Cardinality(Ids \ used)

deleteSessionState(id) ==
    \/ /\ records' = [records EXCEPT ![id] = None]
       /\ unremoved' = IF Unwritten(id) THEN unremoved \cup {id} ELSE unremoved
    \/ /\ "remove" \in Faults
       /\ unremoved' = unremoved \cup {id}
       /\ UNCHANGED records

----------------------------------------------------------------------------
(* open_binary.                                                            *)

ClientOpen(c, p) ==
    /\ mode = "up"
    /\ call[c] = Idle
    /\ IdsLeft
    /\ call' = [call EXCEPT ![c] = [pc |-> "find", path |-> p, id |-> None]]
    /\ UNCHANGED <<registryVars, workerVars, storeVars, tierVars, used, bootVars, dog>>

(* The reuse check and the creation are two critical sections of the       *)
(* registry's lock.                                                        *)
OpenFind(c) ==
    /\ call[c].pc = "find"
    /\ Goto(c, IF FindByBinaryPath(call[c].path) = None THEN "create"
               ELSE "reuse")
    /\ UNCHANGED <<registryVars, workerVars, storeVars, tierVars, used, bootVars, dog>>

OpenReuse(c) ==
    /\ call[c].pc = "reuse"
    /\ promoteToTier(1)
    /\ Return(c)
    /\ UNCHANGED <<registryVars, workerVars, storeVars, used, bootVars, dog>>

OpenCreate(c) ==
    /\ call[c].pc = "create"
    /\ \E id \in Ids \ used :
           /\ Create(id, call[c].path)
           /\ used' = used \cup {id}
           /\ call' = [call EXCEPT ![c].id = id, ![c].pc = "start"]
    /\ UNCHANGED <<workerVars, storeVars, tierVars, bootVars, dog>>

OpenRefused(c) ==
    /\ call[c].pc = "create"
    /\ Full
    /\ Return(c)
    /\ UNCHANGED <<registryVars, workerVars, storeVars, tierVars, used, bootVars, dog>>

OpenStart(c) ==
    /\ call[c].pc = "start"
    /\ Start(call[c].id)
    /\ Goto(c, "client")
    /\ UNCHANGED <<registryVars, bg, unstopped, storeVars, tierVars, used, bootVars, dog>>

OpenStartFails(c) ==
    /\ call[c].pc = "start"
    /\ Goto(c, "undo")
    /\ UNCHANGED <<registryVars, workerVars, storeVars, tierVars, used, bootVars, dog>>

(* A faulty variant: the session is not saved.                              *)
OpenClientNoPersist(c) ==
    /\ call[c].pc = "client"
    /\ Goto(c, IF call[c].id \in clients THEN "promote" ELSE "undo")
    /\ UNCHANGED <<registryVars, workerVars, storeVars, tierVars, used, bootVars, dog>>

(* The client is gone again when the worker has exited, or was stopped.    *)
OpenClient(c) ==
    /\ call[c].pc = "client"
    /\ Goto(c, IF call[c].id \in clients THEN "persist" ELSE "undo")
    /\ UNCHANGED <<registryVars, workerVars, storeVars, tierVars, used, bootVars, dog>>

(* Reached without a client, so that the Stop before the deletion finds    *)
(* nothing to stop.                                                        *)
OpenUndo(c) ==
    /\ call[c].pc = "undo"
    /\ Delete(call[c].id)
    /\ raced' = (raced \/ (tier > 0 /\ Live = {call[c].id}))
    /\ Return(c)
    /\ UNCHANGED <<workerVars, storeVars, tier, used, bootVars, dog>>

OpenPersist(c) ==
    /\ call[c].pc = "persist"
    /\ \/ records' = [records EXCEPT ![call[c].id] = call[c].path]
       \/ "save" \in Faults /\ UNCHANGED records
    /\ Goto(c, "promote")
    /\ UNCHANGED <<registryVars, workerVars, unremoved, tierVars, used, bootVars, dog>>

(* promoteToTier(1), then the background open is spawned and the call ends. *)
OpenPromote(c) ==
    /\ call[c].pc = "promote"
    /\ promoteToTier(1)
    /\ bg' = bg \cup {call[c].id}
    /\ Return(c)
    /\ UNCHANGED <<registryVars, clients, alive, unstopped, storeVars, used, bootVars, dog>>

(* A faulty variant: the session is saved once more when it is ready.       *)
BackgroundDonePersists(id) ==
    /\ id \in bg
    /\ bg' = bg \ {id}
    /\ \E p \in Paths : records' = [records EXCEPT ![id] = p]
    /\ UNCHANGED <<registryVars, clients, alive, unstopped, unremoved, tierVars, used,
                   bootVars, call, dog>>

BackgroundDone(id) ==
    /\ id \in bg
    /\ bg' = bg \ {id}
    /\ UNCHANGED <<registryVars, clients, alive, unstopped, storeVars, tierVars, used, bootVars,
                   call, dog>>

OpenStep(c) ==
    \/ OpenFind(c) \/ OpenReuse(c) \/ OpenCreate(c) \/ OpenRefused(c)
    \/ OpenStart(c) \/ OpenStartFails(c) \/ OpenClient(c) \/ OpenUndo(c)
    \/ OpenPersist(c) \/ OpenPromote(c)

----------------------------------------------------------------------------
(* close_binary.  The session may disappear between two steps: every step  *)
(* works on the id alone.                                                  *)

ClientClose(c, id) ==
    /\ mode = "up"
    /\ call[c] = Idle
    /\ sessions[id] # None
    /\ call' = [call EXCEPT ![c] = [pc |-> "stop", path |-> None, id |-> id]]
    /\ UNCHANGED <<registryVars, workerVars, storeVars, tierVars, used, bootVars, dog>>

(* A faulty variant: without a worker there seems to be nothing to clean up. *)
CloseStopSkips(c) ==
    /\ call[c].pc = "stop"
    /\ Stop(call[c].id)
    /\ Goto(c, IF call[c].id \in clients THEN "delete" ELSE "list")
    /\ UNCHANGED <<registryVars, storeVars, tierVars, used, bootVars, dog>>

CloseStop(c) ==
    /\ call[c].pc = "stop"
    /\ Stop(call[c].id)
    /\ Goto(c, "delete")
    /\ UNCHANGED <<registryVars, storeVars, tierVars, used, bootVars, dog>>

CloseDelete(c) ==
    /\ call[c].pc = "delete"
    /\ Delete(call[c].id)
    /\ Goto(c, "forget")
    /\ UNCHANGED <<workerVars, storeVars, tierVars, used, bootVars, dog>>

CloseForget(c) ==
    /\ call[c].pc = "forget"
    /\ deleteSessionState(call[c].id)
    /\ Goto(c, "list")
    /\ UNCHANGED <<registryVars, workerVars, tierVars, used, bootVars, dog>>

CloseList(c) ==
    /\ call[c].pc = "list"
    /\ IF Live = {} THEN Goto(c, "demote") ELSE Return(c)
    /\ UNCHANGED <<registryVars, workerVars, storeVars, tierVars, used, bootVars, dog>>

CloseDemote(c) ==
    /\ call[c].pc = "demote"
    /\ demoteToTier0
    /\ Return(c)
    /\ UNCHANGED <<registryVars, workerVars, storeVars, used, bootVars, dog>>

CloseStep(c) ==
    \/ CloseStop(c) \/ CloseDelete(c) \/ CloseForget(c)
    \/ CloseList(c) \/ CloseDemote(c)

----------------------------------------------------------------------------
(* survey_binary and analyze_function: the client is resolved under an     *)
(* in-flight lease, and the write tools appear when the call has finished. *)

ClientAnalyze(c, id) ==
    /\ mode = "up"
    /\ call[c] = Idle
    /\ sessions[id] # None /\ id \in clients /\ id \notin bg
    /\ ~Opening(id)
    /\ call' = [call EXCEPT ![c] = [pc |-> "analyze", path |-> None, id |-> id]]
    /\ UNCHANGED <<registryVars, workerVars, storeVars, tierVars, used, bootVars, dog>>

AnalyzePromote(c) ==
    /\ call[c].pc = "analyze"
    /\ promoteToTier(2)
    /\ Return(c)
    /\ UNCHANGED <<registryVars, workerVars, storeVars, used, bootVars, dog>>

AnalyzeFails(c) ==
    /\ call[c].pc = "analyze"
    /\ Return(c)
    /\ UNCHANGED <<registryVars, workerVars, storeVars, tierVars, used, bootVars, dog>>

----------------------------------------------------------------------------
(* The watchdog.  Which sessions are idle for too long is left open here;  *)
(* the snapshot of expired sessions and the re-check are two reads.        *)

DogTick ==
    /\ mode = "up" /\ WatchdogRuns
    /\ dog.pc = "idle"
    /\ \E expired \in (SUBSET Live) \ {{}} :
           dog' = [pc |-> "scan", todo |-> expired, id |-> None, cleaned |-> {}]
    /\ UNCHANGED <<registryVars, workerVars, storeVars, tierVars, used, bootVars, call>>

DogSkip(id) ==
    /\ dog.pc = "scan" /\ id \in dog.todo
    /\ dog' = [dog EXCEPT !.todo = @ \ {id}]
    /\ UNCHANGED <<registryVars, workerVars, storeVars, tierVars, used, bootVars, call>>

DogPick(id) ==
    /\ dog.pc = "scan" /\ id \in dog.todo
    /\ ~InFlight(id)
    /\ dog' = [dog EXCEPT !.pc = "stop", !.id = id, !.todo = @ \ {id}]
    /\ UNCHANGED <<registryVars, workerVars, storeVars, tierVars, used, bootVars, call>>

DogStop ==
    /\ dog.pc = "stop"
    /\ Stop(dog.id)
    /\ dog' = [dog EXCEPT !.pc = "delete"]
    /\ UNCHANGED <<registryVars, storeVars, tierVars, used, bootVars, call>>

DogDelete ==
    /\ dog.pc = "delete"
    /\ Delete(dog.id)
    /\ dog' = [dog EXCEPT !.pc = "forget"]
    /\ UNCHANGED <<workerVars, storeVars, tierVars, used, bootVars, call>>

DogForget ==
    /\ dog.pc = "forget"
    /\ deleteSessionState(dog.id)
    /\ dog' = [dog EXCEPT !.pc = "scan", !.id = None,
                           !.cleaned = @ \cup {dog.id}]
    /\ UNCHANGED <<registryVars, workerVars, tierVars, used, bootVars, call>>

DogList ==
    /\ dog.pc = "scan" /\ dog.todo = {}
    /\ dog' = IF dog.cleaned # {} /\ Live = {} THEN [dog EXCEPT !.pc = "demote"]
              ELSE DogIdle
    /\ UNCHANGED <<registryVars, workerVars, storeVars, tierVars, used, bootVars, call>>

DogDemote ==
    /\ dog.pc = "demote"
    /\ demoteToTier0
    /\ dog' = DogIdle
    /\ UNCHANGED <<registryVars, workerVars, storeVars, used, bootVars, call>>

DogStep ==
    \/ \E id \in Ids : DogSkip(id) \/ DogPick(id)
    \/ DogStop \/ DogDelete \/ DogForget \/ DogList \/ DogDemote

----------------------------------------------------------------------------
(* Worker processes.                                                       *)

WorkerExit(id) ==
    /\ id \in alive
    /\ alive' = alive \ {id}
    /\ UNCHANGED <<registryVars, clients, bg, unstopped, storeVars, tierVars, used, bootVars,
                   call, dog>>

monitorWorker(id) ==
    /\ id \in clients \ alive
    /\ clients' = clients \ {id}
    /\ UNCHANGED <<registryVars, alive, bg, unstopped, storeVars, tierVars, used, bootVars,
                   call, dog>>

----------------------------------------------------------------------------
(* The server process.  On Linux and Windows the workers are bound to the  *)
(* server's life, so an exit, graceful or not, leaves only the store.      *)

ServerExit ==
    /\ mode # "down" /\ crashes < MaxCrashes
    /\ Renew
    /\ clients' = {} /\ alive' = {} /\ bg' = {} /\ unstopped' = {}
    /\ tier' = 0 /\ raced' = FALSE
    /\ unremoved' = {}
    /\ mode' = "down" /\ pending' = {} /\ skipped' = {}
    /\ crashes' = crashes + 1
    /\ call' = [c \in Calls |-> Idle]
    /\ dog' = DogIdle
    /\ UNCHANGED <<records, used>>

Boot ==
    /\ mode = "down"
    /\ mode' = "restoring"
    /\ pending' = {id \in Ids : records[id] # None}
    /\ UNCHANGED <<registryVars, workerVars, storeVars, tierVars, used, skipped,
                   crashes, call, dog>>

Visit(id) ==
    /\ mode = "restoring" /\ id \in pending
    /\ pending' = pending \ {id}
    /\ UNCHANGED <<tierVars, used, mode, crashes, call, dog>>

(* The binary is no longer on disk.                                        *)
RestoreStale(id) ==
    /\ Visit(id)
    /\ deleteSessionState(id)
    /\ UNCHANGED <<registryVars, workerVars, skipped>>

(* The limit is reached: the record stays for a later start.               *)
RestoreSkip(id) ==
    /\ Visit(id)
    /\ Full
    /\ skipped' = skipped \cup {id}
    /\ UNCHANGED <<registryVars, workerVars, storeVars>>

RestoreSession(id) ==
    /\ Visit(id)
    /\ Restore(id, records[id])
    /\ Start(id)
    /\ bg' = bg \cup {id}
    /\ UNCHANGED <<unstopped, storeVars, skipped>>

(* A faulty variant: the record of a session that cannot be restored stays. *)
RestoreFailsKeepsRecord(id) ==
    /\ Visit(id)
    /\ RestoreThenDelete(id, records[id])
    /\ UNCHANGED <<storeVars, workerVars, skipped>>

(* The worker does not start, or its client is gone at once.               *)
RestoreFails(id) ==
    /\ Visit(id)
    /\ RestoreThenDelete(id, records[id])
    /\ deleteSessionState(id)
    /\ UNCHANGED <<workerVars, skipped>>

(* A faulty variant: restored sessions do not promote the tools.            *)
ListenAtTier0 ==
    /\ mode = "restoring" /\ pending = {}
    /\ mode' = "up"
    /\ tier' = 0 /\ raced' = FALSE
    /\ UNCHANGED <<registryVars, workerVars, storeVars, used, pending, skipped,
                   crashes, call, dog>>

(* RegisterTools and PromoteIfSessions, then the server listens.           *)
Listen ==
    /\ mode = "restoring" /\ pending = {}
    /\ mode' = "up"
    /\ tier' = IF Live # {} THEN 1 ELSE 0
    /\ raced' = FALSE
    /\ UNCHANGED <<registryVars, workerVars, storeVars, used, pending, skipped,
                   crashes, call, dog>>

RestoreStep ==
    \/ \E id \in Ids : \/ RestoreStale(id) \/ RestoreSkip(id)
                       \/ RestoreSession(id) \/ RestoreFails(id)
    \/ Listen

----------------------------------------------------------------------------

ClientStep ==
    \E c \in Calls :
        \/ \E p \in Paths : ClientOpen(c, p)
        \/ \E id \in Ids : ClientClose(c, id) \/ ClientAnalyze(c, id)

Handler(c) ==
    OpenStep(c) \/ CloseStep(c) \/ AnalyzePromote(c) \/ AnalyzeFails(c)

Next ==
    \/ ClientStep
    \/ \E c \in Calls : Handler(c)
    \/ \E id \in Ids : BackgroundDone(id) \/ WorkerExit(id) \/ monitorWorker(id)
    \/ DogTick
    \/ DogStep
    \/ ServerExit
    \/ Boot
    \/ RestoreStep

Spec == Init /\ [][Next]_vars

----------------------------------------------------------------------------

TypeOK ==
    /\ RegistryTypeOK
    /\ clients \subseteq Ids /\ alive \subseteq Ids /\ bg \subseteq Ids
    /\ records \in [Ids -> Paths \cup {None}]
    /\ unstopped \subseteq Ids /\ unremoved \subseteq Ids
    /\ tier \in 0..2 /\ raced \in BOOLEAN
    /\ used \subseteq Ids
    /\ mode \in {"down", "restoring", "up"}
    /\ pending \subseteq Ids /\ skipped \subseteq Ids
    /\ crashes \in 0..MaxCrashes
    /\ call \in [Calls -> [pc : {"idle", "analyze"} \cup OpenPcs \cup ClosePcs,
                           path : Paths \cup {None}, id : Ids \cup {None}]]
    /\ dog \in [pc : {"idle", "scan", "stop", "delete", "forget", "demote"},
                todo : SUBSET Ids, id : Ids \cup {None}, cleaned : SUBSET Ids]

(* Who is taking session id down: past its registry deletion, before the    *)
(* store deletion.                                                          *)
Forgetting(id) ==
    \/ \E c \in Calls : call[c].id = id /\ call[c].pc = "forget"
    \/ dog.id = id /\ dog.pc = "forget"

(* A registered session can be restored after a restart: unless its         *)
(* open_binary call is still running, its record is in the store, with its  *)
(* path.  Rests on the order of the teardown (registry before store) and of *)
(* the opening (store before the reply).                                    *)
SessionsPersisted ==
    \A id \in Live : ~Opening(id) => records[id] = sessions[id]

(* closeBinary: a close "must not leave the session persisted in the store, *)
(* or RestoreSessions would try to respawn a worker for it on the next      *)
(* start".  A record without a session is being deleted, or was left by a   *)
(* restore that hit the limit.                                              *)
Leftover(id) == records[id] # None /\ id \notin Live \cup skipped /\ ~Forgetting(id)
NoRecordLeft == mode = "up" => \A id \in Ids : ~Leftover(id)

(* A record outlives its session in two ways only: its removal failed, or   *)
(* the teardown came inside the session's own open_binary, before the       *)
(* record was written (session.go:455 against session.go:194).  No other    *)
(* order of opens, closes, expiries, exits and restarts leaves one.         *)
RecordsOwned == mode = "up" => \A id \in Ids : Leftover(id) => id \in unremoved

(* A worker process runs without a session in two ways only: it was not     *)
(* killed, or the teardown's Stop came inside the session's own open_binary *)
(* before Start had filed the client (manager.go:109 against manager.go:65).*)
WorkersOwned == alive \subseteq Live \cup unstopped

(* README: "Python Worker (one per binary)".  No two sessions, and so no    *)
(* two workers, for one binary path.                                        *)
OneSessionPerBinary ==
    \A i, j \in Live : sessions[i] = sessions[j] => i = j

Quiet == mode = "up" /\ dog.pc = "idle" /\ \A c \in Calls : call[c] = Idle

(* README, the trigger of tier 1: "Binary opened".  At rest, an open binary *)
(* has the tools to work on it.                                             *)
OpenUnlocksTools == Quiet /\ Live # {} => tier > 0

(* README: "When the last session closes, tools demote back to Tier 0", and *)
(* open_binary unlocks tier 1: while no handler runs, the session tools are *)
(* registered exactly when there is a session.  However the handlers        *)
(* overlap, that fails only if the last of them to set the tier passed      *)
(* another: a demotion decided on an empty list met a new session, a        *)
(* promotion came after the last close, or an open failed when the last     *)
(* close had counted its session (session.go:462).                          *)
TierFits == tier > 0 <=> Live # {}
TierSettles == Quiet /\ ~raced => TierFits

(* Workers are used as WorkerPool specifies them, which Worker implements.  *)
Pool == INSTANCE WorkerPool
ImplementsPool == Pool!Spec

(* close_binary cleans up whatever has happened to its session meanwhile,   *)
(* by a second close_binary, the watchdog or the end of the worker: past    *)
(* its last deletion the session is out of the registry, and out of the     *)
(* store and its worker dead unless they were missed as above.              *)
Gone(id) == sessions[id] = None /\ records[id] = None /\ id \notin alive
CloseRemoves ==
    \A c \in Calls : call[c].pc \in {"list", "demote"} =>
        /\ sessions[call[c].id] = None
        /\ records[call[c].id] # None => call[c].id \in unremoved
        /\ call[c].id \in alive => call[c].id \in unstopped

(* And what is gone stays gone: neither a call or goroutine that still has  *)
(* its id nor a restart brings a session back.                              *)
CloseIsFinal ==
    [][\A id \in used : Gone(id) /\ ~Opening(id) => Gone(id)']_vars
=============================================================================
