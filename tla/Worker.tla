------------------------------- MODULE Worker -------------------------------
(***************************************************************************)
(* The worker of one session: its launch, the requests of the tools, its   *)
(* stop by close_binary, the watchdog or the shutdown, its death, and what *)
(* becomes of the database on the way.  (internal/worker/manager.go,       *)
(* launcher_direct.go, and the worker's side in python/worker/server.py,   *)
(* connect_server.py and ida_wrapper.py.)                                  *)
(*                                                                         *)
(* The worker executes jobs one at a time, in the order of their arrival,  *)
(* and a job may take for ever.  A job is named by the call that sent it.  *)
(* Of the database only the writes it contains are kept.                   *)
(***************************************************************************)
EXTENDS Naturals, Sequences, FiniteSets

CONSTANTS
    Id,        \* the session
    Requests,  \* tool calls, each one request to the worker
    Stoppers,  \* calls of Manager.Stop
    Faults     \* what may go wrong: "launch", "exit" of the process, "kill",
               \* "save", "open", and a "corrupt" database at an open

ASSUME WorkerAssumption ==
    /\ Requests \cap Stoppers = {}
    /\ Faults \subseteq {"launch", "exit", "kill", "save", "open", "corrupt"}

VARIABLES
    start,     \* Manager.Start: "idle", "wait", "ready", "filed" or "failed"
    proc,      \* the process: "none", "up", "killed" or "gone"
    client,    \* is the client in Manager.sessions?
    reaped,    \* has monitorWorker closed worker.done?
    stop,      \* stop[s]: where the Stop call s is
    req,       \* req[r]: the request r and what it asks for
    queue,     \* the jobs of the IDA thread
    saving,    \* is the job at the head writing the database file?
    db,        \* is the database open?
    mem, disk, \* the writes in the open database, and in its file
    closed,    \* history: a CloseSession has been executed
    late,      \* history: the writes executed after it
    unkilled,  \* history: a kill has failed
    excused    \* history: something has happened that may cost writes

managerVars == <<start, client, reaped>>
dbVars      == <<saving, db, mem, disk>>
history     == <<closed, late, unkilled, excused>>
vars == <<managerVars, proc, stop, req, queue, dbVars, history>>

Ops == {"write", "save", "read"}

Init ==
    /\ start = "idle" /\ proc = "none" /\ client = FALSE /\ reaped = FALSE
    /\ stop = [s \in Stoppers |-> "idle"]
    /\ req = [r \in Requests |-> [pc |-> "idle", op |-> "read"]]
    /\ queue = <<>>
    /\ saving = FALSE /\ db = FALSE /\ mem = {} /\ disk = {}
    /\ closed = FALSE /\ late = {} /\ unkilled = FALSE /\ excused = FALSE

(* The process ends, and its memory with it.  In the middle of a save it    *)
(* may leave a torn file, which the next open deletes.                      *)
Ends(p) ==
    /\ proc' = p
    /\ queue' = <<>> /\ saving' = FALSE /\ db' = FALSE /\ mem' = {}
    /\ disk' \in IF saving THEN {disk, {}} ELSE {disk}

Kill ==
    /\ Ends("killed")
    /\ excused' = (excused \/ saving)

----------------------------------------------------------------------------
(* Manager.Start: the process is started, its endpoint is polled, and the  *)
(* client is filed and monitored.                                          *)

LaunchStart ==
    /\ start = "idle"
    /\ \/ start' = "wait" /\ proc' = "up"
       \/ "launch" \in Faults /\ start' = "failed" /\ UNCHANGED proc
    /\ UNCHANGED <<client, reaped, stop, req, queue, dbVars, history>>

LaunchReady ==
    /\ start = "wait" /\ proc = "up"
    /\ start' = "ready"
    /\ UNCHANGED <<client, reaped, proc, stop, req, queue, dbVars, history>>

(* A faulty variant: the process is left behind.                            *)
LaunchTimeoutLeaks ==
    /\ start = "wait"
    /\ start' = "failed"
    /\ UNCHANGED <<client, reaped, proc, stop, req, queue, dbVars, history>>

(* The endpoint does not answer in time; an error of the kill is ignored.   *)
LaunchTimeout ==
    /\ start = "wait"
    /\ start' = "failed"
    /\ \/ proc' = (IF proc = "up" THEN "killed" ELSE proc) /\ UNCHANGED unkilled
       \/ "kill" \in Faults /\ unkilled' = TRUE /\ UNCHANGED proc
    /\ UNCHANGED <<client, reaped, stop, req, queue, dbVars, closed, late, excused>>

FileClient ==
    /\ start = "ready"
    /\ start' = "filed" /\ client' = TRUE
    /\ UNCHANGED <<reaped, proc, stop, req, queue, dbVars, history>>

StartStep == LaunchStart \/ LaunchReady \/ LaunchTimeout \/ FileClient

monitorWorker ==
    /\ start = "filed" /\ proc = "gone" /\ ~reaped
    /\ client' = FALSE /\ reaped' = TRUE
    /\ UNCHANGED <<start, proc, stop, req, queue, dbVars, history>>

----------------------------------------------------------------------------
(* The process.                                                            *)

WorkerExit ==
    /\ "exit" \in Faults /\ proc = "up"
    /\ Ends("gone")
    /\ excused' = TRUE
    /\ UNCHANGED <<managerVars, stop, req, closed, late, unkilled>>

ProcessDies ==
    /\ proc = "killed"
    /\ proc' = "gone"
    /\ UNCHANGED <<managerVars, stop, req, queue, dbVars, history>>

(* cancel(), after a kill that failed: exec's own watcher kills again.      *)
ContextKill ==
    /\ unkilled /\ proc = "up"
    /\ Kill
    /\ UNCHANGED <<managerVars, stop, req, closed, late, unkilled>>

----------------------------------------------------------------------------
(* Manager.Stop.                                                           *)

StopAt(s, l) == stop' = [stop EXCEPT ![s] = l]

(* GetClient, and the CloseSession request, which fails at once when the   *)
(* process is no longer there.                                             *)
Stop(s) ==
    /\ stop[s] = "idle" /\ start \in {"filed", "failed"}
    /\ StopAt(s, IF ~client THEN "none" ELSE IF proc = "up" THEN "close" ELSE "kill")
    /\ queue' = IF client /\ proc = "up" THEN Append(queue, s) ELSE queue
    /\ UNCHANGED <<managerVars, proc, req, dbVars, history>>

(* A faulty variant: the request has no deadline.                           *)
CloseUnlimited(s) ==
    /\ stop[s] = "close" /\ proc # "up"
    /\ StopAt(s, "kill")
    /\ UNCHANGED <<managerVars, proc, req, queue, dbVars, history>>

(* The request is given up after five seconds, and its job stays in the     *)
(* queue, or the connection breaks.                                         *)
CloseGivenUp(s) ==
    /\ stop[s] = "close"
    /\ StopAt(s, "kill")
    /\ excused' = (excused \/ proc = "up")
    /\ UNCHANGED <<managerVars, proc, req, queue, dbVars, closed, late, unkilled>>

(* A faulty variant: the worker is left to end by itself.                   *)
stopWorkerSkipsKill(s) ==
    /\ stop[s] = "kill"
    /\ StopAt(s, "wait")
    /\ UNCHANGED <<managerVars, proc, req, queue, dbVars, history>>

(* stopDirectWorker: a process that is done counts as killed.               *)
stopWorker(s) ==
    /\ stop[s] = "kill"
    /\ \/ /\ IF proc = "up" THEN Kill ELSE UNCHANGED <<proc, queue, dbVars, excused>>
          /\ StopAt(s, "wait")
          /\ UNCHANGED unkilled
       \/ /\ "kill" \in Faults /\ proc \in {"up", "killed"}
          /\ unkilled' = TRUE
          /\ StopAt(s, "failed")
          /\ UNCHANGED <<proc, queue, dbVars, excused>>
    /\ UNCHANGED <<managerVars, req, closed, late>>

(* worker.done, or five seconds.                                            *)
StopWaited(s) ==
    /\ stop[s] = "wait"
    /\ StopAt(s, "forget")
    /\ UNCHANGED <<managerVars, proc, req, queue, dbVars, history>>

StopForgets(s) ==
    /\ stop[s] = "forget"
    /\ client' = FALSE
    /\ StopAt(s, "done")
    /\ UNCHANGED <<start, reaped, proc, req, queue, dbVars, history>>

StopStep(s) ==
    CloseGivenUp(s) \/ stopWorker(s) \/ StopWaited(s) \/ StopForgets(s)

----------------------------------------------------------------------------
(* Requests of the tools.                                                  *)

Request(r, op) ==
    /\ req[r].pc = "idle" /\ client
    /\ req' = [req EXCEPT ![r] = [pc |-> IF proc = "up" THEN "sent" ELSE "error",
                                  op |-> op]]
    /\ queue' = IF proc = "up" THEN Append(queue, r) ELSE queue
    /\ UNCHANGED <<managerVars, proc, stop, dbVars, history>>

(* The caller's context ends; the worker does not hear of it.               *)
RequestGivenUp(r) ==
    /\ req[r].pc = "sent"
    /\ req' = [req EXCEPT ![r].pc = "error"]
    /\ UNCHANGED <<managerVars, proc, stop, queue, dbVars, history>>

ConnectionBreaks(r) ==
    /\ req[r].pc = "sent" /\ proc # "up"
    /\ req' = [req EXCEPT ![r].pc = "error"]
    /\ UNCHANGED <<managerVars, proc, stop, queue, dbVars, history>>

----------------------------------------------------------------------------
(* The IDA thread.                                                         *)

Running(job) == proc = "up" /\ queue # <<>> /\ Head(queue) = job

(* The reply reaches the caller if it still waits.                          *)
Answer(r, result) ==
    /\ queue' = Tail(queue)
    /\ req' = IF req[r].pc = "sent" THEN [req EXCEPT ![r].pc = result] ELSE req

(* _require_open_database: a closed database is opened from its file.       *)
OpenForJob(r) ==
    /\ Running(r) /\ ~db
    /\ db' = TRUE /\ mem' = disk
    /\ UNCHANGED <<managerVars, proc, stop, req, queue, saving, disk, history>>

(* _try_open_with_repair: the files are deleted and made anew.              *)
OpenRepairs(r) ==
    /\ "corrupt" \in Faults /\ Running(r) /\ ~db
    /\ db' = TRUE /\ mem' = {} /\ disk' = {}
    /\ excused' = TRUE
    /\ UNCHANGED <<managerVars, proc, stop, req, queue, saving, closed, late,
                   unkilled>>

OpenFails(r) ==
    /\ "open" \in Faults /\ Running(r) /\ ~db
    /\ Answer(r, "error")
    /\ UNCHANGED <<managerVars, proc, stop, dbVars, history>>

DoWrite(r) ==
    /\ Running(r) /\ db /\ req[r].op = "write"
    /\ mem' = mem \cup {r}
    /\ late' = IF closed THEN late \cup {r} ELSE late
    /\ Answer(r, "ok")
    /\ UNCHANGED <<managerVars, proc, stop, saving, db, disk, closed, unkilled,
                   excused>>

DoRead(r) ==
    /\ Running(r) /\ db /\ req[r].op = "read"
    /\ Answer(r, "ok")
    /\ UNCHANGED <<managerVars, proc, stop, dbVars, history>>

SaveBegins(job) ==
    /\ Running(job) /\ db /\ ~saving
    /\ job \in Requests => req[job].op = "save"
    /\ saving' = TRUE
    /\ UNCHANGED <<managerVars, proc, stop, req, queue, db, mem, disk, history>>

(* save_database: a failure is in the reply, but saveDatabase does not look *)
(* at it and reports a save at time zero.                                   *)
DoSave(r) ==
    /\ Running(r) /\ saving /\ req[r].op = "save"
    /\ saving' = FALSE
    /\ \/ disk' = mem /\ UNCHANGED excused
       \/ "save" \in Faults /\ excused' = TRUE /\ UNCHANGED disk
    /\ Answer(r, "ok")
    /\ UNCHANGED <<managerVars, proc, stop, db, mem, closed, late, unkilled>>

Closed(s) ==
    /\ queue' = Tail(queue)
    /\ stop' = IF stop[s] = "close" THEN [stop EXCEPT ![s] = "kill"] ELSE stop
    /\ closed' = TRUE

(* CloseSession on a closed database has nothing to do.                     *)
CloseNothing(s) ==
    /\ Running(s) /\ ~db
    /\ Closed(s)
    /\ UNCHANGED <<managerVars, proc, req, dbVars, late, unkilled, excused>>

(* A faulty variant: CloseSession is sent without save.                     *)
CloseUnsaved(s) ==
    /\ Running(s) /\ saving
    /\ saving' = FALSE /\ db' = FALSE /\ mem' = {}
    /\ Closed(s)
    /\ UNCHANGED <<managerVars, proc, req, disk, late, unkilled, excused>>

(* close_database(save): a failed save is logged and the database closed    *)
(* all the same, or, after an exception, left open.                         *)
CloseSaved(s) ==
    /\ Running(s) /\ saving
    /\ saving' = FALSE
    /\ \/ disk' = mem /\ db' = FALSE /\ UNCHANGED excused
       \/ "save" \in Faults /\ disk' \in {disk, mem} /\ db' \in BOOLEAN
          /\ excused' = TRUE
    /\ mem' = IF db' THEN mem ELSE {}
    /\ Closed(s)
    /\ UNCHANGED <<managerVars, proc, req, late, unkilled>>

IdaThread ==
    \/ \E r \in Requests : \/ OpenForJob(r) \/ OpenRepairs(r) \/ OpenFails(r)
                           \/ DoWrite(r) \/ DoRead(r) \/ DoSave(r)
    \/ \E s \in Stoppers : CloseNothing(s) \/ CloseSaved(s)
    \/ \E job \in Requests \cup Stoppers : SaveBegins(job)

----------------------------------------------------------------------------

Next ==
    \/ StartStep
    \/ monitorWorker
    \/ WorkerExit \/ ProcessDies \/ ContextKill
    \/ \E s \in Stoppers : Stop(s) \/ StopStep(s)
    \/ \E r \in Requests : \/ \E op \in Ops : Request(r, op)
                           \/ RequestGivenUp(r) \/ ConnectionBreaks(r)
    \/ IdaThread

Spec == Init /\ [][Next]_vars

(* Goroutines, timers and broken connections go on.  Nothing is assumed of  *)
(* the IDA thread, whose job may never end, and of the process's death.     *)
Fairness ==
    /\ WF_vars(monitorWorker)
    /\ \A s \in Stoppers : WF_vars(StopStep(s))
    /\ \A r \in Requests : WF_vars(ConnectionBreaks(r))

FairSpec == Spec /\ Fairness

----------------------------------------------------------------------------

StopPcs == {"idle", "none", "close", "kill", "wait", "forget", "done", "failed"}

TypeOK ==
    /\ start \in {"idle", "wait", "ready", "filed", "failed"}
    /\ proc \in {"none", "up", "killed", "gone"}
    /\ client \in BOOLEAN /\ reaped \in BOOLEAN
    /\ stop \in [Stoppers -> StopPcs]
    /\ req \in [Requests -> [pc : {"idle", "sent", "ok", "error"}, op : Ops]]
    /\ queue \in Seq(Requests \cup Stoppers)
    /\ saving \in BOOLEAN /\ db \in BOOLEAN
    /\ mem \subseteq Requests /\ disk \subseteq Requests
    /\ closed \in BOOLEAN /\ late \subseteq Requests
    /\ unkilled \in BOOLEAN /\ excused \in BOOLEAN

(* The worker is not leaked: a running process is still being launched, or  *)
(* has a client through which it is stopped, unless a kill has failed.      *)
UpReachable ==
    proc = "up" => start \in {"wait", "ready"} \/ client \/ unkilled

(* README: "close_binary | Close session and save database".  A write the   *)
(* caller was told of is in the file once the worker has been stopped,      *)
(* unless it was executed behind the CloseSession, which opens the database *)
(* again, or the process ended by itself, CloseSession had not been         *)
(* answered within its five seconds, the save failed, or a corrupt file was *)
(* deleted.                                                                 *)
Acked == {r \in Requests : req[r].pc = "ok" /\ req[r].op = "write"}
NothingLost ==
    start = "filed" /\ proc \in {"killed", "gone"} /\ ~excused =>
        Acked \ late \subseteq disk

(* The manager, launcher and process together are what the server relies on. *)
Pool == INSTANCE WorkerPool WITH
            Ids     <- {Id},
            clients <- IF client THEN {Id} ELSE {},
            alive   <- IF start = "filed" /\ proc = "up" THEN {Id} ELSE {}
ImplementsPool == Pool!Spec

(* close_binary, the watchdog and the shutdown are not held up by a worker  *)
(* that never finishes a job, and the calls that wait for such a worker are *)
(* released: every Stop ends with nobody waiting, unless the kill fails.    *)
CloseUnblocks ==
    \A s \in Stoppers :
        stop[s] = "close" ~>
            /\ stop[s] \in {"done", "failed"}
            /\ unkilled \/ \A r \in Requests : req[r].pc # "sent"
=============================================================================
