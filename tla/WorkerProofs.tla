---------------------------- MODULE WorkerProofs ----------------------------
(***************************************************************************)
(* Proofs about Worker: its types, that no worker is leaked, that a stopped *)
(* worker has saved what it acknowledged, and that it implements            *)
(* WorkerPool, for any number of requests and of Stop calls.               *)
(***************************************************************************)
EXTENDS Worker, TLAPS

(* A Stop call past its kill has a killed worker, and no Stop call is under *)
(* way before the launch is over.                                           *)
StopInv ==
    /\ proc = "up" => start # "idle"
    /\ proc = "none" => start \in {"idle", "failed"}
    /\ client => start = "filed"
    /\ start # "filed" => queue = <<>> /\ ~db
    /\ start = "filed" /\ proc = "up" => client
    /\ \A s \in Stoppers :
           /\ stop[s] \in {"close", "kill", "wait", "forget", "done", "failed"} =>
                  start = "filed"
           /\ stop[s] \in {"wait", "forget", "done"} => proc # "up"

(* Without an excuse a worker is only killed after a CloseSession, and not  *)
(* at all before its client is filed.                                       *)
CloseInv ==
    /\ start \in {"idle", "wait", "ready"} => ~unkilled
    /\ start \in {"wait", "ready"} /\ ~excused => proc = "up"
    /\ start = "filed" /\ ~excused =>
           /\ proc # "up" => closed
           /\ unkilled => closed
           /\ \A s \in Stoppers : stop[s] \in {"kill", "failed"} => closed

(* Where the acknowledged writes are.                                       *)
DataInv ==
    /\ saving => db
    /\ ~excused /\ db => Acked \ late \subseteq mem
    /\ ~excused /\ (closed \/ ~db) => Acked \ late \subseteq disk

Inv == TypeOK /\ StopInv /\ UpReachable /\ CloseInv /\ DataInv

----------------------------------------------------------------------------
(* Steps that change neither requests nor database files: the data part.    *)

LEMMA DataUnchanged ==
    ASSUME DataInv, UNCHANGED <<req, saving, db, mem, disk, closed, late>>,
           excused => excused'
    PROVE  DataInv'
  BY DEF DataInv, Acked

(* The end of the process, whoever causes it.                               *)

LEMMA EndsTypes ==
    ASSUME TypeOK, NEW p, Ends(p)
    PROVE  /\ queue' \in Seq(Requests \cup Stoppers)
           /\ saving' \in BOOLEAN /\ db' \in BOOLEAN
           /\ mem' \subseteq Requests /\ disk' \subseteq Requests
  <1>1. saving \in BOOLEAN /\ disk \subseteq Requests
    BY DEF TypeOK
  <1>2. disk' = disk \/ disk' = {}
    BY <1>1 DEF Ends
  <1>3. queue' = <<>> /\ saving' = FALSE /\ db' = FALSE /\ mem' = {}
    BY DEF Ends
  <1>4. queue' \in Seq(Requests \cup Stoppers)
    BY <1>3
  <1>5. mem' \subseteq Requests /\ disk' \subseteq Requests
    BY <1>1, <1>2, <1>3
  <1>6. saving' \in BOOLEAN /\ db' \in BOOLEAN
    BY <1>3, Zenon
  <1>. QED BY <1>4, <1>5, <1>6

LEMMA KillTypes ==
    ASSUME TypeOK, Kill
    PROVE  excused' \in BOOLEAN
  BY Zenon DEF TypeOK, Kill

LEMMA LaunchStartInv ==
    ASSUME Inv, LaunchStart
    PROVE  Inv'
  <1>1. TypeOK'
    BY DEF Inv, TypeOK, StopPcs, Ops, LaunchStart, managerVars, dbVars, history
  <1>2. StopInv' /\ UpReachable'
    BY DEF Inv, TypeOK, StopPcs, StopInv, UpReachable, LaunchStart, managerVars, dbVars, history
  <1>3. CloseInv'
    BY DEF Inv, TypeOK, StopPcs, StopInv, CloseInv, LaunchStart, managerVars, dbVars, history
  <1>4. DataInv'
    BY DataUnchanged DEF Inv, LaunchStart, managerVars, dbVars, history
  <1>. QED BY <1>1, <1>2, <1>3, <1>4 DEF Inv

LEMMA LaunchReadyInv ==
    ASSUME Inv, LaunchReady
    PROVE  Inv'
  <1>1. TypeOK'
    BY DEF Inv, TypeOK, StopPcs, Ops, LaunchReady, managerVars, dbVars, history
  <1>2. StopInv' /\ UpReachable'
    BY DEF Inv, TypeOK, StopPcs, StopInv, UpReachable, LaunchReady, managerVars, dbVars, history
  <1>3. CloseInv'
    BY DEF Inv, TypeOK, StopPcs, StopInv, CloseInv, LaunchReady, managerVars, dbVars, history
  <1>4. DataInv'
    BY DataUnchanged DEF Inv, LaunchReady, managerVars, dbVars, history
  <1>. QED BY <1>1, <1>2, <1>3, <1>4 DEF Inv

LEMMA LaunchTimeoutInv ==
    ASSUME Inv, LaunchTimeout
    PROVE  Inv'
  <1>1. TypeOK'
    BY DEF Inv, TypeOK, StopPcs, Ops, LaunchTimeout, managerVars, dbVars, history
  <1>2. StopInv' /\ UpReachable'
    BY DEF Inv, TypeOK, StopPcs, StopInv, UpReachable, LaunchTimeout, managerVars, dbVars, history
  <1>3. CloseInv'
    BY DEF Inv, TypeOK, StopPcs, StopInv, CloseInv, LaunchTimeout, managerVars, dbVars, history
  <1>4. DataInv'
    BY DataUnchanged DEF Inv, LaunchTimeout, managerVars, dbVars, history
  <1>. QED BY <1>1, <1>2, <1>3, <1>4 DEF Inv

LEMMA FileClientInv ==
    ASSUME Inv, FileClient
    PROVE  Inv'
  <1>1. TypeOK'
    BY DEF Inv, TypeOK, StopPcs, Ops, FileClient, managerVars, dbVars, history
  <1>2. StopInv' /\ UpReachable'
    BY DEF Inv, TypeOK, StopPcs, StopInv, UpReachable, FileClient, managerVars, dbVars, history
  <1>3. CloseInv'
    BY DEF Inv, TypeOK, StopPcs, StopInv, CloseInv, FileClient, managerVars, dbVars, history
  <1>4. DataInv'
    BY DataUnchanged DEF Inv, FileClient, managerVars, dbVars, history
  <1>. QED BY <1>1, <1>2, <1>3, <1>4 DEF Inv

LEMMA MonitorWorkerInv ==
    ASSUME Inv, monitorWorker
    PROVE  Inv'
  <1>1. TypeOK'
    BY DEF Inv, TypeOK, StopPcs, Ops, monitorWorker, managerVars, dbVars, history
  <1>2. StopInv' /\ UpReachable'
    BY DEF Inv, TypeOK, StopPcs, StopInv, UpReachable, monitorWorker, managerVars, dbVars, history
  <1>3. CloseInv'
    BY DEF Inv, TypeOK, StopPcs, StopInv, CloseInv, monitorWorker, managerVars, dbVars, history
  <1>4. DataInv'
    BY DataUnchanged DEF Inv, monitorWorker, managerVars, dbVars, history
  <1>. QED BY <1>1, <1>2, <1>3, <1>4 DEF Inv

LEMMA WorkerExitInv ==
    ASSUME Inv, WorkerExit
    PROVE  Inv'
  <1>1. TypeOK'
    <2>1. /\ Ends("gone") /\ proc' = "gone" /\ excused' = TRUE
          /\ UNCHANGED <<managerVars, stop, req, closed, late, unkilled>>
      BY DEF WorkerExit, Ends
    <2>2. TypeOK
      BY DEF Inv
    <2>3. proc' \in {"none", "up", "killed", "gone"} /\ excused' \in BOOLEAN
      BY <2>1, Zenon
    <2>. QED BY <2>1, <2>2, <2>3, EndsTypes, Zenon DEF TypeOK, managerVars
  <1>2. StopInv' /\ UpReachable'
    BY DEF Inv, TypeOK, StopPcs, StopInv, UpReachable, WorkerExit, Ends, managerVars, dbVars, history
  <1>3. CloseInv'
    BY DEF Inv, TypeOK, StopPcs, StopInv, CloseInv, WorkerExit, Ends, managerVars, dbVars, history
  <1>4. DataInv'
    BY DEF Inv, TypeOK, StopInv, CloseInv, DataInv, Acked, WorkerExit, Ends, managerVars, dbVars, history
  <1>. QED BY <1>1, <1>2, <1>3, <1>4 DEF Inv

LEMMA ProcessDiesInv ==
    ASSUME Inv, ProcessDies
    PROVE  Inv'
  <1>1. TypeOK'
    BY DEF Inv, TypeOK, StopPcs, Ops, ProcessDies, managerVars, dbVars, history
  <1>2. StopInv' /\ UpReachable'
    BY DEF Inv, TypeOK, StopPcs, StopInv, UpReachable, ProcessDies, managerVars, dbVars, history
  <1>3. CloseInv'
    BY DEF Inv, TypeOK, StopPcs, StopInv, CloseInv, ProcessDies, managerVars, dbVars, history
  <1>4. DataInv'
    BY DataUnchanged DEF Inv, ProcessDies, managerVars, dbVars, history
  <1>. QED BY <1>1, <1>2, <1>3, <1>4 DEF Inv

LEMMA ContextKillInv ==
    ASSUME Inv, ContextKill
    PROVE  Inv'
  <1>1. TypeOK'
    <2>1. /\ Kill /\ Ends("killed") /\ proc' = "killed"
          /\ UNCHANGED <<managerVars, stop, req, closed, late, unkilled>>
      BY DEF ContextKill, Kill, Ends
    <2>2. TypeOK
      BY DEF Inv
    <2>3. proc' \in {"none", "up", "killed", "gone"}
      BY <2>1, Zenon
    <2>. QED BY <2>1, <2>2, <2>3, EndsTypes, KillTypes, Zenon DEF TypeOK, managerVars
  <1>2. StopInv' /\ UpReachable'
    BY DEF Inv, TypeOK, StopPcs, StopInv, UpReachable, ContextKill, Kill, Ends, managerVars, dbVars, history
  <1>3. CloseInv'
    BY DEF Inv, TypeOK, StopPcs, StopInv, CloseInv, ContextKill, Kill, Ends, managerVars, dbVars, history
  <1>4. DataInv'
    BY DEF Inv, TypeOK, StopInv, CloseInv, DataInv, Acked, ContextKill, Kill, Ends, managerVars, dbVars, history
  <1>. QED BY <1>1, <1>2, <1>3, <1>4 DEF Inv

LEMMA StopCallInv ==
    ASSUME Inv, NEW s \in Stoppers, Stop(s)
    PROVE  Inv'
  <1>1. TypeOK'
    BY DEF Inv, TypeOK, StopPcs, Ops, Stop, StopAt, managerVars, dbVars, history
  <1>2. StopInv' /\ UpReachable'
    BY DEF Inv, TypeOK, StopPcs, StopInv, UpReachable, Stop, StopAt, managerVars, dbVars, history
  <1>3. CloseInv'
    BY DEF Inv, TypeOK, StopPcs, StopInv, CloseInv, Stop, StopAt, managerVars, dbVars, history
  <1>4. DataInv'
    BY DataUnchanged DEF Inv, Stop, StopAt, managerVars, dbVars, history
  <1>. QED BY <1>1, <1>2, <1>3, <1>4 DEF Inv

LEMMA CloseGivenUpInv ==
    ASSUME Inv, NEW s \in Stoppers, CloseGivenUp(s)
    PROVE  Inv'
  <1>1. TypeOK'
    BY DEF Inv, TypeOK, StopPcs, Ops, CloseGivenUp, StopAt, managerVars, dbVars, history
  <1>2. StopInv' /\ UpReachable'
    BY DEF Inv, TypeOK, StopPcs, StopInv, UpReachable, CloseGivenUp, StopAt, managerVars, dbVars, history
  <1>3. CloseInv'
    BY DEF Inv, TypeOK, StopPcs, StopInv, CloseInv, CloseGivenUp, StopAt, managerVars, dbVars, history
  <1>4. DataInv'
    BY DataUnchanged DEF Inv, CloseGivenUp, StopAt, managerVars, dbVars, history
  <1>. QED BY <1>1, <1>2, <1>3, <1>4 DEF Inv

LEMMA StopWorkerInv ==
    ASSUME Inv, NEW s \in Stoppers, stopWorker(s)
    PROVE  Inv'
  <1>1. TypeOK'
    <2>1. TypeOK /\ UNCHANGED <<managerVars, req, closed, late>>
      BY DEF Inv, stopWorker
    <2>2. stop' \in [Stoppers -> StopPcs]
      BY <2>1 DEF TypeOK, stopWorker, StopAt, StopPcs
    <2>3. unkilled' \in BOOLEAN
      BY <2>1, Zenon DEF TypeOK, stopWorker
    <2>4. CASE Kill
      <3>1. Ends("killed") /\ proc' \in {"none", "up", "killed", "gone"}
        BY <2>4, Zenon DEF Kill, Ends
      <3>. QED BY <2>1, <2>2, <2>3, <2>4, <3>1, EndsTypes, KillTypes, Zenon
               DEF TypeOK, managerVars
    <2>5. CASE UNCHANGED <<proc, queue, dbVars, excused>>
      BY <2>1, <2>2, <2>3, <2>5, Zenon DEF TypeOK, managerVars, dbVars
    <2>. QED BY <2>4, <2>5 DEF stopWorker
  <1>2. StopInv' /\ UpReachable'
    BY DEF Inv, TypeOK, StopPcs, StopInv, UpReachable, stopWorker, StopAt, Kill, Ends, managerVars, dbVars, history
  <1>3. CloseInv'
    BY DEF Inv, TypeOK, StopPcs, StopInv, CloseInv, stopWorker, StopAt, Kill, Ends, managerVars, dbVars, history
  <1>4. DataInv'
    BY DEF Inv, TypeOK, StopInv, CloseInv, DataInv, Acked, stopWorker, StopAt, Kill, Ends, managerVars, dbVars, history
  <1>. QED BY <1>1, <1>2, <1>3, <1>4 DEF Inv

LEMMA StopWaitedInv ==
    ASSUME Inv, NEW s \in Stoppers, StopWaited(s)
    PROVE  Inv'
  <1>1. TypeOK'
    BY DEF Inv, TypeOK, StopPcs, Ops, StopWaited, StopAt, managerVars, dbVars, history
  <1>2. StopInv' /\ UpReachable'
    BY DEF Inv, TypeOK, StopPcs, StopInv, UpReachable, StopWaited, StopAt, managerVars, dbVars, history
  <1>3. CloseInv'
    BY DEF Inv, TypeOK, StopPcs, StopInv, CloseInv, StopWaited, StopAt, managerVars, dbVars, history
  <1>4. DataInv'
    BY DataUnchanged DEF Inv, StopWaited, StopAt, managerVars, dbVars, history
  <1>. QED BY <1>1, <1>2, <1>3, <1>4 DEF Inv

LEMMA StopForgetsInv ==
    ASSUME Inv, NEW s \in Stoppers, StopForgets(s)
    PROVE  Inv'
  <1>1. TypeOK'
    BY DEF Inv, TypeOK, StopPcs, Ops, StopForgets, StopAt, managerVars, dbVars, history
  <1>2. StopInv' /\ UpReachable'
    BY DEF Inv, TypeOK, StopPcs, StopInv, UpReachable, StopForgets, StopAt, managerVars, dbVars, history
  <1>3. CloseInv'
    BY DEF Inv, TypeOK, StopPcs, StopInv, CloseInv, StopForgets, StopAt, managerVars, dbVars, history
  <1>4. DataInv'
    BY DataUnchanged DEF Inv, StopForgets, StopAt, managerVars, dbVars, history
  <1>. QED BY <1>1, <1>2, <1>3, <1>4 DEF Inv

LEMMA RequestInv ==
    ASSUME Inv, NEW r \in Requests, NEW op \in Ops, Request(r, op)
    PROVE  Inv'
  <1>1. TypeOK'
    BY DEF Inv, TypeOK, StopPcs, Ops, Request, Ops, managerVars, dbVars, history
  <1>2. StopInv' /\ UpReachable'
    BY DEF Inv, TypeOK, StopPcs, StopInv, UpReachable, Request, Ops, managerVars, dbVars, history
  <1>3. CloseInv'
    BY DEF Inv, TypeOK, StopPcs, StopInv, CloseInv, Request, Ops, managerVars, dbVars, history
  <1>4. DataInv'
    BY DEF Inv, TypeOK, StopInv, CloseInv, DataInv, Acked, Request, Ops, managerVars, dbVars, history
  <1>. QED BY <1>1, <1>2, <1>3, <1>4 DEF Inv

LEMMA RequestGivenUpInv ==
    ASSUME Inv, NEW r \in Requests, RequestGivenUp(r)
    PROVE  Inv'
  <1>1. TypeOK'
    BY DEF Inv, TypeOK, StopPcs, Ops, RequestGivenUp, managerVars, dbVars, history
  <1>2. StopInv' /\ UpReachable'
    BY DEF Inv, TypeOK, StopPcs, StopInv, UpReachable, RequestGivenUp, managerVars, dbVars, history
  <1>3. CloseInv'
    BY DEF Inv, TypeOK, StopPcs, StopInv, CloseInv, RequestGivenUp, managerVars, dbVars, history
  <1>4. DataInv'
    BY DEF Inv, TypeOK, StopInv, CloseInv, DataInv, Acked, RequestGivenUp, managerVars, dbVars, history
  <1>. QED BY <1>1, <1>2, <1>3, <1>4 DEF Inv

LEMMA ConnectionBreaksInv ==
    ASSUME Inv, NEW r \in Requests, ConnectionBreaks(r)
    PROVE  Inv'
  <1>1. TypeOK'
    BY DEF Inv, TypeOK, StopPcs, Ops, ConnectionBreaks, managerVars, dbVars, history
  <1>2. StopInv' /\ UpReachable'
    BY DEF Inv, TypeOK, StopPcs, StopInv, UpReachable, ConnectionBreaks, managerVars, dbVars, history
  <1>3. CloseInv'
    BY DEF Inv, TypeOK, StopPcs, StopInv, CloseInv, ConnectionBreaks, managerVars, dbVars, history
  <1>4. DataInv'
    BY DEF Inv, TypeOK, StopInv, CloseInv, DataInv, Acked, ConnectionBreaks, managerVars, dbVars, history
  <1>. QED BY <1>1, <1>2, <1>3, <1>4 DEF Inv

LEMMA OpenForJobInv ==
    ASSUME Inv, NEW r \in Requests, OpenForJob(r)
    PROVE  Inv'
  <1>1. TypeOK'
    BY DEF Inv, TypeOK, StopPcs, Ops, OpenForJob, Running, managerVars, dbVars, history
  <1>2. StopInv' /\ UpReachable'
    BY DEF Inv, TypeOK, StopPcs, StopInv, UpReachable, OpenForJob, Running, managerVars, dbVars, history
  <1>3. CloseInv'
    BY DEF Inv, TypeOK, StopPcs, StopInv, CloseInv, OpenForJob, Running, managerVars, dbVars, history
  <1>4. DataInv'
    BY DEF Inv, TypeOK, StopInv, CloseInv, DataInv, Acked, OpenForJob, Running, managerVars, dbVars, history
  <1>. QED BY <1>1, <1>2, <1>3, <1>4 DEF Inv

LEMMA OpenRepairsInv ==
    ASSUME Inv, NEW r \in Requests, OpenRepairs(r)
    PROVE  Inv'
  <1>1. TypeOK'
    BY DEF Inv, TypeOK, StopPcs, Ops, OpenRepairs, Running, managerVars, dbVars, history
  <1>2. StopInv' /\ UpReachable'
    BY DEF Inv, TypeOK, StopPcs, StopInv, UpReachable, OpenRepairs, Running, managerVars, dbVars, history
  <1>3. CloseInv'
    BY DEF Inv, TypeOK, StopPcs, StopInv, CloseInv, OpenRepairs, Running, managerVars, dbVars, history
  <1>4. DataInv'
    BY DEF Inv, TypeOK, StopInv, CloseInv, DataInv, Acked, OpenRepairs, Running, managerVars, dbVars, history
  <1>. QED BY <1>1, <1>2, <1>3, <1>4 DEF Inv

LEMMA OpenFailsInv ==
    ASSUME Inv, NEW r \in Requests, OpenFails(r)
    PROVE  Inv'
  <1>1. TypeOK'
    BY DEF Inv, TypeOK, StopPcs, Ops, OpenFails, Running, Answer, managerVars, dbVars, history
  <1>2. StopInv' /\ UpReachable'
    BY DEF Inv, TypeOK, StopPcs, StopInv, UpReachable, OpenFails, Running, Answer, managerVars, dbVars, history
  <1>3. CloseInv'
    BY DEF Inv, TypeOK, StopPcs, StopInv, CloseInv, OpenFails, Running, Answer, managerVars, dbVars, history
  <1>4. DataInv'
    BY DEF Inv, TypeOK, StopInv, CloseInv, DataInv, Acked, OpenFails, Running, Answer, managerVars, dbVars, history
  <1>. QED BY <1>1, <1>2, <1>3, <1>4 DEF Inv

LEMMA DoWriteInv ==
    ASSUME Inv, NEW r \in Requests, DoWrite(r)
    PROVE  Inv'
  <1>1. TypeOK'
    BY DEF Inv, TypeOK, StopPcs, Ops, DoWrite, Running, Answer, managerVars, dbVars, history
  <1>2. StopInv' /\ UpReachable'
    BY DEF Inv, TypeOK, StopPcs, StopInv, UpReachable, DoWrite, Running, Answer, managerVars, dbVars, history
  <1>3. CloseInv'
    BY DEF Inv, TypeOK, StopPcs, StopInv, CloseInv, DoWrite, Running, Answer, managerVars, dbVars, history
  <1>4. DataInv'
    BY DEF Inv, TypeOK, StopInv, CloseInv, DataInv, Acked, DoWrite, Running, Answer, managerVars, dbVars, history
  <1>. QED BY <1>1, <1>2, <1>3, <1>4 DEF Inv

LEMMA DoReadInv ==
    ASSUME Inv, NEW r \in Requests, DoRead(r)
    PROVE  Inv'
  <1>1. TypeOK'
    BY DEF Inv, TypeOK, StopPcs, Ops, DoRead, Running, Answer, managerVars, dbVars, history
  <1>2. StopInv' /\ UpReachable'
    BY DEF Inv, TypeOK, StopPcs, StopInv, UpReachable, DoRead, Running, Answer, managerVars, dbVars, history
  <1>3. CloseInv'
    BY DEF Inv, TypeOK, StopPcs, StopInv, CloseInv, DoRead, Running, Answer, managerVars, dbVars, history
  <1>4. DataInv'
    BY DEF Inv, TypeOK, StopInv, CloseInv, DataInv, Acked, DoRead, Running, Answer, managerVars, dbVars, history
  <1>. QED BY <1>1, <1>2, <1>3, <1>4 DEF Inv

LEMMA DoSaveInv ==
    ASSUME Inv, NEW r \in Requests, DoSave(r)
    PROVE  Inv'
  <1>1. TypeOK'
    <2>1. /\ TypeOK
          /\ UNCHANGED <<managerVars, proc, stop, db, mem, closed, late, unkilled>>
      BY DEF Inv, DoSave
    <2>2. /\ queue' \in Seq(Requests \cup Stoppers)
          /\ req' \in [Requests -> [pc : {"idle", "sent", "ok", "error"}, op : Ops]]
          /\ disk' \subseteq Requests
      BY <2>1 DEF TypeOK, DoSave, Running, Answer
    <2>3. saving' \in BOOLEAN /\ excused' \in BOOLEAN
      BY <2>1, Zenon DEF TypeOK, DoSave
    <2>. QED BY <2>1, <2>2, <2>3, Zenon DEF TypeOK, managerVars
  <1>2. StopInv' /\ UpReachable'
    BY DEF Inv, TypeOK, StopPcs, StopInv, UpReachable, DoSave, Running, Answer, managerVars, dbVars, history
  <1>3. CloseInv'
    BY DEF Inv, TypeOK, StopPcs, StopInv, CloseInv, DoSave, Running, Answer, managerVars, dbVars, history
  <1>4. DataInv'
    BY DEF Inv, TypeOK, StopInv, CloseInv, DataInv, Acked, DoSave, Running, Answer, managerVars, dbVars, history
  <1>. QED BY <1>1, <1>2, <1>3, <1>4 DEF Inv

LEMMA CloseNothingInv ==
    ASSUME Inv, NEW s \in Stoppers, CloseNothing(s)
    PROVE  Inv'
  <1>1. TypeOK'
    BY DEF Inv, TypeOK, StopPcs, Ops, CloseNothing, Running, Closed, managerVars, dbVars, history
  <1>2. StopInv' /\ UpReachable'
    BY DEF Inv, TypeOK, StopPcs, StopInv, UpReachable, CloseNothing, Running, Closed, managerVars, dbVars, history
  <1>3. CloseInv'
    BY DEF Inv, TypeOK, StopPcs, StopInv, CloseInv, CloseNothing, Running, Closed, managerVars, dbVars, history
  <1>4. DataInv'
    BY DEF Inv, TypeOK, StopInv, CloseInv, DataInv, Acked, CloseNothing, Running, Closed, managerVars, dbVars, history
  <1>. QED BY <1>1, <1>2, <1>3, <1>4 DEF Inv

LEMMA CloseSavedInv ==
    ASSUME Inv, NEW s \in Stoppers, CloseSaved(s)
    PROVE  Inv'
  <1>1. TypeOK'
    <2>1. TypeOK /\ UNCHANGED <<managerVars, proc, req, late, unkilled>>
      BY DEF Inv, CloseSaved
    <2>2. /\ queue' \in Seq(Requests \cup Stoppers)
          /\ stop' \in [Stoppers -> StopPcs]
      BY <2>1 DEF TypeOK, CloseSaved, Running, Closed, StopPcs
    <2>3. /\ saving' \in BOOLEAN /\ excused' \in BOOLEAN /\ closed' \in BOOLEAN
          /\ db' \in BOOLEAN
      BY <2>1, Zenon DEF TypeOK, CloseSaved, Closed
    <2>4. (mem' = mem \/ mem' = {}) /\ (disk' = disk \/ disk' = mem)
      BY <2>3 DEF CloseSaved
    <2>5. mem' \subseteq Requests /\ disk' \subseteq Requests
      BY <2>1, <2>4 DEF TypeOK
    <2>. QED BY <2>1, <2>2, <2>3, <2>5, Zenon DEF TypeOK, managerVars
  <1>2. StopInv' /\ UpReachable'
    BY DEF Inv, TypeOK, StopPcs, StopInv, UpReachable, CloseSaved, Running, Closed, managerVars, dbVars, history
  <1>3. CloseInv'
    BY DEF Inv, TypeOK, StopPcs, StopInv, CloseInv, CloseSaved, Running, Closed, managerVars, dbVars, history
  <1>4. DataInv'
    BY DEF Inv, TypeOK, StopInv, CloseInv, DataInv, Acked, CloseSaved, Running, Closed, managerVars, dbVars, history
  <1>. QED BY <1>1, <1>2, <1>3, <1>4 DEF Inv

LEMMA SaveBeginsInv ==
    ASSUME Inv, NEW job \in Requests \cup Stoppers, SaveBegins(job)
    PROVE  Inv'
  <1>1. TypeOK'
    BY DEF Inv, TypeOK, StopPcs, Ops, SaveBegins, Running, managerVars, dbVars, history
  <1>2. StopInv' /\ UpReachable'
    BY DEF Inv, TypeOK, StopPcs, StopInv, UpReachable, SaveBegins, Running, managerVars, dbVars, history
  <1>3. CloseInv'
    BY DEF Inv, TypeOK, StopPcs, StopInv, CloseInv, SaveBegins, Running, managerVars, dbVars, history
  <1>4. DataInv'
    BY DEF Inv, TypeOK, StopInv, CloseInv, DataInv, Acked, SaveBegins, Running, managerVars, dbVars, history
  <1>. QED BY <1>1, <1>2, <1>3, <1>4 DEF Inv

----------------------------------------------------------------------------

LEMMA InitInv == Init => Inv
  <1>. SUFFICES ASSUME Init PROVE Inv
    OBVIOUS
  <1>1. /\ start \in {"idle", "wait", "ready", "filed", "failed"}
        /\ proc \in {"none", "up", "killed", "gone"}
        /\ stop \in [Stoppers -> StopPcs]
        /\ req \in [Requests -> [pc : {"idle", "sent", "ok", "error"}, op : Ops]]
        /\ queue \in Seq(Requests \cup Stoppers)
        /\ mem \subseteq Requests /\ disk \subseteq Requests /\ late \subseteq Requests
    BY DEF Init, StopPcs, Ops
  <1>2. TypeOK
    BY <1>1, Zenon DEF Init, TypeOK
  <1>3. StopInv /\ UpReachable /\ CloseInv /\ DataInv
    BY DEF Init, StopInv, UpReachable, CloseInv, DataInv, Acked
  <1>. QED BY <1>2, <1>3 DEF Inv

LEMMA StutterInv == Inv /\ UNCHANGED vars => Inv'
  BY DEF Inv, TypeOK, StopInv, UpReachable, CloseInv, DataInv, Acked, vars,
         managerVars, dbVars, history

LEMMA NextInv == Inv /\ [Next]_vars => Inv'
  <1>. SUFFICES ASSUME Inv, [Next]_vars PROVE Inv'
    OBVIOUS
  <1>1. CASE StartStep
    BY <1>1, LaunchStartInv, LaunchReadyInv, LaunchTimeoutInv, FileClientInv
       DEF StartStep
  <1>2. CASE monitorWorker \/ WorkerExit \/ ProcessDies \/ ContextKill
    BY <1>2, MonitorWorkerInv, WorkerExitInv, ProcessDiesInv, ContextKillInv
  <1>3. CASE \E s \in Stoppers : Stop(s) \/ StopStep(s)
    BY <1>3, StopCallInv, CloseGivenUpInv, StopWorkerInv, StopWaitedInv, StopForgetsInv
       DEF StopStep
  <1>4. CASE \E r \in Requests : \/ \E op \in Ops : Request(r, op)
                                 \/ RequestGivenUp(r) \/ ConnectionBreaks(r)
    BY <1>4, RequestInv, RequestGivenUpInv, ConnectionBreaksInv
  <1>5. CASE IdaThread
    BY <1>5, OpenForJobInv, OpenRepairsInv, OpenFailsInv, DoWriteInv, DoReadInv,
       DoSaveInv, CloseNothingInv, CloseSavedInv, SaveBeginsInv
       DEF IdaThread
  <1>6. CASE UNCHANGED vars
    BY <1>6, StutterInv
  <1>. QED BY <1>1, <1>2, <1>3, <1>4, <1>5, <1>6 DEF Next

LEMMA AlwaysInv == Spec => []Inv
  BY InitInv, NextInv, PTL DEF Spec

(* Worker's variables keep their types, for any number of requests and      *)
(* Stop calls.                                                              *)
THEOREM TypeCorrect == Spec => []TypeOK
  BY AlwaysInv, PTL DEF Inv

(* No running worker is out of reach of Manager.Stop, unless a kill failed. *)
THEOREM NoLeaks == Spec => []UpReachable
  BY AlwaysInv, PTL DEF Inv

(* A worker that was stopped has in its file every write it acknowledged    *)
(* before the CloseSession, with the exceptions NothingLost names.          *)
THEOREM ClosingSaves == Spec => []NothingLost
  <1>1. Inv => NothingLost
    BY DEF Inv, TypeOK, CloseInv, DataInv, NothingLost
  <1>. QED BY <1>1, AlwaysInv, PTL

----------------------------------------------------------------------------
(* The refinement.  A step files the client, ends a filed worker, forgets   *)
(* the client of one that has ended, or changes neither.                    *)

UpFiled == start = "filed" /\ proc = "up"

LEMMA StepKinds ==
    ASSUME Inv, [Next]_vars
    PROVE  \/ client' /\ ~UpFiled /\ ~client
           \/ client' = client /\ UpFiled /\ ~UpFiled'
           \/ ~client' /\ ~UpFiled /\ ~UpFiled'
           \/ client' = client /\ (UpFiled' <=> UpFiled)
  <1>1. CASE StartStep
    BY <1>1 DEF Inv, StopInv, TypeOK, UpFiled, StartStep, LaunchStart, LaunchReady,
                LaunchTimeout, FileClient
  <1>2. CASE monitorWorker \/ WorkerExit \/ ProcessDies \/ ContextKill
    BY <1>2 DEF monitorWorker, WorkerExit, ProcessDies, ContextKill, Kill, Ends,
                UpFiled, managerVars
  <1>3. CASE \E s \in Stoppers : Stop(s) \/ StopStep(s)
    <2>. PICK s \in Stoppers : Stop(s) \/ StopStep(s)
      BY <1>3
    <2>1. CASE Stop(s) \/ CloseGivenUp(s) \/ StopWaited(s)
      BY <2>1 DEF Stop, CloseGivenUp, StopWaited, UpFiled, managerVars
    <2>2. CASE stopWorker(s)
      BY <2>2 DEF stopWorker, Kill, Ends, UpFiled, managerVars
    <2>3. CASE StopForgets(s)
      BY <2>3 DEF Inv, StopInv, StopForgets, UpFiled
    <2>. QED BY <2>1, <2>2, <2>3 DEF StopStep
  <1>4. CASE \E r \in Requests : \/ \E op \in Ops : Request(r, op)
                                 \/ RequestGivenUp(r) \/ ConnectionBreaks(r)
    BY <1>4 DEF Request, RequestGivenUp, ConnectionBreaks, UpFiled, managerVars
  <1>5. CASE IdaThread
    BY <1>5 DEF IdaThread, OpenForJob, OpenRepairs, OpenFails, DoWrite, DoRead, DoSave,
                CloseNothing, CloseSaved, SaveBegins, UpFiled, managerVars
  <1>6. CASE UNCHANGED vars
    BY <1>6 DEF vars, UpFiled, managerVars
  <1>. QED BY <1>1, <1>2, <1>3, <1>4, <1>5, <1>6 DEF Next

LEMMA StepImplements ==
    ASSUME Inv, [Next]_vars
    PROVE  [Pool!Next]_(Pool!poolVars)
  <1>0. client \in BOOLEAN /\ (UpFiled => client)
    BY DEF Inv, TypeOK, StopInv, UpFiled
  <1>1. CASE client' /\ ~UpFiled /\ ~client
    <2>1. Pool!Enter(Id)
      BY <1>1 DEF Pool!Enter, UpFiled
    <2>. QED BY <2>1 DEF Pool!Next
  <1>2. CASE client' = client /\ UpFiled /\ ~UpFiled'
    <2>1. Pool!Exit(Id)
      BY <1>2 DEF Pool!Exit, UpFiled
    <2>. QED BY <2>1 DEF Pool!Next
  <1>3. CASE ~client' /\ ~UpFiled /\ ~UpFiled'
    <2>1. client => Pool!Forget(Id)
      BY <1>3 DEF Pool!Forget, UpFiled
    <2>2. ~client => UNCHANGED Pool!poolVars
      BY <1>3 DEF Pool!poolVars, UpFiled
    <2>. QED BY <2>1, <2>2 DEF Pool!Next
  <1>4. CASE client' = client /\ (UpFiled' <=> UpFiled)
    BY <1>4 DEF Pool!poolVars, UpFiled
  <1>. QED BY <1>1, <1>2, <1>3, <1>4, StepKinds

(* The launcher, the process, monitorWorker and any number of racing Stop   *)
(* calls implement the pool the rest of the server relies on: a client is   *)
(* only ever forgotten once its worker has been killed or has ended.        *)
THEOREM Implements == Spec => ImplementsPool
  <1>1. Init => Pool!Init
    BY DEF Init, Pool!Init
  <1>2. Inv /\ [Next]_vars => [Pool!Next]_(Pool!poolVars)
    BY StepImplements
  <1>. QED BY <1>1, <1>2, AlwaysInv, PTL DEF Spec, ImplementsPool, Pool!Spec
=============================================================================
