-------------------------- MODULE ReadinessProofs ---------------------------
(* Theorems about the analysis guard of a session, its progress stage and   *)
(* gate, its database and its close, for every number of run_auto_analysis  *)
(* calls, waiting and listing calls, and every combination of faults.       *)
EXTENDS Readiness, SequenceTheorems, TLAPS

(* The part of the types the guard rests on.                                *)
GuardTypes ==
    /\ pc \in [Actors -> PcLabels]
    /\ active \in BOOLEAN /\ auto \in BOOLEAN

(* Inductive: who is in a pass holds the guard, and only one can.           *)
GuardInv == GuardTypes /\ OnePass /\ GuardHeld

(* A step that moves nobody into or out of a pass and keeps the guard.      *)
LEMMA SamePasses ==
  ASSUME GuardInv, GuardTypes', UNCHANGED active,
         \A x \in Actors : InPass(x)' <=> InPass(x)
  PROVE  GuardInv'
  BY DEF GuardInv, OnePass, GuardHeld

(* The guard is taken: nobody was in a pass, and x enters one.              *)
LEMMA TakeGuard ==
  ASSUME GuardInv, GuardTypes', ~active, active', NEW x \in Actors, InPass(x)',
         \A y \in Actors \ {x} : InPass(y)' <=> InPass(y)
  PROVE  GuardInv'
  <1>1. \A y \in Actors : ~InPass(y)
    BY DEF GuardInv, GuardHeld
  <1>2. \A y \in Actors : InPass(y)' <=> y = x
    BY <1>1
  <1> QED BY <1>2 DEF GuardInv, OnePass, GuardHeld

(* The guard is released by the one that held it.                           *)
LEMMA ReleaseGuard ==
  ASSUME GuardInv, GuardTypes', ~active', NEW x \in Actors, InPass(x), ~InPass(x)',
         \A y \in Actors \ {x} : InPass(y)' <=> InPass(y)
  PROVE  GuardInv'
  <1>1. \A y \in Actors : InPass(y) => y = x
    BY DEF GuardInv, OnePass
  <1>2. \A y \in Actors : ~InPass(y)'
    BY <1>1
  <1> QED BY <1>2 DEF GuardInv, OnePass, GuardHeld

(* Moving one goroutine x to label l.                                       *)
LEMMA GotoPasses ==
  ASSUME GuardTypes, NEW x \in Actors, NEW l \in PcLabels, Goto(x, l)
  PROVE  /\ pc' \in [Actors -> PcLabels]
         /\ pc'[x] = l
         /\ \A y \in Actors \ {x} : InPass(y)' <=> InPass(y)
  BY DEF GuardTypes, Goto, InPass

LEMMA InitGuard == Init => GuardInv
  <1> SUFFICES ASSUME Init
               PROVE  GuardInv
    OBVIOUS
  <1>1. GuardTypes
    <2>1. auto \in BOOLEAN
      BY DEF Init
    <2>2. active \in BOOLEAN
      BY DEF Init
    <2>3. pc \in [Actors -> PcLabels]
      BY DEF Init, PcLabels
    <2> QED BY <2>1, <2>2, <2>3 DEF GuardTypes
  <1>2. \A x \in Actors : ~InPass(x)
    BY DEF Init, InPass
  <1>3. ~active
    BY DEF Init
  <1> QED BY <1>1, <1>2, <1>3 DEF GuardInv, OnePass, GuardHeld

(* Steps of one goroutine that stay outside, or inside, a pass.             *)
LEMMA MoveGuard ==
  ASSUME GuardInv, NEW x \in Actors, NEW l \in PcLabels, Goto(x, l),
         UNCHANGED <<active, auto>>,
         pc[x] \in {"analyze", "plan", "planned", "unclaim", "result"}
             <=> l \in {"analyze", "plan", "planned", "unclaim", "result"}
  PROVE  GuardInv'
  <1>1. GuardTypes
    BY DEF GuardInv
  <1>2. GuardTypes'
    BY <1>1, GotoPasses DEF GuardTypes
  <1>3. InPass(x)' <=> InPass(x)
    BY <1>1, GotoPasses DEF InPass
  <1>4. \A y \in Actors : InPass(y)' <=> InPass(y)
    BY <1>1, <1>3, GotoPasses
  <1> QED BY <1>2, <1>4, SamePasses

LEMMA JoinGuard ==
  ASSUME GuardInv, NEW x \in Actors, Join(x)
  PROVE  GuardInv'
  <1>1. AfterCall(x) \in PcLabels
    BY DEF AfterCall, PcLabels
  <1>2. pc[x] = "planned" <=> AfterCall(x) \in {"unclaim", "result"}
    BY DEF AfterCall, Join
  <1>3. AfterCall(x) \in {"claim", "fail", "unclaim", "result"}
    BY DEF AfterCall
  <1> QED BY <1>1, <1>2, <1>3, MoveGuard DEF Join

LEMMA BeginAnalysisGuard ==
  ASSUME GuardInv, NEW x \in Actors, BeginAnalysis(x)
  PROVE  GuardInv'
  <1>1. Goto(x, "plan") \/ Goto(x, "planned")
    BY DEF BeginAnalysis, withHeartbeat, Submit
  <1>2. pc[x] = "analyze" /\ UNCHANGED <<active, auto>>
    BY DEF BeginAnalysis
  <1> QED BY <1>1, <1>2, MoveGuard DEF PcLabels

LEMMA EndAnalysisGuard ==
  ASSUME GuardInv, NEW x \in Actors, EndAnalysis(x)
  PROVE  GuardInv'
  <1>1. PICK l \in {"warm", "done"} : Goto(x, l)
    BY DEF EndAnalysis
  <1>2. pc[x] = "unclaim" /\ ~active' /\ auto' = auto
    BY DEF EndAnalysis
  <1>3. GuardTypes
    BY DEF GuardInv
  <1>4. /\ pc' \in [Actors -> PcLabels] /\ pc'[x] = l
        /\ \A y \in Actors \ {x} : InPass(y)' <=> InPass(y)
    BY <1>1, <1>3, GotoPasses DEF PcLabels
  <1>5. active' \in BOOLEAN
    BY DEF EndAnalysis
  <1>6. GuardTypes'
    BY <1>2, <1>3, <1>4, <1>5 DEF GuardTypes
  <1>7. InPass(x) /\ ~InPass(x)'
    BY <1>1, <1>2, <1>4 DEF InPass
  <1> QED BY <1>2, <1>4, <1>6, <1>7, ReleaseGuard

LEMMA ClaimGuard ==
  ASSUME GuardInv, OpenClaim
  PROVE  GuardInv'
  <1>1. Opener \in Actors
    BY DEF Actors
  <1>2. pc[Opener] = "claim" /\ auto' = auto /\ active' = (active \/ auto)
    BY DEF OpenClaim
  <1>3. GuardTypes
    BY DEF GuardInv
  <1>4. CASE auto /\ ~active
    <2>1. Goto(Opener, "analyze")
      BY <1>4 DEF OpenClaim
    <2>2. /\ pc' \in [Actors -> PcLabels] /\ pc'[Opener] = "analyze"
          /\ \A y \in Actors \ {Opener} : InPass(y)' <=> InPass(y)
      BY <1>1, <1>3, <2>1, GotoPasses DEF PcLabels
    <2>3. active' /\ active' \in BOOLEAN
      BY <1>2, <1>4
    <2>4. GuardTypes'
      BY <1>2, <1>3, <2>2, <2>3 DEF GuardTypes
    <2>5. InPass(Opener)'
      BY <2>2 DEF InPass
    <2> QED BY <1>1, <1>4, <2>2, <2>3, <2>4, <2>5, TakeGuard
  <1>5. CASE ~auto \/ active
    <2>1. active' = active
      BY <1>2, <1>3, <1>5 DEF GuardTypes
    <2>2. Goto(Opener, "ready") \/ Goto(Opener, "warm")
      BY <1>5 DEF OpenClaim
    <2> QED BY <1>1, <1>2, <2>1, <2>2, MoveGuard DEF PcLabels
  <1> QED BY <1>4, <1>5

LEMMA RunGuard ==
  ASSUME GuardInv, NEW a \in Analyzers, RunAutoAnalysis(a)
  PROVE  GuardInv'
  <1>1. a \in Actors
    BY DEF Actors
  <1>2. Goto(a, "analyze") /\ ~active /\ active' = TRUE /\ auto' = auto
    BY DEF RunAutoAnalysis
  <1>3. GuardTypes
    BY DEF GuardInv
  <1>4. /\ pc' \in [Actors -> PcLabels] /\ pc'[a] = "analyze"
        /\ \A y \in Actors \ {a} : InPass(y)' <=> InPass(y)
    BY <1>1, <1>2, <1>3, GotoPasses DEF PcLabels
  <1>5. GuardTypes'
    BY <1>2, <1>3, <1>4 DEF GuardTypes
  <1>6. InPass(a)'
    BY <1>4 DEF InPass
  <1> QED BY <1>1, <1>2, <1>4, <1>5, <1>6, TakeGuard

(* A worker call returns, or all of them do: inside a pass it stays inside. *)
LEMMA UnblockedPass ==
  ASSUME NEW l \in PcLabels
  PROVE  /\ Unblocked(l) \in PcLabels
         /\ l \in {"analyze", "plan", "planned", "unclaim", "result"}
               <=> Unblocked(l) \in {"analyze", "plan", "planned", "unclaim", "result"}
  BY DEF Unblocked, PcLabels

LEMMA WorkerGuard ==
  ASSUME GuardInv, IdaFinish \/ WorkerExit \/ CloseStop
  PROVE  GuardInv'
  <1>1. GuardTypes
    BY DEF GuardInv
  <1>2. UNCHANGED <<active, auto>>
    BY DEF IdaFinish, WorkerExit, CloseStop
  <1>3. CASE IdaFinish
    <2>1. PICK who : pc' = [pc EXCEPT ![who] = Unblocked(pc[who])]
      BY <1>3 DEF IdaFinish, Goto
    <2>2. \A x \in Actors : pc'[x] \in {pc[x], Unblocked(pc[x])}
      BY <1>1, <2>1 DEF GuardTypes
    <2>3. pc' \in [Actors -> PcLabels]
      BY <1>1, <2>1, <2>2, UnblockedPass DEF GuardTypes
    <2>4. \A x \in Actors : InPass(x)' <=> InPass(x)
      BY <1>1, <2>2, UnblockedPass DEF GuardTypes, InPass
    <2>5. GuardTypes'
      BY <1>1, <1>2, <2>3 DEF GuardTypes
    <2> QED BY <1>2, <2>4, <2>5, SamePasses
  <1>4. CASE Die
    <2>1. pc' = [x \in Actors |-> Unblocked(pc[x])]
      BY <1>4 DEF Die
    <2>2. pc' \in [Actors -> PcLabels]
      BY <1>1, <2>1, UnblockedPass DEF GuardTypes
    <2>3. \A x \in Actors : InPass(x)' <=> InPass(x)
      BY <1>1, <2>1, UnblockedPass DEF GuardTypes, InPass
    <2>4. GuardTypes'
      BY <1>1, <1>2, <2>2 DEF GuardTypes
    <2> QED BY <1>2, <2>3, <2>4, SamePasses
  <1>5. CASE CloseStop /\ dead
    BY <1>2, <1>5 DEF CloseStop, GuardInv, GuardTypes, OnePass, GuardHeld, InPass
  <1> QED BY <1>3, <1>4, <1>5 DEF WorkerExit, CloseStop

LEMMA OpenerGuard ==
  ASSUME GuardInv, OpenerStep
  PROVE  GuardInv'
  <1>1. Opener \in Actors
    BY DEF Actors
  <1>2. CASE RecordOpening
    BY <1>1, <1>2, MoveGuard DEF RecordOpening, PcLabels
  <1>3. CASE BeginOpen
    <2>1. Goto(Opener, "open") \/ Goto(Opener, "opened")
      BY <1>3 DEF BeginOpen, withHeartbeat, Submit
    <2> QED BY <1>1, <1>3, <2>1, MoveGuard DEF BeginOpen, PcLabels
  <1>4. CASE FailOpen
    BY <1>1, <1>4, MoveGuard DEF FailOpen, PcLabels
  <1>5. CASE WarmCache
    <2>1. Goto(Opener, "warming") \/ Goto(Opener, "ready")
      BY <1>5 DEF WarmCache, Submit
    <2> QED BY <1>1, <1>5, <2>1, MoveGuard DEF WarmCache, PcLabels
  <1>6. CASE WarmSkipped
    BY <1>1, <1>6, MoveGuard DEF WarmSkipped, PcLabels
  <1>7. CASE RecordReady
    BY <1>1, <1>7, MoveGuard DEF RecordReady, PcLabels
  <1>8. CASE WarmClient
    BY <1>1, <1>8, MoveGuard DEF WarmClient, PcLabels
  <1> QED BY <1>1, <1>2, <1>3, <1>4, <1>5, <1>6, <1>7, <1>8, ClaimGuard, JoinGuard,
             BeginAnalysisGuard, EndAnalysisGuard DEF OpenerStep

LEMMA AnalyzerGuard ==
  ASSUME GuardInv, NEW a \in Analyzers,
         RunAutoAnalysis(a) \/ AlreadyRunning(a) \/ AnalyzerStep(a)
  PROVE  GuardInv'
  <1>1. a \in Actors
    BY DEF Actors
  <1>2. CASE AlreadyRunning(a)
    BY <1>1, <1>2, MoveGuard DEF AlreadyRunning, PcLabels
  <1>3. CASE RecordResult(a)
    BY <1>1, <1>3, MoveGuard DEF RecordResult, PcLabels
  <1> QED BY <1>1, <1>2, <1>3, RunGuard, JoinGuard, BeginAnalysisGuard,
             EndAnalysisGuard DEF AnalyzerStep

LEMMA StepGuard == GuardInv /\ [Next]_vars => GuardInv'
  <1> SUFFICES ASSUME GuardInv, [Next]_vars
               PROVE  GuardInv'
    OBVIOUS
  <1>1. ASSUME UNCHANGED <<pc, active, auto>>
        PROVE  GuardInv'
    BY <1>1 DEF GuardInv, GuardTypes, OnePass, GuardHeld, InPass
  <1>2. CASE UNCHANGED vars
    BY <1>1, <1>2 DEF vars, goVars
  <1>3. CASE \E x \in Actors : Heartbeat(x)
    BY <1>1, <1>3 DEF Heartbeat, goVars
  <1>4. CASE \E w \in Waiters : WaitStart(w) \/ WaitStep(w) \/ WaitCancel(w)
    BY <1>1, <1>4 DEF WaitStart, WaitStep, WaitCancel, WaitCheck, WaitRead, WaitEmit,
                      WaitTick, goVars
  <1>5. CASE WatchStart \/ WatchStep \/ WatchTimeout
    BY <1>1, <1>5 DEF WatchStart, WatchStep, WatchTimeout, WatchInfo, WatchEmit,
                      WatchTick, WatchFinal, goVars
  <1>6. CASE \E l \in Listers : ListStart(l) \/ ListFetch(l) \/ ListDone(l)
    BY <1>1, <1>6 DEF ListStart, ListFetch, ListDone, goVars
  <1>7. CASE CloseUncache \/ clearProgress
    BY <1>1, <1>7 DEF CloseUncache, clearProgress, goVars
  <1> QED BY <1>2, <1>3, <1>4, <1>5, <1>6, <1>7, OpenerGuard, AnalyzerGuard,
             WorkerGuard DEF Next, CloseStep

(* However many run_auto_analysis calls race open_binary's own analysis,    *)
(* and whatever the worker does to them, at most one pass is under way.     *)
THEOREM ReadinessOnePass == Spec => []OnePass
  <1>1. GuardInv => OnePass
    BY DEF GuardInv
  <1> QED BY <1>1, InitGuard, StepGuard, PTL DEF Spec

(* The guard is never lost while a pass runs and never leaked after it:     *)
(* run_auto_analysis is refused exactly while a pass is under way.          *)
THEOREM ReadinessGuardHeld == Spec => []GuardHeld
  <1>1. GuardInv => GuardHeld
    BY DEF GuardInv
  <1> QED BY <1>1, InitGuard, StepGuard, PTL DEF Spec

----------------------------------------------------------------------------
(* Types, part by part.                                                     *)

Jobs == [who : Actors, op : {"open", "plan", "read"}]

StageType   == stage \in Stages
GoTypes     == pc \in [Actors -> PcLabels] /\ ok \in [Actors -> BOOLEAN]
BeatType    == beating \subseteq Actors
QueueType   == queue \in Seq(Jobs)
WorkerTypes == db \in BOOLEAN /\ dead \in BOOLEAN
GuardFlags  == active \in BOOLEAN /\ auto \in BOOLEAN
HistoryType == disturbed \in BOOLEAN /\ overtaken \in BOOLEAN
LifeTypes   == life \in {"open", "stopped", "uncached", "closed"} /\ cached \in BOOLEAN
WaitType    == wait \in [Waiters -> [pc : {"idle", "check", "read", "emit", "sleep",
                                          "done", "cancelled"}, seen : Stages]]
WatchType   == watch \in [pc : {"idle", "info", "emit", "sleep", "final", "done"},
                          running : BOOLEAN]
ListType    == list \in [Listers -> {"idle", "cache", "fetch", "done"}]
ClientTypes == WaitType /\ WatchType /\ ListType

LEMMA TypeParts ==
  TypeOK <=> /\ StageType /\ GoTypes /\ BeatType /\ QueueType /\ WorkerTypes
             /\ GuardFlags /\ HistoryType /\ LifeTypes /\ ClientTypes
  BY DEF TypeOK, StageType, GoTypes, BeatType, QueueType, Jobs, WorkerTypes, GuardFlags,
         HistoryType, LifeTypes, ClientTypes, WaitType, WatchType, ListType

LEMMA NextParts ==
  StageType' /\ GoTypes' /\ BeatType' /\ QueueType' /\ WorkerTypes' /\ GuardFlags'
    /\ HistoryType' /\ LifeTypes' /\ ClientTypes' => TypeOK'
  BY DEF TypeOK, StageType, GoTypes, BeatType, QueueType, Jobs, WorkerTypes, GuardFlags,
         HistoryType, LifeTypes, ClientTypes, WaitType, WatchType, ListType

(* A part whose variables stay keeps its type.                              *)
LEMMA KeptTypes ==
  /\ StageType /\ UNCHANGED stage => StageType'
  /\ GoTypes /\ UNCHANGED <<pc, ok>> => GoTypes'
  /\ BeatType /\ UNCHANGED beating => BeatType'
  /\ QueueType /\ UNCHANGED queue => QueueType'
  /\ WorkerTypes /\ UNCHANGED <<db, dead>> => WorkerTypes'
  /\ GuardFlags /\ UNCHANGED <<active, auto>> => GuardFlags'
  /\ HistoryType /\ UNCHANGED <<disturbed, overtaken>> => HistoryType'
  /\ LifeTypes /\ UNCHANGED <<life, cached>> => LifeTypes'
  /\ WaitType /\ UNCHANGED wait => WaitType'
  /\ WatchType /\ UNCHANGED watch => WatchType'
  /\ ListType /\ UNCHANGED list => ListType'
  BY DEF StageType, GoTypes, BeatType, QueueType, WorkerTypes, GuardFlags, HistoryType,
         LifeTypes, WaitType, WatchType, ListType

LEMMA InitTypes == Init => TypeOK
  <1> SUFFICES ASSUME Init
               PROVE  TypeOK
    OBVIOUS
  <1>1. GuardFlags
    BY DEF Init, GuardFlags
  <1>2. QueueType
    BY DEF Init, QueueType
  <1>3. GoTypes
    BY DEF Init, PcLabels, GoTypes
  <1>4. StageType /\ BeatType /\ WorkerTypes /\ HistoryType /\ LifeTypes
    BY DEF Init, StageType, Stages, inProgressStages, BeatType, WorkerTypes, HistoryType,
           LifeTypes
  <1>5. ClientTypes
    BY DEF Init, ClientTypes, WaitType, WatchType, ListType, Stages, inProgressStages
  <1> QED BY <1>1, <1>2, <1>3, <1>4, <1>5, TypeParts

LEMMA GotoType ==
  ASSUME GoTypes, NEW x \in Actors, NEW l \in PcLabels, Goto(x, l), UNCHANGED ok
  PROVE  GoTypes'
  BY DEF GoTypes, Goto

LEMMA SubmitTypes ==
  ASSUME GoTypes, QueueType, NEW x \in Actors, NEW op \in {"open", "plan", "read"},
         NEW w \in PcLabels, NEW r \in PcLabels, Submit(x, op, w, r)
  PROVE  GoTypes' /\ QueueType'
  <1>1. [who |-> x, op |-> op] \in Jobs
    BY DEF Jobs
  <1>2. QueueType'
    BY <1>1, AppendProperties DEF Submit, QueueType
  <1> QED BY <1>2 DEF GoTypes, Submit, Goto

LEMMA UnblockedType == \A l \in PcLabels : Unblocked(l) \in PcLabels
  BY DEF Unblocked, PcLabels

(* The steps a goroutine of either kind takes.                              *)
LEMMA PassTypes ==
  ASSUME TypeOK, NEW x \in Actors, Join(x) \/ BeginAnalysis(x) \/ EndAnalysis(x)
  PROVE  TypeOK'
  <1>1. CASE Join(x)
    <2>1. AfterCall(x) \in PcLabels
      BY DEF AfterCall, PcLabels
    <2>2. GoTypes'
      BY <1>1, <2>1, TypeParts, GotoType DEF Join
    <2>3. BeatType'
      BY <1>1, TypeParts DEF Join, BeatType
    <2> QED BY <1>1, <2>2, <2>3, TypeParts, NextParts, KeptTypes
            DEF Join, workerVars, otherVars, sessVars, ClientTypes
  <1>2. CASE BeginAnalysis(x)
    <2>1. GoTypes' /\ QueueType'
      BY <1>2, TypeParts, SubmitTypes DEF BeginAnalysis, withHeartbeat, PcLabels
    <2>2. StageType' /\ BeatType'
      BY <1>2, TypeParts DEF BeginAnalysis, withHeartbeat, recordProgress, StageType,
                             BeatType, Stages, inProgressStages
    <2> QED BY <1>2, <2>1, <2>2, TypeParts, NextParts, KeptTypes
            DEF BeginAnalysis, otherVars, sessVars, ClientTypes
  <1>3. CASE EndAnalysis(x)
    <2>1. GoTypes'
      BY <1>3, TypeParts, GotoType DEF EndAnalysis, PcLabels
    <2>2. GuardFlags'
      BY <1>3, TypeParts DEF EndAnalysis, GuardFlags
    <2> QED BY <1>3, <2>1, <2>2, TypeParts, NextParts, KeptTypes
            DEF EndAnalysis, workerVars, otherVars, sessVars, ClientTypes
  <1> QED BY <1>1, <1>2, <1>3

LEMMA OpenerTypes ==
  ASSUME TypeOK, OpenerStep
  PROVE  TypeOK'
  <1> USE DEF goVars, workerVars, sessVars, otherVars
  <1>1. Opener \in Actors
    BY DEF Actors
  <1>2. CASE RecordOpening \/ FailOpen \/ WarmClient \/ WarmSkipped \/ RecordReady
    <2>1. PICK l \in PcLabels : Goto(Opener, l)
      BY <1>2 DEF RecordOpening, FailOpen, WarmClient, WarmSkipped, RecordReady, PcLabels
    <2>2. UNCHANGED <<active, ok, beating, auto, workerVars, otherVars>>
      BY <1>2 DEF RecordOpening, FailOpen, WarmClient, WarmSkipped, RecordReady
    <2>3. stage' \in {stage, "opening", "failed", "ready"}
      BY <1>2 DEF RecordOpening, FailOpen, WarmClient, WarmSkipped, RecordReady,
                  recordProgress
    <2>4. GoTypes'
      BY <1>1, <2>1, <2>2, TypeParts, GotoType
    <2>5. StageType'
      BY <2>3, TypeParts DEF StageType, Stages, inProgressStages
    <2> QED BY <2>2, <2>4, <2>5, TypeParts, NextParts, KeptTypes DEF ClientTypes
  <1>3. CASE BeginOpen
    <2>1. GoTypes' /\ QueueType'
      BY <1>1, <1>3, TypeParts, SubmitTypes DEF BeginOpen, withHeartbeat, PcLabels
    <2>2. StageType' /\ BeatType'
      BY <1>1, <1>3, TypeParts DEF BeginOpen, withHeartbeat, recordProgress, StageType,
                                   BeatType, Stages, inProgressStages
    <2> QED BY <1>3, <2>1, <2>2, TypeParts, NextParts, KeptTypes DEF BeginOpen, ClientTypes
  <1>4. CASE OpenClaim
    <2>1. PICK l \in PcLabels : Goto(Opener, l)
      BY <1>4 DEF OpenClaim, PcLabels
    <2>2. UNCHANGED <<stage, ok, beating, auto, workerVars, otherVars>>
      BY <1>4 DEF OpenClaim
    <2>3. GuardFlags'
      BY <1>4, TypeParts DEF OpenClaim, GuardFlags
    <2>4. GoTypes'
      BY <1>1, <2>1, <2>2, TypeParts, GotoType
    <2> QED BY <2>2, <2>3, <2>4, TypeParts, NextParts, KeptTypes DEF ClientTypes
  <1>5. CASE WarmCache
    <2>1. GoTypes' /\ QueueType'
      BY <1>1, <1>5, TypeParts, SubmitTypes DEF WarmCache, PcLabels
    <2>2. StageType' /\ LifeTypes'
      BY <1>5, TypeParts DEF WarmCache, recordProgress, StageType, LifeTypes, Stages,
                             inProgressStages
    <2> QED BY <1>5, <2>1, <2>2, TypeParts, NextParts, KeptTypes DEF WarmCache, ClientTypes
  <1> QED BY <1>1, <1>2, <1>3, <1>4, <1>5, PassTypes DEF OpenerStep

LEMMA AnalyzerTypes ==
  ASSUME TypeOK, NEW a \in Analyzers,
         RunAutoAnalysis(a) \/ AlreadyRunning(a) \/ AnalyzerStep(a)
  PROVE  TypeOK'
  <1> USE DEF goVars, workerVars, sessVars, otherVars
  <1>1. a \in Actors
    BY DEF Actors
  <1>2. CASE RunAutoAnalysis(a)
    <2>1. GoTypes'
      BY <1>1, <1>2, TypeParts, GotoType DEF RunAutoAnalysis, PcLabels
    <2>2. GuardFlags' /\ HistoryType'
      BY <1>2, TypeParts DEF RunAutoAnalysis, GuardFlags, HistoryType
    <2> QED BY <1>2, <2>1, <2>2, TypeParts, NextParts, KeptTypes DEF RunAutoAnalysis, ClientTypes
  <1>3. CASE AlreadyRunning(a)
    <2>1. GoTypes'
      BY <1>1, <1>3, TypeParts, GotoType DEF AlreadyRunning, PcLabels
    <2> QED BY <1>3, <2>1, TypeParts, NextParts, KeptTypes DEF AlreadyRunning, ClientTypes
  <1>4. CASE RecordResult(a)
    <2>1. GoTypes'
      BY <1>1, <1>4, TypeParts, GotoType DEF RecordResult, PcLabels
    <2>2. StageType' /\ LifeTypes'
      BY <1>4, TypeParts DEF RecordResult, recordProgress, StageType, LifeTypes, Stages,
                             inProgressStages
    <2> QED BY <1>4, <2>1, <2>2, TypeParts, NextParts, KeptTypes DEF RecordResult, ClientTypes
  <1> QED BY <1>1, <1>2, <1>3, <1>4, PassTypes DEF AnalyzerStep

LEMMA DieTypes ==
  ASSUME GoTypes, Die
  PROVE  GoTypes' /\ QueueType' /\ WorkerTypes'
  <1>1. QueueType'
    BY DEF Die, QueueType
  <1> QED BY <1>1, UnblockedType DEF Die, GoTypes, WorkerTypes

LEMMA HeadJob ==
  ASSUME QueueType, queue # <<>>
  PROVE  Head(queue).who \in Actors /\ Tail(queue) \in Seq(Jobs)
  <1>1. Head(queue) \in Jobs /\ Tail(queue) \in Seq(Jobs)
    BY HeadTailProperties DEF QueueType
  <1> QED BY <1>1 DEF Jobs

LEMMA IdaTypes ==
  ASSUME TypeOK, IdaFinish \/ WorkerExit \/ CloseStop
  PROVE  TypeOK'
  <1> USE DEF goVars, workerVars, sessVars, otherVars
  <1>1. CASE IdaFinish
    <2>1. Head(queue).who \in Actors /\ QueueType'
      BY <1>1, TypeParts, HeadJob DEF IdaFinish, QueueType
    <2>2. GoTypes'
      BY <1>1, <2>1, TypeParts, UnblockedType DEF IdaFinish, Goto, GoTypes
    <2>3. WorkerTypes'
      BY <1>1, TypeParts DEF IdaFinish, WorkerTypes
    <2> QED BY <1>1, <2>1, <2>2, <2>3, TypeParts, NextParts, KeptTypes DEF IdaFinish, ClientTypes
  <1>2. CASE WorkerExit
    BY <1>2, TypeParts, NextParts, KeptTypes, DieTypes DEF WorkerExit, ClientTypes
  <1>3. CASE CloseStop
    <2>1. HistoryType' /\ LifeTypes'
      BY <1>3, TypeParts DEF CloseStop, AtWork, HistoryType, LifeTypes
    <2>2. GoTypes' /\ QueueType' /\ WorkerTypes'
      BY <1>3, TypeParts, NextParts, KeptTypes, DieTypes DEF CloseStop
    <2> QED BY <1>3, <2>1, <2>2, TypeParts, NextParts, KeptTypes DEF CloseStop, ClientTypes
  <1> QED BY <1>1, <1>2, <1>3

LEMMA WaitTypes ==
  ASSUME TypeOK, NEW w \in Waiters, WaitStart(w) \/ WaitStep(w) \/ WaitCancel(w)
  PROVE  TypeOK'
  <1> USE DEF goVars, workerVars, sessVars, otherVars
  <1>1. CASE WaitStart(w) \/ WaitCheck(w) \/ WaitTick(w) \/ WaitCancel(w)
    <2>1. WaitType'
      BY <1>1, TypeParts DEF WaitStart, WaitCheck, WaitTick, WaitCancel, WaitFor,
                             ClientTypes, WaitType
    <2> QED BY <1>1, <2>1, TypeParts, NextParts, KeptTypes
            DEF WaitStart, WaitCheck, WaitTick, WaitCancel, ClientTypes
  <1>2. CASE WaitRead(w)
    <2>1. WaitType'
      BY <1>2, TypeParts DEF WaitRead, ClientTypes, WaitType, StageType
    <2> QED BY <1>2, <2>1, TypeParts, NextParts, KeptTypes DEF WaitRead, ClientTypes
  <1>3. CASE WaitEmit(w)
    <2>1. WaitType' /\ StageType' /\ HistoryType'
      BY <1>3, TypeParts DEF WaitEmit, WaitFor, recordProgress, ClientTypes, WaitType,
                             StageType, HistoryType
    <2> QED BY <1>3, <2>1, TypeParts, NextParts, KeptTypes DEF WaitEmit, ClientTypes
  <1> QED BY <1>1, <1>2, <1>3 DEF WaitStep

LEMMA WatchTypes ==
  ASSUME TypeOK, WatchStart \/ WatchStep \/ WatchTimeout
  PROVE  TypeOK'
  <1> USE DEF goVars, workerVars, sessVars, otherVars
  <1>1. CASE WatchStart \/ WatchTick \/ WatchTimeout
    <2>1. WatchType'
      BY <1>1, TypeParts DEF WatchStart, WatchTick, WatchTimeout, ClientTypes, WatchType
    <2> QED BY <1>1, <2>1, TypeParts, NextParts, KeptTypes
            DEF WatchStart, WatchTick, WatchTimeout, ClientTypes
  <1>2. CASE WatchInfo
    <2>1. AutoRunning \in BOOLEAN
      BY DEF AutoRunning
    <2>2. WatchType'
      BY <1>2, <2>1, TypeParts DEF WatchInfo, ClientTypes, WatchType
    <2> QED BY <1>2, <2>2, TypeParts, NextParts, KeptTypes DEF WatchInfo, ClientTypes
  <1>3. CASE WatchEmit \/ WatchFinal
    <2>1. WatchType' /\ StageType' /\ HistoryType'
      BY <1>3, TypeParts DEF WatchEmit, WatchFinal, recordProgress, ClientTypes,
             WatchType, StageType, Stages, HistoryType
    <2> QED BY <1>3, <2>1, TypeParts, NextParts, KeptTypes DEF WatchEmit, WatchFinal, ClientTypes
  <1> QED BY <1>1, <1>2, <1>3 DEF WatchStep

LEMMA ListTypes ==
  ASSUME TypeOK, NEW l \in Listers, ListStart(l) \/ ListFetch(l) \/ ListDone(l)
  PROVE  TypeOK'
  <1> USE DEF goVars, workerVars, sessVars, otherVars
  <1>1. ListType'
    BY TypeParts DEF ListStart, ListFetch, ListDone, ClientTypes, ListType
  <1>2. StageType' /\ HistoryType' /\ LifeTypes'
    BY TypeParts DEF ListStart, ListFetch, ListDone, ListEmit, recordProgress, StageType,
                     Stages, HistoryType, LifeTypes
  <1> QED BY <1>1, <1>2, TypeParts, NextParts, KeptTypes
          DEF ListStart, ListFetch, ListDone, ClientTypes

LEMMA StepTypes == TypeOK /\ [Next]_vars => TypeOK'
  <1> SUFFICES ASSUME TypeOK, [Next]_vars
               PROVE  TypeOK'
    OBVIOUS
  <1>1. CASE UNCHANGED vars
    BY <1>1, TypeParts, NextParts, KeptTypes
       DEF vars, goVars, workerVars, sessVars, otherVars, ClientTypes
  <1>2. CASE \E x \in Actors : Heartbeat(x)
    <2>1. StageType'
      BY <1>2 DEF Heartbeat, BeatStage, recordProgress, StageType, Stages,
                  inProgressStages
    <2> QED BY <1>2, <2>1, TypeParts, NextParts, KeptTypes
            DEF Heartbeat, goVars, workerVars, sessVars, otherVars, ClientTypes
  <1>3. CASE CloseUncache \/ clearProgress
    <2>1. StageType' /\ LifeTypes'
      BY <1>3, TypeParts DEF CloseUncache, clearProgress, StageType, Stages, LifeTypes
    <2> QED BY <1>3, <2>1, TypeParts, NextParts, KeptTypes
            DEF CloseUncache, clearProgress, goVars, workerVars, ClientTypes
  <1> QED BY <1>1, <1>2, <1>3, OpenerTypes, AnalyzerTypes, IdaTypes, WaitTypes,
             WatchTypes, ListTypes DEF Next, CloseStep

(* Every variable keeps its type, through every fault and every close.      *)
THEOREM ReadinessTypes == Spec => []TypeOK
  BY InitTypes, StepTypes, PTL DEF Spec

----------------------------------------------------------------------------
(* Where the goroutines are, whose heartbeats run, and who waits for which  *)
(* job of the worker.                                                       *)

AnalyzerPcs == {"idle", "analyze", "plan", "planned", "unclaim", "result", "done"}
OpenerPcs   == PcLabels \ {"idle", "result"}
Waits       == {"open", "plan", "warming"}
Waiting(op) == IF op = "read" THEN "warming" ELSE op

(* A heartbeat runs only around its worker call.                            *)
ActorInv ==
    /\ \A a \in Analyzers : pc[a] \in AnalyzerPcs
    /\ pc[Opener] \in OpenerPcs
    /\ \A x \in beating : pc[x] \in {"open", "opened", "plan", "planned"}
    /\ life # "open" => dead

(* A goroutine has at most one job in the queue, and waits for it there; a  *)
(* dead worker has none.                                                    *)
QueueInv ==
    /\ \A i \in 1..Len(queue) : pc[queue[i].who] = Waiting(queue[i].op)
    /\ \A i, j \in 1..Len(queue) : queue[i].who = queue[j].who => i = j
    /\ dead => queue = <<>>

BasicInv == TypeOK /\ ActorInv /\ QueueInv

LEMMA InitBasic == Init => BasicInv
  <1> SUFFICES ASSUME Init
               PROVE  BasicInv
    OBVIOUS
  <1>1. ActorInv
    BY OpenerAssumption DEF Init, ActorInv, AnalyzerPcs, OpenerPcs, PcLabels, Actors
  <1>2. QueueInv
    BY DEF Init, QueueInv
  <1> QED BY <1>1, <1>2, InitTypes DEF BasicInv

LEMMA QueueJobs ==
  ASSUME QueueType
  PROVE  /\ Len(queue) \in Nat
         /\ \A i \in 1..Len(queue) :
               queue[i].who \in Actors /\ queue[i].op \in {"open", "plan", "read"}
  <1>1. Len(queue) \in Nat /\ \A i \in 1..Len(queue) : queue[i] \in Jobs
    BY LenProperties, ElementOfSeq DEF QueueType
  <1> QED BY <1>1 DEF Jobs

(* Who moves without waiting for a job is not in the queue.                 *)
LEMMA QueueMove ==
  ASSUME QueueInv, QueueType, GoTypes, NEW x \in Actors, NEW l \in PcLabels, Goto(x, l),
         pc[x] \notin Waits, UNCHANGED <<queue, dead>>
  PROVE  QueueInv'
  <1>1. \A i \in 1..Len(queue) : queue[i].who \in Actors /\ queue[i].who # x
    BY QueueJobs DEF QueueInv, Waiting, Waits
  <1> QED BY <1>1 DEF QueueInv, GoTypes, Goto

(* A new job joins the queue behind the others, its goroutine waiting.      *)
LEMMA QueueSubmit ==
  ASSUME QueueInv, QueueType, GoTypes, NEW x \in Actors,
         NEW op \in {"open", "plan", "read"}, NEW r \in PcLabels,
         Submit(x, op, Waiting(op), r), pc[x] \notin Waits, UNCHANGED dead
  PROVE  QueueInv'
  <1>1. \A i \in 1..Len(queue) : queue[i].who \in Actors /\ queue[i].who # x
    BY QueueJobs DEF QueueInv, Waiting, Waits
  <1>2. CASE dead
    BY <1>1, <1>2, QueueMove DEF Submit
  <1>3. CASE ~dead
    <2>1. queue' = Append(queue, [who |-> x, op |-> op]) /\ Goto(x, Waiting(op))
      BY <1>3 DEF Submit
    <2>2. [who |-> x, op |-> op] \in Jobs
      BY DEF Jobs
    <2>3. /\ Len(queue) \in Nat /\ Len(queue') = Len(queue) + 1
          /\ \A i \in 1..Len(queue) : queue'[i] = queue[i]
          /\ queue'[Len(queue) + 1] = [who |-> x, op |-> op]
      BY <2>1, <2>2, AppendProperties, LenProperties DEF QueueType
    <2>4. pc'[x] = Waiting(op) /\ \A y \in Actors : y # x => pc'[y] = pc[y]
      BY <2>1 DEF Goto, GoTypes
    <2>5. \A i \in 1..Len(queue') : i \in 1..Len(queue) \/ i = Len(queue) + 1
      BY <2>3
    <2>6. \A i \in 1..Len(queue') : pc'[queue'[i].who] = Waiting(queue'[i].op)
      BY <1>1, <2>3, <2>4, <2>5 DEF QueueInv
    <2>7. \A i, j \in 1..Len(queue') : queue'[i].who = queue'[j].who => i = j
      BY <1>1, <2>3, <2>5 DEF QueueInv
    <2> QED BY <1>3, <2>6, <2>7 DEF QueueInv
  <1> QED BY <1>2, <1>3

(* The head of the queue is done, and the others wait on.                   *)
LEMMA QueueHead ==
  ASSUME QueueInv, QueueType, GoTypes, IdaFinish
  PROVE  QueueInv'
  <1>1. /\ Len(queue) \in Nat /\ Len(queue') = Len(queue) - 1
        /\ \A i \in 1..Len(queue') : queue'[i] = queue[i + 1]
        /\ Head(queue) = queue[1]
    BY HeadTailProperties, LenProperties DEF IdaFinish, QueueType
  <1>2. \A i \in 1..Len(queue') : i + 1 \in 1..Len(queue) /\ i + 1 # 1
    BY <1>1
  <1>3. Len(queue) # 0
    BY EmptySeq DEF IdaFinish, QueueType
  <1>4. \A i \in 1..Len(queue') :
            queue'[i].who \in Actors /\ queue'[i].who # Head(queue).who
    BY <1>1, <1>2, <1>3, QueueJobs DEF QueueInv
  <1>5. \A y \in Actors : y # Head(queue).who => pc'[y] = pc[y]
    BY DEF IdaFinish, Goto, GoTypes
  <1>6. \A i \in 1..Len(queue') : pc'[queue'[i].who] = Waiting(queue'[i].op)
    BY <1>1, <1>2, <1>4, <1>5 DEF QueueInv
  <1>7. \A i, j \in 1..Len(queue') : queue'[i].who = queue'[j].who => i = j
    <2> SUFFICES ASSUME NEW i \in 1..Len(queue'), NEW j \in 1..Len(queue'),
                        queue'[i].who = queue'[j].who
                 PROVE  i = j
      OBVIOUS
    <2>1. i + 1 = j + 1
      BY <1>1, <1>2 DEF QueueInv
    <2> QED BY <1>1, <2>1
  <1>8. ~dead'
    BY DEF IdaFinish
  <1> QED BY <1>6, <1>7, <1>8 DEF QueueInv

LEMMA PassBasic ==
  ASSUME BasicInv, NEW x \in Actors, Join(x) \/ BeginAnalysis(x) \/ EndAnalysis(x)
  PROVE  ActorInv' /\ QueueInv'
  <1> USE OpenerAssumption DEF Actors, AnalyzerPcs, OpenerPcs, PcLabels
  <1>1. GoTypes /\ QueueType /\ BeatType
    BY TypeParts DEF BasicInv
  <1>2. CASE Join(x)
    <2>1. PICK l \in PcLabels : Goto(x, l) /\ l = AfterCall(x)
      BY <1>2 DEF Join, AfterCall
    <2>2. QueueInv'
      BY <1>1, <1>2, <2>1, QueueMove
         DEF Join, BasicInv, Waits, workerVars
    <2>3. ActorInv'
      BY <1>1, <1>2
         DEF Join, Goto, AfterCall, BasicInv, ActorInv, GoTypes, BeatType, workerVars,
             otherVars, sessVars
    <2> QED BY <2>2, <2>3
  <1>3. CASE BeginAnalysis(x)
    <2>1. pc[x] = "analyze" /\ Submit(x, "plan", "plan", "planned") /\ dead' = dead
      BY <1>3 DEF BeginAnalysis, withHeartbeat
    <2>2. QueueInv'
      BY <1>1, <2>1, QueueSubmit DEF BasicInv, Waiting, Waits
    <2>3. ActorInv'
      BY <1>1, <1>3 DEF BeginAnalysis, withHeartbeat, Submit, Goto, BasicInv, ActorInv,
                        GoTypes, BeatType, otherVars, sessVars
    <2> QED BY <2>2, <2>3
  <1>4. CASE EndAnalysis(x)
    <2>1. PICK l \in PcLabels : Goto(x, l) /\ l = IF x = Opener THEN "warm" ELSE "done"
      BY <1>4 DEF EndAnalysis
    <2>2. QueueInv'
      BY <1>1, <1>4, <2>1, QueueMove DEF EndAnalysis, BasicInv, Waits, workerVars
    <2>3. ActorInv'
      BY <1>1, <1>4 DEF EndAnalysis, Goto, BasicInv, ActorInv, GoTypes, BeatType,
                        workerVars, otherVars, sessVars
    <2> QED BY <2>2, <2>3
  <1> QED BY <1>2, <1>3, <1>4

LEMMA OpenerBasic ==
  ASSUME BasicInv, OpenerStep
  PROVE  ActorInv' /\ QueueInv'
  <1> USE OpenerAssumption DEF Actors, AnalyzerPcs, OpenerPcs, PcLabels
  <1>1. GoTypes /\ QueueType /\ BeatType
    BY TypeParts DEF BasicInv
  <1>2. CASE \/ RecordOpening \/ FailOpen \/ OpenClaim
             \/ WarmClient \/ WarmSkipped \/ RecordReady
    <2>1. /\ \E l \in OpenerPcs : Goto(Opener, l)
          /\ pc[Opener] \in {"record", "fail", "claim", "warm", "ready"}
          /\ UNCHANGED <<beating, queue, dead, life>>
      BY <1>2 DEF RecordOpening, FailOpen, OpenClaim, WarmClient, WarmSkipped,
                  RecordReady, workerVars, otherVars, sessVars
    <2>2. QueueInv'
      BY <1>1, <2>1, QueueMove DEF BasicInv, Waits
    <2>3. ActorInv'
      BY <1>1, <2>1 DEF Goto, BasicInv, ActorInv, GoTypes, BeatType
    <2> QED BY <2>2, <2>3
  <1>3. CASE BeginOpen
    <2>1. QueueInv'
      BY <1>1, <1>3, QueueSubmit DEF BeginOpen, withHeartbeat, BasicInv, Waiting, Waits
    <2>2. ActorInv'
      BY <1>1, <1>3 DEF BeginOpen, withHeartbeat, Submit, Goto, BasicInv, ActorInv,
                        GoTypes, BeatType, otherVars, sessVars
    <2> QED BY <2>1, <2>2
  <1>4. CASE WarmCache
    <2>1. QueueInv'
      BY <1>1, <1>4, QueueSubmit DEF WarmCache, BasicInv, Waiting, Waits
    <2>2. ActorInv'
      BY <1>1, <1>4 DEF WarmCache, Submit, Goto, BasicInv, ActorInv, GoTypes, BeatType
    <2> QED BY <2>1, <2>2
  <1> QED BY <1>2, <1>3, <1>4, PassBasic DEF OpenerStep

LEMMA AnalyzerBasic ==
  ASSUME BasicInv, NEW a \in Analyzers,
         RunAutoAnalysis(a) \/ AlreadyRunning(a) \/ AnalyzerStep(a)
  PROVE  ActorInv' /\ QueueInv'
  <1> USE OpenerAssumption DEF Actors, AnalyzerPcs, OpenerPcs, PcLabels
  <1>1. GoTypes /\ QueueType /\ BeatType
    BY TypeParts DEF BasicInv
  <1>2. CASE RunAutoAnalysis(a) \/ AlreadyRunning(a) \/ RecordResult(a)
    <2>1. /\ \E l \in {"analyze", "done", "unclaim"} : Goto(a, l)
          /\ pc[a] \in {"idle", "result"}
          /\ UNCHANGED <<beating, queue, dead, life>>
      BY <1>2 DEF RunAutoAnalysis, AlreadyRunning, RecordResult, workerVars, otherVars,
                  sessVars
    <2>2. QueueInv'
      BY <1>1, <2>1, QueueMove DEF BasicInv, Waits
    <2>3. ActorInv'
      BY <1>1, <2>1 DEF Goto, BasicInv, ActorInv, GoTypes, BeatType
    <2> QED BY <2>2, <2>3
  <1> QED BY <1>2, PassBasic DEF AnalyzerStep

LEMMA UnblockedActor ==
  /\ \A l \in AnalyzerPcs : Unblocked(l) \in AnalyzerPcs
  /\ \A l \in OpenerPcs : Unblocked(l) \in OpenerPcs
  /\ \A l \in {"open", "opened", "plan", "planned"} : Unblocked(l) \in {"opened", "planned"}
  BY DEF Unblocked, AnalyzerPcs, OpenerPcs, PcLabels

LEMMA IdaBasic ==
  ASSUME BasicInv, IdaFinish \/ WorkerExit \/ CloseStop
  PROVE  ActorInv' /\ QueueInv'
  <1>1. GoTypes /\ QueueType /\ BeatType
    BY TypeParts DEF BasicInv
  <1>2. CASE IdaFinish
    <2>1. Head(queue).who \in Actors /\ UNCHANGED <<beating, dead, life>>
      BY <1>1, <1>2, HeadJob DEF IdaFinish, otherVars, sessVars
    <2>2. \A x \in Actors : pc'[x] \in {pc[x], Unblocked(pc[x])}
      BY <1>1, <1>2 DEF IdaFinish, Goto, GoTypes
    <2>3. ActorInv'
      BY <1>1, <2>1, <2>2, UnblockedActor DEF BasicInv, ActorInv, BeatType, Actors
    <2> QED BY <1>1, <1>2, <2>3, QueueHead DEF BasicInv
  <1>3. CASE Die /\ UNCHANGED beating
    <2>1. \A x \in Actors : pc'[x] = Unblocked(pc[x])
      BY <1>3 DEF Die
    <2>2. ActorInv'
      BY <1>1, <1>3, <2>1, UnblockedActor DEF Die, BasicInv, ActorInv, BeatType, Actors
    <2>3. queue' = <<>> /\ Len(queue') = 0
      BY <1>3 DEF Die
    <2>4. QueueInv'
      BY <2>3 DEF QueueInv
    <2> QED BY <2>2, <2>4
  <1>4. CASE CloseStop /\ dead
    BY <1>4 DEF CloseStop, BasicInv, ActorInv, QueueInv, workerVars
  <1> QED BY <1>2, <1>3, <1>4 DEF WorkerExit, CloseStop

(* The steps of the other calls.                                            *)
LEMMA OtherSteps ==
  ASSUME \/ \E x \in Actors : Heartbeat(x)
         \/ \E w \in Waiters : WaitStart(w) \/ WaitStep(w) \/ WaitCancel(w)
         \/ WatchStart \/ WatchStep \/ WatchTimeout
         \/ \E l \in Listers : ListStart(l) \/ ListFetch(l) \/ ListDone(l)
         \/ CloseUncache \/ clearProgress
         \/ UNCHANGED vars
  PROVE  /\ UNCHANGED <<active, pc, ok, beating, auto, queue, db, dead>>
         /\ life # "open" \/ UNCHANGED life
  BY DEF Heartbeat, WaitStart, WaitStep, WaitCancel, WaitCheck, WaitRead, WaitEmit,
         WaitTick, WatchStart, WatchStep, WatchTimeout, WatchInfo, WatchEmit, WatchTick,
         WatchFinal, ListStart, ListFetch, ListDone, CloseUncache, clearProgress, vars,
         goVars, workerVars, otherVars, sessVars

LEMMA StepBasic == BasicInv /\ [Next]_vars => BasicInv'
  <1> SUFFICES ASSUME BasicInv, [Next]_vars
               PROVE  BasicInv'
    OBVIOUS
  <1>1. ASSUME UNCHANGED <<active, pc, ok, beating, auto, queue, db, dead>>,
               life # "open" \/ UNCHANGED life
        PROVE  ActorInv' /\ QueueInv'
    BY <1>1 DEF BasicInv, ActorInv, QueueInv
  <1>2. TypeOK'
    BY StepTypes DEF BasicInv
  <1>3. ActorInv' /\ QueueInv'
    BY <1>1, OtherSteps, OpenerBasic, AnalyzerBasic, IdaBasic DEF Next, CloseStep
  <1> QED BY <1>2, <1>3 DEF BasicInv

----------------------------------------------------------------------------
(* The database.                                                            *)

(* The database of a living worker is open once the open has succeeded: for *)
(* the goroutines past it, and for every stage the gate accepts that its    *)
(* owner recorded.                                                          *)
DbInv ==
    ~dead =>
        /\ pc[Opener] \in {"claim", "analyze", "plan", "planned", "unclaim", "warm",
                           "cache", "warming", "ready"} => db
        /\ pc[Opener] = "opened" /\ ok[Opener] => db
        /\ \A a \in Analyzers : pc[a] \in {"planned", "result"} /\ ok[a] => db
        /\ ~disturbed /\ ~readinessError(stage) => db

LEMMA InitDb == Init => DbInv
  BY OpenerAssumption DEF Init, DbInv, Actors, readinessError, inProgressStages

LEMMA OpenerDb ==
  ASSUME BasicInv, DbInv, OpenerStep
  PROVE  DbInv'
  <1> USE OpenerAssumption DEF Actors, DbInv, readinessError, inProgressStages,
          recordProgress, Goto, GoTypes, goVars, workerVars, otherVars, sessVars
  <1>1. GoTypes
    BY TypeParts DEF BasicInv
  <1>2. CASE RecordOpening
    BY <1>1, <1>2 DEF RecordOpening
  <1>3. CASE BeginOpen
    BY <1>1, <1>3 DEF BeginOpen, withHeartbeat, Submit
  <1>4. CASE FailOpen
    BY <1>1, <1>4 DEF FailOpen
  <1>5. CASE OpenClaim
    BY <1>1, <1>5 DEF OpenClaim
  <1>6. CASE WarmClient \/ WarmSkipped
    BY <1>1, <1>6 DEF WarmClient, WarmSkipped
  <1>7. CASE WarmCache
    BY <1>1, <1>7 DEF WarmCache, Submit
  <1>8. CASE RecordReady
    BY <1>1, <1>8 DEF RecordReady
  <1>9. CASE Join(Opener)
    BY <1>1, <1>9 DEF Join, AfterCall
  <1>10. CASE BeginAnalysis(Opener)
    BY <1>1, <1>10 DEF BeginAnalysis, withHeartbeat, Submit
  <1>11. CASE EndAnalysis(Opener)
    BY <1>1, <1>11 DEF EndAnalysis
  <1> QED BY <1>2, <1>3, <1>4, <1>5, <1>6, <1>7, <1>8, <1>9, <1>10, <1>11
          DEF OpenerStep

LEMMA AnalyzerDb ==
  ASSUME BasicInv, DbInv, NEW a \in Analyzers,
         RunAutoAnalysis(a) \/ AlreadyRunning(a) \/ AnalyzerStep(a)
  PROVE  DbInv'
  <1> USE OpenerAssumption DEF Actors, DbInv, readinessError, inProgressStages,
          recordProgress, Goto, GoTypes, goVars, workerVars, otherVars, sessVars
  <1>1. GoTypes /\ HistoryType
    BY TypeParts DEF BasicInv
  <1>2. CASE RunAutoAnalysis(a)
    BY <1>1, <1>2 DEF RunAutoAnalysis, HistoryType
  <1>3. CASE AlreadyRunning(a)
    BY <1>1, <1>3 DEF AlreadyRunning
  <1>4. CASE BeginAnalysis(a)
    BY <1>1, <1>4 DEF BeginAnalysis, withHeartbeat, Submit
  <1>5. CASE Join(a)
    BY <1>1, <1>5 DEF Join, AfterCall, BasicInv, ActorInv, AnalyzerPcs
  <1>6. CASE RecordResult(a)
    BY <1>1, <1>6 DEF RecordResult
  <1>7. CASE EndAnalysis(a)
    BY <1>1, <1>7 DEF EndAnalysis
  <1> QED BY <1>2, <1>3, <1>4, <1>5, <1>6, <1>7 DEF AnalyzerStep

LEMMA IdaDb ==
  ASSUME BasicInv, DbInv, IdaFinish
  PROVE  DbInv'
  <1>1. GoTypes /\ QueueType
    BY TypeParts DEF BasicInv
  <1>2. PICK who \in Actors :
            /\ pc' = [pc EXCEPT ![who] = Unblocked(pc[who])]
            /\ db' \/ (~db /\ ok' = [ok EXCEPT ![who] = FALSE])
            /\ pc[who] \in Waits
    <2>1. Len(queue) # 0 /\ Len(queue) \in Nat /\ Head(queue) = queue[1]
      BY <1>1, EmptySeq, LenProperties DEF IdaFinish, QueueType
    <2>2. pc[Head(queue).who] \in Waits
      BY <1>1, <2>1, QueueJobs DEF BasicInv, QueueInv, Waiting, Waits
    <2>3. Head(queue).who \in Actors
      BY <1>1, HeadJob DEF IdaFinish
    <2>4. pc' = [pc EXCEPT ![Head(queue).who] = Unblocked(pc[Head(queue).who])]
      BY DEF IdaFinish, Goto
    <2>5. db' \/ (~db /\ ok' = [ok EXCEPT ![Head(queue).who] = FALSE])
      BY DEF IdaFinish
    <2> QED BY <2>2, <2>3, <2>4, <2>5
  <1>3. CASE db'
    BY <1>3 DEF DbInv
  <1>4. CASE ~db /\ ok' = [ok EXCEPT ![who] = FALSE]
    BY <1>1, <1>2, <1>4, OpenerAssumption
       DEF IdaFinish, DbInv, BasicInv, ActorInv, AnalyzerPcs, GoTypes, Actors, Unblocked,
           Waits, readinessError, otherVars, sessVars
  <1> QED BY <1>2, <1>3, <1>4

(* The waiting, watching and listing calls that disturb nobody: the stage    *)
(* stays, or a list tool reports where no stage of another is recorded.     *)
LEMMA CallsCalm ==
  ASSUME \/ \E w \in Waiters : WaitStart(w) \/ WaitStep(w) \/ WaitCancel(w)
         \/ WatchStart \/ WatchStep \/ WatchTimeout
         \/ \E l \in Listers : ListStart(l) \/ ListFetch(l) \/ ListDone(l),
         ~disturbed'
  PROVE  /\ ~disturbed
         /\ stage' = stage \/ (stage' = "listing" /\ ~readinessError(stage))
  <1> USE DEF otherVars, sessVars, recordProgress
  <1>1. ASSUME NEW w \in Waiters, WaitStart(w) \/ WaitStep(w) \/ WaitCancel(w)
        PROVE  ~disturbed /\ stage' = stage
    <2>1. CASE WaitEmit(w)
      <3>1. disturbed' <=> disturbed \/ stage # wait[w].seen
        BY <2>1 DEF WaitEmit
      <3> QED BY <2>1, <3>1 DEF WaitEmit
    <2> QED BY <1>1, <2>1 DEF WaitStart, WaitStep, WaitCancel, WaitCheck, WaitRead,
                              WaitTick
  <1>2. ASSUME WatchStart \/ WatchStep \/ WatchTimeout
        PROVE  ~disturbed /\ stage' = stage
    BY <1>2 DEF WatchStart, WatchStep, WatchTimeout, WatchInfo, WatchEmit, WatchTick,
                WatchFinal
  <1>3. ASSUME NEW l \in Listers, ListStart(l) \/ ListFetch(l) \/ ListDone(l)
        PROVE  /\ ~disturbed
               /\ stage' = stage \/ (stage' = "listing" /\ ~readinessError(stage))
    <2>1. CASE ListStart(l)
      BY <2>1 DEF ListStart
    <2>2. CASE ListEmit
      <3>1. disturbed' <=> disturbed \/ readinessError(stage)
        BY <2>2 DEF ListEmit
      <3> QED BY <2>2, <3>1 DEF ListEmit
    <2> QED BY <1>3, <2>1, <2>2 DEF ListFetch, ListDone
  <1> QED BY <1>1, <1>2, <1>3

LEMMA StepDb == BasicInv /\ DbInv /\ [Next]_vars => DbInv'
  <1> SUFFICES ASSUME BasicInv, DbInv, [Next]_vars
               PROVE  DbInv'
    OBVIOUS
  <1> USE DEF DbInv, readinessError, inProgressStages, recordProgress, goVars, workerVars,
              otherVars, sessVars
  <1>1. CASE UNCHANGED vars
    BY <1>1 DEF vars
  <1>2. CASE \E x \in Actors : Heartbeat(x)
    BY <1>2 DEF Heartbeat, BeatStage
  <1>3. CASE WorkerExit \/ CloseStep
    BY <1>3 DEF WorkerExit, CloseStep, CloseStop, CloseUncache, clearProgress, Die,
                BasicInv, ActorInv
  <1>4. CASE \E w \in Waiters : WaitStart(w) \/ WaitStep(w) \/ WaitCancel(w)
    BY <1>4, OtherSteps, CallsCalm
  <1>5. CASE WatchStart \/ WatchStep \/ WatchTimeout
    BY <1>5, OtherSteps, CallsCalm
  <1>6. CASE \E l \in Listers : ListStart(l) \/ ListFetch(l) \/ ListDone(l)
    BY <1>6, OtherSteps, CallsCalm
  <1> QED BY <1>1, <1>2, <1>3, <1>4, <1>5, <1>6, OpenerDb, AnalyzerDb, IdaDb DEF Next

----------------------------------------------------------------------------
(* What a close leaves behind.                                              *)

(* Once a close has begun with nobody at work, nobody starts to work again, *)
(* and what it drops stays dropped.                                         *)
LeftInv ==
    life # "open" /\ ~overtaken =>
        /\ ~AtWork
        /\ life \in {"uncached", "closed"} => ~cached
        /\ life = "closed" => stage = "none"

(* On a session that is being closed only those move that were at work.     *)
LEMMA ClosedRests ==
  ASSUME BasicInv, life # "open", ~AtWork, Next
  PROVE  CloseUncache \/ clearProgress
  <1>1. dead
    BY DEF BasicInv, ActorInv
  <1>2. \A x \in Actors : pc[x] \in {"idle", "done"}
    BY DEF AtWork
  <1>3. ~OpenerStep
    BY <1>2 DEF OpenerStep, RecordOpening, BeginOpen, FailOpen, OpenClaim, WarmClient,
                WarmCache, WarmSkipped, RecordReady, Join, BeginAnalysis, EndAnalysis,
                Actors
  <1>4. \A a \in Analyzers : ~(RunAutoAnalysis(a) \/ AlreadyRunning(a) \/ AnalyzerStep(a))
    BY <1>1, <1>2 DEF RunAutoAnalysis, AlreadyRunning, AnalyzerStep, BeginAnalysis, Join,
                      RecordResult, EndAnalysis, Actors
  <1>5. \A x \in Actors : ~Heartbeat(x)
    BY <1>2 DEF Heartbeat, BasicInv, ActorInv
  <1>6. ~IdaFinish /\ ~WorkerExit /\ ~CloseStop
    BY <1>1 DEF IdaFinish, WorkerExit, CloseStop
  <1>7. \A w \in Waiters : ~(WaitStart(w) \/ WaitStep(w) \/ WaitCancel(w))
    BY <1>1 DEF AtWork, WaitStart, WaitStep, WaitCancel, WaitCheck, WaitRead, WaitEmit,
                WaitTick
  <1>8. ~WatchStart /\ ~WatchStep /\ ~WatchTimeout
    BY <1>1 DEF AtWork, WatchStart, WatchStep, WatchTimeout, WatchInfo, WatchEmit,
                WatchTick, WatchFinal
  <1>9. \A l \in Listers : ~(ListStart(l) \/ ListFetch(l) \/ ListDone(l))
    BY <1>1 DEF AtWork, Gate, ListStart, ListFetch, ListDone
  <1> QED BY <1>3, <1>4, <1>5, <1>6, <1>7, <1>8, <1>9 DEF Next, CloseStep

(* Only a close ends the session, and it looks who is at work.              *)
LEMMA OpenStays ==
  ASSUME Next, life = "open"
  PROVE  life' = "open" \/ CloseStop
  BY DEF Next, CloseStep, OpenerStep, RecordOpening, BeginOpen, FailOpen, OpenClaim,
         WarmClient, WarmCache, WarmSkipped, RecordReady, Join, BeginAnalysis,
         EndAnalysis, RunAutoAnalysis, AlreadyRunning, AnalyzerStep, RecordResult,
         Heartbeat, IdaFinish, WorkerExit, WaitStart, WaitStep, WaitCancel, WaitCheck,
         WaitRead, WaitEmit, WaitTick, WatchStart, WatchStep, WatchTimeout, WatchInfo,
         WatchEmit, WatchTick, WatchFinal, ListStart, ListFetch, ListDone, CloseUncache,
         clearProgress, otherVars, sessVars

LEMMA OvertakenStays ==
  ASSUME Next, life # "open"
  PROVE  UNCHANGED overtaken
  BY DEF Next, CloseStep, CloseStop, OpenerStep, RecordOpening, BeginOpen, FailOpen,
         OpenClaim, WarmClient, WarmCache, WarmSkipped, RecordReady, Join, BeginAnalysis,
         EndAnalysis, RunAutoAnalysis, AlreadyRunning, AnalyzerStep, RecordResult,
         Heartbeat, IdaFinish, WorkerExit, WaitStart, WaitStep, WaitCancel, WaitCheck,
         WaitRead, WaitEmit, WaitTick, WatchStart, WatchStep, WatchTimeout, WatchInfo,
         WatchEmit, WatchTick, WatchFinal, ListStart, ListFetch, ListDone, CloseUncache,
         clearProgress, otherVars, sessVars

LEMMA StepLeft == BasicInv /\ LeftInv /\ [Next]_vars => LeftInv'
  <1> SUFFICES ASSUME BasicInv, LeftInv, [Next]_vars, life' # "open", ~overtaken'
               PROVE  /\ ~AtWork'
                      /\ life' \in {"uncached", "closed"} => ~cached'
                      /\ life' = "closed" => stage' = "none"
    BY DEF LeftInv
  <1>1. CASE UNCHANGED vars
    BY <1>1 DEF LeftInv, AtWork, vars, goVars, otherVars, sessVars
  <1>2. CASE Next /\ life # "open"
    <2>1. ~overtaken
      BY <1>2, OvertakenStays
    <2>2. ~AtWork /\ (life = "uncached" => ~cached)
      BY <1>2, <2>1 DEF LeftInv
    <2>3. CloseUncache \/ clearProgress
      BY <1>2, <2>2, ClosedRests
    <2> QED BY <2>2, <2>3 DEF CloseUncache, clearProgress, AtWork, goVars
  <1>3. CASE Next /\ life = "open"
    <2>1. CloseStop
      BY <1>3, OpenStays
    <2>2. ~AtWork
      BY <2>1, TypeParts DEF CloseStop
    <2>3. \A x \in Actors : pc'[x] \in {"idle", "done"}
      BY <2>1, <2>2 DEF CloseStop, Die, AtWork, Unblocked
    <2> QED BY <2>1, <2>2, <2>3 DEF CloseStop, AtWork
  <1> QED BY <1>1, <1>2, <1>3

(* A close leaves neither cache entry nor progress, whatever failed on the  *)
(* session before, unless a call or a goroutine was at work when it began.  *)
THEOREM ReadinessLeftovers == Spec => []LeftoversExcused
  <1>1. Init => LeftInv
    BY DEF Init, LeftInv
  <1>2. LeftInv => LeftoversExcused
    BY DEF LeftInv, LeftoversExcused
  <1> QED BY <1>1, <1>2, InitBasic, StepBasic, StepLeft, PTL DEF Spec

----------------------------------------------------------------------------
(* The stage.                                                               *)

(* The recorded stage is the one of whoever is responsible for it.          *)
StageFits ==
    /\ stage \notin {"none", "auto_analysis"}
    /\ pc[Opener] # "done" => \A a \in Analyzers : pc[a] \in {"idle", "done"}
    /\ pc[Opener] = "record" => stage = "starting"
    /\ pc[Opener] \in {"begin", "open", "opened", "fail", "claim", "analyze"} =>
           stage = "opening"
    /\ pc[Opener] \in {"plan", "planned", "unclaim", "warm", "cache"} =>
           stage = "analyzing"
    /\ pc[Opener] = "warming" => stage = "warming"
    /\ pc[Opener] = "ready" => stage \in {"opening", "analyzing", "warming"}
    /\ \A a \in Analyzers : pc[a] \in {"plan", "planned", "result"} =>
           stage = "analyzing"
    /\ pc[Opener] = "done" /\ stage \in inProgressStages =>
           \E a \in Analyzers : pc[a] \in {"plan", "planned", "result"}

StageInv == ~disturbed /\ life # "closed" => StageFits

LEMMA OpenerStage ==
  ASSUME BasicInv, GuardInv, StageFits, OpenerStep
  PROVE  StageFits'
  <1> USE OpenerAssumption DEF Actors, StageFits, inProgressStages, recordProgress, Goto,
          GoTypes
  <1>1. GoTypes
    BY TypeParts DEF BasicInv
  <1>2. CASE RecordOpening
    BY <1>1, <1>2 DEF RecordOpening
  <1>3. CASE BeginOpen
    BY <1>1, <1>3 DEF BeginOpen, withHeartbeat, Submit
  <1>4. CASE FailOpen
    BY <1>1, <1>4 DEF FailOpen
  <1>5. CASE OpenClaim
    <2>1. \A x \in Actors : ~InPass(x)
      BY <1>5 DEF OpenClaim, InPass
    <2>2. ~active
      BY <2>1 DEF GuardInv, GuardHeld
    <2> QED BY <1>1, <1>5, <2>2 DEF OpenClaim
  <1>6. CASE WarmClient \/ WarmSkipped
    BY <1>1, <1>6 DEF WarmClient, WarmSkipped
  <1>7. CASE WarmCache
    BY <1>1, <1>7 DEF WarmCache, Submit
  <1>8. CASE RecordReady
    BY <1>1, <1>8 DEF RecordReady
  <1>9. CASE Join(Opener)
    BY <1>1, <1>9 DEF Join, AfterCall
  <1>10. CASE BeginAnalysis(Opener)
    BY <1>1, <1>10 DEF BeginAnalysis, withHeartbeat, Submit
  <1>11. CASE EndAnalysis(Opener)
    BY <1>1, <1>11 DEF EndAnalysis
  <1> QED BY <1>2, <1>3, <1>4, <1>5, <1>6, <1>7, <1>8, <1>9, <1>10, <1>11
          DEF OpenerStep

LEMMA AnalyzerStage ==
  ASSUME BasicInv, GuardInv, StageFits, ~disturbed', NEW a \in Analyzers,
         RunAutoAnalysis(a) \/ AlreadyRunning(a) \/ AnalyzerStep(a)
  PROVE  StageFits'
  <1> USE OpenerAssumption DEF Actors, StageFits, inProgressStages, recordProgress, Goto,
          GoTypes
  <1>1. GoTypes
    BY TypeParts DEF BasicInv
  <1>2. \A b \in Analyzers : InPass(a) /\ InPass(b) => a = b
    BY DEF GuardInv, OnePass
  <1>3. CASE RunAutoAnalysis(a)
    <2>1. disturbed' <=> disturbed \/ pc[Opener] # "done"
      BY <1>3 DEF RunAutoAnalysis
    <2> QED BY <1>1, <1>3, <2>1 DEF RunAutoAnalysis
  <1>4. CASE AlreadyRunning(a)
    BY <1>1, <1>4 DEF AlreadyRunning
  <1>5. CASE BeginAnalysis(a)
    BY <1>1, <1>5 DEF BeginAnalysis, withHeartbeat, Submit
  <1>6. CASE Join(a)
    BY <1>1, <1>6 DEF Join, AfterCall, BasicInv, ActorInv, AnalyzerPcs
  <1>7. CASE RecordResult(a)
    BY <1>1, <1>2, <1>7 DEF RecordResult, InPass
  <1>8. CASE EndAnalysis(a)
    BY <1>1, <1>8 DEF EndAnalysis
  <1> QED BY <1>3, <1>4, <1>5, <1>6, <1>7, <1>8 DEF AnalyzerStep

LEMMA IdaStage ==
  ASSUME BasicInv, StageFits, IdaFinish \/ WorkerExit \/ CloseStop
  PROVE  StageFits'
  <1>1. GoTypes /\ QueueType
    BY TypeParts DEF BasicInv
  <1>2. \A x \in Actors : pc'[x] \in {pc[x], Unblocked(pc[x])}
    BY <1>1 DEF IdaFinish, WorkerExit, CloseStop, Die, Goto, GoTypes
  <1>3. UNCHANGED stage
    BY DEF IdaFinish, WorkerExit, CloseStop
  <1> QED BY <1>2, <1>3 DEF StageFits, Unblocked, Actors, BasicInv, ActorInv, AnalyzerPcs

(* A heartbeat records the stage that is recorded already.                  *)
LEMMA BeatStays ==
  ASSUME BasicInv, StageFits, NEW x \in Actors, Heartbeat(x)
  PROVE  stage' = stage
  BY TypeParts DEF BasicInv, ActorInv, AnalyzerPcs, BeatType, StageFits, Heartbeat,
     BeatStage, recordProgress, Actors

(* Until a stage is recorded over another's, the session is undisturbed.    *)
LEMMA CalmBefore ==
  ASSUME [Next]_vars, ~disturbed', life' # "closed"
  PROVE  ~disturbed /\ life # "closed"
  <1> USE DEF otherVars, sessVars
  <1>1. CASE UNCHANGED vars
    BY <1>1 DEF vars
  <1>2. CASE OpenerStep
    BY <1>2 DEF OpenerStep, RecordOpening, BeginOpen, FailOpen, OpenClaim, WarmClient,
                WarmCache, WarmSkipped, RecordReady, Join, BeginAnalysis, EndAnalysis
  <1>3. ASSUME NEW a \in Analyzers,
               RunAutoAnalysis(a) \/ AlreadyRunning(a) \/ AnalyzerStep(a)
        PROVE  ~disturbed /\ life # "closed"
    <2>1. CASE RunAutoAnalysis(a)
      <3>1. disturbed' <=> disturbed \/ pc[Opener] # "done"
        BY <2>1 DEF RunAutoAnalysis
      <3> QED BY <2>1, <3>1 DEF RunAutoAnalysis
    <2> QED BY <1>3, <2>1 DEF AlreadyRunning, AnalyzerStep, BeginAnalysis, Join,
                              RecordResult, EndAnalysis
  <1>4. CASE (\E x \in Actors : Heartbeat(x)) \/ IdaFinish \/ WorkerExit \/ CloseStep
    BY <1>4 DEF Heartbeat, IdaFinish, WorkerExit, CloseStep, CloseStop, CloseUncache,
                clearProgress
  <1>5. ASSUME \/ \E w \in Waiters : WaitStart(w) \/ WaitStep(w) \/ WaitCancel(w)
               \/ WatchStart \/ WatchStep \/ WatchTimeout
               \/ \E l \in Listers : ListStart(l) \/ ListFetch(l) \/ ListDone(l)
        PROVE  ~disturbed /\ life # "closed"
    <2>1. UNCHANGED life
      BY <1>5 DEF WaitStart, WaitStep, WaitCancel, WaitCheck, WaitRead, WaitEmit,
         WaitTick, WatchStart, WatchStep, WatchTimeout, WatchInfo, WatchEmit, WatchTick,
         WatchFinal, ListStart, ListFetch, ListDone
    <2> QED BY <1>5, <2>1, CallsCalm
  <1> QED BY <1>1, <1>2, <1>3, <1>4, <1>5 DEF Next

LEMMA StepStage == BasicInv /\ GuardInv /\ StageInv /\ [Next]_vars => StageInv'
  <1> SUFFICES ASSUME BasicInv, GuardInv, StageInv, [Next]_vars, ~disturbed',
                      life' # "closed"
               PROVE  StageFits'
    BY DEF StageInv
  <1>1. StageFits
    BY CalmBefore DEF StageInv
  <1>2. ASSUME UNCHANGED <<pc, stage>>
        PROVE  StageFits'
    BY <1>1, <1>2 DEF StageFits
  <1>3. CASE UNCHANGED vars
    BY <1>2, <1>3 DEF vars, goVars
  <1>4. CASE \E x \in Actors : Heartbeat(x)
    BY <1>1, <1>2, <1>4, OtherSteps, BeatStays
  <1>5. CASE \/ \E w \in Waiters : WaitStart(w) \/ WaitStep(w) \/ WaitCancel(w)
             \/ WatchStart \/ WatchStep \/ WatchTimeout
             \/ \E l \in Listers : ListStart(l) \/ ListFetch(l) \/ ListDone(l)
    <2>1. UNCHANGED pc /\ (stage' = stage \/ (stage' = "listing" /\ ~readinessError(stage)))
      BY <1>5, OtherSteps, CallsCalm
    <2>2. CASE stage' = "listing" /\ ~readinessError(stage)
      BY <1>1, <2>1, <2>2, TypeParts
         DEF StageFits, readinessError, inProgressStages, BasicInv, ActorInv, OpenerPcs,
             PcLabels
    <2> QED BY <1>2, <2>1, <2>2
  <1>6. CASE CloseUncache
    BY <1>2, <1>6 DEF CloseUncache, goVars
  <1>7. CASE clearProgress
    BY <1>7 DEF clearProgress
  <1> QED BY <1>1, <1>3, <1>4, <1>5, <1>6, <1>7, OpenerStage, AnalyzerStage, IdaStage
          DEF Next, CloseStep

LEMMA InitStage == Init => StageInv
  BY OpenerAssumption DEF Init, StageInv, StageFits, Actors, inProgressStages

----------------------------------------------------------------------------

(* What the analysis tools are let through to: as long as nobody records a  *)
(* stage that is not his, an accepted call finds the database open and no   *)
(* analysis pass in front of it, for every number of calls and every fault. *)
THEOREM ReadinessGateSound == Spec => []GateSoundUndisturbed
  <1>1. BasicInv /\ DbInv /\ StageInv => GateSoundUndisturbed
    <2> SUFFICES ASSUME BasicInv, DbInv, StageInv, ~disturbed, ~dead,
                        ~readinessError(stage)
                 PROVE  db /\ ~PassQueued
      BY DEF GateSoundUndisturbed, GateSound, Gate
    <2>1. db
      BY DEF DbInv
    <2>2. StageFits
      BY DEF StageInv, BasicInv, ActorInv
    <2>3. \A x \in Actors : pc[x] # "plan"
      BY <2>2 DEF StageFits, readinessError, inProgressStages, Actors
    <2>4. ~PassQueued
      BY <2>3, QueueJobs, TypeParts DEF PassQueued, BasicInv, QueueInv, Waiting
    <2> QED BY <2>1, <2>4
  <1> QED BY <1>1, InitBasic, InitDb, InitGuard, InitStage, StepBasic, StepDb, StepGuard,
             StepStage, PTL DEF Spec

(* Polling ends: when the work on an undisturbed session is over, whatever  *)
(* failed on the way, its stage is one at which an agent stops to poll.     *)
THEOREM ReadinessRests == Spec => []Rests
  <1>1. BasicInv /\ StageInv => Rests
    <2> SUFFICES ASSUME BasicInv, StageInv, ~AtWork, ~disturbed, life = "open"
                 PROVE  stage \in {"ready", "failed", "listing"}
      BY DEF Rests
    <2>1. StageFits
      BY DEF StageInv
    <2>2. \A x \in Actors : pc[x] \in {"idle", "done"}
      BY DEF AtWork
    <2>3. pc[Opener] = "done" /\ \A a \in Analyzers : pc[a] \in {"idle", "done"}
      BY <2>2 DEF Actors, BasicInv, ActorInv, OpenerPcs
    <2> QED BY <2>1, <2>3, TypeParts
            DEF BasicInv, StageFits, StageType, Stages, inProgressStages
  <1> QED BY <1>1, InitBasic, InitGuard, InitStage, StepBasic, StepGuard, StepStage,
             PTL DEF Spec

(* Nothing is recorded late: as long as nobody records a stage that is not  *)
(* his, the stage goes forward, and back only where run_auto_analysis       *)
(* begins a pass; a heartbeat never changes it.                             *)
THEOREM ReadinessStageAdvances == Spec => StageAdvances
  <1>1. BasicInv /\ StageInv /\ [Next]_vars =>
            [\/ disturbed' \/ life = "closed"
             \/ Rank(stage') > Rank(stage)
             \/ \E a \in Analyzers : StartsPass(a)]_stage
    <2> SUFFICES ASSUME BasicInv, StageInv, [Next]_vars, stage' # stage, ~disturbed',
                        life # "closed"
                 PROVE  \/ Rank(stage') > Rank(stage)
                        \/ \E a \in Analyzers : StartsPass(a)
      OBVIOUS
    <2> USE DEF recordProgress
    <2>1. GoTypes
      BY TypeParts DEF BasicInv
    <2>2. CASE clearProgress
      <3>1. stage' = "none" /\ ~disturbed
        BY <2>2 DEF clearProgress
      <3>2. stage # "none"
        BY <3>1 DEF StageInv, StageFits
      <3> QED BY <3>1, <3>2 DEF Rank
    <2>3. CASE ~clearProgress
      <3>1. life' # "closed"
        BY <2>3 DEF Next, CloseStep, CloseStop, OpenerStep, RecordOpening, BeginOpen, FailOpen,
           OpenClaim, WarmClient, WarmCache, WarmSkipped, RecordReady, Join,
           BeginAnalysis, EndAnalysis, RunAutoAnalysis, AlreadyRunning, AnalyzerStep,
           RecordResult, Heartbeat, IdaFinish, WorkerExit, WaitStart, WaitStep,
           WaitCancel, WaitCheck, WaitRead, WaitEmit, WaitTick, WatchStart, WatchStep,
           WatchTimeout, WatchInfo, WatchEmit, WatchTick, WatchFinal, ListStart,
           ListFetch, ListDone, CloseUncache, otherVars, sessVars, vars
      <3>2. StageFits
        BY <3>1, CalmBefore DEF StageInv
      <3>3. CASE OpenerStep
        BY <3>2, <3>3 DEF OpenerStep, RecordOpening, BeginOpen, FailOpen, OpenClaim,
           WarmClient, WarmCache, WarmSkipped, RecordReady, Join, BeginAnalysis,
           EndAnalysis, withHeartbeat, StageFits, Rank
      <3>4. ASSUME NEW a \in Analyzers,
                   RunAutoAnalysis(a) \/ AlreadyRunning(a) \/ AnalyzerStep(a)
            PROVE  Rank(stage') > Rank(stage) \/ StartsPass(a)
        <4>1. CASE BeginAnalysis(a)
          BY <2>1, <4>1 DEF BeginAnalysis, withHeartbeat, Submit, Goto, StartsPass,
                            GoTypes, Actors
        <4>2. CASE RecordResult(a)
          BY <3>2, <4>2 DEF RecordResult, StageFits, Rank
        <4> QED BY <3>4, <4>1, <4>2 DEF RunAutoAnalysis, AlreadyRunning, AnalyzerStep,
                                        Join, EndAnalysis
      <3>5. CASE \E x \in Actors : Heartbeat(x)
        BY <3>2, <3>5, BeatStays
      <3>6. CASE \E l \in Listers : ListStart(l) \/ ListFetch(l) \/ ListDone(l)
        <4>1. stage' = "listing" /\ ~readinessError(stage)
          BY <3>6, CallsCalm
        <4>2. stage = "ready"
          BY <3>2, <4>1, TypeParts DEF BasicInv, StageType, Stages, StageFits,
                                       readinessError
        <4> QED BY <4>1, <4>2 DEF Rank
      <3>7. CASE \/ \E w \in Waiters : WaitStart(w) \/ WaitStep(w) \/ WaitCancel(w)
                 \/ WatchStart \/ WatchStep \/ WatchTimeout
        <4>1. stage' = "listing" /\ ~readinessError(stage)
          BY <3>7, CallsCalm
        <4>2. stage = "ready"
          BY <3>2, <4>1, TypeParts DEF BasicInv, StageType, Stages, StageFits,
                                       readinessError
        <4> QED BY <4>1, <4>2 DEF Rank
      <3>8. CASE IdaFinish \/ WorkerExit \/ CloseStop \/ CloseUncache \/ UNCHANGED vars
        BY <3>8 DEF IdaFinish, WorkerExit, CloseStop, CloseUncache, vars
      <3> QED BY <2>3, <3>3, <3>4, <3>5, <3>6, <3>7, <3>8 DEF Next, CloseStep
    <2> QED BY <2>2, <2>3
  <1> QED BY <1>1, InitBasic, InitGuard, InitStage, StepBasic, StepGuard, StepStage,
             PTL DEF Spec, StageAdvances
=============================================================================
