----------------------------- MODULE Readiness ------------------------------
(***************************************************************************)
(* How one session becomes ready: the progress stage that open_binary's    *)
(* background goroutine, run_auto_analysis, watch_auto_analysis and        *)
(* waiting tool calls all write, the guard that admits one analysis pass,  *)
(* the heartbeats, the gate the analysis tools pass or do not pass, and    *)
(* what close_binary removes of all this.  (internal/server/session.go,    *)
(* util.go, progress.go, cache.go, and the worker's single IDA thread,     *)
(* python/worker/server.py.)                                               *)
(*                                                                         *)
(* Of a progress snapshot only the stage is kept.  The worker executes     *)
(* jobs one at a time in the order of their arrival.                       *)
(***************************************************************************)
EXTENDS Naturals, Sequences, FiniteSets

CONSTANTS
    Analyzers,     \* calls of run_auto_analysis
    Waiters,       \* tool calls with a progress token (resolveClientWait)
    Listers,       \* calls of get_functions, get_imports, get_exports or
                   \* get_strings, which report their own progress
    Opener,        \* the background goroutine of open_binary
    Faults,        \* "open", "plan": the worker reports failure;
                   \* "exit": the worker process dies
    SkipAnalysis,  \* the values skip_analysis may have
    AnalyzeEarly,  \* may run_auto_analysis arrive while the binary loads?
    Watching,      \* is there a watch_auto_analysis call?
    Closing        \* is there a close_binary call?

ASSUME OpenerAssumption == Opener \notin Analyzers
ASSUME FaultAssumption  == Faults \subseteq {"open", "plan", "exit"}
ASSUME FlagAssumption   == /\ SkipAnalysis \subseteq BOOLEAN
                           /\ AnalyzeEarly \in BOOLEAN /\ Watching \in BOOLEAN
                           /\ Closing \in BOOLEAN

Actors == Analyzers \cup {Opener}

VARIABLES
    stage,      \* the recorded progress stage
    active,     \* Session.analysisActive
    pc,         \* pc[x]: where the goroutine x is
    ok,         \* ok[x]: success of x's last worker call
    beating,    \* the goroutines whose heartbeat is running
    auto,       \* this open_binary asked for auto-analysis
    queue,      \* jobs of the worker's IDA thread; the head is being executed
    db,         \* is the IDA database open?
    dead,       \* has the worker process exited?
    wait,       \* wait[w]: the waiting tool call w, and the stage it read
    watch,      \* the watch_auto_analysis call, and the status it read
    list,       \* list[l]: where the list tool l is
    life,       \* the session: "open", then close_binary's steps "stopped",
                \* "uncached" and "closed"
    cached,     \* has the session an entry in the map of caches?
    disturbed,  \* history: a stage was recorded over that of somebody else
    overtaken   \* history: close_binary began while others were at work

goVars     == <<pc, ok, beating, auto>>
workerVars == <<queue, db, dead>>
sessVars   == <<life, cached, disturbed, overtaken>>
otherVars  == <<wait, watch, list, sessVars>>
vars == <<stage, active, goVars, workerVars, otherVars>>

inProgressStages == {"starting", "opening", "analyzing", "warming"}
Stages == inProgressStages \cup {"failed", "ready", "auto_analysis", "listing",
                                  "none"}

Init ==
    /\ stage = "starting"
    /\ active = FALSE
    /\ pc = [x \in Actors |-> IF x = Opener THEN "record" ELSE "idle"]
    /\ ok = [x \in Actors |-> TRUE]
    /\ beating = {}
    /\ auto \in {~skip : skip \in SkipAnalysis}
    /\ queue = <<>> /\ db = FALSE /\ dead = FALSE
    /\ wait  = [w \in Waiters |-> [pc |-> "idle", seen |-> "starting"]]
    /\ watch = [pc |-> "idle", running |-> FALSE]
    /\ list = [l \in Listers |-> "idle"]
    /\ life = "open" /\ cached = FALSE
    /\ disturbed = FALSE /\ overtaken = FALSE

----------------------------------------------------------------------------
(* Shared operations.                                                      *)

recordProgress(s) == stage' = s

readinessError(s) == s = "failed" \/ s \in inProgressStages

(* resolveClient: a worker client, and no readiness error.                 *)
Gate == ~dead /\ ~readinessError(stage)

Goto(x, l) == pc' = [pc EXCEPT ![x] = l]

(* An RPC on a dead worker fails; otherwise it waits in the worker's queue. *)
Submit(x, op, waiting, returned) ==
    \/ /\ ~dead
       /\ queue' = Append(queue, [who |-> x, op |-> op])
       /\ Goto(x, waiting)
       /\ UNCHANGED ok
    \/ /\ dead
       /\ ok' = [ok EXCEPT ![x] = FALSE]
       /\ Goto(x, returned)
       /\ UNCHANGED queue

(* withHeartbeat: the stage is recorded, the heartbeat starts, and then the *)
(* worker call is made.                                                     *)
withHeartbeat(x, s, op, waiting, returned) ==
    /\ recordProgress(s)
    /\ beating' = beating \cup {x}
    /\ Submit(x, op, waiting, returned)

BeatStage(x) == IF pc[x] \in {"open", "opened"} THEN "opening" ELSE "analyzing"

Heartbeat(x) ==
    /\ x \in beating
    /\ recordProgress(BeatStage(x))
    /\ UNCHANGED <<active, goVars, workerVars, otherVars>>

AfterCall(x) == IF pc[x] = "opened" THEN (IF ok[x] THEN "claim" ELSE "fail")
                ELSE IF x = Opener THEN "unclaim" ELSE "result"

(* A faulty variant: the heartbeat goroutine goes on.                       *)
JoinWithoutStop(x) ==
    /\ pc[x] \in {"opened", "planned"}
    /\ Goto(x, AfterCall(x))
    /\ UNCHANGED <<stage, active, ok, beating, auto, workerVars, otherVars>>

(* close(stop), then wait for the heartbeat goroutine to be gone.          *)
Join(x) ==
    /\ pc[x] \in {"opened", "planned"}
    /\ beating' = beating \ {x}
    /\ Goto(x, AfterCall(x))
    /\ UNCHANGED <<stage, active, ok, auto, workerVars, otherVars>>

----------------------------------------------------------------------------
(* open_binary's tail and backgroundOpen.                                  *)

RecordOpening ==
    /\ pc[Opener] = "record"
    /\ recordProgress("opening")
    /\ Goto(Opener, "begin")
    /\ UNCHANGED <<active, ok, beating, auto, workerVars, otherVars>>

BeginOpen ==
    /\ pc[Opener] = "begin"
    /\ withHeartbeat(Opener, "opening", "open", "open", "opened")
    /\ UNCHANGED <<active, auto, db, dead, otherVars>>

(* A faulty variant: no stage at all.                                       *)
FailOpenSilently ==
    /\ pc[Opener] = "fail"
    /\ Goto(Opener, "done")
    /\ UNCHANGED <<stage, active, ok, beating, auto, workerVars, otherVars>>

FailOpen ==
    /\ pc[Opener] = "fail"
    /\ recordProgress("failed")
    /\ Goto(Opener, "done")
    /\ UNCHANGED <<active, ok, beating, auto, workerVars, otherVars>>

(* A faulty variant: the guard is set but not tested.                       *)
OpenClaimUntested ==
    /\ pc[Opener] = "claim"
    /\ active' = (active \/ auto)
    /\ Goto(Opener, IF auto THEN "analyze" ELSE "ready")
    /\ UNCHANGED <<stage, ok, beating, auto, workerVars, otherVars>>

(* TryBeginAnalysis, unless analysis is skipped: the loser goes on to warm. *)
OpenClaim ==
    /\ pc[Opener] = "claim"
    /\ active' = (active \/ auto)
    /\ Goto(Opener, IF ~auto THEN "ready" ELSE IF active THEN "warm"
                    ELSE "analyze")
    /\ UNCHANGED <<stage, ok, beating, auto, workerVars, otherVars>>

(* A faulty variant: the pass starts without being recorded.                *)
BeginAnalysisUnrecorded(x) ==
    /\ pc[x] = "analyze"
    /\ Submit(x, "plan", "plan", "planned")
    /\ UNCHANGED <<stage, active, beating, auto, db, dead, otherVars>>

(* executeAnalysisWithHeartbeat, for the opener and for run_auto_analysis. *)
BeginAnalysis(x) ==
    /\ pc[x] = "analyze"
    /\ withHeartbeat(x, "analyzing", "plan", "plan", "planned")
    /\ UNCHANGED <<active, auto, db, dead, otherVars>>

(* A faulty variant: the guard is only released after a success.            *)
EndAnalysisOnSuccess(x) ==
    /\ pc[x] = "unclaim"
    /\ active' = ~ok[x]
    /\ Goto(x, IF x = Opener THEN "warm" ELSE "done")
    /\ UNCHANGED <<stage, ok, beating, auto, workerVars, otherVars>>

EndAnalysis(x) ==
    /\ pc[x] = "unclaim"
    /\ active' = FALSE
    /\ Goto(x, IF x = Opener THEN "warm" ELSE "done")
    /\ UNCHANGED <<stage, ok, beating, auto, workerVars, otherVars>>

(* warmSessionCache: nothing without a client; errors are ignored.  The    *)
(* session may be closed between the look at the client and the entry.     *)
WarmClient ==
    /\ pc[Opener] = "warm" /\ ~dead
    /\ Goto(Opener, "cache")
    /\ UNCHANGED <<stage, active, ok, beating, auto, workerVars, otherVars>>

WarmCache ==
    /\ pc[Opener] = "cache"
    /\ cached' = TRUE
    /\ recordProgress("warming")
    /\ Submit(Opener, "read", "warming", "ready")
    /\ UNCHANGED <<active, beating, auto, db, dead, wait, watch, list, life,
                   disturbed, overtaken>>

WarmSkipped ==
    /\ pc[Opener] = "warm" /\ dead
    /\ Goto(Opener, "ready")
    /\ UNCHANGED <<stage, active, ok, beating, auto, workerVars, otherVars>>

RecordReady ==
    /\ pc[Opener] = "ready"
    /\ recordProgress("ready")
    /\ Goto(Opener, "done")
    /\ UNCHANGED <<active, ok, beating, auto, workerVars, otherVars>>

OpenerStep ==
    \/ RecordOpening \/ BeginOpen \/ FailOpen \/ OpenClaim
    \/ WarmClient \/ WarmCache \/ WarmSkipped \/ RecordReady
    \/ Join(Opener) \/ BeginAnalysis(Opener) \/ EndAnalysis(Opener)

----------------------------------------------------------------------------
(* run_auto_analysis and its detached goroutine.                           *)

RunAutoAnalysis(a) ==
    /\ pc[a] = "idle" /\ ~dead
    /\ AnalyzeEarly \/ pc[Opener] = "done"
    /\ ~active
    /\ active' = TRUE
    /\ Goto(a, "analyze")
    /\ disturbed' = (disturbed \/ pc[Opener] # "done")
    /\ UNCHANGED <<stage, ok, beating, auto, workerVars, wait, watch, list, life,
                   cached, overtaken>>

(* A pass is running: the call is answered and starts nothing.             *)
AlreadyRunning(a) ==
    /\ pc[a] = "idle" /\ ~dead
    /\ AnalyzeEarly \/ pc[Opener] = "done"
    /\ active
    /\ Goto(a, "done")
    /\ UNCHANGED <<stage, active, ok, beating, auto, workerVars, otherVars>>

(* After a success the caches are dropped.  The terminal stage is recorded *)
(* while the guard is still held.                                          *)
RecordResult(a) ==
    /\ pc[a] = "result"
    /\ recordProgress(IF ok[a] THEN "ready" ELSE "failed")
    /\ cached' = (cached /\ ~ok[a])
    /\ Goto(a, "unclaim")
    /\ UNCHANGED <<active, ok, beating, auto, workerVars, wait, watch, list, life,
                   disturbed, overtaken>>

AnalyzerStep(a) ==
    BeginAnalysis(a) \/ Join(a) \/ RecordResult(a) \/ EndAnalysis(a)

----------------------------------------------------------------------------
(* The worker.  Every job but a plain open of an open database starts by   *)
(* making sure the database is open.                                       *)

(* Where a goroutine goes on when its worker call returns.                 *)
Unblocked(l) == CASE l = "open"    -> "opened"
                  [] l = "plan"    -> "planned"
                  [] l = "warming" -> "ready"
                  [] OTHER         -> l

(* The head of the queue is done: success, a failed open (the database     *)
(* stays closed) or a failed analysis (the database is open).              *)
IdaFinish ==
    /\ queue # <<>> /\ ~dead
    /\ LET job == Head(queue) IN
       /\ \/ db' = TRUE /\ ok' = [ok EXCEPT ![job.who] = TRUE]
          \/ /\ ~db /\ "open" \in Faults
             /\ db' = FALSE /\ ok' = [ok EXCEPT ![job.who] = FALSE]
          \/ /\ job.op = "plan" /\ "plan" \in Faults
             /\ db' = TRUE /\ ok' = [ok EXCEPT ![job.who] = FALSE]
       /\ Goto(job.who, Unblocked(pc[job.who]))
    /\ queue' = Tail(queue)
    /\ UNCHANGED <<stage, active, beating, auto, dead, otherVars>>

(* Every call under way fails.                                             *)
Die ==
    /\ dead' = TRUE /\ db' = FALSE /\ queue' = <<>>
    /\ pc' = [x \in Actors |-> Unblocked(pc[x])]
    /\ ok' = [x \in Actors |-> ok[x] /\ Unblocked(pc[x]) = pc[x]]

WorkerExit ==
    /\ "exit" \in Faults /\ ~dead
    /\ Die
    /\ UNCHANGED <<stage, active, beating, auto, otherVars>>

(* What GetSessionInfo answers without entering the IDA thread.            *)
AutoRunning == /\ queue # <<>>
               /\ ~db \/ Head(queue).op = "plan"

----------------------------------------------------------------------------
(* resolveClientWait and waitForReady.  The stage is read twice, and then  *)
(* the stage of the second read is emitted, which records it again.        *)

WaitFor(w, l) == wait' = [wait EXCEPT ![w].pc = l]

WaitStart(w) ==
    /\ wait[w].pc = "idle" /\ ~dead
    /\ readinessError(stage)
    /\ WaitFor(w, "check")
    /\ UNCHANGED <<stage, active, goVars, workerVars, watch, list, sessVars>>

WaitCheck(w) ==
    /\ wait[w].pc = "check"
    /\ WaitFor(w, IF readinessError(stage) THEN "read" ELSE "done")
    /\ UNCHANGED <<stage, active, goVars, workerVars, watch, list, sessVars>>

WaitRead(w) ==
    /\ wait[w].pc = "read"
    /\ wait' = [wait EXCEPT ![w] = [pc |-> "emit", seen |-> stage]]
    /\ UNCHANGED <<stage, active, goVars, workerVars, watch, list, sessVars>>

WaitEmit(w) ==
    /\ wait[w].pc = "emit"
    /\ recordProgress(wait[w].seen)
    /\ disturbed' = (disturbed \/ stage # wait[w].seen)
    /\ WaitFor(w, "sleep")
    /\ UNCHANGED <<active, goVars, workerVars, watch, list, life, cached, overtaken>>

WaitTick(w) ==
    /\ wait[w].pc = "sleep"
    /\ WaitFor(w, "check")
    /\ UNCHANGED <<stage, active, goVars, workerVars, watch, list, sessVars>>

(* The client gives up (ctx.Done).                                         *)
WaitCancel(w) ==
    /\ wait[w].pc = "sleep"
    /\ WaitFor(w, "cancelled")
    /\ UNCHANGED <<stage, active, goVars, workerVars, watch, list, sessVars>>

WaitStep(w) == WaitCheck(w) \/ WaitRead(w) \/ WaitEmit(w) \/ WaitTick(w)

----------------------------------------------------------------------------
(* watch_auto_analysis, whose updates are recorded as the progress stage.  *)

WatchStart ==
    /\ Watching /\ watch.pc = "idle" /\ ~dead
    /\ watch' = [watch EXCEPT !.pc = "info"]
    /\ UNCHANGED <<stage, active, goVars, workerVars, wait, list, sessVars>>

WatchInfo ==
    /\ watch.pc = "info"
    /\ watch' = IF dead THEN [watch EXCEPT !.pc = "done"]
                ELSE [pc |-> "emit", running |-> AutoRunning]
    /\ UNCHANGED <<stage, active, goVars, workerVars, wait, list, sessVars>>

WatchEmit ==
    /\ watch.pc = "emit"
    /\ recordProgress("auto_analysis")
    /\ disturbed' = TRUE
    /\ watch' = [watch EXCEPT !.pc = IF watch.running THEN "sleep" ELSE "final"]
    /\ UNCHANGED <<active, goVars, workerVars, wait, list, life, cached, overtaken>>

WatchTick ==
    /\ watch.pc = "sleep"
    /\ watch' = [watch EXCEPT !.pc = "info"]
    /\ UNCHANGED <<stage, active, goVars, workerVars, wait, list, sessVars>>

(* The watch's context ends: while it sleeps, or while it asks.            *)
WatchTimeout ==
    /\ watch.pc \in {"sleep", "info"}
    /\ watch' = [watch EXCEPT !.pc = "done"]
    /\ UNCHANGED <<stage, active, goVars, workerVars, wait, list, sessVars>>

WatchFinal ==
    /\ watch.pc = "final"
    /\ recordProgress("auto_analysis")
    /\ disturbed' = TRUE
    /\ watch' = [watch EXCEPT !.pc = "done"]
    /\ UNCHANGED <<active, goVars, workerVars, wait, list, life, cached, overtaken>>

WatchStep == WatchInfo \/ WatchEmit \/ WatchTick \/ WatchFinal

----------------------------------------------------------------------------
(* get_functions and its kin: past the gate they get the session's cache,  *)
(* fetch the list or find it there, and report before and after, which     *)
(* records their own stage whatever the session is doing.                  *)

ListStart(l) ==
    /\ list[l] = "idle" /\ Gate
    /\ list' = [list EXCEPT ![l] = "cache"]
    /\ UNCHANGED <<stage, active, goVars, workerVars, wait, watch, sessVars>>

ListEmit ==
    /\ recordProgress("listing")
    /\ disturbed' = (disturbed \/ readinessError(stage))

ListFetch(l) ==
    /\ list[l] = "cache"
    /\ cached' = TRUE
    /\ ListEmit
    /\ list' = [list EXCEPT ![l] = "fetch"]
    /\ UNCHANGED <<active, goVars, workerVars, wait, watch, life, overtaken>>

ListDone(l) ==
    /\ list[l] = "fetch"
    /\ ListEmit
    /\ list' = [list EXCEPT ![l] = "done"]
    /\ UNCHANGED <<active, goVars, workerVars, wait, watch, life, cached, overtaken>>

----------------------------------------------------------------------------
(* close_binary: the worker is stopped, then the session's cache and its   *)
(* progress are dropped.                                                   *)

AtWork == \/ \E x \in Actors : pc[x] \notin {"idle", "done"}
          \/ \E w \in Waiters : wait[w].pc \notin {"idle", "done", "cancelled"}
          \/ \E l \in Listers : list[l] \notin {"idle", "done"}
          \/ watch.pc \notin {"idle", "done"}

CloseStop ==
    /\ Closing /\ life = "open"
    /\ IF dead THEN UNCHANGED <<pc, ok, workerVars>> ELSE Die
    /\ life' = "stopped" /\ overtaken' = AtWork
    /\ UNCHANGED <<stage, active, beating, auto, wait, watch, list, cached,
                   disturbed>>

(* A faulty variant: the caches stay.                                       *)
CloseKeepsCache ==
    /\ life = "stopped"
    /\ life' = "uncached"
    /\ UNCHANGED <<stage, active, goVars, workerVars, wait, watch, list, cached,
                   disturbed, overtaken>>

CloseUncache ==
    /\ life = "stopped"
    /\ life' = "uncached" /\ cached' = FALSE
    /\ UNCHANGED <<stage, active, goVars, workerVars, wait, watch, list, disturbed,
                   overtaken>>

clearProgress ==
    /\ life = "uncached"
    /\ life' = "closed" /\ stage' = "none"
    /\ UNCHANGED <<active, goVars, workerVars, wait, watch, list, cached, disturbed,
                   overtaken>>

CloseStep == CloseStop \/ CloseUncache \/ clearProgress

----------------------------------------------------------------------------

Next ==
    \/ OpenerStep
    \/ \E a \in Analyzers : \/ RunAutoAnalysis(a) \/ AlreadyRunning(a)
                           \/ AnalyzerStep(a)
    \/ \E x \in Actors : Heartbeat(x)
    \/ IdaFinish
    \/ WorkerExit
    \/ \E w \in Waiters : WaitStart(w) \/ WaitStep(w) \/ WaitCancel(w)
    \/ WatchStart \/ WatchStep \/ WatchTimeout
    \/ \E l \in Listers : ListStart(l) \/ ListFetch(l) \/ ListDone(l)
    \/ CloseStep

Spec == Init /\ [][Next]_vars

(* The server's goroutines and the worker's IDA thread make progress.       *)
(* Clients, timeouts, heartbeat ticks and worker exits are not forced.      *)
Fairness ==
    /\ WF_vars(OpenerStep)
    /\ WF_vars(IdaFinish)
    /\ \A a \in Analyzers : WF_vars(AnalyzerStep(a))
    /\ \A w \in Waiters : WF_vars(WaitStep(w))
    /\ WF_vars(WatchStep)

FairSpec == Spec /\ Fairness

----------------------------------------------------------------------------

PcLabels == {"idle", "record", "begin", "open", "opened", "fail", "claim",
             "analyze", "plan", "planned", "unclaim", "warm", "cache", "warming",
             "ready", "result", "done"}

TypeOK ==
    /\ stage \in Stages
    /\ active \in BOOLEAN
    /\ pc \in [Actors -> PcLabels]
    /\ ok \in [Actors -> BOOLEAN]
    /\ beating \subseteq Actors
    /\ auto \in BOOLEAN
    /\ queue \in Seq([who : Actors, op : {"open", "plan", "read"}])
    /\ db \in BOOLEAN /\ dead \in BOOLEAN
    /\ wait \in [Waiters -> [pc : {"idle", "check", "read", "emit", "sleep",
                                  "done", "cancelled"}, seen : Stages]]
    /\ watch \in [pc : {"idle", "info", "emit", "sleep", "final", "done"},
                  running : BOOLEAN]
    /\ list \in [Listers -> {"idle", "cache", "fetch", "done"}]
    /\ life \in {"open", "stopped", "uncached", "closed"}
    /\ cached \in BOOLEAN /\ disturbed \in BOOLEAN /\ overtaken \in BOOLEAN

(* Between the claim of the analysis guard and its release.                 *)
InPass(x) == pc[x] \in {"analyze", "plan", "planned", "unclaim", "result"}

(* analysisActive: "only one plan_and_wait pass runs per session at a time  *)
(* (open_binary's auto-analysis vs. a concurrent run_auto_analysis call)".  *)
OnePass == \A x, y \in Actors : InPass(x) /\ InPass(y) => x = y

(* The guard is neither lost nor leaked: it is set exactly while a          *)
(* goroutine is in a pass, whatever fails on the way.                       *)
GuardHeld == active <=> \E x \in Actors : InPass(x)

(* The gate of the analysis tools: a call is accepted only when the         *)
(* database is open and no analysis pass is waiting or running in the       *)
(* worker.  resolveClient: "a call made before the binary has finished      *)
(* loading/auto-analysis is rejected".                                      *)
PassQueued == \E i \in 1..Len(queue) : queue[i].op = "plan"
GateSound == Gate => db /\ ~PassQueued

(* The gate is sound as long as nobody records a stage that is not his to   *)
(* record: a watch, a waiting call with an outdated stage, a list tool that *)
(* reports over a load, a pass or a failure, or a run_auto_analysis that    *)
(* did not wait for the load.                                               *)
GateSoundUndisturbed == ~disturbed => GateSound

(* Until then the stage only advances, from starting to ready or failed,    *)
(* and goes back only at the start of a new pass: no heartbeat writes after *)
(* its call has returned ("no stale write lands after the caller records    *)
(* the next stage"), readiness does not flap, and a failed session stays    *)
(* failed until it is analyzed again or closed.                             *)
Rank(s) == CASE s = "starting"           -> 0
             [] s = "opening"            -> 1
             [] s = "analyzing"          -> 2
             [] s = "warming"            -> 3
             [] s = "ready"              -> 4
             [] s = "none"               -> 6
             [] OTHER                    -> 5
StartsPass(a) == pc[a] = "analyze" /\ pc'[a] # "analyze"
StageAdvances ==
    [][\/ disturbed' \/ life = "closed"
       \/ Rank(stage') > Rank(stage)
       \/ \E a \in Analyzers : StartsPass(a)]_stage

(* Polling ends: once the calls on an open session are over the stage is    *)
(* ready, failed, or that of a list tool, so that an agent that polls       *)
(* get_session_progress stops.                                              *)
Rests ==
    ~AtWork /\ ~disturbed /\ life = "open" =>
        stage \in {"ready", "failed", "listing"}

(* close_binary leaves nothing of its session in the server's maps, unless  *)
(* a goroutine or a call was at work when it began and writes after it.     *)
LeftoversExcused ==
    life = "closed" /\ ~overtaken => stage = "none" /\ ~cached

(* resolveClientWait "blocks and streams progress notifications via MCP SSE *)
(* until the session becomes ready": a waiting call whose client does not   *)
(* give up gets through.                                                    *)
WaiterServed ==
    \A w \in Waiters :
        wait[w].pc = "check" ~> wait[w].pc \in {"done", "cancelled"}
=============================================================================
