----------------------------- MODULE ToolCalls ------------------------------
(***************************************************************************)
(* Calls of the tools: what the steps of the handlers' scripts do, in the  *)
(* presence of other calls, of sessions that come and go and of workers    *)
(* that die.  Composes the scripts (ToolHandlers, ToolSchemas), the tiers  *)
(* (ToolTiers) and the store of long replies (OutputCache).                *)
(*                                                                         *)
(* Of a session this module keeps whether it is registered, the stage of   *)
(* its progress, whether it has a worker, and its analysis notes; of the   *)
(* notes, the one on some address.  Lifecycle, Readiness and SessionCaches *)
(* have the rest.                                                          *)
(***************************************************************************)
EXTENDS ToolSchemas, ToolTiers, OutputCache

CONSTANTS
    Sessions,  \* the sessions, in the order of the registry's list
    Callers,   \* calls in flight
    ToolsOf,   \* ToolsOf[c]: the tools caller c calls
    Pager      \* the caller that pages through lists and stored replies

(* A session's id is eight digits of a UUID (registry.go:129): neither the  *)
(* absent session nor an omitted id is one.                                 *)
ASSUME CallsAssumption ==
    /\ ToolsOf \in [Callers -> SUBSET Tools] /\ Pager \in Callers
    /\ \A k \in 1..Len(Sessions) : Sessions[k] \notin {None, "omitted"}

VARIABLES
    registry,  \* the registered sessions
    opened,    \* the sessions ever opened; an id is not used twice
    stage,     \* stage[s]: the progress recorded for s, or None
    jobs,      \* jobs[s]: what runs in the background: "pass", and "load",
               \* which goes on as "warm" and "warmed"
    workers,   \* the sessions with a worker
    notes,     \* notes[s]: the note in the session cache of s
    call,      \* call[c]: the call c is making, its reply, or Idle
    orphans,   \* calls to the worker whose handler has returned
    kept,      \* history: the sessions whose note was accepted and not dropped
    outlived   \* history: the sessions closed under a call that had found them,
               \* or under a load that was about to warm their cache

sessionVars == <<registry, opened, stage, jobs, workers>>
noteVars    == <<notes, kept, outlived>>
vars == <<sessionVars, noteVars, call, orphans, tierVars, outputVars>>

SessionSet == {Sessions[k] : k \in 1..Len(Sessions)}
Omitted == "omitted"   \* an omitted session_id

(* What is remembered of a call that has returned: of one that succeeded    *)
(* what its reply lacks and names, of one that was refused whether it had   *)
(* changed anything.                                                        *)
Refusals == {"refused", "invalid"}

Returned(tool, why, failed, told, touched) ==
    [state |-> "returned", tool |-> tool, why |-> why,
     failed |-> IF why = "ok" THEN failed ELSE {},
     told |-> IF why = "ok" THEN told ELSE {},
     touched |-> why \in Refusals /\ touched]

Init ==
    /\ registry = {} /\ opened = {} /\ workers = {}
    /\ stage = [s \in SessionSet |-> None] /\ jobs = [s \in SessionSet |-> {}]
    /\ notes = [s \in SessionSet |-> "absent"]
    /\ call = [c \in Callers |-> Idle]
    /\ orphans = {} /\ kept = {} /\ outlived = {}
    /\ RegisterTools /\ OutputInit

Busy(c)  == call[c].state \notin {"idle", "returned"}
Now(c)   == Head(call[c].todo)
Runs(c, op) == call[c].state = "running" /\ call[c].todo # <<>> /\ Now(c).op = op

(* The call goes on with its next step, or returns an error.                *)
Advance(c) == call' = [call EXCEPT ![c].todo = Tail(@)]
Return(c, why) ==
    call' = [call EXCEPT ![c] = Returned(@.tool, why, @.failed, @.told, @.touched)]

-----------------------------------------------------------------------------
(* The client calls a tool it is offered, with a request that gets through  *)
(* the schema.  token holds what is left open of whether the request        *)
(* carries a progress token, which is settled when it first matters.  An id *)
(* no session ever had is refused like that of a closed one.                *)
Targets(tool) ==
    CASE tool = "cross_reference" -> {<<s, t>> : s, t \in opened}
      [] tool = "cross_search"    -> {<<>>, Sessions}
      [] OTHER                    -> {<<s>> : s \in opened \cup {Omitted}}

Begin(c) ==
    /\ call[c] = Idle
    /\ \E tool \in ToolsOf[c] \cap registered :
       \E script \in ScriptsOf[tool], ids \in Targets(tool) :
          call' = [call EXCEPT ![c] =
              [state |-> "running", tool |-> tool, todo |-> script, ids |-> ids,
               passed |-> {}, token |-> BOOLEAN, found |-> <<None, None>>,
               awaits |-> None, cache |-> "none", asked |-> {}, failed |-> {},
               told |-> {}, touched |-> FALSE]]
    /\ UNCHANGED <<sessionVars, noteVars, orphans, tierVars, outputVars>>

Untouched == UNCHANGED <<sessionVars, noteVars, orphans, tierVars, outputVars>>

(* The reply reaches the client.                                            *)
Deliver(c) ==
    /\ call[c].state = "returned"
    /\ call' = [call EXCEPT ![c] = Idle]
    /\ Untouched

(* An argument is tested.  It may be missing or malformed, unless it has    *)
(* passed the test before.                                                  *)
Checks(c) ==
    /\ Runs(c, "check")
    /\ \/ Now(c).arg \notin call[c].passed /\ Return(c, "refused")
       \/ call' = [call EXCEPT ![c].passed = @ \cup {Now(c).arg}, ![c].todo = Tail(@)]
    /\ Untouched

Refuses(c) ==
    /\ \/ Runs(c, "refuse") /\ Return(c, "refused")
       \/ Runs(c, "invalid") /\ Return(c, "invalid")
    /\ Untouched

(* resolveSession: an omitted id stands for the only session there is.      *)
resolveSession(id) ==
    IF id = Omitted THEN IF Cardinality(registry) = 1 THEN registry ELSE {}
                 ELSE registry \cap {id}

(* readinessError: a session without a progress snapshot is ready.          *)
Ready(s) == stage[s] \notin {"busy", "failed"}

(* resolveClientDuringLoad, resolveClient and resolveClientWait, which      *)
(* blocks when the request carries a progress token.                        *)
Resolution(s, how, token) ==
    CASE s = None                                -> "no session"
      [] s # None /\ how # "session" /\ s \notin workers -> "no worker"
      [] OTHER -> IF how \in {"session", "load"} \/ Ready(s) THEN "found"
                  ELSE IF how = "wait" /\ token THEN "wait" ELSE "not ready"

Label == <<"first session", "second session">>

Resolves(c) ==
    /\ Runs(c, "resolve") \/ Runs(c, "attempt")
    /\ LET step == Now(c)
           hits == resolveSession(call[c].ids[step.at])
       IN  \E s \in IF hits = {} THEN {None} ELSE hits, token \in call[c].token :
             LET r == Resolution(s, step.how, token)
                 left == IF r \in {"wait", "not ready"} THEN {token} ELSE call[c].token
             IN  IF r \in {"found", "wait"}
                 THEN call' = [call EXCEPT
                        ![c].found[step.at] = s, ![c].todo = Tail(@), ![c].token = left,
                        ![c].state = IF r = "wait" THEN "waiting" ELSE @,
                        ![c].awaits = IF r = "wait" THEN s ELSE @]
                 ELSE IF step.op = "resolve" THEN Return(c, r)
                 ELSE call' = [call EXCEPT      \* cross_search goes on without it
                        ![c].todo = Tail(Tail(@)), ![c].token = left,
                        ![c].failed = @ \cup {Label[step.at]},
                        ![c].told = @ \cup {Label[step.at]}]
    /\ Untouched

(* waitForReady: the session is ready, or the client gives up, and nobody   *)
(* waits for the reply.                                                     *)
waitForReady(c) ==
    /\ call[c].state = "waiting"
    /\ Ready(call[c].awaits)
    /\ call' = [call EXCEPT ![c].state = "running", ![c].awaits = None]
    /\ Untouched

GivesUp(c) ==
    /\ call[c].state = "waiting"
    /\ Return(c, "gave up")
    /\ Untouched

-----------------------------------------------------------------------------
(* Calls to the worker go out, side by side.  The two directions of the     *)
(* references may be in the session cache together.                         *)
Asks(c) ==
    /\ Runs(c, "ask") \/ Runs(c, "race")
    /\ \/ call' = [call EXCEPT
             ![c].state = "asking", ![c].asked = Now(c).parts,
             ![c].touched = @ \/ (\E p \in Now(c).parts : p.writes)]
       \/ Runs(c, "race") /\ Advance(c)
    /\ Untouched

Rpcs(parts) == {p.rpc : p \in parts}

(* runLabeled, and a call on its own: all answers are awaited, then the     *)
(* handler makes of the failures what it makes of them.                     *)
Collects(c, left, failures) ==
    LET failed == call[c].failed \cup failures
        among(on) == Rpcs({p \in Now(c).parts : p.on = on}) \cap failed
    IN  IF left # {}
        THEN call' = [call EXCEPT ![c].asked = left, ![c].failed = failed]
        ELSE IF among("must") # {} THEN Return(c, "failed")
        ELSE call' = [call EXCEPT
               ![c].asked = {}, ![c].failed = failed, ![c].state = "running",
               ![c].told = @ \cup among("told"), ![c].todo = Tail(@)]

(* getXRefs: the first failure ends the handler.                            *)
firstFailureReturns(c, left, failures) ==
    IF failures # {}
    THEN Return(c, "failed") /\ orphans' = orphans \cup Rpcs(left)
    ELSE Collects(c, left, failures) /\ UNCHANGED orphans

(* A faulty variant: the results are collected up to the first failure.     *)
runLabeledHasty(c, left, failures) == firstFailureReturns(c, left, failures)

runLabeled(c, left, failures) == Collects(c, left, failures) /\ UNCHANGED orphans

(* A call is answered by a live worker, or from the cache, or it fails.     *)
Answers(c) ==
    /\ call[c].state = "asking"
    /\ \E p \in call[c].asked, ok \in BOOLEAN :
          LET left     == call[c].asked \ {p}
              failures == IF ok THEN {} ELSE {p.rpc}
          IN  /\ ok => p.held \/ call[c].found[Now(c).at] \in workers
              /\ IF Now(c).op = "race" THEN firstFailureReturns(c, left, failures)
                                       ELSE runLabeled(c, left, failures)
    /\ UNCHANGED <<sessionVars, noteVars, tierVars, outputVars>>

(* A call nobody waits for is cancelled with the context of its handler.    *)
OrphanEnds ==
    /\ \E rpc \in orphans : orphans' = orphans \ {rpc}
    /\ UNCHANGED <<sessionVars, noteVars, call, tierVars, outputVars>>

(* inspect fails when all its calls have failed.                            *)
Judges(c) ==
    /\ Runs(c, "some")
    /\ IF Inspected \subseteq call[c].failed THEN Return(c, "failed") ELSE Advance(c)
    /\ Untouched

(* cross_reference: the name is there, or it is asked for as a function's,  *)
(* or there is none and the reply says so.                                  *)
Names(c) ==
    /\ \/ Runs(c, "named") /\ Advance(c)
       \/ Runs(c, "named")
            /\ call' = [call EXCEPT ![c].todo =
                    <<Silent("GetFunctionName"), Step("function")>> \o Tail(@)]
       \/ Runs(c, "function") /\ "GetFunctionName" \notin call[c].failed /\ Advance(c)
       \/ Runs(c, "function") /\ call' = [call EXCEPT ![c].todo = <<>>]
    /\ Untouched

(* cross_search: the sessions named, or all of them.                        *)
Registered == SelectSeq(Sessions, LAMBDA s : s \in registry)

Searches(c) ==
    /\ \/ /\ Runs(c, "sessions")
          /\ LET ids == IF call[c].ids = <<>> THEN Registered ELSE call[c].ids
             IN  IF ids = <<>> THEN Return(c, "no session")
                 ELSE call' = [call EXCEPT ![c].ids = ids, ![c].todo = Tail(@)]
       \/ /\ Runs(c, "search")
          /\ call' = [call EXCEPT ![c].todo =
                 crossSearchOne(1, Now(c).mode)
                     \o (IF Len(call[c].ids) > 1 THEN crossSearchOne(2, Now(c).mode)
                                                 ELSE <<>>)]
    /\ Untouched

-----------------------------------------------------------------------------
(* What the handlers change in the server.                                  *)
Session(c) == call[c].found[1]

(* getSessionCache makes the cache of a session that has none, closed or    *)
(* not.                                                                     *)
getSessionCache(c) ==
    /\ Runs(c, "cache") \/ Runs(c, "cacheIfNamed")
    /\ notes' = [notes EXCEPT ![Session(c)] = IF @ = "absent" THEN "empty" ELSE @]
    /\ call' = [call EXCEPT ![c].cache = "held", ![c].todo = Tail(@)]
    /\ UNCHANGED <<sessionVars, kept, outlived, orphans, tierVars, outputVars>>

(* The old name was not to be had, or empty: set_type global leaves it.     *)
LeavesCache(c) ==
    /\ Runs(c, "cacheIfNamed")
    /\ Advance(c)
    /\ Untouched

(* A faulty variant: a visit replaces the note.                             *)
markVisitedAnew(note) == "visited"
(* markVisited keeps the note it finds, setNote does not.                   *)
markVisited(note) == IF note \in {"absent", "empty"} THEN "visited" ELSE note

setNote(text) == IF text THEN "noted" ELSE "visited"

(* The cache the call has a pointer to may have been dropped meanwhile:     *)
(* then the note goes nowhere.                                              *)
Writes(c, note) ==
    /\ notes' = IF call[c].cache = "held" THEN [notes EXCEPT ![Session(c)] = note]
                                           ELSE notes
    /\ call' = [call EXCEPT ![c].todo = Tail(@), ![c].touched = TRUE]
    /\ UNCHANGED <<sessionVars, outlived, orphans, tierVars, outputVars>>

Visits(c) ==
    /\ Runs(c, "visit")
    /\ Writes(c, markVisited(notes[Session(c)]))
    /\ UNCHANGED kept

Notes(c) ==
    /\ Runs(c, "note")
    /\ Writes(c, setNote(Now(c).note))
    /\ kept' = IF call[c].cache # "held" THEN kept
               ELSE IF Now(c).note THEN kept \cup {Session(c)} ELSE kept \ {Session(c)}

(* prune_context: all stored outputs go, whosever they are.                 *)
Clears(c) ==
    /\ Runs(c, "clear")
    /\ clear
    /\ call' = [call EXCEPT ![c].todo = Tail(@), ![c].touched = TRUE]
    /\ UNCHANGED <<sessionVars, noteVars, orphans, tierVars, now, reader>>

Promotes(c) ==
    /\ Runs(c, "promote")
    /\ promoteToTier(2)
    /\ call' = [call EXCEPT ![c].todo = Tail(@), ![c].touched = TRUE]
    /\ UNCHANGED <<sessionVars, noteVars, orphans, outputVars>>

(* The handler is done.  addToolWithCache sends a long reply to the store.  *)
addToolWithCache(c) ==
    /\ call[c].state = "running" /\ call[c].todo = <<>>
    /\ Return(c, "ok")
    /\ \E form \in {"text", "json"}, len \in Lengths : maybeCacheResult(form, len)
    /\ UNCHANGED <<sessionVars, noteVars, orphans, tierVars, now>>

-----------------------------------------------------------------------------
(* open_binary, close_binary, run_auto_analysis and what they leave running *)
(* in the background.                                                       *)

(* deleteSessionCache: the notes go, and the pointers calls have are stale. *)
Stale(s) == [c \in Callers |->
    IF Busy(c) /\ call[c].cache = "held" /\ Session(c) = s
    THEN [call[c] EXCEPT !.cache = "stale"] ELSE call[c]]

(* A faulty variant: the cache stays.                                       *)
deleteSessionCacheNot(s) == UNCHANGED <<notes, kept>>
deleteSessionCache(s) ==
    /\ notes' = [notes EXCEPT ![s] = "absent"]
    /\ kept' = kept \ {s}

(* Whoever could still make the cache of s: another call that has found s,  *)
(* or a load with a client to warm it by.                                   *)
Outlives(c, s) ==
    \/ \E d \in Callers \ {c} : Busy(d) /\ \E i \in 1..2 : call[d].found[i] = s
    \/ "warm" \in jobs[s] \/ ("load" \in jobs[s] /\ s \in workers)

Creates(c) ==
    /\ Runs(c, "create")
    /\ \/ \E s \in SessionSet \ opened :
            /\ registry' = registry \cup {s} /\ opened' = opened \cup {s}
            /\ stage' = [stage EXCEPT ![s] = "busy"]
            /\ call' = [call EXCEPT ![c].found[1] = s, ![c].todo = Tail(@)]
       \/ \E s \in registry :        \* the binary is open already
            /\ call' = [call EXCEPT ![c].found[1] = s, ![c].todo = reuseSession]
            /\ UNCHANGED <<registry, opened, stage>>
       \/ Return(c, "failed") /\ UNCHANGED <<registry, opened, stage>>
    /\ UNCHANGED <<jobs, workers, noteVars, orphans, tierVars, outputVars>>

(* The worker starts, and loads the binary in the background; or it does    *)
(* not, and the session goes.                                               *)
Starts(c) ==
    /\ Runs(c, "start")
    /\ LET s == Session(c)
       IN  \/ /\ workers' = workers \cup {s}
              /\ jobs' = [jobs EXCEPT ![s] = {"load"}]
              /\ Advance(c)
              /\ UNCHANGED <<registry, stage, notes, kept, outlived>>
           \/ /\ registry' = registry \ {s}
              /\ stage' = [stage EXCEPT ![s] = None]
              /\ deleteSessionCache(s)
              /\ outlived' = IF Outlives(c, s) THEN outlived \cup {s} ELSE outlived
              /\ call' = [Stale(s) EXCEPT ![c] =
                     Returned(@.tool, "failed", {}, {}, FALSE)]
              /\ UNCHANGED <<workers, jobs>>
    /\ UNCHANGED <<opened, orphans, tierVars, outputVars>>

PromotesToRead(c) ==
    /\ Runs(c, "promote1")
    /\ promoteToTier(1)
    /\ Advance(c)
    /\ UNCHANGED <<sessionVars, noteVars, orphans, outputVars>>

(* Workers.Stop, then registry.Delete.  A worker that cannot be killed      *)
(* keeps its client.                                                        *)
Stops(c) ==
    /\ Runs(c, "stop")
    /\ workers' \in {workers, workers \ {Session(c)}}
    /\ Advance(c)
    /\ UNCHANGED <<registry, opened, stage, jobs, noteVars, orphans, tierVars,
                   outputVars>>

Deletes(c) ==
    /\ Runs(c, "delete")
    /\ registry' = registry \ {Session(c)}
    /\ Advance(c)
    /\ UNCHANGED <<opened, stage, jobs, workers, noteVars, orphans, tierVars,
                   outputVars>>

Uncaches(c) ==
    /\ Runs(c, "uncache")
    /\ LET s == Session(c)
       IN  /\ deleteSessionCache(s)
           /\ stage' = [stage EXCEPT ![s] = None]
           /\ call' = [Stale(s) EXCEPT ![c].todo = Tail(@)]
           /\ outlived' = IF Outlives(c, s) THEN outlived \cup {s} ELSE outlived
    /\ UNCHANGED <<registry, opened, jobs, workers, orphans, tierVars, outputVars>>

(* The list of the sessions, and the demotion when it was empty.            *)
Lists(c) ==
    /\ Runs(c, "list")
    /\ IF registry = {} THEN Advance(c) ELSE call' = [call EXCEPT ![c].todo = <<>>]
    /\ Untouched

Demotes(c) ==
    /\ Runs(c, "demote")
    /\ demoteToTier0
    /\ Advance(c)
    /\ UNCHANGED <<sessionVars, noteVars, orphans, outputVars>>

(* beginBackgroundAnalysis, unless a pass is running.                       *)
Analyzes(c) ==
    /\ Runs(c, "analyze")
    /\ jobs' = [jobs EXCEPT ![Session(c)] = @ \cup {"pass"}]
    /\ stage' = [stage EXCEPT ![Session(c)] = "busy"]
    /\ Advance(c)
    /\ UNCHANGED <<registry, opened, workers, noteVars, orphans, tierVars, outputVars>>

(* warmSessionCache, when the binary is loaded and analysed: it needs the   *)
(* client of the session, and has its cache made, closed or not.            *)
Warms(s) ==
    /\ "load" \in jobs[s] /\ s \in workers
    /\ jobs' = [jobs EXCEPT ![s] = (@ \ {"load"}) \cup {"warm"}]
    /\ UNCHANGED <<registry, opened, stage, workers, noteVars, call, orphans, tierVars,
                   outputVars>>

WarmsCache(s) ==
    /\ "warm" \in jobs[s]
    /\ jobs' = [jobs EXCEPT ![s] = (@ \ {"warm"}) \cup {"warmed"}]
    /\ notes' = [notes EXCEPT ![s] = IF @ = "absent" THEN "empty" ELSE @]
    /\ UNCHANGED <<registry, opened, stage, workers, kept, outlived, call, orphans,
                   tierVars, outputVars>>

(* A job in the background ends, well or badly, and records it, for a       *)
(* closed session too.  A load that was answered is well whatever becomes   *)
(* of its worker.  A pass that ends well drops the session cache.           *)
JobEnds(s) ==
    /\ \E job \in jobs[s] \ {"warm"}, ok \in BOOLEAN :
          /\ job = "pass" /\ ok => s \in workers
          /\ job = "warmed" => ok
          /\ jobs' = [jobs EXCEPT ![s] = @ \ {job}]
          /\ stage' = [stage EXCEPT ![s] = IF ok THEN "ready" ELSE "failed"]
          /\ IF ok /\ job = "pass" THEN deleteSessionCache(s) /\ call' = Stale(s)
                                   ELSE UNCHANGED <<notes, kept, call>>
    /\ UNCHANGED <<registry, opened, workers, outlived, orphans, tierVars, outputVars>>

WorkerDies(s) ==
    /\ s \in workers
    /\ workers' = workers \ {s}
    /\ UNCHANGED <<registry, opened, stage, jobs, noteVars, call, orphans, tierVars,
                   outputVars>>

-----------------------------------------------------------------------------
(* The steps of a handler, apart from waiting for others.                   *)
Works(c) ==
    \/ Checks(c) \/ Refuses(c) \/ Resolves(c) \/ Asks(c) \/ Judges(c) \/ Names(c)
    \/ Searches(c) \/ getSessionCache(c) \/ LeavesCache(c) \/ Visits(c) \/ Notes(c)
    \/ Clears(c) \/ Promotes(c) \/ addToolWithCache(c)
    \/ Creates(c) \/ Starts(c) \/ PromotesToRead(c) \/ Stops(c) \/ Deletes(c)
    \/ Uncaches(c) \/ Lists(c) \/ Demotes(c) \/ Analyzes(c)

(* Between two calls the client pages, and time passes.                     *)
Read ==
    /\ call[Pager] = Idle
    /\ getCachedOutput \/ ListReading \/ AnyPage \/ Tick
    /\ UNCHANGED <<sessionVars, noteVars, call, orphans, tierVars>>

Next ==
    \/ \E c \in Callers : Begin(c) \/ Deliver(c) \/ Works(c) \/ waitForReady(c) \/ GivesUp(c) \/ Answers(c)
    \/ \E s \in SessionSet : Warms(s) \/ WarmsCache(s) \/ JobEnds(s) \/ WorkerDies(s)
    \/ OrphanEnds
    \/ Read

Spec == Init /\ [][Next]_vars

-----------------------------------------------------------------------------
TypeOK ==
    /\ registry \subseteq opened /\ opened \subseteq SessionSet
    /\ workers \subseteq opened
    /\ stage \in [SessionSet -> {None, "busy", "ready", "failed"}]
    /\ jobs \in [SessionSet -> SUBSET {"load", "warm", "warmed", "pass"}]
    /\ notes \in [SessionSet -> {"absent", "empty", "visited", "noted"}]
    /\ \A c \in Callers : call[c].state \in {"idle", "running", "waiting", "asking", "returned"}
    /\ kept \subseteq opened /\ outlived \subseteq opened
    /\ tier \in 0..2 /\ registered \subseteq Tools \cup {"watch_auto_analysis", "get_cached_output"}
    /\ OutputTypeOK

(* A choice the schema lets through is one its handler knows: the "invalid  *)
(* X" fallback of a handler is never reached (output_cache.go:201-206).     *)
(* cross_search.mode alone is not among toolEnums.                          *)
SchemaGuards ==
    \A c \in Callers : call[c].state = "returned" /\ call[c].why = "invalid"
                           => call[c].tool = "cross_search"

(* A call refused for one of its arguments has changed nothing: it has sent *)
(* no write to the worker, changed no note, no tier and no stored output,   *)
(* however late its handler tests the argument.                             *)
RefusedUntouched ==
    \A c \in Callers : call[c].state = "returned" /\ call[c].why \in Refusals
                           => ~call[c].touched

(* What the handlers leave out of a reply without a word when a call to the *)
(* worker fails.                                                            *)
BestEffort(tool) ==
    CASE tool = "analyze_function"             -> {"GetFunctionInfo", "GetFuncComment"}
      [] tool \in {"set_metadata", "set_type"} -> {"GetName"}
      [] tool \in {"open_binary", "get_session_progress"} -> {"GetSessionInfo"}
      [] tool = "cross_reference" -> {"GetFunctionName", "GetImports", "GetExports",
                                      "GetFunctions", "GetStrings"}
      [] tool = "cross_search"    -> CrossModes
      [] OTHER                    -> {}

(* A reply names every part of it that is missing because a call to the     *)
(* worker failed, and only those, best effort apart (composite.go:20-193    *)
(* and 307-340, dispatch.go:200-254).                                       *)
FailuresTold ==
    \A c \in Callers : call[c].state = "returned" /\ call[c].why = "ok"
        => /\ call[c].failed \ BestEffort(call[c].tool) = call[c].told
           /\ call[c].tool = "inspect" => ~(Inspected \subseteq call[c].failed)

(* When a handler returns, no call to the worker is left running, except    *)
(* the other direction of get_references (read.go:331-335).                 *)
NoOrphans == orphans \subseteq Rpcs(XRefs)

(* An accepted note stays, whatever is analysed, until an auto-analysis     *)
(* pass or a close drops the cache of its session (cache.go:401-422).       *)
NotesKept == \A s \in kept : notes[s] = "noted"

Closing(s) == \E c \in Callers : Busy(c) /\ call[c].tool = "close_binary" /\ Session(c) = s

(* A closed session leaves no cache behind, unless, when it closed, a call  *)
(* that had found it was still running, or the load that warms its cache    *)
(* had its client, or was to get it because the worker outlived the close   *)
(* (session.go:300,459, cache.go:268-280,459-464).                          *)
CachesClosed ==
    \A s \in opened \ (registry \cup outlived) : notes[s] # "absent" => Closing(s)
=============================================================================
