------------------------------ MODULE InFlight ------------------------------
(***************************************************************************)
(* The in-flight leases that keep the idle watchdog off a session whose    *)
(* worker is in use.  (internal/session/registry.go: Touch, IsExpired,     *)
(* AcquireInFlight, ReleaseInFlight, HasInFlight; internal/server/util.go: *)
(* resolveClientDuringLoad; internal/server/session.go: Watchdog,          *)
(* cleanupExpiredSessions, and the detached goroutines' own leases.)       *)
(*                                                                         *)
(* One session and a discrete clock.  Times are kept as ages, and an age   *)
(* stops growing once it exceeds the timeout, the only value it is ever    *)
(* compared with: so the clock needs no bound.  The counter is atomic and  *)
(* LastActivity is under the session's mutex: each access is one step.     *)
(* The clock does not advance while the watchdog decides nor while a call  *)
(* is between its Touch and its lease: these are instants on the scale of  *)
(* the timeout, which is minutes.                                          *)
(***************************************************************************)
EXTENDS Integers, FiniteSets

CONSTANTS
    Calls,     \* tool calls on the session
    Jobs,      \* detached analysis goroutines (beginBackgroundAnalysis)
    Opener,    \* the goroutine of open_binary (backgroundOpen)
    Timeout    \* Session.Timeout, in clock ticks

ASSUME TimeAssumption  == Timeout \in Nat
ASSUME UsersAssumption == /\ Calls \cap Jobs = {} /\ Opener \notin Calls \cup Jobs
                          /\ IsFiniteSet(Calls \cup Jobs)

Users == Calls \cup Jobs \cup {Opener}

VARIABLES
    idle,        \* the age of Session.LastActivity
    inFlight,    \* Session.inFlight
    registered,  \* is the session in the registry?
    worker,      \* does the manager have a client for it?
    pc,          \* pc[u]: where call or goroutine u is
    dog,         \* the watchdog's next step
    ended        \* the age of the last end of a worker operation

vars == <<idle, inFlight, registered, worker, pc, dog, ended>>

(* open_binary has created the session and spawned backgroundOpen, which    *)
(* starts by taking its lease.                                              *)
Init ==
    /\ idle = 0 /\ inFlight = 0
    /\ registered = TRUE /\ worker = TRUE
    /\ pc = [u \in Users |-> IF u = Opener THEN "acquire" ELSE "idle"]
    /\ dog = "idle"
    /\ ended = Timeout + 1

Goto(u, l) == pc' = [pc EXCEPT ![u] = l]
Older(age) == IF age > Timeout THEN age ELSE age + 1
IsExpired   == idle > Timeout
HasInFlight == inFlight > 0
Touch       == idle' = 0

Deciding == dog \in {"inflight", "expired"}
             \/ \E u \in Users : pc[u] \in {"client", "acquire"}

Tick ==
    /\ ~Deciding
    /\ idle' = Older(idle) /\ ended' = Older(ended)
    /\ UNCHANGED <<inFlight, registered, worker, pc, dog>>

----------------------------------------------------------------------------
(* A tool call: resolveClientDuringLoad, the worker operation, and the     *)
(* release when the request's context ends.                                *)

ResolveSession(c) ==
    /\ pc[c] = "idle" /\ registered
    /\ Goto(c, "touch")
    /\ UNCHANGED <<idle, inFlight, registered, worker, dog, ended>>

TouchOnResolve(c) ==
    /\ pc[c] = "touch"
    /\ Touch
    /\ Goto(c, "client")
    /\ UNCHANGED <<inFlight, registered, worker, dog, ended>>

GetClient(c) ==
    /\ pc[c] = "client"
    /\ Goto(c, IF worker THEN "acquire" ELSE "done")
    /\ UNCHANGED <<idle, inFlight, registered, worker, dog, ended>>

AcquireInFlight(u) ==
    /\ pc[u] = "acquire"
    /\ inFlight' = inFlight + 1
    /\ Goto(u, "work")
    /\ UNCHANGED <<idle, registered, worker, dog, ended>>

(* A faulty variant: the goroutine takes no lease.                          *)
SpawnJobUnleased(c, j) ==
    /\ pc[c] = "work" /\ pc[j] = "idle"
    /\ Goto(j, "work")
    /\ UNCHANGED <<idle, inFlight, registered, worker, dog, ended>>

(* A running call starts a goroutine that takes a lease of its own.        *)
SpawnJob(c, j) ==
    /\ pc[c] = "work" /\ pc[j] = "idle"
    /\ inFlight' = inFlight + 1
    /\ Goto(j, "work")
    /\ UNCHANGED <<idle, registered, worker, dog, ended>>

WorkEnds(u) ==
    /\ pc[u] = "work"
    /\ ended' = 0
    /\ Goto(u, "release")
    /\ UNCHANGED <<idle, inFlight, registered, worker, dog>>

(* A faulty variant: the idle time does not restart.                        *)
ReleaseUntouched(u) ==
    /\ pc[u] = "release"
    /\ Goto(u, "drop")
    /\ UNCHANGED <<idle, inFlight, registered, worker, dog, ended>>

(* ReleaseInFlight: first the idle time restarts, then the counter drops.  *)
ReleaseTouch(u) ==
    /\ pc[u] = "release"
    /\ Touch
    /\ Goto(u, "drop")
    /\ UNCHANGED <<inFlight, registered, worker, dog, ended>>

ReleaseDrop(u) ==
    /\ pc[u] = "drop"
    /\ inFlight' = inFlight - 1
    /\ Goto(u, "done")
    /\ UNCHANGED <<idle, registered, worker, dog, ended>>

UserStep(u) ==
    \/ TouchOnResolve(u) \/ GetClient(u) \/ AcquireInFlight(u)
    \/ WorkEnds(u) \/ ReleaseTouch(u) \/ ReleaseDrop(u)

----------------------------------------------------------------------------
(* The watchdog's pass over this session.                                  *)

Expired ==
    /\ dog = "idle" /\ registered
    /\ IsExpired
    /\ dog' = "inflight"
    /\ UNCHANGED <<idle, inFlight, registered, worker, pc, ended>>

CheckInFlight ==
    /\ dog = "inflight"
    /\ dog' = IF HasInFlight THEN "idle" ELSE "expired"
    /\ UNCHANGED <<idle, inFlight, registered, worker, pc, ended>>

RecheckExpired ==
    /\ dog = "expired"
    /\ dog' = IF IsExpired THEN "stop" ELSE "idle"
    /\ UNCHANGED <<idle, inFlight, registered, worker, pc, ended>>

StopWorker ==
    /\ dog = "stop"
    /\ worker' = FALSE
    /\ dog' = "delete"
    /\ UNCHANGED <<idle, inFlight, registered, pc, ended>>

(* A faulty variant: the worker goes, the session stays registered.         *)
DeleteSkipped ==
    /\ dog = "delete"
    /\ dog' = "idle"
    /\ UNCHANGED <<idle, inFlight, registered, worker, pc, ended>>

DeleteSession ==
    /\ dog = "delete"
    /\ registered' = FALSE
    /\ dog' = "idle"
    /\ UNCHANGED <<idle, inFlight, worker, pc, ended>>

DogStep == Expired \/ CheckInFlight \/ RecheckExpired \/ StopWorker \/ DeleteSession

----------------------------------------------------------------------------

Next ==
    \/ Tick
    \/ \E c \in Calls : ResolveSession(c) \/ \E j \in Jobs : SpawnJob(c, j)
    \/ \E u \in Users : UserStep(u)
    \/ DogStep

Spec == Init /\ [][Next]_vars

(* The clock runs, the watchdog ticks, and worker operations return.        *)
FairSpec ==
    /\ Spec
    /\ WF_vars(Tick) /\ WF_vars(DogStep)
    /\ \A u \in Users : WF_vars(UserStep(u))

----------------------------------------------------------------------------

TypeOK ==
    /\ idle \in 0..Timeout + 1 /\ ended \in 0..Timeout + 1
    /\ inFlight \in Int
    /\ registered \in BOOLEAN /\ worker \in BOOLEAN
    /\ pc \in [Users -> {"idle", "touch", "client", "acquire", "work",
                         "release", "drop", "done"}]
    /\ dog \in {"idle", "inflight", "expired", "stop", "delete"}

(* The counter is the number of leases held: none is lost or returned       *)
(* twice, so the watchdog is neither blind nor blocked for ever.            *)
Holders == {u \in Users : pc[u] \in {"work", "release", "drop"}}
LeasesCounted == inFlight = Cardinality(Holders)

(* The idle timeout "starts when the operation finishes, not when it        *)
(* began": the watchdog decides to stop the worker only if no worker        *)
(* operation has ended within the timeout.  Rests on ReleaseInFlight        *)
(* touching before it decrements and on the watchdog reading the counter    *)
(* before the activity time.                                                *)
IdleBeforeStop == [][dog = "expired" /\ dog' = "stop" => ended > Timeout]_vars

(* The watchdog does not starve: once calls stop coming, the session is     *)
(* removed and its worker stopped.                                          *)
Reclaimed == <>[](~registered /\ ~worker)
=============================================================================
