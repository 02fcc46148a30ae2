--------------------------- MODULE InFlightProofs ---------------------------
(* Theorems about the in-flight leases, for every number of calls and       *)
(* goroutines and every timeout.                                            *)
EXTENDS InFlight, FiniteSetTheorems, TLAPS

UserTypes ==
    pc \in [Users -> {"idle", "touch", "client", "acquire", "work",
                      "release", "drop", "done"}]

LeaseInv == UserTypes /\ LeasesCounted

LEMMA HoldersFinite == IsFiniteSet(Holders) /\ Cardinality(Holders) \in Nat
  <1>1. Holders \subseteq Users
    BY DEF Holders
  <1>2. IsFiniteSet(Holders)
    <2>1. IsFiniteSet(Users)
      BY UsersAssumption, FS_AddElement DEF Users
    <2> QED BY <1>1, <2>1, FS_Subset
  <1> QED BY <1>2, FS_CardinalityType

(* One more lease, one more holder; one less, one less.                     *)
LEMMA LeaseTaken ==
  ASSUME LeasesCounted, NEW u \in Users \ Holders, Holders' = Holders \cup {u},
         inFlight' = inFlight + 1
  PROVE  LeasesCounted'
  BY HoldersFinite, FS_AddElement DEF LeasesCounted

LEMMA LeaseReturned ==
  ASSUME LeasesCounted, NEW u \in Holders, Holders' = Holders \ {u},
         inFlight' = inFlight - 1
  PROVE  LeasesCounted'
  <1>1. Cardinality(Holders \ {u}) = Cardinality(Holders) - 1
    BY HoldersFinite, FS_RemoveElement
  <1> QED BY <1>1 DEF LeasesCounted

LEMMA LeaseStep ==
  ASSUME LeaseInv, [Next]_vars
  PROVE  LeaseInv'
  <1> USE DEF LeaseInv, UserTypes
  <1>1. ASSUME UserTypes', UNCHANGED inFlight, Holders' = Holders
        PROVE  LeaseInv'
    BY <1>1 DEF LeasesCounted
  <1>2. CASE Tick \/ DogStep \/ UNCHANGED vars
    <2>1. UNCHANGED <<pc, inFlight>>
      BY <1>2 DEF Tick, DogStep, Expired, CheckInFlight, RecheckExpired, StopWorker,
                  DeleteSession, vars
    <2> QED BY <1>1, <2>1 DEF Holders
  <1>3. ASSUME NEW c \in Calls, ResolveSession(c)
        PROVE  LeaseInv'
    BY <1>1, <1>3 DEF ResolveSession, Goto, Holders, Users
  <1>4. ASSUME NEW c \in Calls, NEW j \in Jobs, SpawnJob(c, j)
        PROVE  LeaseInv'
    <2>1. j \in Users /\ UserTypes' /\ inFlight' = inFlight + 1
      BY <1>4 DEF SpawnJob, Goto, Users
    <2>2. j \notin Holders /\ Holders' = Holders \cup {j}
      BY <1>4, <2>1 DEF SpawnJob, Goto, Holders
    <2> QED BY <2>1, <2>2, LeaseTaken
  <1>5. ASSUME NEW u \in Users,
               TouchOnResolve(u) \/ GetClient(u) \/ WorkEnds(u) \/ ReleaseTouch(u)
        PROVE  LeaseInv'
    <2>1. UserTypes' /\ UNCHANGED inFlight
      BY <1>5 DEF TouchOnResolve, GetClient, WorkEnds, ReleaseTouch, Goto
    <2>2. Holders' = Holders
      BY <1>5 DEF TouchOnResolve, GetClient, WorkEnds, ReleaseTouch, Goto, Holders
    <2> QED BY <1>1, <2>1, <2>2
  <1>6. ASSUME NEW u \in Users, AcquireInFlight(u)
        PROVE  LeaseInv'
    <2>1. UserTypes' /\ inFlight' = inFlight + 1
      BY <1>6 DEF AcquireInFlight, Goto
    <2>2. u \notin Holders /\ Holders' = Holders \cup {u}
      BY <1>6 DEF AcquireInFlight, Goto, Holders
    <2> QED BY <2>1, <2>2, LeaseTaken
  <1>7. ASSUME NEW u \in Users, ReleaseDrop(u)
        PROVE  LeaseInv'
    <2>1. UserTypes' /\ inFlight' = inFlight - 1
      BY <1>7 DEF ReleaseDrop, Goto
    <2>2. u \in Holders /\ Holders' = Holders \ {u}
      BY <1>7 DEF ReleaseDrop, Goto, Holders
    <2> QED BY <2>1, <2>2, LeaseReturned
  <1> QED BY <1>2, <1>3, <1>4, <1>5, <1>6, <1>7 DEF Next, UserStep

LEMMA LeaseInit == Init => LeaseInv
  <1> SUFFICES ASSUME Init
               PROVE  LeaseInv
    OBVIOUS
  <1>1. Holders = {}
    BY DEF Init, Holders
  <1> QED BY <1>1, FS_EmptySet DEF Init, LeaseInv, UserTypes, LeasesCounted

(* The counter is exact for every number of calls and goroutines: no lease  *)
(* is lost, and none is returned twice.                                     *)
THEOREM InFlightLeasesCounted == Spec => []LeasesCounted
  <1>1. LeaseInv => LeasesCounted
    BY DEF LeaseInv
  <1>2. LeaseInv /\ [Next]_vars => LeaseInv'
    BY LeaseStep
  <1> QED BY <1>1, <1>2, LeaseInit, PTL DEF Spec

----------------------------------------------------------------------------
(* Idleness.  The last activity is at least as recent as the last end of an *)
(* operation, except between that end and the touch of the release.  A call *)
(* about to take a lease has just touched, so a lease taken after the       *)
(* watchdog has read the counter is seen by its second look at the time.    *)

IdleInv ==
    /\ idle \in Nat /\ ended \in Nat /\ idle <= Timeout + 1 /\ ended <= Timeout + 1
    /\ (\A u \in Users : pc[u] # "release") => idle <= ended
    /\ (\E u \in Users : pc[u] \in {"client", "acquire"}) => idle = 0
    /\ dog = "expired" /\ Holders # {} => idle = 0

LEMMA IdleStep ==
  ASSUME LeaseInv, IdleInv, [Next]_vars
  PROVE  IdleInv'
  <1> USE TimeAssumption DEF LeaseInv, UserTypes, IdleInv, Holders
  <1>1. CASE Tick
    BY <1>1 DEF Tick, Deciding, Older
  <1>2. CASE UNCHANGED vars
    BY <1>2 DEF vars
  <1>3. CASE CheckInFlight
    <2>1. inFlight = 0 => Holders = {}
      BY HoldersFinite, FS_EmptySet DEF LeasesCounted
    <2>2. dog' = "expired" => inFlight = 0
      BY <1>3, HoldersFinite DEF CheckInFlight, HasInFlight, LeasesCounted
    <2> QED BY <1>3, <2>1, <2>2 DEF CheckInFlight
  <1>4. CASE Expired \/ RecheckExpired \/ StopWorker \/ DeleteSession
    BY <1>4 DEF Expired, RecheckExpired, StopWorker, DeleteSession
  <1>5. ASSUME NEW c \in Calls, ResolveSession(c)
        PROVE  IdleInv'
    BY <1>5 DEF ResolveSession, Goto, Users
  <1>6. ASSUME NEW c \in Calls, NEW j \in Jobs, SpawnJob(c, j)
        PROVE  IdleInv'
    BY <1>6 DEF SpawnJob, Goto, Users
  <1>7. ASSUME NEW u \in Users, TouchOnResolve(u) \/ ReleaseTouch(u)
        PROVE  IdleInv'
    BY <1>7 DEF TouchOnResolve, ReleaseTouch, Touch, Goto
  <1>8. ASSUME NEW u \in Users, GetClient(u) \/ AcquireInFlight(u) \/ ReleaseDrop(u)
        PROVE  IdleInv'
    BY <1>8 DEF GetClient, AcquireInFlight, ReleaseDrop, Goto
  <1>9. ASSUME NEW u \in Users, WorkEnds(u)
        PROVE  IdleInv'
    BY <1>9 DEF WorkEnds, Goto
  <1> QED BY <1>1, <1>2, <1>3, <1>4, <1>5, <1>6, <1>7, <1>8, <1>9
          DEF Next, UserStep, DogStep

(* For every timeout and every number of calls and goroutines, the watchdog *)
(* decides to stop a worker only when the whole timeout has passed since    *)
(* the last worker operation ended.                                         *)
THEOREM InFlightIdleBeforeStop == Spec => IdleBeforeStop
  <1>1. Init => IdleInv
    BY TimeAssumption DEF Init, IdleInv, Holders
  <1>2. LeaseInv /\ [Next]_vars => LeaseInv'
    BY LeaseStep
  <1>3. LeaseInv /\ IdleInv /\ [Next]_vars => IdleInv'
    BY IdleStep
  <1>4. LeaseInv /\ IdleInv /\ [Next]_vars =>
            [dog = "expired" /\ dog' = "stop" => ended > Timeout]_vars
    <2> SUFFICES ASSUME LeaseInv, IdleInv, Next, dog = "expired", dog' = "stop"
                 PROVE  ended > Timeout
      OBVIOUS
    <2>1. IsExpired
      BY DEF Next, Tick, ResolveSession, SpawnJob, UserStep, TouchOnResolve, GetClient,
             AcquireInFlight, WorkEnds, ReleaseTouch, ReleaseDrop, DogStep, Expired,
             CheckInFlight, RecheckExpired, StopWorker, DeleteSession
    <2>2. Holders = {}
      BY <2>1, TimeAssumption DEF IdleInv, IsExpired
    <2>3. \A u \in Users : pc[u] # "release"
      BY <2>2 DEF Holders
    <2> QED BY <2>1, <2>3, TimeAssumption DEF IdleInv, IsExpired
  <1> QED BY <1>1, <1>2, <1>3, <1>4, LeaseInit, PTL DEF Spec, IdleBeforeStop
=============================================================================
