-------------------------- MODULE ToolCallsProofs ---------------------------
(***************************************************************************)
(* What is proved of the tool calls, in this order: the tools offered are  *)
(* those of the tier; the store of long replies keeps its promises; every  *)
(* script of a handler is sound (it has found a session before a step that *)
(* needs one, and tests no argument after it has changed something); a     *)
(* step of the system moves a call along its script; and, from these two,  *)
(* what holds of every call, of the notes and of the caches of the closed  *)
(* sessions.                                                               *)
(***************************************************************************)
EXTENDS ToolCalls, SequenceTheorems, TLAPS

(* What a step does to the tier and its tools.                              *)
TierStep ==
    UNCHANGED tierVars \/ promoteToTier(1) \/ promoteToTier(2) \/ demoteToTier0

LEMMA NextTier == [Next]_vars => TierStep
<1> SUFFICES ASSUME [Next]_vars PROVE TierStep
  OBVIOUS
<1>1. CASE UNCHANGED vars
  BY <1>1 DEF vars, TierStep
<1>2. ASSUME NEW c \in Callers, Begin(c) \/ Deliver(c) \/ waitForReady(c) \/ GivesUp(c)
      PROVE  TierStep
  BY <1>2 DEF Begin, Deliver, waitForReady, GivesUp, Untouched, TierStep
<1>3. ASSUME NEW c \in Callers, Answers(c) PROVE TierStep
  BY <1>3 DEF Answers, TierStep
<1>4. ASSUME NEW c \in Callers, Works(c) PROVE TierStep
  <2>1. CASE Checks(c) \/ Refuses(c) \/ Resolves(c) \/ Asks(c) \/ Judges(c) \/ Names(c)
    BY <2>1 DEF Checks, Refuses, Resolves, Asks, Judges, Names, Untouched, TierStep
  <2>2. CASE Searches(c) \/ getSessionCache(c) \/ LeavesCache(c)
    BY <2>2 DEF Searches, getSessionCache, LeavesCache, Untouched, TierStep
  <2>3. CASE Visits(c) \/ Notes(c)
    BY <2>3 DEF Visits, Notes, Writes, TierStep
  <2>4. CASE Clears(c) \/ Promotes(c) \/ addToolWithCache(c)
    BY <2>4 DEF Clears, Promotes, addToolWithCache, TierStep
  <2>5. CASE Creates(c) \/ Starts(c) \/ PromotesToRead(c)
    BY <2>5 DEF Creates, Starts, PromotesToRead, TierStep
  <2>6. CASE Stops(c) \/ Deletes(c) \/ Uncaches(c) \/ Analyzes(c)
    BY <2>6 DEF Stops, Deletes, Uncaches, Analyzes, TierStep
  <2>7. CASE Lists(c) \/ Demotes(c)
    BY <2>7 DEF Lists, Untouched, Demotes, TierStep
  <2> QED BY <1>4, <2>1, <2>2, <2>3, <2>4, <2>5, <2>6, <2>7 DEF Works
<1>5. ASSUME NEW s \in SessionSet, Warms(s) \/ WarmsCache(s) \/ JobEnds(s) \/ WorkerDies(s)
      PROVE  TierStep
  BY <1>5 DEF Warms, WarmsCache, JobEnds, WorkerDies, TierStep
<1>6. CASE OrphanEnds \/ Read
  BY <1>6 DEF OrphanEnds, Read, TierStep
<1> QED BY <1>1, <1>2, <1>3, <1>4, <1>5, <1>6 DEF Next

TierInv == tier \in 0..2 /\ TierTools

LEMMA TierInvInit == Init => TierInv
  BY DEF Init, RegisterTools, TierInv, TierTools, registerTier0

LEMMA TierInvStep == TierInv /\ TierStep => TierInv'
<1> SUFFICES ASSUME TierInv, TierStep PROVE TierInv'
  OBVIOUS
<1> USE DEF TierInv
<1>1. CASE UNCHANGED tierVars
  BY <1>1 DEF TierTools, tierVars
<1>2. CASE promoteToTier(1)
  BY <1>2 DEF promoteToTier, TierTools
<1>3. CASE promoteToTier(2)
  BY <1>3 DEF promoteToTier, TierTools
<1>4. CASE demoteToTier0
  <2>1. /\ tier2ToolNames = registerTier2 /\ tier1Tools = registerTier1
        /\ registerTier0 \cap registerTier1 = {} /\ registerTier0 \cap registerTier2 = {}
    <3>1. tier2ToolNames = registerTier2
      BY DEF tier2ToolNames, registerTier2
    <3>2. tier1Tools = registerTier1
      BY DEF tier1Tools, tier1ToolNames, registerTier1
    <3>3. registerTier0 \cap registerTier2 = {}
      BY DEF registerTier0, registerTier2
    <3>4. registerTier0 \cap registerTier1 = {}
      BY DEF registerTier0, registerTier1, pyEvalIfEnabled
    <3> QED BY <3>1, <3>2, <3>3, <3>4
  <2>2. registered' = registerTier0
    BY <1>4, <2>1 DEF demoteToTier0, TierTools
  <2> QED BY <1>4, <2>2 DEF demoteToTier0, TierTools
<1> QED BY <1>1, <1>2, <1>3, <1>4 DEF TierStep

(* The client is offered exactly the tools of the tier, whatever calls are  *)
(* made, however sessions come and go, with py_eval or without:             *)
(* server.go:193-435.                                                       *)
THEOREM ToolsOfTheTier == Spec => []TierTools
<1>1. TierInv => TierTools
  BY DEF TierInv
<1> QED BY <1>1, TierInvInit, TierInvStep, NextTier, PTL DEF Spec

-----------------------------------------------------------------------------
(* What a step does to the store and its reader.                            *)
Stores == UNCHANGED now /\ \E form \in {"text", "json"}, len \in Lengths : maybeCacheResult(form, len)
Prunes == clear /\ UNCHANGED <<now, reader>>

OutputStep ==
    \/ UNCHANGED outputVars
    \/ Stores \/ Prunes \/ Tick
    \/ getCachedOutput \/ ListReading \/ AnyPage

LEMMA NextOutput == [Next]_vars => OutputStep
<1> SUFFICES ASSUME [Next]_vars PROVE OutputStep
  OBVIOUS
<1>1. CASE UNCHANGED vars
  BY <1>1 DEF vars, OutputStep
<1>2. ASSUME NEW c \in Callers, Begin(c) \/ Deliver(c) \/ waitForReady(c) \/ GivesUp(c)
      PROVE  OutputStep
  BY <1>2 DEF Begin, Deliver, waitForReady, GivesUp, Untouched, OutputStep
<1>3. ASSUME NEW c \in Callers, Answers(c) PROVE OutputStep
  BY <1>3 DEF Answers, OutputStep
<1>4. ASSUME NEW c \in Callers, Works(c) PROVE OutputStep
  <2>1. CASE Checks(c) \/ Refuses(c) \/ Resolves(c) \/ Asks(c) \/ Judges(c) \/ Names(c)
    BY <2>1 DEF Checks, Refuses, Resolves, Asks, Judges, Names, Untouched, OutputStep
  <2>2. CASE Searches(c) \/ getSessionCache(c) \/ LeavesCache(c)
    BY <2>2 DEF Searches, getSessionCache, LeavesCache, Untouched, OutputStep
  <2>3. CASE Visits(c) \/ Notes(c)
    BY <2>3 DEF Visits, Notes, Writes, OutputStep
  <2>4. CASE Clears(c)
    BY <2>4 DEF Clears, Prunes, OutputStep
  <2>5. CASE addToolWithCache(c)
    BY <2>5 DEF addToolWithCache, Stores, OutputStep
  <2>6. CASE Creates(c) \/ Starts(c) \/ PromotesToRead(c) \/ Promotes(c)
    BY <2>6 DEF Creates, Starts, PromotesToRead, Promotes, OutputStep
  <2>7. CASE Stops(c) \/ Deletes(c) \/ Uncaches(c) \/ Analyzes(c) \/ Lists(c) \/ Demotes(c)
    BY <2>7 DEF Stops, Deletes, Uncaches, Analyzes, Lists, Untouched, Demotes, OutputStep
  <2> QED BY <1>4, <2>1, <2>2, <2>3, <2>4, <2>5, <2>6, <2>7 DEF Works
<1>5. ASSUME NEW s \in SessionSet, Warms(s) \/ WarmsCache(s) \/ JobEnds(s) \/ WorkerDies(s)
      PROVE  OutputStep
  BY <1>5 DEF Warms, WarmsCache, JobEnds, WorkerDies, OutputStep
<1>6. CASE OrphanEnds \/ Read
  BY <1>6 DEF OrphanEnds, Read, OutputStep
<1> QED BY <1>1, <1>2, <1>3, <1>4, <1>5, <1>6 DEF Next

-----------------------------------------------------------------------------
(* Pages.  Kinds of readers, and where one is that has lost nothing.        *)
Kinds == {"output", "list", "globals", "strings"}

Readers ==
    [state : {"reading", "done", "lost"}, kind : Kinds, id : Nat, total : Lengths,
     next : Nat, upto : Nat]

Panics == [state : {"panic"}, kind : {"globals", "output"}, offset : Ints, limit : Ints]

ReaderInv ==
    \/ reader = Idle
    \/ /\ reader \in Readers
       /\ reader.upto = reader.next /\ reader.next <= reader.total
       /\ reader.state = "done" => reader.next = reader.total
    \/ /\ reader \in Panics
       /\ \/ reader.kind = "globals" /\ reader.offset < 0
          \/ reader.kind = "output" /\ reader.offset + reader.limit > MaxInt

(* The page of a list tool, when it is not refused.                         *)
LEMMA ClampPageCuts ==
    ASSUME NEW total \in Lengths, NEW offset \in Ints, NEW limit \in Ints,
           clampPage(offset, limit, total).ok
    PROVE  LET page == clampPage(offset, limit, total)
           IN  /\ offset >= 0
               /\ page.from = AtMost(offset, total)
               /\ \E size \in 1..maxPageLimit : page.to = AtMost(page.from + size, total)
<1> DEFINE size == normalizePagination(offset, limit).limit
           from == AtMost(offset, total)
<1>1. offset >= 0 /\ size \in 1..maxPageLimit
  <2>1. normalizePagination(offset, limit).ok
    BY DEF clampPage
  <2>2. size = IF limit <= 0 THEN defaultPageLimit ELSE limit
    BY DEF normalizePagination
  <2>3. offset >= 0 /\ size <= maxPageLimit
    BY <2>1, <2>2 DEF normalizePagination
  <2> QED BY <2>2, <2>3, PagingAssumption DEF Ints
<1>2. clampPage(offset, limit, total).from = from
  BY DEF clampPage
<1>3. clampPage(offset, limit, total).to = AtMost(Wrapped(from + size), total)
  BY DEF clampPage
<1>4. from \in 0..total
  BY <1>1, OutputAssumption DEF AtMost, Ints
<1>5. Wrapped(from + size) = from + size
  <2>1. total + maxPageLimit <= MaxInt /\ total \in Nat /\ MaxInt \in Nat /\ maxPageLimit \in Nat
    BY PagingAssumption, OutputAssumption
  <2> HIDE DEF from, size
  <2>2. from + size <= MaxInt /\ from + size \in Nat
    BY <1>1, <1>4, <2>1
  <2> QED BY <2>1, <2>2 DEF Wrapped
<1>6. clampPage(offset, limit, total).to = AtMost(from + size, total)
  BY <1>3, <1>5
<1> HIDE DEF from, size
<1>7. \E n \in 1..maxPageLimit : clampPage(offset, limit, total).to = AtMost(from + n, total)
  BY <1>1, <1>6
<1> QED BY <1>1, <1>2, <1>7 DEF from

(* The page a client that follows next_offset gets begins where it is, is   *)
(* within the list, and is not empty unless it is the last.                 *)
LEMMA NextPage ==
    ASSUME NEW kind \in Kinds, NEW total \in Lengths, NEW offset \in 0..total,
           NEW limit \in Ints, PageOf(kind, offset, limit, total).ok,
           kind = "output" => offset + limit <= MaxInt
    PROVE  LET page == PageOf(kind, offset, limit, total)
           IN  /\ page.from = offset /\ page.to \in Nat
               /\ Sliceable(page, total)
               /\ IsLast(kind, page, total) => page.to = total
               /\ ~IsLast(kind, page, total) => page.to > page.from
<1> USE PagingAssumption, OutputAssumption DEF Ints, PageOf, AtMost, Wrapped, Sliceable, IsLast, Kinds
<1>1. CASE kind = "output"
  BY <1>1 DEF cachedPage
<1>2. CASE kind = "list"
  <2>1. PageOf(kind, offset, limit, total) = clampPage(offset, limit, total)
    BY <1>2 DEF PageOf
  <2>2. PICK size \in 1..maxPageLimit :
            LET page == clampPage(offset, limit, total)
            IN  page.from = AtMost(offset, total) /\ page.to = AtMost(page.from + size, total)
    BY <2>1, ClampPageCuts
  <2>3. clampPage(offset, limit, total).from = offset
    BY <2>2
  <2>4. clampPage(offset, limit, total).to = AtMost(offset + size, total)
    BY <2>2, <2>3
  <2> HIDE DEF PageOf
  <2> QED BY <1>2, <2>1, <2>3, <2>4
<1>3. CASE kind = "globals"
  BY <1>3 DEF globalsPage
<1>4. CASE kind = "strings"
  BY <1>4 DEF stringsChunk
<1> QED BY <1>1, <1>2, <1>3, <1>4

(* A page asked for anywhere can be cut, but for the two cases.             *)
LEMMA AnyPageSliceable ==
    ASSUME NEW kind \in {"list", "globals", "output"}, NEW total \in Lengths,
           NEW offset \in Ints, NEW limit \in Ints,
           PageOf(kind, offset, limit, total).ok,
           ~Sliceable(PageOf(kind, offset, limit, total), total)
    PROVE  \/ kind = "globals" /\ offset < 0
           \/ kind = "output" /\ offset + limit > MaxInt
<1> USE PagingAssumption, OutputAssumption DEF Ints, PageOf, AtMost, Wrapped, Sliceable
<1>1. CASE kind = "output"
  BY <1>1 DEF cachedPage
<1>2. CASE kind = "list"
  <2>1. PageOf(kind, offset, limit, total) = clampPage(offset, limit, total)
    BY <1>2 DEF PageOf
  <2> HIDE DEF PageOf
  <2> QED BY <1>2, <2>1, ClampPageCuts
<1>3. CASE kind = "globals"
  BY <1>3 DEF globalsPage
<1> QED BY <1>1, <1>2, <1>3

LEMMA ReaderInvInit == Init => ReaderInv
  BY DEF Init, OutputInit, ReaderInv

(* The client of a new reply starts at its beginning or after the preview.  *)
LEMMA ReaderStarts ==
    ASSUME NEW kind \in Kinds, NEW id \in Nat, NEW total \in Lengths,
           NEW upto \in 0..total, reader' = Reading(kind, id, total, upto)
    PROVE  ReaderInv'
  BY DEF ReaderInv, Reading, Readers

LEMMA ReaderInvRead == ReaderInv /\ getCachedOutput => ReaderInv'
<1> SUFFICES ASSUME ReaderInv, getCachedOutput PROVE ReaderInv'
  OBVIOUS
<1>1. /\ reader \in Readers /\ reader.state = "reading"
      /\ reader.upto = reader.next /\ reader.next <= reader.total
  <2>1. reader.state = "reading"
    BY DEF getCachedOutput
  <2>2. reader # Idle /\ reader \notin Panics
    BY <2>1 DEF Idle, Panics
  <2> QED BY <2>1, <2>2 DEF ReaderInv
<1>2. CASE reader.kind = "output" /\ ~get(reader.id)
  <2>1. reader' = [reader EXCEPT !.state = "lost"]
    BY <1>2 DEF getCachedOutput
  <2> QED BY <1>1, <2>1 DEF ReaderInv, Readers
<1>3. CASE ~(reader.kind = "output" /\ ~get(reader.id))
  <2> DEFINE pageAt(limit) == PageOf(reader.kind, reader.next, limit, reader.total)
             lastAt(limit) == IsLast(reader.kind, pageAt(limit), reader.total)
  <2>1. PICK limit \in Limits :
            /\ pageAt(limit).ok
            /\ reader' = IF ~Sliceable(pageAt(limit), reader.total)
                         THEN Panic(reader.kind, reader.next, limit)
                         ELSE [reader EXCEPT
                                 !.next = pageAt(limit).to,
                                 !.upto = IF pageAt(limit).from = @ THEN pageAt(limit).to ELSE Gap,
                                 !.state = CASE lastAt(limit) -> "done"
                                             [] ~lastAt(limit) /\ pageAt(limit).to > pageAt(limit).from -> @
                                             [] OTHER -> "stuck"]
    BY <1>3 DEF getCachedOutput
  <2>2. limit \in Ints /\ reader.next \in 0..reader.total /\ reader.total \in Lengths
        /\ reader.kind \in Kinds
    BY <1>1, OutputAssumption DEF Readers
  <2>3. CASE reader.kind = "output" /\ reader.next + limit > MaxInt
    <3>1. CASE ~Sliceable(pageAt(limit), reader.total)
      <4>1. reader' = Panic(reader.kind, reader.next, limit)
        BY <2>1, <3>1
      <4>2. reader.next \in Ints
        <5>1. reader.total \in Nat /\ reader.total + maxPageLimit <= MaxInt
          BY <2>2, OutputAssumption
        <5>2. MaxInt \in Nat /\ maxPageLimit \in Nat
          BY PagingAssumption
        <5> QED BY <2>2, <5>1, <5>2 DEF Ints
      <4> QED BY <2>2, <2>3, <4>1, <4>2 DEF ReaderInv, Panics, Panic
    <3>2. CASE Sliceable(pageAt(limit), reader.total)
      <4>1. pageAt(limit).from = reader.next /\ pageAt(limit).to \in Nat
        BY <2>2, <2>3, <3>2, OutputAssumption, PagingAssumption
           DEF PageOf, cachedPage, AtMost, Wrapped, Sliceable, Ints
      <4>2. /\ pageAt(limit).to <= reader.total
            /\ lastAt(limit) => pageAt(limit).to = reader.total
            /\ ~lastAt(limit) => pageAt(limit).to > pageAt(limit).from
        BY <2>2, <2>3, <3>2, OutputAssumption, PagingAssumption
           DEF PageOf, cachedPage, AtMost, Wrapped, Sliceable, Ints, IsLast
      <4> QED BY <1>1, <2>1, <2>2, <3>2, <4>1, <4>2 DEF ReaderInv, Readers
    <3> QED BY <3>1, <3>2
  <2>4. CASE reader.kind = "output" => reader.next + limit <= MaxInt
    <3>1. /\ pageAt(limit).from = reader.next /\ pageAt(limit).to \in Nat
          /\ Sliceable(pageAt(limit), reader.total)
          /\ lastAt(limit) => pageAt(limit).to = reader.total
          /\ ~lastAt(limit) => pageAt(limit).to > pageAt(limit).from
      BY <2>1, <2>2, <2>4, NextPage
    <3>2. pageAt(limit).to <= reader.total
      BY <3>1 DEF Sliceable
    <3> QED BY <1>1, <2>1, <2>2, <3>1, <3>2 DEF ReaderInv, Readers
  <2> QED BY <2>2, <2>3, <2>4, PagingAssumption, OutputAssumption DEF Ints
<1> QED BY <1>2, <1>3

LEMMA ReaderInvStep == ReaderInv /\ OutputStep => ReaderInv'
<1> SUFFICES ASSUME ReaderInv, OutputStep PROVE ReaderInv'
  OBVIOUS
<1>1. CASE UNCHANGED reader
  BY <1>1 DEF ReaderInv
<1>2. CASE Stores
  <2>1. PICK form \in {"text", "json"}, len \in Lengths : maybeCacheResult(form, len)
    BY <1>2 DEF Stores
  <2>2. CASE len <= defaultMaxOutputChars
    BY <1>1, <2>1, <2>2 DEF maybeCacheResult
  <2>3. CASE ~(len <= defaultMaxOutputChars)
    <3>1. PICK id \in genCacheID :
              reader' = IF form = "json" THEN truncateJSON(id, len)
                        ELSE Reading("output", id, len, defaultMaxOutputChars)
      BY <2>1, <2>3 DEF maybeCacheResult
    <3>2. id \in Nat /\ 0 \in 0..len /\ defaultMaxOutputChars \in 0..len
      BY <2>3, OutputAssumption, PagingAssumption DEF genCacheID, Ids
    <3> QED BY <3>1, <3>2, ReaderStarts DEF truncateJSON, Kinds
  <2> QED BY <2>2, <2>3
<1>3. CASE ListReading
  <2>1. PICK kind \in {"list", "globals", "strings"}, total \in Lengths :
            reader' = Reading(kind, 0, total, 0)
    BY <1>3 DEF ListReading
  <2>2. 0 \in 0..total
    BY OutputAssumption
  <2> QED BY <2>1, <2>2, ReaderStarts DEF Kinds
<1>4. CASE AnyPage
  <2>1. PICK kind \in {"list", "globals", "output"}, total \in Lengths,
             offset \in Offsets, limit \in Limits :
            /\ PageOf(kind, offset, limit, total).ok
            /\ ~Sliceable(PageOf(kind, offset, limit, total), total)
            /\ reader' = Panic(kind, offset, limit)
    BY <1>4 DEF AnyPage
  <2>2. offset \in Ints /\ limit \in Ints
    BY OutputAssumption
  <2>3. \/ kind = "globals" /\ offset < 0
        \/ kind = "output" /\ offset + limit > MaxInt
    BY <2>1, <2>2, AnyPageSliceable
  <2> QED BY <2>1, <2>2, <2>3 DEF ReaderInv, Panics, Panic
<1> QED BY <1>1, <1>2, <1>3, <1>4, ReaderInvRead DEF OutputStep, Prunes, Tick, outputVars

(* A client that follows next_offset gets every item once and in order,     *)
(* whatever the page sizes, the lengths and the limits of the server:       *)
(* output_cache.go:264-312, server.go:450-466, cache.go:123-161.            *)
THEOREM NothingSkipped == Spec => []PagesReassemble
<1>1. ReaderInv => PagesReassemble
  BY OutputAssumption DEF ReaderInv, PagesReassemble, Readers, Panics, Idle, Gap
<1> QED BY <1>1, ReaderInvInit, ReaderInvStep, NextOutput, PTL DEF Spec

(* No page asked for makes a handler panic but a negative offset into the   *)
(* globals (types.go:29-33) and a stored reply whose offset and limit       *)
(* overflow together (output_cache.go:289), for every int.                  *)
THEOREM PagesCut == Spec => []PagesInBounds
<1>1. ReaderInv => PagesInBounds
  BY DEF ReaderInv, PagesInBounds, Readers, Panics, Idle
<1> QED BY <1>1, ReaderInvInit, ReaderInvStep, NextOutput, PTL DEF Spec

-----------------------------------------------------------------------------
(* The store.  The eviction queue is the tail of what was stored: what is   *)
(* no longer in it was pushed out or has expired.                           *)
Gone == Len(puts) - Len(order)

StoreTypes ==
    /\ entries \in [Ids -> [len : Nat, at : Nat]]
    /\ order \in Seq(Ids) /\ now \in Nat /\ drawn \in Nat
    /\ puts \in Seq([id : Ids, at : Nat])

Queued ==
    \A k \in 1..Len(order) :
        /\ order[k] = puts[Gone + k].id
        /\ entries[order[k]].at = puts[Gone + k].at
        /\ entries[order[k]].len > 0
        /\ order[k] <= drawn

Distinct == \A j, k \in 1..Len(order) : order[j] = order[k] => j = k
NoStrays == \A id \in Ids : entries[id] # Nil => \E k \in 1..Len(order) : order[k] = id
Justified ==
    \A k \in 1..Gone :
        Len(puts) - k >= maxCacheEntries \/ now - puts[k].at > cacheEntryTTL

StoreInv ==
    /\ StoreTypes
    /\ Len(order) <= maxCacheEntries /\ Len(order) <= Len(puts)
    /\ Queued /\ Distinct /\ NoStrays /\ Justified

LEMMA PutTyped == StoreTypes => \A k \in 1..Len(puts) : puts[k].at \in Nat
<1> SUFFICES ASSUME StoreTypes, NEW k \in 1..Len(puts) PROVE puts[k].at \in Nat
  OBVIOUS
<1>1. puts \in Seq([id : Ids, at : Nat])
  BY DEF StoreTypes
<1>2. puts[k] \in [id : Ids, at : Nat]
  <2> DEFINE Put == [id : Ids, at : Nat]
  <2>1. puts \in Seq(Put)
    BY <1>1
  <2> HIDE DEF Put
  <2>2. puts[k] \in Put
    BY <2>1, ElementOfSeq
  <2> QED BY <2>2 DEF Put
<1> QED BY <1>2

LEMMA StoreInvInit == Init => StoreInv
<1> SUFFICES ASSUME Init PROVE StoreInv
  OBVIOUS
<1>1. /\ entries = [id \in Ids |-> Nil] /\ order = <<>> /\ now = 0
      /\ drawn = 0 /\ puts = <<>>
  BY DEF Init, OutputInit
<1>2. StoreTypes
  BY <1>1 DEF StoreTypes, Nil
<1>3. Len(order) = 0 /\ Len(puts) = 0 /\ Gone = 0
  BY <1>1 DEF Gone
<1>4. NoStrays
  BY <1>1 DEF NoStrays
<1> QED BY <1>2, <1>3, <1>4, OutputAssumption DEF StoreInv, Queued, Distinct, Justified

(* The new reply comes, and cut replies go that had to.                     *)
LEMMA ReplaceKeeps ==
    ASSUME StoreInv, NEW id \in Ids, id = drawn + 1, NEW len \in Nat \ {0},
           NEW cut \in 0..Len(order), Replace(id, len, cut), UNCHANGED now,
           Len(order) - cut < maxCacheEntries,
           \A k \in 1..cut : \/ Len(order) - k >= maxCacheEntries - 1
                             \/ Expired(order[k])
    PROVE  StoreInv'
<1> DEFINE n == Len(order)
           p == Len(puts)
<1>0. /\ maxCacheEntries \in Nat /\ cacheEntryTTL \in Nat /\ id \in Nat
      /\ \A i \in Ids : i \in Nat
  BY OutputAssumption DEF Ids
<1>1. /\ order \in Seq(Ids) /\ n \in Nat /\ p \in Nat /\ n <= p /\ cut \in 0..n
      /\ puts \in Seq([id : Ids, at : Nat]) /\ drawn \in Nat /\ now \in Nat
      /\ entries \in [Ids -> [len : Nat, at : Nat]] /\ Gone = p - n
  BY DEF StoreInv, StoreTypes, Gone
<1>2. /\ order' = Append(SubSeq(order, cut + 1, n), id)
      /\ puts' = Append(puts, [id |-> id, at |-> now]) /\ drawn' = id /\ now' = now
      /\ entries' = [i \in Ids |->
             CASE i = id -> [len |-> len, at |-> now]
               [] i # id /\ (\E k \in 1..cut : order[k] = i) -> Nil
               [] OTHER -> entries[i]]
  BY DEF Replace
<1>3. /\ SubSeq(order, cut + 1, n) \in Seq(Ids) /\ Len(SubSeq(order, cut + 1, n)) = n - cut
      /\ \A k \in 1..(n - cut) : SubSeq(order, cut + 1, n)[k] = order[cut + k]
  <2>1. cut + 1 \in Int /\ n \in Int /\ n - (cut + 1) + 1 = n - cut
        /\ (IF cut + 1 <= n THEN n - (cut + 1) + 1 ELSE 0) = n - cut
    BY <1>1
  <2>2. \A k \in 1..(n - cut) : (cut + 1) + k - 1 = cut + k
    BY <1>1
  <2>3. \A i \in (cut + 1)..n : order[i] \in Ids
    BY <1>1
  <2> HIDE DEF n
  <2>4. /\ SubSeq(order, cut + 1, n) \in Seq(Ids)
        /\ Len(SubSeq(order, cut + 1, n)) = IF cut + 1 <= n THEN n - (cut + 1) + 1 ELSE 0
        /\ \A k \in 1..(n - (cut + 1) + 1) : SubSeq(order, cut + 1, n)[k] = order[(cut + 1) + k - 1]
    BY <2>1, <2>3, SubSeqProperties
  <2> QED BY <2>1, <2>2, <2>4
<1>4. /\ order' \in Seq(Ids) /\ Len(order') = n - cut + 1
      /\ \A k \in 1..(n - cut) : order'[k] = order[cut + k]
      /\ order'[n - cut + 1] = id
  <2> DEFINE rest == SubSeq(order, cut + 1, n)
  <2>2. order' = Append(rest, id)
    BY <1>2
  <2>4. n - cut \in Nat
    BY <1>1
  <2> HIDE DEF n
  <2>1. /\ rest \in Seq(Ids) /\ Len(rest) = n - cut /\ n - cut \in Nat
        /\ \A k \in 1..(n - cut) : rest[k] = order[cut + k]
    BY <1>3, <2>4, Zenon
  <2> HIDE DEF rest
  <2>3. /\ order' \in Seq(Ids) /\ Len(order') = Len(rest) + 1
        /\ \A k \in 1..Len(rest) : order'[k] = rest[k]
        /\ order'[Len(rest) + 1] = id
    BY <2>1, <2>2, AppendProperties
  <2> QED BY <2>1, <2>3
<1>5. /\ puts' \in Seq([id : Ids, at : Nat]) /\ Len(puts') = p + 1
      /\ \A k \in 1..p : puts'[k] = puts[k]
      /\ puts'[p + 1] = [id |-> id, at |-> now]
  BY <1>1, <1>2
<1>6. Gone' = p - n + cut
  BY <1>1, <1>4, <1>5 DEF Gone
<1>7. \A k \in 1..n : order[k] \in Ids /\ order[k] # id
  <2> TAKE k \in 1..n
  <2>1. order[k] \in Ids
    BY <1>1
  <2>2. order[k] <= drawn
    BY DEF StoreInv, Queued
  <2> QED BY <1>0, <1>1, <2>1, <2>2
<1>8. StoreTypes'
  <2>1. entries' \in [Ids -> [len : Nat, at : Nat]]
    <3>1. Nil \in [len : Nat, at : Nat] /\ [len |-> len, at |-> now] \in [len : Nat, at : Nat]
      BY <1>1 DEF Nil
    <3> QED BY <1>1, <1>2, <3>1
  <2> QED BY <1>0, <1>1, <1>2, <1>4, <1>5, <2>1 DEF StoreTypes
<1>9. Len(order') <= maxCacheEntries /\ Len(order') <= Len(puts')
  <2>1. n - cut < maxCacheEntries
    OBVIOUS
  <2> HIDE DEF n, p
  <2>2. n - cut + 1 <= maxCacheEntries /\ n - cut + 1 <= p + 1
    BY <1>0, <1>1, <2>1
  <2> QED BY <1>4, <1>5, <2>2
<1>10. \A k \in 1..(n - cut) :
           /\ entries'[order[cut + k]] = entries[order[cut + k]]
           /\ order'[k] = order[cut + k] /\ cut + k \in 1..n
  <2> TAKE k \in 1..(n - cut)
  <2>1. cut + k \in 1..n /\ order[cut + k] \in Ids /\ order[cut + k] # id
    BY <1>1, <1>7
  <2>2. \A j \in 1..cut : order[j] # order[cut + k]
    <3> TAKE j \in 1..cut
    <3>1. j \in 1..n /\ j # cut + k
      BY <1>1
    <3> QED BY <2>1, <3>1 DEF StoreInv, Distinct
  <2> QED BY <1>2, <1>4, <2>1, <2>2
<1>11. Queued'
  <2> SUFFICES ASSUME NEW k \in 1..(n - cut + 1)
               PROVE  /\ order'[k] = puts'[Gone' + k].id
                      /\ entries'[order'[k]].at = puts'[Gone' + k].at
                      /\ entries'[order'[k]].len > 0
                      /\ order'[k] <= drawn'
    BY <1>4 DEF Queued
  <2>1. CASE k = n - cut + 1
    <3>1. Gone' + k = p + 1 /\ order'[k] = id
      BY <1>1, <1>4, <1>6, <2>1
    <3>2. entries'[id] = [len |-> len, at |-> now]
      BY <1>2
    <3>3. puts'[Gone' + k] = [id |-> id, at |-> now]
      BY <1>5, <3>1
    <3>4. id <= drawn' /\ len > 0
      BY <1>0, <1>2
    <3>5. entries'[order'[k]] = [len |-> len, at |-> now]
      BY <3>1, <3>2
    <3> QED BY <3>1, <3>3, <3>4, <3>5
  <2>2. CASE k \in 1..(n - cut)
    <3>1. /\ Gone' + k = Gone + (cut + k) /\ Gone' + k \in 1..p /\ cut + k \in 1..n
      BY <1>1, <1>6, <2>2
    <3>2. /\ order'[k] = order[cut + k] /\ entries'[order'[k]] = entries[order[cut + k]]
      BY <1>10, <2>2
    <3>3. puts'[Gone' + k] = puts[Gone + (cut + k)]
      BY <1>5, <3>1
    <3>4. /\ order[cut + k] = puts[Gone + (cut + k)].id
          /\ entries[order[cut + k]].at = puts[Gone + (cut + k)].at
          /\ entries[order[cut + k]].len > 0 /\ order[cut + k] <= drawn
      BY <3>1 DEF StoreInv, Queued
    <3>5. order[cut + k] <= drawn'
      <4>1. order[cut + k] \in Nat
        BY <1>0, <1>7, <3>1
      <4>2. drawn' = drawn + 1 /\ drawn \in Nat
        BY <1>1, <1>2
      <4> HIDE DEF n, p
      <4> QED BY <3>4, <4>1, <4>2
    <3> QED BY <3>2, <3>3, <3>4, <3>5
  <2> QED BY <1>1, <2>1, <2>2
<1>12. Distinct'
  <2> SUFFICES ASSUME NEW j \in 1..(n - cut + 1), NEW k \in 1..(n - cut + 1), order'[j] = order'[k]
               PROVE  j = k
    BY <1>4 DEF Distinct
  <2>1. CASE j \in 1..(n - cut) /\ k \in 1..(n - cut)
    <3>1. order[cut + j] = order[cut + k] /\ cut + j \in 1..n /\ cut + k \in 1..n
      BY <1>10, <2>1
    <3>2. cut + j = cut + k
      BY <3>1 DEF StoreInv, Distinct
    <3> QED BY <1>1, <3>2
  <2>2. CASE j = n - cut + 1 /\ k \in 1..(n - cut)
    BY <1>4, <1>7, <1>10, <2>2
  <2>3. CASE k = n - cut + 1 /\ j \in 1..(n - cut)
    BY <1>4, <1>7, <1>10, <2>3
  <2>4. n - cut \in Nat
    BY <1>1
  <2> HIDE DEF n
  <2>5. /\ j \in 1..(n - cut) \/ j = n - cut + 1
        /\ k \in 1..(n - cut) \/ k = n - cut + 1
    BY <2>4
  <2> QED BY <2>1, <2>2, <2>3, <2>5
<1>13. NoStrays'
  <2> SUFFICES ASSUME NEW i \in Ids, entries'[i] # Nil
               PROVE  \E k \in 1..(n - cut + 1) : order'[k] = i
    BY <1>4 DEF NoStrays
  <2>1. CASE i = id
    BY <1>1, <1>4, <2>1
  <2>2. CASE i # id
    <3>1. entries[i] # Nil /\ ~(\E k \in 1..cut : order[k] = i)
      BY <1>2, <2>2
    <3>2. PICK m \in 1..n : order[m] = i
      BY <3>1 DEF StoreInv, NoStrays
    <3>3. m > cut
      BY <1>1, <3>1, <3>2
    <3>4. m - cut \in 1..(n - cut) /\ cut + (m - cut) = m
      BY <1>1, <3>3
    <3>5. order'[m - cut] = i
      BY <1>4, <3>2, <3>4
    <3> QED BY <1>1, <3>4, <3>5
  <2> QED BY <2>1, <2>2
<1>14. Justified'
  <2> SUFFICES ASSUME NEW k \in 1..(p - n + cut)
               PROVE  p + 1 - k >= maxCacheEntries \/ now - puts[k].at > cacheEntryTTL
    BY <1>1, <1>2, <1>5, <1>6 DEF Justified
  <2>1. CASE k \in 1..(p - n)
    <3>1. p - k >= maxCacheEntries \/ now - puts[k].at > cacheEntryTTL
      BY <1>1, <2>1 DEF StoreInv, Justified
    <3> QED BY <1>1, <3>1, OutputAssumption
  <2>2. CASE k > p - n
    <3> DEFINE m == k - (p - n)
    <3>1. m \in 1..cut /\ m \in 1..n /\ Gone + m = k
      BY <1>1, <2>2
    <3>2. n - m >= maxCacheEntries - 1 \/ Expired(order[m])
      BY <3>1
    <3>3. entries[order[m]].at = puts[k].at
      BY <3>1 DEF StoreInv, Queued
    <3>4. CASE Expired(order[m])
      BY <3>3, <3>4 DEF Expired
    <3>5. CASE n - m >= maxCacheEntries - 1
      <4>1. p + 1 - k = n - m + 1 /\ n - m \in Int
        BY <1>1
      <4> HIDE DEF n, p, m
      <4> QED BY <1>0, <3>5, <4>1
    <3> HIDE DEF n, p, m
    <3> QED BY <3>2, <3>4, <3>5
  <2> QED BY <1>1, <2>1, <2>2
<1> QED BY <1>8, <1>9, <1>11, <1>12, <1>13, <1>14 DEF StoreInv

LEMMA PutKeeps ==
    ASSUME StoreInv, NEW id \in genCacheID, NEW len \in Nat \ {0}, put(id, len), UNCHANGED now
    PROVE  StoreInv'
<1>1. id \in Ids /\ id = drawn + 1
  BY DEF genCacheID
<1>2. /\ Len(order) \in Nat /\ Len(order) <= maxCacheEntries
      /\ maxCacheEntries \in Nat \ {0} /\ now \in Nat
  BY OutputAssumption DEF StoreInv, StoreTypes
<1>3. PICK e \in 0..Len(order) :
          /\ LeadingExpired(e)
          /\ Replace(id, len, IF Len(order) - e >= maxCacheEntries
                              THEN Len(order) - maxCacheEntries + 1 ELSE e)
  BY DEF put
<1>4. \A k \in 1..e : Expired(order[k])
  BY <1>3 DEF LeadingExpired
<1>5. CASE Len(order) - e >= maxCacheEntries
  <2> DEFINE cut == Len(order) - maxCacheEntries + 1
  <2>1. /\ cut \in 0..Len(order) /\ Len(order) - cut < maxCacheEntries
        /\ \A k \in 1..cut : Len(order) - k >= maxCacheEntries - 1
    BY <1>2, <1>5
  <2>2. Replace(id, len, cut)
    BY <1>3, <1>5
  <2> HIDE DEF cut
  <2> QED BY <1>1, <2>1, <2>2, ReplaceKeeps
<1>6. CASE ~(Len(order) - e >= maxCacheEntries)
  <2>1. Replace(id, len, e) /\ Len(order) - e < maxCacheEntries
    BY <1>2, <1>3, <1>6
  <2> QED BY <1>1, <1>4, <2>1, ReplaceKeeps
<1> QED BY <1>5, <1>6

LEMMA StoreInvStep == StoreInv /\ OutputStep => StoreInv'
<1> SUFFICES ASSUME StoreInv, OutputStep PROVE StoreInv'
  OBVIOUS
<1>1. CASE UNCHANGED <<storeVars, now>>
  <2>1. /\ entries' = entries /\ order' = order /\ drawn' = drawn /\ puts' = puts
        /\ now' = now
    BY <1>1 DEF storeVars
  <2> QED BY <2>1 DEF StoreInv, StoreTypes, Queued, Distinct, NoStrays, Justified, Gone
<1>2. CASE Stores
  <2>1. PICK form \in {"text", "json"}, len \in Lengths : maybeCacheResult(form, len)
    BY <1>2 DEF Stores
  <2>2. CASE len <= defaultMaxOutputChars
    BY <1>1, <1>2, <2>1, <2>2 DEF maybeCacheResult, Stores
  <2>3. CASE ~(len <= defaultMaxOutputChars)
    <3>1. PICK id \in genCacheID : put(id, len)
      BY <2>1, <2>3 DEF maybeCacheResult
    <3>2. len \in Nat \ {0}
      BY <2>3, OutputAssumption, PagingAssumption
    <3> QED BY <1>2, <3>1, <3>2, PutKeeps DEF Stores
  <2> QED BY <2>2, <2>3
<1>3. CASE Prunes
  <2>1. /\ entries' = [id \in Ids |-> Nil] /\ order' = <<>> /\ puts' = <<>>
        /\ drawn' = drawn /\ now' = now
    BY <1>3 DEF Prunes, clear
  <2>2. StoreTypes'
    BY <2>1 DEF StoreTypes, StoreInv, Nil
  <2>3. Len(order') = 0 /\ Len(puts') = 0 /\ Gone' = 0
    BY <2>1 DEF Gone
  <2>4. NoStrays'
    BY <2>1 DEF NoStrays
  <2> QED BY <2>2, <2>3, <2>4, OutputAssumption DEF StoreInv, Queued, Distinct, Justified
<1>4. CASE Tick
  <2>1. /\ entries' = entries /\ order' = order /\ drawn' = drawn /\ puts' = puts
        /\ now' = now + 1 /\ now \in Nat
    BY <1>4 DEF Tick, storeVars, StoreInv, StoreTypes
  <2>2. StoreTypes' /\ Queued'
    <3>1. StoreTypes /\ Queued
      BY DEF StoreInv
    <3>2. now' \in Nat
      BY <2>1
    <3>3. StoreTypes'
      BY <2>1, <3>1, <3>2 DEF StoreTypes
    <3>4. Queued'
      BY <2>1, <3>1, Zenon DEF Queued, Gone
    <3> QED BY <3>3, <3>4
  <2>3. Distinct' /\ NoStrays'
    BY <2>1 DEF StoreInv, Distinct, NoStrays
  <2>4. Justified'
    <3>1. Gone' = Gone
      BY <2>1 DEF Gone
    <3> SUFFICES ASSUME NEW k \in 1..Gone'
                 PROVE  Len(puts') - k >= maxCacheEntries \/ now' - puts'[k].at > cacheEntryTTL
      BY DEF Justified
    <3>0. k \in 1..Gone
      BY <3>1
    <3>2. k \in 1..Len(puts)
      <4>1. order \in Seq(Ids) /\ puts \in Seq([id : Ids, at : Nat])
        BY DEF StoreInv, StoreTypes
      <4>2. Len(order) \in Nat /\ Len(puts) \in Nat
        BY <4>1
      <4> QED BY <3>0, <4>2 DEF Gone
    <3>3. puts[k].at \in Nat
      BY <3>2, PutTyped DEF StoreInv
    <3>4. Justified
      BY DEF StoreInv
    <3>5. Len(puts) - k >= maxCacheEntries \/ now - puts[k].at > cacheEntryTTL
      BY <3>0, <3>4 DEF Justified
    <3> QED BY <2>1, <3>3, <3>5, OutputAssumption
  <2>5. Len(order') <= maxCacheEntries /\ Len(order') <= Len(puts')
    BY <2>1 DEF StoreInv
  <2> QED BY <2>2, <2>3, <2>4, <2>5 DEF StoreInv
<1> QED
  BY <1>1, <1>2, <1>3, <1>4 DEF OutputStep, outputVars, getCachedOutput, ListReading, AnyPage

(* The map and the eviction queue of the store agree, and its limit holds:  *)
(* output_cache.go:48-99.                                                   *)
THEOREM StoreBounded == Spec => []OutputsBounded
<1>1. StoreInv => OutputsBounded
  <2> SUFFICES ASSUME StoreInv PROVE OutputsBounded
    OBVIOUS
  <2>1. \A k \in 1..Len(order) : order[k] \in Ids /\ entries[order[k]] # Nil
    <3>1. order \in Seq(Ids) /\ Queued
      BY DEF StoreInv, StoreTypes
    <3> TAKE k \in 1..Len(order)
    <3>2. order[k] \in Ids
      BY <3>1
    <3>3. entries[order[k]].len > 0
      BY <3>1 DEF Queued
    <3> QED BY <3>2, <3>3 DEF Nil
  <2>2. {id \in Ids : entries[id] # Nil} = {order[k] : k \in 1..Len(order)}
    BY <2>1 DEF StoreInv, NoStrays
  <2> QED BY <2>2 DEF OutputsBounded, StoreInv, Distinct
<1> QED BY <1>1, StoreInvInit, StoreInvStep, NextOutput, PTL DEF Spec

(* A stored reply is there until its time is up, maxCacheEntries later ones *)
(* push it out, or the store is pruned: output_cache.go:48-99.              *)
THEOREM RepliesKept == Spec => []EntriesKept
<1>1. StoreInv => EntriesKept
  <2> SUFFICES ASSUME StoreInv, NEW k \in 1..Len(puts),
                      Len(puts) - k < maxCacheEntries, now - puts[k].at <= cacheEntryTTL
               PROVE  get(puts[k].id)
    BY DEF EntriesKept
  <2>1. /\ Len(puts) \in Nat /\ Len(order) \in Nat /\ Len(order) <= Len(puts)
        /\ now \in Nat /\ puts[k].at \in Nat
    <3>1. /\ puts \in Seq([id : Ids, at : Nat]) /\ order \in Seq(Ids) /\ now \in Nat
          /\ Len(order) <= Len(puts)
      BY DEF StoreInv, StoreTypes
    <3>2. puts[k].at \in Nat
      BY PutTyped DEF StoreInv
    <3> QED BY <3>1, <3>2
  <2>2. ~(k \in 1..Gone)
    <3>1. Justified
      BY DEF StoreInv
    <3> QED BY <2>1, <3>1, OutputAssumption DEF Justified
  <2> DEFINE m == k - Gone
  <2>3. m \in 1..Len(order) /\ Gone + m = k
    BY <2>1, <2>2 DEF Gone
  <2>4. /\ order[m] = puts[k].id /\ entries[order[m]].at = puts[k].at
        /\ entries[order[m]].len > 0
    BY <2>3 DEF StoreInv, Queued
  <2> QED BY <2>1, <2>4, OutputAssumption DEF get, Expired, Nil
<1> QED BY <1>1, StoreInvInit, StoreInvStep, NextOutput, PTL DEF Spec

-----------------------------------------------------------------------------

(* The steps that occur in the scripts of the handlers, and what they are   *)
(* to a call: what needs a session, what finds one, what changes something  *)
(* and what may still refuse the request.                                   *)
Args ==
    {"address", "addresses", "comment", "comment_address", "end", "function",
     "function_address", "il2cpp_path", "lvar_name", "meta_json_path", "name",
     "needle", "page", "path", "pattern", "prototype", "regex", "script_path",
     "start", "type"}

RpcNames ==
    {"DataReadByte", "DataReadString", "DeleteName", "FindBinary", "FindText",
     "GetBytes", "GetComment", "GetDataRefs", "GetDecompiled", "GetDisasm",
     "GetDwordAt", "GetEntryPoint", "GetEnums", "GetExports", "GetFuncComment",
     "GetFunctionInfo", "GetFunctionName", "GetFunctions", "GetGlobals", "GetImports",
     "GetInstructionLength", "GetName", "GetQwordAt", "GetSegments",
     "GetSessionInfo", "GetStringXRefs", "GetStrings", "GetStructs", "GetTypeAt",
     "GetXRefs", "GetXRefsFrom", "GetXRefsTo", "ImportFlutter", "ImportIl2cpp",
     "MakeFunction", "SaveDatabase", "SetComment", "SetDecompilerComment",
     "SetFuncComment", "SetFunctionType", "SetGlobalType", "SetLvarType", "SetName",
     "batch_annotate", "exports", "first", "functions", "imports", "py_eval",
     "second", "strings"}

PartSpace ==
    [rpc : RpcNames, on : {"must", "told", "silent"}, held : BOOLEAN, writes : BOOLEAN]

SearchModes == CrossModes \cup {Other, ""}

StepSpace ==
    [op : {"check"}, arg : Args]
    \cup [op : {"resolve", "attempt"}, how : {"session", "load", "gate", "wait"}, at : {1, 2}]
    \cup [op : {"ask"}, parts : SUBSET PartSpace, at : {1, 2}]
    \cup [op : {"race"}, parts : {XRefs}, at : {1}]
    \cup [op : {"note"}, note : BOOLEAN]
    \cup [op : {"search"}, mode : SearchModes]
    \cup [op : {"refuse", "invalid", "some", "named", "function", "sessions", "cache",
                "cacheIfNamed", "visit", "clear", "promote", "create", "start", "promote1",
                "stop", "delete", "uncache", "list", "demote", "analyze"}]

NeedsSession(st) ==
    st.op \in {"cache", "cacheIfNamed", "visit", "note", "start", "stop", "delete",
               "uncache", "analyze", "promote"}
FindsSession(st) == st.op = "create" \/ (st.op = "resolve" /\ st.at = 1)

ChangeOps == {"visit", "note", "clear", "promote"}
Touches(st) ==
    \/ st.op \in {"visit", "note", "clear", "promote"}
    \/ st.op \in {"ask", "race"} /\ \E p \in st.parts : p.writes
CanRefuse(st) == st.op \in {"check", "refuse", "invalid", "search"}

(* The tools that promote the tier for the session they have found.         *)
Promoters == {"survey_binary", "analyze_function"}

(* A step that can be a step of this tool.                                  *)
Fits(tool, st) ==
    /\ st.op = "promote" => tool \in Promoters
    /\ st.op = "resolve" /\ st.how = "session" => tool \notin Promoters
    /\ st.op \in {"invalid", "search", "sessions", "attempt"} => tool = "cross_search"
    /\ st.op \in {"named", "function"} => tool = "cross_reference"
    /\ st.op \in {"create", "start", "promote1"} => tool = "open_binary"
    /\ st.op \in {"stop", "delete", "uncache", "list", "demote"} => tool = "close_binary"
    /\ NeedsSession(st) => tool # "cross_search"
    /\ st.op \in {"ask", "race"} =>
          \A p \in st.parts : /\ p.on = "silent" => p.rpc \in BestEffort(tool)
                              /\ p.on = "told" => p.rpc \notin BestEffort(tool)
StepsOf(tool) == {st \in StepSpace : Fits(tool, st)}
(* A script is sound when it has found a session before a step that needs   *)
(* one, tests nothing after it has changed something, and goes on after an  *)
(* attempt.                                                                 *)
Rooted(s) ==
    \A k \in 1..Len(s) : NeedsSession(s[k]) => \E j \in 1..(k - 1) : FindsSession(s[j])
Ordered(s) ==
    \A j, k \in 1..Len(s) : j < k /\ Touches(s[j]) => ~CanRefuse(s[k])
Paired(s) == \A k \in 1..Len(s) : s[k].op = "attempt" => k < Len(s)

(* The steps that fit at the beginning and at the end of a sound script.    *)
Opening(tool, st) ==
    st \in StepsOf(tool) /\ ~NeedsSession(st) /\ ~Touches(st) /\ st.op # "attempt"
Working(tool, st) == st \in StepsOf(tool) /\ ~CanRefuse(st) /\ st.op # "attempt"
Sound(tool, s) == s \in Seq(StepsOf(tool)) /\ Rooted(s) /\ Ordered(s) /\ Paired(s)

(* The kinds of steps.                                                      *)
LEMMA CheckStep ==
    ASSUME NEW tool, NEW arg \in Args
    PROVE  Opening(tool, Check(arg))
  BY DEF Opening, Check, StepsOf, StepSpace, Fits, NeedsSession, Touches

LEMMA ResolveStep ==
    ASSUME NEW tool, NEW how \in {"session", "load", "gate", "wait"},
           how = "session" => tool \notin Promoters
    PROVE  /\ Opening(tool, Resolve(how)) /\ Working(tool, Resolve(how))
           /\ FindsSession(Resolve(how))
  BY DEF Opening, Working, Resolve, StepsOf, StepSpace, Fits, NeedsSession, FindsSession,
         Touches, CanRefuse

LEMMA AskStep ==
    ASSUME NEW tool, NEW parts \in SUBSET PartSpace, NEW i \in {1, 2},
           \A p \in parts : /\ p.on = "silent" => p.rpc \in BestEffort(tool)
                            /\ p.on = "told" => p.rpc \notin BestEffort(tool)
    PROVE  /\ Working(tool, AskAt(i, parts)) /\ ~NeedsSession(AskAt(i, parts))
           /\ (\A p \in parts : ~p.writes) => Opening(tool, AskAt(i, parts))
  BY DEF Opening, Working, AskAt, StepsOf, StepSpace, Fits, NeedsSession, Touches, CanRefuse

LEMMA MustStep ==
    ASSUME NEW tool, NEW rpc \in RpcNames
    PROVE  Opening(tool, Must(rpc)) /\ Working(tool, Must(rpc))
<1> DEFINE parts == {Part(rpc, "must")}
<1>1. parts \in SUBSET PartSpace /\ \A p \in parts : p.on = "must" /\ ~p.writes
  BY DEF Part, PartSpace
<1>2. Must(rpc) = AskAt(1, parts)
  BY DEF Must, Ask
<1> HIDE DEF parts
<1> QED BY <1>1, <1>2, AskStep

LEMMA LoadStep ==
    ASSUME NEW tool, NEW rpc \in RpcNames
    PROVE  Opening(tool, Load(rpc)) /\ Working(tool, Load(rpc))
<1> DEFINE parts == {HeldPart(rpc, "must")}
<1>1. parts \in SUBSET PartSpace /\ \A p \in parts : p.on = "must" /\ ~p.writes
  BY DEF HeldPart, PartSpace
<1>2. Load(rpc) = AskAt(1, parts)
  BY DEF Load, Ask
<1> HIDE DEF parts
<1> QED BY <1>1, <1>2, AskStep

LEMMA SilentAt ==
    ASSUME NEW tool, NEW rpc \in RpcNames, rpc \in BestEffort(tool), NEW i \in {1, 2}
    PROVE  /\ Opening(tool, AskAt(i, {Part(rpc, "silent")}))
           /\ Working(tool, AskAt(i, {Part(rpc, "silent")}))
<1> DEFINE parts == {Part(rpc, "silent")}
<1>1. /\ parts \in SUBSET PartSpace
      /\ \A p \in parts : p.on = "silent" /\ ~p.writes /\ p.rpc = rpc
  BY DEF Part, PartSpace
<1> HIDE DEF parts
<1>2. Opening(tool, AskAt(i, parts)) /\ Working(tool, AskAt(i, parts))
  BY <1>1, AskStep
<1> QED BY <1>2 DEF parts

LEMMA SilentStep ==
    ASSUME NEW tool, NEW rpc \in RpcNames, rpc \in BestEffort(tool)
    PROVE  Opening(tool, Silent(rpc)) /\ Working(tool, Silent(rpc))
  BY SilentAt DEF Silent, Ask

LEMMA WriteStep ==
    ASSUME NEW tool, NEW rpc \in RpcNames
    PROVE  Working(tool, Write(rpc)) /\ ~NeedsSession(Write(rpc))
<1> DEFINE parts == {[rpc |-> rpc, on |-> "must", held |-> FALSE, writes |-> TRUE]}
<1>1. /\ parts \in SUBSET PartSpace /\ \A p \in parts : p.on = "must"
  BY DEF PartSpace
<1>2. Write(rpc) = AskAt(1, parts)
  BY DEF Write, Ask
<1> HIDE DEF parts
<1> QED BY <1>1, <1>2, AskStep

LEMMA ServerStep ==
    ASSUME NEW tool, tool # "cross_search"
    PROVE  /\ \A op \in {"cache", "cacheIfNamed", "visit", "clear", "analyze"} :
                  Working(tool, Step(op))
           /\ tool \in Promoters => Working(tool, Step("promote"))
           /\ ~Touches(Step("cache"))
           /\ Opening(tool, Step("refuse"))
           /\ Opening(tool, Step("some")) /\ Working(tool, Step("some"))
           /\ Step("some").op = "some"
  BY DEF Opening, Working, Step, StepsOf, StepSpace, Fits, NeedsSession, Touches, CanRefuse

-----------------------------------------------------------------------------
(* Scripts from their parts.                                                *)
LEMMA SoundConcat ==
    ASSUME NEW tool, NEW p, Sound(tool, p),
           NEW q \in Seq(StepsOf(tool)), Ordered(q), Paired(q),
           \/ \A k \in 1..Len(p) : ~Touches(p[k])
           \/ \A k \in 1..Len(q) : ~CanRefuse(q[k]),
           Rooted(q) \/ \E k \in 1..Len(p) : FindsSession(p[k])
    PROVE  /\ Sound(tool, p \o q)
           /\ (\E k \in 1..Len(p) : FindsSession(p[k]))
                  => \E k \in 1..Len(p \o q) : FindsSession((p \o q)[k])
<1> DEFINE n == Len(p)
           m == Len(q)
           s == p \o q
<1>1. /\ p \in Seq(StepsOf(tool)) /\ n \in Nat /\ m \in Nat /\ s \in Seq(StepsOf(tool))
      /\ Len(s) = n + m
  BY DEF Sound
<1>2. /\ \A k \in 1..n : s[k] = p[k]
      /\ \A k \in 1..m : s[n + k] = q[k]
  BY DEF Sound
<1> HIDE DEF s, n, m
<1>3. ASSUME NEW k \in 1..Len(s)
      PROVE  \/ k \in 1..n /\ s[k] = p[k]
             \/ \E i \in 1..m : k = n + i /\ s[k] = q[i]
  <2>1. k \in 1..n \/ (k - n \in 1..m /\ n + (k - n) = k)
    BY <1>1
  <2> QED BY <1>2, <2>1
<1>4. Rooted(s)
  <2> SUFFICES ASSUME NEW k \in 1..Len(s), NeedsSession(s[k])
               PROVE  \E j \in 1..(k - 1) : FindsSession(s[j])
    BY DEF Rooted
  <2>1. CASE k \in 1..n /\ s[k] = p[k]
    <3>1. PICK j \in 1..(k - 1) : FindsSession(p[j])
      BY <2>1 DEF Sound, Rooted, n
    <3>2. j \in 1..n
      BY <1>1, <2>1
    <3> QED BY <1>2, <3>1, <3>2
  <2>2. ASSUME NEW i \in 1..m, k = n + i, s[k] = q[i]
        PROVE  \E j \in 1..(k - 1) : FindsSession(s[j])
    <3>1. CASE \E j \in 1..n : FindsSession(p[j])
      <4>1. PICK j \in 1..n : FindsSession(p[j])
        BY <3>1
      <4>2. j \in 1..(k - 1) /\ s[j] = p[j]
        BY <1>1, <1>2, <2>2
      <4> QED BY <4>1, <4>2
    <3>2. CASE Rooted(q)
      <4>1. PICK j \in 1..(i - 1) : FindsSession(q[j])
        BY <2>2, <3>2 DEF Rooted, m
      <4>2. j \in 1..m /\ n + j \in 1..(k - 1)
        BY <1>1, <2>2
      <4>3. s[n + j] = q[j]
        BY <1>2, <4>2
      <4> QED BY <4>1, <4>2, <4>3
    <3> QED BY <3>1, <3>2 DEF n
  <2> QED BY <1>3, <2>1, <2>2
<1>5. Ordered(s)
  <2> SUFFICES ASSUME NEW j \in 1..Len(s), NEW k \in 1..Len(s), j < k, Touches(s[j])
               PROVE  ~CanRefuse(s[k])
    BY DEF Ordered
  <2>1. CASE j \in 1..n /\ s[j] = p[j] /\ k \in 1..n /\ s[k] = p[k]
    BY <2>1 DEF Sound, Ordered, n
  <2>2. ASSUME NEW i \in 1..m, k = n + i, s[k] = q[i], j \in 1..n, s[j] = p[j]
        PROVE  ~CanRefuse(s[k])
    BY <2>2 DEF n, m
  <2>3. ASSUME NEW i \in 1..m, k = n + i, s[k] = q[i],
               NEW h \in 1..m, j = n + h, s[j] = q[h]
        PROVE  ~CanRefuse(s[k])
    <3>1. h < i
      BY <1>1, <2>3
    <3> QED BY <2>3, <3>1 DEF Ordered, m
  <2>4. \A h \in 1..m : ~(j = n + h /\ k \in 1..n)
    BY <1>1
  <2> QED BY <1>3, <2>1, <2>2, <2>3, <2>4
<1>6. Paired(s)
  <2> SUFFICES ASSUME NEW k \in 1..Len(s), s[k].op = "attempt"
               PROVE  k < Len(s)
    BY DEF Paired
  <2>1. CASE k \in 1..n /\ s[k] = p[k]
    <3>1. k < n
      BY <2>1 DEF Sound, Paired, n
    <3> QED BY <1>1, <3>1
  <2>2. ASSUME NEW i \in 1..m, k = n + i, s[k] = q[i]
        PROVE  k < Len(s)
    <3>1. i < m
      BY <2>2 DEF Paired, m
    <3> QED BY <1>1, <2>2, <3>1
  <2> QED BY <1>3, <2>1, <2>2
<1>7. (\E k \in 1..n : FindsSession(p[k])) => \E k \in 1..Len(s) : FindsSession(s[k])
  BY <1>1, <1>2
<1> QED BY <1>1, <1>4, <1>5, <1>6, <1>7 DEF Sound, s, n

LEMMA QueryChoices ==
    Choices("query") = {"functions", "imports", "exports", "strings", "globals", "segments",
                        "structs", "enums", "entry_point"}
  BY DEF Choices, Chooser, applyEnumConstraints, toolEnums, Required, SessionRequests,
         CompositeRequests, DispatchRequests

LEMMA OtherChoices ==
    /\ Choices("get_references") = {"", "code", "data", "string"}
    /\ Options("get_references") = {"", "to", "from", "both"}
    /\ Choices("search") = {"text", "binary"}
    /\ Choices("read_memory") = {"", "bytes", "dword", "qword", "byte", "string"}
    /\ Choices("set_metadata") = {"set_name", "delete_name", "set_comment"}
    /\ Choices("set_type") = {"function", "global", "lvar"}
    /\ Choices("import_metadata") = {"il2cpp", "flutter"}
<1>1. /\ Choices("get_references") = {"", "code", "data", "string"}
      /\ Choices("search") = {"text", "binary"}
  BY DEF Choices, Chooser, applyEnumConstraints, toolEnums, Required, SessionRequests,
         CompositeRequests, DispatchRequests
<1>2. /\ Choices("read_memory") = {"", "bytes", "dword", "qword", "byte", "string"}
  BY DEF Choices, Chooser, applyEnumConstraints, toolEnums, Required, SessionRequests,
         CompositeRequests, DispatchRequests
<1>3. /\ Choices("set_metadata") = {"set_name", "delete_name", "set_comment"}
      /\ Choices("set_type") = {"function", "global", "lvar"}
  BY DEF Choices, Chooser, applyEnumConstraints, toolEnums, Required, SessionRequests,
         CompositeRequests, DispatchRequests
<1>4. Options("get_references") = {"", "to", "from", "both"}
  BY DEF Options, Optioner, applyEnumConstraints, toolEnums, Required, SessionRequests,
         CompositeRequests, DispatchRequests
<1>5. Choices("import_metadata") = {"il2cpp", "flutter"}
  BY DEF Choices, Chooser, applyEnumConstraints, toolEnums, Required, SessionRequests,
         CompositeRequests, DispatchRequests
<1> QED BY <1>1, <1>2, <1>3, <1>4, <1>5
LEMMA ToolNames ==
    Tools = {"open_binary", "close_binary", "list_sessions", "save_database",
             "get_session_progress", "run_auto_analysis", "get_disasm", "read_memory",
             "survey_binary", "analyze_function", "analyze_functions", "set_analysis_note",
             "get_analysis_context", "prune_context", "py_eval", "annotate_function",
             "make_function", "query", "get_references", "search", "inspect",
             "cross_reference", "cross_search", "set_metadata", "set_type",
             "import_metadata"}
  BY DEF Tools, SessionRequests, CompositeRequests, DispatchRequests

-----------------------------------------------------------------------------
(* Every handler is sound.                                                  *)
LEMMA ReadsSound ==
    ASSUME NEW tool, tool # "cross_search", NEW rpc \in RpcNames
    PROVE  /\ Sound(tool, <<Resolve("wait"), Must(rpc)>>)
           /\ Sound(tool, <<Resolve("wait"), Check("address"), Must(rpc)>>)
           /\ Sound(tool, List(rpc))
           /\ Sound(tool, getSegments)
<1>1. /\ Opening(tool, Resolve("wait")) /\ FindsSession(Resolve("wait"))
      /\ Opening(tool, Check("address")) /\ Opening(tool, Check("regex"))
      /\ Opening(tool, Check("page"))
  BY CheckStep, ResolveStep DEF Args
<1>2. Opening(tool, Must(rpc)) /\ Opening(tool, Load(rpc)) /\ Opening(tool, Load("GetSegments"))
  BY MustStep, LoadStep DEF RpcNames
<1>3. Working(tool, Step("cache")) /\ ~Touches(Step("cache"))
  BY ServerStep
<1>4. Sound(tool, <<Resolve("wait"), Must(rpc)>>)
  BY <1>1, <1>2 DEF Sound, Rooted, Ordered, Paired, Opening
<1>5. Sound(tool, <<Resolve("wait"), Check("address"), Must(rpc)>>)
  BY <1>1, <1>2 DEF Sound, Rooted, Ordered, Paired, Opening
<1>6. Sound(tool, List(rpc))
  BY <1>1, <1>2, <1>3 DEF List, compileRegex, Sound, Rooted, Ordered, Paired, Opening, Working
<1>7. Sound(tool, getSegments)
  BY <1>1, <1>2, <1>3 DEF getSegments, Sound, Rooted, Ordered, Paired, Opening, Working
<1> QED BY <1>4, <1>5, <1>6, <1>7

LEMMA XRefsSound ==
    ASSUME NEW tool, tool # "cross_search", NEW direction
    PROVE  Sound(tool, getXRefs(direction))
<1> DEFINE ask == CASE direction = "to"   -> Must("GetXRefsTo")
                    [] direction = "from" -> Must("GetXRefsFrom")
                    [] OTHER -> [op |-> "race", parts |-> XRefs, at |-> 1]
<1>1. Opening(tool, Resolve("wait")) /\ FindsSession(Resolve("wait"))
  BY ResolveStep
<1>2. Working(tool, Step("cache")) /\ ~Touches(Step("cache"))
  BY ServerStep
<1>3. Opening(tool, ask)
  <2> DEFINE race == [op |-> "race", parts |-> XRefs, at |-> 1]
  <2>1. race \in StepSpace
    BY DEF StepSpace
  <2>2. \A p \in XRefs : p.on = "must" /\ ~p.writes
    BY DEF XRefs, HeldPart
  <2>3. Opening(tool, race)
    BY <2>1, <2>2 DEF Opening, StepsOf, Fits, NeedsSession, Touches
  <2>4. Opening(tool, Must("GetXRefsTo")) /\ Opening(tool, Must("GetXRefsFrom"))
    BY MustStep DEF RpcNames
  <2> QED BY <2>3, <2>4
<1> HIDE DEF ask
<1>4. Sound(tool, <<Resolve("wait"), Step("cache"), ask>>)
  BY <1>1, <1>2, <1>3 DEF Sound, Rooted, Ordered, Paired, Opening, Working
<1> QED BY <1>4 DEF getXRefs, ask

(* The handlers of the tools that change something.                         *)
LEMMA NamesSound ==
    Sound("set_metadata", setName) /\ Sound("set_metadata", deleteName)
<1> DEFINE tool == "set_metadata"
<1>1. Opening(tool, Resolve("wait")) /\ FindsSession(Resolve("wait"))
  BY ResolveStep
<1>2. Working(tool, Step("cache"))
  BY ServerStep
<1>3. Opening(tool, Silent("GetName"))
  BY SilentStep DEF BestEffort, RpcNames
<1>4. /\ Working(tool, Write("SetName")) /\ ~NeedsSession(Write("SetName"))
      /\ Working(tool, Write("DeleteName")) /\ ~NeedsSession(Write("DeleteName"))
  BY WriteStep DEF RpcNames
<1> HIDE DEF tool
<1>5. Sound(tool, setName)
  BY <1>1, <1>2, <1>3, <1>4 DEF setName, Sound, Rooted, Ordered, Paired, Opening, Working
<1>6. Sound(tool, deleteName)
  BY <1>1, <1>2, <1>3, <1>4 DEF deleteName, Sound, Rooted, Ordered, Paired, Opening, Working
<1> QED BY <1>5, <1>6 DEF tool

LEMMA CommentsSound ==
    ASSUME NEW scope
    PROVE  Sound("set_metadata", setComment(scope))
<1> DEFINE tool == "set_metadata"
           p == <<Check("comment"), Resolve("wait")>>
           q == CASE scope = "function"   -> <<Write("SetFuncComment")>>
                  [] scope = "decompiler" -> <<Check("function"), Write("SetDecompilerComment"),
                                               Step("cache")>>
                  [] OTHER                -> <<Write("SetComment")>>
<1>1. /\ Opening(tool, Check("comment")) /\ Opening(tool, Check("function"))
      /\ Opening(tool, Resolve("wait")) /\ FindsSession(Resolve("wait"))
  BY CheckStep, ResolveStep DEF Args
<1>2. Working(tool, Step("cache"))
  BY ServerStep
<1>3. /\ Working(tool, Write("SetFuncComment")) /\ Working(tool, Write("SetComment"))
      /\ Working(tool, Write("SetDecompilerComment"))
  BY WriteStep DEF RpcNames
<1> HIDE DEF tool
<1>4. Sound(tool, p) /\ FindsSession(p[2]) /\ Len(p) = 2 /\ \A k \in 1..2 : ~Touches(p[k])
  BY <1>1 DEF Sound, Rooted, Ordered, Paired, Opening
<1>5. q \in Seq(StepsOf(tool)) /\ Ordered(q) /\ Paired(q)
  <2>1. CASE scope = "function"
    BY <1>3, <2>1 DEF Ordered, Paired, Working
  <2>2. CASE scope = "decompiler"
    BY <1>1, <1>2, <1>3, <2>2 DEF Ordered, Paired, Opening, Working
  <2>3. CASE scope \notin {"function", "decompiler"}
    BY <1>3, <2>3 DEF Ordered, Paired, Working
  <2> QED BY <2>1, <2>2, <2>3
<1>6. setComment(scope) = p \o q
  BY DEF setComment
<1> HIDE DEF p, q
<1>7. Sound(tool, p \o q)
  BY <1>4, <1>5, SoundConcat
<1> QED BY <1>6, <1>7 DEF tool

LEMMA TypesSound ==
    /\ Sound("set_type", setLvarType)
    /\ Sound("set_type", setGlobalType)
    /\ Sound("set_type", setFunctionType)
<1> DEFINE tool == "set_type"
<1>1. /\ Opening(tool, Check("type")) /\ Opening(tool, Check("function_address"))
      /\ Opening(tool, Check("prototype"))
      /\ Opening(tool, Resolve("wait")) /\ FindsSession(Resolve("wait"))
  BY CheckStep, ResolveStep DEF Args
<1>2. Working(tool, Step("cache")) /\ Working(tool, Step("cacheIfNamed"))
  BY ServerStep
<1>3. Opening(tool, Silent("GetName"))
  BY SilentStep DEF BestEffort, RpcNames
<1>4. /\ Working(tool, Write("SetLvarType")) /\ ~NeedsSession(Write("SetLvarType"))
      /\ Working(tool, Write("SetGlobalType")) /\ ~NeedsSession(Write("SetGlobalType"))
      /\ Working(tool, Write("SetFunctionType")) /\ ~NeedsSession(Write("SetFunctionType"))
  BY WriteStep DEF RpcNames
<1> HIDE DEF tool
<1>5. Sound(tool, setLvarType)
  BY <1>1, <1>2, <1>4 DEF setLvarType, Sound, Rooted, Ordered, Paired, Opening, Working
<1>6. Sound(tool, setGlobalType)
  BY <1>1, <1>2, <1>3, <1>4 DEF setGlobalType, Sound, Rooted, Ordered, Paired, Opening, Working
<1>7. Sound(tool, setFunctionType)
  BY <1>1, <1>2, <1>3, <1>4 DEF setFunctionType, Sound, Rooted, Ordered, Paired, Opening, Working
<1> QED BY <1>5, <1>6, <1>7 DEF tool

LEMMA WritesSound ==
    ASSUME NEW tool, tool # "cross_search"
    PROVE  /\ Sound(tool, makeFunction) /\ Sound(tool, importIl2cpp)
           /\ Sound(tool, importFlutter) /\ Sound(tool, annotateFunction)
           /\ \A readOnly \in BOOLEAN : Sound(tool, pyEval(readOnly))
<1>1. /\ Opening(tool, Resolve("wait")) /\ FindsSession(Resolve("wait"))
      /\ \A arg \in Args : Opening(tool, Check(arg))
  BY CheckStep, ResolveStep DEF Args
<1>2. Working(tool, Step("cache"))
  BY ServerStep
<1>3. \A rpc \in RpcNames : Working(tool, Write(rpc)) /\ ~NeedsSession(Write(rpc))
  BY WriteStep DEF RpcNames
<1>4. Sound(tool, makeFunction)
  <2>1. Opening(tool, Check("address")) /\ Working(tool, Write("MakeFunction"))
        /\ ~NeedsSession(Write("MakeFunction"))
    BY <1>1, <1>3 DEF Args, RpcNames
  <2> QED BY <1>1, <1>2, <2>1 DEF makeFunction, Sound, Rooted, Ordered, Paired, Opening, Working
<1>5. Sound(tool, importIl2cpp)
  <2>1. /\ Opening(tool, Check("script_path")) /\ Opening(tool, Check("il2cpp_path"))
        /\ Working(tool, Write("ImportIl2cpp")) /\ ~NeedsSession(Write("ImportIl2cpp"))
    BY <1>1, <1>3 DEF Args, RpcNames
  <2> QED BY <1>1, <2>1 DEF importIl2cpp, Sound, Rooted, Ordered, Paired, Opening, Working
<1>6. Sound(tool, importFlutter)
  <2>1. /\ Opening(tool, Check("meta_json_path"))
        /\ Working(tool, Write("ImportFlutter")) /\ ~NeedsSession(Write("ImportFlutter"))
    BY <1>1, <1>3 DEF Args, RpcNames
  <2> QED BY <1>1, <2>1 DEF importFlutter, Sound, Rooted, Ordered, Paired, Opening, Working
<1>7. Sound(tool, annotateFunction)
  <2>1. /\ Opening(tool, Check("address")) /\ Opening(tool, Check("comment_address"))
        /\ Working(tool, Write("batch_annotate")) /\ ~NeedsSession(Write("batch_annotate"))
    BY <1>1, <1>3 DEF Args, RpcNames
  <2> QED BY <1>1, <1>2, <2>1 DEF annotateFunction, Sound, Rooted, Ordered, Paired, Opening, Working
<1>8. ASSUME NEW readOnly \in BOOLEAN PROVE Sound(tool, pyEval(readOnly))
  <2> DEFINE p == <<Resolve("wait"), Write("py_eval")>>
             q == IF readOnly THEN <<>> ELSE <<Step("cache")>>
  <2>1. Working(tool, Write("py_eval")) /\ ~NeedsSession(Write("py_eval"))
    BY <1>3 DEF RpcNames
  <2>2. Sound(tool, p) /\ FindsSession(p[1]) /\ Len(p) = 2
    BY <1>1, <2>1 DEF Sound, Rooted, Ordered, Paired, Opening, Working
  <2>3. q \in Seq(StepsOf(tool)) /\ Ordered(q) /\ Paired(q) /\ \A k \in 1..Len(q) : ~CanRefuse(q[k])
    BY <1>2 DEF Ordered, Paired, Working
  <2>4. pyEval(readOnly) = p \o q
    BY DEF pyEval
  <2> HIDE DEF p, q
  <2> QED BY <2>2, <2>3, <2>4, SoundConcat
<1> QED BY <1>4, <1>5, <1>6, <1>7, <1>8

LEMMA AnalysesSound ==
    /\ Sound("survey_binary", surveyBinary)
    /\ Sound("analyze_function", analyzeFunction)
    /\ Sound("analyze_functions", analyzeFunctions)
<1>1. ASSUME NEW tool, tool # "cross_search"
      PROVE  /\ Opening(tool, Resolve("wait")) /\ FindsSession(Resolve("wait"))
             /\ Opening(tool, Check("address")) /\ Opening(tool, Check("addresses"))
             /\ Working(tool, Step("cache")) /\ Working(tool, Step("visit"))
             /\ tool \in Promoters => Working(tool, Step("promote"))
  BY <1>1, CheckStep, ResolveStep, ServerStep DEF Args
<1>2. Sound("survey_binary", surveyBinary)
  <2> DEFINE tool == "survey_binary"
  <2>1. Surveyed \in SUBSET PartSpace /\ \A p \in Surveyed : p.on = "told" /\ ~p.writes
    <3>1. ASSUME NEW rpc \in RpcNames
          PROVE  /\ HeldPart(rpc, "told") \in PartSpace /\ HeldPart(rpc, "told").on = "told"
                 /\ ~HeldPart(rpc, "told").writes
                 /\ Part(rpc, "told") \in PartSpace /\ Part(rpc, "told").on = "told"
                 /\ ~Part(rpc, "told").writes
      BY DEF HeldPart, Part, PartSpace
    <3>2. /\ {"GetSegments", "GetFunctions", "GetImports", "GetExports"} \subseteq RpcNames
          /\ {"GetStrings", "GetEntryPoint", "GetSessionInfo"} \subseteq RpcNames
      BY DEF RpcNames
    <3> QED BY <3>1, <3>2 DEF Surveyed
  <2>2. BestEffort(tool) = {}
    BY DEF BestEffort
  <2>3. Working(tool, Ask(Surveyed)) /\ ~NeedsSession(Ask(Surveyed))
    BY <2>1, <2>2, AskStep DEF Ask
  <2>4. tool # "cross_search" /\ tool \in Promoters
    BY DEF Promoters
  <2> HIDE DEF tool
  <2>5. Sound(tool, surveyBinary)
    BY <1>1, <2>3, <2>4 DEF surveyBinary, Sound, Rooted, Ordered, Paired, Opening, Working
  <2> QED BY <2>5 DEF tool
<1>3. Sound("analyze_function", analyzeFunction)
  <2> DEFINE tool == "analyze_function"
             parts == {HeldPart("GetDecompiled", "told"), HeldPart("GetXRefs", "told"),
                       Part("GetFunctionInfo", "silent"), Part("GetFuncComment", "silent")}
             p == <<Resolve("wait"), Check("address")>>
             q == <<Step("promote")>>
  <2>1. parts \in SUBSET PartSpace
    BY DEF Part, HeldPart, PartSpace, RpcNames
  <2>2. BestEffort(tool) = {"GetFunctionInfo", "GetFuncComment"}
    BY DEF BestEffort
  <2>3. \A x \in parts : /\ x.on = "silent" => x.rpc \in BestEffort(tool)
                         /\ x.on = "told" => x.rpc \notin BestEffort(tool)
    BY <2>2 DEF Part, HeldPart
  <2> HIDE DEF parts
  <2>4. Working(tool, AskAt(1, parts)) /\ ~NeedsSession(AskAt(1, parts))
    BY <2>1, <2>3, AskStep
  <2>5. analyzeSingleFunction = <<Step("cache"), AskAt(1, parts), Step("visit")>>
    BY DEF analyzeSingleFunction, parts, Ask
  <2>6. tool # "cross_search" /\ tool \in Promoters
    BY DEF Promoters
  <2> HIDE DEF tool
  <2>7. /\ Sound(tool, p) /\ Len(p) = 2 /\ FindsSession(p[1])
        /\ \A k \in 1..2 : ~Touches(p[k])
    BY <1>1, <2>6 DEF Sound, Rooted, Ordered, Paired, Opening
  <2>8. /\ analyzeSingleFunction \in Seq(StepsOf(tool))
        /\ Ordered(analyzeSingleFunction) /\ Paired(analyzeSingleFunction)
    BY <1>1, <2>4, <2>5, <2>6 DEF Ordered, Paired, Working
  <2>9. /\ q \in Seq(StepsOf(tool)) /\ Ordered(q) /\ Paired(q)
        /\ \A k \in 1..Len(q) : ~CanRefuse(q[k])
    BY <1>1, <2>6 DEF Ordered, Paired, Working
  <2> HIDE DEF p, q
  <2>10. (\A k \in 1..Len(p) : ~Touches(p[k])) /\ \E k \in 1..Len(p) : FindsSession(p[k])
    BY <2>7
  <2>11. /\ Sound(tool, p \o analyzeSingleFunction)
         /\ \E k \in 1..Len(p \o analyzeSingleFunction) :
                FindsSession((p \o analyzeSingleFunction)[k])
    BY <2>7, <2>8, <2>10, SoundConcat
  <2>12. Sound(tool, (p \o analyzeSingleFunction) \o q)
    <3> DEFINE r == p \o analyzeSingleFunction
    <3>1. Sound(tool, r) /\ \E k \in 1..Len(r) : FindsSession(r[k])
      BY <2>11
    <3> HIDE DEF r
    <3>2. Sound(tool, r \o q)
      BY <2>9, <3>1, SoundConcat
    <3> QED BY <3>2 DEF r
  <2> QED BY <2>12 DEF analyzeFunction, p, q, tool
<1>4. Sound("analyze_functions", analyzeFunctions)
  <2> DEFINE tool == "analyze_functions"
             parts == {HeldPart(r, "told") : r \in {"first", "second"}}
  <2>1. parts \in SUBSET PartSpace /\ \A x \in parts : x.on = "told"
    <3>1. ASSUME NEW rpc \in RpcNames
          PROVE  HeldPart(rpc, "told") \in PartSpace /\ HeldPart(rpc, "told").on = "told"
      BY DEF HeldPart, PartSpace
    <3>2. {"first", "second"} \subseteq RpcNames
      BY DEF RpcNames
    <3> QED BY <3>1, <3>2
  <2>2. BestEffort(tool) = {}
    BY DEF BestEffort
  <2>3. parallelMap({"first", "second"}) = AskAt(1, parts)
    BY DEF parallelMap, Ask
  <2> HIDE DEF parts
  <2>4. Working(tool, AskAt(1, parts)) /\ ~NeedsSession(AskAt(1, parts))
    BY <2>1, <2>2, AskStep
  <2>5. tool # "cross_search"
    OBVIOUS
  <2> HIDE DEF tool
  <2>6. Sound(tool, analyzeFunctions)
    BY <1>1, <2>3, <2>4, <2>5
       DEF analyzeFunctions, Sound, Rooted, Ordered, Paired, Opening, Working
  <2> QED BY <2>6 DEF tool
<1> QED BY <1>2, <1>3, <1>4

LEMMA InspectSound ==
    /\ Sound("inspect", inspect)
    /\ inspect # <<>> /\ inspect[Len(inspect)].op = "some"
<1> DEFINE tool == "inspect"
           parts == {Part(r, "told") : r \in Inspected}
<1>1. parts \in SUBSET PartSpace /\ \A x \in parts : x.on = "told" /\ ~x.writes
  <2>1. ASSUME NEW rpc \in RpcNames
        PROVE  /\ Part(rpc, "told") \in PartSpace /\ Part(rpc, "told").on = "told"
               /\ ~Part(rpc, "told").writes
    BY DEF Part, PartSpace
  <2>2. Inspected \subseteq RpcNames
    BY DEF Inspected, RpcNames
  <2> QED BY <2>1, <2>2
<1>2. BestEffort(tool) = {}
  BY DEF BestEffort
<1>3. tool # "cross_search"
  OBVIOUS
<1>4. inspect = <<Resolve("wait"), Check("address"), AskAt(1, parts), Step("some")>>
  BY DEF inspect, Ask
<1> HIDE DEF parts
<1>5. Working(tool, AskAt(1, parts)) /\ ~NeedsSession(AskAt(1, parts))
  BY <1>1, <1>2, AskStep
<1>6. /\ Opening(tool, Resolve("wait")) /\ FindsSession(Resolve("wait"))
      /\ Opening(tool, Check("address"))
      /\ Opening(tool, Step("some")) /\ Working(tool, Step("some"))
      /\ Step("some").op = "some"
  BY <1>3, CheckStep, ResolveStep, ServerStep DEF Args
<1> HIDE DEF tool
<1>7. Sound(tool, inspect)
  BY <1>4, <1>5, <1>6 DEF Sound, Rooted, Ordered, Paired, Opening, Working
<1> QED BY <1>4, <1>6, <1>7 DEF tool

LEMMA CrossSound ==
    /\ Sound("cross_reference", crossReference)
    /\ \A mode \in SearchModes : Sound("cross_search", crossSearch(mode))
<1>1. Sound("cross_reference", crossReference)
  <2> DEFINE tool == "cross_reference"
             ask(rpc) == AskAt(2, {Part(rpc, "silent")})
  <2>1. /\ Opening(tool, ask("GetImports")) /\ Opening(tool, ask("GetExports"))
        /\ Opening(tool, ask("GetFunctions")) /\ Opening(tool, ask("GetStrings"))
    BY SilentAt DEF BestEffort, RpcNames
  <2>2. /\ Opening(tool, ResolveAt(1)) /\ Opening(tool, ResolveAt(2))
        /\ Opening(tool, Step("named"))
    BY DEF Opening, ResolveAt, Step, StepsOf, StepSpace, Fits, NeedsSession, Touches
  <2>3. Opening(tool, Check("address")) /\ Opening(tool, Must("GetName"))
    BY CheckStep, MustStep DEF Args, RpcNames
  <2> HIDE DEF tool, ask
  <2>4. crossReference =
            <<ResolveAt(1), ResolveAt(2), Check("address"), Must("GetName"), Step("named"),
              ask("GetImports"), ask("GetExports"), ask("GetFunctions"), ask("GetStrings")>>
    BY DEF crossReference, ask
  <2>5. /\ crossReference \in Seq(StepsOf(tool)) /\ Len(crossReference) = 9
        /\ \A k \in 1..9 : Opening(tool, crossReference[k])
    BY <2>1, <2>2, <2>3, <2>4 DEF Opening
  <2>6. Sound(tool, crossReference)
    BY <2>5 DEF Sound, Rooted, Ordered, Paired, Opening
  <2> QED BY <2>6 DEF tool
<1>2. ASSUME NEW mode \in SearchModes
      PROVE  Sound("cross_search", crossSearch(mode))
  <2> DEFINE tool == "cross_search"
             begin == IF mode = "" THEN Step("refuse") ELSE Step("sessions")
             seek == [op |-> "search", mode |-> mode]
  <2>1. Opening(tool, begin) /\ Opening(tool, seek)
    BY DEF Opening, Step, StepsOf, StepSpace, Fits, NeedsSession, Touches
  <2>2. Opening(tool, compileRegex)
    BY CheckStep DEF compileRegex, Args
  <2>3. crossSearch(mode) = <<begin, compileRegex, seek>>
    BY DEF crossSearch
  <2> HIDE DEF tool, begin, seek
  <2>4. /\ crossSearch(mode) \in Seq(StepsOf(tool)) /\ Len(crossSearch(mode)) = 3
        /\ \A k \in 1..3 : Opening(tool, crossSearch(mode)[k])
    BY <2>1, <2>2, <2>3 DEF Opening
  <2>5. Sound(tool, crossSearch(mode))
    BY <2>4 DEF Sound, Rooted, Ordered, Paired, Opening
  <2> QED BY <2>5 DEF tool
<1> QED BY <1>1, <1>2

LEMMA NotesSound ==
    /\ \A note \in BOOLEAN : Sound("set_analysis_note", setAnalysisNote(note))
    /\ Sound("get_analysis_context", getAnalysisContext)
    /\ Sound("prune_context", pruneContext)
<1>1. ASSUME NEW tool, tool # "cross_search", tool \notin Promoters
      PROVE  /\ Opening(tool, Resolve("session")) /\ FindsSession(Resolve("session"))
             /\ Opening(tool, Check("address"))
             /\ Working(tool, Step("cache")) /\ Working(tool, Step("clear"))
  BY <1>1, CheckStep, ResolveStep, ServerStep DEF Args
<1>2. ASSUME NEW note \in BOOLEAN
      PROVE  Sound("set_analysis_note", setAnalysisNote(note))
  <2> DEFINE tool == "set_analysis_note"
             st == [op |-> "note", note |-> note]
  <2>1. Working(tool, st)
    BY DEF Working, StepsOf, StepSpace, Fits, NeedsSession, CanRefuse
  <2>2. /\ Opening(tool, Resolve("session")) /\ FindsSession(Resolve("session"))
        /\ Opening(tool, Check("address")) /\ Working(tool, Step("cache"))
    BY <1>1 DEF Promoters
  <2>3. setAnalysisNote(note) = <<Resolve("session"), Check("address"), Step("cache"), st>>
    BY DEF setAnalysisNote
  <2> HIDE DEF tool, st
  <2>4. Sound(tool, setAnalysisNote(note))
    BY <2>1, <2>2, <2>3 DEF Sound, Rooted, Ordered, Paired, Opening, Working
  <2> QED BY <2>4 DEF tool
<1>3. ASSUME NEW tool, tool # "cross_search", tool \notin Promoters
      PROVE  Sound(tool, getAnalysisContext) /\ Sound(tool, pruneContext)
  <2>1. /\ Opening(tool, Resolve("session")) /\ FindsSession(Resolve("session"))
        /\ Working(tool, Step("cache")) /\ Working(tool, Step("clear"))
    BY <1>1, <1>3
  <2> QED BY <2>1 DEF getAnalysisContext, pruneContext, Sound, Rooted, Ordered, Paired, Opening, Working
<1> QED BY <1>2, <1>3 DEF Promoters

LEMMA SessionsSound ==
    /\ Sound("open_binary", openBinary) /\ Sound("close_binary", closeBinary)
    /\ Sound("run_auto_analysis", runAutoAnalysis) /\ Sound("save_database", saveDatabase)
    /\ Sound("get_session_progress", getSessionProgress)
    /\ Sound("list_sessions", listSessions)
<1>1. Sound("open_binary", openBinary)
  <2> DEFINE tool == "open_binary"
  <2>1. /\ Opening(tool, Step("create")) /\ FindsSession(Step("create"))
        /\ Working(tool, Step("start")) /\ Working(tool, Step("promote1"))
    BY DEF Opening, Working, Step, StepsOf, StepSpace, Fits, NeedsSession, FindsSession,
           Touches, CanRefuse
  <2>2. Opening(tool, Check("path"))
    BY CheckStep DEF Args
  <2>3. Working(tool, enrichSessionResult)
    BY SilentStep DEF enrichSessionResult, BestEffort, RpcNames
  <2> HIDE DEF tool
  <2>4. Sound(tool, openBinary)
    BY <2>1, <2>2, <2>3 DEF openBinary, Sound, Rooted, Ordered, Paired, Opening, Working
  <2> QED BY <2>4 DEF tool
<1>2. Sound("close_binary", closeBinary)
  <2> DEFINE tool == "close_binary"
  <2>1. /\ Working(tool, Step("stop")) /\ Working(tool, Step("delete"))
        /\ Working(tool, Step("uncache")) /\ Working(tool, Step("list"))
        /\ Working(tool, Step("demote"))
    BY DEF Working, Step, StepsOf, StepSpace, Fits, NeedsSession, CanRefuse
  <2>2. Opening(tool, Resolve("session")) /\ FindsSession(Resolve("session"))
    BY ResolveStep DEF Promoters
  <2> HIDE DEF tool
  <2>3. Sound(tool, closeBinary)
    BY <2>1, <2>2 DEF closeBinary, Sound, Rooted, Ordered, Paired, Opening, Working
  <2> QED BY <2>3 DEF tool
<1>3. Sound("run_auto_analysis", runAutoAnalysis)
  <2> DEFINE tool == "run_auto_analysis"
  <2>1. /\ Opening(tool, Resolve("load")) /\ FindsSession(Resolve("load"))
        /\ Working(tool, Step("analyze"))
    BY ResolveStep, ServerStep
  <2> HIDE DEF tool
  <2>2. Sound(tool, runAutoAnalysis)
    BY <2>1 DEF runAutoAnalysis, Sound, Rooted, Ordered, Paired, Opening, Working
  <2> QED BY <2>2 DEF tool
<1>4. Sound("save_database", saveDatabase)
  <2> DEFINE tool == "save_database"
  <2>1. /\ Opening(tool, Resolve("gate")) /\ FindsSession(Resolve("gate"))
        /\ Opening(tool, Must("SaveDatabase"))
    BY ResolveStep, MustStep DEF RpcNames
  <2> HIDE DEF tool
  <2>2. Sound(tool, saveDatabase)
    BY <2>1 DEF saveDatabase, Sound, Rooted, Ordered, Paired, Opening
  <2> QED BY <2>2 DEF tool
<1>5. Sound("get_session_progress", getSessionProgress)
  <2> DEFINE tool == "get_session_progress"
  <2>1. /\ Opening(tool, Resolve("session")) /\ FindsSession(Resolve("session"))
        /\ Opening(tool, Silent("GetSessionInfo"))
    BY ResolveStep, SilentStep DEF RpcNames, BestEffort, Promoters
  <2> HIDE DEF tool
  <2>2. Sound(tool, getSessionProgress)
    BY <2>1 DEF getSessionProgress, Sound, Rooted, Ordered, Paired, Opening
  <2> QED BY <2>2 DEF tool
<1>6. Sound("list_sessions", listSessions)
  BY DEF listSessions, Sound, Rooted, Ordered, Paired
<1> QED BY <1>1, <1>2, <1>3, <1>4, <1>5, <1>6

LEMMA ReferencesSound ==
    ASSUME NEW mode \in Choices("get_references"), NEW direction \in Options("get_references")
    PROVE  Sound("get_references", getReferences(mode, direction))
<1> DEFINE tool == "get_references"
           p == <<Check("address")>>
           q == CASE mode \in {"", "code"} -> IF direction \in {"", "to", "from", "both"}
                                              THEN getXRefs(direction) ELSE <<Invalid>>
                  [] mode = "data"   -> IF direction = "" THEN getDataRefs
                                                          ELSE <<Step("refuse")>>
                  [] mode = "string" -> IF direction = "" THEN getStringXRefs
                                                          ELSE <<Step("refuse")>>
                  [] OTHER           -> <<Invalid>>
<1>1. tool # "cross_search"
  OBVIOUS
<1>2. Opening(tool, Check("address")) /\ Opening(tool, Step("refuse"))
  BY <1>1, CheckStep, ServerStep DEF Args
<1> HIDE DEF tool
<1>3. Sound(tool, p) /\ Len(p) = 1 /\ ~Touches(p[1])
  BY <1>2 DEF Sound, Rooted, Ordered, Paired, Opening
<1>4. Sound(tool, getXRefs(direction))
  BY <1>1, XRefsSound
<1>5. Sound(tool, getDataRefs) /\ Sound(tool, getStringXRefs)
  <2>1. "GetDataRefs" \in RpcNames /\ "GetStringXRefs" \in RpcNames
    BY DEF RpcNames
  <2> QED BY <1>1, <2>1, ReadsSound DEF getDataRefs, getStringXRefs
<1>6. Sound(tool, <<Step("refuse")>>)
  BY <1>2 DEF Sound, Rooted, Ordered, Paired, Opening
<1>7. Sound(tool, q)
  <2>1. CASE mode \in {"", "code"}
    BY <1>4, <2>1, OtherChoices
  <2>2. CASE mode = "data"
    BY <1>5, <1>6, <2>2
  <2>3. CASE mode = "string"
    BY <1>5, <1>6, <2>3
  <2> QED BY <2>1, <2>2, <2>3, OtherChoices
<1>8. getReferences(mode, direction) = p \o q
  BY DEF getReferences
<1> HIDE DEF p
<1>9. \A k \in 1..Len(p) : ~Touches(p[k])
  BY <1>3
<1> HIDE DEF q
<1>10. Sound(tool, p \o q)
  BY <1>3, <1>7, <1>9, SoundConcat DEF Sound
<1> QED BY <1>8, <1>10 DEF tool

(* Checks before a sound script.                                            *)
LEMMA ChecksFirst ==
    ASSUME NEW tool, NEW s, Sound(tool, s), NEW a \in Args
    PROVE  /\ Sound(tool, <<Check(a)>> \o s)
           /\ \A b \in Args : Sound(tool, <<Check(a), Check(b)>> \o s)
           /\ \A b, c \in Args : Sound(tool, <<Check(a), Check(b), Check(c)>> \o s)
<1>1. \A arg \in Args : Opening(tool, Check(arg))
  BY CheckStep
<1>2. ASSUME NEW p, Sound(tool, p), \A k \in 1..Len(p) : ~Touches(p[k])
      PROVE  Sound(tool, p \o s)
  BY <1>2, SoundConcat DEF Sound
<1>3. Sound(tool, <<Check(a)>>) /\ \A k \in 1..Len(<<Check(a)>>) : ~Touches(<<Check(a)>>[k])
  BY <1>1 DEF Sound, Rooted, Ordered, Paired, Opening
<1>4. ASSUME NEW b \in Args
      PROVE  /\ Sound(tool, <<Check(a), Check(b)>>)
             /\ \A k \in 1..Len(<<Check(a), Check(b)>>) : ~Touches(<<Check(a), Check(b)>>[k])
  BY <1>1 DEF Sound, Rooted, Ordered, Paired, Opening
<1>5. ASSUME NEW b \in Args, NEW c \in Args
      PROVE  Sound(tool, <<Check(a), Check(b), Check(c)>> \o s)
  <2> DEFINE p == <<Check(a), Check(b), Check(c)>>
  <2>1. Sound(tool, p) /\ \A k \in 1..Len(p) : ~Touches(p[k])
    BY <1>1 DEF Sound, Rooted, Ordered, Paired, Opening
  <2> HIDE DEF p
  <2>2. Sound(tool, p \o s)
    BY <1>2, <2>1
  <2> QED BY <2>2 DEF p
<1> QED BY <1>2, <1>3, <1>4, <1>5

LEMMA DispatchSound ==
    /\ \A mode \in {"text", "binary"} : Sound("search", search(mode))
    /\ \A action \in {"set_name", "delete_name", "set_comment"} : \A scope :
           Sound("set_metadata", setMetadata(action, scope))
    /\ \A target \in {"function", "global", "lvar"} : Sound("set_type", setType(target))
    /\ \A format \in {"il2cpp", "flutter"} : Sound("import_metadata", importMetadata(format))
    /\ \A format \in {"", "bytes", "dword", "qword", "byte", "string"} :
           Sound("read_memory", readMemory(format))
<1>1. ASSUME NEW mode \in {"text", "binary"} PROVE Sound("search", search(mode))
  <2> DEFINE tool == "search"
  <2>1. /\ Opening(tool, Check("pattern")) /\ Opening(tool, Check("needle"))
        /\ Opening(tool, Resolve("wait")) /\ FindsSession(Resolve("wait"))
        /\ Opening(tool, Must("FindBinary")) /\ Opening(tool, Must("FindText"))
    BY CheckStep, ResolveStep, MustStep DEF Args, RpcNames
  <2> HIDE DEF tool
  <2>2. Sound(tool, findText) /\ Sound(tool, findBinary)
    BY <2>1 DEF findText, findBinary, Sound, Rooted, Ordered, Paired, Opening
  <2>3. "start" \in Args /\ "end" \in Args
    BY DEF Args
  <2>4. /\ Sound(tool, <<Check("start"), Check("end")>> \o findText)
        /\ Sound(tool, <<Check("start"), Check("end")>> \o findBinary)
    BY <2>2, <2>3, ChecksFirst
  <2> QED BY <2>4 DEF search, tool
<1>2. ASSUME NEW action \in {"set_name", "delete_name", "set_comment"}, NEW scope
      PROVE  Sound("set_metadata", setMetadata(action, scope))
  <2>1. "name" \in Args /\ "function_address" \in Args /\ "address" \in Args
    BY DEF Args
  <2>2. /\ Sound("set_metadata", <<Check("name")>> \o setName)
        /\ Sound("set_metadata", <<Check("function_address")>> \o setComment(scope))
    BY <2>1, NamesSound, CommentsSound, ChecksFirst
  <2>3. /\ Sound("set_metadata", <<Check("address")>> \o (<<Check("name")>> \o setName))
        /\ Sound("set_metadata",
                 <<Check("address")>> \o (<<Check("function_address")>> \o setComment(scope)))
        /\ Sound("set_metadata", <<Check("address")>> \o deleteName)
    BY <2>1, <2>2, NamesSound, ChecksFirst
  <2> QED BY <2>3 DEF setMetadata
<1>3. ASSUME NEW target \in {"function", "global", "lvar"}
      PROVE  Sound("set_type", setType(target))
  <2>1. /\ "address" \in Args /\ "prototype" \in Args /\ "type" \in Args
        /\ "function_address" \in Args /\ "lvar_name" \in Args
    BY DEF Args
  <2>2. /\ Sound("set_type", <<Check("address"), Check("prototype")>> \o setFunctionType)
        /\ Sound("set_type", <<Check("address"), Check("type")>> \o setGlobalType)
        /\ Sound("set_type", <<Check("function_address"), Check("lvar_name"), Check("type")>>
                                 \o setLvarType)
    BY <2>1, TypesSound, ChecksFirst
  <2> QED BY <2>2 DEF setType
<1>4. ASSUME NEW format \in {"il2cpp", "flutter"}
      PROVE  Sound("import_metadata", importMetadata(format))
  BY WritesSound DEF importMetadata
<1>5. ASSUME NEW format \in {"", "bytes", "dword", "qword", "byte", "string"}
      PROVE  Sound("read_memory", readMemory(format))
  <2> DEFINE tool == "read_memory"
             ask == CASE format \in {"", "bytes"} -> Must("GetBytes")
                      [] format = "dword"         -> Must("GetDwordAt")
                      [] format = "qword"         -> Must("GetQwordAt")
                      [] format = "byte"          -> Must("DataReadByte")
                      [] format = "string"        -> Must("DataReadString")
                      [] OTHER                    -> Invalid
  <2>1. \E rpc \in RpcNames : ask = Must(rpc)
    <3>1. /\ "GetBytes" \in RpcNames /\ "GetDwordAt" \in RpcNames /\ "GetQwordAt" \in RpcNames
          /\ "DataReadByte" \in RpcNames /\ "DataReadString" \in RpcNames
      BY DEF RpcNames
    <3> QED BY <3>1
  <2>2. readMemory(format) = <<Resolve("wait"), Check("address"), ask>>
    BY DEF readMemory
  <2> HIDE DEF ask
  <2>3. PICK rpc \in RpcNames : ask = Must(rpc)
    BY <2>1
  <2> QED BY <2>2, <2>3, ReadsSound
<1> QED BY <1>1, <1>2, <1>3, <1>4, <1>5

LEMMA QuerySound ==
    ASSUME NEW category \in Choices("query")
    PROVE  Sound("query", query(category))
<1>1. /\ "GetFunctions" \in RpcNames /\ "GetImports" \in RpcNames /\ "GetExports" \in RpcNames
      /\ "GetStrings" \in RpcNames /\ "GetGlobals" \in RpcNames /\ "GetStructs" \in RpcNames
      /\ "GetEnums" \in RpcNames /\ "GetEntryPoint" \in RpcNames
  BY DEF RpcNames
<1>2. /\ Sound("query", getFunctions) /\ Sound("query", getImports)
      /\ Sound("query", getExports) /\ Sound("query", getStrings)
  BY <1>1, ReadsSound DEF getFunctions, getImports, getExports, getStrings
<1>3. /\ Sound("query", getGlobals) /\ Sound("query", getStructs)
      /\ Sound("query", getEnums) /\ Sound("query", getEntryPoint)
      /\ Sound("query", getSegments)
  BY <1>1, ReadsSound DEF getGlobals, getStructs, getEnums, getEntryPoint
<1> QED BY <1>2, <1>3, QueryChoices DEF query

(* The steps a handler adds to its script on the way.                       *)
LEMMA AddedSound ==
    /\ Sound("open_binary", reuseSession)
    /\ Opening("cross_reference", Silent("GetFunctionName"))
    /\ Opening("cross_reference", Step("function"))
    /\ \A i \in {1, 2}, mode \in SearchModes :
           /\ Sound("cross_search", crossSearchOne(i, mode))
           /\ \A k \in 1..Len(crossSearchOne(i, mode)) : ~Touches(crossSearchOne(i, mode)[k])
<1>1. Sound("open_binary", reuseSession)
  <2> DEFINE tool == "open_binary"
  <2>1. Working(tool, Step("promote1")) /\ ~NeedsSession(Step("promote1"))
    BY DEF Working, Step, StepsOf, StepSpace, Fits, NeedsSession, CanRefuse
  <2>2. Opening(tool, enrichSessionResult)
    BY SilentStep DEF enrichSessionResult, BestEffort, RpcNames
  <2> HIDE DEF tool
  <2>3. Sound(tool, reuseSession)
    BY <2>1, <2>2 DEF reuseSession, Sound, Rooted, Ordered, Paired, Opening, Working
  <2> QED BY <2>3 DEF tool
<1>2. Opening("cross_reference", Silent("GetFunctionName"))
  BY SilentStep DEF BestEffort, RpcNames
<1>3. Opening("cross_reference", Step("function"))
  BY DEF Opening, Step, StepsOf, StepSpace, Fits, NeedsSession, Touches
<1>4. ASSUME NEW i \in {1, 2}, NEW mode \in SearchModes
      PROVE  /\ Sound("cross_search", crossSearchOne(i, mode))
             /\ \A k \in 1..Len(crossSearchOne(i, mode)) : ~Touches(crossSearchOne(i, mode)[k])
  <2> DEFINE tool == "cross_search"
             look == IF mode \in CrossModes THEN AskAt(i, {Part(mode, "silent")}) ELSE Invalid
  <2>1. Opening(tool, look)
    <3>1. Opening(tool, Invalid)
      BY DEF Opening, Invalid, StepsOf, StepSpace, Fits, NeedsSession, Touches
    <3>2. BestEffort(tool) = CrossModes
      BY DEF BestEffort
    <3>3. CrossModes \subseteq RpcNames
      BY DEF CrossModes, RpcNames
    <3>4. CASE mode \in CrossModes
      BY <3>2, <3>3, <3>4, SilentAt
    <3> QED BY <3>1, <3>4
  <2>2. /\ AttemptAt(i) \in StepsOf(tool) /\ ~NeedsSession(AttemptAt(i))
        /\ ~Touches(AttemptAt(i))
    BY DEF AttemptAt, StepsOf, StepSpace, Fits, NeedsSession, Touches
  <2>3. crossSearchOne(i, mode) = <<AttemptAt(i), look>>
    BY DEF crossSearchOne
  <2> HIDE DEF tool, look
  <2>4. Sound(tool, crossSearchOne(i, mode))
    BY <2>1, <2>2, <2>3 DEF Sound, Rooted, Ordered, Paired, Opening
  <2>5. \A k \in 1..Len(crossSearchOne(i, mode)) : ~Touches(crossSearchOne(i, mode)[k])
    BY <2>1, <2>2, <2>3 DEF Opening
  <2> QED BY <2>4, <2>5 DEF tool
<1> QED BY <1>1, <1>2, <1>3, <1>4

(* What the schemas let through starts a sound script.                      *)
LEMMA ScriptsSound ==
    ASSUME NEW tool \in Tools, NEW script \in ScriptsOf[tool]
    PROVE  /\ Sound(tool, script)
           /\ tool = "inspect" => script # <<>> /\ script[Len(script)].op = "some"
           /\ tool = "open_binary" => script = openBinary
           /\ tool = "close_binary" => script = closeBinary
<1>1. PICK choice \in Choices(tool), option \in Options(tool) :
          script = Script(tool, choice, option)
  BY DEF ScriptsOf
<1>2. CASE tool \in {"open_binary", "close_binary", "list_sessions", "save_database",
                     "get_session_progress", "run_auto_analysis"}
  BY <1>1, <1>2, SessionsSound DEF Script
<1>3. CASE tool \in {"survey_binary", "analyze_function", "analyze_functions", "inspect",
                     "cross_reference", "get_analysis_context", "prune_context"}
  BY <1>1, <1>3, AnalysesSound, InspectSound, CrossSound, NotesSound DEF Script
<1>4. CASE tool \in {"annotate_function", "make_function", "set_analysis_note", "py_eval"}
  <2>1. (choice # "") \in BOOLEAN /\ tool # "cross_search"
    BY <1>4
  <2> QED BY <1>1, <1>4, <2>1, WritesSound, NotesSound DEF Script
<1>5. CASE tool = "get_disasm"
  BY <1>1, <1>5, ReadsSound DEF Script, getDisasm, RpcNames
<1>6. CASE tool = "query"
  BY <1>1, <1>6, QuerySound DEF Script
<1>7. CASE tool = "get_references"
  BY <1>1, <1>7, ReferencesSound, OtherChoices DEF Script
<1>8. CASE tool \in {"search", "set_metadata"}
  <2>1. CASE tool = "search"
    BY <1>1, <2>1, DispatchSound, OtherChoices DEF Script
  <2>2. CASE tool = "set_metadata"
    <3>1. choice \in {"set_name", "delete_name", "set_comment"}
      BY <2>2, OtherChoices
    <3>2. Sound("set_metadata", setMetadata(choice, option))
      BY <3>1, DispatchSound
    <3> QED BY <1>1, <2>2, <3>2 DEF Script
  <2> QED BY <1>8, <2>1, <2>2
<1>9. CASE tool \in {"set_type", "import_metadata"}
  BY <1>1, <1>9, DispatchSound, OtherChoices DEF Script
<1>10. CASE tool = "read_memory"
  BY <1>1, <1>10, DispatchSound, OtherChoices DEF Script
<1>11. CASE tool = "cross_search"
  <2>1. Choices("cross_search") \subseteq SearchModes
    BY DEF Choices, Chooser, applyEnumConstraints, toolEnums, Required, SessionRequests,
           CompositeRequests, DispatchRequests, SearchModes
  <2> QED BY <1>1, <1>11, <2>1, CrossSound DEF Script
<1> QED BY <1>2, <1>3, <1>4, <1>5, <1>6, <1>7, <1>8, <1>9,
           <1>10, <1>11, ToolNames

-----------------------------------------------------------------------------

(* A call that is running, and what a step may do to it.                    *)
IsCall(r) ==
    /\ DOMAIN r = {"state", "tool", "todo", "ids", "passed", "token", "found", "awaits",
                   "cache", "asked", "failed", "told", "touched"}
    /\ DOMAIN r.found = {1, 2}

Typed(r) ==
    /\ IsCall(r) /\ r.state \in {"running", "waiting", "asking"} /\ r.tool \in Tools
    /\ r.todo \in Seq(StepsOf(r.tool)) /\ Paired(r.todo)
    /\ r.state = "asking" => /\ r.todo # <<>> /\ Head(r.todo).op \in {"ask", "race"}
                             /\ r.asked \subseteq Head(r.todo).parts

Heads(r, ops) == r.state = "running" /\ r.todo # <<>> /\ Head(r.todo).op \in ops

Begins(r, q) ==
    /\ r = Idle
    /\ IsCall(q) /\ q.state = "running" /\ q.tool \in Tools /\ q.todo \in ScriptsOf[q.tool]
    /\ q.cache = "none" /\ q.failed = {} /\ q.told = {} /\ q.touched = FALSE
    /\ q.found = <<None, None>>

Ends(r, q) ==
    \E why : /\ q = Returned(r.tool, why, r.failed, r.told, r.touched)
             /\ \/ why \notin Refusals \cup {"ok"}
                \/ Heads(r, {"check", "refuse"}) /\ why = "refused"
                \/ Heads(r, {"invalid"}) /\ why = "invalid"
                \/ r.state = "running" /\ r.todo = <<>> /\ why = "ok"

(* The sessions a call can find: a registered one, with a worker if it is   *)
(* going to promote the tier, or one that it creates.                       *)
Finds(tool, s) ==
    \/ s \in registry /\ (s \in workers \/ tool \notin Promoters)
    \/ s \in opened' \ opened /\ tool = "open_binary"

(* What the moves of a running call have in common.                         *)
Stays(r, q) ==
    /\ IsCall(q) /\ q.tool = r.tool
    /\ \A i \in {1, 2} : q.found[i] = r.found[i] \/ Finds(r.tool, q.found[i])

Passes(r, q) ==
    /\ Stays(r, q) /\ r.state = "running" /\ r.todo # <<>> /\ q.todo = Tail(r.todo)
    /\ q.state \in {"running", "waiting"}
    /\ q.state = "waiting" => Head(r.todo).op \in {"resolve", "attempt"} /\ Head(r.todo).how = "wait"
    /\ q.failed = r.failed /\ q.told = r.told
    /\ Head(r.todo).op = "some" => ~(Inspected \subseteq r.failed)
    /\ q.touched => r.touched \/ Touches(Head(r.todo))
    /\ q.found[1] \in SessionSet \/ (q.found[1] = r.found[1] /\ ~FindsSession(Head(r.todo)))
    /\ q.cache # "none" => r.cache # "none" \/ NeedsSession(Head(r.todo))

Skips(r, q) ==
    /\ Stays(r, q) /\ Heads(r, {"attempt"}) /\ q.todo = Tail(Tail(r.todo))
    /\ q.state = "running" /\ q.found[1] = r.found[1] /\ q.cache = r.cache
    /\ q.touched = r.touched
    /\ \E l \in {Label[1], Label[2]} : q.failed = r.failed \cup {l} /\ q.told = r.told \cup {l}

Rewrites(r, q) ==
    /\ Stays(r, q) /\ q.state = "running"
    /\ q.failed = r.failed /\ q.told = r.told /\ q.touched = r.touched /\ q.cache = r.cache
    /\ \/ /\ Heads(r, {"named"}) /\ q.found[1] = r.found[1]
          /\ q.todo = <<Silent("GetFunctionName"), Step("function")>> \o Tail(r.todo)
       \/ Heads(r, {"function", "list"}) /\ q.todo = <<>> /\ q.found[1] = r.found[1]
       \/ /\ Heads(r, {"search"}) /\ q.found[1] = r.found[1]
          /\ q.todo = crossSearchOne(1, Head(r.todo).mode)
                          \o (IF Len(r.ids) > 1 THEN crossSearchOne(2, Head(r.todo).mode)
                                                ELSE <<>>)
       \/ Heads(r, {"create"}) /\ q.todo = reuseSession /\ q.found[1] \in SessionSet

(* The moves of a call that change neither its script nor what it has done. *)
Waits(r, q) ==
    /\ Stays(r, q) /\ r.state # "asking" /\ q.state \in {r.state, "running"}
    /\ q.todo = r.todo /\ q.failed = r.failed /\ q.told = r.told /\ q.touched = r.touched
    /\ q.found[1] = r.found[1] /\ (q.cache = r.cache \/ (q.cache = "stale" /\ r.cache = "held"))

AsksOut(r, q) ==
    /\ Stays(r, q) /\ Heads(r, {"ask", "race"}) /\ q.todo = r.todo /\ q.state = "asking"
    /\ q.asked = Head(r.todo).parts /\ q.failed = r.failed /\ q.told = r.told
    /\ q.touched => r.touched \/ Touches(Head(r.todo))
    /\ q.found[1] = r.found[1] /\ q.cache = r.cache

Hears(r, q) ==
    /\ Stays(r, q) /\ r.state = "asking" /\ q.touched = r.touched
    /\ q.found[1] = r.found[1] /\ (q.cache = r.cache \/ (q.cache = "stale" /\ r.cache = "held"))
    /\ r.failed \subseteq q.failed /\ q.failed \subseteq r.failed \cup Rpcs(Head(r.todo).parts)
    /\ \/ /\ q.state = "asking" /\ q.todo = r.todo /\ q.asked \subseteq r.asked
          /\ q.told = r.told
       \/ LET among(on) == Rpcs({p \in Head(r.todo).parts : p.on = on}) \cap q.failed
          IN  /\ q.state = "running" /\ q.todo = Tail(r.todo)
              /\ among("must") = {} /\ q.told = r.told \cup among("told")

(* Whatever a step does to a call.                                          *)
Moves(r, q) ==
    \/ q = r \/ Begins(r, q) \/ (q = Idle /\ r.state = "returned")
    \/ /\ r.state \in {"running", "waiting", "asking"}
       /\ \/ Ends(r, q) \/ Passes(r, q) \/ Skips(r, q) \/ Rewrites(r, q) \/ Waits(r, q)
          \/ AsksOut(r, q) \/ Hears(r, q)

(* What a step of another does to a call: it may drop the cache it holds.   *)
Steady(r, q) ==
    q = r \/ (Typed(r) /\ r.cache = "held" /\ q = [r EXCEPT !.cache = "stale"])

(* The calls of the callers are calls of the tools.                         *)
CallsInv ==
    /\ DOMAIN call = Callers /\ registry \subseteq SessionSet
    /\ \A c \in Callers :
          /\ call[c].state \in {"idle", "running", "waiting", "asking", "returned"}
          /\ Busy(c) => Typed(call[c])

MoveOf(c) ==
    /\ DOMAIN call' = Callers /\ Moves(call[c], call'[c])
    /\ \A d \in Callers \ {c} : Steady(call[d], call'[d])

Only(c) == DOMAIN call' = Callers /\ \A d \in Callers \ {c} : call'[d] = call[d]

LEMMA OneMoves ==
    ASSUME CallsInv, NEW c \in Callers, Only(c), Moves(call[c], call'[c])
    PROVE  MoveOf(c)
  BY DEF MoveOf, Only, Steady

LEMMA RunsTyped ==
    ASSUME CallsInv, NEW c \in Callers, NEW op, Runs(c, op)
    PROVE  /\ Typed(call[c]) /\ Heads(call[c], {op}) /\ Now(c) = Head(call[c].todo)
           /\ Now(c) \in StepsOf(call[c].tool) /\ Now(c).op = op
           /\ call[c].state = "running"
  BY DEF CallsInv, Runs, Busy, Heads, Now, Typed

LEMMA BeginMoves ==
    ASSUME CallsInv, NEW c \in Callers, Begin(c)
    PROVE  MoveOf(c)
<1>0. PICK tool \in ToolsOf[c] \cap registered :
          \E script \in ScriptsOf[tool], ids \in Targets(tool) :
          call' = [call EXCEPT ![c] =
              [state |-> "running", tool |-> tool, todo |-> script, ids |-> ids,
               passed |-> {}, token |-> BOOLEAN, found |-> <<None, None>>,
               awaits |-> None, cache |-> "none", asked |-> {}, failed |-> {},
               told |-> {}, touched |-> FALSE]]
  BY DEF Begin
<1>1. PICK script \in ScriptsOf[tool], ids \in Targets(tool) :
          call' = [call EXCEPT ![c] =
              [state |-> "running", tool |-> tool, todo |-> script, ids |-> ids,
               passed |-> {}, token |-> BOOLEAN, found |-> <<None, None>>,
               awaits |-> None, cache |-> "none", asked |-> {}, failed |-> {},
               told |-> {}, touched |-> FALSE]]
  BY <1>0
<1>2. tool \in Tools
  BY CallsAssumption
<1>3. Only(c)
  BY <1>1 DEF Only, CallsInv
<1>4. Begins(call[c], call'[c])
  BY <1>1, <1>2 DEF Begins, Begin, IsCall, CallsInv
<1> QED BY <1>3, <1>4, OneMoves DEF Moves

LEMMA ReturnMoves ==
    ASSUME CallsInv, NEW c \in Callers, Busy(c), NEW why, Return(c, why),
           \/ why \notin Refusals \cup {"ok"}
           \/ Heads(call[c], {"check", "refuse"}) /\ why = "refused"
           \/ Heads(call[c], {"invalid"}) /\ why = "invalid"
           \/ call[c].state = "running" /\ call[c].todo = <<>> /\ why = "ok"
    PROVE  MoveOf(c)
<1> DEFINE q == Returned(call[c].tool, why, call[c].failed, call[c].told, call[c].touched)
<1>1. Only(c) /\ call'[c] = q
  BY DEF Return, Only, CallsInv
<1>2. Ends(call[c], q)
  BY DEF Ends
<1>3. call[c].state \in {"running", "waiting", "asking"}
  BY DEF CallsInv, Busy
<1> HIDE DEF q
<1> QED BY <1>1, <1>2, <1>3, OneMoves DEF Moves

(* A step that is done with, which may have changed some of the call.       *)
LEMMA PassMoves ==
    ASSUME CallsInv, NEW c \in Callers, Only(c), Passes(call[c], call'[c])
    PROVE  MoveOf(c)
  BY OneMoves DEF Moves, Passes

(* What a step does to a call, in full.                                     *)
LEMMA AdvanceMoves ==
    ASSUME CallsInv, NEW c \in Callers, NEW op, Runs(c, op), Advance(c),
           ~FindsSession(Now(c)), op = "some" => ~(Inspected \subseteq call[c].failed)
    PROVE  MoveOf(c)
<1> DEFINE r == call[c]
<1>1. IsCall(r) /\ r.state = "running" /\ r.todo # <<>> /\ Now(c) = Head(r.todo) /\ Now(c).op = op
  BY RunsTyped DEF Typed, Heads
<1>2. Only(c) /\ call'[c] = [r EXCEPT !.todo = Tail(@)]
  BY DEF Advance, Only, CallsInv
<1>3. Passes(r, call'[c])
  BY <1>1, <1>2 DEF Passes, Stays, IsCall
<1> QED BY <1>2, <1>3, PassMoves

LEMMA ChecksMoves ==
    ASSUME CallsInv, NEW c \in Callers, Checks(c)
    PROVE  MoveOf(c)
<1> DEFINE r == call[c]
<1>0. Runs(c, "check")
  BY DEF Checks
<1>1. /\ IsCall(r) /\ r.state = "running" /\ Busy(c) /\ Heads(r, {"check"})
      /\ Now(c).op = "check" /\ Now(c) = Head(r.todo) /\ r.todo # <<>>
  BY <1>0, RunsTyped DEF Typed, Busy, Heads
<1>2. CASE Return(c, "refused")
  <2>1. Heads(call[c], {"check", "refuse"})
    BY <1>1 DEF Heads
  <2> QED BY <1>1, <1>2, <2>1, ReturnMoves
<1>3. CASE call' = [call EXCEPT ![c].passed = @ \cup {Now(c).arg}, ![c].todo = Tail(@)]
  <2>1. Only(c) /\ call'[c] = [r EXCEPT !.passed = @ \cup {Now(c).arg}, !.todo = Tail(@)]
    BY <1>3 DEF Only, CallsInv
  <2>2. Passes(r, call'[c])
    BY <1>1, <2>1 DEF Passes, Stays, IsCall, FindsSession
  <2> QED BY <2>1, <2>2, PassMoves
<1> QED BY <1>2, <1>3 DEF Checks

LEMMA ResolvesMoves ==
    ASSUME CallsInv, NEW c \in Callers, Resolves(c)
    PROVE  MoveOf(c)
<1> DEFINE r == call[c]
           step == Now(c)
           hits == resolveSession(r.ids[step.at])
<1>0. Runs(c, "resolve") \/ Runs(c, "attempt")
  BY DEF Resolves
<1>1. /\ IsCall(r) /\ r.state = "running" /\ Busy(c) /\ Typed(r)
      /\ step \in StepsOf(r.tool) /\ step.op \in {"resolve", "attempt"} /\ step = Head(r.todo)
      /\ r.todo # <<>>
  BY <1>0, RunsTyped DEF Typed, Busy, Heads
<1>2. step.at \in {1, 2}
  BY <1>1 DEF StepsOf, StepSpace
<1>3. PICK s \in IF hits = {} THEN {None} ELSE hits, token \in r.token :
          LET how == Resolution(s, step.how, token)
              left == IF how \in {"wait", "not ready"} THEN {token} ELSE r.token
          IN  IF how \in {"found", "wait"}
              THEN call' = [call EXCEPT
                     ![c].found[step.at] = s, ![c].todo = Tail(@), ![c].token = left,
                     ![c].state = IF how = "wait" THEN "waiting" ELSE @,
                     ![c].awaits = IF how = "wait" THEN s ELSE @]
              ELSE IF step.op = "resolve" THEN Return(c, how)
              ELSE call' = [call EXCEPT
                     ![c].todo = Tail(Tail(@)), ![c].token = left,
                     ![c].failed = @ \cup {Label[step.at]},
                     ![c].told = @ \cup {Label[step.at]}]
  BY DEF Resolves
<1> DEFINE how == Resolution(s, step.how, token)
           left == IF how \in {"wait", "not ready"} THEN {token} ELSE r.token
<1>4. how \in {"no session", "no worker", "found", "wait", "not ready"}
      /\ (how \in {"found", "wait"} => s # None)
  BY DEF Resolution
<1>5. CASE how \in {"found", "wait"}
  <2>1. s \in SessionSet /\ s \in registry
    BY <1>4, <1>5 DEF resolveSession, CallsInv
  <2>0. Finds(r.tool, s)
    <3>1. step.how = "session" => r.tool \notin Promoters
      <4>1. r.tool = "cross_search" => r.tool \notin Promoters
        BY DEF Promoters
      <4> QED BY <1>1, <4>1 DEF StepsOf, Fits
    <3>2. step.how # "session" => s \in workers
      BY <1>4, <1>5 DEF Resolution
    <3> QED BY <2>1, <3>1, <3>2 DEF Finds
  <2>2. call' = [call EXCEPT
                     ![c].found[step.at] = s, ![c].todo = Tail(@), ![c].token = left,
                     ![c].state = IF how = "wait" THEN "waiting" ELSE @,
                     ![c].awaits = IF how = "wait" THEN s ELSE @]
    BY <1>3, <1>5
  <2> HIDE DEF how, left, step
  <2>3. /\ Only(c)
        /\ call'[c] = [r EXCEPT !.found[step.at] = s, !.todo = Tail(@), !.token = left,
                               !.state = IF how = "wait" THEN "waiting" ELSE @,
                               !.awaits = IF how = "wait" THEN s ELSE @]
    BY <2>2 DEF Only, CallsInv
  <2>4. /\ Stays(r, call'[c]) /\ call'[c].todo = Tail(r.todo)
        /\ call'[c].state = (IF how = "wait" THEN "waiting" ELSE "running")
        /\ call'[c].failed = r.failed /\ call'[c].told = r.told
        /\ call'[c].touched = r.touched /\ call'[c].cache = r.cache
        /\ call'[c].found[1] = IF step.at = 1 THEN s ELSE r.found[1]
    <3>1. /\ IsCall(call'[c]) /\ call'[c].tool = r.tool /\ call'[c].todo = Tail(r.todo)
          /\ call'[c].state = (IF how = "wait" THEN "waiting" ELSE "running")
          /\ call'[c].failed = r.failed /\ call'[c].told = r.told
          /\ call'[c].touched = r.touched /\ call'[c].cache = r.cache
          /\ \A i \in {1, 2} : call'[c].found[i] = IF step.at = i THEN s ELSE r.found[i]
      BY <1>1, <1>2, <2>3 DEF IsCall
    <3> QED BY <2>0, <3>1 DEF Stays
  <2>5. how = "wait" => step.how = "wait"
    BY DEF how, Resolution
  <2>6. Passes(r, call'[c])
    BY <1>1, <1>2, <2>1, <2>4, <2>5 DEF Passes, FindsSession
  <2> QED BY <2>3, <2>6, PassMoves
<1>6. CASE how \notin {"found", "wait"} /\ step.op = "resolve"
  <2>1. Return(c, how) /\ how \notin Refusals \cup {"ok"}
    BY <1>3, <1>4, <1>6 DEF Refusals
  <2> QED BY <1>1, <2>1, ReturnMoves
<1>7. CASE how \notin {"found", "wait"} /\ step.op = "attempt"
  <2>1. call' = [call EXCEPT
                     ![c].todo = Tail(Tail(@)), ![c].token = left,
                     ![c].failed = @ \cup {Label[step.at]},
                     ![c].told = @ \cup {Label[step.at]}]
    BY <1>3, <1>7
  <2> DEFINE l == Label[step.at]
  <2>2. l \in {Label[1], Label[2]}
    BY <1>2
  <2> HIDE DEF how, left, step, l
  <2>3. /\ Only(c)
        /\ call'[c] = [r EXCEPT !.todo = Tail(Tail(@)), !.token = left,
                               !.failed = @ \cup {l}, !.told = @ \cup {l}]
    BY <2>1 DEF Only, CallsInv, l
  <2>4. Heads(r, {"attempt"})
    BY <1>0, <1>1, <1>7 DEF Heads, Runs
  <2>5. /\ Stays(r, call'[c]) /\ call'[c].todo = Tail(Tail(r.todo)) /\ call'[c].state = r.state
        /\ call'[c].found = r.found /\ call'[c].cache = r.cache /\ call'[c].touched = r.touched
        /\ call'[c].failed = r.failed \cup {l} /\ call'[c].told = r.told \cup {l}
    BY <1>1, <2>3 DEF Stays, IsCall
  <2>6. Skips(r, call'[c])
    BY <1>1, <2>2, <2>4, <2>5 DEF Skips
  <2> QED BY <1>1, <2>3, <2>6, OneMoves DEF Moves
<1> QED BY <1>1, <1>5, <1>6, <1>7

LEMMA WaitMoves ==
    ASSUME CallsInv, NEW c \in Callers, waitForReady(c) \/ GivesUp(c)
    PROVE  MoveOf(c)
<1> DEFINE r == call[c]
           q == [r EXCEPT !.state = "running", !.awaits = None]
<1>1. Typed(r) /\ IsCall(r) /\ r.state = "waiting" /\ Busy(c)
  BY DEF waitForReady, GivesUp, CallsInv, Busy, Typed
<1>2. CASE waitForReady(c)
  <2>1. Only(c) /\ call'[c] = q
    BY <1>2 DEF waitForReady, Only, CallsInv
  <2>2. Waits(r, q)
    BY <1>1 DEF Waits, Stays, IsCall
  <2> HIDE DEF q
  <2> QED BY <1>1, <2>1, <2>2, OneMoves DEF Moves
<1>3. CASE GivesUp(c)
  <2>1. Return(c, "gave up") /\ "gave up" \notin Refusals \cup {"ok"}
    BY <1>3 DEF GivesUp, Refusals
  <2> QED BY <1>1, <2>1, ReturnMoves
<1> QED BY <1>2, <1>3

LEMMA RefusesMoves ==
    ASSUME CallsInv, NEW c \in Callers, Refuses(c)
    PROVE  MoveOf(c)
<1>1. CASE Runs(c, "refuse") /\ Return(c, "refused")
  <2>1. Busy(c) /\ Heads(call[c], {"check", "refuse"})
    BY <1>1, RunsTyped DEF Busy, Heads
  <2> QED BY <1>1, <2>1, ReturnMoves
<1>2. CASE Runs(c, "invalid") /\ Return(c, "invalid")
  <2>1. Busy(c) /\ Heads(call[c], {"invalid"})
    BY <1>2, RunsTyped DEF Busy, Heads
  <2> QED BY <1>2, <2>1, ReturnMoves
<1> QED BY <1>1, <1>2 DEF Refuses

LEMMA AsksMoves ==
    ASSUME CallsInv, NEW c \in Callers, Asks(c)
    PROVE  MoveOf(c)
<1> DEFINE r == call[c]
<1>1. PICK op \in {"ask", "race"} : Runs(c, op)
  BY DEF Asks
<1>2. /\ IsCall(r) /\ r.state = "running" /\ r.todo # <<>> /\ Now(c) = Head(r.todo)
      /\ Now(c).op \in {"ask", "race"} /\ Heads(r, {"ask", "race"})
  BY <1>1, RunsTyped DEF Typed, Heads
<1>3. CASE call' = [call EXCEPT
             ![c].state = "asking", ![c].asked = Now(c).parts,
             ![c].touched = @ \/ (\E p \in Now(c).parts : p.writes)]
  <2> DEFINE writes == \E p \in Now(c).parts : p.writes
  <2>1. /\ Only(c)
        /\ call'[c] = [r EXCEPT !.state = "asking", !.asked = Now(c).parts,
                               !.touched = @ \/ writes]
    BY <1>3 DEF Only, CallsInv
  <2> HIDE DEF writes
  <2>2. /\ Stays(r, call'[c]) /\ call'[c].state = "asking" /\ call'[c].asked = Now(c).parts
        /\ call'[c].todo = r.todo /\ call'[c].failed = r.failed /\ call'[c].told = r.told
        /\ call'[c].found = r.found /\ call'[c].cache = r.cache
        /\ call'[c].touched = (r.touched \/ writes)
    BY <1>2, <2>1 DEF Stays, IsCall
  <2>3. call'[c].touched => r.touched \/ Touches(Head(r.todo))
    <3>1. writes => Touches(Head(r.todo))
      BY <1>2 DEF writes, Touches
    <3>2. call'[c].touched = (r.touched \/ writes)
      BY <2>2
    <3> QED BY <3>1, <3>2
  <2>4. AsksOut(r, call'[c])
    BY <1>2, <2>2, <2>3 DEF AsksOut
  <2> QED BY <1>2, <2>1, <2>4, OneMoves DEF Moves
<1>4. CASE Runs(c, "race") /\ Advance(c)
  <2>1. ~FindsSession(Now(c))
    BY <1>2 DEF FindsSession
  <2> QED BY <1>4, <2>1, AdvanceMoves
<1> QED BY <1>3, <1>4 DEF Asks

(* An answer: among the parts of the step there is the one that failed.     *)
LEMMA CollectsMoves ==
    ASSUME CallsInv, NEW c \in Callers, call[c].state = "asking",
           NEW left, left \subseteq call[c].asked,
           NEW failures, failures \subseteq Rpcs(Now(c).parts), Collects(c, left, failures)
    PROVE  MoveOf(c)
<1> DEFINE r == call[c]
           failed == r.failed \cup failures
           among(on) == Rpcs({p \in Now(c).parts : p.on = on}) \cap failed
<1>1. IsCall(r) /\ Busy(c) /\ Now(c) = Head(r.todo)
  BY DEF CallsInv, Busy, Typed, Now
<1>2. CASE left # {}
  <2>1. Only(c) /\ call'[c] = [r EXCEPT !.asked = left, !.failed = failed]
    BY <1>2 DEF Collects, Only, CallsInv
  <2> HIDE DEF failed
  <2>2. /\ Stays(r, call'[c]) /\ call'[c].state = r.state /\ call'[c].asked = left
        /\ call'[c].todo = r.todo /\ call'[c].failed = failed /\ call'[c].told = r.told
        /\ call'[c].found = r.found /\ call'[c].cache = r.cache
        /\ call'[c].touched = r.touched
    BY <1>1, <2>1 DEF Stays, IsCall
  <2>3. Hears(r, call'[c])
    BY <1>1, <2>2 DEF Hears, failed
  <2> QED BY <2>1, <2>3, OneMoves DEF Moves
<1>3. CASE left = {} /\ among("must") # {}
  <2>1. Return(c, "failed") /\ "failed" \notin Refusals \cup {"ok"}
    BY <1>3 DEF Collects, Refusals
  <2> QED BY <1>1, <2>1, ReturnMoves
<1>4. CASE left = {} /\ among("must") = {}
  <2>1. call' = [call EXCEPT
               ![c].asked = {}, ![c].failed = failed, ![c].state = "running",
               ![c].told = @ \cup among("told"), ![c].todo = Tail(@)]
    BY <1>4 DEF Collects
  <2> DEFINE told == among("told")
  <2> HIDE DEF failed, told
  <2>2. Only(c) /\ call'[c] = [r EXCEPT !.asked = {}, !.failed = failed, !.state = "running",
                                      !.told = @ \cup told, !.todo = Tail(@)]
    BY <2>1 DEF Only, CallsInv, told
  <2>3. /\ Stays(r, call'[c]) /\ call'[c].state = "running" /\ call'[c].todo = Tail(r.todo)
        /\ call'[c].failed = failed /\ call'[c].told = r.told \cup told
        /\ call'[c].found = r.found /\ call'[c].cache = r.cache
        /\ call'[c].touched = r.touched
    BY <1>1, <2>2 DEF Stays, IsCall
  <2>4. Hears(r, call'[c])
    BY <1>1, <1>4, <2>3 DEF Hears, failed, told
  <2> QED BY <2>2, <2>4, OneMoves DEF Moves
<1> QED BY <1>2, <1>3, <1>4

LEMMA AnswersMoves ==
    ASSUME CallsInv, NEW c \in Callers, Answers(c)
    PROVE  MoveOf(c)
<1>1. PICK p \in call[c].asked, ok \in BOOLEAN :
          LET left     == call[c].asked \ {p}
              failures == IF ok THEN {} ELSE {p.rpc}
          IN  IF Now(c).op = "race" THEN firstFailureReturns(c, left, failures)
                                    ELSE runLabeled(c, left, failures)
  BY DEF Answers
<1> DEFINE left     == call[c].asked \ {p}
           failures == IF ok THEN {} ELSE {p.rpc}
<1>2. /\ call[c].state = "asking" /\ Busy(c) /\ Typed(call[c])
      /\ call[c].asked \subseteq Now(c).parts
  BY DEF Answers, Busy, CallsInv, Typed, Now
<1>3. left \subseteq call[c].asked /\ failures \subseteq Rpcs(Now(c).parts)
  BY <1>2 DEF Rpcs
<1>4. Collects(c, left, failures) \/ Return(c, "failed")
  BY <1>1 DEF firstFailureReturns, runLabeled
<1> HIDE DEF left, failures
<1>5. "failed" \notin Refusals \cup {"ok"}
  BY DEF Refusals
<1> QED BY <1>2, <1>3, <1>4, <1>5, CollectsMoves, ReturnMoves

LEMMA JudgesMoves ==
    ASSUME CallsInv, NEW c \in Callers, Judges(c)
    PROVE  MoveOf(c)
<1>1. Runs(c, "some") /\ Now(c).op = "some" /\ Busy(c)
  BY RunsTyped DEF Judges, Busy
<1>2. CASE Inspected \subseteq call[c].failed
  <2>1. Return(c, "failed") /\ "failed" \notin Refusals \cup {"ok"}
    BY <1>2 DEF Judges, Refusals
  <2> QED BY <1>1, <2>1, ReturnMoves
<1>3. CASE ~(Inspected \subseteq call[c].failed)
  <2>1. Advance(c) /\ ~FindsSession(Now(c))
    BY <1>1, <1>3 DEF Judges, FindsSession
  <2> QED BY <1>1, <1>3, <2>1, AdvanceMoves
<1> QED BY <1>2, <1>3

LEMMA NamesMoves ==
    ASSUME CallsInv, NEW c \in Callers, Names(c)
    PROVE  MoveOf(c)
<1> DEFINE r == call[c]
           more == <<Silent("GetFunctionName"), Step("function")>>
<1>1. PICK op \in {"named", "function"} : Runs(c, op)
  BY DEF Names
<1>2. /\ IsCall(r) /\ r.state = "running" /\ r.todo # <<>> /\ Now(c) = Head(r.todo)
      /\ Now(c).op = op /\ ~FindsSession(Now(c))
  BY <1>1, RunsTyped DEF Typed, Heads, FindsSession
<1>3. CASE Advance(c)
  BY <1>1, <1>2, <1>3, AdvanceMoves
<1>4. CASE Runs(c, "named") /\ call' = [call EXCEPT ![c].todo = more \o Tail(@)]
  <2>1. Only(c) /\ call'[c] = [r EXCEPT !.todo = more \o Tail(@)] /\ Heads(r, {"named"})
    BY <1>4, RunsTyped DEF Only, CallsInv
  <2> HIDE DEF more
  <2>2. /\ Stays(r, call'[c]) /\ call'[c].state = "running" /\ call'[c].todo = more \o Tail(r.todo)
        /\ call'[c].failed = r.failed /\ call'[c].told = r.told
        /\ call'[c].found = r.found /\ call'[c].cache = r.cache
        /\ call'[c].touched = r.touched
    BY <1>2, <2>1 DEF Stays, IsCall
  <2>3. Rewrites(r, call'[c])
    BY <2>1, <2>2 DEF Rewrites, more
  <2> QED BY <1>2, <2>1, <2>3, OneMoves DEF Moves
<1>5. CASE Runs(c, "function") /\ call' = [call EXCEPT ![c].todo = <<>>]
  <2>1. Only(c) /\ call'[c] = [r EXCEPT !.todo = <<>>] /\ Heads(r, {"function"})
    BY <1>5, RunsTyped DEF Only, CallsInv
  <2>2. /\ Stays(r, call'[c]) /\ call'[c].state = "running" /\ call'[c].todo = <<>>
        /\ call'[c].failed = r.failed /\ call'[c].told = r.told
        /\ call'[c].found = r.found /\ call'[c].cache = r.cache
        /\ call'[c].touched = r.touched
    BY <1>2, <2>1 DEF Stays, IsCall
  <2>3. Heads(r, {"function", "list"}) /\ r.found[1] = call'[c].found[1]
    BY <2>1, <2>2 DEF Heads
  <2>4. Rewrites(r, call'[c])
    BY <2>2, <2>3 DEF Rewrites
  <2> QED BY <1>2, <2>1, <2>4, OneMoves DEF Moves
<1> QED BY <1>3, <1>4, <1>5 DEF Names

LEMMA SearchesMoves ==
    ASSUME CallsInv, NEW c \in Callers, Searches(c)
    PROVE  MoveOf(c)
<1> DEFINE r == call[c]
<1>1. PICK op \in {"sessions", "search"} : Runs(c, op)
  BY DEF Searches
<1>2. /\ IsCall(r) /\ r.state = "running" /\ r.todo # <<>> /\ Now(c) = Head(r.todo)
      /\ Now(c).op = op /\ ~FindsSession(Now(c)) /\ Busy(c)
  BY <1>1, RunsTyped DEF Typed, Heads, FindsSession, Busy
<1>3. CASE Return(c, "no session")
  <2>1. "no session" \notin Refusals \cup {"ok"}
    BY DEF Refusals
  <2> QED BY <1>2, <1>3, <2>1, ReturnMoves
<1>4. ASSUME NEW ids, Runs(c, "sessions"),
             call' = [call EXCEPT ![c].ids = ids, ![c].todo = Tail(@)]
      PROVE  MoveOf(c)
  <2>1. Only(c) /\ call'[c] = [r EXCEPT !.ids = ids, !.todo = Tail(@)] /\ Now(c).op = "sessions"
    BY <1>4, RunsTyped DEF Only, CallsInv
  <2>2. Passes(r, call'[c])
    BY <1>2, <2>1 DEF Passes, Stays, IsCall
  <2> QED BY <2>1, <2>2, PassMoves
<1>5. CASE /\ Runs(c, "search")
           /\ call' = [call EXCEPT ![c].todo =
                 crossSearchOne(1, Now(c).mode)
                     \o (IF Len(call[c].ids) > 1 THEN crossSearchOne(2, Now(c).mode)
                                                 ELSE <<>>)]
  <2> DEFINE more == crossSearchOne(1, Now(c).mode)
                     \o (IF Len(call[c].ids) > 1 THEN crossSearchOne(2, Now(c).mode)
                                                 ELSE <<>>)
  <2>1. call' = [call EXCEPT ![c].todo = more]
    BY <1>5
  <2> HIDE DEF more
  <2>2. Only(c) /\ call'[c] = [r EXCEPT !.todo = more] /\ Heads(r, {"search"})
    BY <1>5, <2>1, RunsTyped DEF Only, CallsInv
  <2>3. /\ Stays(r, call'[c]) /\ call'[c].state = "running" /\ call'[c].todo = more
        /\ call'[c].failed = r.failed /\ call'[c].told = r.told
        /\ call'[c].found = r.found /\ call'[c].cache = r.cache
        /\ call'[c].touched = r.touched
    BY <1>2, <2>2 DEF Stays, IsCall
  <2>4. Rewrites(r, call'[c])
    BY <1>2, <2>2, <2>3 DEF Rewrites, more
  <2> QED BY <1>2, <2>2, <2>4, OneMoves DEF Moves
<1> QED BY <1>3, <1>4, <1>5 DEF Searches

(* A step that changes, of the call, its cache and its mark too.            *)
LEMMA TouchedCall ==
    ASSUME NEW r, NEW q, IsCall(r), r.state = "running",
           q = [r EXCEPT !.todo = Tail(@), !.touched = TRUE]
    PROVE  /\ Stays(r, q) /\ q.todo = Tail(r.todo) /\ q.state = "running"
           /\ q.failed = r.failed /\ q.told = r.told
           /\ q.found = r.found /\ q.cache = r.cache
  BY DEF IsCall, Stays

LEMMA WritesMoves ==
    ASSUME CallsInv, NEW c \in Callers, NEW op \in ChangeOps,
           Runs(c, op), call' = [call EXCEPT ![c].todo = Tail(@), ![c].touched = TRUE]
    PROVE  MoveOf(c)
<1> DEFINE r == call[c]
<1>1. IsCall(r) /\ r.state = "running" /\ r.todo # <<>> /\ Now(c) = Head(r.todo) /\ Now(c).op = op
  BY RunsTyped DEF Typed, Heads
<1>2. Only(c) /\ call'[c] = [r EXCEPT !.todo = Tail(@), !.touched = TRUE]
  BY DEF Only, CallsInv
<1>3. /\ Stays(r, call'[c]) /\ call'[c].todo = Tail(r.todo) /\ call'[c].state = "running"
      /\ call'[c].failed = r.failed /\ call'[c].told = r.told
      /\ call'[c].found = r.found /\ call'[c].cache = r.cache
  BY <1>1, <1>2, TouchedCall
<1>4. ~FindsSession(Head(r.todo)) /\ Touches(Head(r.todo)) /\ Head(r.todo).op # "some"
  BY <1>1 DEF FindsSession, Touches, ChangeOps
<1>5. Passes(r, call'[c])
  BY <1>1, <1>3, <1>4 DEF Passes
<1> QED BY <1>2, <1>5, PassMoves

LEMMA CacheMoves ==
    ASSUME CallsInv, NEW c \in Callers, getSessionCache(c)
    PROVE  MoveOf(c)
<1> DEFINE r == call[c]
<1>0. PICK op \in {"cache", "cacheIfNamed"} : Runs(c, op)
  BY DEF getSessionCache
<1>1. IsCall(r) /\ r.state = "running" /\ r.todo # <<>> /\ Now(c) = Head(r.todo) /\ Now(c).op = op
  BY <1>0, RunsTyped DEF Typed, Heads
<1>2. Only(c) /\ call'[c] = [r EXCEPT !.cache = "held", !.todo = Tail(@)]
  BY DEF Only, CallsInv, getSessionCache
<1>3. /\ Stays(r, call'[c]) /\ call'[c].todo = Tail(r.todo) /\ call'[c].state = "running"
      /\ call'[c].failed = r.failed /\ call'[c].told = r.told
      /\ call'[c].found = r.found /\ call'[c].touched = r.touched /\ call'[c].cache = "held"
  BY <1>1, <1>2 DEF Stays, IsCall
<1>4. ~FindsSession(Head(r.todo)) /\ NeedsSession(Head(r.todo)) /\ Head(r.todo).op # "some"
  BY <1>1 DEF FindsSession, NeedsSession
<1>5. Passes(r, call'[c])
  BY <1>1, <1>3, <1>4 DEF Passes
<1> QED BY <1>2, <1>5, PassMoves

(* The steps that go on with the next, whatever else they change.           *)
LEMMA PlainMoves ==
    ASSUME CallsInv, NEW c \in Callers,
           \/ LeavesCache(c) \/ PromotesToRead(c) \/ Stops(c) \/ Deletes(c) \/ Demotes(c)
           \/ Analyzes(c)
    PROVE  MoveOf(c)
<1>1. PICK op \in {"cacheIfNamed", "promote1", "stop", "delete", "demote", "analyze"} :
          Runs(c, op)
  BY DEF LeavesCache, PromotesToRead, Stops, Deletes, Demotes, Analyzes
<1>2. Advance(c)
  BY DEF LeavesCache, PromotesToRead, Stops, Deletes, Demotes, Analyzes
<1>3. ~FindsSession(Now(c))
  BY <1>1, RunsTyped DEF FindsSession
<1> QED BY <1>1, <1>2, <1>3, AdvanceMoves

LEMMA ListsMoves ==
    ASSUME CallsInv, NEW c \in Callers, Lists(c)
    PROVE  MoveOf(c)
<1> DEFINE r == call[c]
<1>1. Runs(c, "list")
  BY DEF Lists
<1>2. /\ IsCall(r) /\ r.state = "running" /\ r.todo # <<>> /\ Now(c) = Head(r.todo)
      /\ Now(c).op = "list" /\ ~FindsSession(Now(c))
  BY <1>1, RunsTyped DEF Typed, Heads, FindsSession
<1>3. CASE Advance(c)
  BY <1>1, <1>2, <1>3, AdvanceMoves
<1>4. CASE call' = [call EXCEPT ![c].todo = <<>>]
  <2>1. Only(c) /\ call'[c] = [r EXCEPT !.todo = <<>>] /\ Heads(r, {"list"})
    BY <1>1, <1>4, RunsTyped DEF Only, CallsInv
  <2>2. /\ Stays(r, call'[c]) /\ call'[c].state = "running" /\ call'[c].todo = <<>>
        /\ call'[c].failed = r.failed /\ call'[c].told = r.told
        /\ call'[c].found = r.found /\ call'[c].cache = r.cache
        /\ call'[c].touched = r.touched
    BY <1>2, <2>1 DEF Stays, IsCall
  <2>3. Rewrites(r, call'[c])
    BY <2>1, <2>2 DEF Rewrites, Heads
  <2> QED BY <1>2, <2>1, <2>3, OneMoves DEF Moves
<1> QED BY <1>3, <1>4 DEF Lists

LEMMA AddedMoves ==
    ASSUME CallsInv, NEW c \in Callers, addToolWithCache(c)
    PROVE  MoveOf(c)
<1>1. Busy(c) /\ Return(c, "ok") /\ call[c].state = "running" /\ call[c].todo = <<>>
  BY DEF addToolWithCache, Busy
<1> QED BY <1>1, ReturnMoves

LEMMA CreatesMoves ==
    ASSUME CallsInv, NEW c \in Callers, Creates(c)
    PROVE  MoveOf(c)
<1> DEFINE r == call[c]
<1>1. /\ IsCall(r) /\ r.state = "running" /\ r.todo # <<>> /\ Now(c) = Head(r.todo)
      /\ Now(c).op = "create" /\ Heads(r, {"create"}) /\ Busy(c)
  BY RunsTyped DEF Typed, Heads, Creates, Busy
<1>0. r.tool = "open_binary" /\ r.tool \notin Promoters
  <2>1. Now(c) \in StepsOf(r.tool)
    BY RunsTyped DEF Creates
  <2> QED BY <1>1, <2>1 DEF StepsOf, Fits, Promoters
<1>2. ASSUME NEW s \in SessionSet \ opened,
             opened' = opened \cup {s},
             call' = [call EXCEPT ![c].found[1] = s, ![c].todo = Tail(@)]
      PROVE  MoveOf(c)
  <2>0. Finds(r.tool, s)
    BY <1>0, <1>2 DEF Finds
  <2>1. Only(c) /\ call'[c] = [r EXCEPT !.found[1] = s, !.todo = Tail(@)]
    BY <1>2 DEF Only, CallsInv
  <2>2. /\ Stays(r, call'[c]) /\ call'[c].state = "running" /\ call'[c].todo = Tail(r.todo)
        /\ call'[c].failed = r.failed /\ call'[c].told = r.told
        /\ call'[c].found[1] = s /\ call'[c].cache = r.cache
        /\ call'[c].touched = r.touched
    BY <1>1, <2>0, <2>1 DEF Stays, IsCall
  <2>3. Passes(r, call'[c])
    BY <1>1, <1>2, <2>2 DEF Passes
  <2> QED BY <2>1, <2>3, PassMoves
<1>3. ASSUME NEW s \in SessionSet, s \in registry,
             call' = [call EXCEPT ![c].found[1] = s, ![c].todo = reuseSession]
      PROVE  MoveOf(c)
  <2>0. Finds(r.tool, s)
    BY <1>0, <1>3 DEF Finds
  <2>1. Only(c) /\ call'[c] = [r EXCEPT !.found[1] = s, !.todo = reuseSession]
    BY <1>3 DEF Only, CallsInv
  <2>2. /\ Stays(r, call'[c]) /\ call'[c].state = "running" /\ call'[c].todo = reuseSession
        /\ call'[c].failed = r.failed /\ call'[c].told = r.told
        /\ call'[c].found[1] = s /\ call'[c].cache = r.cache
        /\ call'[c].touched = r.touched
    BY <1>1, <2>0, <2>1 DEF Stays, IsCall
  <2>3. Rewrites(r, call'[c])
    BY <1>1, <1>3, <2>2 DEF Rewrites
  <2> QED BY <1>1, <2>1, <2>3, OneMoves DEF Moves
<1>4. CASE Return(c, "failed")
  <2>1. "failed" \notin Refusals \cup {"ok"}
    BY DEF Refusals
  <2> QED BY <1>1, <1>4, <2>1, ReturnMoves
<1>5. registry \subseteq SessionSet
  BY DEF CallsInv
<1> QED BY <1>2, <1>3, <1>4, <1>5 DEF Creates

(* A cache that is dropped: the pointers that calls have to it are stale.   *)
LEMMA StaleSteady ==
    ASSUME CallsInv, NEW s
    PROVE  /\ DOMAIN Stale(s) = Callers
           /\ \A d \in Callers : /\ Steady(call[d], Stale(s)[d])
                                 /\ Busy(d) => Stale(s)[d].tool = call[d].tool
<1>1. DOMAIN Stale(s) = Callers
  BY DEF Stale
<1>2. ASSUME NEW d \in Callers
      PROVE  Steady(call[d], Stale(s)[d]) /\ (Busy(d) => Stale(s)[d].tool = call[d].tool)
  <2> DEFINE r == call[d]
             q == Stale(s)[d]
  <2>1. q = r \/ (Busy(d) /\ r.cache = "held" /\ q = [r EXCEPT !.cache = "stale"])
    BY DEF Stale
  <2>2. Busy(d) => Typed(r)
    BY DEF CallsInv
  <2> HIDE DEF r, q
  <2>3. Steady(r, q)
    BY <2>1, <2>2 DEF Steady
  <2>4. Busy(d) => q.tool = r.tool
    BY <2>1, <2>2 DEF Typed, IsCall
  <2> QED BY <2>3, <2>4 DEF r, q
<1> QED BY <1>1, <1>2

LEMMA SteadyMoves ==
    ASSUME NEW r, NEW q, Steady(r, q)
    PROVE  /\ Moves(r, q) /\ q.state = r.state
           /\ Typed(r) => q.tool = r.tool /\ q.todo = r.todo /\ q.found = r.found
<1>1. CASE q = r
  BY <1>1 DEF Moves
<1>2. CASE Typed(r) /\ r.cache = "held" /\ q = [r EXCEPT !.cache = "stale"]
  <2>1. IsCall(r) /\ r.state \in {"running", "waiting", "asking"}
    BY <1>2 DEF Typed
  <2>2. /\ Stays(r, q) /\ q.state = r.state /\ q.todo = r.todo /\ q.cache = "stale"
        /\ q.failed = r.failed /\ q.told = r.told /\ q.found = r.found
        /\ q.asked = r.asked /\ q.touched = r.touched /\ q.tool = r.tool
    BY <1>2, <2>1 DEF Stays, IsCall
  <2>3. r.state = "asking" => Hears(r, q)
    BY <1>2, <2>2 DEF Hears
  <2>4. r.state # "asking" => Waits(r, q)
    BY <1>2, <2>1, <2>2 DEF Waits
  <2> QED BY <2>1, <2>2, <2>3, <2>4 DEF Moves
<1> QED BY <1>1, <1>2 DEF Steady

LEMMA StartsMoves ==
    ASSUME CallsInv, NEW c \in Callers, Starts(c)
    PROVE  MoveOf(c)
<1> DEFINE r == call[c]
           s == Session(c)
<1>1. Runs(c, "start") /\ IsCall(r) /\ Busy(c) /\ Now(c).op = "start"
      /\ r.state \in {"running", "waiting", "asking"}
  BY RunsTyped DEF Starts, Typed, Busy
<1>2. CASE Advance(c)
  BY <1>1, <1>2, AdvanceMoves DEF FindsSession
<1>3. CASE call' = [Stale(s) EXCEPT ![c] = Returned(@.tool, "failed", {}, {}, FALSE)]
  <2>1. DOMAIN call' = Callers /\ (\A d \in Callers \ {c} : call'[d] = Stale(s)[d])
    BY <1>3, StaleSteady
  <2>2. call'[c] = Returned(Stale(s)[c].tool, "failed", {}, {}, FALSE)
    BY <1>3, StaleSteady
  <2>3. Stale(s)[c].tool = r.tool
    BY <1>1, StaleSteady
  <2>4. call'[c] = Returned(r.tool, "failed", r.failed, r.told, r.touched)
    BY <2>2, <2>3 DEF Returned, Refusals
  <2>5. Ends(r, call'[c])
    <3>1. "failed" \notin Refusals \cup {"ok"}
      BY DEF Refusals
    <3> QED BY <2>4, <3>1 DEF Ends
  <2>6. Moves(r, call'[c])
    BY <1>1, <2>5 DEF Moves
  <2>7. \A d \in Callers \ {c} : Steady(call[d], call'[d])
    BY <2>1, StaleSteady
  <2> QED BY <2>1, <2>6, <2>7 DEF MoveOf
<1> QED BY <1>2, <1>3 DEF Starts

LEMMA UncachesMoves ==
    ASSUME CallsInv, NEW c \in Callers, Uncaches(c)
    PROVE  MoveOf(c)
<1> DEFINE r == call[c]
           s == Session(c)
<1>1. /\ IsCall(r) /\ r.state = "running" /\ r.todo # <<>> /\ Now(c) = Head(r.todo)
      /\ Now(c).op = "uncache" /\ Busy(c)
  BY RunsTyped DEF Typed, Heads, Uncaches, Busy
<1>2. DOMAIN call' = Callers /\ (\A d \in Callers \ {c} : call'[d] = Stale(s)[d])
  BY StaleSteady DEF Uncaches
<1>3. call'[c] = [Stale(s)[c] EXCEPT !.todo = Tail(@)]
  BY StaleSteady DEF Uncaches
<1>4. Stale(s)[c] = r \/ (r.cache = "held" /\ Stale(s)[c] = [r EXCEPT !.cache = "stale"])
  BY StaleSteady DEF Steady
<1> HIDE DEF s
<1>5. /\ Stays(r, call'[c]) /\ call'[c].todo = Tail(r.todo) /\ call'[c].state = "running"
      /\ call'[c].failed = r.failed /\ call'[c].told = r.told
      /\ call'[c].found = r.found /\ call'[c].touched = r.touched
  BY <1>1, <1>3, <1>4 DEF Stays, IsCall
<1>6. ~FindsSession(Head(r.todo)) /\ NeedsSession(Head(r.todo)) /\ Head(r.todo).op # "some"
  BY <1>1 DEF FindsSession, NeedsSession
<1>7. Passes(r, call'[c])
  BY <1>1, <1>5, <1>6 DEF Passes
<1>8. Moves(r, call'[c])
  BY <1>1, <1>7 DEF Moves
<1>9. \A d \in Callers \ {c} : Steady(call[d], call'[d])
  BY <1>2, StaleSteady
<1> QED BY <1>2, <1>8, <1>9 DEF MoveOf

(* A step is the step of a caller, or of none.                              *)
Acts(c) == Begin(c) \/ Deliver(c) \/ Works(c) \/ waitForReady(c) \/ GivesUp(c) \/ Answers(c)

LEMMA ActsMoves ==
    ASSUME CallsInv, NEW c \in Callers, Acts(c)
    PROVE  MoveOf(c)
<1>1. CASE Deliver(c)
  <2>1. Only(c) /\ call'[c] = Idle /\ call[c].state = "returned"
    BY <1>1 DEF Deliver, Only, CallsInv
  <2> QED BY <2>1, OneMoves DEF Moves
<1>2. CASE Works(c)
  <2>1. CASE Checks(c) \/ Refuses(c) \/ Resolves(c) \/ Asks(c) \/ Judges(c) \/ Names(c)
             \/ Searches(c)
    BY <2>1, ChecksMoves, RefusesMoves, ResolvesMoves, AsksMoves, JudgesMoves, NamesMoves,
       SearchesMoves
  <2>2. CASE getSessionCache(c)
    BY <2>2, CacheMoves
  <2>3. CASE LeavesCache(c) \/ PromotesToRead(c) \/ Stops(c) \/ Deletes(c) \/ Demotes(c)
             \/ Analyzes(c)
    BY <2>3, PlainMoves
  <2>4. CASE Visits(c) \/ Notes(c) \/ Clears(c) \/ Promotes(c)
    <3>1. PICK op \in ChangeOps : Runs(c, op)
      BY <2>4 DEF ChangeOps, Visits, Notes, Clears, Promotes
    <3>2. call' = [call EXCEPT ![c].todo = Tail(@), ![c].touched = TRUE]
      BY <2>4 DEF Visits, Notes, Clears, Promotes, Writes
    <3> QED BY <3>1, <3>2, WritesMoves
  <2>5. CASE addToolWithCache(c) \/ Creates(c) \/ Starts(c) \/ Uncaches(c) \/ Lists(c)
    BY <2>5, AddedMoves, CreatesMoves, StartsMoves, UncachesMoves, ListsMoves
  <2> QED BY <1>2, <2>1, <2>2, <2>3, <2>4, <2>5 DEF Works
<1> QED BY <1>1, <1>2, BeginMoves, WaitMoves, AnswersMoves DEF Acts

LEMMA OthersSteady ==
    ASSUME CallsInv,
           \/ \E s \in SessionSet : Warms(s) \/ WarmsCache(s) \/ JobEnds(s) \/ WorkerDies(s)
           \/ OrphanEnds \/ Read \/ UNCHANGED vars
    PROVE  DOMAIN call' = Callers /\ \A c \in Callers : Steady(call[c], call'[c])
<1>1. CASE \E s \in SessionSet : JobEnds(s) /\ call' = Stale(s)
  BY <1>1, StaleSteady
<1>2. CASE UNCHANGED call
  BY <1>2 DEF Steady, CallsInv
<1> QED BY <1>1, <1>2 DEF Warms, WarmsCache, JobEnds, WorkerDies, OrphanEnds, Read, vars

LEMMA NextMoves ==
    ASSUME CallsInv, [Next]_vars
    PROVE  DOMAIN call' = Callers /\ \A c \in Callers : Moves(call[c], call'[c])
<1>1. ASSUME NEW c \in Callers, Acts(c)
      PROVE  DOMAIN call' = Callers /\ \A d \in Callers : Moves(call[d], call'[d])
  BY <1>1, ActsMoves, SteadyMoves DEF MoveOf
<1>2. CASE ~\E c \in Callers : Acts(c)
  BY <1>2, OthersSteady, SteadyMoves DEF Next, Acts
<1> QED BY <1>1, <1>2

-----------------------------------------------------------------------------

(* What holds of a call at any time.                                        *)
Unrefused(s) == \A k \in 1..Len(s) : ~CanRefuse(s[k])

(* The reply so far names the failures it has to name.                      *)
Honest(r) ==
    IF r.state = "asking"
    THEN /\ r.told \subseteq r.failed \ BestEffort(r.tool)
         /\ r.failed \ BestEffort(r.tool) \subseteq r.told \cup Rpcs(Head(r.todo).parts)
    ELSE r.told = r.failed \ BestEffort(r.tool)

Judged(r) ==
    r.tool = "inspect" => IF r.todo = <<>> THEN ~(Inspected \subseteq r.failed)
                                           ELSE r.todo[Len(r.todo)].op = "some"

Kept(r) ==
    /\ r.found[1] \in SessionSet \/ Rooted(r.todo)
    /\ r.cache # "none" => r.found[1] \in SessionSet

Orderly(r) == Ordered(r.todo) /\ (r.touched => Unrefused(r.todo))

Good(r) == Typed(r) /\ Kept(r) /\ Orderly(r) /\ Honest(r) /\ Judged(r)

(* What holds of a call that has returned.                                  *)
Finished(r) ==
    /\ r.why = "invalid" => r.tool = "cross_search"
    /\ r.why \in Refusals => ~r.touched
    /\ r.why = "ok" => /\ r.failed \ BestEffort(r.tool) = r.told
                       /\ r.tool = "inspect" => ~(Inspected \subseteq r.failed)

CallOK(r) ==
    /\ r.state \in {"idle", "running", "waiting", "asking", "returned"}
    /\ r.state \in {"running", "waiting", "asking"} => Good(r)
    /\ r.state = "returned" => Finished(r)

(* What is left of a script when its first step is done.                    *)
LEMMA TailSteps ==
    ASSUME NEW S, NEW s \in Seq(S), s # <<>>
    PROVE  /\ Len(s) \in Nat \ {0} /\ 1 \in 1..Len(s) /\ Head(s) = s[1] /\ Head(s) \in S
           /\ Tail(s) \in Seq(S) /\ Len(Tail(s)) = Len(s) - 1
           /\ \A k \in 1..Len(Tail(s)) : k + 1 \in 1..Len(s) /\ Tail(s)[k] = s[k + 1]
           /\ Tail(s) = <<>> <=> Len(s) = 1
<1>1. Len(s) \in Nat \ {0} /\ Head(s) = s[1] /\ Head(s) \in S
  OBVIOUS
<1>2. Tail(s) \in Seq(S) /\ Len(Tail(s)) = Len(s) - 1
  OBVIOUS
<1>3. \A k \in 1..Len(Tail(s)) : k + 1 \in 1..Len(s) /\ Tail(s)[k] = s[k + 1]
  BY <1>1, <1>2
<1>4. Tail(s) = <<>> <=> Len(s) = 1
  BY <1>1, <1>2, EmptySeq, LenProperties
<1> QED BY <1>1, <1>2, <1>3, <1>4

LEMMA TailOrdered ==
    ASSUME NEW S, NEW s \in Seq(S), s # <<>>, Ordered(s)
    PROVE  /\ Ordered(Tail(s))
           /\ Touches(Head(s)) => Unrefused(Tail(s))
<1>1. Ordered(Tail(s))
  <2> SUFFICES ASSUME NEW j \in 1..Len(Tail(s)), NEW k \in 1..Len(Tail(s)), j < k,
                      Touches(Tail(s)[j])
               PROVE  ~CanRefuse(Tail(s)[k])
    BY DEF Ordered
  <2>1. j + 1 \in 1..Len(s) /\ k + 1 \in 1..Len(s) /\ j + 1 < k + 1
    BY TailSteps
  <2>2. Tail(s)[j] = s[j + 1] /\ Tail(s)[k] = s[k + 1]
    BY TailSteps
  <2> QED BY <2>1, <2>2 DEF Ordered
<1>2. ASSUME Touches(Head(s)), NEW k \in 1..Len(Tail(s))
      PROVE  ~CanRefuse(Tail(s)[k])
  <2>1. 1 \in 1..Len(s) /\ k + 1 \in 1..Len(s) /\ 1 < k + 1 /\ Head(s) = s[1]
    BY TailSteps
  <2>2. Tail(s)[k] = s[k + 1]
    BY TailSteps
  <2> QED BY <1>2, <2>1, <2>2 DEF Ordered
<1> QED BY <1>1, <1>2 DEF Unrefused

LEMMA TailUnrefused ==
    ASSUME NEW S, NEW s \in Seq(S), s # <<>>, Unrefused(s)
    PROVE  Unrefused(Tail(s)) /\ ~CanRefuse(Head(s))
  BY TailSteps DEF Unrefused

LEMMA TailRooted ==
    ASSUME NEW S, NEW s \in Seq(S), s # <<>>, Rooted(s)
    PROVE  ~NeedsSession(Head(s)) /\ (FindsSession(Head(s)) \/ Rooted(Tail(s)))
<1>1. ~NeedsSession(Head(s))
  <2>1. 1 \in 1..Len(s) /\ Head(s) = s[1] /\ 1..(1 - 1) = {}
    BY TailSteps
  <2> QED BY <2>1 DEF Rooted
<1>2. ASSUME ~FindsSession(Head(s)), NEW k \in 1..Len(Tail(s)), NeedsSession(Tail(s)[k])
      PROVE  \E j \in 1..(k - 1) : FindsSession(Tail(s)[j])
  <2>1. k + 1 \in 1..Len(s) /\ Tail(s)[k] = s[k + 1] /\ (k + 1) - 1 = k
    BY TailSteps
  <2>2. PICK j \in 1..k : FindsSession(s[j])
    BY <1>2, <2>1 DEF Rooted
  <2>3. j # 1
    BY <1>2, <2>2, TailSteps
  <2> DEFINE i == j - 1
  <2>4. i \in 1..(k - 1) /\ i \in 1..Len(Tail(s)) /\ i + 1 = j
    BY <2>3, TailSteps
  <2>5. Tail(s)[i] = s[j]
    BY <2>4, TailSteps
  <2> QED BY <2>2, <2>4, <2>5
<1> QED BY <1>1, <1>2 DEF Rooted

LEMMA TailPaired ==
    ASSUME NEW S, NEW s \in Seq(S), s # <<>>, Paired(s)
    PROVE  Paired(Tail(s)) /\ (Head(s).op = "attempt" => Tail(s) # <<>>)
<1>1. Paired(Tail(s))
  <2> SUFFICES ASSUME NEW k \in 1..Len(Tail(s)), Tail(s)[k].op = "attempt"
               PROVE  k < Len(Tail(s))
    BY DEF Paired
  <2>1. k + 1 \in 1..Len(s) /\ Tail(s)[k] = s[k + 1]
    BY TailSteps
  <2>2. k + 1 < Len(s)
    BY <2>1 DEF Paired
  <2> QED BY <2>2, TailSteps
<1>2. Head(s).op = "attempt" => Len(s) # 1
  BY TailSteps DEF Paired
<1>3. Len(s) \in Nat \ {0} /\ (Tail(s) = <<>> <=> Len(s) = 1)
  BY TailSteps
<1> QED BY <1>1, <1>2, <1>3

LEMMA TailLast ==
    ASSUME NEW S, NEW s \in Seq(S), s # <<>>
    PROVE  /\ Tail(s) # <<>> => Tail(s)[Len(Tail(s))] = s[Len(s)]
           /\ Tail(s) = <<>> => Head(s) = s[Len(s)]
  BY TailSteps

(* Two steps put in front that need nothing, change nothing, refuse nothing.*)
LEMMA TwoMore ==
    ASSUME NEW tool, NEW a, NEW b, NEW s \in Seq(StepsOf(tool)),
           Opening(tool, a), Working(tool, a), Opening(tool, b), Working(tool, b)
    PROVE  LET t == <<a, b>> \o s
           IN  /\ t \in Seq(StepsOf(tool))
               /\ Paired(s) => Paired(t)
               /\ Rooted(s) => Rooted(t)
               /\ Ordered(s) => Ordered(t)
               /\ Unrefused(s) => Unrefused(t)
<1> DEFINE t == <<a, b>> \o s
<1>1. /\ ~NeedsSession(a) /\ ~Touches(a) /\ a.op # "attempt" /\ ~CanRefuse(a)
      /\ ~NeedsSession(b) /\ ~Touches(b) /\ b.op # "attempt" /\ ~CanRefuse(b)
      /\ a \in StepsOf(tool) /\ b \in StepsOf(tool)
  BY DEF Opening, Working
<1>2. /\ t \in Seq(StepsOf(tool)) /\ Len(t) = Len(s) + 2 /\ Len(s) \in Nat /\ t[1] = a /\ t[2] = b
      /\ \A k \in 1..Len(s) : t[k + 2] = s[k]
  BY <1>1
<1> HIDE DEF t
<1>3. \A k \in 1..Len(t) : \/ k = 1 \/ k = 2
                           \/ k - 2 \in 1..Len(s) /\ t[k] = s[k - 2]
  <2> TAKE k \in 1..Len(t)
  <2>1. k = 1 \/ k = 2 \/ (k - 2 \in 1..Len(s) /\ (k - 2) + 2 = k)
    BY <1>2
  <2> QED BY <1>2, <2>1
<1>4. Paired(s) => Paired(t)
  BY <1>1, <1>2, <1>3 DEF Paired
<1>5. Unrefused(s) => Unrefused(t)
  BY <1>1, <1>2, <1>3 DEF Unrefused
<1>6. ASSUME Rooted(s), NEW k \in 1..Len(t), NeedsSession(t[k])
      PROVE  \E j \in 1..(k - 1) : FindsSession(t[j])
  <2>1. k - 2 \in 1..Len(s) /\ NeedsSession(s[k - 2])
    BY <1>1, <1>2, <1>3, <1>6
  <2>2. PICK j \in 1..((k - 2) - 1) : FindsSession(s[j])
    BY <1>6, <2>1 DEF Rooted
  <2>3. j \in 1..Len(s) /\ j + 2 \in 1..(k - 1)
    BY <1>2, <2>1
  <2> QED BY <1>2, <2>2, <2>3
<1>7. ASSUME Ordered(s), NEW j \in 1..Len(t), NEW k \in 1..Len(t), j < k, Touches(t[j])
      PROVE  ~CanRefuse(t[k])
  <2>1. j - 2 \in 1..Len(s) /\ Touches(s[j - 2])
    BY <1>1, <1>2, <1>3, <1>7
  <2>2. k - 2 \in 1..Len(s) /\ t[k] = s[k - 2] /\ j - 2 < k - 2
    BY <1>2, <1>3, <1>7, <2>1
  <2> QED BY <1>7, <2>1, <2>2 DEF Ordered
<1> QED BY <1>2, <1>4, <1>5, <1>6, <1>7 DEF Rooted, Ordered, t

(* Every move of a call keeps what holds of it.                             *)
LEMMA GoodSteps ==
    ASSUME NEW r, Good(r), r.todo # <<>>
    PROVE  LET S == StepsOf(r.tool)
           IN  /\ r.todo \in Seq(S) /\ Tail(r.todo) \in Seq(S) /\ Head(r.todo) \in S
               /\ Paired(Tail(r.todo)) /\ Ordered(Tail(r.todo))
               /\ r.touched => Unrefused(Tail(r.todo)) /\ ~CanRefuse(Head(r.todo))
               /\ Touches(Head(r.todo)) => Unrefused(Tail(r.todo))
               /\ NeedsSession(Head(r.todo)) => r.found[1] \in SessionSet
               /\ \/ r.found[1] \in SessionSet \/ FindsSession(Head(r.todo))
                  \/ Rooted(Tail(r.todo))
               /\ r.tool = "inspect" =>
                     IF Tail(r.todo) = <<>> THEN Head(r.todo).op = "some"
                                            ELSE Tail(r.todo)[Len(Tail(r.todo))].op = "some"
<1> DEFINE S == StepsOf(r.tool)
           s == r.todo
<1>1. s \in Seq(S) /\ s # <<>> /\ Paired(s) /\ Ordered(s) /\ (r.touched => Unrefused(s))
  BY DEF Good, Typed, Orderly
<1>2. r.found[1] \in SessionSet \/ Rooted(s)
  BY DEF Good, Kept
<1>3. r.tool = "inspect" => s[Len(s)].op = "some"
  BY DEF Good, Judged
<1> HIDE DEF S, s
<1>4. Tail(s) \in Seq(S) /\ Head(s) \in S
  BY <1>1, TailSteps
<1>5. Paired(Tail(s)) /\ Ordered(Tail(s)) /\ (Touches(Head(s)) => Unrefused(Tail(s)))
  BY <1>1, TailPaired, TailOrdered
<1>6. r.touched => Unrefused(Tail(s)) /\ ~CanRefuse(Head(s))
  BY <1>1, TailUnrefused
<1>7. Rooted(s) => ~NeedsSession(Head(s)) /\ (FindsSession(Head(s)) \/ Rooted(Tail(s)))
  BY <1>1, TailRooted
<1>8. r.tool = "inspect" => IF Tail(s) = <<>> THEN Head(s).op = "some"
                                              ELSE Tail(s)[Len(Tail(s))].op = "some"
  BY <1>1, <1>3, TailLast
<1> QED BY <1>1, <1>2, <1>4, <1>5, <1>6, <1>7, <1>8 DEF S, s

LEMMA BeginGood ==
    ASSUME NEW r, NEW q, Begins(r, q)
    PROVE  Good(q)
<1>1. /\ q.state = "running" /\ IsCall(q) /\ q.tool \in Tools /\ q.todo \in ScriptsOf[q.tool]
      /\ q.cache = "none" /\ q.failed = {} /\ q.told = {} /\ q.touched = FALSE
  BY DEF Begins
<1>2. Sound(q.tool, q.todo) /\ (q.tool = "inspect" => q.todo # <<>> /\ q.todo[Len(q.todo)].op = "some")
  BY <1>1, ScriptsSound
<1>3. Typed(q)
  BY <1>1, <1>2 DEF Typed, Sound
<1>4. Kept(q) /\ Orderly(q)
  BY <1>1, <1>2 DEF Kept, Orderly, Sound
<1>5. Honest(q) /\ Judged(q)
  BY <1>1, <1>2 DEF Honest, Judged
<1> QED BY <1>3, <1>4, <1>5 DEF Good

LEMMA EndFinished ==
    ASSUME NEW r, NEW q, Good(r), r.state \in {"running", "waiting", "asking"}, Ends(r, q)
    PROVE  q.state = "returned" /\ Finished(q)
<1>1. PICK why : /\ q = Returned(r.tool, why, r.failed, r.told, r.touched)
                 /\ \/ why \notin Refusals \cup {"ok"}
                    \/ Heads(r, {"check", "refuse"}) /\ why = "refused"
                    \/ Heads(r, {"invalid"}) /\ why = "invalid"
                    \/ r.state = "running" /\ r.todo = <<>> /\ why = "ok"
  BY DEF Ends
<1>2. /\ q.state = "returned" /\ q.tool = r.tool /\ q.why = why
      /\ q.failed = IF why = "ok" THEN r.failed ELSE {}
      /\ q.told = IF why = "ok" THEN r.told ELSE {}
      /\ q.touched = (why \in Refusals /\ r.touched)
  BY <1>1 DEF Returned
<1>3. why = "invalid" => r.tool = "cross_search"
  <2>1. why = "invalid" => Heads(r, {"invalid"})
    BY <1>1 DEF Refusals
  <2>2. Heads(r, {"invalid"}) => Head(r.todo) \in StepsOf(r.tool) /\ Head(r.todo).op = "invalid"
    BY GoodSteps DEF Heads
  <2> QED BY <2>1, <2>2 DEF StepsOf, Fits
<1>4. why \in Refusals => ~r.touched
  <2>1. why \in Refusals => Heads(r, {"check", "refuse"}) \/ Heads(r, {"invalid"})
    BY <1>1 DEF Refusals
  <2>2. Heads(r, {"check", "refuse"}) \/ Heads(r, {"invalid"})
            => r.todo # <<>> /\ CanRefuse(Head(r.todo))
    BY DEF Heads, CanRefuse
  <2> QED BY <2>1, <2>2, GoodSteps
<1>5. why = "ok" => r.state = "running" /\ r.todo = <<>>
  BY <1>1 DEF Refusals
<1>6. why = "ok" => /\ r.failed \ BestEffort(r.tool) = r.told
                    /\ r.tool = "inspect" => ~(Inspected \subseteq r.failed)
  BY <1>5 DEF Good, Honest, Judged
<1> QED BY <1>2, <1>3, <1>4, <1>6 DEF Finished

LEMMA PassGood ==
    ASSUME NEW r, NEW q, Good(r), Passes(r, q)
    PROVE  Good(q)
<1>1. /\ IsCall(q) /\ q.tool = r.tool /\ r.state = "running" /\ r.todo # <<>>
      /\ q.todo = Tail(r.todo) /\ q.state \in {"running", "waiting"}
      /\ q.failed = r.failed /\ q.told = r.told /\ r.tool \in Tools
  BY DEF Passes, Stays, Good, Typed
<1>2. Typed(q)
  BY <1>1, GoodSteps DEF Typed
<1>3. Kept(q)
  <2>1. q.found[1] \in SessionSet \/ (q.found[1] = r.found[1] /\ ~FindsSession(Head(r.todo)))
    BY DEF Passes
  <2>2. q.cache # "none" => r.cache # "none" \/ NeedsSession(Head(r.todo))
    BY DEF Passes
  <2>3. r.cache # "none" => r.found[1] \in SessionSet
    BY DEF Good, Kept
  <2>4. /\ NeedsSession(Head(r.todo)) => r.found[1] \in SessionSet
        /\ \/ r.found[1] \in SessionSet \/ FindsSession(Head(r.todo))
           \/ Rooted(Tail(r.todo))
    BY <1>1, GoodSteps
  <2> QED BY <1>1, <2>1, <2>2, <2>3, <2>4 DEF Kept
<1>4. Orderly(q)
  <2>1. q.touched => r.touched \/ Touches(Head(r.todo))
    BY DEF Passes
  <2> QED BY <1>1, <2>1, GoodSteps DEF Orderly
<1>5. Honest(q)
  BY <1>1 DEF Honest, Good
<1>6. Judged(q)
  <2>1. Head(r.todo).op = "some" => ~(Inspected \subseteq r.failed)
    BY DEF Passes
  <2> QED BY <1>1, <2>1, GoodSteps DEF Judged
<1> QED BY <1>2, <1>3, <1>4, <1>5, <1>6 DEF Good

LEMMA SearchRooted ==
    ASSUME NEW s \in Seq(StepsOf("cross_search"))
    PROVE  Rooted(s)
<1> SUFFICES ASSUME NEW k \in 1..Len(s) PROVE ~NeedsSession(s[k])
  BY DEF Rooted
<1>1. s[k] \in StepsOf("cross_search")
  BY ElementOfSeq
<1> QED BY <1>1 DEF StepsOf, Fits

LEMMA SkipGood ==
    ASSUME NEW r, NEW q, Good(r), Skips(r, q)
    PROVE  Good(q)
<1>1. /\ IsCall(q) /\ q.tool = r.tool /\ r.state = "running" /\ r.todo # <<>>
      /\ Head(r.todo).op = "attempt"
      /\ q.todo = Tail(Tail(r.todo)) /\ q.state = "running" /\ q.found[1] = r.found[1]
      /\ q.cache = r.cache /\ q.touched = r.touched /\ r.tool \in Tools
  BY DEF Skips, Stays, Good, Typed, Heads
<1>2. r.tool = "cross_search"
  <2>1. Head(r.todo) \in StepsOf(r.tool)
    BY <1>1, GoodSteps
  <2> QED BY <1>1, <2>1 DEF StepsOf, Fits
<1> DEFINE S == StepsOf(r.tool)
           s == Tail(r.todo)
<1>3. s \in Seq(S) /\ Paired(s) /\ Ordered(s) /\ (r.touched => Unrefused(s))
  BY <1>1, GoodSteps
<1>4. s # <<>>
  <2>1. r.todo \in Seq(S) /\ Paired(r.todo)
    BY DEF Good, Typed
  <2> QED BY <1>1, <2>1, TailPaired
<1> HIDE DEF S, s
<1>5. Tail(s) \in Seq(S) /\ Paired(Tail(s)) /\ Ordered(Tail(s)) /\ (r.touched => Unrefused(Tail(s)))
  BY <1>3, <1>4, TailSteps, TailPaired, TailOrdered, TailUnrefused
<1>6. q.todo = Tail(s)
  BY <1>1 DEF s
<1>7. Typed(q)
  BY <1>1, <1>5, <1>6 DEF Typed, S
<1>8. Kept(q)
  <2>1. Rooted(q.todo)
    BY <1>2, <1>5, <1>6, SearchRooted DEF S
  <2> QED BY <1>1, <2>1 DEF Kept, Good
<1>9. Orderly(q)
  BY <1>1, <1>5, <1>6 DEF Orderly
<1>10. Honest(q)
  <2>1. PICK l \in {Label[1], Label[2]} : q.failed = r.failed \cup {l} /\ q.told = r.told \cup {l}
    BY DEF Skips
  <2>2. l \notin BestEffort(r.tool)
    BY <1>2 DEF BestEffort, CrossModes, Label
  <2>3. r.told = r.failed \ BestEffort(r.tool)
    BY <1>1 DEF Good, Honest
  <2> QED BY <1>1, <2>1, <2>2, <2>3 DEF Honest
<1>11. Judged(q)
  BY <1>1, <1>2 DEF Judged
<1> QED BY <1>7, <1>8, <1>9, <1>10, <1>11 DEF Good

LEMMA SearchSound ==
    ASSUME NEW mode \in SearchModes, NEW two \in BOOLEAN,
           NEW s, s = crossSearchOne(1, mode)
                          \o (IF two THEN crossSearchOne(2, mode) ELSE <<>>)
    PROVE  Sound("cross_search", s)
<1> DEFINE tool == "cross_search"
           p == crossSearchOne(1, mode)
           q == crossSearchOne(2, mode)
<1>1. Sound(tool, p) /\ Sound(tool, q) /\ (\A k \in 1..Len(p) : ~Touches(p[k]))
  BY AddedSound
<1> HIDE DEF tool, p, q
<1>2. Sound(tool, p \o q)
  BY <1>1, SoundConcat DEF Sound
<1>3. p \o <<>> = p
  BY <1>1, ConcatEmptySeq DEF Sound
<1>4. two => s = p \o q
  BY DEF p, q
<1>5. ~two => s = p \o <<>>
  BY DEF p
<1>6. Sound(tool, s)
  BY <1>1, <1>2, <1>3, <1>4, <1>5
<1> QED BY <1>6 DEF tool

LEMMA ReuseUnrefused == Unrefused(reuseSession)
<1>1. enrichSessionResult = AskAt(1, {Part("GetSessionInfo", "silent")})
  BY DEF enrichSessionResult, Silent, Ask
<1>2. ~CanRefuse(enrichSessionResult) /\ ~CanRefuse(Step("promote1"))
  BY <1>1 DEF CanRefuse, Step, AskAt
<1> QED BY <1>2 DEF Unrefused, reuseSession

LEMMA RewriteGood ==
    ASSUME NEW r, NEW q, Good(r), Rewrites(r, q)
    PROVE  Good(q)
<1>1. /\ IsCall(q) /\ q.tool = r.tool /\ q.state = "running" /\ r.tool \in Tools
      /\ q.failed = r.failed /\ q.told = r.told /\ q.touched = r.touched /\ q.cache = r.cache
  BY DEF Rewrites, Stays, Good, Typed
<1>2. r.state = "running" /\ r.todo # <<>> /\ Head(r.todo) \in StepsOf(r.tool)
  BY GoodSteps DEF Rewrites, Heads
<1>3. Honest(q)
  BY <1>1, <1>2 DEF Good, Honest
<1>4. r.cache # "none" => r.found[1] \in SessionSet
  BY DEF Good, Kept
<1>5. CASE /\ Heads(r, {"named"}) /\ q.found[1] = r.found[1]
           /\ q.todo = <<Silent("GetFunctionName"), Step("function")>> \o Tail(r.todo)
  <2> DEFINE s == Tail(r.todo)
             a == Silent("GetFunctionName")
             b == Step("function")
             S == StepsOf(r.tool)
  <2>1. r.tool = "cross_reference"
    BY <1>2, <1>5 DEF Heads, StepsOf, Fits
  <2>2. /\ s \in Seq(S) /\ Paired(s) /\ Ordered(s) /\ (r.touched => Unrefused(s))
        /\ r.found[1] \in SessionSet \/ FindsSession(Head(r.todo)) \/ Rooted(s)
    BY <1>2, GoodSteps
  <2>3. ~FindsSession(Head(r.todo))
    BY <1>5 DEF Heads, FindsSession
  <2>4. /\ Opening(r.tool, a) /\ Working(r.tool, a)
        /\ Opening(r.tool, b) /\ Working(r.tool, b)
    <3>1. "GetFunctionName" \in RpcNames /\ "GetFunctionName" \in BestEffort("cross_reference")
      BY DEF RpcNames, BestEffort
    <3>2. Opening(r.tool, a) /\ Working(r.tool, a)
      BY <2>1, <3>1, SilentStep
    <3>3. Opening(r.tool, b) /\ Working(r.tool, b)
      BY <2>1, AddedSound DEF Opening, Working, CanRefuse, Step
    <3> QED BY <3>2, <3>3
  <2>5. q.todo = <<a, b>> \o s
    BY <1>5
  <2> HIDE DEF s, a, b, S
  <2>6. /\ q.todo \in Seq(S) /\ Paired(q.todo) /\ Ordered(q.todo)
        /\ (r.touched => Unrefused(q.todo)) /\ (Rooted(s) => Rooted(q.todo))
    BY <2>2, <2>4, <2>5, TwoMore DEF S
  <2>7. Typed(q)
    BY <1>1, <2>6 DEF Typed, S
  <2>8. Kept(q)
    BY <1>1, <1>4, <1>5, <2>2, <2>3, <2>6 DEF Kept
  <2>9. Orderly(q)
    BY <1>1, <2>6 DEF Orderly
  <2>10. Judged(q)
    BY <1>1, <2>1 DEF Judged
  <2> QED BY <1>3, <2>7, <2>8, <2>9, <2>10 DEF Good
<1>6. CASE Heads(r, {"function", "list"}) /\ q.todo = <<>> /\ q.found[1] = r.found[1]
  <2>1. r.tool \in {"cross_reference", "close_binary"}
    BY <1>2, <1>6 DEF Heads, StepsOf, Fits
  <2>2. <<>> \in Seq(StepsOf(r.tool)) /\ Len(<<>>) = 0
    OBVIOUS
  <2>3. Paired(<<>>) /\ Rooted(<<>>) /\ Ordered(<<>>) /\ Unrefused(<<>>)
    BY <2>2 DEF Paired, Rooted, Ordered, Unrefused
  <2>4. Typed(q) /\ Orderly(q) /\ Judged(q)
    BY <1>1, <1>6, <2>1, <2>2, <2>3 DEF Typed, Orderly, Judged
  <2>5. Kept(q)
    BY <1>1, <1>4, <1>6, <2>3 DEF Kept
  <2> QED BY <1>3, <2>4, <2>5 DEF Good
<1>7. CASE /\ Heads(r, {"search"}) /\ q.found[1] = r.found[1]
           /\ q.todo = crossSearchOne(1, Head(r.todo).mode)
                          \o (IF Len(r.ids) > 1 THEN crossSearchOne(2, Head(r.todo).mode)
                                                ELSE <<>>)
  <2>1. r.tool = "cross_search" /\ Head(r.todo).mode \in SearchModes /\ Head(r.todo).op = "search"
    BY <1>2, <1>7 DEF Heads, StepsOf, StepSpace, Fits
  <2>2. ~r.touched
    BY <1>2, <2>1, GoodSteps DEF CanRefuse
  <2>3. Sound(r.tool, q.todo)
    <3> DEFINE two == Len(r.ids) > 1
               mode == Head(r.todo).mode
    <3>1. two \in BOOLEAN /\ mode \in SearchModes
      BY <2>1
    <3>2. q.todo = crossSearchOne(1, mode) \o (IF two THEN crossSearchOne(2, mode) ELSE <<>>)
      BY <1>7
    <3> HIDE DEF two, mode
    <3> QED BY <2>1, <3>1, <3>2, SearchSound
  <2>4. Typed(q) /\ Orderly(q) /\ Judged(q)
    BY <1>1, <2>1, <2>2, <2>3 DEF Sound, Typed, Orderly, Judged
  <2>5. Kept(q)
    BY <1>1, <1>4, <1>7, <2>3 DEF Kept, Sound
  <2> QED BY <1>3, <2>4, <2>5 DEF Good
<1>8. CASE Heads(r, {"create"}) /\ q.todo = reuseSession /\ q.found[1] \in SessionSet
  <2>1. r.tool = "open_binary"
    BY <1>2, <1>8 DEF Heads, StepsOf, Fits
  <2>2. Sound(r.tool, q.todo) /\ Unrefused(q.todo)
    BY <1>8, <2>1, AddedSound, ReuseUnrefused
  <2>3. Typed(q) /\ Orderly(q) /\ Judged(q)
    BY <1>1, <2>1, <2>2 DEF Sound, Typed, Orderly, Judged
  <2>4. Kept(q)
    BY <1>1, <1>8 DEF Kept
  <2> QED BY <1>3, <2>3, <2>4 DEF Good
<1> QED BY <1>5, <1>6, <1>7, <1>8 DEF Rewrites

LEMMA WaitGood ==
    ASSUME NEW r, NEW q, Good(r), Waits(r, q), r.state \in {"running", "waiting", "asking"}
    PROVE  Good(q) /\ q.state \in {"running", "waiting"}
<1>1. /\ IsCall(q) /\ q.tool = r.tool /\ r.state # "asking" /\ q.state \in {"running", "waiting"}
      /\ r.tool \in Tools /\ q.todo = r.todo /\ q.failed = r.failed /\ q.told = r.told
      /\ q.touched = r.touched /\ q.found[1] = r.found[1]
      /\ (q.cache = r.cache \/ (q.cache = "stale" /\ r.cache = "held"))
  BY DEF Waits, Stays, Good, Typed
<1>2. Typed(q) /\ Orderly(q)
  BY <1>1 DEF Typed, Orderly, Good
<1>3. Kept(q)
  BY <1>1 DEF Kept, Good
<1>4. Honest(q) /\ Judged(q)
  BY <1>1 DEF Honest, Judged, Good
<1> QED BY <1>1, <1>2, <1>3, <1>4 DEF Good

LEMMA AskGood ==
    ASSUME NEW r, NEW q, Good(r), AsksOut(r, q)
    PROVE  Good(q)
<1>1. /\ IsCall(q) /\ q.tool = r.tool /\ q.state = "asking" /\ r.state = "running"
      /\ r.todo # <<>> /\ Head(r.todo).op \in {"ask", "race"}
      /\ r.tool \in Tools /\ q.todo = r.todo /\ q.failed = r.failed /\ q.told = r.told
      /\ q.asked = Head(r.todo).parts
      /\ q.found[1] = r.found[1] /\ q.cache = r.cache
  BY DEF AsksOut, Stays, Good, Typed, Heads
<1>2. Typed(q)
  BY <1>1 DEF Typed, Good
<1>3. Kept(q)
  BY <1>1 DEF Kept, Good
<1>4. Orderly(q)
  <2>1. q.touched => r.touched \/ Touches(Head(r.todo))
    BY DEF AsksOut
  <2>2. Ordered(q.todo) /\ (r.touched => Unrefused(q.todo))
    BY <1>1 DEF Good, Orderly
  <2>3. ASSUME Touches(Head(r.todo)) PROVE Unrefused(q.todo)
    <3>1. q.todo \in Seq(StepsOf(r.tool)) /\ q.todo # <<>>
      BY <1>1 DEF Good, Typed
    <3>2. Unrefused(Tail(q.todo)) /\ ~CanRefuse(Head(q.todo))
      BY <1>1, <2>2, <2>3, <3>1, TailOrdered DEF CanRefuse
    <3> SUFFICES ASSUME NEW k \in 1..Len(q.todo) PROVE ~CanRefuse(q.todo[k])
      BY DEF Unrefused
    <3>3. k = 1 \/ (k - 1 \in 1..Len(Tail(q.todo)) /\ q.todo[k] = Tail(q.todo)[k - 1])
      BY <3>1, TailSteps
    <3> QED BY <3>1, <3>2, <3>3, TailSteps DEF Unrefused
  <2> QED BY <2>1, <2>2, <2>3 DEF Orderly
<1>5. Honest(q) /\ Judged(q)
  BY <1>1 DEF Honest, Judged, Good
<1> QED BY <1>2, <1>3, <1>4, <1>5 DEF Good

LEMMA HearGood ==
    ASSUME NEW r, NEW q, Good(r), Hears(r, q)
    PROVE  Good(q) /\ q.state \in {"running", "asking"}
<1> DEFINE parts == Head(r.todo).parts
           BE == BestEffort(r.tool)
           among(on) == Rpcs({p \in parts : p.on = on}) \cap q.failed
<1>1. /\ IsCall(q) /\ q.tool = r.tool /\ r.state = "asking" /\ r.tool \in Tools
      /\ r.todo # <<>> /\ Head(r.todo).op \in {"ask", "race"} /\ q.touched = r.touched
      /\ q.found[1] = r.found[1]
      /\ (q.cache = r.cache \/ (q.cache = "stale" /\ r.cache = "held"))
  BY DEF Hears, Stays, Good, Typed
<1>2. /\ r.failed \subseteq q.failed /\ q.failed \subseteq r.failed \cup Rpcs(parts)
      /\ r.told \subseteq r.failed \ BE /\ r.failed \ BE \subseteq r.told \cup Rpcs(parts)
  BY <1>1 DEF Hears, Good, Honest
<1>3. \A p \in parts : /\ p.on \in {"must", "told", "silent"}
                       /\ p.on = "silent" => p.rpc \in BE
                       /\ p.on = "told" => p.rpc \notin BE
  <2>1. Head(r.todo) \in StepsOf(r.tool)
    BY <1>1, GoodSteps
  <2>2. parts \subseteq PartSpace
    <3>1. XRefs \subseteq PartSpace
      BY DEF XRefs, HeldPart, PartSpace, RpcNames
    <3>2. Head(r.todo).op \in {"ask", "race"} => parts \in SUBSET PartSpace \/ parts = XRefs
      BY <2>1 DEF StepsOf, StepSpace
    <3> QED BY <1>1, <3>1, <3>2
  <2> QED BY <1>1, <2>1, <2>2 DEF StepsOf, Fits, PartSpace
<1>4. CASE /\ q.state = "asking" /\ q.todo = r.todo /\ q.asked \subseteq r.asked
           /\ q.told = r.told
  <2>1. Typed(q) /\ Orderly(q)
    BY <1>1, <1>4 DEF Typed, Orderly, Good
  <2>2. Kept(q) /\ Judged(q)
    <3>1. r.tool = "inspect" => r.todo[Len(r.todo)].op = "some"
      BY <1>1 DEF Good, Judged
    <3> QED BY <1>1, <1>4, <3>1 DEF Kept, Judged, Good
  <2>3. Honest(q)
    BY <1>1, <1>2, <1>4 DEF Honest
  <2> QED BY <1>4, <2>1, <2>2, <2>3 DEF Good
<1>5. CASE /\ q.state = "running" /\ q.todo = Tail(r.todo)
           /\ among("must") = {} /\ q.told = r.told \cup among("told")
  <2>1. Typed(q)
    BY <1>1, <1>5, GoodSteps DEF Typed
  <2>2. Kept(q)
    <3>1. r.cache # "none" => r.found[1] \in SessionSet
      BY DEF Good, Kept
    <3>2. ~FindsSession(Head(r.todo))
      BY <1>1 DEF FindsSession
    <3>3. r.found[1] \in SessionSet \/ Rooted(Tail(r.todo))
      BY <1>1, <3>2, GoodSteps
    <3> QED BY <1>1, <1>5, <3>1, <3>3 DEF Kept
  <2>3. Orderly(q)
    BY <1>1, <1>5, GoodSteps DEF Orderly
  <2>4. Judged(q)
    BY <1>1, <1>5, GoodSteps DEF Judged
  <2>5. q.told = q.failed \ BE
    <3>1. ASSUME NEW x \in q.told PROVE x \in q.failed \ BE
      <4>1. CASE x \in r.told
        BY <1>2, <4>1
      <4>2. CASE x \in among("told")
        BY <1>3, <4>2 DEF Rpcs
      <4> QED BY <1>5, <3>1, <4>1, <4>2
    <3>2. ASSUME NEW x \in q.failed \ BE PROVE x \in q.told
      <4>1. x \in r.told \/ x \in Rpcs(parts)
        BY <1>2, <3>2
      <4>2. ASSUME x \in Rpcs(parts) PROVE x \in among("told")
        <5>1. PICK p \in parts : x = p.rpc
          BY <4>2 DEF Rpcs
        <5>2. p.on # "silent"
          BY <1>3, <3>2, <5>1
        <5>3. p.on # "must"
          <6>1. p.on = "must" => x \in among("must")
            BY <3>2, <5>1 DEF Rpcs
          <6> QED BY <1>5, <6>1
        <5>4. p.on = "told"
          BY <1>3, <5>2, <5>3
        <5> QED BY <3>2, <5>1, <5>4 DEF Rpcs
      <4> QED BY <1>5, <4>1, <4>2
    <3> QED BY <3>1, <3>2
  <2>6. Honest(q)
    BY <1>1, <1>5, <2>5 DEF Honest
  <2> QED BY <1>5, <2>1, <2>2, <2>3, <2>4, <2>6 DEF Good
<1> QED BY <1>4, <1>5 DEF Hears

LEMMA CallKept ==
    ASSUME NEW r, NEW q, CallOK(r), Moves(r, q)
    PROVE  CallOK(q)
<1>1. CASE q = r
  BY <1>1
<1>2. CASE Begins(r, q)
  BY <1>2, BeginGood DEF CallOK, Begins
<1>3. CASE q = Idle
  BY <1>3 DEF CallOK, Idle
<1>4. CASE r.state \in {"running", "waiting", "asking"}
  <2>1. Good(r)
    BY <1>4 DEF CallOK
  <2>2. CASE Ends(r, q)
    BY <1>4, <2>1, <2>2, EndFinished DEF CallOK
  <2>3. CASE Passes(r, q)
    BY <2>1, <2>3, PassGood DEF CallOK, Passes
  <2>4. CASE Skips(r, q)
    BY <2>1, <2>4, SkipGood DEF CallOK, Skips
  <2>5. CASE Rewrites(r, q)
    BY <2>1, <2>5, RewriteGood DEF CallOK, Rewrites
  <2>6. CASE Waits(r, q)
    BY <1>4, <2>1, <2>6, WaitGood DEF CallOK
  <2>7. CASE AsksOut(r, q)
    BY <2>1, <2>7, AskGood DEF CallOK, AsksOut
  <2>8. CASE Hears(r, q)
    BY <2>1, <2>8, HearGood DEF CallOK
  <2> QED BY <1>4, <2>2, <2>3, <2>4, <2>5, <2>6, <2>7, <2>8, <1>1, <1>2, <1>3 DEF Moves, Idle
<1> QED BY <1>1, <1>2, <1>3, <1>4 DEF Moves

CallInv ==
    /\ DOMAIN call = Callers /\ registry \subseteq SessionSet
    /\ \A c \in Callers : CallOK(call[c])

LEMMA CallInvTyped == CallInv => CallsInv
  BY DEF CallInv, CallsInv, CallOK, Good, Busy

LEMMA CallInvInit == Init => CallInv
<1> SUFFICES ASSUME Init PROVE CallInv
  OBVIOUS
<1>1. DOMAIN call = Callers /\ (\A c \in Callers : call[c] = Idle) /\ registry = {}
  BY DEF Init
<1>2. CallOK(Idle)
  BY DEF CallOK, Idle
<1> QED BY <1>1, <1>2 DEF CallInv

(* The four steps that change which sessions there are, and who has a       *)
(* worker; but for these, only workers die.                                 *)
Quiet == registry' = registry /\ opened' = opened /\ workers' \subseteq workers

LEMMA QuietStep ==
    ASSUME [Next]_vars
    PROVE  (\E c \in Callers : Creates(c) \/ Starts(c) \/ Stops(c) \/ Deletes(c)) \/ Quiet
<1>1. ASSUME NEW c \in Callers, Works(c)
      PROVE  Creates(c) \/ Starts(c) \/ Stops(c) \/ Deletes(c) \/ Quiet
  <2>1. CASE \/ Checks(c) \/ Refuses(c) \/ Resolves(c) \/ Asks(c) \/ Judges(c) \/ Names(c)
             \/ Searches(c) \/ LeavesCache(c) \/ Lists(c)
    BY <2>1 DEF Checks, Refuses, Resolves, Asks, Judges, Names, Searches, LeavesCache, Lists,
                Untouched, sessionVars, Quiet
  <2>2. CASE \/ getSessionCache(c) \/ Visits(c) \/ Notes(c) \/ Clears(c) \/ Promotes(c)
             \/ addToolWithCache(c) \/ PromotesToRead(c) \/ Demotes(c)
    BY <2>2 DEF getSessionCache, Visits, Notes, Writes, Clears, Promotes, addToolWithCache,
                PromotesToRead, Demotes, sessionVars, Quiet
  <2>3. CASE Uncaches(c) \/ Analyzes(c)
    BY <2>3 DEF Uncaches, Analyzes, Quiet
  <2> QED BY <1>1, <2>1, <2>2, <2>3 DEF Works
<1>2. ASSUME NEW c \in Callers,
             Begin(c) \/ Deliver(c) \/ waitForReady(c) \/ GivesUp(c) \/ Answers(c)
      PROVE  Quiet
  BY <1>2 DEF Begin, Deliver, waitForReady, GivesUp, Answers, Untouched, sessionVars, Quiet
<1>3. ASSUME NEW s \in SessionSet, Warms(s) \/ WarmsCache(s) \/ JobEnds(s) \/ WorkerDies(s)
      PROVE  Quiet
  BY <1>3 DEF Warms, WarmsCache, JobEnds, WorkerDies, Quiet
<1>4. CASE OrphanEnds \/ Read \/ UNCHANGED vars
  BY <1>4 DEF OrphanEnds, Read, sessionVars, vars, Quiet
<1> QED BY <1>1, <1>2, <1>3, <1>4 DEF Next

LEMMA RegistryStep ==
    ASSUME registry \subseteq SessionSet, [Next]_vars
    PROVE  registry' \subseteq SessionSet
<1>1. ASSUME NEW c \in Callers, Creates(c) \/ Starts(c) \/ Stops(c) \/ Deletes(c)
      PROVE  registry' \subseteq SessionSet
  BY <1>1 DEF Creates, Starts, Stops, Deletes
<1> QED BY <1>1, QuietStep DEF Quiet

LEMMA CallInvStep == CallInv /\ [Next]_vars => CallInv'
<1> SUFFICES ASSUME CallInv, [Next]_vars PROVE CallInv'
  OBVIOUS
<1>1. DOMAIN call' = Callers /\ \A c \in Callers : Moves(call[c], call'[c])
  BY CallInvTyped, NextMoves
<1>2. ASSUME NEW c \in Callers PROVE CallOK(call'[c])
  BY <1>1, CallKept DEF CallInv
<1>3. registry' \subseteq SessionSet
  BY RegistryStep DEF CallInv
<1> QED BY <1>1, <1>2, <1>3 DEF CallInv

(* A choice the schema lets through is one its handler knows, whatever the  *)
(* sessions, the callers and the faults: output_cache.go:201-206.           *)
THEOREM SchemaGuarded == Spec => []SchemaGuards
<1>1. CallInv => SchemaGuards
  BY DEF CallInv, CallOK, Finished, SchemaGuards
<1> QED BY <1>1, CallInvInit, CallInvStep, PTL DEF Spec

(* No handler tests an argument after it has changed something, on any path *)
(* through its script: dispatch.go, composite.go, write.go.                 *)
THEOREM RefusalsTouchNothing == Spec => []RefusedUntouched
<1>1. CallInv => RefusedUntouched
  BY DEF CallInv, CallOK, Finished, RefusedUntouched
<1> QED BY <1>1, CallInvInit, CallInvStep, PTL DEF Spec

(* A reply names exactly the failures of the calls to the worker that are   *)
(* not best effort, and inspect never succeeds with nothing:                *)
(* composite.go:20-193 and 307-340, dispatch.go:200-254.                    *)
THEOREM RepliesTellFailures == Spec => []FailuresTold
<1>1. CallInv => FailuresTold
  BY DEF CallInv, CallOK, Finished, FailuresTold
<1> QED BY <1>1, CallInvInit, CallInvStep, PTL DEF Spec

-----------------------------------------------------------------------------
(* Calls to the worker that are left running.                               *)
LEMMA OrphansStep ==
    ASSUME CallInv, NoOrphans, [Next]_vars
    PROVE  NoOrphans'
<1>1. ASSUME NEW c \in Callers, Answers(c)
      PROVE  NoOrphans'
  <2>1. PICK p \in call[c].asked, ok \in BOOLEAN :
            LET left     == call[c].asked \ {p}
                failures == IF ok THEN {} ELSE {p.rpc}
            IN  IF Now(c).op = "race" THEN firstFailureReturns(c, left, failures)
                                      ELSE runLabeled(c, left, failures)
    BY <1>1 DEF Answers
  <2> DEFINE left == call[c].asked \ {p}
  <2>2. orphans' = orphans \/ (Now(c).op = "race" /\ orphans' = orphans \cup Rpcs(left))
    BY <2>1 DEF firstFailureReturns, runLabeled
  <2>3. ASSUME Now(c).op = "race" PROVE left \subseteq XRefs
    <3>1. Good(call[c]) /\ call[c].state = "asking"
      BY <1>1 DEF Answers, CallInv, CallOK
    <3>2. call[c].todo # <<>> /\ call[c].asked \subseteq Head(call[c].todo).parts
      BY <3>1 DEF Good, Typed
    <3>3. Head(call[c].todo) \in StepsOf(call[c].tool) /\ Head(call[c].todo).op = "race"
      BY <2>3, <3>1, <3>2, GoodSteps DEF Now
    <3>4. Head(call[c].todo).parts = XRefs
      BY <3>3 DEF StepsOf, StepSpace
    <3> QED BY <3>2, <3>4
  <2>4. Now(c).op = "race" => Rpcs(left) \subseteq Rpcs(XRefs)
    BY <2>3 DEF Rpcs
  <2> QED BY <2>2, <2>4 DEF NoOrphans
<1>2. ASSUME NEW c \in Callers, Works(c)
      PROVE  orphans' = orphans
  <2>1. CASE \/ Checks(c) \/ Refuses(c) \/ Resolves(c) \/ Asks(c) \/ Judges(c) \/ Names(c)
             \/ Searches(c) \/ LeavesCache(c) \/ Lists(c)
    BY <2>1 DEF Checks, Refuses, Resolves, Asks, Judges, Names, Searches, LeavesCache, Lists,
                Untouched
  <2>2. CASE \/ getSessionCache(c) \/ Visits(c) \/ Notes(c) \/ Clears(c) \/ Promotes(c)
             \/ addToolWithCache(c) \/ PromotesToRead(c) \/ Demotes(c)
    BY <2>2 DEF getSessionCache, Visits, Notes, Writes, Clears, Promotes, addToolWithCache,
                PromotesToRead, Demotes
  <2>3. CASE Creates(c) \/ Starts(c) \/ Stops(c) \/ Deletes(c) \/ Uncaches(c) \/ Analyzes(c)
    BY <2>3 DEF Creates, Starts, Stops, Deletes, Uncaches, Analyzes
  <2> QED BY <1>2, <2>1, <2>2, <2>3 DEF Works
<1>3. ASSUME NEW c \in Callers, Begin(c) \/ Deliver(c) \/ waitForReady(c) \/ GivesUp(c)
      PROVE  orphans' = orphans
  BY <1>3 DEF Begin, Deliver, waitForReady, GivesUp, Untouched
<1>4. ASSUME NEW s \in SessionSet, Warms(s) \/ WarmsCache(s) \/ JobEnds(s) \/ WorkerDies(s)
      PROVE  orphans' = orphans
  BY <1>4 DEF Warms, WarmsCache, JobEnds, WorkerDies
<1>5. CASE OrphanEnds
  BY <1>5 DEF OrphanEnds, NoOrphans
<1>6. CASE Read \/ UNCHANGED vars
  BY <1>6 DEF Read, vars, NoOrphans
<1> QED BY <1>1, <1>2, <1>3, <1>4, <1>5, <1>6 DEF Next, NoOrphans

(* A handler that returns leaves no call to the worker running, apart from  *)
(* the other direction of get_references: read.go:331-335.                  *)
THEOREM OrphansAreXRefs == Spec => []NoOrphans
<1>1. Init => CallInv /\ NoOrphans
  BY CallInvInit DEF Init, NoOrphans
<1>2. CallInv /\ NoOrphans /\ [Next]_vars => (CallInv /\ NoOrphans)'
  BY CallInvStep, OrphansStep
<1> QED BY <1>1, <1>2, PTL DEF Spec

-----------------------------------------------------------------------------
(* The notes of the sessions.                                               *)
NoteInv == DOMAIN notes = SessionSet /\ kept \subseteq SessionSet /\ NotesKept

LEMMA Dropped ==
    ASSUME NoteInv, NEW s, deleteSessionCache(s)
    PROVE  NoteInv'
  BY DEF NoteInv, NotesKept, deleteSessionCache

(* A call that holds a cache, or is about to, has found a session.          *)
LEMMA NoteStep ==
    ASSUME CallInv, NoteInv, [Next]_vars
    PROVE  NoteInv'
<1>0. ASSUME UNCHANGED <<notes, kept>> PROVE NoteInv'
  BY <1>0 DEF NoteInv, NotesKept
<1>1. ASSUME NEW c \in Callers, getSessionCache(c)
      PROVE  NoteInv'
  BY <1>1 DEF getSessionCache, NoteInv, NotesKept
<1>2. ASSUME NEW c \in Callers, Visits(c)
      PROVE  NoteInv'
  <2> DEFINE s == Session(c)
  <2>1. kept' = kept /\ (notes' = notes \/ notes' = [notes EXCEPT ![s] = markVisited(notes[s])])
    BY <1>2 DEF Visits, Writes
  <2>2. markVisited("noted") = "noted"
    BY DEF markVisited
  <2> HIDE DEF s
  <2>3. DOMAIN notes' = SessionSet /\ \A t \in SessionSet : notes[t] = "noted" => notes'[t] = "noted"
    BY <2>1, <2>2 DEF NoteInv
  <2> QED BY <2>1, <2>3 DEF NoteInv, NotesKept
<1>3. ASSUME NEW c \in Callers, Notes(c)
      PROVE  NoteInv'
  <2>1. CASE call[c].cache # "held"
    BY <1>0, <1>3, <2>1 DEF Notes, Writes
  <2>2. CASE call[c].cache = "held"
    <3>1. Runs(c, "note") /\ Good(call[c])
      BY <1>3 DEF Notes, Runs, CallInv, CallOK
    <3>2. Session(c) \in SessionSet
      BY <2>2, <3>1 DEF Good, Kept, Session
    <3>3. /\ notes' = [notes EXCEPT ![Session(c)] = setNote(Now(c).note)]
          /\ kept' = IF Now(c).note THEN kept \cup {Session(c)} ELSE kept \ {Session(c)}
      BY <1>3, <2>2 DEF Notes, Writes
    <3> QED BY <3>2, <3>3 DEF NoteInv, NotesKept, setNote
  <2> QED BY <2>1, <2>2
<1>4. ASSUME NEW c \in Callers, Starts(c) \/ Uncaches(c)
      PROVE  NoteInv'
  BY <1>0, <1>4, Dropped DEF Starts, Uncaches
<1>5. ASSUME NEW s \in SessionSet, JobEnds(s)
      PROVE  NoteInv'
  <2>1. UNCHANGED <<notes, kept>> \/ deleteSessionCache(s)
    BY <1>5 DEF JobEnds
  <2> QED BY <1>0, <2>1, Dropped
<1>6. ASSUME NEW c \in Callers, Works(c)
      PROVE  NoteInv'
  <2>1. CASE \/ Checks(c) \/ Refuses(c) \/ Resolves(c) \/ Asks(c) \/ Judges(c) \/ Names(c)
             \/ Searches(c) \/ LeavesCache(c) \/ Lists(c)
    BY <1>0, <2>1 DEF Checks, Refuses, Resolves, Asks, Judges, Names, Searches, LeavesCache, Lists,
                Untouched, noteVars
  <2>2. CASE \/ Clears(c) \/ Promotes(c) \/ addToolWithCache(c) \/ PromotesToRead(c)
             \/ Demotes(c) \/ Creates(c) \/ Stops(c) \/ Deletes(c) \/ Analyzes(c)
    BY <1>0, <2>2 DEF Clears, Promotes, addToolWithCache, PromotesToRead, Demotes, Creates,
                Stops, Deletes, Analyzes, noteVars
  <2> QED BY <1>1, <1>2, <1>3, <1>4, <1>6, <2>1, <2>2 DEF Works
<1>7. ASSUME NEW c \in Callers,
             Begin(c) \/ Deliver(c) \/ waitForReady(c) \/ GivesUp(c) \/ Answers(c)
      PROVE  NoteInv'
  BY <1>0, <1>7 DEF Begin, Deliver, waitForReady, GivesUp, Answers, Untouched, noteVars
<1>8. ASSUME NEW s \in SessionSet, Warms(s) \/ WorkerDies(s)
      PROVE  NoteInv'
  BY <1>0, <1>8 DEF Warms, WorkerDies, noteVars
<1>10. ASSUME NEW s \in SessionSet, WarmsCache(s)
       PROVE  NoteInv'
  BY <1>10 DEF WarmsCache, NoteInv, NotesKept
<1>9. CASE OrphanEnds \/ Read \/ UNCHANGED vars
  BY <1>0, <1>9 DEF OrphanEnds, Read, vars, noteVars
<1> QED BY <1>5, <1>6, <1>7, <1>8, <1>9, <1>10 DEF Next

(* An accepted note is there until the cache of its session is dropped, and *)
(* the write of a note goes to the session the call has found:              *)
(* cache.go:401-422.                                                        *)
THEOREM NotesStay == Spec => []NotesKept
<1>1. Init => CallInv /\ NoteInv
  BY CallInvInit DEF Init, NoteInv, NotesKept
<1>2. CallInv /\ NoteInv /\ [Next]_vars => (CallInv /\ NoteInv)'
  BY CallInvStep, NoteStep
<1>3. NoteInv => NotesKept
  BY DEF NoteInv
<1> QED BY <1>1, <1>2, <1>3, PTL DEF Spec

-----------------------------------------------------------------------------

(* What is left of the scripts of open_binary and close_binary at any time. *)
Rests(tool) ==
    IF tool = "open_binary"
    THEN {openBinary,
          <<Step("create"), Step("start"), Step("promote1"), enrichSessionResult>>,
          <<Step("start"), Step("promote1"), enrichSessionResult>>,
          <<Step("promote1"), enrichSessionResult>>, <<enrichSessionResult>>, <<>>,
          reuseSession, <<Step("promote1")>>}
    ELSE {closeBinary,
          <<Step("stop"), Step("delete"), Step("uncache"), Step("list"), Step("demote")>>,
          <<Step("delete"), Step("uncache"), Step("list"), Step("demote")>>,
          <<Step("uncache"), Step("list"), Step("demote")>>, <<Step("list"), Step("demote")>>,
          <<Step("demote")>>, <<>>}

Shaped(r) ==
    r.tool \in {"open_binary", "close_binary"} => r.todo \in Rests(r.tool) /\ r.state # "waiting"

(* The sessions, and the calls that have found them.                        *)
SessionInv ==
    /\ CallInv
    /\ registry \subseteq opened /\ opened \subseteq SessionSet /\ workers \subseteq opened
    /\ \A c \in Callers : Busy(c) =>
          /\ Shaped(call[c]) /\ call[c].tool \in ToolsOf[c]
          /\ \A i \in {1, 2} : call[c].found[i] \in opened \cup {None}

LEMMA Tails ==
    ASSUME NEW a, NEW b, NEW c, NEW d, NEW e, NEW f
    PROVE  /\ Tail(<<a, b, c, d, e, f>>) = <<b, c, d, e, f>>
           /\ Tail(<<a, b, c, d, e>>) = <<b, c, d, e>>
           /\ Tail(<<a, b, c, d>>) = <<b, c, d>> /\ Tail(<<a, b, c>>) = <<b, c>>
           /\ Tail(<<a, b>>) = <<b>> /\ Tail(<<a>>) = <<>>
<1>0. Tail(<<a, b, c, d, e, f>>) = <<b, c, d, e, f>>
  OBVIOUS
<1>1. Tail(<<a, b, c, d, e>>) = <<b, c, d, e>>
  OBVIOUS
<1>2. Tail(<<a, b, c, d>>) = <<b, c, d>>
  OBVIOUS
<1>3. Tail(<<a, b, c>>) = <<b, c>> /\ Tail(<<a, b>>) = <<b>> /\ Tail(<<a>>) = <<>>
  OBVIOUS
<1> QED BY <1>0, <1>1, <1>2, <1>3

LEMMA RestsOpen ==
    Rests("open_binary") =
         {openBinary,
          <<Step("create"), Step("start"), Step("promote1"), enrichSessionResult>>,
          <<Step("start"), Step("promote1"), enrichSessionResult>>,
          <<Step("promote1"), enrichSessionResult>>, <<enrichSessionResult>>, <<>>,
          reuseSession, <<Step("promote1")>>}
  BY DEF Rests

LEMMA RestsClose ==
    Rests("close_binary") =
         {closeBinary,
          <<Step("stop"), Step("delete"), Step("uncache"), Step("list"), Step("demote")>>,
          <<Step("delete"), Step("uncache"), Step("list"), Step("demote")>>,
          <<Step("uncache"), Step("list"), Step("demote")>>, <<Step("list"), Step("demote")>>,
          <<Step("demote")>>, <<>>}
  BY DEF Rests

LEMMA OpenTail ==
    ASSUME NEW s \in Rests("open_binary"), s # <<>>
    PROVE  /\ Tail(s) \in Rests("open_binary")
           /\ Head(s) \in {Check("path"), Step("create"), Step("start"), Step("promote1"),
                           enrichSessionResult}
<1>1. CASE s = openBinary
  BY <1>1, Tails, RestsOpen DEF openBinary
<1>2. CASE s = reuseSession
  BY <1>2, Tails, RestsOpen DEF reuseSession
<1>3. CASE s = <<Step("create"), Step("start"), Step("promote1"), enrichSessionResult>>
  BY <1>3, Tails, RestsOpen
<1>4. CASE s = <<Step("start"), Step("promote1"), enrichSessionResult>>
  BY <1>4, Tails, RestsOpen
<1>5. CASE s = <<Step("promote1"), enrichSessionResult>>
  BY <1>5, Tails, RestsOpen
<1>6. CASE s = <<enrichSessionResult>>
  BY <1>6, Tails, RestsOpen
<1>7. CASE s = <<Step("promote1")>>
  BY <1>7, Tails, RestsOpen
<1> QED BY <1>1, <1>2, <1>3, <1>4, <1>5, <1>6, <1>7, RestsOpen

LEMMA CloseTail ==
    ASSUME NEW s \in Rests("close_binary"), s # <<>>
    PROVE  /\ Tail(s) \in Rests("close_binary")
           /\ Head(s) \in {Resolve("session"), Step("stop"), Step("delete"), Step("uncache"),
                           Step("list"), Step("demote")}
<1>1. CASE s = closeBinary
  BY <1>1, Tails, RestsClose DEF closeBinary
<1>2. CASE s = <<Step("stop"), Step("delete"), Step("uncache"), Step("list"), Step("demote")>>
  BY <1>2, Tails, RestsClose
<1>3. CASE s = <<Step("delete"), Step("uncache"), Step("list"), Step("demote")>>
  BY <1>3, Tails, RestsClose
<1>4. CASE s = <<Step("uncache"), Step("list"), Step("demote")>>
  BY <1>4, Tails, RestsClose
<1>5. CASE s = <<Step("list"), Step("demote")>>
  BY <1>5, Tails, RestsClose
<1>6. CASE s = <<Step("demote")>>
  BY <1>6, Tails, RestsClose
<1> QED BY <1>1, <1>2, <1>3, <1>4, <1>5, <1>6, RestsClose

LEMMA RestTail ==
    ASSUME NEW tool, tool = "open_binary" \/ tool = "close_binary", NEW s \in Rests(tool), s # <<>>
    PROVE  /\ Tail(s) \in Rests(tool)
           /\ Head(s).op \notin {"attempt", "named", "function", "search"}
           /\ Head(s).op = "resolve" => Head(s).how # "wait"
<1>1. enrichSessionResult.op = "ask"
  BY DEF enrichSessionResult, Silent, Ask, AskAt
<1>2. CASE tool = "open_binary"
  <2>1. Head(s).op \in {"check", "create", "start", "promote1", "ask"}
    BY <1>1, <1>2, OpenTail DEF Check, Step
  <2> QED BY <1>2, <2>1, OpenTail
<1>3. CASE tool = "close_binary"
  <2>1. Head(s).op \in {"stop", "delete", "uncache", "list", "demote"} \/ Head(s) = Resolve("session")
    BY <1>3, CloseTail DEF Step
  <2>2. Resolve("session").op = "resolve" /\ Resolve("session").how = "session"
    BY DEF Resolve
  <2> QED BY <1>3, <2>1, <2>2, CloseTail
<1> QED BY <1>2, <1>3

LEMMA BusyMoves ==
    ASSUME NEW r, NEW q, Moves(r, q), q.state \in {"running", "waiting", "asking"}
    PROVE  \/ q = r \/ Begins(r, q)
           \/ /\ Stays(r, q) /\ r.state \in {"running", "waiting", "asking"}
              /\ Passes(r, q) \/ Skips(r, q) \/ Rewrites(r, q) \/ Waits(r, q) \/ AsksOut(r, q) \/ Hears(r, q)
<1>1. Idle.state = "idle"
  BY DEF Idle
<1>2. Ends(r, q) => q.state = "returned"
  BY DEF Ends, Returned
<1> QED BY <1>1, <1>2 DEF Moves, Passes, Skips, Rewrites, Waits, AsksOut, Hears

LEMMA ShapeKept ==
    ASSUME NEW r, NEW q, CallOK(r), Moves(r, q), q.state \in {"running", "waiting", "asking"},
           r.state \in {"running", "waiting", "asking"} => Shaped(r)
    PROVE  Shaped(q)
<1>1. CASE q = r
  BY <1>1
<1>2. CASE Begins(r, q)
  <2>1. q.tool \in Tools /\ q.todo \in ScriptsOf[q.tool] /\ q.state = "running"
    BY <1>2 DEF Begins
  <2>2. /\ q.tool = "open_binary" => q.todo = openBinary
        /\ q.tool = "close_binary" => q.todo = closeBinary
    BY <2>1, ScriptsSound
  <2> QED BY <2>1, <2>2 DEF Shaped, Rests
<1>3. CASE /\ Stays(r, q) /\ r.state \in {"running", "waiting", "asking"}
           /\ \/ Passes(r, q) \/ Skips(r, q) \/ Rewrites(r, q) \/ Waits(r, q)
              \/ AsksOut(r, q) \/ Hears(r, q)
  <2> SUFFICES ASSUME r.tool \in {"open_binary", "close_binary"}
               PROVE  q.todo \in Rests(r.tool) /\ q.state # "waiting"
    BY <1>3 DEF Shaped, Stays
  <2>0. r.todo \in Rests(r.tool) /\ r.state # "waiting" /\ Good(r)
    BY <1>3 DEF Shaped, CallOK
  <2>1. r.todo # <<>> => /\ Tail(r.todo) \in Rests(r.tool)
                         /\ Head(r.todo).op \notin {"attempt", "named", "function", "search"}
                         /\ Head(r.todo).op = "resolve" => Head(r.todo).how # "wait"
    BY <2>0, RestTail
  <2>2. CASE Passes(r, q)
    BY <2>1, <2>2 DEF Passes
  <2>3. CASE Skips(r, q)
    BY <2>1, <2>3 DEF Skips, Heads
  <2>4. CASE Rewrites(r, q)
    <3>1. /\ q.state = "running"
          /\ \/ Heads(r, {"create"}) /\ q.todo = reuseSession
             \/ Heads(r, {"list"}) /\ q.todo = <<>>
      BY <2>1, <2>4 DEF Rewrites, Heads
    <3>2. Head(r.todo) \in StepsOf(r.tool)
      BY <2>0, <3>1, GoodSteps DEF Heads
    <3>3. /\ Head(r.todo).op = "create" => r.tool = "open_binary"
          /\ Head(r.todo).op = "list" => r.tool = "close_binary"
      BY <3>2 DEF StepsOf, Fits
    <3> QED BY <3>1, <3>3 DEF Rests, Heads
  <2>5. CASE Waits(r, q)
    BY <2>0, <2>5 DEF Waits
  <2>6. CASE AsksOut(r, q)
    BY <2>0, <2>6 DEF AsksOut
  <2>7. CASE Hears(r, q)
    <3>1. r.todo # <<>>
      BY <2>0, <2>7 DEF Hears, Good, Typed
    <3> QED BY <2>0, <2>1, <2>7, <3>1 DEF Hears
  <2> QED BY <1>3, <2>2, <2>3, <2>4, <2>5, <2>6, <2>7
<1> QED BY <1>1, <1>2, <1>3, BusyMoves

LEMMA WorksRunning ==
    ASSUME NEW c \in Callers, Works(c)
    PROVE  call[c].state = "running"
<1>1. CASE \/ Checks(c) \/ Refuses(c) \/ Resolves(c) \/ Asks(c) \/ Judges(c) \/ Names(c)
           \/ Searches(c) \/ getSessionCache(c) \/ LeavesCache(c) \/ Visits(c) \/ Notes(c)
  BY <1>1 DEF Checks, Refuses, Resolves, Asks, Judges, Names, Searches, getSessionCache,
              LeavesCache, Visits, Notes, Runs
<1>2. CASE \/ Clears(c) \/ Promotes(c) \/ addToolWithCache(c)
           \/ Creates(c) \/ Starts(c) \/ PromotesToRead(c) \/ Stops(c) \/ Deletes(c)
           \/ Uncaches(c) \/ Lists(c) \/ Demotes(c) \/ Analyzes(c)
  BY <1>2 DEF Clears, Promotes, addToolWithCache, Creates, Starts, PromotesToRead, Stops,
              Deletes, Uncaches, Lists, Demotes, Analyzes, Runs
<1> QED BY <1>1, <1>2 DEF Works

LEMMA BeginsOnly ==
    ASSUME CallsInv, [Next]_vars, NEW c \in Callers, Begins(call[c], call'[c])
    PROVE  Begin(c)
<1>1. /\ call[c] = Idle /\ call[c].state = "idle" /\ call'[c].state = "running"
      /\ call'[c] # call[c]
  BY DEF Begins, Idle
<1>2. CASE Acts(c)
  <2>1. ~Works(c) /\ ~waitForReady(c) /\ ~GivesUp(c) /\ ~Answers(c) /\ ~Deliver(c)
    BY <1>1, WorksRunning DEF waitForReady, GivesUp, Answers, Deliver
  <2> QED BY <1>2, <2>1 DEF Acts
<1>3. ASSUME NEW d \in Callers \ {c}, Acts(d)
      PROVE  FALSE
  <2>1. Steady(call[c], call'[c])
    BY <1>3, ActsMoves DEF MoveOf
  <2> QED BY <1>1, <2>1, SteadyMoves
<1>4. CASE ~\E d \in Callers : Acts(d)
  <2>1. Steady(call[c], call'[c])
    BY <1>4, OthersSteady DEF Next, Acts
  <2> QED BY <1>1, <2>1, SteadyMoves
<1> QED BY <1>2, <1>3, <1>4

LEMMA SessionInvInit == Init => SessionInv
<1> SUFFICES ASSUME Init PROVE SessionInv
  OBVIOUS
<1>1. \A c \in Callers : ~Busy(c)
  BY DEF Init, Busy, Idle
<1> QED BY <1>1, CallInvInit DEF Init, SessionInv

(* The session of a step that needs one has been opened.                    *)
LEMMA NeedsOpened ==
    ASSUME SessionInv, NEW c \in Callers, NEW op, Runs(c, op), NeedsSession(Now(c))
    PROVE  Session(c) \in opened
<1>1. Busy(c) /\ Good(call[c]) /\ call[c].todo # <<>>
  BY DEF Runs, Busy, SessionInv, CallInv, CallOK
<1>2. call[c].found[1] \in SessionSet
  BY <1>1, GoodSteps DEF Now
<1>3. None \notin SessionSet
  BY CallsAssumption DEF SessionSet
<1> QED BY <1>1, <1>2, <1>3 DEF SessionInv, Session

LEMMA SessionsKept ==
    ASSUME SessionInv, [Next]_vars
    PROVE  /\ registry' \subseteq opened' /\ opened' \subseteq SessionSet /\ workers' \subseteq opened'
           /\ opened \subseteq opened'
<1>0. registry \subseteq opened /\ opened \subseteq SessionSet /\ workers \subseteq opened
  BY DEF SessionInv
<1>1. ASSUME NEW c \in Callers, Creates(c) \/ Stops(c) \/ Deletes(c)
      PROVE  /\ registry' \subseteq opened' /\ opened' \subseteq SessionSet
             /\ workers' \subseteq opened' /\ opened \subseteq opened'
  BY <1>0, <1>1 DEF Creates, Stops, Deletes
<1>2. ASSUME NEW c \in Callers, Starts(c)
      PROVE  /\ registry' \subseteq opened' /\ opened' \subseteq SessionSet
             /\ workers' \subseteq opened' /\ opened \subseteq opened'
  <2>1. Runs(c, "start") /\ NeedsSession(Now(c))
    BY <1>2 DEF Starts, Runs, NeedsSession
  <2>2. Session(c) \in opened
    BY <2>1, NeedsOpened
  <2> QED BY <1>0, <1>2, <2>2 DEF Starts
<1> QED BY <1>0, <1>1, <1>2, QuietStep DEF Quiet

LEMMA SessionInvStep == SessionInv /\ [Next]_vars => SessionInv'
<1> SUFFICES ASSUME SessionInv, [Next]_vars PROVE SessionInv'
  OBVIOUS
<1>1. CallInv'
  BY CallInvStep DEF SessionInv
<1>2. /\ registry \subseteq opened /\ registry' \subseteq opened' /\ opened' \subseteq SessionSet
      /\ workers' \subseteq opened' /\ opened \subseteq opened'
  BY SessionsKept DEF SessionInv
<1>3. ASSUME NEW c \in Callers, Busy(c)'
      PROVE  /\ Shaped(call'[c]) /\ call'[c].tool \in ToolsOf[c]
             /\ \A i \in {1, 2} : call'[c].found[i] \in opened' \cup {None}
  <2> DEFINE r == call[c]
             q == call'[c]
  <2>1. Moves(r, q) /\ CallOK(r) /\ CallOK(q)
    BY <1>1, CallInvTyped, NextMoves DEF SessionInv, CallInv
  <2>2. q.state \in {"running", "waiting", "asking"}
    BY <1>3, <2>1 DEF CallOK, Busy
  <2>3. r.state \in {"running", "waiting", "asking"} => Busy(c)
    BY DEF Busy
  <2>4. r.state \in {"running", "waiting", "asking"} =>
            /\ Shaped(r) /\ r.tool \in ToolsOf[c]
            /\ \A i \in {1, 2} : r.found[i] \in opened \cup {None}
    BY <2>3 DEF SessionInv
  <2>5. Begins(r, q) => /\ q.tool \in ToolsOf[c]
                        /\ \A i \in {1, 2} : q.found[i] = None
    <3>1. ASSUME Begins(r, q) PROVE q.tool \in ToolsOf[c]
      <4>1. Begin(c) /\ DOMAIN call = Callers
        BY <3>1, BeginsOnly, CallInvTyped DEF SessionInv, CallInv
      <4>2. PICK tool \in ToolsOf[c] : \E script, ids :
               call' = [call EXCEPT ![c] =
                   [state |-> "running", tool |-> tool, todo |-> script, ids |-> ids,
                    passed |-> {}, token |-> BOOLEAN, found |-> <<None, None>>,
                    awaits |-> None, cache |-> "none", asked |-> {}, failed |-> {},
                    told |-> {}, touched |-> FALSE]]
        BY <4>1 DEF Begin
      <4>3. PICK script, ids :
               call' = [call EXCEPT ![c] =
                   [state |-> "running", tool |-> tool, todo |-> script, ids |-> ids,
                    passed |-> {}, token |-> BOOLEAN, found |-> <<None, None>>,
                    awaits |-> None, cache |-> "none", asked |-> {}, failed |-> {},
                    told |-> {}, touched |-> FALSE]]
        BY <4>2
      <4>4. call'[c].tool = tool
        BY <4>1, <4>3
      <4>5. call'[c].tool \in ToolsOf[c]
        BY <4>2, <4>4
      <4> QED BY <4>5
    <3>2. ASSUME q.found = <<None, None>>, NEW i \in {1, 2} PROVE q.found[i] = None
      <4>1. <<None, None>>[1] = None /\ <<None, None>>[2] = None
        OBVIOUS
      <4> QED BY <3>2, <4>1
    <3>3. Begins(r, q) => q.found = <<None, None>>
      BY DEF Begins
    <3> HIDE DEF r, q
    <3> QED BY <3>1, <3>2, <3>3
  <2> HIDE DEF r, q
  <2>6. Shaped(q)
    BY <2>1, <2>2, <2>4, ShapeKept
  <2>7. q.tool \in ToolsOf[c] /\ \A i \in {1, 2} : q.found[i] \in opened' \cup {None}
    <3>1. CASE q = r
      BY <1>2, <2>2, <2>4, <3>1
    <3>2. CASE Begins(r, q)
      BY <2>5, <3>2
    <3>3. CASE Stays(r, q) /\ r.state \in {"running", "waiting", "asking"}
      BY <1>2, <2>4, <3>3 DEF Stays, Finds
    <3> QED BY <2>1, <2>2, <3>1, <3>2, <3>3, BusyMoves
  <2> QED BY <2>6, <2>7 DEF r, q
<1> QED BY <1>1, <1>2, <1>3 DEF SessionInv

-----------------------------------------------------------------------------
(* The caches of the closed sessions.  Between the steps that delete a      *)
(* session and drop its cache, close_binary has its cache to drop; after    *)
(* that no call has it any more, nobody can find it, and no load warms it.  *)
Dropping(c, s) ==
    /\ Busy(c) /\ call[c].tool = "close_binary" /\ Session(c) = s
    /\ call[c].todo = <<Step("uncache"), Step("list"), Step("demote")>>

Left(r) ==
    /\ r.tool = "close_binary"
    /\ r.todo \in {<<Step("list"), Step("demote")>>, <<Step("demote")>>, <<>>}

(* No load is about to make the cache, or can get a client to do it by.     *)
NoWarming(s) == "warm" \notin jobs[s] /\ ("load" \in jobs[s] => s \notin workers)

Forgotten(s) ==
    /\ notes[s] = "absent" /\ NoWarming(s)
    /\ \A c \in Callers : Busy(c) /\ (\E i \in {1, 2} : call[c].found[i] = s) => Left(call[c])

ClosedInv ==
    /\ SessionInv /\ DOMAIN notes = SessionSet /\ DOMAIN jobs = SessionSet
    /\ \A s \in opened \ (registry \cup outlived) :
          (\E c \in Callers : Dropping(c, s)) \/ Forgotten(s)

LEMMA NotesDomain ==
    ASSUME DOMAIN notes = SessionSet, [Next]_vars
    PROVE  DOMAIN notes' = SessionSet
<1>1. ASSUME NEW c \in Callers, Works(c)
      PROVE  DOMAIN notes' = SessionSet
  <2>1. CASE \/ Checks(c) \/ Refuses(c) \/ Resolves(c) \/ Asks(c) \/ Judges(c) \/ Names(c)
             \/ Searches(c) \/ LeavesCache(c) \/ Lists(c)
    BY <2>1 DEF Checks, Refuses, Resolves, Asks, Judges, Names, Searches, LeavesCache, Lists,
                Untouched, noteVars
  <2>2. CASE \/ Clears(c) \/ Promotes(c) \/ addToolWithCache(c) \/ PromotesToRead(c)
             \/ Demotes(c) \/ Creates(c) \/ Stops(c) \/ Deletes(c) \/ Analyzes(c)
    BY <2>2 DEF Clears, Promotes, addToolWithCache, PromotesToRead, Demotes, Creates,
                Stops, Deletes, Analyzes, noteVars
  <2>3. CASE getSessionCache(c) \/ Visits(c) \/ Notes(c)
    BY <2>3 DEF getSessionCache, Visits, Notes, Writes
  <2>4. CASE Starts(c) \/ Uncaches(c)
    BY <2>4 DEF Starts, Uncaches, deleteSessionCache
  <2> QED BY <1>1, <2>1, <2>2, <2>3, <2>4 DEF Works
<1>2. ASSUME NEW c \in Callers,
             Begin(c) \/ Deliver(c) \/ waitForReady(c) \/ GivesUp(c) \/ Answers(c)
      PROVE  notes' = notes
  BY <1>2 DEF Begin, Deliver, waitForReady, GivesUp, Answers, Untouched, noteVars
<1>3. ASSUME NEW s \in SessionSet, Warms(s) \/ WarmsCache(s) \/ JobEnds(s) \/ WorkerDies(s)
      PROVE  DOMAIN notes' = SessionSet
  BY <1>3 DEF Warms, WarmsCache, JobEnds, WorkerDies, deleteSessionCache, noteVars
<1>4. CASE OrphanEnds \/ Read \/ UNCHANGED vars
  BY <1>4 DEF OrphanEnds, Read, vars, noteVars
<1> QED BY <1>1, <1>2, <1>3, <1>4 DEF Next

(* What the steps do to the jobs: a load starts with its worker, a warming  *)
(* needs the client, and the rest is of no consequence to the cache.        *)
LEMMA JobsStep ==
    ASSUME DOMAIN jobs = SessionSet, [Next]_vars
    PROVE  /\ DOMAIN jobs' = SessionSet
           /\ \A s \in SessionSet :
                 \/ \E c \in Callers : Runs(c, "start") /\ Session(c) = s
                 \/ /\ "warm" \in jobs'[s] => "warm" \in jobs[s] \/ ("load" \in jobs[s] /\ s \in workers)
                    /\ "load" \in jobs'[s] => "load" \in jobs[s]
                    /\ s \in workers' => s \in workers
<1> DEFINE Same == UNCHANGED jobs /\ workers' \subseteq workers
<1>1. ASSUME NEW c \in Callers, Works(c)
      PROVE  Same \/ Starts(c) \/ Analyzes(c)
  <2>1. CASE \/ Checks(c) \/ Refuses(c) \/ Resolves(c) \/ Asks(c) \/ Judges(c) \/ Names(c)
             \/ Searches(c) \/ LeavesCache(c) \/ Lists(c)
    BY <2>1 DEF Checks, Refuses, Resolves, Asks, Judges, Names, Searches, LeavesCache, Lists,
                Untouched, sessionVars
  <2>2. CASE \/ getSessionCache(c) \/ Visits(c) \/ Notes(c) \/ Clears(c) \/ Promotes(c)
             \/ addToolWithCache(c) \/ PromotesToRead(c) \/ Demotes(c)
    BY <2>2 DEF getSessionCache, Visits, Notes, Writes, Clears, Promotes, addToolWithCache,
                PromotesToRead, Demotes, sessionVars
  <2>3. CASE Creates(c) \/ Stops(c) \/ Deletes(c) \/ Uncaches(c)
    BY <2>3 DEF Creates, Stops, Deletes, Uncaches
  <2> QED BY <1>1, <2>1, <2>2, <2>3 DEF Works
<1>2. ASSUME NEW c \in Callers,
             Begin(c) \/ Deliver(c) \/ waitForReady(c) \/ GivesUp(c) \/ Answers(c)
      PROVE  Same
  BY <1>2 DEF Begin, Deliver, waitForReady, GivesUp, Answers, Untouched, sessionVars
<1>3. CASE OrphanEnds \/ Read \/ UNCHANGED vars \/ \E s \in SessionSet : WorkerDies(s)
  <2>1. Same
    BY <1>3 DEF OrphanEnds, Read, vars, sessionVars, WorkerDies
  <2> QED BY <2>1
<1>4. ASSUME NEW c \in Callers, Starts(c)
      PROVE  /\ DOMAIN jobs' = SessionSet
             /\ \A s \in SessionSet : s = Session(c) \/ (jobs'[s] = jobs[s] /\ (s \in workers' => s \in workers))
             /\ Runs(c, "start")
  BY <1>4 DEF Starts
<1>5. ASSUME NEW c \in Callers, Analyzes(c)
      PROVE  /\ DOMAIN jobs' = SessionSet /\ workers' = workers
             /\ \A s \in SessionSet : jobs'[s] \subseteq jobs[s] \cup {"pass"}
  BY <1>5 DEF Analyzes
<1>6. ASSUME NEW t \in SessionSet, Warms(t) \/ WarmsCache(t)
      PROVE  /\ DOMAIN jobs' = SessionSet /\ workers' = workers
             /\ \A s \in SessionSet : jobs'[s] \subseteq jobs[s] \cup {"warmed"}
                                       \/ ("load" \in jobs[s] /\ s \in workers
                                            /\ jobs'[s] = (jobs[s] \ {"load"}) \cup {"warm"})
  BY <1>6 DEF Warms, WarmsCache
<1>7. ASSUME NEW t \in SessionSet, JobEnds(t)
      PROVE  /\ DOMAIN jobs' = SessionSet /\ workers' = workers
             /\ \A s \in SessionSet : jobs'[s] \subseteq jobs[s]
  BY <1>7 DEF JobEnds
<1>8. CASE Same
  BY <1>8
<1> HIDE DEF Same
<1>9. CASE \E c \in Callers : Starts(c)
  BY <1>4, <1>9
<1>10. CASE \E c \in Callers : Analyzes(c)
  BY <1>5, <1>10
<1>11. CASE \E t \in SessionSet : Warms(t) \/ WarmsCache(t)
  BY <1>6, <1>11
<1>12. CASE \E t \in SessionSet : JobEnds(t)
  BY <1>7, <1>12
<1> QED BY <1>1, <1>2, <1>3, <1>8, <1>9, <1>10, <1>11, <1>12 DEF Next

(* A cache is made or filled only by a step of a call that has its session, *)
(* or by the load that warms it.                                            *)
FillOps == {"cache", "cacheIfNamed", "visit", "note"}

LEMMA CacheFilled ==
    ASSUME DOMAIN notes = SessionSet, [Next]_vars, NEW s \in SessionSet, notes[s] = "absent"
    PROVE  \/ notes'[s] = "absent"
           \/ \E c \in Callers, op \in FillOps : Runs(c, op) /\ Session(c) = s
           \/ "warm" \in jobs[s]
<1>1. ASSUME NEW c \in Callers, Works(c)
      PROVE  notes'[s] = "absent" \/ \E op \in FillOps : Runs(c, op) /\ Session(c) = s
  <2>1. CASE \/ Checks(c) \/ Refuses(c) \/ Resolves(c) \/ Asks(c) \/ Judges(c) \/ Names(c)
             \/ Searches(c) \/ LeavesCache(c) \/ Lists(c)
    BY <2>1 DEF Checks, Refuses, Resolves, Asks, Judges, Names, Searches, LeavesCache, Lists,
                Untouched, noteVars
  <2>2. CASE \/ Clears(c) \/ Promotes(c) \/ addToolWithCache(c) \/ PromotesToRead(c)
             \/ Demotes(c) \/ Creates(c) \/ Stops(c) \/ Deletes(c) \/ Analyzes(c)
    BY <2>2 DEF Clears, Promotes, addToolWithCache, PromotesToRead, Demotes, Creates,
                Stops, Deletes, Analyzes, noteVars
  <2>3. CASE getSessionCache(c) \/ Visits(c) \/ Notes(c)
    <3>1. \E op \in FillOps : Runs(c, op)
      BY <2>3 DEF getSessionCache, Visits, Notes, FillOps
    <3>2. notes' = notes \/ \E n : notes' = [notes EXCEPT ![Session(c)] = n]
      BY <2>3 DEF getSessionCache, Visits, Notes, Writes
    <3>3. Session(c) # s => notes'[s] = notes[s]
      BY <3>2
    <3> QED BY <3>1, <3>3
  <2>4. CASE Starts(c) \/ Uncaches(c)
    BY <2>4 DEF Starts, Uncaches, deleteSessionCache
  <2> QED BY <1>1, <2>1, <2>2, <2>3, <2>4 DEF Works
<1>2. ASSUME NEW c \in Callers,
             Begin(c) \/ Deliver(c) \/ waitForReady(c) \/ GivesUp(c) \/ Answers(c)
      PROVE  notes' = notes
  BY <1>2 DEF Begin, Deliver, waitForReady, GivesUp, Answers, Untouched, noteVars
<1>3. ASSUME NEW t \in SessionSet, Warms(t) \/ WarmsCache(t) \/ JobEnds(t) \/ WorkerDies(t)
      PROVE  notes'[s] = "absent" \/ "warm" \in jobs[s]
  BY <1>3 DEF Warms, WarmsCache, JobEnds, WorkerDies, deleteSessionCache, noteVars
<1>4. CASE OrphanEnds \/ Read \/ UNCHANGED vars
  BY <1>4 DEF OrphanEnds, Read, vars, noteVars
<1> QED BY <1>1, <1>2, <1>3, <1>4 DEF Next

LEMMA OutlivedGrows ==
    ASSUME [Next]_vars
    PROVE  outlived \subseteq outlived'
<1>1. ASSUME NEW c \in Callers, Works(c)
      PROVE  outlived \subseteq outlived'
  <2>1. CASE \/ Checks(c) \/ Refuses(c) \/ Resolves(c) \/ Asks(c) \/ Judges(c) \/ Names(c)
             \/ Searches(c) \/ LeavesCache(c) \/ Lists(c)
    BY <2>1 DEF Checks, Refuses, Resolves, Asks, Judges, Names, Searches, LeavesCache, Lists,
                Untouched, noteVars
  <2>2. CASE \/ Clears(c) \/ Promotes(c) \/ addToolWithCache(c) \/ PromotesToRead(c)
             \/ Demotes(c) \/ Creates(c) \/ Stops(c) \/ Deletes(c) \/ Analyzes(c)
    BY <2>2 DEF Clears, Promotes, addToolWithCache, PromotesToRead, Demotes, Creates,
                Stops, Deletes, Analyzes, noteVars
  <2>3. CASE getSessionCache(c) \/ Visits(c) \/ Notes(c)
    BY <2>3 DEF getSessionCache, Visits, Notes, Writes
  <2>4. CASE Starts(c) \/ Uncaches(c)
    BY <2>4 DEF Starts, Uncaches
  <2> QED BY <1>1, <2>1, <2>2, <2>3, <2>4 DEF Works
<1>2. ASSUME NEW c \in Callers,
             Begin(c) \/ Deliver(c) \/ waitForReady(c) \/ GivesUp(c) \/ Answers(c)
      PROVE  outlived' = outlived
  BY <1>2 DEF Begin, Deliver, waitForReady, GivesUp, Answers, Untouched, noteVars
<1>3. ASSUME NEW t \in SessionSet, Warms(t) \/ WarmsCache(t) \/ JobEnds(t) \/ WorkerDies(t)
      PROVE  outlived' = outlived
  BY <1>3 DEF Warms, WarmsCache, JobEnds, WorkerDies, noteVars
<1>4. CASE OrphanEnds \/ Read \/ UNCHANGED vars
  BY <1>4 DEF OrphanEnds, Read, vars, noteVars
<1> QED BY <1>1, <1>2, <1>3, <1>4 DEF Next

(* The script that close_binary has left, read off its next step.           *)
LEMMA CloseHead ==
    ASSUME NEW s \in Rests("close_binary"), s # <<>>
    PROVE  /\ Head(s).op = "delete" => Tail(s) = <<Step("uncache"), Step("list"), Step("demote")>>
           /\ s = <<Step("uncache"), Step("list"), Step("demote")>>
                  => Tail(s) = <<Step("list"), Step("demote")>>
           /\ s = <<Step("list"), Step("demote")>> => Tail(s) = <<Step("demote")>>
           /\ s = <<Step("demote")>> => Tail(s) = <<>>
<1>1. Resolve("session").op = "resolve"
  BY DEF Resolve
<1>2. \A op : Step(op).op = op
  BY DEF Step
<1>3. CASE s = closeBinary
  BY <1>1, <1>3, Tails DEF closeBinary
<1>4. CASE s = <<Step("stop"), Step("delete"), Step("uncache"), Step("list"), Step("demote")>>
  BY <1>2, <1>4, Tails
<1>5. CASE s = <<Step("delete"), Step("uncache"), Step("list"), Step("demote")>>
  BY <1>2, <1>5, Tails
<1>6. CASE s = <<Step("uncache"), Step("list"), Step("demote")>>
  BY <1>2, <1>6, Tails
<1>7. CASE s = <<Step("list"), Step("demote")>>
  BY <1>2, <1>7, Tails
<1>8. CASE s = <<Step("demote")>>
  BY <1>2, <1>8, Tails
<1> QED BY <1>3, <1>4, <1>5, <1>6, <1>7, <1>8, RestsClose

(* What a call can do next is given by the head of its script.              *)
LEMMA UncacheActs ==
    ASSUME NEW c \in Callers, Runs(c, "uncache"), Acts(c)
    PROVE  Uncaches(c)
<1>1. call[c].state = "running" /\ call[c].todo # <<>> /\ Now(c).op = "uncache"
  BY DEF Runs
<1>2. /\ ~Begin(c) /\ ~Deliver(c) /\ ~waitForReady(c) /\ ~GivesUp(c) /\ ~Answers(c)
  BY <1>1 DEF Begin, Deliver, waitForReady, GivesUp, Answers, Idle
<1>3. /\ ~Checks(c) /\ ~Refuses(c) /\ ~Resolves(c) /\ ~Asks(c) /\ ~Judges(c) /\ ~Names(c)
      /\ ~Searches(c) /\ ~getSessionCache(c) /\ ~LeavesCache(c) /\ ~Visits(c) /\ ~Notes(c)
  BY <1>1 DEF Checks, Refuses, Resolves, Asks, Judges, Names, Searches, getSessionCache,
              LeavesCache, Visits, Notes, Runs
<1>4. /\ ~Clears(c) /\ ~Promotes(c) /\ ~addToolWithCache(c)
      /\ ~Creates(c) /\ ~Starts(c) /\ ~PromotesToRead(c) /\ ~Stops(c) /\ ~Deletes(c)
      /\ ~Lists(c) /\ ~Demotes(c) /\ ~Analyzes(c)
  BY <1>1 DEF Clears, Promotes, addToolWithCache, Creates, Starts, PromotesToRead, Stops,
              Deletes, Lists, Demotes, Analyzes, Runs
<1> QED BY <1>2, <1>3, <1>4 DEF Acts, Works

(* A call moves by a step of its own, or is left steady by that of others.  *)
LEMMA OneActs ==
    ASSUME CallsInv, [Next]_vars, NEW c \in Callers
    PROVE  Acts(c) \/ Steady(call[c], call'[c])
<1>1. ASSUME NEW d \in Callers \ {c}, Acts(d)
      PROVE  Steady(call[c], call'[c])
  BY <1>1, ActsMoves DEF MoveOf
<1>2. CASE ~\E d \in Callers : Acts(d)
  BY <1>2, OthersSteady DEF Next, Acts
<1> QED BY <1>1, <1>2

(* Nobody but a call that is about to return has the session any more, no   *)
(* load warms its cache, and the cache goes.                                *)
LEMMA FailedStart ==
    ASSUME ClosedInv, [Next]_vars, NEW c \in Callers, Starts(c), NEW s, s = Session(c),
           s \in registry, s \notin registry', s \notin outlived'
    PROVE  Forgotten(s)'
<1>0. /\ CallsInv /\ DOMAIN call = Callers /\ DOMAIN notes = SessionSet /\ s \in SessionSet
  BY CallInvTyped DEF ClosedInv, SessionInv, CallInv
<1>1. /\ registry' = registry \ {s} /\ deleteSessionCache(s)
      /\ outlived' = IF Outlives(c, s) THEN outlived \cup {s} ELSE outlived
      /\ call' = [Stale(s) EXCEPT ![c] = Returned(@.tool, "failed", {}, {}, FALSE)]
      /\ UNCHANGED <<workers, jobs>>
  BY DEF Starts
<1>2. ~Outlives(c, s)
  BY <1>1
<1>3. notes'[s] = "absent" /\ NoWarming(s)'
  BY <1>0, <1>1, <1>2 DEF deleteSessionCache, Outlives, NoWarming
<1>4. ~Busy(c)'
  <2>1. DOMAIN Stale(s) = Callers
    BY DEF Stale
  <2>2. call'[c].state = "returned"
    BY <1>1, <2>1 DEF Returned
  <2> QED BY <2>2 DEF Busy
<1>5. ASSUME NEW d \in Callers \ {c}, Busy(d)'
      PROVE  ~\E i \in {1, 2} : call'[d].found[i] = s
  <2>1. Steady(call[d], call'[d])
    BY <1>0, ActsMoves DEF MoveOf, Acts, Works
  <2>2. Busy(d)
    BY <1>5, <2>1, SteadyMoves DEF Busy
  <2>3. call'[d].found = call[d].found
    BY <1>0, <2>1, <2>2, SteadyMoves DEF CallsInv
  <2>4. \A i \in {1, 2} : i \in 1..2
    OBVIOUS
  <2> QED BY <1>2, <2>2, <2>3, <2>4 DEF Outlives
<1> QED BY <1>3, <1>4, <1>5 DEF Forgotten

(* A session leaves the registry when its worker fails to start, or when    *)
(* close_binary deletes it.                                                 *)
LEMMA Leaves ==
    ASSUME ClosedInv, [Next]_vars, NEW s \in registry, s \notin registry', s \notin outlived'
    PROVE  (\E c \in Callers : Dropping(c, s)') \/ Forgotten(s)'
<1>1. PICK c \in Callers : Creates(c) \/ Starts(c) \/ Stops(c) \/ Deletes(c)
  BY QuietStep DEF Quiet
<1>2. (Deletes(c) \/ Starts(c)) /\ s = Session(c)
  BY <1>1 DEF Creates, Starts, Stops, Deletes
<1>3. CASE Starts(c)
  BY <1>2, <1>3, FailedStart
<1>4. CASE Deletes(c)
  <2> DEFINE r == call[c]
             q == call'[c]
  <2>3. /\ CallsInv /\ Runs(c, "delete") /\ Busy(c) /\ Good(r) /\ Shaped(r)
        /\ DOMAIN call = Callers
    BY <1>4, CallInvTyped DEF Deletes, Runs, Busy, ClosedInv, SessionInv, CallInv, CallOK
  <2>4. IsCall(r) /\ r.state = "running" /\ r.todo # <<>> /\ Head(r.todo).op = "delete"
    BY <2>3, RunsTyped DEF Typed, Heads
  <2>5. r.tool = "close_binary"
    <3>1. Now(c) \in StepsOf(r.tool) /\ Now(c).op = "delete"
      BY <2>3, RunsTyped
    <3> QED BY <3>1 DEF StepsOf, Fits
  <2>6. Tail(r.todo) = <<Step("uncache"), Step("list"), Step("demote")>>
    BY <2>3, <2>4, <2>5, CloseHead DEF Shaped
  <2>7. q = [r EXCEPT !.todo = Tail(@)]
    BY <1>4, <2>3 DEF Deletes, Advance
  <2>8. r.found[1] = s
    BY <1>2 DEF Session
  <2> HIDE DEF r, q
  <2>9. /\ q.todo = <<Step("uncache"), Step("list"), Step("demote")>> /\ q.tool = "close_binary"
        /\ q.state = "running" /\ q.found[1] = s
    BY <2>4, <2>5, <2>6, <2>7, <2>8 DEF IsCall
  <2>10. Dropping(c, s)'
    BY <2>9 DEF Dropping, Busy, Session, q
  <2> QED BY <2>10
<1> QED BY <1>2, <1>3, <1>4

LEMMA StaysForgotten ==
    ASSUME ClosedInv, [Next]_vars, NEW s \in opened, s \notin registry, Forgotten(s)
    PROVE  Forgotten(s)'
<1>0. /\ SessionInv /\ CallInv /\ CallsInv /\ s \in SessionSet /\ DOMAIN notes = SessionSet
      /\ s # None /\ DOMAIN jobs = SessionSet
  BY CallInvTyped, CallsAssumption DEF ClosedInv, SessionInv, SessionSet
<1>3. ASSUME NEW c \in Callers, NEW op, Runs(c, op), Session(c) = s
      PROVE  op \in {"list", "demote"}
  <2>1. Left(call[c]) /\ call[c].todo # <<>> /\ Head(call[c].todo).op = op
    BY <1>3 DEF Forgotten, Runs, Busy, Session, Now
  <2>2. /\ Head(<<Step("demote")>>) = Step("demote")
        /\ Head(<<Step("list"), Step("demote")>>) = Step("list")
        /\ Step("demote").op = "demote" /\ Step("list").op = "list"
    BY DEF Step
  <2> QED BY <2>1, <2>2 DEF Left
<1>1. notes'[s] = "absent"
  <2>1. SUFFICES ASSUME NEW c \in Callers, NEW op \in FillOps, Runs(c, op), Session(c) = s
                 PROVE  FALSE
    BY <1>0, CacheFilled DEF Forgotten, NoWarming
  <2> QED BY <1>3, <2>1 DEF FillOps
<1>4. NoWarming(s)'
  <2>1. ~\E c \in Callers : Runs(c, "start") /\ Session(c) = s
    BY <1>3
  <2>2. /\ "warm" \in jobs'[s] => "warm" \in jobs[s] \/ ("load" \in jobs[s] /\ s \in workers)
        /\ "load" \in jobs'[s] => "load" \in jobs[s]
        /\ s \in workers' => s \in workers
    BY <1>0, <2>1, JobsStep
  <2> QED BY <2>2 DEF Forgotten, NoWarming
<1>2. ASSUME NEW c \in Callers, Busy(c)', NEW i \in {1, 2}, call'[c].found[i] = s
      PROVE  Left(call'[c])
  <2> DEFINE r == call[c]
             q == call'[c]
  <2>1. Moves(r, q) /\ CallOK(r) /\ CallOK(q)
    BY <1>0, NextMoves, CallInvStep DEF CallInv
  <2>2. q.state \in {"running", "waiting", "asking"}
    BY <1>2, <2>1 DEF CallOK, Busy
  <2>3. r.state \in {"running", "waiting", "asking"} /\ r.found[i] = s => Left(r)
    BY DEF Busy, Forgotten
  <2>4. ~Finds(r.tool, s)
    <3>1. s \notin opened' \ opened
      OBVIOUS
    <3> QED BY <3>1 DEF Finds
  <2>5. q.found[i] = s
    BY <1>2
  <2> SUFFICES Left(q)
    OBVIOUS
  <2> HIDE DEF r, q
  <2>6. CASE q = r
    BY <2>2, <2>3, <2>5, <2>6
  <2>7. CASE Begins(r, q)
    <3>1. q.found[i] = None
      <4>1. q.found = <<None, None>> /\ <<None, None>>[1] = None /\ <<None, None>>[2] = None
        BY <2>7 DEF Begins
      <4> QED BY <4>1
    <3> QED BY <1>0, <2>5, <3>1
  <2>8. CASE /\ Stays(r, q) /\ r.state \in {"running", "waiting", "asking"}
             /\ \/ Passes(r, q) \/ Skips(r, q) \/ Rewrites(r, q) \/ Waits(r, q)
                \/ AsksOut(r, q) \/ Hears(r, q)
    <3>1. r.found[i] = s
      BY <2>4, <2>5, <2>8 DEF Stays
    <3>2. Left(r) /\ q.tool = r.tool
      BY <2>3, <2>8, <3>1 DEF Stays
    <3>3. r.todo # <<>> => /\ Head(r.todo).op \in {"list", "demote"}
                           /\ Tail(r.todo) \in {<<Step("demote")>>, <<>>}
      <4>1. r.todo # <<>> => r.todo \in {<<Step("list"), Step("demote")>>, <<Step("demote")>>}
        BY <3>2 DEF Left
      <4>2. /\ Head(<<Step("demote")>>) = Step("demote")
            /\ Head(<<Step("list"), Step("demote")>>) = Step("list")
        OBVIOUS
      <4>3. Step("demote").op = "demote" /\ Step("list").op = "list"
        BY DEF Step
      <4>4. /\ Tail(<<Step("list"), Step("demote")>>) = <<Step("demote")>>
            /\ Tail(<<Step("demote")>>) = <<>>
        BY Tails
      <4> QED BY <4>1, <4>2, <4>3, <4>4
    <3>4. ~Skips(r, q) /\ ~AsksOut(r, q)
      BY <3>3 DEF Skips, AsksOut, Heads
    <3>8. Rewrites(r, q) => q.todo = <<>>
      BY <3>3 DEF Rewrites, Heads
    <3>5. Passes(r, q) => q.todo \in {<<Step("demote")>>, <<>>}
      BY <3>3 DEF Passes
    <3>6. ~Hears(r, q)
      BY <2>1, <3>3 DEF Hears, CallOK, Good, Typed
    <3>7. Waits(r, q) => q.todo = r.todo
      BY DEF Waits
    <3> QED BY <2>8, <3>2, <3>4, <3>5, <3>6, <3>7, <3>8 DEF Left
  <2> QED BY <2>1, <2>2, <2>6, <2>7, <2>8, BusyMoves
<1> QED BY <1>1, <1>4, <1>2 DEF Forgotten

LEMMA StaysDropping ==
    ASSUME ClosedInv, [Next]_vars, NEW s \in opened, s \notin registry, s \notin outlived',
           NEW c \in Callers, Dropping(c, s)
    PROVE  Dropping(c, s)' \/ Forgotten(s)'
<1> DEFINE r == call[c]
           q == call'[c]
<1>0. /\ SessionInv /\ CallInv /\ CallsInv /\ s \in SessionSet /\ DOMAIN notes = SessionSet
      /\ s # None /\ DOMAIN call = Callers
  BY CallInvTyped, CallsAssumption DEF ClosedInv, SessionInv, SessionSet, CallInv
<1>1. r.todo # <<>> /\ Head(r.todo).op = "uncache" /\ Typed(r)
  BY <1>0 DEF Dropping, Step, CallsInv
<1>2. r.state = "running"
  BY <1>0, <1>1 DEF Dropping, Shaped, SessionInv, Typed
<1>3. CASE Steady(r, q)
  <2>1. q.state = r.state /\ q.tool = r.tool /\ q.todo = r.todo /\ q.found = r.found
    BY <1>1, <1>3, SteadyMoves
  <2> QED BY <2>1 DEF Dropping, Busy, Session
<1>4. CASE Acts(c)
  <2>1. Uncaches(c)
    BY <1>1, <1>2, <1>4, UncacheActs DEF Runs, Now
  <2>2. notes'[s] = "absent"
    BY <1>0, <2>1 DEF Uncaches, Dropping, deleteSessionCache
  <2>3. /\ \A d \in Callers \ {c} : Busy(d) => ~\E i \in {1, 2} : call[d].found[i] = s
        /\ NoWarming(s)'
    <3>1. ~Outlives(c, s) /\ UNCHANGED <<jobs, workers>>
      BY <2>1 DEF Uncaches, Dropping
    <3>2. \A i \in {1, 2} : i \in 1..2
      OBVIOUS
    <3> QED BY <3>1, <3>2 DEF Outlives, NoWarming
  <2>4. ASSUME NEW d \in Callers \ {c}, Busy(d)'
        PROVE  ~\E i \in {1, 2} : call'[d].found[i] = s
    <3>1. Steady(call[d], call'[d])
      BY <1>0, <1>4, ActsMoves DEF MoveOf
    <3>2. Busy(d)
      BY <2>4, <3>1, SteadyMoves DEF Busy
    <3>3. call'[d].found = call[d].found
      BY <1>0, <3>1, <3>2, SteadyMoves DEF CallsInv
    <3> QED BY <2>3, <3>2, <3>3
  <2>5. q.todo = <<Step("list"), Step("demote")>> /\ q.tool = "close_binary"
    <3>1. q = [Stale(s)[c] EXCEPT !.todo = Tail(@)]
      BY <1>0, <2>1, StaleSteady DEF Uncaches, Dropping
    <3>2. Stale(s)[c].todo = r.todo /\ Stale(s)[c].tool = r.tool
      BY <1>0, <1>1, StaleSteady, SteadyMoves
    <3>3. Stale(s)[c] = r \/ Stale(s)[c] = [r EXCEPT !.cache = "stale"]
      BY <1>0, StaleSteady DEF Steady
    <3>4. r.todo = <<Step("uncache"), Step("list"), Step("demote")>> /\ r.tool = "close_binary"
      BY DEF Dropping
    <3> HIDE DEF r, q
    <3>5. q.todo = Tail(r.todo) /\ q.tool = r.tool
      BY <1>1, <3>1, <3>2, <3>3 DEF Typed, IsCall
    <3> QED BY <3>4, <3>5, Tails
  <2>6. Left(q)
    BY <2>5 DEF Left
  <2> QED BY <2>2, <2>3, <2>4, <2>6 DEF Forgotten
<1> QED BY <1>0, <1>3, <1>4, OneActs

LEMMA ClosedInvStep == ClosedInv /\ [Next]_vars => ClosedInv'
<1> SUFFICES ASSUME ClosedInv, [Next]_vars PROVE ClosedInv'
  OBVIOUS
<1>1. SessionInv' /\ DOMAIN notes' = SessionSet /\ DOMAIN jobs' = SessionSet
  BY SessionInvStep, NotesDomain, JobsStep DEF ClosedInv
<1>2. ASSUME NEW s \in opened' \ (registry' \cup outlived')
      PROVE  (\E c \in Callers : Dropping(c, s)') \/ Forgotten(s)'
  <2>1. s \in opened
    <3>1. opened' \ opened \subseteq registry'
      <4>1. ASSUME NEW c \in Callers, Creates(c) \/ Starts(c) \/ Stops(c) \/ Deletes(c)
            PROVE  opened' \ opened \subseteq registry'
        BY <4>1 DEF Creates, Starts, Stops, Deletes
      <4> QED BY <4>1, QuietStep DEF Quiet
    <3> QED BY <1>2, <3>1
  <2>2. s \notin outlived
    BY <1>2, OutlivedGrows
  <2>3. CASE s \in registry
    BY <1>2, <2>3, Leaves
  <2>4. CASE s \notin registry
    <3>1. (\E c \in Callers : Dropping(c, s)) \/ Forgotten(s)
      BY <2>1, <2>2, <2>4 DEF ClosedInv
    <3>2. ASSUME NEW c \in Callers, Dropping(c, s)
          PROVE  Dropping(c, s)' \/ Forgotten(s)'
      BY <1>2, <2>1, <2>4, <3>2, StaysDropping
    <3> QED BY <2>1, <2>4, <3>1, <3>2, StaysForgotten
  <2> QED BY <2>3, <2>4
<1> QED BY <1>1, <1>2 DEF ClosedInv

(* A closed session leaves no cache behind but one made by a call that had  *)
(* found the session and was running when it closed, or by the load that    *)
(* could still warm its cache then, with any number of callers opening and  *)
(* closing: session.go:300,459, cache.go:268-280,459-464.                   *)
THEOREM ClosedUncached == Spec => []CachesClosed
<1>1. Init => ClosedInv
  BY SessionInvInit DEF Init, ClosedInv
<1>2. ClosedInv => CachesClosed
  BY DEF ClosedInv, Dropping, Forgotten, CachesClosed, Closing
<1> QED BY <1>1, <1>2, ClosedInvStep, PTL DEF Spec

=============================================================================
