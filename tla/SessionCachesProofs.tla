------------------------ MODULE SessionCachesProofs -------------------------
(* The function list, the cross-references and the pseudocode of            *)
(* SessionCaches stay fresh, for any number of loads, reads and writes.     *)
EXTENDS SessionCaches, FiniteSetTheorems, TLAPS

(* The tools that change the function list, the import apart.               *)
ListOps == {"name", "annotate", "make", "python", "analysis"}

(* A write that has changed the function list and has yet to invalidate it. *)
OwesList(w) ==
    \/ wr[w].pc \in {"cache", "check"} /\ wr[w].op \in ListOps
    \/ wr[w].pc = "dirty" /\ wr[w].todo \cap {"functions", "drop"} # {}
Excused == skewed \/ \E w \in Writers : OwesList(w)

SymType == sym \in [Symbols -> SymState]
WrType  == wr \in [Writers -> WriteState]
Lists   == {Nil} \cup (UNION {[D -> Names] : D \in SUBSET Functions})
LsType  == ls \in [Listers -> [pc : {"idle", "fetch", "store"}, got : Lists]]

(* While a load is under way it holds the lock; what is cached, and what a  *)
(* load is about to store, is current or owed an invalidation.              *)
LockHeld  == \A l \in Listers : ls[l].pc \in {"fetch", "store"} => loading = {l}
Checking  == \A w \in Writers : wr[w].pc = "check" => "functions" \in wr[w].todo
OpTarget  == \A w \in Writers : wr[w].pc # "idle" =>
                 /\ wr[w].op \in Ops /\ wr[w].a \in Targets(wr[w].op)
                 /\ wr[w].pc = "ask" => wr[w].a \in Symbols
CacheGood == functions = Nil \/ functions = FunctionList \/ Excused
GotGood   == \A l \in Listers :
                 ls[l].pc = "store" => ls[l].got = FunctionList \/ Excused

ListInv == /\ SymType /\ WrType /\ LsType /\ defined \subseteq Functions
           /\ LockHeld /\ Checking /\ OpTarget /\ CacheGood /\ GotGood

LEMMA InitList == Init => ListInv
<1> SUFFICES ASSUME Init PROVE ListInv
  OBVIOUS
<1>1. Nil \in Lists
  BY DEF Lists
<1>2. SymType /\ WrType /\ LsType /\ defined \subseteq Functions
  BY <1>1 DEF Init, SymType, SymState, WrType, WriteState, LsType, NoLoad, NoWrite, Names
<1>3. LockHeld /\ Checking /\ OpTarget /\ CacheGood /\ GotGood
  BY DEF Init, LockHeld, Checking, OpTarget, CacheGood, GotGood, NoLoad, NoWrite
<1> QED
  BY <1>2, <1>3 DEF ListInv

(* Reads and prunings touch neither the list nor those who change it.       *)
LEMMA FrameList ==
    ASSUME ListInv,
           UNCHANGED <<sym, defined, functions, loading, ls, wr, skewed>>
    PROVE  ListInv'
<1>1. FunctionList' = FunctionList
  BY DEF FunctionList
<1>2. Excused' = Excused
  BY DEF Excused, OwesList
<1> QED
  BY <1>1, <1>2 DEF ListInv, SymType, WrType, LsType, LockHeld, Checking, OpTarget,
     CacheGood, GotGood

LEMMA LoadList ==
    ASSUME ListInv, NEW l \in Listers, LoadStep(l)
    PROVE  ListInv'
<1> USE DEF ListInv
<1>1. UNCHANGED <<sym, defined, wr, skewed>>
  BY DEF LoadStep, LoadLock, LoadFetch, LoadStore, LoadFails, dbVars
<1>2. FunctionList' = FunctionList /\ Excused' = Excused
  BY <1>1 DEF FunctionList, Excused, OwesList
<1>3. SymType' /\ WrType' /\ Checking' /\ OpTarget' /\ (defined \subseteq Functions)'
  BY <1>1 DEF SymType, WrType, Checking, OpTarget
<1>4. FunctionList \in Lists /\ Nil \in Lists
  <2>1. FunctionList \in [defined -> Names]
    BY DEF FunctionList, SymType, SymState, Symbols
  <2> QED
    BY <2>1 DEF Lists
<1>5. LsType'
  BY <1>4 DEF LsType, LoadStep, LoadLock, LoadFetch, LoadStore, LoadFails, NoLoad
<1>6. LockHeld'
  BY DEF LockHeld, LsType, LoadStep, LoadLock, LoadFetch, LoadStore, LoadFails, NoLoad,
     Unlocked
<1>7. CacheGood'
  BY <1>2 DEF CacheGood, GotGood, LoadStep, LoadLock, LoadFetch, LoadStore, LoadFails,
     cacheVars
<1>8. GotGood'
  BY <1>2 DEF GotGood, LsType, LoadStep, LoadLock, LoadFetch, LoadStore, LoadFails, NoLoad
<1> QED
  BY <1>3, <1>5, <1>6, <1>7, <1>8

(* Every tool starts with an operation and an address of that operation.    *)
LEMMA ToolTargets ==
    ASSUME NEW w \in Writers, ToolCall(w)
    PROVE  \E op \in Ops : \E a \in Targets(op) : WriteStart(w, op, a)
<1>1. /\ Targets("name") = Symbols /\ Targets("retype") = Symbols
      /\ \A op \in {"proto", "local", "annotate", "make"} : Targets(op) = Functions
      /\ \A op \in {"python", "import", "analysis"} : Targets(op) = {Nil}
  BY DEF Targets
<1>2. CASE \E a \in Symbols : setName(w, a) \/ deleteName(w, a) \/ setGlobalType(w, a)
  BY <1>1, <1>2 DEF setName, deleteName, setGlobalType, Ops
<1>3. CASE \E f \in Functions : \/ setComment(w, f) \/ setLvarType(w, f)
                                \/ setFunctionType(w, f) \/ makeFunction(w, f)
                                \/ annotateFunction(w, f)
  BY <1>1, <1>3 DEF setComment, setLvarType, setFunctionType, makeFunction,
     annotateFunction, Ops
<1>4. CASE pyEval(w) \/ importIl2cpp(w) \/ importFlutter(w) \/ runAutoAnalysis(w)
  BY <1>1, <1>4 DEF pyEval, importIl2cpp, importFlutter, runAutoAnalysis, Ops
<1> QED
  BY <1>2, <1>3, <1>4 DEF ToolCall

(* The part of the invariant that a write's bookkeeping can disturb.        *)
LEMMA WriterTypes ==
    ASSUME ListInv, NEW w \in Writers,
           WriteStep(w) \/ \E op \in Ops : \E a \in Targets(op) : WriteStart(w, op, a)
    PROVE  WrType' /\ Checking' /\ OpTarget'
<1> USE DEF ListInv
<1> USE DEF WriteState
<1>0. NoWrite \in WriteState
  BY DEF NoWrite
<1>1. CASE \E op \in Ops : \E a \in Targets(op) : WriteStart(w, op, a)
  <2>1. PICK op \in Ops : \E a \in Targets(op) : WriteStart(w, op, a)
    BY <1>1
  <2>2. PICK a \in Targets(op) : WriteStart(w, op, a)
    BY <2>1
  <2>3. a \in Symbols \cup {Nil}
    BY DEF Targets, Symbols
  <2>4. op \in AsksName => a \in Symbols
    BY DEF Targets, Symbols, AsksName
  <2> QED
    BY <2>2, <2>3, <2>4 DEF WriteStart, WrType, Checking, OpTarget
<1>2. CASE AskName(w)
  <2>1. wr[w].a \in Symbols
    BY <1>2 DEF AskName, OpTarget
  <2>2. PICK old \in Names \cup {Nil} :
            wr' = [wr EXCEPT ![w].pc = "write", ![w].old = old]
    BY <1>2, <2>1 DEF AskName, SymType, SymState
  <2>3. WrType'
    <3>1. [wr[w] EXCEPT !.pc = "write", !.old = old] \in WriteState
      BY DEF WrType
    <3> QED
      BY <2>2, <3>1 DEF WrType
  <2>4. Checking' /\ OpTarget'
    BY <1>2, <2>2 DEF WrType, Checking, OpTarget, AskName
  <2> QED
    BY <2>3, <2>4
<1>3. CASE Write(w) \/ WriteFails(w) \/ WriteReturns(w)
  BY <1>0, <1>3 DEF Write, WriteFails, WriteReturns, WrType, Checking, OpTarget, NoWrite
<1>4. CASE GetCache(w)
  <2>1. Todo(wr[w].op) \in SUBSET Invalidations
    BY DEF Todo, Invalidations
  <2>2. Todo("name") = {"functions"}
    BY DEF Todo
  <2> DEFINE T == Todo(wr[w].op)
             l == IF wr[w].op = "name" THEN "check" ELSE "dirty"
  <2>3. WrType'
    <3>1. wr' = [wr EXCEPT ![w].pc = l, ![w].todo = T] /\ l \in {"check", "dirty"}
      BY <1>4 DEF GetCache
    <3>2. T \in SUBSET Invalidations
      BY <2>1
    <3> HIDE DEF T, l
    <3>3. [wr[w] EXCEPT !.pc = l, !.todo = T] \in WriteState
      BY <3>1, <3>2 DEF WrType
    <3> QED
      BY <3>1, <3>3 DEF WrType
  <2>4. Checking'
    BY <1>4, <2>2 DEF GetCache, WrType, Checking
  <2>5. OpTarget'
    BY <1>4 DEF GetCache, WrType, OpTarget
  <2> QED
    BY <2>3, <2>4, <2>5
<1>5. CASE CheckFunction(w)
  <2> DEFINE Extra == IF isCachedFunction(wr[w].a) THEN {"own"} ELSE {"byname"}
  <2>1. Extra \in SUBSET Invalidations
    BY DEF Invalidations
  <2>2. wr' = [wr EXCEPT ![w].pc = "dirty", ![w].todo = @ \cup Extra]
    BY <1>5 DEF CheckFunction
  <2> HIDE DEF Extra
  <2>3. WrType'
    <3>1. wr[w].todo \cup Extra \in SUBSET Invalidations
      BY <2>1 DEF WrType
    <3> QED
      BY <2>2, <3>1 DEF WrType
  <2>4. Checking' /\ OpTarget'
    BY <1>5, <2>2 DEF WrType, Checking, OpTarget, CheckFunction
  <2> QED
    BY <2>3, <2>4
<1>6. CASE \E step \in {"functions", "own", "byname", "all", "xrefs"} : Due(w, step)
  BY <1>6 DEF Due, WrType, Checking, OpTarget
<1>7. CASE deleteSessionCache(w)
  BY <1>0, <1>7 DEF deleteSessionCache, WrType, Checking, OpTarget, NoWrite
<1> QED
  BY <1>1, <1>2, <1>3, <1>4, <1>5, <1>6, <1>7 DEF WriteStep, invalidateFunctions,
     invalidateDecomp, invalidateDecompByOldName, invalidateAllDecomp,
     invalidateAllXRefs

(* A step that leaves list and loads alone, and takes no excuse away.       *)
LEMMA KeepList ==
    ASSUME ListInv, SymType', WrType', Checking', OpTarget',
           UNCHANGED <<defined, loading, ls>>, FunctionList' = FunctionList,
           functions' \in {functions, Nil},
           (functions' = Nil /\ loading = {}) \/ (Excused => Excused')
    PROVE  ListInv'
<1> USE DEF ListInv
<1>1. LsType' /\ LockHeld' /\ (defined \subseteq Functions)'
  BY DEF LsType, LockHeld
<1>2. CacheGood'
  BY DEF CacheGood
<1>3. GotGood'
  <2> SUFFICES ASSUME NEW l \in Listers, ls[l].pc = "store"
               PROVE  ls[l].got = FunctionList \/ Excused'
    BY DEF GotGood
  <2>1. loading = {l}
    BY DEF LockHeld
  <2> QED
    BY <2>1 DEF GotGood
<1> QED
  BY <1>1, <1>2, <1>3

(* Starting, asking and failing: nobody who owes an invalidation forgets it. *)
LEMMA BookList ==
    ASSUME ListInv, NEW w \in Writers,
           \/ \E op \in Ops : \E a \in Targets(op) : WriteStart(w, op, a)
           \/ AskName(w) \/ WriteFails(w) \/ GetCache(w) \/ CheckFunction(w)
           \/ WriteReturns(w)
    PROVE  ListInv'
<1> USE DEF ListInv
<1>1. UNCHANGED <<sym, defined, functions, loading, ls, skewed>>
  BY DEF WriteStart, AskName, WriteFails, GetCache, CheckFunction, WriteReturns,
     dbVars, cacheVars
<1>2. FunctionList' = FunctionList /\ SymType'
  BY <1>1 DEF FunctionList, SymType
<1>3. WrType' /\ Checking' /\ OpTarget'
  BY WriterTypes DEF WriteStep
<1>4. \A x \in Writers : x # w => wr'[x] = wr[x]
  BY DEF WriteStart, AskName, WriteFails, GetCache, CheckFunction, WriteReturns, WrType
<1>5. OwesList(w) => OwesList(w)'
  <2>1. CASE \E op \in Ops : \E a \in Targets(op) : WriteStart(w, op, a)
    BY <2>1 DEF WriteStart, OwesList
  <2>2. CASE AskName(w) \/ WriteFails(w) \/ WriteReturns(w)
    BY <2>2 DEF AskName, WriteFails, WriteReturns, OwesList
  <2>3. CASE GetCache(w)
    <3>1. \A op \in ListOps : Todo(op) \cap {"functions", "drop"} # {}
      BY DEF Todo, ListOps
    <3> QED
      BY <2>3, <3>1 DEF GetCache, OwesList, WrType, WriteState
  <2>4. CASE CheckFunction(w)
    <3>1. "functions" \in wr[w].todo
      BY <2>4 DEF CheckFunction, Checking
    <3> QED
      BY <2>4, <3>1 DEF CheckFunction, OwesList, WrType, WriteState
  <2> QED
    BY <2>1, <2>2, <2>3, <2>4
<1>6. Excused => Excused'
  BY <1>1, <1>4, <1>5 DEF Excused, OwesList
<1> QED
  BY <1>1, <1>2, <1>3, <1>6, KeepList

(* An invalidation needs the lock, so no load is under way.                 *)
LEMMA InvalidateList ==
    ASSUME ListInv, NEW w \in Writers,
           \/ invalidateFunctions(w) \/ invalidateDecomp(w)
           \/ invalidateDecompByOldName(w) \/ invalidateAllDecomp(w)
           \/ invalidateAllXRefs(w)
    PROVE  ListInv'
<1> USE DEF ListInv
<1>1. UNCHANGED <<sym, defined, loading, ls, skewed>> /\ loading = {}
  BY DEF invalidateFunctions, invalidateDecomp, invalidateDecompByOldName,
     invalidateAllDecomp, invalidateAllXRefs, Due, Unlocked, dbVars
<1>2. FunctionList' = FunctionList /\ SymType'
  BY <1>1 DEF FunctionList, SymType
<1>3. WrType' /\ Checking' /\ OpTarget'
  BY WriterTypes DEF WriteStep
<1>4. CASE invalidateFunctions(w)
  BY <1>1, <1>2, <1>3, <1>4, KeepList DEF invalidateFunctions
<1>5. CASE \E step \in {"own", "byname", "all", "xrefs"} :
               Due(w, step) /\ functions' = functions
  <2>1. PICK step \in {"own", "byname", "all", "xrefs"} :
            Due(w, step) /\ functions' = functions
    BY <1>5
  <2>2. wr' = [wr EXCEPT ![w].todo = @ \ {step}]
    BY <2>1 DEF Due
  <2>3. \A x \in Writers : /\ wr'[x].pc = wr[x].pc /\ wr'[x].op = wr[x].op
                          /\ wr'[x].todo \cap {"functions", "drop"}
                                 = wr[x].todo \cap {"functions", "drop"}
    BY <2>2 DEF WrType, WriteState
  <2>4. Excused => Excused'
    BY <1>1, <2>3 DEF Excused, OwesList
  <2> QED
    BY <1>1, <1>2, <1>3, <2>1, <2>4, KeepList
<1> QED
  BY <1>4, <1>5 DEF invalidateDecomp, invalidateDecompByOldName,
     invalidateAllDecomp, invalidateAllXRefs

LEMMA DropList ==
    ASSUME ListInv, NEW w \in Writers, deleteSessionCache(w)
    PROVE  ListInv'
<1> USE DEF ListInv
<1>1. WrType' /\ Checking' /\ OpTarget'
  BY WriterTypes DEF WriteStep
<1>2. SymType' /\ (defined \subseteq Functions)' /\ CacheGood'
  BY DEF deleteSessionCache, dbVars, SymType, CacheGood
<1>3. Nil \in Lists
  BY DEF Lists
<1>4. LsType' /\ LockHeld' /\ GotGood'
  BY <1>3 DEF deleteSessionCache, LsType, LockHeld, GotGood, NoLoad
<1> QED
  BY <1>1, <1>2, <1>4

(* The write itself: either the list is untouched, or the writer now owes   *)
(* an invalidation, or the cache is known to be skewed.                     *)
LEMMA EffectList ==
    ASSUME ListInv, NEW w \in Writers, Write(w)
    PROVE  ListInv'
<1> USE DEF ListInv
<1>1. WrType' /\ Checking' /\ OpTarget'
  BY WriterTypes DEF WriteStep
<1>2. UNCHANGED <<functions, loading, ls>> /\ Effect(wr[w].op, wr[w].a)
  BY DEF Write
<1>3. wr[w].op \in Ops /\ wr[w].a \in Targets(wr[w].op) /\ wr[w].pc = "write"
  BY DEF Write, OpTarget
<1>4. \A s \in SymState :
          /\ Renamed(s) \in SymState /\ Revised(s) \in SymState /\ Edited(s) \in SymState
          /\ Revised(s).name = s.name /\ Edited(s).name = s.name
  BY DEF SymState, Renamed, Revised, Edited, Names
<1>5. SymType' /\ (defined \subseteq Functions)'
  <2>1. CASE wr[w].op \in {"name", "retype", "proto", "local"}
    BY <1>2, <1>4, <2>1 DEF Effect, Rename, Revise, Edit, SymType
  <2>2. CASE wr[w].op = "annotate"
    BY <1>2, <1>4, <2>2 DEF Effect, Annotate, SymType
  <2>3. CASE wr[w].op = "make"
    BY <1>2, <1>3, <2>3 DEF Effect, Define, SymType, Targets
  <2>4. CASE wr[w].op \in {"python", "import", "analysis"}
    BY <1>2, <1>4, <2>4 DEF Effect, Rewrite, SymType
  <2> QED
    BY <1>3, <2>1, <2>2, <2>3, <2>4 DEF Ops
<1>6. \/ skewed'
      \/ /\ wr' = [wr EXCEPT ![w] = [wr[w] EXCEPT !.pc = "cache"]]
         /\ ~skewed /\ wr[w].op # "import"
  <2>1. PICK over \in BOOLEAN :
            /\ wr[w].op = "import" => over
            /\ wr' = [wr EXCEPT ![w] = IF over THEN NoWrite
                                       ELSE [wr[w] EXCEPT !.pc = "cache"]]
            /\ skewed' = (skewed \/ over)
    BY DEF Write
  <2>2. CASE over \/ skewed
    BY <2>1, <2>2
  <2>3. CASE ~over /\ ~skewed
    BY <2>1, <2>3
  <2> QED
    BY <2>2, <2>3
<1>7. ASSUME Excused' PROVE ListInv'
  BY <1>1, <1>2, <1>5, <1>7 DEF LsType, LockHeld, CacheGood, GotGood
<1>8. CASE wr[w].op \in ListOps /\ ~skewed'
  <2>1. wr'[w].pc = "cache" /\ wr'[w].op = wr[w].op
    BY <1>6, <1>8 DEF ListOps, WrType, WriteState
  <2> QED
    BY <1>7, <1>8, <2>1 DEF Excused, OwesList
<1>9. CASE skewed'
  BY <1>7, <1>9 DEF Excused
<1>10. CASE wr[w].op \in {"retype", "proto", "local"} /\ ~skewed'
  <2>1. Revise(wr[w].a) \/ Edit(wr[w].a)
    BY <1>2, <1>10 DEF Effect
  <2>2. defined' = defined /\ \A f \in Functions : sym'[f].name = sym[f].name
    BY <1>4, <2>1 DEF Revise, Edit, SymType, Symbols
  <2>3. FunctionList' = FunctionList
    BY <2>2 DEF FunctionList
  <2>4. Excused => Excused'
    BY <1>3, <1>6 DEF Excused, OwesList, WrType
  <2> QED
    BY <1>1, <1>2, <1>5, <2>2, <2>3, <2>4, KeepList
<1> QED
  BY <1>3, <1>6, <1>8, <1>9, <1>10 DEF Ops, ListOps

LEMMA StepList ==
    ASSUME ListInv, [Next]_vars
    PROVE  ListInv'
<1>1. CASE \E r \in Readers : ReadStep(r)
  BY <1>1, FrameList DEF ReadStep, ReadText, FetchText, StoreText, ReadXRefs, FetchTo,
     FetchFrom, StoreXRefs, ReadFails, dbVars, cacheVars
<1>2. CASE \E S \in SUBSET Functions : PruneNoted(S)
  BY <1>2, FrameList DEF PruneNoted, dbVars
<1>3. CASE \E l \in Listers : LoadStep(l)
  BY <1>3, LoadList
<1>4. CASE \E w \in Writers : ToolCall(w) \/ WriteStep(w)
  <2>1. PICK w \in Writers : ToolCall(w) \/ WriteStep(w)
    BY <1>4
  <2>2. ToolCall(w) => \E op \in Ops : \E a \in Targets(op) : WriteStart(w, op, a)
    BY ToolTargets
  <2> QED
    BY <2>1, <2>2, BookList, InvalidateList, DropList, EffectList DEF WriteStep
<1>5. CASE UNCHANGED vars
  BY <1>5, FrameList DEF vars, dbVars, cacheVars
<1> QED
  BY <1>1, <1>2, <1>3, <1>4, <1>5 DEF Next

(* A cached function list is the database's whenever no write is settling   *)
(* and no reply was lost or metadata imported since the last pass, however  *)
(* many loads and writes run at once: loadCached's lock across its fetch    *)
(* and the invalidation after the write leave no gap.                       *)
THEOREM CachesFunctionsFresh == Spec => []FunctionsFresh
<1>1. ListInv => FunctionsFresh
  BY DEF ListInv, CacheGood, FunctionsFresh, Excused, OwesList, Settling
<1>2. ListInv /\ [Next]_vars => ListInv'
  BY StepList
<1> QED
  BY <1>1, <1>2, InitList, PTL DEF Spec

----------------------------------------------------------------------------
(* Reads that no write overtakes.                                           *)

Fetched   == {Nil} \cup {0, 1} \cup Texts
ReadState == [pc : {"idle", "text", "settext", "to", "from", "setxrefs"},
              key : Functions \cup {Nil}, got : Fetched, to : {Nil} \cup {0, 1},
              over : BOOLEAN]
RdType    == rd \in [Readers -> ReadState]
RdKeys   == \A r \in Readers :
                /\ rd[r].pc \in {"text", "settext"} => rd[r].key \in Functions
                /\ rd[r].pc = "settext" => rd[r].got \in Texts

(* What a read holds, unless a write has overtaken it: it is current.       *)
Holds(r) ==
    /\ rd[r].pc = "settext" => rd[r].got = Text(rd[r].key)
    /\ rd[r].pc \in {"from", "setxrefs"} => rd[r].to = xrev
    /\ rd[r].pc = "setxrefs" => rd[r].got = xrev
QuietReads ==
    \A r \in Readers :
        rd[r].pc \in {"settext", "from", "setxrefs"} /\ ~rd[r].over => Holds(r)

ReadInv == RdType /\ xrev \in {0, 1} /\ RdKeys /\ QuietReads

LEMMA InitRead == Init => ReadInv
  <1>1. NoRead \in ReadState
    BY DEF NoRead, ReadState, Fetched
  <1> QED BY <1>1 DEF Init, NoRead, ReadInv, RdType, RdKeys, QuietReads

LEMMA FrameRead ==
  ASSUME ReadInv, UNCHANGED <<sym, xrev, rd>>
  PROVE  ReadInv'
  BY DEF ReadInv, RdType, RdKeys, QuietReads, Holds, Text, View

LEMMA TextType ==
  ASSUME SymType, NEW f \in Functions
  PROVE  /\ Text(f) \in [Shows(f) -> SymState]
         /\ Text(f) \in Texts
         /\ \A a \in Symbols : View(f, a) \in SymState /\ View(f, a).name = sym[a].name
  <1>1. Shows(f) \subseteq Symbols
    BY DEF Shows, Symbols
  <1>2. \A a \in Symbols : View(f, a) \in SymState /\ View(f, a).name = sym[a].name
    BY DEF View, SymType, SymState
  <1>3. Text(f) \in [Shows(f) -> SymState]
    BY <1>1, <1>2 DEF Text
  <1> QED BY <1>2, <1>3 DEF Texts

LEMMA StepOfRead ==
  ASSUME ListInv, ReadInv, NEW r \in Readers, ReadStep(r)
  PROVE  ReadInv'
  <1> USE DEF ReadInv, RdType, RdKeys
  <1>0. NoRead \in ReadState
    BY DEF NoRead, ReadState, Fetched
  <1>1. UNCHANGED <<sym, xrev, wr>>
    BY DEF ReadStep, ReadText, FetchText, StoreText, ReadXRefs, FetchTo, FetchFrom,
           StoreXRefs, ReadFails, dbVars
  <1>2. \A f : Text(f)' = Text(f)
    BY <1>1 DEF Text, View
  <1>3. ASSUME NEW s \in ReadState, rd' = [rd EXCEPT ![r] = s],
               s.pc \in {"text", "settext"} => s.key \in Functions,
               s.pc = "settext" => s.got \in Texts,
               s.pc \in {"settext", "from", "setxrefs"} /\ ~s.over =>
                   /\ s.pc = "settext" => s.got = Text(s.key)
                   /\ s.pc \in {"from", "setxrefs"} => s.to = xrev
                   /\ s.pc = "setxrefs" => s.got = xrev
        PROVE  ReadInv'
    <2>1. rd'[r] = s /\ \A x \in Readers \ {r} : rd'[x] = rd[x]
      BY <1>3
    <2>2. RdType' /\ RdKeys'
      BY <1>3, <2>1
    <2>3. QuietReads'
      BY <1>1, <1>2, <1>3, <2>1 DEF QuietReads, Holds
    <2> QED BY <1>1, <2>2, <2>3
  <1> DEFINE s == rd[r]
  <1>4. CASE \E f \in Functions : ReadText(r, f)
    <2>1. PICK f \in Functions : ReadText(r, f)
      BY <1>4
    <2>2. CASE UNCHANGED rd
      BY <1>1, <2>2, FrameRead
    <2>3. CASE rd' = [rd EXCEPT ![r] = [s EXCEPT !.pc = "text", !.key = f]]
      <3>1. [s EXCEPT !.pc = "text", !.key = f] \in ReadState
        BY DEF ReadState
      <3> QED BY <1>3, <2>3, <3>1 DEF ReadState
    <2> QED BY <2>1, <2>2, <2>3 DEF ReadText
  <1>5. CASE FetchText(r)
    <2>1. s.key \in Functions /\ Text(s.key) \in Fetched /\ Text(s.key) \in Texts
      BY <1>5, TextType DEF FetchText, ListInv, Fetched
    <2>2. rd' = [rd EXCEPT ![r] = [s EXCEPT !.pc = "settext", !.got = Text(s.key)]]
      BY <1>5 DEF FetchText
    <2>3. [s EXCEPT !.pc = "settext", !.got = Text(s.key)] \in ReadState
      BY <2>1 DEF ReadState
    <2>4. \A u : LET q == [s EXCEPT !.pc = "settext", !.got = u]
                 IN  q.pc = "settext" /\ q.key = s.key /\ q.got = u
      BY DEF ReadState
    <2> QED BY <1>3, <2>1, <2>2, <2>3, <2>4
  <1>6. CASE rd' = [rd EXCEPT ![r] = NoRead]
    BY <1>0, <1>3, <1>6 DEF NoRead
  <1>7. CASE ReadXRefs(r)
    <2>1. [s EXCEPT !.pc = "to"] \in ReadState
      BY DEF ReadState
    <2> QED BY <1>3, <1>7, <2>1 DEF ReadXRefs, ReadState
  <1>8. CASE FetchTo(r)
    <2>1. [s EXCEPT !.pc = "from", !.to = xrev] \in ReadState
      BY DEF ReadState
    <2>2. rd' = [rd EXCEPT ![r] = [s EXCEPT !.pc = "from", !.to = xrev]]
      BY <1>8 DEF FetchTo
    <2> QED BY <1>3, <2>1, <2>2 DEF ReadState
  <1>9. CASE FetchFrom(r)
    <2>1. xrev \in Fetched
      BY DEF Fetched
    <2>2. [s EXCEPT !.pc = "setxrefs", !.got = xrev] \in ReadState
      BY <2>1 DEF ReadState
    <2>3. rd' = [rd EXCEPT ![r] = [s EXCEPT !.pc = "setxrefs", !.got = xrev]]
          /\ s.pc = "from"
      BY <1>9 DEF FetchFrom
    <2>4. ~s.over => s.to = xrev
      BY <2>3 DEF QuietReads, Holds
    <2> QED BY <1>3, <2>2, <2>3, <2>4 DEF ReadState
  <1> QED BY <1>4, <1>5, <1>6, <1>7, <1>8, <1>9 DEF ReadStep, StoreText, StoreXRefs,
             ReadFails

(* A write overtakes every read that has fetched something.                 *)
LEMMA WriteRead ==
  ASSUME ListInv, ReadInv, NEW w \in Writers,
         WriteStep(w) \/ \E op \in Ops : \E a \in Targets(op) : WriteStart(w, op, a)
  PROVE  ReadInv'
  <1>1. CASE Write(w)
    <2>1. rd' = Overtaken
      BY <1>1 DEF Write
    <2>2. xrev' \in {0, 1}
      BY <1>1 DEF Write, Effect, Rename, Revise, Edit, Annotate, Define, Rewrite, ReadInv
    <2>3. \A s \in ReadState : [s EXCEPT !.over = TRUE] \in ReadState
      BY DEF ReadState
    <2>4. \A r \in Readers : rd'[r] \in {rd[r], [rd[r] EXCEPT !.over = TRUE]}
      BY <2>1 DEF Overtaken
    <2>5. RdType'
      BY <2>1, <2>3 DEF Overtaken, ReadInv, RdType
    <2>6. RdKeys'
      BY <2>4 DEF ReadInv, RdType, RdKeys, ReadState
    <2>7. QuietReads'
      BY <2>1 DEF Overtaken, ReadInv, RdType, ReadState, QuietReads
    <2> QED BY <2>2, <2>5, <2>6, <2>7 DEF ReadInv
  <1>2. CASE deleteSessionCache(w)
    <2>1. NoRead \in ReadState
      BY DEF NoRead, ReadState, Fetched
    <2> QED BY <1>2, <2>1 DEF deleteSessionCache, NoRead, dbVars, ReadInv, RdType, RdKeys,
                              QuietReads
  <1>3. CASE \/ \E op \in Ops : \E a \in Targets(op) : WriteStart(w, op, a)
             \/ WriteStep(w) /\ ~Write(w) /\ ~deleteSessionCache(w)
    BY <1>3, FrameRead DEF WriteStart, WriteStep, AskName, WriteFails, GetCache,
       CheckFunction, invalidateFunctions, invalidateDecomp, invalidateDecompByOldName,
       invalidateAllDecomp, invalidateAllXRefs, WriteReturns, dbVars
  <1> QED BY <1>1, <1>2, <1>3

LEMMA StepRead == ListInv /\ ReadInv /\ [Next]_vars => ReadInv'
  <1> SUFFICES ASSUME ListInv, ReadInv, [Next]_vars
               PROVE  ReadInv'
    OBVIOUS
  <1>1. CASE UNCHANGED vars
    BY <1>1, FrameRead DEF vars, dbVars
  <1>2. CASE \E S \in SUBSET Functions : PruneNoted(S)
    BY <1>2, FrameRead DEF PruneNoted, dbVars
  <1>3. CASE \E l \in Listers : LoadStep(l)
    BY <1>3, FrameRead DEF LoadStep, LoadLock, LoadFetch, LoadStore, LoadFails, dbVars
  <1> QED BY <1>1, <1>2, <1>3, StepOfRead, WriteRead, ToolTargets DEF Next

----------------------------------------------------------------------------
(* Cross-references.                                                        *)

(* A write that has changed the cross-references and has yet to drop them.  *)
OwesXRefs(w) ==
    \/ wr[w].pc = "cache" /\ wr[w].op \in {"make", "python", "analysis"}
    \/ wr[w].pc = "dirty" /\ wr[w].todo \cap {"xrefs", "drop"} # {}
XRefsInv ==
    xrefs # Nil /\ ~xrefs.over =>
        \/ xrefs.to = xrev /\ xrefs.from = xrev
        \/ skewed
        \/ \E w \in Writers : OwesXRefs(w)

(* A step that leaves cross-references alone, and takes no debt away.       *)
LEMMA XRefsKept ==
  ASSUME XRefsInv, UNCHANGED <<xrev, xrefs, skewed>>,
         \A w \in Writers : OwesXRefs(w) => OwesXRefs(w)'
  PROVE  XRefsInv'
  BY DEF XRefsInv

LEMMA EffectXRefs ==
  ASSUME ListInv, XRefsInv, NEW w \in Writers, Write(w)
  PROVE  XRefsInv'
  <1>1. PICK over \in BOOLEAN :
            /\ wr[w].op = "import" => over
            /\ wr' = [wr EXCEPT ![w] = IF over THEN NoWrite
                                       ELSE [wr[w] EXCEPT !.pc = "cache"]]
            /\ skewed' = (skewed \/ over)
    BY DEF Write
  <1>2. CASE over
    BY <1>1, <1>2 DEF XRefsInv
  <1>3. CASE ~over /\ wr[w].op \in {"make", "python", "analysis"}
    <2>1. OwesXRefs(w)'
      BY <1>1, <1>3 DEF OwesXRefs, ListInv, WrType, WriteState
    <2> QED BY <2>1 DEF XRefsInv
  <1>4. CASE ~over /\ wr[w].op \in {"name", "retype", "proto", "local", "annotate"}
    <2>1. UNCHANGED <<xrev, xrefs>>
      BY <1>4 DEF Write, Effect, Rename, Revise, Edit, Annotate
    <2>2. skewed => skewed'
      BY <1>1
    <2>3. \A x \in Writers : OwesXRefs(x) => OwesXRefs(x)'
      BY <1>1, <1>4 DEF Write, OwesXRefs, ListInv, WrType
    <2> QED BY <2>1, <2>2, <2>3 DEF XRefsInv
  <1>5. wr[w].op \in Ops
    BY DEF Write, ListInv, OpTarget
  <1> QED BY <1>1, <1>2, <1>3, <1>4, <1>5 DEF Ops

LEMMA StepXRefs == ListInv /\ ReadInv /\ XRefsInv /\ [Next]_vars => XRefsInv'
  <1> SUFFICES ASSUME ListInv, ReadInv, XRefsInv, [Next]_vars
               PROVE  XRefsInv'
    OBVIOUS
  <1> USE DEF dbVars, cacheVars
  <1>1. CASE UNCHANGED vars
    BY <1>1, XRefsKept DEF vars, OwesXRefs
  <1>2. CASE \E S \in SUBSET Functions : PruneNoted(S)
    BY <1>2 DEF PruneNoted, XRefsInv, OwesXRefs
  <1>3. CASE \E l \in Listers : LoadStep(l)
    BY <1>3, XRefsKept DEF LoadStep, LoadLock, LoadFetch, LoadStore, LoadFails, OwesXRefs
  <1>4. ASSUME NEW r \in Readers, ReadStep(r)
        PROVE  XRefsInv'
    <2>1. CASE StoreXRefs(r)
      <3>1. UNCHANGED <<xrev, skewed, wr>> /\ rd[r].pc = "setxrefs"
            /\ xrefs' = [to |-> rd[r].to, from |-> rd[r].got, over |-> rd[r].over]
        BY <2>1 DEF StoreXRefs
      <3>2. ~rd[r].over => rd[r].to = xrev /\ rd[r].got = xrev
        BY <3>1 DEF ReadInv, QuietReads, Holds
      <3> QED BY <3>1, <3>2 DEF XRefsInv
    <2>2. CASE ~StoreXRefs(r)
      BY <1>4, <2>2, XRefsKept DEF ReadStep, ReadText, FetchText, StoreText, ReadXRefs,
         FetchTo, FetchFrom, ReadFails, OwesXRefs
    <2> QED BY <2>1, <2>2
  <1>5. ASSUME NEW w \in Writers, ToolCall(w) \/ WriteStep(w)
        PROVE  XRefsInv'
    <2>1. WrType
      BY DEF ListInv
    <2>2. CASE ToolCall(w)
      <3>1. PICK op \in Ops : \E a \in Targets(op) : WriteStart(w, op, a)
        BY <2>2, ToolTargets
      <3> QED BY <2>1, <3>1, XRefsKept DEF WriteStart, OwesXRefs, WrType
    <2>3. CASE AskName(w) \/ WriteFails(w) \/ WriteReturns(w)
      BY <2>1, <2>3, XRefsKept DEF AskName, WriteFails, WriteReturns, OwesXRefs, WrType
    <2>4. CASE GetCache(w)
      <3>1. \A op \in {"make", "python", "analysis"} :
                Todo(op) \cap {"xrefs", "drop"} # {}
        BY DEF Todo
      <3> QED BY <2>1, <2>4, <3>1, XRefsKept DEF GetCache, OwesXRefs, WrType, WriteState
    <2>5. CASE CheckFunction(w)
      BY <2>1, <2>5, XRefsKept DEF CheckFunction, OwesXRefs, WrType
    <2>6. CASE \E step \in {"functions", "own", "byname", "all"} :
                   Due(w, step) /\ UNCHANGED <<xrev, xrefs, skewed>>
      BY <2>1, <2>6, XRefsKept DEF Due, OwesXRefs, WrType, WriteState
    <2>7. CASE invalidateAllXRefs(w) \/ deleteSessionCache(w)
      BY <2>7 DEF invalidateAllXRefs, deleteSessionCache, XRefsInv
    <2> QED BY <1>5, <2>2, <2>3, <2>4, <2>5, <2>6, <2>7, EffectXRefs
            DEF WriteStep, invalidateFunctions, invalidateDecomp,
                invalidateDecompByOldName, invalidateAllDecomp
  <1> QED BY <1>1, <1>2, <1>3, <1>4, <1>5 DEF Next

(* Cached cross-references that no write overtook are the database's in     *)
(* both directions once no write is settling: every tool that changes them  *)
(* drops them all before it returns.                                        *)
THEOREM CachesXRefsFresh == Spec => []XRefsFresh
  <1>1. Init => XRefsInv
    BY DEF Init, XRefsInv
  <1>2. XRefsInv => XRefsFresh
    BY DEF XRefsInv, XRefsFresh, OwesXRefs, Settling
  <1>3. ListInv /\ [Next]_vars => ListInv'
    BY StepList
  <1> QED BY <1>1, <1>2, <1>3, InitList, InitRead, StepRead, StepXRefs, PTL DEF Spec

----------------------------------------------------------------------------
(* Pseudocode.                                                              *)

Entries  == [text : Texts, over : BOOLEAN, unsought : SUBSET Symbols]
EntryInv == texts \in [Functions -> {Nil} \cup Entries]

(* Entries change in what they have not been looked through for alone.      *)
LEMMA UnsoughtEntries ==
  ASSUME EntryInv, NEW a, NEW F, a \in Symbols \/ F = {}, texts' = Unsought(a, F)
  PROVE  /\ EntryInv'
         /\ \A f \in Functions :
               /\ texts'[f] = Nil <=> texts[f] = Nil
               /\ texts[f] # Nil => /\ texts'[f].text = texts[f].text
                                    /\ texts'[f].over = texts[f].over
                                    /\ texts[f].unsought \subseteq texts'[f].unsought
                                    /\ f \in F => a \in texts'[f].unsought
  <1>1. ASSUME NEW f \in Functions
        PROVE  /\ texts'[f] \in {Nil} \cup Entries
               /\ texts'[f] = Nil <=> texts[f] = Nil
               /\ texts[f] # Nil => /\ texts'[f].text = texts[f].text
                                    /\ texts'[f].over = texts[f].over
                                    /\ texts[f].unsought \subseteq texts'[f].unsought
                                    /\ f \in F => a \in texts'[f].unsought
    <2>1. texts[f] \in {Nil} \cup Entries /\ Nil \notin Entries
      BY NilAssumption DEF EntryInv, Entries
    <2>2. texts'[f] = IF f \in F /\ texts[f] # Nil
                      THEN [texts[f] EXCEPT !.unsought = @ \cup {a}] ELSE texts[f]
      BY DEF Unsought
    <2>3. CASE f \in F /\ texts[f] # Nil
      <3>1. texts'[f] = [texts[f] EXCEPT !.unsought = @ \cup {a}] /\ texts[f] \in Entries
        BY <2>1, <2>2, <2>3
      <3>2. texts'[f] \in Entries
        BY <2>3, <3>1 DEF Entries
      <3>3. /\ texts'[f].text = texts[f].text /\ texts'[f].over = texts[f].over
            /\ texts'[f].unsought = texts[f].unsought \cup {a}
        BY <3>1 DEF Entries
      <3> QED BY <2>1, <2>3, <3>2, <3>3
    <2>4. CASE ~(f \in F /\ texts[f] # Nil)
      BY <2>1, <2>2, <2>4
    <2> QED BY <2>3, <2>4
  <1>2. EntryInv'
    BY <1>1 DEF EntryInv, Unsought
  <1> QED BY <1>1, <1>2

(* What a write of one symbol leaves alone; the others leave nothing.       *)
LEMMA IgnoresSymbols ==
  ASSUME ListInv, NEW w \in Writers, Write(w)
  PROVE  wr[w].a \in Symbols \/ Ignores(wr[w].op, wr[w].a, wr[w].old) = {}
  <1>1. wr[w].op \in Ops /\ wr[w].a \in Targets(wr[w].op)
    BY DEF ListInv, OpTarget, Write
  <1>2. CASE wr[w].op \in AsksName \cup {"annotate"}
    BY <1>1, <1>2 DEF Targets, AsksName, Symbols
  <1>3. CASE wr[w].op \notin AsksName \cup {"annotate"}
    BY <1>3 DEF Ignores
  <1> QED BY <1>2, <1>3

LEMMA CheckEntries ==
  ASSUME ListInv, functions \in Lists, EntryInv, NEW a, LeavesCallers(a)
  PROVE  /\ EntryInv'
         /\ \A f \in Functions :
               /\ texts'[f] = Nil <=> texts[f] = Nil
               /\ texts[f] # Nil => /\ texts'[f].text = texts[f].text
                                    /\ texts'[f].over = texts[f].over
                                    /\ texts[f].unsought \subseteq texts'[f].unsought
                                    /\ isCachedFunction(a) /\ f # a => a \in texts'[f].unsought
  <1>1. CASE isCachedFunction(a)
    <2>1. a \in Symbols
      BY <1>1 DEF isCachedFunction, Lists, Symbols
    <2>2. texts' = Unsought(a, Functions \ {a})
      BY <1>1 DEF LeavesCallers
    <2>3. /\ EntryInv'
          /\ \A f \in Functions :
                /\ texts'[f] = Nil <=> texts[f] = Nil
                /\ texts[f] # Nil => /\ texts'[f].text = texts[f].text
                                     /\ texts'[f].over = texts[f].over
                                     /\ texts[f].unsought \subseteq texts'[f].unsought
                                     /\ f \in Functions \ {a} => a \in texts'[f].unsought
      BY <2>1, <2>2, UnsoughtEntries
    <2> QED BY <2>3
  <1>2. CASE ~isCachedFunction(a)
    BY <1>2 DEF LeavesCallers, EntryInv
  <1> QED BY <1>1, <1>2

LEMMA StepEntries ==
  ASSUME ListInv, ReadInv, functions \in Lists, EntryInv, [Next]_vars
  PROVE  EntryInv'
  <1> USE DEF cacheVars
  <1>1. ASSUME NEW S, DropTexts(S) PROVE EntryInv'
    BY <1>1 DEF DropTexts, EntryInv
  <1>2. CASE UNCHANGED texts
    BY <1>2 DEF EntryInv
  <1>3. ASSUME NEW r \in Readers, StoreText(r) PROVE EntryInv'
    <2>1. [text |-> rd[r].got, over |-> rd[r].over, unsought |-> {}] \in Entries
      BY <1>3 DEF StoreText, ReadInv, RdType, ReadState, RdKeys, Entries
    <2>2. \E t \in Entries : SetText(rd[r].key, t)
      BY <1>3, <2>1 DEF StoreText
    <2> QED BY <2>2 DEF SetText, EntryInv
  <1>4. ASSUME NEW w \in Writers, Write(w) PROVE EntryInv'
    BY <1>4, IgnoresSymbols, UnsoughtEntries DEF Write
  <1>5. ASSUME NEW w \in Writers, CheckFunction(w) PROVE EntryInv'
    BY <1>5, CheckEntries DEF CheckFunction
  <1>6. ASSUME NEW r \in Readers, ReadStep(r) PROVE EntryInv'
    BY <1>2, <1>3, <1>6 DEF ReadStep, ReadText, FetchText, ReadXRefs, FetchTo, FetchFrom,
       StoreXRefs, ReadFails
  <1>7. ASSUME NEW w \in Writers, ToolCall(w) \/ WriteStep(w) PROVE EntryInv'
    <2>1. CASE ToolCall(w)
      <3>1. PICK op \in Ops : \E a \in Targets(op) : WriteStart(w, op, a)
        BY <2>1, ToolTargets
      <3> QED BY <1>2, <3>1 DEF WriteStart
    <2>2. CASE \/ AskName(w) \/ WriteFails(w) \/ GetCache(w) \/ invalidateFunctions(w)
               \/ invalidateAllXRefs(w) \/ WriteReturns(w)
      BY <1>2, <2>2 DEF AskName, WriteFails, GetCache, invalidateFunctions,
         invalidateAllXRefs, WriteReturns
    <2>3. CASE \/ invalidateDecomp(w) \/ invalidateDecompByOldName(w)
               \/ invalidateAllDecomp(w) \/ deleteSessionCache(w)
      BY <1>1, <2>3 DEF invalidateDecomp, invalidateDecompByOldName, invalidateAllDecomp,
         deleteSessionCache
    <2> QED BY <1>4, <1>5, <1>7, <2>1, <2>2, <2>3 DEF WriteStep
  <1> QED BY <1>1, <1>2, <1>6, <1>7 DEF Next, vars, PruneNoted, LoadStep, LoadLock,
             LoadFetch, LoadStore, LoadFails

(* A write that has yet to drop f's text for what it did to symbol a, which *)
(* the text shows under the name n.                                         *)
OwesText(w, f, a, n) ==
    \/ /\ wr[w].pc = "cache"
       /\ \/ wr[w].op \in {"python", "analysis"}
          \/ wr[w].op \in {"proto", "local", "annotate"} /\ wr[w].a = f
          \/ wr[w].op \in {"name", "retype", "proto"} /\ wr[w].a = a /\ wr[w].old = n
    \/ wr[w].pc = "check" /\ wr[w].a = a /\ wr[w].old = n
    \/ /\ wr[w].pc = "dirty"
       /\ \/ wr[w].todo \cap {"all", "drop"} # {}
          \/ "own" \in wr[w].todo /\ wr[w].a = f
          \/ "byname" \in wr[w].todo /\ wr[w].a = a /\ wr[w].old = n

(* What a text shows of symbol a is what the decompiler would show now, or  *)
(* somebody owes the end of the text.                                       *)
GoodText(f, a, s) ==
    skewed \/ s = View(f, a) \/ \E w \in Writers : OwesText(w, f, a, s.name)

TextsInv ==
    /\ functions \in Lists
    /\ \A f \in Functions : Fresh(f) =>
           /\ texts[f].text \in [Shows(f) -> SymState]
           /\ \A a \in Shows(f) \ texts[f].unsought : GoodText(f, a, texts[f].text[a])

(* Texts that only disappear, while what is left stays good.                *)
LEMMA TextsKept ==
  ASSUME TextsInv, functions' \in Lists,
         \A f \in Functions : Fresh(f)' =>
             /\ Fresh(f) /\ texts'[f].text = texts[f].text
             /\ texts[f].unsought \subseteq texts'[f].unsought,
         \A f \in Functions : \A a \in Shows(f) : \A s \in SymState :
             /\ Fresh(f) /\ Fresh(f)' /\ a \notin texts'[f].unsought
             /\ s = texts[f].text[a] /\ GoodText(f, a, s)
             => GoodText(f, a, s)'
  PROVE  TextsInv'
  <1>1. ASSUME NEW f \in Functions, Fresh(f)'
        PROVE  /\ texts'[f].text \in [Shows(f) -> SymState]
               /\ \A a \in Shows(f) \ texts'[f].unsought : GoodText(f, a, texts[f].text[a])'
    <2>1. /\ Fresh(f) /\ texts'[f].text = texts[f].text
          /\ texts[f].unsought \subseteq texts'[f].unsought
      BY <1>1
    <2>2. texts[f].text \in [Shows(f) -> SymState]
      BY <2>1 DEF TextsInv
    <2>3. ASSUME NEW a \in Shows(f), a \notin texts'[f].unsought,
                 NEW s \in SymState, s = texts[f].text[a]
          PROVE  GoodText(f, a, s)'
      BY <1>1, <2>1, <2>3 DEF TextsInv
    <2> QED BY <2>1, <2>2, <2>3 DEF GoodText
  <1> QED BY <1>1 DEF TextsInv

(* A step of writer w alone, the texts and the database staying as they are. *)
LEMMA BookTexts ==
  ASSUME TextsInv, NEW w \in Writers,
         UNCHANGED <<sym, texts, functions, skewed>>,
         \A x \in Writers \ {w} : wr'[x] = wr[x],
         \A f \in Functions : \A a \in Shows(f) : \A s \in SymState :
             OwesText(w, f, a, s.name) => OwesText(w, f, a, s.name)'
  PROVE  TextsInv'
  <1>1. ASSUME NEW f \in Functions, NEW a \in Shows(f), NEW s \in SymState,
               GoodText(f, a, s)
        PROVE  GoodText(f, a, s)'
    <2>1. CASE skewed \/ s = View(f, a)
      BY <2>1 DEF GoodText, View
    <2>2. ASSUME NEW x \in Writers, OwesText(x, f, a, s.name)
          PROVE  GoodText(f, a, s)'
      <3>1. OwesText(x, f, a, s.name)'
        BY <2>2 DEF OwesText
      <3> QED BY <3>1 DEF GoodText
    <2> QED BY <1>1, <2>1, <2>2 DEF GoodText
  <1>2. functions' \in Lists
    BY DEF TextsInv
  <1>3. \A f \in Functions : Fresh(f)' => Fresh(f) /\ texts'[f] = texts[f]
    BY DEF Fresh
  <1> QED BY <1>1, <1>2, <1>3, TextsKept

(* Steps that leave everything but the loads, the reads and the list alone. *)
LEMMA FrameTexts ==
  ASSUME TextsInv, UNCHANGED <<sym, skewed, wr>>, functions' \in Lists,
         \A f \in Functions : texts'[f] \in {Nil, texts[f]}
  PROVE  TextsInv'
  <1>1. \A f \in Functions : \A a \in Shows(f) : \A s \in SymState :
            GoodText(f, a, s) => GoodText(f, a, s)'
    BY DEF GoodText, View, OwesText
  <1>2. \A f \in Functions : Fresh(f)' => Fresh(f) /\ texts'[f] = texts[f]
    BY DEF Fresh
  <1> QED BY <1>1, <1>2, TextsKept

LEMMA StoreTexts ==
  ASSUME ListInv, ReadInv, TextsInv, NEW r \in Readers, StoreText(r)
  PROVE  TextsInv'
  <1>1. /\ UNCHANGED <<sym, skewed, wr, functions>>
        /\ rd[r].pc = "settext" /\ rd[r].key \in Functions
    BY DEF StoreText, dbVars, ReadInv, RdKeys
  <1> DEFINE k == rd[r].key
             t == [text |-> rd[r].got, over |-> rd[r].over, unsought |-> {}]
  <1>2. texts'[k] = t
    BY <1>1 DEF StoreText, SetText
  <1>3. \A f \in Functions \ {k} : texts'[f] \in {Nil, texts[f]}
    BY DEF StoreText, SetText
  <1>4. ASSUME NEW f \in Functions, f # k, Fresh(f)'
        PROVE  /\ texts'[f].text \in [Shows(f) -> SymState]
               /\ \A a \in Shows(f) \ texts'[f].unsought : GoodText(f, a, texts[f].text[a])'
    <2>1. texts'[f] = texts[f] /\ Fresh(f)
      BY <1>3, <1>4 DEF Fresh
    <2> QED BY <1>1, <2>1 DEF TextsInv, GoodText, View, OwesText
  <1>5. ASSUME ~rd[r].over
        PROVE  /\ t.text \in [Shows(k) -> SymState]
               /\ \A a \in Shows(k) : t.text[a] = View(k, a)
    <2>1. rd[r].got = Text(k)
      BY <1>1, <1>5 DEF ReadInv, QuietReads, Holds
    <2>2. Text(k) \in [Shows(k) -> SymState] /\ \A a \in Shows(k) : Text(k)[a] = View(k, a)
      BY <1>1, TextType DEF ListInv, Text
    <2> QED BY <2>1, <2>2
  <1>6. ASSUME NEW f \in Functions, f = k, Fresh(f)'
        PROVE  /\ texts'[f].text \in [Shows(f) -> SymState]
               /\ \A a \in Shows(f) \ texts'[f].unsought : GoodText(f, a, texts[f].text[a])'
    <2>1. ~rd[r].over /\ texts'[f].text = t.text
      BY <1>2, <1>6 DEF Fresh
    <2>2. \A a \in Shows(f) : texts'[f].text[a] = View(f, a)'
      BY <1>1, <1>5, <1>6, <2>1 DEF View
    <2> QED BY <1>5, <1>6, <2>1, <2>2 DEF GoodText
  <1>7. functions' \in Lists
    BY <1>1 DEF TextsInv
  <1> QED BY <1>4, <1>6, <1>7 DEF TextsInv

LEMMA ReadTexts ==
  ASSUME ListInv, ReadInv, TextsInv, NEW r \in Readers, ReadStep(r)
  PROVE  TextsInv'
  <1>1. CASE StoreText(r)
    BY <1>1, StoreTexts
  <1>2. CASE ~StoreText(r)
    <2>1. UNCHANGED <<sym, skewed, wr, functions, texts>>
      BY <1>2 DEF ReadStep, ReadText, FetchText, ReadXRefs, FetchTo, FetchFrom,
         StoreXRefs, ReadFails, dbVars, cacheVars
    <2> QED BY <2>1, FrameTexts DEF TextsInv
  <1> QED BY <1>1, <1>2

(* The writes.  Asking, starting and failing owe nothing new.               *)
LEMMA AskTexts ==
  ASSUME ListInv, TextsInv, NEW w \in Writers,
         \/ \E op \in Ops : \E a \in Targets(op) : WriteStart(w, op, a)
         \/ AskName(w) \/ WriteFails(w) \/ WriteReturns(w)
  PROVE  TextsInv'
  <1>1. UNCHANGED <<sym, texts, functions, skewed>>
    BY DEF WriteStart, AskName, WriteFails, WriteReturns, dbVars, cacheVars
  <1>2. \A x \in Writers \ {w} : wr'[x] = wr[x]
    BY DEF WriteStart, AskName, WriteFails, WriteReturns, ListInv, WrType
  <1>3. \A f, a, n : ~OwesText(w, f, a, n)
    BY DEF WriteStart, AskName, WriteFails, WriteReturns, OwesText
  <1> QED BY <1>1, <1>2, <1>3, BookTexts

LEMMA GetTexts ==
  ASSUME ListInv, TextsInv, NEW w \in Writers, GetCache(w)
  PROVE  TextsInv'
  <1>1. WrType
    BY DEF ListInv
  <1>2. UNCHANGED <<sym, texts, functions, skewed>>
    BY DEF GetCache, dbVars, cacheVars
  <1>3. \A x \in Writers \ {w} : wr'[x] = wr[x]
    BY <1>1 DEF GetCache, WrType
  <1>4. ASSUME NEW f \in Functions, NEW a \in Shows(f), NEW s \in SymState,
               OwesText(w, f, a, s.name)
        PROVE  OwesText(w, f, a, s.name)'
    <2>1. /\ wr'[w].op = wr[w].op /\ wr'[w].a = wr[w].a /\ wr'[w].old = wr[w].old
          /\ wr'[w].pc = IF wr[w].op = "name" THEN "check" ELSE "dirty"
          /\ wr'[w].todo = Todo(wr[w].op) /\ wr[w].pc = "cache"
      BY <1>1 DEF GetCache, WrType, WriteState
    <2>2. /\ Todo("retype") = {"byname"} /\ Todo("proto") = {"own", "byname"}
          /\ Todo("local") = {"own"} /\ Todo("annotate") = {"functions", "own"}
          /\ Todo("python") = {"functions", "all", "xrefs"}
          /\ Todo("analysis") = {"drop"}
      BY DEF Todo
    <2>3. CASE wr[w].op = "name"
      BY <1>4, <2>1, <2>3 DEF OwesText
    <2>4. CASE wr[w].op \in {"retype", "proto"} /\ wr[w].a = a /\ wr[w].old = s.name
      <3>1. "byname" \in wr'[w].todo /\ wr'[w].pc = "dirty"
        BY <2>1, <2>2, <2>4
      <3> QED BY <2>1, <2>4, <3>1 DEF OwesText
    <2>5. CASE wr[w].op \in {"proto", "local", "annotate"} /\ wr[w].a = f
      <3>1. "own" \in wr'[w].todo /\ wr'[w].pc = "dirty"
        BY <2>1, <2>2, <2>5
      <3> QED BY <2>1, <2>5, <3>1 DEF OwesText
    <2>6. CASE wr[w].op \in {"python", "analysis"}
      <3>1. wr'[w].todo \cap {"all", "drop"} # {} /\ wr'[w].pc = "dirty"
        BY <2>1, <2>2, <2>6
      <3> QED BY <3>1 DEF OwesText
    <2> QED BY <1>4, <2>1, <2>3, <2>4, <2>5, <2>6 DEF OwesText
  <1> QED BY <1>2, <1>3, <1>4, BookTexts

(* The look at the function list settles which texts are looked through.    *)
LEMMA CheckTexts ==
  ASSUME ListInv, EntryInv, TextsInv, NEW w \in Writers, CheckFunction(w)
  PROVE  TextsInv'
  <1>1. /\ UNCHANGED <<sym, functions, skewed>> /\ LeavesCallers(wr[w].a)
        /\ functions \in Lists
    BY DEF CheckFunction, dbVars, TextsInv
  <1>2. \A x \in Writers \ {w} : wr'[x] = wr[x]
    BY DEF CheckFunction, ListInv, WrType
  <1>3. /\ wr[w].pc = "check" /\ wr'[w].a = wr[w].a /\ wr'[w].old = wr[w].old
        /\ wr'[w].pc = "dirty"
        /\ IF isCachedFunction(wr[w].a) THEN "own" \in wr'[w].todo
                                        ELSE "byname" \in wr'[w].todo
    BY DEF CheckFunction, ListInv, WrType, WriteState
  <1>4. \A f \in Functions :
            /\ texts'[f] = Nil <=> texts[f] = Nil
            /\ texts[f] # Nil => /\ texts'[f].text = texts[f].text
                                 /\ texts'[f].over = texts[f].over
                                 /\ texts[f].unsought \subseteq texts'[f].unsought
                                 /\ isCachedFunction(wr[w].a) /\ f # wr[w].a
                                        => wr[w].a \in texts'[f].unsought
    BY <1>1, CheckEntries
  <1>5. ASSUME NEW f \in Functions, NEW a \in Shows(f), NEW s \in SymState,
               Fresh(f), a \notin texts'[f].unsought, GoodText(f, a, s)
        PROVE  GoodText(f, a, s)'
    <2>1. CASE skewed \/ s = View(f, a)
      BY <1>1, <2>1 DEF GoodText, View
    <2>2. ASSUME NEW x \in Writers, OwesText(x, f, a, s.name)
          PROVE  OwesText(x, f, a, s.name)'
      <3>1. CASE x # w
        BY <1>2, <2>2, <3>1 DEF OwesText
      <3>2. CASE x = w
        <4>1. wr[w].a = a /\ wr[w].old = s.name
          BY <1>3, <2>2, <3>2 DEF OwesText
        <4>2. isCachedFunction(a) => a = f
          BY <1>4, <1>5, <4>1 DEF Fresh
        <4> QED BY <1>3, <3>2, <4>1, <4>2 DEF OwesText
      <3> QED BY <3>1, <3>2
    <2> QED BY <1>5, <2>1, <2>2 DEF GoodText
  <1>6. \A f \in Functions : Fresh(f)' =>
            /\ Fresh(f) /\ texts'[f].text = texts[f].text
            /\ texts[f].unsought \subseteq texts'[f].unsought
    BY <1>4 DEF Fresh
  <1> QED BY <1>1, <1>5, <1>6, TextsKept

(* The invalidations drop the texts that they are owed for.                 *)
LEMMA InvalidateTexts ==
  ASSUME ListInv, TextsInv, NEW w \in Writers,
         \/ invalidateFunctions(w) \/ invalidateDecomp(w)
         \/ invalidateDecompByOldName(w) \/ invalidateAllDecomp(w)
         \/ invalidateAllXRefs(w)
  PROVE  TextsInv'
  <1> USE DEF dbVars
  <1>1. WrType
    BY DEF ListInv
  <1>2. /\ UNCHANGED <<sym, skewed>> /\ functions' \in {functions, Nil}
        /\ \A f \in Functions : texts'[f] \in {Nil, texts[f]}
    BY DEF invalidateFunctions, invalidateDecomp, invalidateDecompByOldName,
           invalidateAllDecomp, invalidateAllXRefs, DropTexts
  <1>3. functions' \in Lists
    BY <1>2 DEF TextsInv, Lists
  <1>4. PICK step \in {"functions", "own", "byname", "all", "xrefs"} :
            /\ Due(w, step)
            /\ step = "own" => invalidateDecomp(w)
            /\ step = "byname" => invalidateDecompByOldName(w)
            /\ step = "all" => invalidateAllDecomp(w)
    BY DEF invalidateFunctions, invalidateDecomp, invalidateDecompByOldName,
           invalidateAllDecomp, invalidateAllXRefs
  <1>5. /\ wr[w].pc = "dirty" /\ wr'[w].pc = "dirty"
        /\ wr'[w].a = wr[w].a /\ wr'[w].old = wr[w].old
        /\ wr'[w].todo = wr[w].todo \ {step}
        /\ \A x \in Writers \ {w} : wr'[x] = wr[x]
    BY <1>1, <1>4 DEF Due, WrType, WriteState
  <1>6. ASSUME NEW f \in Functions, NEW a \in Shows(f), NEW s \in SymState,
               Fresh(f), Fresh(f)', s = texts[f].text[a], GoodText(f, a, s)
        PROVE  GoodText(f, a, s)'
    <2>1. CASE skewed \/ s = View(f, a)
      BY <1>2, <2>1 DEF GoodText, View
    <2>2. ASSUME NEW x \in Writers, OwesText(x, f, a, s.name)
          PROVE  GoodText(f, a, s)'
      <3>1. CASE x # w
        BY <1>5, <2>2, <3>1 DEF GoodText, OwesText
      <3>2. CASE x = w
        <4>1. texts'[f] # Nil
          BY <1>6 DEF Fresh
        <4>2. step = "own" => wr[w].a # f
          BY <1>4, <4>1 DEF invalidateDecomp, DropTexts
        <4>3. step = "byname" => ~(wr[w].a = a /\ wr[w].old = s.name)
          <5>1. a \in DOMAIN texts[f].text
            BY <1>6 DEF TextsInv
          <5> QED BY <1>4, <1>6, <4>1, <5>1
                  DEF invalidateDecompByOldName, DropTexts, Contains, Fresh
        <4>4. step # "all"
          BY <1>4, <4>1 DEF invalidateAllDecomp, DropTexts
        <4>5. OwesText(w, f, a, s.name)'
          BY <1>5, <2>2, <3>2, <4>2, <4>3, <4>4 DEF OwesText
        <4> QED BY <4>5 DEF GoodText
      <3> QED BY <3>1, <3>2
    <2> QED BY <1>6, <2>1, <2>2 DEF GoodText
  <1>7. \A f \in Functions : Fresh(f)' => Fresh(f) /\ texts'[f] = texts[f]
    BY <1>2 DEF Fresh
  <1> QED BY <1>3, <1>6, <1>7, TextsKept

LEMMA DropsTexts ==
  ASSUME TextsInv, NEW w \in Writers, deleteSessionCache(w)
  PROVE  TextsInv'
  <1>1. \A f \in Functions : texts'[f] = Nil
    BY DEF deleteSessionCache, DropTexts
  <1>2. functions' \in Lists
    BY DEF deleteSessionCache, Lists
  <1> QED BY <1>1, <1>2 DEF TextsInv, Fresh

(* What a write changes in the view of a symbol, and who sees it.           *)
LEMMA EffectView ==
  ASSUME SymType, NEW w \in Writers, Effect(wr[w].op, wr[w].a), wr[w].op \in Ops,
         NEW f \in Functions, NEW a \in Symbols, View(f, a)' # View(f, a)
  PROVE  \/ wr[w].op \in {"name", "retype", "proto", "annotate"} /\ wr[w].a = a
         \/ wr[w].op = "local" /\ wr[w].a = f
         \/ wr[w].op \in {"python", "import", "analysis"}
  <1>1. sym'[a] # sym[a]
    BY DEF View
  <1>2. CASE wr[w].op \in {"name", "retype", "proto", "annotate"}
    BY <1>1, <1>2 DEF Effect, Rename, Revise, Annotate, SymType
  <1>3. CASE wr[w].op = "local"
    <2>1. wr[w].a = a /\ sym'[a] = Edited(sym[a])
      BY <1>1, <1>3 DEF Effect, Edit, SymType
    <2>2. ASSUME a # f PROVE View(f, a)' = View(f, a)
      <3>1. sym[a] \in SymState
        BY DEF SymType
      <3>2. \A s \in SymState : [Edited(s) EXCEPT !.inside = 0] = [s EXCEPT !.inside = 0]
        BY DEF Edited, SymState
      <3> QED BY <2>1, <2>2, <3>1, <3>2 DEF View
    <2> QED BY <1>3, <2>1, <2>2
  <1>4. CASE wr[w].op = "make"
    BY <1>1, <1>4 DEF Effect, Define
  <1> QED BY <1>2, <1>3, <1>4 DEF Ops

(* The write itself: whoever changes a symbol that a fresh text shows owes  *)
(* the text's end, if it asked for the name the text shows; or else the     *)
(* text is not looked through.                                              *)
LEMMA EffectTexts ==
  ASSUME ListInv, EntryInv, TextsInv, NEW w \in Writers, Write(w)
  PROVE  TextsInv'
  <1>1. WrType /\ wr[w].pc = "write" /\ wr[w].op \in Ops /\ wr[w].a \in Targets(wr[w].op)
    BY DEF ListInv, OpTarget, Write
  <1>2. PICK over \in BOOLEAN :
            /\ wr[w].op = "import" => over
            /\ wr' = [wr EXCEPT ![w] = IF over THEN NoWrite
                                       ELSE [wr[w] EXCEPT !.pc = "cache"]]
            /\ skewed' = (skewed \/ over)
    BY DEF Write
  <1> DEFINE F == Ignores(wr[w].op, wr[w].a, wr[w].old)
  <1>3. /\ functions' = functions /\ Effect(wr[w].op, wr[w].a)
        /\ texts' = Unsought(wr[w].a, F)
    BY DEF Write
  <1>4. functions' \in Lists
    BY <1>3 DEF TextsInv
  <1>5. \A x \in Writers \ {w} : wr'[x] = wr[x]
    BY <1>1, <1>2 DEF WrType
  <1>6. \A f \in Functions :
            /\ texts'[f] = Nil <=> texts[f] = Nil
            /\ texts[f] # Nil => /\ texts'[f].text = texts[f].text
                                 /\ texts'[f].over = texts[f].over
                                 /\ texts[f].unsought \subseteq texts'[f].unsought
                                 /\ f \in F => wr[w].a \in texts'[f].unsought
    <2> HIDE DEF F
    <2>1. wr[w].a \in Symbols \/ F = {}
      BY IgnoresSymbols DEF F
    <2> QED BY <1>3, <2>1, UnsoughtEntries
  <1>7. \A f \in Functions : Fresh(f)' =>
            /\ Fresh(f) /\ texts'[f].text = texts[f].text
            /\ texts[f].unsought \subseteq texts'[f].unsought
    BY <1>6 DEF Fresh
  <1>8. CASE over \/ skewed
    <2>1. skewed'
      BY <1>2, <1>8
    <2>2. \A f \in Functions : \A a \in Shows(f) : \A s \in SymState : GoodText(f, a, s)'
      BY <2>1 DEF GoodText
    <2> QED BY <1>4, <1>7, <2>2, TextsKept
  <1>9. CASE ~over /\ ~skewed
    <2>1. /\ wr'[w].pc = "cache" /\ wr'[w].op = wr[w].op /\ wr'[w].a = wr[w].a
          /\ wr'[w].old = wr[w].old /\ wr[w].op # "import"
      BY <1>1, <1>2, <1>9 DEF WrType, WriteState
    <2>2. ASSUME NEW f \in Functions, NEW a \in Shows(f), NEW s \in SymState,
                 Fresh(f), a \notin texts'[f].unsought, GoodText(f, a, s)
          PROVE  GoodText(f, a, s)'
      <3>1. ASSUME NEW x \in Writers, OwesText(x, f, a, s.name)
            PROVE  GoodText(f, a, s)'
        <4>1. x # w
          BY <1>1, <3>1 DEF OwesText
        <4> QED BY <1>5, <3>1, <4>1 DEF GoodText, OwesText
      <3>2. CASE s = View(f, a) /\ View(f, a)' = View(f, a)
        BY <3>2 DEF GoodText
      <3>3. CASE s = View(f, a) /\ View(f, a)' # View(f, a)
        <4>1. a \in Symbols
          BY DEF Shows, Symbols
        <4>2. s.name = sym[a].name /\ SymType
          BY <3>3, <4>1, TextType DEF ListInv
        <4>3. f \in F => wr[w].a # a
          BY <1>6, <2>2 DEF Fresh
        <4>4. OwesText(w, f, a, s.name)'
          <5>1. CASE wr[w].op \in {"name", "retype", "proto"} /\ wr[w].a = a
            <6>1. wr[w].old = sym[a].name \/ (wr[w].op = "proto" /\ f = a)
              BY <4>3, <5>1 DEF Ignores, AsksName
            <6> QED BY <2>1, <4>2, <5>1, <6>1 DEF OwesText
          <5>2. CASE wr[w].op = "annotate" /\ wr[w].a = a
            <6>1. f = a
              BY <4>3, <5>2 DEF Ignores
            <6> QED BY <2>1, <5>2, <6>1 DEF OwesText
          <5>3. CASE wr[w].op = "local" /\ wr[w].a = f
            BY <2>1, <5>3 DEF OwesText
          <5>4. CASE wr[w].op \in {"python", "analysis"}
            BY <2>1, <5>4 DEF OwesText
          <5> QED BY <1>1, <1>3, <2>1, <3>3, <4>1, <4>2, <5>1, <5>2, <5>3, <5>4, EffectView
        <4> QED BY <4>4 DEF GoodText
      <3> QED BY <1>9, <2>2, <3>1, <3>2, <3>3 DEF GoodText
    <2> QED BY <1>4, <1>7, <2>2, TextsKept
  <1> QED BY <1>8, <1>9

LEMMA StepTexts ==
  ASSUME ListInv, ReadInv, EntryInv, TextsInv, [Next]_vars
  PROVE  TextsInv'
  <1> USE DEF dbVars, cacheVars
  <1>1. CASE UNCHANGED vars
    BY <1>1, FrameTexts DEF vars, TextsInv
  <1>2. CASE \E S \in SUBSET Functions : PruneNoted(S)
    BY <1>2, FrameTexts DEF PruneNoted, DropTexts, TextsInv
  <1>3. ASSUME NEW l \in Listers, LoadStep(l)
        PROVE  TextsInv'
    <2>1. UNCHANGED <<sym, skewed, wr, texts>>
      BY <1>3 DEF LoadStep, LoadLock, LoadFetch, LoadStore, LoadFails
    <2>2. functions' \in Lists
      BY <1>3 DEF LoadStep, LoadLock, LoadFetch, LoadStore, LoadFails, ListInv, LsType,
                  TextsInv
    <2> QED BY <2>1, <2>2, FrameTexts
  <1> QED BY <1>1, <1>2, <1>3, ReadTexts, ToolTargets, AskTexts, GetTexts, CheckTexts,
             InvalidateTexts, DropsTexts, EffectTexts DEF Next, WriteStep

LEMMA InitEntries == Init => EntryInv /\ TextsInv
  BY DEF Init, EntryInv, TextsInv, Fresh, Lists

(* Pseudocode that no write overtook shows every symbol as the decompiler   *)
(* would now, once no write is settling, however many symbols were renamed, *)
(* retyped, commented or annotated since, by however many tools at once,    *)
(* whatever it mentions and whether or not the old names were to be had;    *)
(* except the symbols for whose change it was not looked through.           *)
THEOREM CachesTextsFresh == Spec => []TextsFresh
  <1>1. TextsInv => TextsFresh
    BY DEF TextsInv, TextsFresh, GoodText, OwesText, Settling
  <1>2. ListInv /\ [Next]_vars => ListInv'
    BY StepList
  <1>3. ListInv /\ ReadInv /\ EntryInv /\ TextsInv /\ [Next]_vars => EntryInv' /\ TextsInv'
    BY StepEntries, StepTexts DEF TextsInv
  <1> QED BY <1>1, <1>2, <1>3, InitList, InitRead, InitEntries, StepRead, PTL DEF Spec

----------------------------------------------------------------------------
(* The LRU.                                                                 *)

Elements(list) == {list[i] : i \in 1..Len(list)}
Distinct(list) == \A i, j \in 1..Len(list) : list[i] = list[j] => i = j

(* The place that each of some indices has among them.                      *)
Place(left) == [i \in left |-> Cardinality({j \in left : j <= i})]

(* The elements of a list that are left by a removal, counted from the      *)
(* front, are as many as their places: each place gets one of them.         *)
LEMMA RemovedPlaces ==
  ASSUME NEW n \in Nat, NEW left \in SUBSET (1..n)
  PROVE  /\ Cardinality(left) \in 0..n
         /\ left # 1..n => Cardinality(left) < n
         /\ Place(left) \in [left -> 1..Cardinality(left)]
         /\ \A i, j \in left : Place(left)[i] = Place(left)[j] => i = j
         /\ \A k \in 1..Cardinality(left) : \E i \in left : Place(left)[i] = k
  <1> DEFINE upto(i) == {j \in left : j <= i}
             c == Cardinality(left)
  <1>1. IsFiniteSet(1..n) /\ Cardinality(1..n) = n
    BY FS_Interval
  <1>2. IsFiniteSet(left) /\ c <= n /\ c \in Nat /\ (left # 1..n => c # n)
    BY <1>1, FS_Subset, FS_CardinalityType
  <1>3. \A i \in left : /\ IsFiniteSet(upto(i)) /\ Cardinality(upto(i)) \in Nat
                        /\ Cardinality(upto(i)) <= c
                        /\ Cardinality(upto(i)) # 0
    <2> SUFFICES ASSUME NEW i \in left
                 PROVE  /\ IsFiniteSet(upto(i)) /\ Cardinality(upto(i)) \in Nat
                        /\ Cardinality(upto(i)) <= c
                        /\ Cardinality(upto(i)) # 0
      OBVIOUS
    <2>1. upto(i) \in SUBSET left /\ i \in upto(i)
      OBVIOUS
    <2>2. IsFiniteSet(upto(i)) /\ Cardinality(upto(i)) <= c
      BY <1>2, <2>1, FS_Subset
    <2> QED BY <2>1, <2>2, FS_CardinalityType, FS_EmptySet
  <1>4. ASSUME NEW i \in left, NEW j \in left, i < j
        PROVE  Cardinality(upto(i)) < Cardinality(upto(j))
    <2>1. upto(i) \in SUBSET upto(j) /\ j \in upto(j) /\ j \notin upto(i)
      <3>1. \A k \in left : k \in Int
        OBVIOUS
      <3>2. \A k \in left : k <= i => k <= j
        BY <1>4, <3>1
      <3>3. upto(i) \in SUBSET upto(j)
        BY <3>2
      <3>4. j \in upto(j)
        <4>1. j <= j
          BY <3>1
        <4> QED BY <4>1
      <3>5. ~(j <= i)
        BY <1>4, <3>1
      <3> QED BY <3>3, <3>4, <3>5
    <2>2. /\ Cardinality(upto(i)) <= Cardinality(upto(j))
          /\ Cardinality(upto(j)) = Cardinality(upto(i)) => upto(j) = upto(i)
      <3> HIDE DEF upto
      <3> QED BY <1>3, <2>1, FS_Subset
    <2>3. Cardinality(upto(i)) \in Nat /\ Cardinality(upto(j)) \in Nat
      BY <1>3
    <2>4. Cardinality(upto(j)) # Cardinality(upto(i))
      <3> HIDE DEF upto
      <3> QED BY <2>1, <2>2
    <2> HIDE DEF upto
    <2> QED BY <2>2, <2>3, <2>4
  <1>5. Place(left) \in [left -> 1..c] /\ \A i \in left : Place(left)[i] = Cardinality(upto(i))
    <2>1. Place(left) = [i \in left |-> Cardinality(upto(i))]
      BY DEF Place
    <2> HIDE DEF upto
    <2> QED BY <1>2, <1>3, <2>1
  <1>6. \A i, j \in left : Place(left)[i] = Place(left)[j] => i = j
    <2> SUFFICES ASSUME NEW i \in left, NEW j \in left, Place(left)[i] = Place(left)[j]
                 PROVE  i = j
      OBVIOUS
    <2>1. Cardinality(upto(i)) = Cardinality(upto(j))
      BY <1>5
    <2>2. ~(i < j) /\ ~(j < i)
      <3>1. Cardinality(upto(i)) \in Nat /\ Cardinality(upto(j)) \in Nat
        BY <1>3
      <3> HIDE DEF upto
      <3> QED BY <1>4, <2>1, <3>1
    <2> QED BY <2>2
  <1>7. Place(left) \in Injection(left, 1..c)
    BY <1>5, <1>6 DEF Injection, IsInjective
  <1>8. IsFiniteSet(1..c) /\ Cardinality(1..c) = c
    BY <1>2, FS_Interval
  <1>9. Place(left) \in Surjection(left, 1..c)
    BY <1>7, <1>8, FS_Injection
  <1> QED BY <1>2, <1>5, <1>6, <1>9 DEF Surjection

(* What a removal leaves: the elements that are not removed, each as often  *)
(* as before at most, and fewer of them if there was one to remove.         *)
LEMMA RemovedList ==
  ASSUME NEW T, NEW list \in Seq(T), NEW S
  PROVE  /\ Removed(list, S) \in Seq(T)
         /\ Len(Removed(list, S)) <= Len(list)
         /\ Elements(list) \cap S # {} => Len(Removed(list, S)) < Len(list)
         /\ Elements(Removed(list, S)) = Elements(list) \ S
         /\ Distinct(list) => Distinct(Removed(list, S))
  <1> DEFINE left  == {i \in 1..Len(list) : list[i] \notin S}
             place == Place(left)
             at(k) == CHOOSE i \in left : Cardinality({j \in left : j <= i}) = k
             c == Cardinality(left)
             rest == Removed(list, S)
  <1>1. Len(list) \in Nat /\ left \in SUBSET (1..Len(list))
    OBVIOUS
  <1>2. /\ c \in 0..Len(list) /\ (left # 1..Len(list) => c < Len(list))
        /\ place \in [left -> 1..c]
        /\ \A i, j \in left : place[i] = place[j] => i = j
        /\ \A k \in 1..c : \E i \in left : place[i] = k
    <2> HIDE DEF left
    <2> QED BY <1>1, RemovedPlaces
  <1>3. \A k \in 1..c : at(k) \in left /\ place[at(k)] = k
    <2> SUFFICES ASSUME NEW k \in 1..c
                 PROVE  at(k) \in left /\ place[at(k)] = k
      OBVIOUS
    <2>1. \E i \in left : Cardinality({j \in left : j <= i}) = k
      BY <1>2 DEF Place
    <2>2. at(k) \in left /\ Cardinality({j \in left : j <= at(k)}) = k
      <3> HIDE DEF left
      <3> QED BY <2>1
    <2> QED BY <2>2 DEF Place
  <1>4. rest = [k \in 1..c |-> list[at(k)]]
    BY DEF Removed
  <1>5. \A i \in left : at(place[i]) = i /\ place[i] \in 1..c
    <2> HIDE DEF left, place, at, c
    <2> QED BY <1>2, <1>3
  <1> HIDE DEF place, at, c, rest
  <1>6. \A k \in 1..c : list[at(k)] \in T
    BY <1>3
  <1>7. rest \in Seq(T) /\ Len(rest) = c /\ \A k \in 1..c : rest[k] = list[at(k)]
    BY <1>2, <1>4, <1>6
  <1>8. Elements(list) \cap S # {} => c < Len(list)
    <2> SUFFICES ASSUME NEW x \in Elements(list) \cap S
                 PROVE  left # 1..Len(list)
      BY <1>2
    <2>1. PICK i \in 1..Len(list) : x = list[i]
      BY DEF Elements
    <2> QED BY <2>1
  <1>9. Elements(rest) = Elements(list) \ S
    <2>1. ASSUME NEW x \in Elements(rest)
          PROVE  x \in Elements(list) \ S
      <3>1. PICK k \in 1..c : x = list[at(k)]
        BY <1>7, <2>1 DEF Elements
      <3> QED BY <1>3, <3>1 DEF Elements
    <2>2. ASSUME NEW x \in Elements(list) \ S
          PROVE  x \in Elements(rest)
      <3>1. PICK i \in left : x = list[i]
        BY <2>2 DEF Elements
      <3>2. x = rest[place[i]] /\ place[i] \in 1..Len(rest)
        BY <1>5, <1>7, <3>1
      <3> QED BY <3>2 DEF Elements
    <2> QED BY <2>1, <2>2
  <1>10. ASSUME Distinct(list), NEW k \in 1..c, NEW m \in 1..c, rest[k] = rest[m]
         PROVE  k = m
    <2>1. list[at(k)] = list[at(m)] /\ at(k) \in 1..Len(list) /\ at(m) \in 1..Len(list)
      BY <1>3, <1>7, <1>10
    <2>2. at(k) = at(m)
      BY <1>10, <2>1 DEF Distinct
    <2> QED BY <1>3, <2>2
  <1>11. Distinct(list) => Distinct(rest)
    BY <1>7, <1>10 DEF Distinct
  <1> QED BY <1>2, <1>7, <1>8, <1>9, <1>11 DEF rest

(* An element put in front, and the last one taken away.                    *)
LEMMA FrontList ==
  ASSUME NEW T, NEW list \in Seq(T), NEW x \in T
  PROVE  /\ <<x>> \o list \in Seq(T)
         /\ Len(<<x>> \o list) = Len(list) + 1
         /\ Elements(<<x>> \o list) = {x} \cup Elements(list)
         /\ Distinct(list) /\ x \notin Elements(list) => Distinct(<<x>> \o list)
  <1> DEFINE new == <<x>> \o list
  <1>1. /\ new \in Seq(T) /\ Len(new) = Len(list) + 1 /\ Len(list) \in Nat
        /\ new[1] = x /\ \A i \in 1..Len(list) : new[i + 1] = list[i]
    OBVIOUS
  <1>2. \A k \in 1..Len(new) : k # 1 => k - 1 \in 1..Len(list) /\ new[k] = list[k - 1]
    OBVIOUS
  <1> HIDE DEF new
  <1>3. Elements(new) = {x} \cup Elements(list)
    <2>1. ASSUME NEW y \in Elements(new)
          PROVE  y \in {x} \cup Elements(list)
      <3>1. PICK k \in 1..Len(new) : y = new[k]
        BY <2>1 DEF Elements
      <3> QED BY <1>1, <1>2, <3>1 DEF Elements
    <2>2. x \in Elements(new)
      BY <1>1 DEF Elements
    <2>3. ASSUME NEW y \in Elements(list)
          PROVE  y \in Elements(new)
      <3>1. PICK i \in 1..Len(list) : y = list[i]
        BY <2>3 DEF Elements
      <3>2. y = new[i + 1] /\ i + 1 \in 1..Len(new)
        BY <1>1, <3>1
      <3> QED BY <3>2 DEF Elements
    <2> QED BY <2>1, <2>2, <2>3
  <1>4. ASSUME Distinct(list), x \notin Elements(list),
               NEW k \in 1..Len(new), NEW m \in 1..Len(new), new[k] = new[m]
        PROVE  k = m
    <2>1. CASE k = 1 /\ m = 1
      BY <2>1
    <2>2. CASE k # 1 /\ m # 1
      <3>1. k - 1 = m - 1
        BY <1>2, <1>4, <2>2 DEF Distinct
      <3> QED BY <1>1, <3>1
    <2>3. CASE k = 1 /\ m # 1
      BY <1>1, <1>2, <1>4, <2>3 DEF Elements
    <2>4. CASE k # 1 /\ m = 1
      BY <1>1, <1>2, <1>4, <2>4 DEF Elements
    <2> QED BY <2>1, <2>2, <2>3, <2>4
  <1>5. Distinct(list) /\ x \notin Elements(list) => Distinct(new)
    BY <1>4 DEF Distinct
  <1> QED BY <1>1, <1>3, <1>5 DEF new

LEMMA ButLast ==
  ASSUME NEW T, NEW list \in Seq(T), Len(list) > 0, Distinct(list)
  PROVE  LET rest == SubSeq(list, 1, Len(list) - 1)
         IN  /\ rest \in Seq(T) /\ Len(rest) = Len(list) - 1
             /\ Elements(rest) = Elements(list) \ {list[Len(list)]}
             /\ list[Len(list)] \in T
             /\ Distinct(rest)
  <1> DEFINE rest == SubSeq(list, 1, Len(list) - 1)
  <1>1. /\ rest \in Seq(T) /\ Len(rest) = Len(list) - 1 /\ Len(list) \in Nat
        /\ \A i \in 1..Len(rest) : rest[i] = list[i]
        /\ list[Len(list)] \in T
    <2>1. /\ Len(list) \in Nat /\ Len(list) - 1 \in Nat
          /\ Len(list) - 1 <= Len(list) /\ list[Len(list)] \in T
      OBVIOUS
    <2>2. \A i \in 1..(Len(list) - 1) : list[i] \in T
      OBVIOUS
    <2>3. rest = [i \in 1..(Len(list) - 1) |-> list[i]]
      BY <2>1
    <2> HIDE DEF rest
    <2> QED BY <2>1, <2>2, <2>3
  <1> HIDE DEF rest
  <1>2. Elements(rest) = Elements(list) \ {list[Len(list)]}
    <2>1. ASSUME NEW y \in Elements(rest)
          PROVE  y \in Elements(list) \ {list[Len(list)]}
      <3>1. PICK k \in 1..Len(rest) : y = rest[k]
        BY <2>1 DEF Elements
      <3>2. y = list[k] /\ k \in 1..Len(list) /\ k # Len(list) /\ Len(list) \in 1..Len(list)
        BY <1>1, <3>1
      <3> QED BY <3>2 DEF Elements, Distinct
    <2>2. ASSUME NEW y \in Elements(list), y # list[Len(list)]
          PROVE  y \in Elements(rest)
      <3>1. PICK i \in 1..Len(list) : y = list[i]
        BY <2>2 DEF Elements
      <3>2. i \in 1..Len(rest)
        BY <1>1, <2>2, <3>1
      <3> QED BY <1>1, <3>1, <3>2 DEF Elements
    <2> QED BY <2>1, <2>2
  <1>3. \A i \in 1..Len(rest) : i \in 1..Len(list)
    BY <1>1
  <1>4. Distinct(rest)
    BY <1>1, <1>3 DEF Distinct
  <1> QED BY <1>1, <1>2, <1>4 DEF rest

LRUInv == order \in Seq(Functions) /\ LRUSound

LEMMA SoundLists ==
  LRUSound <=> /\ Len(order) <= Cap
               /\ Distinct(order)
               /\ {f \in Functions : texts[f] # Nil} = Elements(order)
  BY DEF LRUSound, Distinct, Elements

(* Dropped texts leave the map and the list.                                *)
LEMMA DropLRU ==
  ASSUME LRUInv, NEW S, DropTexts(S)
  PROVE  LRUInv'
  <1>1. /\ order' = Removed(order, S)
        /\ \A f \in Functions : texts'[f] = IF f \in S THEN Nil ELSE texts[f]
    BY DEF DropTexts
  <1>2. /\ order' \in Seq(Functions) /\ Len(order') <= Len(order)
        /\ Elements(order') = Elements(order) \ S
        /\ Distinct(order')
    BY <1>1, RemovedList, SoundLists DEF LRUInv
  <1>3. Len(order') \in Nat /\ Len(order) \in Nat /\ Len(order) <= Cap /\ Cap \in Nat
    BY <1>2, CapAssumption, SoundLists DEF LRUInv
  <1>4. {f \in Functions : texts'[f] # Nil} = Elements(order')
    BY <1>1, <1>2, SoundLists DEF LRUInv
  <1>5. Len(order') <= Cap
    BY <1>2, <1>3
  <1>6. LRUSound'
    BY <1>2, <1>4, <1>5 DEF LRUSound, Distinct, Elements
  <1> QED BY <1>2, <1>6 DEF LRUInv

(* A text that is used goes to the front, whether it was there or not.      *)
LEMMA FrontLRU ==
  ASSUME LRUInv, NEW f \in Functions, f \in Elements(order),
         order' = <<f>> \o Without(f),
         \A x \in Functions : texts'[x] # Nil <=> texts[x] # Nil
  PROVE  LRUInv'
  <1>1. /\ Without(f) \in Seq(Functions) /\ Len(Without(f)) < Len(order)
        /\ Elements(Without(f)) = Elements(order) \ {f}
        /\ Distinct(Without(f))
    <2>1. Elements(order) \cap {f} # {}
      OBVIOUS
    <2> QED BY <2>1, RemovedList, SoundLists DEF LRUInv, Without
  <1>2. f \notin Elements(Without(f))
    BY <1>1
  <1>3. /\ order' \in Seq(Functions) /\ Len(order') = Len(Without(f)) + 1
        /\ Elements(order') = {f} \cup Elements(Without(f))
        /\ Distinct(order')
    BY <1>1, <1>2, FrontList
  <1>4. Len(order') <= Cap
    <2>1. Len(Without(f)) \in Nat /\ Len(order) \in Nat /\ Len(order) <= Cap
          /\ Cap \in Nat
      BY <1>1, CapAssumption, SoundLists DEF LRUInv
    <2> QED BY <1>1, <1>3, <2>1
  <1>5. {x \in Functions : texts'[x] # Nil} = Elements(order')
    BY <1>1, <1>3, SoundLists DEF LRUInv
  <1>6. LRUSound'
    BY <1>3, <1>4, <1>5 DEF LRUSound, Distinct, Elements
  <1> QED BY <1>3, <1>6 DEF LRUInv

(* A new text is put in front, for the oldest one when the cache is full.   *)
LEMMA SetLRU ==
  ASSUME LRUInv, NEW f \in Functions, NEW t, t # Nil, SetText(f, t)
  PROVE  LRUInv'
  <1> DEFINE full == texts[f] = Nil /\ Len(order) >= Cap
             last == order[Len(order)]
  <1>1. /\ order \in Seq(Functions) /\ Distinct(order) /\ Len(order) <= Cap
        /\ {x \in Functions : texts[x] # Nil} = Elements(order)
        /\ Len(order) \in Nat /\ Cap \in Nat \ {0}
    BY CapAssumption, SoundLists DEF LRUInv
  <1>2. CASE full
    <2> DEFINE rest == SubSeq(order, 1, Len(order) - 1)
    <2>1. Len(order) = Cap /\ Len(order) > 0
      BY <1>1, <1>2
    <2>2. /\ rest \in Seq(Functions) /\ Len(rest) = Len(order) - 1
          /\ Elements(rest) = Elements(order) \ {last} /\ Distinct(rest)
      BY <1>1, <2>1, ButLast
    <2>3. /\ order' = <<f>> \o rest
          /\ \A x \in Functions : texts'[x] = IF x = f THEN t
                                             ELSE IF x = last THEN Nil ELSE texts[x]
      BY <1>2 DEF SetText
    <2> HIDE DEF rest, last
    <2>4. f \notin Elements(rest)
      BY <1>1, <1>2, <2>2
    <2>5. /\ order' \in Seq(Functions) /\ Len(order') = Len(rest) + 1
          /\ Elements(order') = {f} \cup Elements(rest) /\ Distinct(order')
      BY <2>2, <2>3, <2>4, FrontList
    <2>6. {x \in Functions : texts'[x] # Nil} = Elements(order')
      BY <1>1, <2>2, <2>3, <2>5
    <2>7. Len(order') <= Cap
      BY <1>1, <2>1, <2>2, <2>5
    <2>8. LRUSound'
      BY <2>5, <2>6, <2>7 DEF LRUSound, Distinct, Elements
    <2> QED BY <2>5, <2>8 DEF LRUInv
  <1>3. CASE ~full
    <2>1. /\ order' = <<f>> \o Without(f)
          /\ \A x \in Functions : texts'[x] = IF x = f THEN t ELSE texts[x]
      BY <1>3 DEF SetText
    <2>2. CASE texts[f] # Nil
      BY <1>1, <2>1, <2>2, FrontLRU
    <2>3. CASE texts[f] = Nil
      <3>1. f \notin Elements(order) /\ Len(order) < Cap
        BY <1>1, <1>3, <2>3
      <3>2. /\ Without(f) \in Seq(Functions) /\ Len(Without(f)) <= Len(order)
            /\ Elements(Without(f)) = Elements(order) \ {f} /\ Distinct(Without(f))
        BY <1>1, RemovedList DEF Without
      <3>3. f \notin Elements(Without(f)) /\ Elements(Without(f)) = Elements(order)
        BY <3>1, <3>2
      <3>4. /\ order' \in Seq(Functions) /\ Len(order') = Len(Without(f)) + 1
            /\ Elements(order') = {f} \cup Elements(order) /\ Distinct(order')
        BY <2>1, <3>2, <3>3, FrontList
      <3>5. {x \in Functions : texts'[x] # Nil} = Elements(order')
        BY <1>1, <2>1, <3>4
      <3>6. Len(order') <= Cap
        <4>1. Len(Without(f)) \in Nat
          BY <3>2
        <4> QED BY <1>1, <3>1, <3>2, <3>4, <4>1
      <3>7. LRUSound'
        BY <3>4, <3>5, <3>6 DEF LRUSound, Distinct, Elements
      <3> QED BY <3>4, <3>7 DEF LRUInv
    <2> QED BY <2>2, <2>3
  <1> QED BY <1>2, <1>3

LEMMA FrameLRU ==
  ASSUME LRUInv, UNCHANGED <<texts, order>>
  PROVE  LRUInv'
  BY DEF LRUInv, LRUSound

(* The entries are the same, if not what is recorded of them.               *)
LEMMA SameLRU ==
  ASSUME LRUInv, order' = order, \A f \in Functions : texts'[f] = Nil <=> texts[f] = Nil
  PROVE  LRUInv'
  BY DEF LRUInv, LRUSound

LEMMA StepLRU ==
  ASSUME ListInv, ReadInv, EntryInv, TextsInv, LRUInv, [Next]_vars
  PROVE  LRUInv'
  <1> USE DEF cacheVars
  <1>1. CASE UNCHANGED vars
    BY <1>1, FrameLRU DEF vars
  <1>2. CASE \E S \in SUBSET Functions : PruneNoted(S)
    BY <1>2, DropLRU DEF PruneNoted
  <1>3. ASSUME NEW l \in Listers, LoadStep(l)
        PROVE  LRUInv'
    BY <1>3, FrameLRU DEF LoadStep, LoadLock, LoadFetch, LoadStore, LoadFails
  <1>4. ASSUME NEW r \in Readers, ReadStep(r)
        PROVE  LRUInv'
    <2>1. CASE StoreText(r)
      <3> DEFINE t == [text |-> rd[r].got, over |-> rd[r].over, unsought |-> {}]
      <3>1. /\ rd[r].key \in Functions /\ rd[r].got \in Texts /\ rd[r].over \in BOOLEAN
            /\ SetText(rd[r].key, t)
        BY <2>1 DEF StoreText, ReadInv, RdType, ReadState, RdKeys
      <3>2. t # Nil
        BY <3>1, NilAssumption
      <3> HIDE DEF t
      <3> QED BY <3>1, <3>2, SetLRU
    <2>2. ASSUME NEW f \in Functions, ReadText(r, f)
          PROVE  LRUInv'
      <3>1. CASE texts[f] = Nil
        BY <2>2, <3>1, FrameLRU DEF ReadText
      <3>2. CASE texts[f] # Nil
        <4>1. order' = <<f>> \o Without(f) /\ UNCHANGED texts
          BY <2>2, <3>2 DEF ReadText
        <4>2. f \in Elements(order)
          BY <3>2, SoundLists DEF LRUInv
        <4> QED BY <4>1, <4>2, FrontLRU
      <3> QED BY <3>1, <3>2
    <2>3. CASE \/ FetchText(r) \/ ReadXRefs(r) \/ FetchTo(r) \/ FetchFrom(r)
               \/ StoreXRefs(r) \/ ReadFails(r)
      BY <2>3, FrameLRU DEF FetchText, ReadXRefs, FetchTo, FetchFrom, StoreXRefs, ReadFails
    <2> QED BY <1>4, <2>1, <2>2, <2>3 DEF ReadStep
  <1>5. ASSUME NEW w \in Writers, ToolCall(w)
        PROVE  LRUInv'
    <2>1. PICK op \in Ops : \E a \in Targets(op) : WriteStart(w, op, a)
      BY <1>5, ToolTargets
    <2> QED BY <2>1, FrameLRU DEF WriteStart
  <1>6. ASSUME NEW w \in Writers, WriteStep(w)
        PROVE  LRUInv'
    <2>1. CASE \/ invalidateDecomp(w) \/ invalidateDecompByOldName(w)
               \/ invalidateAllDecomp(w) \/ deleteSessionCache(w)
      BY <2>1, DropLRU DEF invalidateDecomp, invalidateDecompByOldName,
                           invalidateAllDecomp, deleteSessionCache
    <2>2. CASE \/ AskName(w) \/ WriteFails(w) \/ GetCache(w) \/ invalidateFunctions(w)
               \/ invalidateAllXRefs(w) \/ WriteReturns(w)
      BY <2>2, FrameLRU DEF AskName, WriteFails, GetCache, invalidateFunctions,
                            invalidateAllXRefs, WriteReturns
    <2>3. CASE Write(w)
      BY <2>3, IgnoresSymbols, UnsoughtEntries, SameLRU DEF Write
    <2>4. CASE CheckFunction(w)
      BY <2>4, CheckEntries, SameLRU DEF CheckFunction, TextsInv
    <2> QED BY <1>6, <2>1, <2>2, <2>3, <2>4 DEF WriteStep
  <1> QED BY <1>1, <1>2, <1>3, <1>4, <1>5, <1>6 DEF Next

(* The LRU's map and its list hold the same texts, each once, and no more   *)
(* than its capacity, whatever is stored, used, evicted and dropped.        *)
THEOREM CachesLRUSound == Spec => []LRUSound
  <1>1. Init => LRUInv
    <2>1. Init => order \in Seq(Functions) /\ Len(order) = 0 /\ Distinct(order)
                  /\ Elements(order) = {}
      BY DEF Init, Distinct, Elements
    <2> QED BY <2>1, CapAssumption DEF Init, LRUInv, LRUSound, Distinct, Elements
  <1>2. LRUInv => LRUSound
    BY DEF LRUInv
  <1>3. ListInv /\ [Next]_vars => ListInv'
    BY StepList
  <1>4. ListInv /\ ReadInv /\ EntryInv /\ TextsInv /\ [Next]_vars => EntryInv' /\ TextsInv'
    BY StepEntries, StepTexts DEF TextsInv
  <1>5. ListInv /\ ReadInv /\ EntryInv /\ TextsInv /\ LRUInv /\ [Next]_vars => LRUInv'
    BY StepLRU
  <1> QED BY <1>1, <1>2, <1>3, <1>4, <1>5, InitList, InitRead, InitEntries, StepRead,
             PTL DEF Spec
=============================================================================
