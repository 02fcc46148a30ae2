--------------------------- MODULE SessionCaches ----------------------------
(***************************************************************************)
(* The caches of one session (internal/server/cache.go) and the tools that *)
(* fill and invalidate them: get_functions and the other loads of the      *)
(* function list, analyze_function's pseudocode, the cross-references, the *)
(* write tools (write.go), annotate_function and py_eval (composite.go),   *)
(* the metadata imports (il2cpp.go, flutter.go) and run_auto_analysis.     *)
(*                                                                         *)
(* The database is what the cached data depend on: of every symbol its     *)
(* name, a revision of its type and, for a function, one of its inside,    *)
(* which is its local variables and comments; which functions exist; a     *)
(* revision of the cross-references.  A pseudocode shows the name and the  *)
(* type of what it mentions, and the inside of its own function.  Names of *)
(* two addresses differ.  The worker executes one request at a time: a     *)
(* fetch or a write is one step.  The cache's mutex is held for one        *)
(* operation, and by a load during its fetch.                              *)
(* Cross-references are kept for one address, since nothing but            *)
(* prune_context drops those of a single one.  Imports, exports, strings   *)
(* and segments are only dropped with the cache as a whole.                *)
(***************************************************************************)
EXTENDS Naturals, Sequences, FiniteSets

CONSTANTS
    Functions,   \* addresses at which there is, or may be, a function
    Labels,      \* addresses of data; every pseudocode mentions them
    Callers,     \* the functions whose pseudocode mentions all functions
    Cap,         \* maxDecompCacheEntries
    Readers,     \* concurrent reads through the caches of texts and xrefs
    Listers,     \* concurrent loads of the function list
    Writers,     \* concurrent write tools and analysis passes
    Faults,      \* "name": GetName fails; "reply": the reply to a write is
                 \* lost, though the worker executes it
    MaxWrites,   \* bound on the number of writes
    Nil          \* no cached value

ASSUME CapAssumption    == Cap \in Nat \ {0}
ASSUME WritesAssumption == MaxWrites \in Nat
ASSUME CacheFaults      == Faults \subseteq {"name", "reply"}

Symbols == Functions \cup Labels
Names   == {"auto", "given"}

VARIABLES
    sym,        \* sym[a]: the name of symbol a and its revisions
    defined,    \* the functions that exist
    xrev,       \* the revision of the cross-references
    functions,  \* sessionCache.functions: the names by address, or Nil
    texts,      \* decompCache.entries: texts[f] is a cached text, or Nil;
                \* history: its fields over and unsought
    order,      \* decompCache.order: the most recently used address first
    xrefs,      \* sessionCache.xrefs at one address, or Nil
    loading,    \* the load that holds the cache's mutex, or none
    rd,         \* rd[r]: the read r
    ls,         \* ls[l]: the load l
    wr,         \* wr[w]: the write w
    skewed,     \* since the caches were dropped, has there been an import, or
                \* a write whose reply was lost?
    writes      \* the number of writes so far

dbVars    == <<sym, defined, xrev>>
cacheVars == <<functions, texts, order, xrefs>>
vars == <<dbVars, cacheVars, loading, rd, ls, wr, skewed, writes>>

NoRead  == [pc |-> "idle", key |-> Nil, got |-> Nil, to |-> Nil, over |-> FALSE]
NoLoad  == [pc |-> "idle", got |-> Nil]
NoWrite == [pc |-> "idle", op |-> Nil, a |-> Nil, old |-> Nil, todo |-> {}]

(* The binary is loaded; one function was not recognised.                   *)
Init ==
    /\ sym = [a \in Symbols |-> [name |-> "auto", rev |-> 0, inside |-> 0]]
    /\ \E f \in Functions : defined = Functions \ {f}
    /\ xrev = 0
    /\ functions = Nil /\ xrefs = Nil
    /\ texts = [f \in Functions |-> Nil] /\ order = <<>>
    /\ loading = {}
    /\ rd = [r \in Readers |-> NoRead]
    /\ ls = [l \in Listers |-> NoLoad]
    /\ wr = [w \in Writers |-> NoWrite]
    /\ skewed = FALSE /\ writes = 0

----------------------------------------------------------------------------
(* What the worker answers.                                                *)

FunctionList == [f \in defined |-> sym[f].name]
Shows(f) == {f} \cup Labels \cup (IF f \in Callers THEN Functions ELSE {})
View(f, a) == [sym[a] EXCEPT !.inside = IF a = f THEN @ ELSE 0]
Text(f)  == [a \in Shows(f) |-> View(f, a)]
Contains(text, a, n) == a \in DOMAIN text /\ text[a].name = n

SymState == [name : Names, rev : {0, 1}, inside : {0, 1}]
Texts    == UNION {[Shows(f) -> SymState] : f \in Functions}

(* No entry is told from an entry, whatever its text.                       *)
ASSUME NilAssumption ==
    Nil \notin [text : Texts, over : BOOLEAN, unsought : SUBSET Symbols]

Unlocked == loading = {}

----------------------------------------------------------------------------
(* decompCache: a bounded LRU, a map and a list.                           *)

(* list.List.Remove of the elements in S: the others stay in their order.   *)
Removed(list, S) ==
    LET left  == {i \in 1..Len(list) : list[i] \notin S}
        at(k) == CHOOSE i \in left : Cardinality({j \in left : j <= i}) = k
    IN  [k \in 1..Cardinality(left) |-> list[at(k)]]

Without(f) == Removed(order, {f})

(* A faulty variant: the oldest leaves the list but not the map.            *)
SetTextLeaks(f, t) ==
    LET full == texts[f] = Nil /\ Len(order) >= Cap
    IN  /\ order' = <<f>> \o IF full THEN SubSeq(order, 1, Len(order) - 1)
                              ELSE Without(f)
        /\ texts' = [texts EXCEPT ![f] = t]

(* set: an entry is replaced or added in front, for the oldest if need be. *)
SetText(f, t) ==
    LET full == texts[f] = Nil /\ Len(order) >= Cap
        kept == IF full THEN SubSeq(order, 1, Len(order) - 1) ELSE Without(f)
        old  == IF full THEN {order[Len(order)]} ELSE {}
    IN  /\ order' = <<f>> \o kept
        /\ texts' = [x \in Functions |-> IF x = f THEN t
                                         ELSE IF x \in old THEN Nil ELSE texts[x]]

(* delete and deleteWhere.                                                 *)
DropTexts(S) ==
    /\ texts' = [f \in Functions |-> IF f \in S THEN Nil ELSE texts[f]]
    /\ order' = Removed(order, S)

----------------------------------------------------------------------------
(* Reads of pseudocode and cross-references: look, fetch, store.           *)

ReadText(r, f) ==
    /\ rd[r].pc = "idle" /\ f \in defined /\ Unlocked
    /\ IF texts[f] = Nil
       THEN /\ rd' = [rd EXCEPT ![r].pc = "text", ![r].key = f]
            /\ UNCHANGED order
       ELSE order' = <<f>> \o Without(f) /\ UNCHANGED rd
    /\ UNCHANGED <<dbVars, functions, texts, xrefs, loading, ls, wr, skewed,
                   writes>>

FetchText(r) ==
    /\ rd[r].pc = "text"
    /\ rd' = [rd EXCEPT ![r].pc = "settext", ![r].got = Text(rd[r].key)]
    /\ UNCHANGED <<dbVars, cacheVars, loading, ls, wr, skewed, writes>>

StoreText(r) ==
    /\ rd[r].pc = "settext" /\ Unlocked
    /\ SetText(rd[r].key, [text |-> rd[r].got, over |-> rd[r].over, unsought |-> {}])
    /\ rd' = [rd EXCEPT ![r] = NoRead]
    /\ UNCHANGED <<dbVars, functions, xrefs, loading, ls, wr, skewed, writes>>

ReadXRefs(r) ==
    /\ rd[r].pc = "idle" /\ Unlocked
    /\ xrefs = Nil
    /\ rd' = [rd EXCEPT ![r].pc = "to"]
    /\ UNCHANGED <<dbVars, cacheVars, loading, ls, wr, skewed, writes>>

(* The two directions are two requests; which is first makes no difference. *)
FetchTo(r) ==
    /\ rd[r].pc = "to"
    /\ rd' = [rd EXCEPT ![r].pc = "from", ![r].to = xrev]
    /\ UNCHANGED <<dbVars, cacheVars, loading, ls, wr, skewed, writes>>

FetchFrom(r) ==
    /\ rd[r].pc = "from"
    /\ rd' = [rd EXCEPT ![r].pc = "setxrefs", ![r].got = xrev]
    /\ UNCHANGED <<dbVars, cacheVars, loading, ls, wr, skewed, writes>>

StoreXRefs(r) ==
    /\ rd[r].pc = "setxrefs" /\ Unlocked
    /\ xrefs' = [to |-> rd[r].to, from |-> rd[r].got, over |-> rd[r].over]
    /\ rd' = [rd EXCEPT ![r] = NoRead]
    /\ UNCHANGED <<dbVars, functions, texts, order, loading, ls, wr, skewed,
                   writes>>

(* An error of the worker, or the end of the request.                      *)
ReadFails(r) ==
    /\ rd[r].pc \in {"text", "to", "from"}
    /\ rd' = [rd EXCEPT ![r] = NoRead]
    /\ UNCHANGED <<dbVars, cacheVars, loading, ls, wr, skewed, writes>>

(* prune_context: the entries of the functions with a note are dropped.    *)
PruneNoted(S) ==
    /\ Unlocked /\ S # {}
    /\ DropTexts(S)
    /\ xrefs' \in {xrefs, Nil}
    /\ UNCHANGED <<dbVars, functions, loading, rd, ls, wr, skewed, writes>>

ReadStep(r) ==
    \/ \E f \in Functions : ReadText(r, f)
    \/ FetchText(r) \/ StoreText(r) \/ ReadXRefs(r) \/ FetchTo(r)
    \/ FetchFrom(r) \/ StoreXRefs(r) \/ ReadFails(r)

----------------------------------------------------------------------------
(* loadCached: the loader runs under the write lock.                       *)

(* A faulty variant: the lock is not held during the fetch.                 *)
LoadLockFree(l) ==
    /\ ls[l].pc = "idle" /\ Unlocked
    /\ functions = Nil
    /\ ls' = [ls EXCEPT ![l].pc = "fetch"]
    /\ UNCHANGED <<dbVars, cacheVars, loading, rd, wr, skewed, writes>>

LoadLock(l) ==
    /\ ls[l].pc = "idle" /\ Unlocked
    /\ functions = Nil
    /\ loading' = {l}
    /\ ls' = [ls EXCEPT ![l].pc = "fetch"]
    /\ UNCHANGED <<dbVars, cacheVars, rd, wr, skewed, writes>>

LoadFetch(l) ==
    /\ ls[l].pc = "fetch"
    /\ ls' = [ls EXCEPT ![l] = [pc |-> "store", got |-> FunctionList]]
    /\ UNCHANGED <<dbVars, cacheVars, loading, rd, wr, skewed, writes>>

LoadStore(l) ==
    /\ ls[l].pc = "store"
    /\ functions' = ls[l].got
    /\ loading' = {}
    /\ ls' = [ls EXCEPT ![l] = NoLoad]
    /\ UNCHANGED <<dbVars, texts, order, xrefs, rd, wr, skewed, writes>>

LoadFails(l) ==
    /\ ls[l].pc = "fetch"
    /\ loading' = {}
    /\ ls' = [ls EXCEPT ![l] = NoLoad]
    /\ UNCHANGED <<dbVars, cacheVars, rd, wr, skewed, writes>>

LoadStep(l) == LoadLock(l) \/ LoadFetch(l) \/ LoadStore(l) \/ LoadFails(l)

----------------------------------------------------------------------------
(* Writes.  A handler may ask for the old name, has the worker do the      *)
(* write, and then invalidates, one operation on the cache after another.  *)

Ops == {"name", "retype", "proto", "local", "annotate", "make", "python",
        "import", "analysis"}
AsksName == {"name", "retype", "proto"}
Targets(op) == CASE op \in {"name", "retype"}                     -> Symbols
                 [] op \in {"proto", "local", "annotate", "make"} -> Functions
                 [] OTHER                                         -> {Nil}

(* The invalidations of each tool; set_name and delete_name add theirs for *)
(* pseudocode after a look at the function list.                           *)
Todo(op) == CASE op = "name"     -> {"functions"}
              [] op = "retype"   -> {"byname"}
              [] op = "proto"    -> {"own", "byname"}
              [] op = "local"    -> {"own"}
              [] op = "annotate" -> {"functions", "own"}
              [] op = "make"     -> {"functions", "xrefs"}
              [] op = "python"   -> {"functions", "all", "xrefs"}
              [] op = "analysis" -> {"drop"}
              [] OTHER           -> {}

WriteStart(w, op, a) ==
    /\ wr[w].pc = "idle" /\ writes < MaxWrites
    /\ writes' = writes + 1
    /\ wr' = [wr EXCEPT ![w] = [pc |-> IF op \in AsksName THEN "ask" ELSE "write",
                                op |-> op, a |-> a, old |-> Nil, todo |-> {}]]
    /\ UNCHANGED <<dbVars, cacheVars, loading, rd, ls, skewed>>

(* The tools.  set_comment matters in its decompiler scope only.           *)
setComment(w, f)      == WriteStart(w, "local", f)
setLvarType(w, f)     == WriteStart(w, "local", f)
setName(w, a)         == WriteStart(w, "name", a)
deleteName(w, a)      == WriteStart(w, "name", a)
setGlobalType(w, a)   == WriteStart(w, "retype", a)
setFunctionType(w, f) == WriteStart(w, "proto", f)
makeFunction(w, f)    == WriteStart(w, "make", f)
pyEval(w)             == WriteStart(w, "python", Nil)
importIl2cpp(w)       == WriteStart(w, "import", Nil)
importFlutter(w)      == WriteStart(w, "import", Nil)
runAutoAnalysis(w)    == WriteStart(w, "analysis", Nil)

(* With a new name for the function, or with edits of its inside only.     *)
annotateFunction(w, f) ==
    \/ WriteStart(w, "annotate", f)
    \/ WriteStart(w, "local", f)

ToolCall(w) ==
    \/ \E a \in Symbols : setName(w, a) \/ deleteName(w, a) \/ setGlobalType(w, a)
    \/ \E f \in Functions : \/ setComment(w, f) \/ setLvarType(w, f)
                            \/ setFunctionType(w, f) \/ makeFunction(w, f)
                            \/ annotateFunction(w, f)
    \/ pyEval(w) \/ importIl2cpp(w) \/ importFlutter(w) \/ runAutoAnalysis(w)

(* fetchName, best effort.                                                 *)
AskName(w) ==
    /\ wr[w].pc = "ask"
    /\ \E old \in {sym[wr[w].a].name} \cup (IF "name" \in Faults THEN {Nil} ELSE {}) :
           wr' = [wr EXCEPT ![w].pc = "write", ![w].old = old]
    /\ UNCHANGED <<dbVars, cacheVars, loading, rd, ls, skewed, writes>>

(* A name is set, changed or deleted: of two names, it is then the other.   *)
Renamed(s) == [s EXCEPT !.name = IF @ = "auto" THEN "given" ELSE "auto"]
Revised(s) == [s EXCEPT !.rev = 1 - @]
Edited(s)  == [s EXCEPT !.inside = 1 - @]

(* What the tools' requests do to the database.  Scripts, imports and      *)
(* analysis passes may change anything: here they change everything.       *)
Rename(a) == sym' = [sym EXCEPT ![a] = Renamed(@)] /\ UNCHANGED <<defined, xrev>>
Revise(a) == sym' = [sym EXCEPT ![a] = Revised(@)] /\ UNCHANGED <<defined, xrev>>
Edit(f)   == sym' = [sym EXCEPT ![f] = Edited(@)] /\ UNCHANGED <<defined, xrev>>
Annotate(f) == sym' = [sym EXCEPT ![f] = Edited(Renamed(@))]
               /\ UNCHANGED <<defined, xrev>>
Define(f) == /\ f \notin defined
             /\ defined' = defined \cup {f} /\ xrev' = 1 - xrev
             /\ UNCHANGED sym
Rewrite == /\ sym' = [a \in Symbols |->
                        IF a \in Functions THEN Edited(Revised(Renamed(sym[a])))
                                           ELSE Revised(Renamed(sym[a]))]
           /\ defined' = Functions
           /\ xrev' = 1 - xrev

Effect(op, a) ==
    \/ op = "name" /\ Rename(a)
    \/ op \in {"retype", "proto"} /\ Revise(a)
    \/ op = "local" /\ Edit(a)
    \/ op = "annotate" /\ Annotate(a)
    \/ op = "make" /\ Define(a)
    \/ op \in {"python", "import", "analysis"} /\ Rewrite

(* The data a read has fetched, and not stored, are older than the write.   *)
Overtaken == [r \in Readers |-> IF rd[r].pc \in {"settext", "from", "setxrefs"}
                                THEN [rd[r] EXCEPT !.over = TRUE] ELSE rd[r]]

(* The cached texts of F are not looked through for a change of symbol a.   *)
Unsought(a, F) ==
    [f \in Functions |-> IF f \in F /\ texts[f] # Nil
                         THEN [texts[f] EXCEPT !.unsought = @ \cup {a}] ELSE texts[f]]

(* annotate_function leaves the texts of the callers, and nobody finds a    *)
(* text by a name that the symbol does not have when it is changed: it was  *)
(* not to be had, or another write came between.                            *)
Ignores(op, a, old) ==
    IF op = "annotate" THEN Functions \ {a}
    ELSE IF op \notin AsksName \/ old = sym[a].name THEN {}
    ELSE IF op = "proto" THEN Functions \ {a} ELSE Functions

(* The worker has done the write.  The reply may be lost: the handler then *)
(* returns an error and invalidates nothing.                               *)
Write(w) ==
    /\ wr[w].pc = "write"
    /\ Effect(wr[w].op, wr[w].a)
    /\ rd' = Overtaken
    /\ texts' = Unsought(wr[w].a, Ignores(wr[w].op, wr[w].a, wr[w].old))
    /\ \E lost \in {FALSE} \cup {"reply" \in Faults} :
           LET over == lost \/ wr[w].op = "import" IN
           /\ wr' = [wr EXCEPT ![w] = IF over THEN NoWrite
                                      ELSE [@ EXCEPT !.pc = "cache"]]
           /\ skewed' = (skewed \/ over)
    /\ UNCHANGED <<functions, order, xrefs, loading, ls, writes>>

WriteFails(w) ==
    /\ wr[w].pc = "write"
    /\ wr' = [wr EXCEPT ![w] = NoWrite]
    /\ UNCHANGED <<dbVars, cacheVars, loading, rd, ls, skewed, writes>>

GetCache(w) ==
    /\ wr[w].pc = "cache"
    /\ wr' = [wr EXCEPT ![w].pc = IF wr[w].op = "name" THEN "check" ELSE "dirty",
                        ![w].todo = Todo(wr[w].op)]
    /\ UNCHANGED <<dbVars, cacheVars, loading, rd, ls, skewed, writes>>

isCachedFunction(a) == functions # Nil /\ a \in DOMAIN functions

(* The new name of a function is looked for in its own text only.           *)
LeavesCallers(a) == texts' = IF isCachedFunction(a) THEN Unsought(a, Functions \ {a})
                                                    ELSE texts

(* A faulty variant: a label's new name is looked for at its own address.   *)
CheckFunctionOwn(w) ==
    /\ wr[w].pc = "check" /\ Unlocked
    /\ wr' = [wr EXCEPT ![w].pc = "dirty", ![w].todo = @ \cup {"own"}]
    /\ LeavesCallers(wr[w].a)
    /\ UNCHANGED <<dbVars, functions, order, xrefs, loading, rd, ls, skewed, writes>>

CheckFunction(w) ==
    /\ wr[w].pc = "check" /\ Unlocked
    /\ wr' = [wr EXCEPT ![w].pc = "dirty",
                        ![w].todo = @ \cup IF isCachedFunction(wr[w].a)
                                           THEN {"own"} ELSE {"byname"}]
    /\ LeavesCallers(wr[w].a)
    /\ UNCHANGED <<dbVars, functions, order, xrefs, loading, rd, ls, skewed, writes>>

(* The order every handler keeps.                                          *)
Due(w, step) ==
    /\ wr[w].pc = "dirty" /\ step \in wr[w].todo /\ Unlocked
    /\ step \in {"own", "byname", "all", "xrefs"} => "functions" \notin wr[w].todo
    /\ step \in {"byname", "xrefs"} => wr[w].todo \cap {"own", "all"} = {}
    /\ wr' = [wr EXCEPT ![w].todo = @ \ {step}]

invalidateFunctions(w) ==
    /\ Due(w, "functions")
    /\ functions' = Nil
    /\ UNCHANGED <<dbVars, texts, order, xrefs, loading, rd, ls, skewed, writes>>

invalidateDecomp(w) ==
    /\ Due(w, "own")
    /\ DropTexts({wr[w].a})
    /\ UNCHANGED <<dbVars, functions, xrefs, loading, rd, ls, skewed, writes>>

invalidateDecompByOldName(w) ==
    /\ Due(w, "byname")
    /\ DropTexts({f \in Functions :
                     texts[f] # Nil /\ Contains(texts[f].text, wr[w].a, wr[w].old)})
    /\ UNCHANGED <<dbVars, functions, xrefs, loading, rd, ls, skewed, writes>>

invalidateAllDecomp(w) ==
    /\ Due(w, "all")
    /\ DropTexts(Functions)
    /\ UNCHANGED <<dbVars, functions, xrefs, loading, rd, ls, skewed, writes>>

(* A faulty variant: the cross-references are kept.                         *)
KeepXRefs(w) ==
    /\ Due(w, "xrefs")
    /\ UNCHANGED <<dbVars, cacheVars, loading, rd, ls, skewed, writes>>

invalidateAllXRefs(w) ==
    /\ Due(w, "xrefs")
    /\ xrefs' = Nil
    /\ UNCHANGED <<dbVars, functions, texts, order, loading, rd, ls, skewed,
                   writes>>

(* deleteSessionCache: the next call gets a new, empty cache, and whoever  *)
(* holds the old one goes on with that, out of sight of everybody else.    *)
deleteSessionCache(w) ==
    /\ wr[w].pc = "dirty" /\ "drop" \in wr[w].todo
    /\ functions' = Nil /\ xrefs' = Nil
    /\ DropTexts(Functions)
    /\ loading' = {}
    /\ rd' = [r \in Readers |-> NoRead]
    /\ ls' = [l \in Listers |-> NoLoad]
    /\ wr' = [x \in Writers |->
                 IF x = w \/ (wr[x].pc \in {"check", "dirty"}
                                /\ "drop" \notin wr[x].todo)
                 THEN NoWrite ELSE wr[x]]
    /\ skewed' = FALSE
    /\ UNCHANGED <<dbVars, writes>>

WriteReturns(w) ==
    /\ wr[w].pc = "dirty" /\ wr[w].todo = {}
    /\ wr' = [wr EXCEPT ![w] = NoWrite]
    /\ UNCHANGED <<dbVars, cacheVars, loading, rd, ls, skewed, writes>>

WriteStep(w) ==
    \/ AskName(w) \/ Write(w) \/ WriteFails(w) \/ GetCache(w) \/ CheckFunction(w)
    \/ invalidateFunctions(w) \/ invalidateDecomp(w)
    \/ invalidateDecompByOldName(w) \/ invalidateAllDecomp(w)
    \/ invalidateAllXRefs(w) \/ deleteSessionCache(w) \/ WriteReturns(w)

----------------------------------------------------------------------------

Next ==
    \/ \E r \in Readers : ReadStep(r)
    \/ \E S \in SUBSET Functions : PruneNoted(S)
    \/ \E l \in Listers : LoadStep(l)
    \/ \E w \in Writers : ToolCall(w) \/ WriteStep(w)

Spec == Init /\ [][Next]_vars

----------------------------------------------------------------------------

Invalidations == {"functions", "own", "byname", "all", "xrefs", "drop"}
WriteState == [pc : {"idle", "ask", "write", "cache", "check", "dirty"},
               op : Ops \cup {Nil}, a : Symbols \cup {Nil},
               old : Names \cup {Nil}, todo : SUBSET Invalidations]

TypeOK ==
    /\ sym \in [Symbols -> SymState]
    /\ defined \subseteq Functions /\ xrev \in {0, 1}
    /\ functions = Nil \/ DOMAIN functions \subseteq Functions
    /\ \A f \in Functions : texts[f] = Nil \/ DOMAIN texts[f].text = Shows(f)
    /\ order \in Seq(Functions)
    /\ xrefs = Nil \/ xrefs \in [to : {0, 1}, from : {0, 1}, over : BOOLEAN]
    /\ loading \subseteq Listers
    /\ \A r \in Readers : rd[r].pc \in {"idle", "text", "settext", "to", "from",
                                          "setxrefs"}
    /\ \A l \in Listers : ls[l].pc \in {"idle", "fetch", "store"}
    /\ wr \in [Writers -> WriteState]
    /\ skewed \in BOOLEAN /\ writes \in 0..MaxWrites

(* A write whose effect is in the database and whose invalidations are not  *)
(* all made.                                                                *)
Settling == \E w \in Writers : wr[w].pc \in {"cache", "check", "dirty"}

(* A cached function list is the database's: whatever loads and writes run  *)
(* at the same time, once no write is between its effect and the end of its *)
(* invalidations, and until the reply to a write is lost or metadata are    *)
(* imported, which the import's reply says to follow by run_auto_analysis   *)
(* "to refresh cross references and caches": the pass restores freshness in *)
(* both cases.  Rests on loadCached holding the lock while it fetches.      *)
FunctionsFresh ==
    functions # Nil /\ ~Settling /\ ~skewed => functions = FunctionList

Fresh(f) == texts[f] # Nil /\ ~texts[f].over

(* The targeted invalidation finds the texts it looks for: pseudocode that  *)
(* no write overtook between its fetch and its storing shows every symbol   *)
(* as the decompiler would now, whatever was renamed, retyped or commented  *)
(* since, in its own function and in those it calls, and by how many tools  *)
(* at once; except the symbols for whose change no handler looked through   *)
(* it: a function that annotate_function renamed, or set_name when it was   *)
(* in the cached list, in the text of another (composite.go:449-454,        *)
(* write.go:110-120), and a symbol changed under a name other than the one  *)
(* asked for before.                                                        *)
TextsFresh ==
    ~Settling /\ ~skewed =>
        \A f \in Functions : Fresh(f) =>
            \A a \in Shows(f) \ texts[f].unsought : texts[f].text[a] = View(f, a)

(* Without that exception: "Callers' decomp is still valid" when a function *)
(* is renamed (composite.go:451-453; write.go:110-112: "only makes that     *)
(* function's cached pseudocode stale"), which it is not, being text.       *)
CallersValid ==
    ~Settling /\ ~skewed =>
        \A f \in Functions : Fresh(f) =>
            \A a \in Functions \cap Shows(f) : texts[f].text[a].name = sym[a].name

(* Cross-references that no write overtook between their fetches and their  *)
(* storing are the database's, both directions of one revision.             *)
XRefsFresh ==
    xrefs # Nil /\ ~xrefs.over /\ ~Settling /\ ~skewed =>
        xrefs.to = xrev /\ xrefs.from = xrev

(* The LRU's map and its list agree, and it stays within its capacity:      *)
(* every cached text can be found for eviction, and nothing else is.        *)
LRUSound ==
    /\ Len(order) <= Cap
    /\ \A i, j \in 1..Len(order) : order[i] = order[j] => i = j
    /\ {f \in Functions : texts[f] # Nil} = {order[i] : i \in 1..Len(order)}
=============================================================================
