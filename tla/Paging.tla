------------------------------- MODULE Paging -------------------------------
(***************************************************************************)
(* How the tools cut a page out of a list or a text: the pages of the list *)
(* tools (internal/server/server.go), of the stored outputs                *)
(* (output_cache.go), of the globals (types.go), and the chunks in which   *)
(* the strings are fetched from the worker (cache.go).                     *)
(*                                                                         *)
(* A page is the pair of slice indices [from:to].  Go panics when they are *)
(* not in order or not within the slice, and an int wraps around.          *)
(***************************************************************************)
EXTENDS Integers

CONSTANTS
    defaultPageLimit, maxPageLimit, defaultMaxOutputChars,
    MaxInt     \* the largest int; -MaxInt - 1 is the smallest

ASSUME PagingAssumption ==
    /\ defaultPageLimit \in Nat \ {0} /\ maxPageLimit \in Nat
    /\ defaultMaxOutputChars \in Nat \ {0} /\ MaxInt \in Nat
    /\ defaultPageLimit <= maxPageLimit /\ maxPageLimit <= MaxInt
    /\ defaultMaxOutputChars <= MaxInt

Ints == -MaxInt - 1 .. MaxInt

Wrapped(n) == IF n > MaxInt THEN n - 2 * (MaxInt + 1) ELSE n
AtMost(n, m) == IF n > m THEN m ELSE n
Sliceable(page, total) ==
    0 <= page.from /\ page.from <= page.to /\ page.to <= total

-----------------------------------------------------------------------------
(* The page of the list tools.  A refused request has no page.              *)
normalizePagination(offset, limit) ==
    LET size == IF limit <= 0 THEN defaultPageLimit ELSE limit
    IN  [ok |-> offset >= 0 /\ size <= maxPageLimit, limit |-> size]

(* A faulty variant: the end of the page is not cut to the list.            *)
clampPageUncut(offset, limit, total) ==
    LET n    == normalizePagination(offset, limit)
        from == AtMost(offset, total)
    IN  [ok |-> n.ok, from |-> from, to |-> Wrapped(from + n.limit)]

clampPage(offset, limit, total) ==
    LET n    == normalizePagination(offset, limit)
        from == AtMost(offset, total)
    IN  [ok |-> n.ok, from |-> from,
         to |-> AtMost(Wrapped(from + n.limit), total)]

(* query globals cuts its own page, and refuses nothing.                    *)
globalsPage(offset, limit, total) ==
    LET from == AtMost(offset, total)
        size == IF limit <= 0 THEN defaultPageLimit ELSE limit
    IN  [ok |-> TRUE, from |-> from, to |-> from + AtMost(size, total - from)]

(* get_cached_output: any offset and any limit.                             *)
cachedPage(offset, limit, total) ==
    LET from == AtMost(IF offset < 0 THEN 0 ELSE offset, total)
        size == IF limit <= 0 THEN defaultMaxOutputChars ELSE limit
    IN  [ok |-> TRUE, from |-> from, to |-> AtMost(Wrapped(from + size), total)]

(* A chunk of fetchAllStrings, which ends with a chunk that is not full.    *)
stringsChunk(offset, total) ==
    [ok |-> TRUE, from |-> AtMost(offset, total),
     to |-> AtMost(offset + defaultPageLimit, total)]
=============================================================================
