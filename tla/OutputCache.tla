----------------------------- MODULE OutputCache ----------------------------
(***************************************************************************)
(* The store of replies too long to be sent, and a client that pages       *)
(* through a stored reply or a list.  (internal/server/output_cache.go.)   *)
(*                                                                         *)
(* A reply is its length.  The store is shared by all sessions and keeps   *)
(* maxCacheEntries replies, each for cacheEntryTTL.                        *)
(***************************************************************************)
EXTENDS Paging, Sequences, FiniteSets

CONSTANTS
    MaxOutputs,      \* bound: the replies stored
    maxCacheEntries, cacheEntryTTL,
    MaxTime,         \* bound: the last instant
    Lengths,         \* the lengths of replies and of lists
    Limits,          \* the limits a client asks for
    Offsets          \* the offsets a client asks for out of the blue

ASSUME OutputAssumption ==
    /\ maxCacheEntries \in Nat \ {0} /\ cacheEntryTTL \in Nat
    /\ MaxOutputs \in Nat /\ MaxTime \in Nat /\ Lengths \subseteq Nat
    /\ Limits \subseteq Ints /\ Offsets \subseteq Ints
    /\ \A len \in Lengths :      \* nothing fills the address space
          len + maxPageLimit <= MaxInt /\ len + defaultMaxOutputChars <= MaxInt

VARIABLES
    entries,   \* entries[id]: the stored reply, or Nil
    order,     \* the names in order of arrival
    now,       \* the time
    drawn,     \* the number of names genCacheID has drawn
    puts,      \* history: what was stored since the last clear, in order
    reader     \* a client that pages through a reply or a list

storeVars  == <<entries, order, drawn, puts>>
outputVars == <<storeVars, now, reader>>

Ids  == 1..MaxOutputs           \* names, in the order they are drawn
Nil  == [len |-> 0, at |-> 0]   \* no reply: a stored one is not empty
Idle == [state |-> "idle"]
Gap  == -1

OutputInit ==
    /\ entries = [id \in Ids |-> Nil] /\ order = <<>> /\ now = 0
    /\ drawn = 0 /\ puts = <<>> /\ reader = Idle

-----------------------------------------------------------------------------
(* The first cut replies of the queue go, the new one comes.                *)
Replace(id, len, cut) ==
    /\ order' = Append(SubSeq(order, cut + 1, Len(order)), id)
    /\ entries' = [i \in Ids |->
           CASE i = id -> [len |-> len, at |-> now]
             [] i # id /\ (\E k \in 1..cut : order[k] = i) -> Nil
             [] OTHER -> entries[i]]
    /\ drawn' = id
    /\ puts' = Append(puts, [id |-> id, at |-> now])

Expired(id) == now - entries[id].at > cacheEntryTTL

(* e replies at the head of the queue have expired, the next one has not.   *)
LeadingExpired(e) ==
    /\ \A k \in 1..e : Expired(order[k])
    /\ e < Len(order) => ~Expired(order[e + 1])

(* genCacheID: a name nobody has; the code draws 128 random bits.          *)
genCacheID == {drawn + 1} \cap Ids

(* A faulty variant: a full store drops one reply more than it has to.      *)
putEager(id, len) ==
    \E e \in 0..Len(order) :
        /\ LeadingExpired(e)
        /\ Replace(id, len, IF Len(order) - e >= maxCacheEntries
                            THEN AtMost(Len(order) - maxCacheEntries + 2, Len(order))
                            ELSE e)

put(id, len) ==
    \E e \in 0..Len(order) :
        /\ LeadingExpired(e)
        /\ Replace(id, len, IF Len(order) - e >= maxCacheEntries
                            THEN Len(order) - maxCacheEntries + 1 ELSE e)

get(id) == entries[id] # Nil /\ ~Expired(id)

clear ==
    /\ entries' = [id \in Ids |-> Nil] /\ order' = <<>> /\ puts' = <<>>
    /\ UNCHANGED drawn

(* Time passes.                                                             *)
Tick ==
    /\ now < MaxTime
    /\ now' = now + 1
    /\ UNCHANGED <<storeVars, reader>>

-----------------------------------------------------------------------------
(* A client about to read, having got the first upto items of total.        *)
Reading(kind, id, total, upto) ==
    [state |-> "reading", kind |-> kind, id |-> id, total |-> total,
     next |-> upto, upto |-> upto]

(* What the client gets of a reply: all of it, or of a stored one a preview.*)
(* Of raw text that is the first defaultMaxOutputChars characters, with     *)
(* _next_offset after them; of a JSON object a digest of its fields, so     *)
(* that reading begins at 0.                                                *)
truncateJSONSkips(id, len) ==   \* a faulty variant: the offset of raw text
    [Reading("output", id, len, 0) EXCEPT !.next = defaultMaxOutputChars]
truncateJSON(id, len) == Reading("output", id, len, 0)

maybeCacheResult(form, len) ==
    IF len <= defaultMaxOutputChars THEN UNCHANGED <<storeVars, reader>>
    ELSE \E id \in genCacheID :
            /\ put(id, len)
            /\ reader' = IF form = "json" THEN truncateJSON(id, len)
                         ELSE Reading("output", id, len, defaultMaxOutputChars)

(* A client begins to read a list, or the server to fetch the strings.      *)
ListReading ==
    /\ reader.state # "reading"
    /\ \E kind \in {"list", "globals", "strings"}, total \in Lengths :
          reader' = Reading(kind, 0, total, 0)
    /\ UNCHANGED <<storeVars, now>>

PageOf(kind, offset, limit, total) ==
    CASE kind = "output"  -> cachedPage(offset, limit, total)
      [] kind = "list"    -> clampPage(offset, limit, total)
      [] kind = "globals" -> globalsPage(offset, limit, total)
      [] kind = "strings" -> stringsChunk(offset, total)

(* Was this the last page?  get_cached_output says so with has_more, the    *)
(* list tools state the total, fetchAllStrings sees a chunk that is not     *)
(* full.                                                                    *)
IsLast(kind, page, total) ==
    IF kind = "strings" THEN page.to - page.from < defaultPageLimit
                        ELSE page.to >= total

(* A page that cannot be cut makes the handler panic.                       *)
Panic(kind, offset, limit) ==
    [state |-> "panic", kind |-> kind, offset |-> offset, limit |-> limit]

(* getCachedOutput, or the page of a list tool: the next page, of any size  *)
(* the client likes.  A refused size leaves the client where it is.         *)
getCachedOutput ==
    /\ reader.state = "reading"
    /\ IF reader.kind = "output" /\ ~get(reader.id)
       THEN reader' = [reader EXCEPT !.state = "lost"]
       ELSE \E limit \in Limits :
              LET page == PageOf(reader.kind, reader.next, limit, reader.total)
                  last == IsLast(reader.kind, page, reader.total)
              IN  /\ page.ok
                  /\ reader' = IF ~Sliceable(page, reader.total)
                               THEN Panic(reader.kind, reader.next, limit)
                               ELSE [reader EXCEPT
                                       !.next = page.to,
                                       !.upto = IF page.from = @ THEN page.to ELSE Gap,
                                       !.state = CASE last -> "done"
                                                   [] ~last /\ page.to > page.from -> @
                                                   [] OTHER -> "stuck"]
    /\ UNCHANGED <<storeVars, now>>

(* A page asked for out of the blue; one that can be cut changes nothing.   *)
AnyPage ==
    /\ reader.state # "reading"
    /\ \E kind \in {"list", "globals", "output"}, total \in Lengths,
          offset \in Offsets, limit \in Limits :
          LET page == PageOf(kind, offset, limit, total)
          IN  page.ok /\ ~Sliceable(page, total)
                /\ reader' = Panic(kind, offset, limit)
    /\ UNCHANGED <<storeVars, now>>

-----------------------------------------------------------------------------
OutputTypeOK ==
    /\ entries \in [Ids -> [len : Nat, at : 0..MaxTime]]
    /\ order \in Seq(Ids) /\ now \in 0..MaxTime /\ drawn \in 0..MaxOutputs
    /\ puts \in Seq([id : Ids, at : 0..MaxTime])
    /\ reader.state \in {"idle", "reading", "done", "lost", "stuck", "panic"}

(* The map and the eviction queue of outputStore agree, no reply is queued  *)
(* twice, and there are never more than maxCacheEntries of them.            *)
OutputsBounded ==
    /\ {id \in Ids : entries[id] # Nil} = {order[k] : k \in 1..Len(order)}
    /\ \A j, k \in 1..Len(order) : order[j] = order[k] => j = k
    /\ Len(order) <= maxCacheEntries

(* A stored reply can be retrieved until its time is up, unless             *)
(* maxCacheEntries later replies push it out or prune_context clears the    *)
(* store: output_cache.go:48-99.                                            *)
EntriesKept ==
    \A k \in 1..Len(puts) :
        Len(puts) - k < maxCacheEntries /\ now - puts[k].at <= cacheEntryTTL
            => get(puts[k].id)

(* A client that follows next_offset, whatever page sizes it asks for, gets *)
(* every character or item exactly once and in order, and is told when it   *)
(* has got them all: output_cache.go:264-312, server.go:450-466,            *)
(* cache.go:123-161.                                                        *)
PagesReassemble ==
    reader.state \in {"reading", "done", "stuck", "lost"} =>
        /\ reader.upto # Gap
        /\ reader.state # "stuck"
        /\ reader.state = "done" => reader.upto = reader.total

(* No request makes a handler panic but these two: globals from a negative  *)
(* offset (types.go:29-33), and a stored reply with a limit that overflows  *)
(* when the offset is added (output_cache.go:289).                          *)
PagesInBounds ==
    reader.state = "panic" =>
        \/ reader.kind = "globals" /\ reader.offset < 0
        \/ reader.kind = "output" /\ reader.offset + reader.limit > MaxInt
=============================================================================
