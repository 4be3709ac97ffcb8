--------------------------- MODULE LotteryManager ---------------------------
(***************************************************************************)
(* The archive cache (internal/services/lottery_manager.go) as its RPC      *)
(* handlers and the scraper use it: an LRU map from date windows to         *)
(* archives, filled by one load per key and invalidated by date range.      *)
(*                                                                          *)
(* One step is one critical section of m.mu, one query, or one unlocked     *)
(* read of an entry's done field.  InvalidateRange holds the lock over a    *)
(* loop, so it is a sequence of steps during which nobody else gets it.     *)
(*                                                                          *)
(* The database is reduced to the level of each draw: absent, present       *)
(* without prizes, present with prizes.  Levels only rise: the scraper      *)
(* skips existing rows and fills NULL prizes.  An archive is the level of   *)
(* every draw its query returned.                                           *)
(***************************************************************************)
EXTENDS DateWindows, FiniteSets

CONSTANTS
    Clients,          \* goroutines that call Archive
    Entries,          \* cacheEntry objects a behaviour may allocate (bound)
    Draws,
    DrawDate,         \* [Draws -> instants]
    Windows,          \* windows the clients ask for
    MaxCacheEntries,
    EmptyCommits,     \* explore commits that change no row (a bound when FALSE)
    Nil

Levels == 0..2
Absent == 0
NoPrizes == 1
WithPrizes == 2

Keys == {windowKey(normalizeWindow(w)) : w \in Windows}
Snapshots == [Draws -> Levels]
\* whole is false when the row stream broke off and the rest was lost.
Archives == [rows : Snapshots, whole : BOOLEAN]

ASSUME DrawDateAssumption == DrawDate \in [Draws -> Nat \ {0}]
ASSUME WindowsAssumption == Windows \subseteq DateRange
ASSUME MaxCacheEntriesAssumption == MaxCacheEntries \in Nat \ {0}
ASSUME EmptyCommitsAssumption == EmptyCommits \in BOOLEAN
ASSUME NilAssumption ==
    Nil \notin Entries /\ Nil \notin Archives /\ Nil \notin DateRange

VARIABLES
    \* ---- the lottery_results table and the process that writes it
    db,        \* level of each draw
    writer,    \* where the scraper run stands
    owed,      \* range it has committed and not yet invalidated, or Nil
    \* ---- LotteryManager
    cache,     \* m.cache
    lru,       \* m.head, m.tail and every entry's prev and next
    window,    \* e.from and e.to
    phase,     \* of an entry: see Phases
    arch,      \* the load's result; Nil before it and after an error
    \* ---- the callers of Archive
    pc, ent,
    \* ---- history: never read by an action
    pub,       \* level of each draw up to which invalidations have been made
    floor,     \* pub when the client's call began
    dropped,   \* entries that an invalidation removed
    torn       \* remove() was applied to an entry the cache did not hold

table == <<db, writer, owed>>
entries == <<window, phase, arch>>
callers == <<pc, ent, floor>>
vars == <<table, cache, lru, entries, callers, pub, dropped, torn>>

\* free: not allocated; loading and built: done # nil, before and after the
\* query; ready and failed: done = nil and closed, with err = nil or not.
Phases == {"free", "loading", "built", "ready", "failed"}

InFlight(e) == phase[e] \in {"loading", "built"}      \* e.done # nil
Cached == {cache[k] : k \in Keys} \ {Nil}
KeyOf(e) == windowKey(window[e])
LockFree == writer # "invalidating"

-----------------------------------------------------------------------------
(* The LRU list.  Remove on an entry that is not linked is what the code     *)
(* does then: with both pointers nil it empties the list.                   *)

\* Mutant: the old head does not learn its predecessor.
AddToFrontOneWay(l, e) ==
    [head |-> e,
     tail |-> IF l.tail = Nil THEN e ELSE l.tail,
     prev |-> [l.prev EXCEPT ![e] = Nil],
     next |-> [l.next EXCEPT ![e] = l.head]]

AddToFront(l, e) ==
    [head |-> e,
     tail |-> IF l.tail = Nil THEN e ELSE l.tail,
     prev |-> [x \in Entries |-> IF x = l.head THEN e
                                 ELSE IF x = e THEN Nil ELSE l.prev[x]],
     next |-> [l.next EXCEPT ![e] = l.head]]

Remove(l, e) ==
    [head |-> IF l.prev[e] = Nil THEN l.next[e] ELSE l.head,
     tail |-> IF l.next[e] = Nil THEN l.prev[e] ELSE l.tail,
     prev |-> [x \in Entries |-> IF x = e THEN Nil
                                 ELSE IF x = l.next[e] THEN l.prev[e] ELSE l.prev[x]],
     next |-> [x \in Entries |-> IF x = e THEN Nil
                                 ELSE IF x = l.prev[e] THEN l.next[e] ELSE l.next[x]]]

MoveToFront(l, e) == IF l.head = e THEN l ELSE AddToFront(Remove(l, e), e)

-----------------------------------------------------------------------------
Init ==
    /\ db \in [Draws -> Levels]
    /\ writer = "boot"
    /\ owed = Nil
    /\ cache = [k \in Keys |-> Nil]
    /\ lru = [head |-> Nil, tail |-> Nil,
              prev |-> [e \in Entries |-> Nil], next |-> [e \in Entries |-> Nil]]
    /\ window = [e \in Entries |-> Nil]
    /\ phase = [e \in Entries |-> "free"]
    /\ arch = [e \in Entries |-> Nil]
    /\ pc = [c \in Clients |-> "idle"]
    /\ ent = [c \in Clients |-> Nil]
    /\ pub = [d \in Draws |-> Absent]
    /\ floor = [c \in Clients |-> [d \in Draws |-> Absent]]
    /\ dropped = {}
    /\ torn = FALSE

-----------------------------------------------------------------------------
(* The process that writes the table.                                       *)

\* NewServer fills an empty table before anything is served ...
SeedOnBoot(D) ==
    /\ writer = "boot"
    /\ \A d \in Draws : db[d] = Absent
    /\ D # {}
    /\ db' = [d \in Draws |-> IF d \in D THEN NoPrizes ELSE Absent]
    /\ UNCHANGED <<writer, owed, cache, lru, entries, callers, pub, dropped, torn>>

\* ... and then drops whatever was cached and starts the servers.
InvalidateAll ==
    /\ writer = "boot"
    /\ writer' = "idle"
    /\ cache' = [k \in Keys |-> Nil]
    /\ lru' = [head |-> Nil, tail |-> Nil, prev |-> lru.prev, next |-> lru.next]
    /\ dropped' = dropped \union Cached
    /\ pub' = db
    /\ UNCHANGED <<db, owed, entries, callers, torn>>

\* The range that InsertNewDraws and SeedMissingPrizes report: [min, max] of
\* the dates written so far.
Widen(r, t) ==
    IF r = Nil THEN [from |-> t, to |-> t]
    ELSE [from |-> IF t < r.from THEN t ELSE r.from,
          to |-> IF t > r.to THEN t ELSE r.to]

Spans(r, D) ==
    \E lo, hi \in D :
        /\ \A d \in D : DrawDate[lo] <= DrawDate[d] /\ DrawDate[d] <= DrawDate[hi]
        /\ r = [from |-> DrawDate[lo], to |-> DrawDate[hi]]

\* InsertNewDraws commits the rows R that were missing when it asked; ON
\* CONFLICT DO NOTHING skips those that another instance has inserted since,
\* but the reported range covers them too.  told is false when the caller gets
\* an error for a transaction the database did commit, and when another
\* instance of the server made the insert, which it may at any time: this
\* manager is not told.
InsertNewDraws(R, told) ==
    /\ told => writer = "idle"
    /\ R # {}
    /\ db' = [d \in Draws |-> IF d \in R /\ db[d] = Absent THEN NoPrizes ELSE db[d]]
    /\ EmptyCommits \/ db' # db
    /\ IF told THEN writer' = "inserted" /\ Spans(owed', R)
               ELSE UNCHANGED <<writer, owed>>
    /\ UNCHANGED <<cache, lru, entries, callers, pub, dropped, torn>>

\* One UpdatePrizeAmounts of a SeedMissingPrizes batch: each row commits alone
\* and the batch reports one range.  told as above.
UpdatePrizeAmounts(d, told) ==
    /\ told => writer \in {"idle", "prizes"}
    /\ db[d] # Absent
    /\ db' = [db EXCEPT ![d] = WithPrizes]
    /\ EmptyCommits \/ db' # db
    /\ IF told THEN writer' = "prizes" /\ owed' = Widen(owed, DrawDate[d])
               ELSE UNCHANGED <<writer, owed>>
    /\ UNCHANGED <<cache, lru, entries, callers, pub, dropped, torn>>

\* InvalidateRange(owed) takes the lock ...
InvalidateRange ==
    /\ writer \in {"inserted", "prizes"}
    /\ writer' = "invalidating"
    /\ UNCHANGED <<db, owed, cache, lru, entries, callers, pub, dropped, torn>>

\* Mutant: loads in flight are spared.
AffectedReady(e) == ~InFlight(e) /\ rangesOverlap(window[e], owed)

Affected(e) == rangesOverlap(window[e], owed)

\* ... removes the overlapping entries in the map's random order ...
InvalidateEntry(k) ==
    /\ writer = "invalidating"
    /\ cache[k] # Nil
    /\ Affected(cache[k])
    /\ lru' = Remove(lru, cache[k])
    /\ cache' = [cache EXCEPT ![k] = Nil]
    /\ dropped' = dropped \union {cache[k]}
    /\ UNCHANGED <<table, entries, callers, pub, torn>>

\* Mutant: the loop may stop before it has seen every window.
InvalidateDoneEarly ==
    /\ writer = "invalidating"
    /\ writer' = "idle"
    /\ owed' = Nil
    /\ pub' = [d \in Draws |-> IF InWindow(DrawDate[d], owed) THEN db[d] ELSE pub[d]]
    /\ UNCHANGED <<db, cache, lru, entries, callers, dropped, torn>>

\* ... and unlocks when none is left.
InvalidateDone ==
    /\ writer = "invalidating"
    /\ \A e \in Cached : ~Affected(e)
    /\ writer' = "idle"
    /\ owed' = Nil
    /\ pub' = [d \in Draws |-> IF InWindow(DrawDate[d], owed) THEN db[d] ELSE pub[d]]
    /\ UNCHANGED <<db, cache, lru, entries, callers, dropped, torn>>

-----------------------------------------------------------------------------
(* The callers of Archive.  pc: idle, looked (found an entry, lock released),*)
(* reload (about to read e.done again), wait (on the channel), waitnil (on a *)
(* nil channel), touch, build, publish, served (return e.arch, nil), error.  *)

Begin(c) ==
    /\ pc[c] = "idle"
    /\ LockFree
    /\ writer # "boot"
    /\ floor' = [floor EXCEPT ![c] = pub]

\* The key is in the map: leave the lock with the entry.
ArchiveHit(c, w) ==
    LET e == cache[windowKey(normalizeWindow(w))]
    IN  /\ Begin(c)
        /\ e # Nil
        /\ ent' = [ent EXCEPT ![c] = e]
        /\ pc' = [pc EXCEPT ![c] = "looked"]
        /\ UNCHANGED <<table, cache, lru, entries, pub, dropped, torn>>

\* Mutant: a load in flight is evicted like any other entry.
EvictableAny(l, map) ==
    /\ Cardinality({k \in Keys : map[k] # Nil}) > MaxCacheEntries
    /\ l.tail # Nil

\* Mutant: the size is taken before the new entry is in.
EvictableLate(l, map) ==
    /\ Cardinality({k \in Keys : map[k] # Nil}) > MaxCacheEntries + 1
    /\ l.tail # Nil
    /\ ~InFlight(l.tail)

\* One eviction per miss, and none while the tail is being loaded.
Evictable(l, map) ==
    /\ Cardinality({k \in Keys : map[k] # Nil}) > MaxCacheEntries
    /\ l.tail # Nil
    /\ ~InFlight(l.tail)

\* The key is not in the map: link a new entry and leave the lock to load it.
ArchiveMiss(c, w) ==
    LET win == normalizeWindow(w)
        key == windowKey(win)
        \* e itself is never the victim: its done is not nil
    IN  \E e \in Entries :
        LET map == [cache EXCEPT ![key] = e]
            list == AddToFront(lru, e)
            victim == list.tail
        IN  /\ Begin(c)
            /\ cache[key] = Nil
            /\ phase[e] = "free"
            /\ window' = [window EXCEPT ![e] = win]
            /\ phase' = [phase EXCEPT ![e] = "loading"]
            /\ ent' = [ent EXCEPT ![c] = e]
            /\ pc' = [pc EXCEPT ![c] = "build"]
            /\ IF victim # e /\ Evictable(list, map)
               THEN /\ cache' = [map EXCEPT ![KeyOf(victim)] = Nil]
                    /\ lru' = Remove(list, victim)
                    /\ torn' = (torn \/ victim \notin Cached)
               ELSE cache' = map /\ lru' = list /\ UNCHANGED torn
            /\ UNCHANGED <<table, arch, pub, dropped>>

\* e.done read without the lock.  Source code reads it twice, once to compare
\* it with nil and once in the select; a build may keep the first value
\* (captured) or load it again.
ReadDone(c) ==
    /\ pc[c] = "looked"
    /\ \E next \in IF InFlight(ent[c]) THEN {"wait", "reload"} ELSE {"touch"} :
           pc' = [pc EXCEPT ![c] = next]
    /\ UNCHANGED <<table, cache, lru, entries, ent, floor, pub, dropped, torn>>

ReadDoneAgain(c) ==
    /\ pc[c] = "reload"
    /\ pc' = [pc EXCEPT ![c] = IF InFlight(ent[c]) THEN "wait" ELSE "waitnil"]
    /\ UNCHANGED <<table, cache, lru, entries, ent, floor, pub, dropped, torn>>

\* <-e.done: the load has been published; e.err is looked at on this path only.
AwaitDone(c) ==
    /\ pc[c] = "wait"
    /\ phase[ent[c]] \in {"ready", "failed"}
    /\ pc' = [pc EXCEPT ![c] = IF phase[ent[c]] = "failed" THEN "error" ELSE "touch"]
    /\ UNCHANGED <<table, cache, lru, entries, ent, floor, pub, dropped, torn>>

\* <-ctx.Done().
Cancel(c) ==
    /\ pc[c] \in {"wait", "waitnil"}
    /\ pc' = [pc EXCEPT ![c] = "error"]
    /\ UNCHANGED <<table, cache, lru, entries, ent, floor, pub, dropped, torn>>

\* moveToFront under the lock, then return e.arch, nil.
Touch(c) ==
    LET e == ent[c]
    IN  /\ pc[c] = "touch"
        /\ LockFree
        /\ lru' = MoveToFront(lru, e)
        /\ torn' = (torn \/ (lru.head # e /\ e \notin Cached))
        /\ pc' = [pc EXCEPT ![c] = "served"]
        /\ UNCHANGED <<table, cache, entries, ent, floor, pub, dropped>>

-----------------------------------------------------------------------------
(* The load: the query outside the lock, the publication under it.          *)

Selected(d, e) == InWindow(DrawDate[d], window[e])

\* One statement, one snapshot of the table.
Load(c, result) ==
    /\ pc[c] = "build"
    /\ arch' = [arch EXCEPT ![ent[c]] = result]
    /\ phase' = [phase EXCEPT ![ent[c]] = "built"]
    /\ pc' = [pc EXCEPT ![c] = "publish"]
    /\ UNCHANGED <<table, cache, lru, window, ent, floor, pub, dropped, torn>>

BuildArchive(c) ==
    Load(c, [rows |-> [d \in Draws |-> IF Selected(d, ent[c]) THEN db[d] ELSE Absent],
             whole |-> TRUE])

\* rows.Next stopped at an error that nobody asks for (rows.Err): the draws
\* before a date, in ORDER BY draw_date, are taken for the whole window.
BuildTruncated(c) ==
    /\ pc[c] = "build"
    /\ \E last \in Draws :
        /\ Selected(last, ent[c])
        /\ db[last] # Absent
        /\ Load(c, [rows |-> [d \in Draws |->
                                IF Selected(d, ent[c]) /\ DrawDate[d] < DrawDate[last]
                                THEN db[d] ELSE Absent],
                    whole |-> FALSE])

\* The query failed, or the leader's ctx ended.
BuildError(c) == Load(c, Nil)

\* Mutant: the finished load is stored under its key (again).
PublishArchiveStored(c) ==
    /\ pc[c] = "publish"
    /\ LockFree
    /\ arch[ent[c]] # Nil
    /\ phase' = [phase EXCEPT ![ent[c]] = "ready"]
    /\ cache' = [cache EXCEPT ![KeyOf(ent[c])] = ent[c]]
    /\ pc' = [pc EXCEPT ![c] = "served"]
    /\ UNCHANGED <<table, lru, window, arch, ent, floor, pub, dropped, torn>>

PublishArchive(c) ==
    /\ pc[c] = "publish"
    /\ LockFree
    /\ arch[ent[c]] # Nil
    /\ phase' = [phase EXCEPT ![ent[c]] = "ready"]
    /\ pc' = [pc EXCEPT ![c] = "served"]
    /\ UNCHANGED <<table, cache, lru, window, arch, ent, floor, pub, dropped, torn>>

\* Mutant: the error path drops the entry but does not close done.
PublishErrorUnclosed(c) ==
    LET e == ent[c]
    IN  /\ pc[c] = "publish"
        /\ LockFree
        /\ arch[e] = Nil
        /\ lru' = Remove(lru, e)
        /\ cache' = [cache EXCEPT ![KeyOf(e)] = Nil]
        /\ torn' = (torn \/ e \notin Cached)
        /\ pc' = [pc EXCEPT ![c] = "error"]
        /\ UNCHANGED <<table, entries, ent, floor, pub, dropped>>

\* Drop a failed entry: remove(e), and delete whatever its key maps to.
PublishError(c) ==
    LET e == ent[c]
    IN  /\ pc[c] = "publish"
        /\ LockFree
        /\ arch[e] = Nil
        /\ phase' = [phase EXCEPT ![e] = "failed"]
        /\ lru' = Remove(lru, e)
        /\ cache' = [cache EXCEPT ![KeyOf(e)] = Nil]
        /\ torn' = (torn \/ e \notin Cached)
        /\ pc' = [pc EXCEPT ![c] = "error"]
        /\ UNCHANGED <<table, window, arch, ent, floor, pub, dropped>>

\* LotteryService.archive hands the archive or the error to its handler.
Respond(c) ==
    /\ pc[c] \in {"served", "error"}
    /\ pc' = [pc EXCEPT ![c] = "idle"]
    /\ ent' = [ent EXCEPT ![c] = Nil]
    /\ floor' = [floor EXCEPT ![c] = [d \in Draws |-> Absent]]
    /\ UNCHANGED <<table, cache, lru, entries, pub, dropped, torn>>

\* Nobody is in a call: the only states a behaviour may stop in.
Quiet == (\A c \in Clients : pc[c] = "idle") /\ UNCHANGED vars

-----------------------------------------------------------------------------
Writer ==
    \/ \E D \in SUBSET Draws : SeedOnBoot(D)
    \/ InvalidateAll
    \/ \E R \in SUBSET Draws, told \in BOOLEAN : InsertNewDraws(R, told)
    \/ \E d \in Draws, told \in BOOLEAN : UpdatePrizeAmounts(d, told)
    \/ InvalidateRange
    \/ \E k \in Keys : InvalidateEntry(k)
    \/ InvalidateDone

Caller(c) ==
    \/ \E w \in Windows : ArchiveHit(c, w) \/ ArchiveMiss(c, w)
    \/ ReadDone(c)
    \/ ReadDoneAgain(c)
    \/ AwaitDone(c)
    \/ Cancel(c)
    \/ Touch(c)
    \/ BuildArchive(c)
    \/ BuildTruncated(c)
    \/ BuildError(c)
    \/ PublishArchive(c)
    \/ PublishError(c)
    \/ Respond(c)

Next == Writer \/ (\E c \in Clients : Caller(c)) \/ Quiet

Spec == Init /\ [][Next]_vars

(* The goroutine that loads and the lock holder are scheduled, and a query  *)
(* returns: GetByDateRange ends with rows or with an error.                 *)
FairSpec ==
    /\ Spec
    /\ WF_vars(InvalidateDone \/ \E k \in Keys : InvalidateEntry(k))
    /\ \A c \in Clients :
        /\ WF_vars(BuildArchive(c) \/ BuildTruncated(c) \/ BuildError(c))
        /\ WF_vars(PublishArchive(c) \/ PublishError(c))
        /\ WF_vars(ReadDone(c) \/ ReadDoneAgain(c))
        /\ WF_vars(AwaitDone(c))
        /\ WF_vars(Touch(c))

-----------------------------------------------------------------------------
(* Properties.                                                              *)

ListType ==
    [head : Entries \union {Nil}, tail : Entries \union {Nil},
     prev : [Entries -> Entries \union {Nil}], next : [Entries -> Entries \union {Nil}]]

Pcs == {"idle", "looked", "reload", "wait", "waitnil", "touch",
        "build", "publish", "served", "error"}

\* The types, and that a caller holds an entry exactly while it is in a call.
TypeOK ==
    /\ db \in Snapshots
    /\ writer \in {"boot", "idle", "inserted", "prizes", "invalidating"}
    /\ owed \in DateRange \union {Nil}
    /\ cache \in [Keys -> Entries \union {Nil}]
    /\ lru \in ListType
    /\ window \in [Entries -> DateRange \union {Nil}]
    /\ phase \in [Entries -> Phases]
    /\ arch \in [Entries -> Archives \union {Nil}]
    /\ pc \in [Clients -> Pcs]
    /\ ent \in [Clients -> Entries \union {Nil}]
    /\ pub \in Snapshots
    /\ floor \in [Clients -> Snapshots]
    /\ dropped \subseteq Entries
    /\ torn \in BOOLEAN
    /\ \A c \in Clients : pc[c] = "idle" <=> ent[c] = Nil

AtLeast(e, levels) ==
    arch[e] # Nil /\ arch[e].whole =>
        \A d \in Draws : Selected(d, e) => levels[d] <= arch[e].rows[d]

\* What the map holds is never older than the last invalidation, whatever
\* loads were in flight when it ran: InvalidateRange's removal is enough.
CacheFresh ==
    \A k \in Keys : cache[k] # Nil => AtLeast(cache[k], pub)

\* Every archive handed out shows everything that had been invalidated when
\* the call began, also through a load that somebody else began earlier, an
\* entry dropped while it was waited for, or a list that is torn.
AnswersFresh ==
    \A c \in Clients : pc[c] = "served" => AtLeast(ent[c], floor[c])

\* The inductive invariant behind the two: ranges are there when they are
\* compared, history only moves forwards, an entry has no result before its
\* load, and a caller's entry is as fresh as the caller needs from the moment
\* its load is done.
RangesKnown ==
    /\ writer \notin {"boot", "idle"} => owed # Nil
    /\ \A k \in Keys : cache[k] # Nil => window[cache[k]] # Nil
HistoryOrdered ==
    \A d \in Draws : pub[d] <= db[d] /\ \A c \in Clients : floor[c][d] <= pub[d]
UnbuiltEmpty == \A e \in Entries : phase[e] \in {"free", "loading"} => arch[e] = Nil
CallsFresh == \A c \in Clients : ent[c] # Nil => AtLeast(ent[c], floor[c])
FreshInv ==
    TypeOK /\ RangesKnown /\ HistoryOrdered /\ UnbuiltEmpty /\ CacheFresh /\ CallsFresh

\* A load whose entry an invalidation, an eviction or an error took out of the
\* map never brings the entry back.
NoResurrection ==
    [][\A e \in Entries : phase[e] # "free" /\ e \notin Cached => e \notin Cached']_vars

\* As long as remove() has only been applied to cached entries, the LRU list
\* links exactly the cached entries, in both directions, from head to tail.
ListIsCache ==
    ~torn =>
        /\ lru.head = Nil <=> Cached = {}
        /\ lru.tail = Nil <=> Cached = {}
        /\ \A e \in Cached :
            /\ lru.prev[e] \in Cached \union {Nil}
            /\ lru.next[e] \in Cached \union {Nil}
            /\ lru.prev[e] = Nil <=> lru.head = e
            /\ lru.next[e] = Nil <=> lru.tail = e
            /\ lru.prev[e] # Nil => lru.next[lru.prev[e]] = e
            /\ lru.next[e] # Nil => lru.prev[lru.next[e]] = e
        /\ \A S \in SUBSET Cached :
            (lru.head \in S /\ \A e \in S : lru.next[e] \in S \union {Nil}) => S = Cached

\* Two loads of one window run at once only if an invalidation came between
\* them, as long as remove() has only been applied to cached entries.
Twins(e1, e2) == e1 # e2 /\ InFlight(e1) /\ InFlight(e2) /\ KeyOf(e1) = KeyOf(e2)
OneLoadUnlessTorn ==
    ~torn => \A e1, e2 \in Entries \ dropped : ~Twins(e1, e2)

\* The same without the condition: "the archive is built once, not once per
\* racing caller" (lottery_manager.go:30).  It does not hold.
OneLoadPerKey == \A e1, e2 \in Entries \ dropped : ~Twins(e1, e2)

\* "callers never proceed against a nil/invalid archive"
\* (lottery_service.go:51).  It does not hold.
NeverNilArchive == \A c \in Clients : pc[c] = "served" => arch[ent[c]] # Nil

\* LotteryManager implements ArchiveReads.  A nil archive counts as a refusal.
Served(c) == pc[c] = "served" /\ arch[ent[c]] # Nil
stage ==
    [c \in Clients |->
        CASE pc[c] = "idle" -> "idle"
          [] Served(c) -> "served"
          [] pc[c] \in {"served", "error"} /\ ~Served(c) -> "refused"
          [] OTHER -> "asked"]
answer ==
    [c \in Clients |->
        IF Served(c)
        THEN [rows |-> arch[ent[c]].rows, whole |-> arch[ent[c]].whole,
              covers |-> {d \in Draws : Selected(d, ent[c])}]
        ELSE Nil]
Reads == INSTANCE ArchiveReads WITH at <- stage, None <- Nil
ImplementsReads == Reads!Spec

\* Every call that waits for a load, or makes one, ends once the load does:
\* except for one that read e.done again and found it nil.
CallsEnd ==
    \A c \in Clients :
        pc[c] \in {"looked", "reload", "wait", "touch", "build", "publish"}
            ~> pc[c] \in {"served", "error", "waitnil"}
=============================================================================
