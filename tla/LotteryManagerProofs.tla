------------------------ MODULE LotteryManagerProofs ------------------------
(***************************************************************************)
(* Proofs about LotteryManager for any number of clients, entries, draws    *)
(* and windows and any cache size: the types; that nothing cached or served *)
(* is older than the invalidations it must reflect; that LotteryManager     *)
(* implements ArchiveReads, with one load per window at a time unless the   *)
(* list was torn, and that no call waits in vain; that the LRU list links   *)
(* exactly the cached entries as long as remove() was applied to cached     *)
(* entries only; and, of ArchiveService above it, that a handler is         *)
(* answered what it asked for and the cache keeps to its cap as long as no  *)
(* loads overlap.                                                           *)
(***************************************************************************)
EXTENDS ArchiveService, FiniteSetTheorems, TLAPS

-----------------------------------------------------------------------------
(* The list operators.                                                      *)

\* AddToFront yields a list of entries.
LEMMA AddToFrontType ==
    ASSUME NEW l \in ListType, NEW e \in Entries
    PROVE  AddToFront(l, e) \in ListType
BY DEF ListType, AddToFront

\* Remove yields a list of entries.
LEMMA RemoveType ==
    ASSUME NEW l \in ListType, NEW e \in Entries
    PROVE  Remove(l, e) \in ListType
BY DEF ListType, Remove

\* MoveToFront yields a list of entries.
LEMMA MoveToFrontType ==
    ASSUME NEW l \in ListType, NEW e \in Entries
    PROVE  MoveToFront(l, e) \in ListType
BY AddToFrontType, RemoveType DEF MoveToFront

\* Normalising a window gives a window whose lower bound is closed.
LEMMA NormalizeType ==
    ASSUME NEW w \in DateRange
    PROVE  normalizeWindow(w) \in DateRange
BY DefaultStartAssumption DEF normalizeWindow, DateRange

\* A date in two ranges makes them overlap: what InvalidateRange leaves cached
\* does not cover the changed draws.
LEMMA SharedDateOverlaps ==
    ASSUME NEW a \in DateRange, NEW b \in DateRange, NEW t \in Nat,
           InWindow(t, a), InWindow(t, b)
    PROVE  rangesOverlap(a, b)
BY DEF DateRange, InWindow, rangesOverlap, Open

\* The range reported for an insert is a range.
LEMMA SpansType ==
    ASSUME NEW D \in SUBSET Draws, NEW r, Spans(r, D)
    PROVE  r \in DateRange
BY DrawDateAssumption DEF Spans, DateRange

\* A range widened by a draw's date is a range.
LEMMA WidenType ==
    ASSUME NEW r \in DateRange \union {Nil}, NEW d \in Draws
    PROVE  Widen(r, DrawDate[d]) \in DateRange
BY DrawDateAssumption DEF Widen, DateRange

-----------------------------------------------------------------------------
(* Type correctness.                                                        *)

\* One step of the writer keeps the types.
LEMMA WriterType ==
    ASSUME TypeOK, Writer
    PROVE  TypeOK'
<1>0. Absent \in Levels /\ NoPrizes \in Levels /\ WithPrizes \in Levels
    BY DEF Absent, NoPrizes, WithPrizes, Levels
<1>1. ASSUME NEW D \in SUBSET Draws, SeedOnBoot(D)  PROVE TypeOK'
    BY <1>0, <1>1 DEF TypeOK, SeedOnBoot, Snapshots, entries, callers, Cached
<1>2. ASSUME InvalidateAll  PROVE TypeOK'
    BY <1>2 DEF TypeOK, InvalidateAll, ListType, entries, callers, Cached
<1>3. ASSUME NEW D \in SUBSET Draws, NEW told \in BOOLEAN, InsertNewDraws(D, told)
      PROVE  TypeOK'
    <2>2. db' \in Snapshots
        BY <1>0, <1>3 DEF TypeOK, InsertNewDraws, Snapshots
    <2>3. owed' \in DateRange \union {Nil} /\ writer' \in {writer, "inserted"}
        BY <1>3, SpansType DEF TypeOK, InsertNewDraws
    <2> QED
        BY <1>3, <2>2, <2>3 DEF TypeOK, InsertNewDraws, entries, callers
<1>4. ASSUME NEW d \in Draws, NEW told \in BOOLEAN, UpdatePrizeAmounts(d, told)
      PROVE  TypeOK'
    <2>2. db' \in Snapshots
        BY <1>0, <1>4 DEF TypeOK, UpdatePrizeAmounts, Snapshots
    <2>3. owed' \in DateRange \union {Nil} /\ writer' \in {writer, "prizes"}
        BY <1>4, WidenType DEF TypeOK, UpdatePrizeAmounts
    <2> QED
        BY <1>4, <2>2, <2>3 DEF TypeOK, UpdatePrizeAmounts, entries, callers
<1>5. ASSUME InvalidateRange  PROVE TypeOK'
    BY <1>5 DEF TypeOK, InvalidateRange, entries, callers
<1>6. ASSUME NEW k \in Keys, InvalidateEntry(k)  PROVE TypeOK'
    <2>1. cache[k] \in Entries
        BY <1>6 DEF TypeOK, InvalidateEntry
    <2>2. lru' \in ListType
        BY <1>6, <2>1, RemoveType DEF TypeOK, InvalidateEntry
    <2> QED
        BY <1>6, <2>1, <2>2 DEF TypeOK, InvalidateEntry, table, entries, callers
<1>7. ASSUME InvalidateDone  PROVE TypeOK'
    BY <1>7 DEF TypeOK, InvalidateDone, Snapshots, entries, callers
<1> QED
    BY <1>1, <1>2, <1>3, <1>4, <1>5, <1>6, <1>7 DEF Writer

\* One step of a caller keeps the types.
LEMMA CallerType ==
    ASSUME TypeOK, NEW c \in Clients, Caller(c)
    PROVE  TypeOK'
<1> USE NilAssumption
<1>1. ASSUME NEW w \in Windows, ArchiveHit(c, w)  PROVE TypeOK'
    <2>1. cache[windowKey(normalizeWindow(w))] \in Entries
        BY <1>1 DEF TypeOK, ArchiveHit, Keys
    <2> QED
        BY <1>1, <2>1 DEF TypeOK, ArchiveHit, Begin, table, entries, Pcs
<1>2. ASSUME NEW w \in Windows, ArchiveMiss(c, w)  PROVE TypeOK'
    <2> DEFINE win == normalizeWindow(w)
               map(e) == [cache EXCEPT ![windowKey(win)] = e]
               list(e) == AddToFront(lru, e)
    <2>1. PICK e \in Entries :
              /\ Begin(c)
              /\ phase[e] = "free"
              /\ window' = [window EXCEPT ![e] = win]
              /\ phase' = [phase EXCEPT ![e] = "loading"]
              /\ ent' = [ent EXCEPT ![c] = e]
              /\ pc' = [pc EXCEPT ![c] = "build"]
              /\ IF list(e).tail # e /\ Evictable(list(e), map(e))
                 THEN /\ cache' = [map(e) EXCEPT ![KeyOf(list(e).tail)] = Nil]
                      /\ lru' = Remove(list(e), list(e).tail)
                      /\ torn' = (torn \/ list(e).tail \notin Cached)
                 ELSE cache' = map(e) /\ lru' = list(e) /\ UNCHANGED torn
              /\ UNCHANGED <<table, arch, pub, dropped>>
        BY <1>2 DEF ArchiveMiss
    <2>2. map(e) \in [Keys -> Entries \union {Nil}] /\ list(e) \in ListType
        BY AddToFrontType DEF TypeOK
    <2>3. cache' \in [Keys -> Entries \union {Nil}]
        BY <2>1, <2>2
    <2>4. lru' \in ListType
        <3>1. CASE list(e).tail # e /\ Evictable(list(e), map(e))
            <4>1. list(e).tail \in Entries
                BY <2>2, <3>1 DEF Evictable, ListType
            <4> QED
                BY <2>1, <2>2, <3>1, <4>1, RemoveType
        <3>2. CASE ~(list(e).tail # e /\ Evictable(list(e), map(e)))
            BY <2>1, <2>2, <3>2
        <3> QED  BY <3>1, <3>2
    <2>5. torn' \in BOOLEAN
        BY <2>1 DEF TypeOK
    <2>6. window' \in [Entries -> DateRange \union {Nil}]
        BY <2>1, NormalizeType, WindowsAssumption DEF TypeOK
    <2> QED
        BY <2>1, <2>3, <2>4, <2>5, <2>6 DEF TypeOK, Begin, table, Pcs, Phases
<1>3. ASSUME ReadDone(c)  PROVE TypeOK'
    BY <1>3 DEF TypeOK, ReadDone, table, entries, Pcs
<1>4. ASSUME ReadDoneAgain(c)  PROVE TypeOK'
    BY <1>4 DEF TypeOK, ReadDoneAgain, table, entries, Pcs
<1>5. ASSUME AwaitDone(c)  PROVE TypeOK'
    BY <1>5 DEF TypeOK, AwaitDone, table, entries, Pcs
<1>6. ASSUME Cancel(c)  PROVE TypeOK'
    BY <1>6 DEF TypeOK, Cancel, table, entries, Pcs
<1>7. ASSUME Touch(c)  PROVE TypeOK'
    <2>1. ent[c] \in Entries
        BY <1>7 DEF TypeOK, Touch
    <2>2. lru' \in ListType /\ torn' \in BOOLEAN
        BY <1>7, <2>1, MoveToFrontType DEF TypeOK, Touch
    <2> QED
        BY <1>7, <2>2 DEF TypeOK, Touch, table, entries, Pcs
<1>8. ASSUME NEW r \in Archives \union {Nil}, Load(c, r)  PROVE TypeOK'
    <2>1. ent[c] \in Entries
        BY <1>8 DEF TypeOK, Load
    <2> QED
        BY <1>8, <2>1 DEF TypeOK, Load, table, Pcs, Phases
<1>9. ASSUME BuildArchive(c)  PROVE TypeOK'
    <2> DEFINE r == [rows |-> [d \in Draws |-> IF Selected(d, ent[c]) THEN db[d] ELSE Absent],
                     whole |-> TRUE]
    <2>1. r \in Archives
        BY DEF TypeOK, Archives, Snapshots, Levels, Absent
    <2> QED
        BY <1>8, <1>9, <2>1 DEF BuildArchive
<1>10. ASSUME BuildTruncated(c)  PROVE TypeOK'
    <2> DEFINE r(last) == [rows |-> [d \in Draws |->
                                     IF Selected(d, ent[c]) /\ DrawDate[d] < DrawDate[last]
                                     THEN db[d] ELSE Absent],
                           whole |-> FALSE]
    <2>1. PICK last \in Draws : Load(c, r(last))
        BY <1>10 DEF BuildTruncated
    <2>2. r(last) \in Archives
        BY DEF TypeOK, Archives, Snapshots, Levels, Absent
    <2> QED
        BY <1>8, <2>1, <2>2
<1>11. ASSUME BuildError(c)  PROVE TypeOK'
    BY <1>8, <1>11 DEF BuildError
<1>12. ASSUME PublishArchive(c)  PROVE TypeOK'
    BY <1>12 DEF TypeOK, PublishArchive, table, Pcs, Phases
<1>13. ASSUME PublishError(c)  PROVE TypeOK'
    <2>1. ent[c] \in Entries
        BY <1>13 DEF TypeOK, PublishError
    <2>2. lru' \in ListType /\ torn' \in BOOLEAN
        BY <1>13, <2>1, RemoveType DEF TypeOK, PublishError
    <2> QED
        BY <1>13, <2>1, <2>2 DEF TypeOK, PublishError, table, Pcs, Phases
<1>14. ASSUME Respond(c)  PROVE TypeOK'
    BY <1>14 DEF TypeOK, Respond, table, entries, Pcs, Snapshots, Levels, Absent
<1> QED
    BY <1>1, <1>2, <1>3, <1>4, <1>5, <1>6, <1>7, <1>9, <1>10, <1>11, <1>12,
       <1>13, <1>14 DEF Caller

\* TypeOK holds in every reachable state, for all values of the constants.
THEOREM TypeCorrect == Spec => []TypeOK
<1>1. ASSUME Init  PROVE TypeOK
    <2>1. [d \in Draws |-> Absent] \in Snapshots
        BY DEF Snapshots, Levels, Absent
    <2>2. lru \in ListType
        BY <1>1 DEF Init, ListType
    <2>3. phase \in [Entries -> Phases] /\ pc \in [Clients -> Pcs]
        BY <1>1 DEF Init, Phases, Pcs
    <2>4. \A c \in Clients : pc[c] = "idle" <=> ent[c] = Nil
        BY <1>1 DEF Init
    <2> QED
        BY <1>1, <2>1, <2>2, <2>3, <2>4 DEF Init, TypeOK, Snapshots
<1>2. TypeOK /\ [Next]_vars => TypeOK'
    <2> SUFFICES ASSUME TypeOK, [Next]_vars  PROVE TypeOK'
        OBVIOUS
    <2>1. CASE Next
        <3>1. CASE Quiet
            BY <3>1 DEF Quiet, vars, TypeOK, table, entries, callers
        <3> QED
            BY <2>1, <3>1, WriterType, CallerType DEF Next
    <2>2. CASE UNCHANGED vars
        BY <2>2 DEF vars, TypeOK, table, entries, callers
    <2> QED  BY <2>1, <2>2
<1> QED
    BY <1>1, <1>2, PTL DEF Spec

-----------------------------------------------------------------------------
(* Freshness.  FreshInv is inductive: a load reads the table after its entry *)
(* got into the map, an invalidation takes every entry out whose window      *)
(* holds a changed draw, and neither the order of the LRU list nor a delete  *)
(* of the wrong entry can put an old archive back.                           *)

\* Levels are numbers.
LEMMA LevelNumbers ==
    ASSUME TypeOK
    PROVE  /\ \A d \in Draws : db[d] \in Nat /\ db[d] <= WithPrizes /\ pub[d] \in Nat
           /\ \A c \in Clients, d \in Draws : floor[c][d] \in Nat
<1>1. \A n \in Levels : n \in Nat /\ n <= WithPrizes
    BY DEF Levels, WithPrizes
<1>2. /\ \A d \in Draws : db[d] \in Levels /\ pub[d] \in Levels
      /\ \A c \in Clients, d \in Draws : floor[c][d] \in Levels
    BY DEF TypeOK, Snapshots
<1> QED
    BY <1>1, <1>2

\* Steps that only raise the table, take entries out of the map or move
\* phases keep FreshInv.
LEMMA FreshFrame ==
    ASSUME FreshInv, TypeOK', RangesKnown', UnbuiltEmpty',
           UNCHANGED <<arch, window, ent, floor, pub>>,
           \A d \in Draws : db[d] <= db'[d],
           \A k \in Keys : cache'[k] \in {cache[k], Nil}
    PROVE  FreshInv'
<1>1. HistoryOrdered'
    BY DEF FreshInv, HistoryOrdered, TypeOK, Snapshots, Levels
<1>2. CacheFresh'
    <2> SUFFICES ASSUME NEW k \in Keys, cache'[k] # Nil
                 PROVE  AtLeast(cache[k], pub) /\ cache'[k] = cache[k]
        BY DEF CacheFresh, AtLeast, Selected
    <2> QED  BY DEF FreshInv, CacheFresh
<1>3. CallsFresh'
    BY DEF FreshInv, CallsFresh, AtLeast, Selected
<1> QED
    BY <1>1, <1>2, <1>3 DEF FreshInv

\* A step of the writer keeps FreshInv.
LEMMA WriterFresh ==
    ASSUME FreshInv, Writer, TypeOK'
    PROVE  FreshInv'
<1>0. TypeOK /\ RangesKnown /\ UnbuiltEmpty
    BY DEF FreshInv
<1>1. ASSUME NEW D \in SUBSET Draws, SeedOnBoot(D)  PROVE FreshInv'
    <2>1. \A d \in Draws : db[d] <= db'[d]
        BY <1>1 DEF SeedOnBoot, Absent, NoPrizes
    <2>2. RangesKnown' /\ UnbuiltEmpty'
        BY <1>0, <1>1 DEF SeedOnBoot, entries, RangesKnown, UnbuiltEmpty
    <2> QED
        BY <1>1, <2>1, <2>2, FreshFrame DEF SeedOnBoot, entries, callers
<1>2. ASSUME InvalidateAll  PROVE FreshInv'
    <2>1. HistoryOrdered'
        BY <1>0, <1>2, LevelNumbers DEF FreshInv, HistoryOrdered, InvalidateAll, callers
    <2>2. CacheFresh'
        BY <1>2 DEF InvalidateAll, CacheFresh
    <2>3. CallsFresh' /\ UnbuiltEmpty'
        BY <1>2 DEF FreshInv, CallsFresh, UnbuiltEmpty, InvalidateAll, entries, callers, AtLeast, Selected
    <2>4. RangesKnown'
        BY <1>2 DEF InvalidateAll, RangesKnown
    <2> QED  BY <2>1, <2>2, <2>3, <2>4 DEF FreshInv
<1>3. ASSUME NEW D \in SUBSET Draws, NEW told \in BOOLEAN, InsertNewDraws(D, told)
      PROVE  FreshInv'
    <2>1. \A d \in Draws : db[d] <= db'[d]
        BY <1>0, <1>3, LevelNumbers DEF InsertNewDraws, Absent, NoPrizes
    <2>2. RangesKnown' /\ UnbuiltEmpty'
        <3>1. owed' # Nil \/ UNCHANGED <<writer, owed>>
            BY <1>3, SpansType, NilAssumption DEF InsertNewDraws
        <3> QED
            BY <1>0, <1>3, <3>1 DEF InsertNewDraws, entries, RangesKnown, UnbuiltEmpty
    <2> QED
        BY <1>3, <2>1, <2>2, FreshFrame DEF InsertNewDraws, entries, callers
<1>4. ASSUME NEW d \in Draws, NEW told \in BOOLEAN, UpdatePrizeAmounts(d, told)
      PROVE  FreshInv'
    <2>1. \A x \in Draws : db[x] <= db'[x]
        BY <1>0, <1>4, LevelNumbers DEF UpdatePrizeAmounts, TypeOK, Snapshots
    <2>2. RangesKnown' /\ UnbuiltEmpty'
        <3>1. owed' # Nil \/ UNCHANGED <<writer, owed>>
            BY <1>0, <1>4, WidenType, NilAssumption DEF UpdatePrizeAmounts, TypeOK
        <3> QED
            BY <1>0, <1>4, <3>1 DEF UpdatePrizeAmounts, entries, RangesKnown, UnbuiltEmpty
    <2> QED
        BY <1>4, <2>1, <2>2, FreshFrame DEF UpdatePrizeAmounts, entries, callers
<1>5. ASSUME InvalidateRange  PROVE FreshInv'
    <2>1. \A d \in Draws : db[d] <= db'[d]
        BY <1>0, <1>5, LevelNumbers DEF InvalidateRange
    <2>2. RangesKnown' /\ UnbuiltEmpty'
        BY <1>0, <1>5 DEF InvalidateRange, entries, RangesKnown, UnbuiltEmpty
    <2> QED
        BY <1>5, <2>1, <2>2, FreshFrame DEF InvalidateRange, entries, callers
<1>6. ASSUME NEW k \in Keys, InvalidateEntry(k)  PROVE FreshInv'
    <2>1. \A d \in Draws : db[d] <= db'[d]
        BY <1>0, <1>6, LevelNumbers DEF InvalidateEntry, table
    <2>2. \A j \in Keys : cache'[j] \in {cache[j], Nil}
        BY <1>0, <1>6 DEF InvalidateEntry, TypeOK
    <2>3. RangesKnown' /\ UnbuiltEmpty'
        BY <1>0, <1>6, <2>2 DEF InvalidateEntry, table, entries, RangesKnown, UnbuiltEmpty
    <2> QED
        BY <1>6, <2>1, <2>2, <2>3, FreshFrame DEF InvalidateEntry, table, entries, callers
<1>7. ASSUME InvalidateDone  PROVE FreshInv'
    <2>1. HistoryOrdered'
        BY <1>0, <1>7, LevelNumbers DEF FreshInv, HistoryOrdered, InvalidateDone, callers
    <2>2. ASSUME NEW k \in Keys, cache'[k] # Nil  PROVE AtLeast(cache[k], pub)'
        <3> DEFINE e == cache[k]
        <3>1. e \in Entries /\ e \in Cached /\ ~Affected(e) /\ AtLeast(e, pub)
            BY <1>0, <1>7, <2>2 DEF TypeOK, InvalidateDone, Cached, FreshInv, CacheFresh
        <3>2. ASSUME NEW d \in Draws, Selected(d, e)  PROVE pub'[d] = pub[d]
            <4>1. window[e] \in DateRange /\ owed \in DateRange
                BY <1>0, <1>7, <2>2, <3>1 DEF RangesKnown, TypeOK, InvalidateDone
            <4>2. ~InWindow(DrawDate[d], owed)
                BY <3>1, <3>2, <4>1, SharedDateOverlaps, DrawDateAssumption
                   DEF Affected, Selected
            <4> QED  BY <1>7, <4>2 DEF InvalidateDone
        <3> QED
            BY <1>7, <3>1, <3>2 DEF InvalidateDone, entries, AtLeast, Selected
    <2>3. CacheFresh'
        BY <1>7, <2>2 DEF CacheFresh, InvalidateDone
    <2>4. CallsFresh' /\ UnbuiltEmpty'
        BY <1>7 DEF FreshInv, CallsFresh, UnbuiltEmpty, InvalidateDone, entries, callers, AtLeast, Selected
    <2>5. RangesKnown'
        BY <1>0, <1>7 DEF InvalidateDone, RangesKnown, entries
    <2> QED  BY <2>1, <2>3, <2>4, <2>5 DEF FreshInv
<1> QED
    BY <1>1, <1>2, <1>3, <1>4, <1>5, <1>6, <1>7 DEF Writer

\* A step of a caller keeps FreshInv.
LEMMA CallerFresh ==
    ASSUME FreshInv, NEW c \in Clients, Caller(c), TypeOK'
    PROVE  FreshInv'
<1>0. TypeOK /\ RangesKnown /\ HistoryOrdered /\ UnbuiltEmpty /\ CacheFresh /\ CallsFresh
    BY DEF FreshInv
\* The steps that leave the table, the map and the archives alone.
<1>1. ASSUME UNCHANGED <<table, cache, arch, window, phase, ent, floor, pub>>
      PROVE  FreshInv'
    <2>1. \A d \in Draws : db[d] <= db'[d]
        BY <1>0, <1>1, LevelNumbers DEF table
    <2>2. RangesKnown' /\ UnbuiltEmpty'
        BY <1>0, <1>1 DEF RangesKnown, UnbuiltEmpty, table
    <2> QED  BY <1>1, <2>1, <2>2, FreshFrame
<1>2. ASSUME NEW w \in Windows, ArchiveHit(c, w)  PROVE FreshInv'
    <2> DEFINE k == windowKey(normalizeWindow(w))
    <2>1. k \in Keys /\ cache[k] # Nil /\ AtLeast(cache[k], pub)
        BY <1>0, <1>2 DEF ArchiveHit, Keys, CacheFresh
    <2>2. UNCHANGED <<table, cache, entries, pub>>
        BY <1>2 DEF ArchiveHit
    <2>3. ent' = [ent EXCEPT ![c] = cache[k]] /\ floor' = [floor EXCEPT ![c] = pub]
        BY <1>2 DEF ArchiveHit, Begin
    <2>4. HistoryOrdered'
        BY <1>0, <2>2, <2>3, LevelNumbers DEF HistoryOrdered, TypeOK, table
    <2>5. RangesKnown' /\ UnbuiltEmpty' /\ CacheFresh'
        BY <1>0, <2>2 DEF RangesKnown, UnbuiltEmpty, CacheFresh, table, entries, AtLeast, Selected
    <2>6. ASSUME NEW b \in Clients, ent'[b] # Nil  PROVE AtLeast(ent[b], floor[b])'
        <3>1. CASE b = c
            BY <1>0, <2>1, <2>2, <2>3, <3>1 DEF TypeOK, entries, AtLeast, Selected
        <3>2. CASE b # c
            BY <1>0, <2>2, <2>3, <2>6, <3>2 DEF CallsFresh, TypeOK, entries, AtLeast, Selected
        <3> QED  BY <3>1, <3>2
    <2> QED  BY <2>4, <2>5, <2>6 DEF FreshInv, CallsFresh
<1>3. ASSUME NEW w \in Windows, ArchiveMiss(c, w)  PROVE FreshInv'
    <2> DEFINE win == normalizeWindow(w)
    <2>1. PICK e \in Entries :
              /\ phase[e] = "free"
              /\ window' = [window EXCEPT ![e] = win]
              /\ phase' = [phase EXCEPT ![e] = "loading"]
              /\ ent' = [ent EXCEPT ![c] = e]
              /\ floor' = [floor EXCEPT ![c] = pub]
              /\ \/ \E x : cache' = [[cache EXCEPT ![windowKey(win)] = e] EXCEPT ![x] = Nil]
                 \/ cache' = [cache EXCEPT ![windowKey(win)] = e]
              /\ UNCHANGED <<table, arch, pub>>
        BY <1>3 DEF ArchiveMiss, Begin
    <2>2. arch'[e] = Nil /\ \A x \in Entries \ {e} : window'[x] = window[x]
        BY <1>0, <2>1 DEF UnbuiltEmpty, TypeOK
    <2>3. \A j \in Keys : cache'[j] \in {cache[j], e, Nil}
        BY <1>0, <2>1 DEF TypeOK
    <2>4. HistoryOrdered'
        BY <1>0, <2>1, LevelNumbers DEF HistoryOrdered, TypeOK, table
    <2>5. UnbuiltEmpty'
        BY <1>0, <2>1 DEF UnbuiltEmpty, TypeOK
    <2>6. window'[e] # Nil
        BY <1>0, <2>1, NormalizeType, WindowsAssumption, NilAssumption DEF TypeOK
    <2>7. RangesKnown'
        BY <1>0, <2>1, <2>2, <2>3, <2>6 DEF RangesKnown, TypeOK, table
    <2>8. ASSUME NEW j \in Keys, cache'[j] # Nil  PROVE AtLeast(cache[j], pub)'
        <3>1. CASE cache'[j] = e
            BY <2>2, <3>1 DEF AtLeast
        <3>2. CASE cache'[j] # e
            BY <1>0, <2>1, <2>2, <2>3, <2>8, <3>2 DEF CacheFresh, TypeOK, AtLeast, Selected
        <3> QED  BY <3>1, <3>2
    <2>9. ASSUME NEW b \in Clients, ent'[b] # Nil  PROVE AtLeast(ent[b], floor[b])'
        <3>1. CASE ent'[b] = e
            BY <2>2, <3>1 DEF AtLeast
        <3>2. CASE ent'[b] # e
            <4>1. b # c /\ ent'[b] = ent[b] /\ floor'[b] = floor[b] /\ ent[b] \in Entries
                BY <1>0, <2>1, <2>9, <3>2 DEF TypeOK
            <4> QED
                BY <1>0, <2>1, <2>2, <2>9, <3>2, <4>1 DEF CallsFresh, AtLeast, Selected
        <3> QED  BY <3>1, <3>2
    <2> QED  BY <2>4, <2>5, <2>7, <2>8, <2>9 DEF FreshInv, CacheFresh, CallsFresh
\* A load's rows are the table's, hence at least pub and every floor.
<1>4. ASSUME NEW r \in Archives \union {Nil}, Load(c, r),
             r # Nil /\ r.whole =>
                 \A d \in Draws : Selected(d, ent[c]) => r.rows[d] = db[d]
      PROVE  FreshInv'
    <2> DEFINE e == ent[c]
    <2>1. /\ arch' = [arch EXCEPT ![e] = r] /\ phase' = [phase EXCEPT ![e] = "built"]
          /\ UNCHANGED <<table, cache, window, ent, floor, pub>>
        BY <1>4 DEF Load
    <2>2. \A x \in Entries : x # e => arch'[x] = arch[x]
        BY <1>0, <2>1 DEF TypeOK
    <2>3. e \in Entries /\ arch'[e] = r
        BY <1>0, <1>4, <2>1 DEF TypeOK, Load
    <2>4. HistoryOrdered' /\ RangesKnown' /\ UnbuiltEmpty'
        BY <1>0, <2>1 DEF HistoryOrdered, RangesKnown, UnbuiltEmpty, TypeOK, table
    <2>5. ASSUME NEW j \in Keys, cache'[j] # Nil  PROVE AtLeast(cache[j], pub)'
        <3>1. CASE cache[j] = e
            BY <1>0, <1>4, <2>1, <2>3, <3>1 DEF AtLeast, Selected, HistoryOrdered
        <3>2. CASE cache[j] # e
            BY <1>0, <2>1, <2>2, <2>5, <3>2 DEF CacheFresh, TypeOK, AtLeast, Selected
        <3> QED  BY <3>1, <3>2
    <2>6. ASSUME NEW b \in Clients, ent'[b] # Nil  PROVE AtLeast(ent[b], floor[b])'
        <3>1. \A d \in Draws : floor[b][d] <= db[d]
            BY <1>0, LevelNumbers DEF HistoryOrdered
        <3>2. CASE ent[b] = e
            BY <1>4, <2>1, <2>3, <3>1, <3>2 DEF AtLeast, Selected
        <3>3. CASE ent[b] # e
            BY <1>0, <2>1, <2>2, <2>6, <3>3 DEF CallsFresh, TypeOK, AtLeast, Selected
        <3> QED  BY <3>2, <3>3
    <2> QED  BY <2>4, <2>5, <2>6 DEF FreshInv, CacheFresh, CallsFresh
<1>5. ASSUME BuildArchive(c)  PROVE FreshInv'
    <2> DEFINE r == [rows |-> [d \in Draws |-> IF Selected(d, ent[c]) THEN db[d] ELSE Absent],
                     whole |-> TRUE]
    <2>1. r \in Archives /\ \A d \in Draws : Selected(d, ent[c]) => r.rows[d] = db[d]
        BY <1>0 DEF TypeOK, Archives, Snapshots, Levels, Absent
    <2> QED
        BY <1>4, <1>5, <2>1 DEF BuildArchive
<1>6. ASSUME BuildTruncated(c)  PROVE FreshInv'
    <2> DEFINE r(last) == [rows |-> [d \in Draws |->
                                     IF Selected(d, ent[c]) /\ DrawDate[d] < DrawDate[last]
                                     THEN db[d] ELSE Absent],
                           whole |-> FALSE]
    <2>1. PICK last \in Draws : Load(c, r(last))
        BY <1>6 DEF BuildTruncated
    <2>2. r(last) \in Archives /\ ~r(last).whole
        BY <1>0 DEF TypeOK, Archives, Snapshots, Levels, Absent
    <2> QED
        BY <1>4, <2>1, <2>2
<1>7. ASSUME BuildError(c)  PROVE FreshInv'
    BY <1>4, <1>7 DEF BuildError
<1>8. ASSUME PublishArchive(c) \/ PublishError(c)  PROVE FreshInv'
    <2>1. /\ UNCHANGED <<table, arch, window, ent, floor, pub>>
          /\ cache' = cache \/ \E x : cache' = [cache EXCEPT ![x] = Nil]
          /\ \E new \in {"ready", "failed"} : phase' = [phase EXCEPT ![ent[c]] = new]
        BY <1>8 DEF PublishArchive, PublishError
    <2>2. \A j \in Keys : cache'[j] \in {cache[j], Nil}
        BY <1>0, <2>1 DEF TypeOK
    <2>3. RangesKnown' /\ UnbuiltEmpty'
        BY <1>0, <2>1, <2>2 DEF RangesKnown, UnbuiltEmpty, TypeOK, table
    <2>4. \A d \in Draws : db[d] <= db'[d]
        BY <1>0, <2>1, LevelNumbers DEF table
    <2> QED
        BY <2>1, <2>2, <2>3, <2>4, FreshFrame
<1>9. ASSUME Respond(c)  PROVE FreshInv'
    <2>1. /\ UNCHANGED <<table, cache, entries, pub>>
          /\ ent' = [ent EXCEPT ![c] = Nil]
          /\ floor' = [floor EXCEPT ![c] = [d \in Draws |-> Absent]]
        BY <1>9 DEF Respond
    <2>2. RangesKnown' /\ UnbuiltEmpty' /\ CacheFresh'
        BY <1>0, <2>1 DEF RangesKnown, UnbuiltEmpty, CacheFresh, table, entries, AtLeast, Selected
    <2>3. HistoryOrdered'
        BY <1>0, <2>1, LevelNumbers DEF HistoryOrdered, TypeOK, table, Absent
    <2>4. CallsFresh'
        BY <1>0, <2>1 DEF CallsFresh, TypeOK, entries, AtLeast, Selected
    <2> QED  BY <2>2, <2>3, <2>4 DEF FreshInv
<1> QED
    BY <1>1, <1>2, <1>3, <1>5, <1>6, <1>7, <1>8, <1>9
       DEF Caller, ReadDone, ReadDoneAgain, AwaitDone, Cancel, Touch, entries

\* FreshInv holds in every reachable state.
THEOREM FreshCorrect == Spec => []FreshInv
<1>1. ASSUME Init, TypeOK  PROVE FreshInv
    <2>1. pub = [d \in Draws |-> Absent] /\ \A c \in Clients : floor[c] = pub
        BY <1>1 DEF Init
    <2>2. HistoryOrdered
        BY <1>1, <2>1, LevelNumbers DEF HistoryOrdered, Absent
    <2>3. RangesKnown /\ UnbuiltEmpty /\ CacheFresh /\ CallsFresh
        BY <1>1 DEF Init, RangesKnown, UnbuiltEmpty, CacheFresh, CallsFresh
    <2> QED  BY <1>1, <2>2, <2>3 DEF FreshInv
<1>2. ASSUME FreshInv, TypeOK', [Next]_vars  PROVE FreshInv'
    <2>1. CASE UNCHANGED vars
        BY <1>2, <2>1 DEF vars, table, entries, callers, FreshInv, RangesKnown, HistoryOrdered,
           UnbuiltEmpty, CacheFresh, CallsFresh, AtLeast, Selected
    <2>2. CASE Quiet
        BY <2>1, <2>2 DEF Quiet
    <2> QED
        BY <1>2, <2>1, <2>2, WriterFresh, CallerFresh DEF Next
<1> QED
    BY <1>1, <1>2, TypeCorrect, PTL DEF Spec

\* Nothing in the map is older than the last invalidation.
THEOREM CacheIsFresh == Spec => []CacheFresh
<1>1. FreshInv => CacheFresh
    BY DEF FreshInv
<1> QED
    BY <1>1, FreshCorrect, PTL

\* Nothing served is older than the invalidations before the call.
THEOREM AnswersAreFresh == Spec => []AnswersFresh
<1>1. FreshInv => AnswersFresh
    BY DEF FreshInv, CallsFresh, AnswersFresh, TypeOK
<1> QED
    BY <1>1, FreshCorrect, PTL

-----------------------------------------------------------------------------
\* An entry that left the map does not come back: only a miss stores an
\* entry, and it stores one that was never allocated.
THEOREM NoEntryReturns == Spec => NoResurrection
<1> DEFINE A == \A e \in Entries : phase[e] # "free" /\ e \notin Cached => e \notin Cached'
<1>1. ASSUME TypeOK, \A k \in Keys : cache'[k] \in {cache[k], Nil}  PROVE A
    BY <1>1 DEF Cached
<1>2. ASSUME TypeOK, Writer  PROVE A
    <2>1. ASSUME NEW k \in Keys, InvalidateEntry(k)  PROVE A
        BY <1>1, <1>2, <2>1 DEF InvalidateEntry, TypeOK
    <2>2. ASSUME InvalidateAll  PROVE A
        BY <1>1, <1>2, <2>2 DEF InvalidateAll
    <2>3. ASSUME cache' = cache  PROVE A
        BY <1>1, <1>2, <2>3
    <2> QED
        BY <1>2, <2>1, <2>2, <2>3
           DEF Writer, SeedOnBoot, InsertNewDraws, UpdatePrizeAmounts, InvalidateRange, InvalidateDone
<1>3. ASSUME TypeOK, NEW c \in Clients, Caller(c)  PROVE A
    <2>1. ASSUME NEW w \in Windows, ArchiveMiss(c, w)  PROVE A
        <3>1. PICK e \in Entries :
                  /\ phase[e] = "free"
                  /\ \/ \E x : cache' = [[cache EXCEPT ![windowKey(normalizeWindow(w))] = e]
                                            EXCEPT ![x] = Nil]
                     \/ cache' = [cache EXCEPT ![windowKey(normalizeWindow(w))] = e]
            BY <2>1 DEF ArchiveMiss
        <3>2. \A k \in Keys : cache'[k] \in {cache[k], e, Nil}
            BY <1>3, <3>1 DEF TypeOK
        <3> QED
            BY <1>3, <3>1, <3>2 DEF Cached
    <2>2. ASSUME PublishError(c)  PROVE A
        BY <1>1, <1>3, <2>2 DEF PublishError, TypeOK
    <2>3. ASSUME cache' = cache  PROVE A
        BY <1>1, <1>3, <2>3
    <2> QED
        BY <1>3, <2>1, <2>2, <2>3
           DEF Caller, ArchiveHit, ReadDone, ReadDoneAgain, AwaitDone, Cancel, Touch, BuildArchive,
               BuildTruncated, BuildError, Load, PublishArchive, Respond
<1>4. TypeOK /\ [Next]_vars => [A]_vars
    BY <1>2, <1>3 DEF Next, Quiet
<1> QED
    BY <1>4, TypeCorrect, PTL DEF Spec, NoResurrection

-----------------------------------------------------------------------------
(* The refinement of ArchiveReads.                                          *)

\* An entry that was allocated has a window; the map has it under its own key.
Placed ==
    /\ \A e \in Entries : phase[e] # "free" => window[e] \in DateRange /\ KeyOf(e) \in Keys
    /\ \A k \in Keys : cache[k] # Nil => KeyOf(cache[k]) = k /\ phase[cache[k]] # "free"

\* An entry is loaded by the one call that allocated it, and no call returns
\* with it before that.
Led ==
    \A c \in Clients :
        /\ ent[c] # Nil => phase[ent[c]] # "free"
        /\ pc[c] = "build" => phase[ent[c]] = "loading"
        /\ pc[c] = "publish" => phase[ent[c]] = "built"
        /\ pc[c] \in {"touch", "served"} => phase[ent[c]] \in {"ready", "failed"}
        /\ \A b \in Clients :
            pc[b] \in {"build", "publish"} /\ pc[c] \in {"build", "publish"}
                /\ ent[b] = ent[c] => b = c

\* An archive shows nothing the table does not, and nothing beyond its window.
RowsBounded ==
    \A e \in Entries : arch[e] # Nil =>
        \A d \in Draws : arch[e].rows[d] <= IF Selected(d, e) THEN db[d] ELSE Absent

\* A load is found under its key by whoever asks next.
LoadsCached ==
    ~torn => \A e \in Entries \ dropped : InFlight(e) => cache[KeyOf(e)] = e

\* What is being loaded is being loaded by a call.
Driven ==
    \A e \in Entries : InFlight(e) =>
        \E c \in Clients : ent[c] = e /\ pc[c] \in {"build", "publish"}

IInv == FreshInv /\ Placed /\ Led /\ Driven /\ RowsBounded /\ LoadsCached

-----------------------------------------------------------------------------
(* What a miss does.                                                        *)

\* The new entry goes under its key; a victim, if there is one, is not being
\* loaded.
LEMMA Miss ==
    ASSUME TypeOK, NEW c \in Clients, NEW w \in Windows, ArchiveMiss(c, w)
    PROVE  \E e \in Entries, k \in Keys :
              /\ phase[e] = "free" /\ cache[k] = Nil /\ pc[c] = "idle"
              /\ \E win \in DateRange : window' = [window EXCEPT ![e] = win] /\ k = windowKey(win)
              /\ phase' = [phase EXCEPT ![e] = "loading"]
              /\ ent' = [ent EXCEPT ![c] = e] /\ pc' = [pc EXCEPT ![c] = "build"]
              /\ floor' = [floor EXCEPT ![c] = pub]
              /\ \/ cache' = [cache EXCEPT ![k] = e] /\ torn' = torn /\ lru' = AddToFront(lru, e)
                 \/ \E v \in Entries \ {e} :
                    /\ lru' = Remove(AddToFront(lru, e), v)
                    /\ ~InFlight(v) /\ torn' = (torn \/ v \notin Cached)
                    /\ cache' = [[cache EXCEPT ![k] = e] EXCEPT ![KeyOf(v)] = Nil]
              /\ UNCHANGED <<table, arch, pub, dropped>>
<1> DEFINE win == normalizeWindow(w)
           map(e) == [cache EXCEPT ![windowKey(win)] = e]
           list(e) == AddToFront(lru, e)
<1>1. PICK e \in Entries :
          /\ Begin(c) /\ cache[windowKey(win)] = Nil
          /\ phase[e] = "free"
          /\ window' = [window EXCEPT ![e] = win]
          /\ phase' = [phase EXCEPT ![e] = "loading"]
          /\ ent' = [ent EXCEPT ![c] = e]
          /\ pc' = [pc EXCEPT ![c] = "build"]
          /\ IF list(e).tail # e /\ Evictable(list(e), map(e))
             THEN /\ cache' = [map(e) EXCEPT ![KeyOf(list(e).tail)] = Nil]
                  /\ lru' = Remove(list(e), list(e).tail)
                  /\ torn' = (torn \/ list(e).tail \notin Cached)
             ELSE cache' = map(e) /\ lru' = list(e) /\ UNCHANGED torn
          /\ UNCHANGED <<table, arch, pub, dropped>>
    BY DEF ArchiveMiss
<1>2. win \in DateRange /\ windowKey(win) \in Keys
    BY NormalizeType, WindowsAssumption DEF Keys
<1>3. list(e) \in ListType
    BY AddToFrontType DEF TypeOK
<1>4. \/ cache' = map(e) /\ torn' = torn /\ lru' = list(e)
      \/ \E v \in Entries \ {e} :
            /\ lru' = Remove(list(e), v)
            /\ ~InFlight(v) /\ torn' = (torn \/ v \notin Cached)
            /\ cache' = [map(e) EXCEPT ![KeyOf(v)] = Nil]
    <2>1. CASE list(e).tail # e /\ Evictable(list(e), map(e))
        <3>1. list(e).tail \in Entries \ {e} /\ ~InFlight(list(e).tail)
            BY <1>3, <2>1 DEF Evictable, ListType
        <3> QED
            BY <1>1, <2>1, <3>1
    <2>2. CASE ~(list(e).tail # e /\ Evictable(list(e), map(e)))
        BY <1>1, <2>2
    <2> QED
        BY <2>1, <2>2
<1>5. pc[c] = "idle" /\ floor' = [floor EXCEPT ![c] = pub]
    BY <1>1 DEF Begin
<1> HIDE DEF win
<1> QED
    BY <1>1, <1>2, <1>4, <1>5

\* The map's entries are those of its keys.
LEMMA CachedEntries ==
    ASSUME TypeOK, Placed, NEW e \in Entries, e \in Cached
    PROVE  cache[KeyOf(e)] = e
BY DEF Placed, Cached

\* No step but an insert, an update and the seed touches the table, and none
\* takes anything away.
LEMMA TableGrows ==
    ASSUME TypeOK, Writer
    PROVE  \A d \in Draws : db[d] <= db'[d]
<1>1. \A d \in Draws : db[d] \in {0, 1, 2}
    BY DEF TypeOK, Snapshots, Levels
<1>2. ASSUME NEW D \in SUBSET Draws, SeedOnBoot(D)  PROVE \A d \in Draws : db[d] <= db'[d]
    BY <1>1, <1>2 DEF SeedOnBoot, Absent, NoPrizes
<1>3. ASSUME NEW D \in SUBSET Draws, NEW told \in BOOLEAN, InsertNewDraws(D, told)
      PROVE  \A d \in Draws : db[d] <= db'[d]
    BY <1>1, <1>3 DEF InsertNewDraws, Absent, NoPrizes
<1>4. ASSUME NEW x \in Draws, NEW told \in BOOLEAN, UpdatePrizeAmounts(x, told)
      PROVE  \A d \in Draws : db[d] <= db'[d]
    BY <1>1, <1>4 DEF UpdatePrizeAmounts, WithPrizes, TypeOK, Snapshots
<1>5. ASSUME db' = db  PROVE \A d \in Draws : db[d] <= db'[d]
    BY <1>1, <1>5
<1> QED
    BY <1>2, <1>3, <1>4, <1>5 DEF Writer, InvalidateAll, InvalidateRange, InvalidateEntry,
       InvalidateDone, table

\* What a load yields is in the table and in its window, or nothing.
LEMMA LoadsRows ==
    ASSUME TypeOK, NEW c \in Clients, BuildArchive(c) \/ BuildTruncated(c) \/ BuildError(c)
    PROVE  \E r \in Archives \union {Nil} :
              Load(c, r) /\ (r # Nil => \A d \in Draws :
                  r.rows[d] <= IF Selected(d, ent[c]) THEN db[d] ELSE Absent)
<1>1. \A d \in Draws : db[d] \in Levels /\ db[d] <= db[d] /\ Absent <= db[d] /\ Absent <= Absent
    BY DEF TypeOK, Snapshots, Levels, Absent
<1>2. CASE BuildArchive(c)
    <2> DEFINE r == [rows |-> [d \in Draws |-> IF Selected(d, ent[c]) THEN db[d] ELSE Absent],
                     whole |-> TRUE]
    <2>1. r \in Archives
        BY <1>1 DEF Archives, Snapshots, Levels, Absent
    <2>2. \A d \in Draws : r.rows[d] <= IF Selected(d, ent[c]) THEN db[d] ELSE Absent
        BY <1>1
    <2> QED
        BY <1>2, <2>1, <2>2 DEF BuildArchive
<1>3. CASE BuildTruncated(c)
    <2> DEFINE r(last) == [rows |-> [d \in Draws |->
                                     IF Selected(d, ent[c]) /\ DrawDate[d] < DrawDate[last]
                                     THEN db[d] ELSE Absent],
                           whole |-> FALSE]
    <2>1. PICK last \in Draws : Load(c, r(last))
        BY <1>3 DEF BuildTruncated
    <2>2. r(last) \in Archives
        BY <1>1 DEF Archives, Snapshots, Levels, Absent
    <2>3. \A d \in Draws : r(last).rows[d] <= IF Selected(d, ent[c]) THEN db[d] ELSE Absent
        BY <1>1
    <2> QED
        BY <2>1, <2>2, <2>3
<1>4. CASE BuildError(c)
    BY <1>4 DEF BuildError
<1> QED
    BY <1>2, <1>3, <1>4

-----------------------------------------------------------------------------
(* The strengthened invariant.                                              *)

\* The writer only takes entries out of the map.
LEMMA PlacedWriter ==
    ASSUME TypeOK, Placed, Writer
    PROVE  Placed'
<1> USE NilAssumption DEF TypeOK, Placed, KeyOf, table, entries, callers
<1>1. ASSUME NEW D \in SUBSET Draws, SeedOnBoot(D)  PROVE Placed'
    BY <1>1 DEF SeedOnBoot
<1>2. CASE InvalidateAll
    BY <1>2 DEF InvalidateAll
<1>3. ASSUME NEW D \in SUBSET Draws, NEW told \in BOOLEAN, InsertNewDraws(D, told)  PROVE Placed'
    BY <1>3 DEF InsertNewDraws
<1>4. ASSUME NEW d \in Draws, NEW told \in BOOLEAN, UpdatePrizeAmounts(d, told)  PROVE Placed'
    BY <1>4 DEF UpdatePrizeAmounts
<1>5. CASE InvalidateRange
    BY <1>5 DEF InvalidateRange
<1>6. ASSUME NEW k \in Keys, InvalidateEntry(k)  PROVE Placed'
    BY <1>6 DEF InvalidateEntry
<1>7. CASE InvalidateDone
    BY <1>7 DEF InvalidateDone
<1> QED
    BY <1>1, <1>2, <1>3, <1>4, <1>5, <1>6, <1>7
    DEF Writer

\* A call stores an entry under the key of its window.
LEMMA PlacedCaller ==
    ASSUME TypeOK, Placed, Led, NEW c \in Clients, Caller(c)
    PROVE  Placed'
<1> USE NilAssumption DEF TypeOK, Placed, Led, KeyOf, table, entries, callers
<1>1. ASSUME NEW w \in Windows, ArchiveHit(c, w)  PROVE Placed'
    BY <1>1 DEF ArchiveHit
<1>2. ASSUME NEW w \in Windows, ArchiveMiss(c, w)  PROVE Placed'
    <2>1. PICK e \in Entries, k \in Keys :
              /\ phase[e] = "free" /\ cache[k] = Nil /\ pc[c] = "idle"
              /\ \E win \in DateRange : window' = [window EXCEPT ![e] = win] /\ k = windowKey(win)
              /\ phase' = [phase EXCEPT ![e] = "loading"]
              /\ ent' = [ent EXCEPT ![c] = e] /\ pc' = [pc EXCEPT ![c] = "build"]
              /\ floor' = [floor EXCEPT ![c] = pub]
              /\ \/ cache' = [cache EXCEPT ![k] = e] /\ torn' = torn
                 \/ \E v \in Entries \ {e} :
                    /\ ~InFlight(v) /\ torn' = (torn \/ v \notin Cached)
                    /\ cache' = [[cache EXCEPT ![k] = e] EXCEPT ![KeyOf(v)] = Nil]
              /\ UNCHANGED <<table, arch, pub, dropped>>
        BY <1>2, Miss
    <2> QED
        BY <1>2, <2>1
<1>3. ASSUME ReadDone(c)  PROVE Placed'
    BY <1>3 DEF ReadDone
<1>4. ASSUME ReadDoneAgain(c)  PROVE Placed'
    BY <1>4 DEF ReadDoneAgain
<1>5. ASSUME AwaitDone(c)  PROVE Placed'
    BY <1>5 DEF AwaitDone
<1>6. ASSUME Cancel(c)  PROVE Placed'
    BY <1>6 DEF Cancel
<1>7. ASSUME Touch(c)  PROVE Placed'
    BY <1>7 DEF Touch
<1>8. ASSUME BuildArchive(c)  PROVE Placed'
    <2>1. PICK r \in Archives \union {Nil} :
              Load(c, r) /\ (r # Nil => \A d \in Draws :
                  r.rows[d] <= IF Selected(d, ent[c]) THEN db[d] ELSE Absent)
        BY <1>8, LoadsRows
    <2> QED
        BY <2>1 DEF Load
<1>9. ASSUME BuildTruncated(c)  PROVE Placed'
    <2>1. PICK r \in Archives \union {Nil} :
              Load(c, r) /\ (r # Nil => \A d \in Draws :
                  r.rows[d] <= IF Selected(d, ent[c]) THEN db[d] ELSE Absent)
        BY <1>9, LoadsRows
    <2> QED
        BY <2>1 DEF Load
<1>10. ASSUME BuildError(c)  PROVE Placed'
    <2>1. PICK r \in Archives \union {Nil} :
              Load(c, r) /\ (r # Nil => \A d \in Draws :
                  r.rows[d] <= IF Selected(d, ent[c]) THEN db[d] ELSE Absent)
        BY <1>10, LoadsRows
    <2> QED
        BY <2>1 DEF Load
<1>11. ASSUME PublishArchive(c)  PROVE Placed'
    BY <1>11 DEF PublishArchive
<1>12. ASSUME PublishError(c)  PROVE Placed'
    BY <1>12 DEF PublishError
<1>13. ASSUME Respond(c)  PROVE Placed'
    BY <1>13 DEF Respond
<1> QED
    BY <1>1, <1>2, <1>3, <1>4, <1>5, <1>6, <1>7, <1>8, <1>9, <1>10, <1>11, <1>12,
       <1>13
    DEF Caller

\* A call that misses leads its load to the end.
LEMMA LedCaller ==
    ASSUME TypeOK, Placed, Led, NEW c \in Clients, Caller(c)
    PROVE  Led'
<1> USE NilAssumption DEF TypeOK, Placed, Led, InFlight, table, entries, callers
<1>1. ASSUME NEW w \in Windows, ArchiveHit(c, w)  PROVE Led'
    <2>1. cache[windowKey(normalizeWindow(w))] \in Entries /\ phase[cache[windowKey(normalizeWindow(w))]] # "free"
        BY <1>1 DEF ArchiveHit, Keys
    <2> QED
        BY <1>1, <2>1 DEF ArchiveHit, Begin
<1>2. ASSUME NEW w \in Windows, ArchiveMiss(c, w)  PROVE Led'
    <2>1. PICK e \in Entries, k \in Keys :
              /\ phase[e] = "free" /\ cache[k] = Nil /\ pc[c] = "idle"
              /\ \E win \in DateRange : window' = [window EXCEPT ![e] = win] /\ k = windowKey(win)
              /\ phase' = [phase EXCEPT ![e] = "loading"]
              /\ ent' = [ent EXCEPT ![c] = e] /\ pc' = [pc EXCEPT ![c] = "build"]
              /\ floor' = [floor EXCEPT ![c] = pub]
              /\ \/ cache' = [cache EXCEPT ![k] = e] /\ torn' = torn
                 \/ \E v \in Entries \ {e} :
                    /\ ~InFlight(v) /\ torn' = (torn \/ v \notin Cached)
                    /\ cache' = [[cache EXCEPT ![k] = e] EXCEPT ![KeyOf(v)] = Nil]
              /\ UNCHANGED <<table, arch, pub, dropped>>
        BY <1>2, Miss
    <2> QED
        BY <1>2, <2>1
<1>3. ASSUME ReadDone(c)  PROVE Led'
    <2>1. ent[c] \in Entries /\ phase[ent[c]] \in Phases \ {"free"}
        BY <1>3 DEF ReadDone
    <2> QED
        BY <1>3, <2>1 DEF ReadDone, Phases
<1>4. ASSUME ReadDoneAgain(c)  PROVE Led'
    BY <1>4 DEF ReadDoneAgain
<1>5. ASSUME AwaitDone(c)  PROVE Led'
    BY <1>5 DEF AwaitDone
<1>6. ASSUME Cancel(c)  PROVE Led'
    BY <1>6 DEF Cancel
<1>7. ASSUME Touch(c)  PROVE Led'
    BY <1>7 DEF Touch
<1>8. ASSUME BuildArchive(c)  PROVE Led'
    <2>1. PICK r \in Archives \union {Nil} :
              Load(c, r) /\ (r # Nil => \A d \in Draws :
                  r.rows[d] <= IF Selected(d, ent[c]) THEN db[d] ELSE Absent)
        BY <1>8, LoadsRows
    <2> QED
        BY <2>1 DEF Load
<1>9. ASSUME BuildTruncated(c)  PROVE Led'
    <2>1. PICK r \in Archives \union {Nil} :
              Load(c, r) /\ (r # Nil => \A d \in Draws :
                  r.rows[d] <= IF Selected(d, ent[c]) THEN db[d] ELSE Absent)
        BY <1>9, LoadsRows
    <2> QED
        BY <2>1 DEF Load
<1>10. ASSUME BuildError(c)  PROVE Led'
    <2>1. PICK r \in Archives \union {Nil} :
              Load(c, r) /\ (r # Nil => \A d \in Draws :
                  r.rows[d] <= IF Selected(d, ent[c]) THEN db[d] ELSE Absent)
        BY <1>10, LoadsRows
    <2> QED
        BY <2>1 DEF Load
<1>11. ASSUME PublishArchive(c)  PROVE Led'
    BY <1>11 DEF PublishArchive
<1>12. ASSUME PublishError(c)  PROVE Led'
    BY <1>12 DEF PublishError
<1>13. ASSUME Respond(c)  PROVE Led'
    BY <1>13 DEF Respond
<1> QED
    BY <1>1, <1>2, <1>3, <1>4, <1>5, <1>6, <1>7, <1>8, <1>9, <1>10, <1>11, <1>12,
       <1>13
    DEF Caller

\* The call that makes a load leaves it only when the load is published.
LEMMA DrivenCaller ==
    ASSUME TypeOK, Led, Driven, NEW c \in Clients, Caller(c)
    PROVE  Driven'
<1> USE NilAssumption DEF TypeOK, Led, Driven, InFlight, table, entries, callers
<1>1. ASSUME NEW w \in Windows, ArchiveHit(c, w)  PROVE Driven'
    BY <1>1 DEF ArchiveHit, Begin
<1>2. ASSUME NEW w \in Windows, ArchiveMiss(c, w)  PROVE Driven'
    <2>1. PICK e \in Entries, k \in Keys :
              /\ phase[e] = "free" /\ cache[k] = Nil /\ pc[c] = "idle"
              /\ \E win \in DateRange : window' = [window EXCEPT ![e] = win] /\ k = windowKey(win)
              /\ phase' = [phase EXCEPT ![e] = "loading"]
              /\ ent' = [ent EXCEPT ![c] = e] /\ pc' = [pc EXCEPT ![c] = "build"]
              /\ floor' = [floor EXCEPT ![c] = pub]
              /\ \/ cache' = [cache EXCEPT ![k] = e] /\ torn' = torn
                 \/ \E v \in Entries \ {e} :
                    /\ ~InFlight(v) /\ torn' = (torn \/ v \notin Cached)
                    /\ cache' = [[cache EXCEPT ![k] = e] EXCEPT ![KeyOf(v)] = Nil]
              /\ UNCHANGED <<table, arch, pub, dropped>>
        BY <1>2, Miss
    <2> QED
        BY <1>2, <2>1
<1>3. ASSUME ReadDone(c)  PROVE Driven'
    <2>1. ent[c] \in Entries /\ phase[ent[c]] \in Phases \ {"free"}
        BY <1>3 DEF ReadDone
    <2> QED
        BY <1>3, <2>1 DEF ReadDone, Phases
<1>4. ASSUME ReadDoneAgain(c)  PROVE Driven'
    BY <1>4 DEF ReadDoneAgain
<1>5. ASSUME AwaitDone(c)  PROVE Driven'
    BY <1>5 DEF AwaitDone
<1>6. ASSUME Cancel(c)  PROVE Driven'
    BY <1>6 DEF Cancel
<1>7. ASSUME Touch(c)  PROVE Driven'
    BY <1>7 DEF Touch
<1>8. ASSUME BuildArchive(c)  PROVE Driven'
    <2>1. PICK r \in Archives \union {Nil} :
              Load(c, r) /\ (r # Nil => \A d \in Draws :
                  r.rows[d] <= IF Selected(d, ent[c]) THEN db[d] ELSE Absent)
        BY <1>8, LoadsRows
    <2> QED
        BY <2>1 DEF Load
<1>9. ASSUME BuildTruncated(c)  PROVE Driven'
    <2>1. PICK r \in Archives \union {Nil} :
              Load(c, r) /\ (r # Nil => \A d \in Draws :
                  r.rows[d] <= IF Selected(d, ent[c]) THEN db[d] ELSE Absent)
        BY <1>9, LoadsRows
    <2> QED
        BY <2>1 DEF Load
<1>10. ASSUME BuildError(c)  PROVE Driven'
    <2>1. PICK r \in Archives \union {Nil} :
              Load(c, r) /\ (r # Nil => \A d \in Draws :
                  r.rows[d] <= IF Selected(d, ent[c]) THEN db[d] ELSE Absent)
        BY <1>10, LoadsRows
    <2> QED
        BY <2>1 DEF Load
<1>11. ASSUME PublishArchive(c)  PROVE Driven'
    BY <1>11 DEF PublishArchive
<1>12. ASSUME PublishError(c)  PROVE Driven'
    BY <1>12 DEF PublishError
<1>13. ASSUME Respond(c)  PROVE Driven'
    BY <1>13 DEF Respond
<1> QED
    BY <1>1, <1>2, <1>3, <1>4, <1>5, <1>6, <1>7, <1>8, <1>9, <1>10, <1>11, <1>12,
       <1>13
    DEF Caller

\* A load reads the table, which only grows.
LEMMA RowsCaller ==
    ASSUME TypeOK, UnbuiltEmpty, Led, RowsBounded, NEW c \in Clients, Caller(c)
    PROVE  RowsBounded'
<1> USE NilAssumption DEF TypeOK, UnbuiltEmpty, Led, RowsBounded, Selected, table, entries, callers
<1>1. ASSUME NEW w \in Windows, ArchiveHit(c, w)  PROVE RowsBounded'
    BY <1>1 DEF ArchiveHit
<1>2. ASSUME NEW w \in Windows, ArchiveMiss(c, w)  PROVE RowsBounded'
    <2>1. PICK e \in Entries, k \in Keys :
              /\ phase[e] = "free" /\ cache[k] = Nil /\ pc[c] = "idle"
              /\ \E win \in DateRange : window' = [window EXCEPT ![e] = win] /\ k = windowKey(win)
              /\ phase' = [phase EXCEPT ![e] = "loading"]
              /\ ent' = [ent EXCEPT ![c] = e] /\ pc' = [pc EXCEPT ![c] = "build"]
              /\ floor' = [floor EXCEPT ![c] = pub]
              /\ \/ cache' = [cache EXCEPT ![k] = e] /\ torn' = torn
                 \/ \E v \in Entries \ {e} :
                    /\ ~InFlight(v) /\ torn' = (torn \/ v \notin Cached)
                    /\ cache' = [[cache EXCEPT ![k] = e] EXCEPT ![KeyOf(v)] = Nil]
              /\ UNCHANGED <<table, arch, pub, dropped>>
        BY <1>2, Miss
    <2> QED
        BY <1>2, <2>1
<1>3. ASSUME ReadDone(c)  PROVE RowsBounded'
    BY <1>3 DEF ReadDone
<1>4. ASSUME ReadDoneAgain(c)  PROVE RowsBounded'
    BY <1>4 DEF ReadDoneAgain
<1>5. ASSUME AwaitDone(c)  PROVE RowsBounded'
    BY <1>5 DEF AwaitDone
<1>6. ASSUME Cancel(c)  PROVE RowsBounded'
    BY <1>6 DEF Cancel
<1>7. ASSUME Touch(c)  PROVE RowsBounded'
    BY <1>7 DEF Touch
<1>8. ASSUME BuildArchive(c)  PROVE RowsBounded'
    <2>1. PICK r \in Archives \union {Nil} :
              Load(c, r) /\ (r # Nil => \A d \in Draws :
                  r.rows[d] <= IF Selected(d, ent[c]) THEN db[d] ELSE Absent)
        BY <1>8, LoadsRows
    <2> QED
        BY <2>1 DEF Load
<1>9. ASSUME BuildTruncated(c)  PROVE RowsBounded'
    <2>1. PICK r \in Archives \union {Nil} :
              Load(c, r) /\ (r # Nil => \A d \in Draws :
                  r.rows[d] <= IF Selected(d, ent[c]) THEN db[d] ELSE Absent)
        BY <1>9, LoadsRows
    <2> QED
        BY <2>1 DEF Load
<1>10. ASSUME BuildError(c)  PROVE RowsBounded'
    <2>1. PICK r \in Archives \union {Nil} :
              Load(c, r) /\ (r # Nil => \A d \in Draws :
                  r.rows[d] <= IF Selected(d, ent[c]) THEN db[d] ELSE Absent)
        BY <1>10, LoadsRows
    <2> QED
        BY <2>1 DEF Load
<1>11. ASSUME PublishArchive(c)  PROVE RowsBounded'
    BY <1>11 DEF PublishArchive
<1>12. ASSUME PublishError(c)  PROVE RowsBounded'
    BY <1>12 DEF PublishError
<1>13. ASSUME Respond(c)  PROVE RowsBounded'
    BY <1>13 DEF Respond
<1> QED
    BY <1>1, <1>2, <1>3, <1>4, <1>5, <1>6, <1>7, <1>8, <1>9, <1>10, <1>11, <1>12,
       <1>13
    DEF Caller

\* What the writer takes out of the map counts as dropped.
LEMMA CachedWriter ==
    ASSUME TypeOK, Placed, LoadsCached, Writer
    PROVE  LoadsCached'
<1> USE NilAssumption DEF TypeOK, Placed, LoadsCached, InFlight, KeyOf, Cached, table, entries, callers
<1>1. ASSUME NEW D \in SUBSET Draws, SeedOnBoot(D)  PROVE LoadsCached'
    BY <1>1 DEF SeedOnBoot
<1>2. CASE InvalidateAll
    BY <1>2 DEF InvalidateAll
<1>3. ASSUME NEW D \in SUBSET Draws, NEW told \in BOOLEAN, InsertNewDraws(D, told)  PROVE LoadsCached'
    BY <1>3 DEF InsertNewDraws
<1>4. ASSUME NEW d \in Draws, NEW told \in BOOLEAN, UpdatePrizeAmounts(d, told)  PROVE LoadsCached'
    BY <1>4 DEF UpdatePrizeAmounts
<1>5. CASE InvalidateRange
    BY <1>5 DEF InvalidateRange
<1>6. ASSUME NEW k \in Keys, InvalidateEntry(k)  PROVE LoadsCached'
    BY <1>6 DEF InvalidateEntry
<1>7. CASE InvalidateDone
    BY <1>7 DEF InvalidateDone
<1> QED
    BY <1>1, <1>2, <1>3, <1>4, <1>5, <1>6, <1>7
    DEF Writer

\* As long as remove() was applied to cached entries, only a finished load is taken out.
LEMMA CachedCaller ==
    ASSUME TypeOK, Placed, Led, LoadsCached, NEW c \in Clients, Caller(c)
    PROVE  LoadsCached'
<1> USE NilAssumption DEF TypeOK, Placed, Led, LoadsCached, InFlight, KeyOf, table, entries, callers
<1>1. ASSUME NEW w \in Windows, ArchiveHit(c, w)  PROVE LoadsCached'
    BY <1>1 DEF ArchiveHit
<1>2. ASSUME NEW w \in Windows, ArchiveMiss(c, w)  PROVE LoadsCached'
    <2>1. PICK e \in Entries, k \in Keys :
              /\ phase[e] = "free" /\ cache[k] = Nil /\ pc[c] = "idle"
              /\ \E win \in DateRange : window' = [window EXCEPT ![e] = win] /\ k = windowKey(win)
              /\ phase' = [phase EXCEPT ![e] = "loading"]
              /\ ent' = [ent EXCEPT ![c] = e] /\ pc' = [pc EXCEPT ![c] = "build"]
              /\ floor' = [floor EXCEPT ![c] = pub]
              /\ \/ cache' = [cache EXCEPT ![k] = e] /\ torn' = torn
                 \/ \E v \in Entries \ {e} :
                    /\ ~InFlight(v) /\ torn' = (torn \/ v \notin Cached)
                    /\ cache' = [[cache EXCEPT ![k] = e] EXCEPT ![KeyOf(v)] = Nil]
              /\ UNCHANGED <<table, arch, pub, dropped>>
        BY <1>2, Miss
    <2>2. SUFFICES ASSUME ~torn', NEW x \in Entries \ dropped, InFlight(x)'
                   PROVE  cache'[windowKey(window'[x])] = x
        BY <2>1
    <2>3. ~torn
        BY <2>1, <2>2
    <2>4. window'[e] \in DateRange /\ windowKey(window'[e]) = k
        BY <2>1
    <2>5. CASE cache' = [cache EXCEPT ![k] = e]
        <3>1. CASE x = e
            BY <2>4, <2>5, <3>1
        <3>2. CASE x # e
            <4>1. window'[x] = window[x] /\ InFlight(x)
                BY <2>1, <2>2, <3>2
            <4> QED
                BY <2>1, <2>3, <2>5, <4>1
        <3> QED
            BY <3>1, <3>2
    <2>6. ASSUME NEW v \in Entries \ {e}, ~InFlight(v), torn' = (torn \/ v \notin Cached),
                 cache' = [[cache EXCEPT ![k] = e] EXCEPT ![KeyOf(v)] = Nil]
          PROVE  cache'[windowKey(window'[x])] = x
        <3>1. cache[windowKey(window[v])] = v /\ windowKey(window[v]) # k
            <4>1. v \in Cached /\ v \in Entries
                BY <2>2, <2>6
            <4>2. cache[windowKey(window[v])] = v
                BY <4>1, CachedEntries
            <4> QED
                BY <2>1, <4>1, <4>2
        <3>2. CASE x = e
            BY <2>4, <2>6, <3>1, <3>2
        <3>3. CASE x # e
            <4>1. window'[x] = window[x] /\ InFlight(x)
                BY <2>1, <2>2, <3>3
            <4>2. cache[windowKey(window[x])] = x
                BY <2>2, <2>3, <4>1
            <4>3. windowKey(window[x]) # windowKey(window[v])
                BY <2>6, <3>1, <4>1, <4>2
            <4> QED
                BY <2>1, <2>6, <4>1, <4>2, <4>3
        <3> QED
            BY <3>2, <3>3
    <2> QED
        BY <2>1, <2>5, <2>6
<1>3. ASSUME ReadDone(c)  PROVE LoadsCached'
    BY <1>3 DEF ReadDone
<1>4. ASSUME ReadDoneAgain(c)  PROVE LoadsCached'
    BY <1>4 DEF ReadDoneAgain
<1>5. ASSUME AwaitDone(c)  PROVE LoadsCached'
    BY <1>5 DEF AwaitDone
<1>6. ASSUME Cancel(c)  PROVE LoadsCached'
    BY <1>6 DEF Cancel
<1>7. ASSUME Touch(c)  PROVE LoadsCached'
    BY <1>7 DEF Touch
<1>8. ASSUME BuildArchive(c)  PROVE LoadsCached'
    <2>1. PICK r \in Archives \union {Nil} :
              Load(c, r) /\ (r # Nil => \A d \in Draws :
                  r.rows[d] <= IF Selected(d, ent[c]) THEN db[d] ELSE Absent)
        BY <1>8, LoadsRows
    <2> QED
        BY <2>1 DEF Load
<1>9. ASSUME BuildTruncated(c)  PROVE LoadsCached'
    <2>1. PICK r \in Archives \union {Nil} :
              Load(c, r) /\ (r # Nil => \A d \in Draws :
                  r.rows[d] <= IF Selected(d, ent[c]) THEN db[d] ELSE Absent)
        BY <1>9, LoadsRows
    <2> QED
        BY <2>1 DEF Load
<1>10. ASSUME BuildError(c)  PROVE LoadsCached'
    <2>1. PICK r \in Archives \union {Nil} :
              Load(c, r) /\ (r # Nil => \A d \in Draws :
                  r.rows[d] <= IF Selected(d, ent[c]) THEN db[d] ELSE Absent)
        BY <1>10, LoadsRows
    <2> QED
        BY <2>1 DEF Load
<1>11. ASSUME PublishArchive(c)  PROVE LoadsCached'
    BY <1>11 DEF PublishArchive
<1>12. ASSUME PublishError(c)  PROVE LoadsCached'
    <2>1. /\ ent[c] \in Entries /\ phase' = [phase EXCEPT ![ent[c]] = "failed"]
          /\ cache' = [cache EXCEPT ![KeyOf(ent[c])] = Nil]
          /\ torn' = (torn \/ ent[c] \notin Cached) /\ UNCHANGED <<window, dropped>>
        BY <1>12 DEF PublishError
    <2>2. SUFFICES ASSUME ~torn', NEW x \in Entries \ dropped, InFlight(x)'
                   PROVE  cache'[windowKey(window[x])] = x
        BY <2>1
    <2>3. ~torn /\ cache[windowKey(window[ent[c]])] = ent[c]
        BY <2>1, <2>2, CachedEntries
    <2>4. x # ent[c] /\ InFlight(x)
        BY <2>1, <2>2
    <2> QED
        BY <2>1, <2>2, <2>3, <2>4
<1>13. ASSUME Respond(c)  PROVE LoadsCached'
    BY <1>13 DEF Respond
<1> QED
    BY <1>1, <1>2, <1>3, <1>4, <1>5, <1>6, <1>7, <1>8, <1>9, <1>10, <1>11, <1>12,
       <1>13
    DEF Caller

\* The writer lets the table grow, and leaves the archives alone.
LEMMA WriterSteps ==
    ASSUME Writer
    PROVE  UNCHANGED <<entries, callers>>
BY DEF Writer, SeedOnBoot, InvalidateAll, InsertNewDraws, UpdatePrizeAmounts,
   InvalidateRange, InvalidateEntry, InvalidateDone

\* Archives stay below a table that grows.
LEMMA RowsWriter ==
    ASSUME TypeOK, TypeOK', RowsBounded, Writer
    PROVE  RowsBounded'
<1>1. \A d \in Draws : db[d] \in {0, 1, 2} /\ db'[d] \in {0, 1, 2} /\ db[d] <= db'[d]
    BY TableGrows DEF TypeOK, Snapshots, Levels
<1>2. UNCHANGED <<arch, window>>
    BY WriterSteps DEF entries
<1>3. \A e \in Entries : arch[e] # Nil => \A d \in Draws : arch[e].rows[d] \in {0, 1, 2}
    BY DEF TypeOK, Archives, Snapshots, Levels
<1> QED
    BY <1>1, <1>2, <1>3 DEF RowsBounded, Selected, Absent

\* The strengthened invariant holds in every reachable state.
THEOREM ManagerInvariant == Spec => []IInv
<1> DEFINE More == Placed /\ Led /\ Driven /\ RowsBounded /\ LoadsCached
<1>1. Init => More
    BY NilAssumption DEF Init, Placed, Led, Driven, RowsBounded, LoadsCached, InFlight
<1>2. ASSUME FreshInv, FreshInv', More, [Next]_vars  PROVE More'
    <2>0. TypeOK /\ TypeOK' /\ UnbuiltEmpty
        BY <1>2 DEF FreshInv
    <2>1. CASE Writer
        <3>1. Led' /\ Driven'
            BY <1>2, <2>1, WriterSteps DEF Led, Driven, InFlight, entries, callers
        <3> QED
            BY <1>2, <2>0, <2>1, <3>1, PlacedWriter, RowsWriter, CachedWriter
    <2>2. ASSUME NEW c \in Clients, Caller(c)  PROVE More'
        BY <1>2, <2>0, <2>2, PlacedCaller, LedCaller, DrivenCaller, RowsCaller, CachedCaller
    <2>3. CASE UNCHANGED vars
        BY <1>2, <2>3 DEF vars, table, entries, callers, Placed, Led, Driven, RowsBounded, LoadsCached,
           InFlight, KeyOf, Selected
    <2> QED
        BY <1>2, <2>1, <2>2, <2>3 DEF Next, Quiet
<1>3. FreshInv /\ More => IInv
    BY DEF IInv
<1> QED
    BY <1>1, <1>2, <1>3, FreshCorrect, PTL DEF Spec

\* Two loads of one window run at once only after an invalidation came between
\* them, or after remove() was applied to an entry the cache did not hold.
THEOREM LoadsAreShared == Spec => []OneLoadUnlessTorn
<1>1. IInv => OneLoadUnlessTorn
    <2> SUFFICES ASSUME IInv, ~torn, NEW e1 \in Entries \ dropped, NEW e2 \in Entries \ dropped
                 PROVE  ~Twins(e1, e2)
        BY DEF OneLoadUnlessTorn
    <2>1. /\ InFlight(e1) => cache[KeyOf(e1)] = e1
          /\ InFlight(e2) => cache[KeyOf(e2)] = e2
        BY DEF IInv, LoadsCached
    <2> QED
        BY <2>1 DEF Twins
<1> QED
    BY <1>1, ManagerInvariant, PTL

\* No caller waits on a channel that nobody will close: the entry it waits for is
\* published, or another call is at its load or about to publish it, whatever was
\* evicted, invalidated or failed meanwhile.
THEOREM NobodyWaitsForNothing ==
    Spec => [](\A c \in Clients : pc[c] = "wait" =>
        \/ phase[ent[c]] \in {"ready", "failed"}
        \/ \E b \in Clients \ {c} : ent[b] = ent[c] /\ pc[b] \in {"build", "publish"})
<1>1. IInv => \A c \in Clients : pc[c] = "wait" =>
          \/ phase[ent[c]] \in {"ready", "failed"}
          \/ \E b \in Clients \ {c} : ent[b] = ent[c] /\ pc[b] \in {"build", "publish"}
    <2> SUFFICES ASSUME IInv, NEW c \in Clients, pc[c] = "wait",
                        phase[ent[c]] \notin {"ready", "failed"}
                 PROVE  \E b \in Clients \ {c} : ent[b] = ent[c] /\ pc[b] \in {"build", "publish"}
        OBVIOUS
    <2>1. ent[c] \in Entries /\ ent[c] # Nil
        BY DEF IInv, FreshInv, TypeOK
    <2>2. InFlight(ent[c])
        BY <2>1 DEF IInv, FreshInv, TypeOK, Led, InFlight, Phases
    <2> QED
        BY <2>1, <2>2 DEF IInv, Driven
<1> QED
    BY <1>1, ManagerInvariant, PTL

-----------------------------------------------------------------------------
(* The refinement.                                                          *)

\* A call is seen at the same stage, with the same answer, as long as it and
\* what it was handed stay the same.
LEMMA SameCall ==
    ASSUME NEW b \in Clients, pc'[b] = pc[b], ent'[b] = ent[b],
           pc[b] = "served" =>
               arch'[ent[b]] = arch[ent[b]] /\ window'[ent[b]] = window[ent[b]]
    PROVE  stage'[b] = stage[b] /\ answer'[b] = answer[b]
BY DEF stage, answer, Served, Selected

\* The stages that have no answer.
LEMMA Stages ==
    ASSUME NEW b \in Clients
    PROVE  /\ pc[b] = "idle" => stage[b] = "idle" /\ answer[b] = Nil
           /\ pc[b] \notin {"idle", "served", "error"} => stage[b] = "asked" /\ answer[b] = Nil
           /\ pc[b] = "error" => stage[b] = "refused" /\ answer[b] = Nil
           /\ pc[b] = "served" => stage[b] = IF arch[ent[b]] = Nil THEN "refused" ELSE "served"
           /\ pc[b] = "served" /\ arch[ent[b]] = Nil => answer[b] = Nil
           /\ stage \in [Clients -> {"idle", "asked", "served", "refused"}]
           /\ DOMAIN stage = Clients /\ DOMAIN answer = Clients
           /\ stage = [x \in Clients |-> stage[x]] /\ answer = [x \in Clients |-> answer[x]]
BY DEF stage, answer, Served

\* A step of one call is not seen by the others.
LEMMA OthersUnaware ==
    ASSUME IInv, NEW c \in Clients, Caller(c), NEW b \in Clients, b # c
    PROVE  stage'[b] = stage[b] /\ answer'[b] = answer[b]
<1>0. TypeOK /\ Led /\ Placed
    BY DEF IInv, FreshInv
<1>1. ASSUME pc'[b] = pc[b], ent'[b] = ent[b], UNCHANGED <<arch, window>>
      PROVE  stage'[b] = stage[b] /\ answer'[b] = answer[b]
    BY <1>1, SameCall
<1>2. ASSUME NEW w \in Windows, ArchiveMiss(c, w)
      PROVE  stage'[b] = stage[b] /\ answer'[b] = answer[b]
    <2>1. PICK e \in Entries :
              /\ phase[e] = "free"
              /\ \E win \in DateRange : window' = [window EXCEPT ![e] = win]
              /\ ent' = [ent EXCEPT ![c] = e] /\ pc' = [pc EXCEPT ![c] = "build"]
              /\ UNCHANGED arch
        BY <1>0, <1>2, Miss
    <2>2. pc[b] = "served" => ent[b] \in Entries /\ ent[b] # e
        BY <1>0, <2>1 DEF Led, TypeOK
    <2>3. pc[b] = "served" => window'[ent[b]] = window[ent[b]]
        BY <1>0, <2>1, <2>2 DEF TypeOK
    <2> QED
        BY <1>0, <2>1, <2>3, SameCall DEF TypeOK
<1>3. ASSUME NEW r, Load(c, r)
      PROVE  stage'[b] = stage[b] /\ answer'[b] = answer[b]
    <2>1. pc[b] = "served" => ent[b] # ent[c]
        BY <1>0, <1>3 DEF Led, Load
    <2>2. pc'[b] = pc[b] /\ ent' = ent /\ window' = window
        BY <1>0, <1>3 DEF Load, TypeOK
    <2>3. pc[b] = "served" => arch'[ent[b]] = arch[ent[b]]
        BY <1>0, <1>3, <2>1 DEF Load, TypeOK
    <2> QED
        BY <2>2, <2>3, SameCall
<1>4. CASE BuildArchive(c) \/ BuildTruncated(c) \/ BuildError(c)
    BY <1>0, <1>3, <1>4, LoadsRows
<1> QED
    BY <1>0, <1>1, <1>2, <1>4 DEF Caller, ArchiveHit, Begin, ReadDone, ReadDoneAgain, AwaitDone,
       Cancel, Touch, PublishArchive, PublishError, Respond, entries, TypeOK

\* Hence only the call's own stage and answer change.
LEMMA OwnStage ==
    ASSUME IInv, NEW c \in Clients, Caller(c)
    PROVE  /\ stage' = [stage EXCEPT ![c] = stage'[c]]
           /\ answer' = [answer EXCEPT ![c] = answer'[c]]
<1>1. \A b \in Clients : b # c => stage'[b] = stage[b] /\ answer'[b] = answer[b]
    BY OthersUnaware
<1>2. DOMAIN stage = Clients /\ DOMAIN answer = Clients
    BY DEF stage, answer
<1>3. stage' = [x \in Clients |-> stage'[x]] /\ answer' = [x \in Clients |-> answer'[x]]
    BY DEF stage, answer
<1> QED
    BY <1>1, <1>2, <1>3

\* A step of the call that is not seen at all.
LEMMA Unseen ==
    ASSUME IInv, NEW c \in Clients, Caller(c), UNCHANGED <<table, floor, pub>>,
           stage'[c] = stage[c], answer'[c] = answer[c]
    PROVE  UNCHANGED Reads!vars
<1>1. stage' = stage /\ answer' = answer
    BY OwnStage, Stages
<1> QED
    BY <1>1 DEF Reads!vars, table

\* A call that ends without an archive.
LEMMA Refusal ==
    ASSUME IInv, NEW c \in Clients, Caller(c), UNCHANGED <<table, floor, pub>>,
           stage[c] = "asked", stage'[c] = "refused", answer[c] = Nil, answer'[c] = Nil
    PROVE  Reads!Refuse(c)
<1>1. stage' = [stage EXCEPT ![c] = "refused"] /\ answer' = [answer EXCEPT ![c] = Nil]
    BY OwnStage
<1>2. answer' = answer
    BY <1>1, Stages
<1> QED
    BY <1>1, <1>2 DEF Reads!Refuse, table

\* A call that returns its entry's archive was answered by ArchiveReads, too.
LEMMA Answered ==
    ASSUME IInv, NEW c \in Clients, Caller(c),
           UNCHANGED <<table, window, arch, ent, floor, pub>>,
           pc[c] \notin {"idle", "served", "error"}, pc'[c] = "served"
    PROVE  Reads!Next
<1> DEFINE e == ent[c]
           a == [rows |-> arch[e].rows, whole |-> arch[e].whole,
                 covers |-> {d \in Draws : Selected(d, e)}]
<1>0. TypeOK /\ CallsFresh /\ RowsBounded
    BY DEF IInv, FreshInv
<1>1. stage[c] = "asked" /\ answer[c] = Nil /\ e \in Entries
    BY <1>0, Stages DEF TypeOK
<1>2. CASE arch[e] = Nil
    <2>1. stage'[c] = "refused" /\ answer'[c] = Nil
        BY <1>2 DEF stage, answer, Served
    <2> QED
        BY <1>1, <2>1, Refusal DEF Reads!Next
<1>3. CASE arch[e] # Nil
    <2>1. stage'[c] = "served" /\ answer'[c] = a
        BY <1>3 DEF stage, answer, Served, Selected
    <2>2. arch[e] \in Archives
        BY <1>0, <1>1, <1>3 DEF TypeOK
    <2>3. a \in Reads!Archives
        BY <2>2 DEF Reads!Archives, Reads!Rows, Reads!Levels, Archives, Snapshots, Levels
    <2>4. \A d \in Draws : a.rows[d] <= IF d \in a.covers THEN db[d] ELSE 0
        BY <1>0, <1>1, <1>3 DEF RowsBounded, Absent
    <2>5. \A d \in Draws : a.whole /\ d \in a.covers => floor[c][d] <= a.rows[d]
        BY <1>0, <1>1, <1>3, NilAssumption DEF CallsFresh, AtLeast
    <2>6. stage' = [stage EXCEPT ![c] = "served"] /\ answer' = [answer EXCEPT ![c] = a]
        BY <2>1, OwnStage
    <2> HIDE DEF a
    <2>7. Reads!Answer(c)
        BY <1>1, <2>3, <2>4, <2>5, <2>6 DEF Reads!Answer, table
    <2> QED
        BY <2>7 DEF Reads!Next
<1> QED
    BY <1>2, <1>3

\* A step of the writer is a write, an announcement, or not seen.
LEMMA WriterRefines ==
    ASSUME IInv, IInv', Writer
    PROVE  [Reads!Next]_Reads!vars
<1>1. stage' = stage /\ answer' = answer /\ floor' = floor
    BY WriterSteps DEF stage, answer, Served, Selected, entries, callers
<1>2. TypeOK /\ TypeOK' /\ HistoryOrdered /\ HistoryOrdered'
    BY DEF IInv, FreshInv
<1>3. Reads!Rows = Snapshots
    BY DEF Reads!Rows, Reads!Levels, Snapshots, Levels
<1>4. CASE pub' = pub
    <2>1. \A d \in Draws : db[d] <= db'[d]
        BY <1>2, TableGrows
    <2>2. db' # db => Reads!Write
        BY <1>1, <1>2, <1>3, <1>4, <2>1 DEF Reads!Write, Reads!AtMost, TypeOK
    <2> QED
        BY <1>1, <1>4, <2>2 DEF Reads!Next, Reads!vars
<1>5. CASE InvalidateAll \/ InvalidateDone
    <2>1. db' = db
        BY <1>5 DEF InvalidateAll, InvalidateDone
    <2>2. \A d \in Draws : pub[d] <= pub'[d] /\ pub'[d] <= db[d]
        <3>1. \A d \in Draws : db[d] \in {0, 1, 2} /\ pub[d] \in {0, 1, 2} /\ pub[d] <= db[d]
            BY <1>2 DEF TypeOK, Snapshots, Levels, HistoryOrdered
        <3> QED
            BY <1>5, <3>1 DEF InvalidateAll, InvalidateDone
    <2>3. pub' # pub => Reads!Announce
        BY <1>1, <1>2, <1>3, <2>1, <2>2 DEF Reads!Announce, Reads!AtMost, TypeOK
    <2> QED
        BY <1>1, <2>1, <2>3 DEF Reads!Next, Reads!vars
<1> QED
    BY <1>4, <1>5 DEF Writer, SeedOnBoot, InsertNewDraws, UpdatePrizeAmounts, InvalidateRange,
       InvalidateEntry

\* A step of a call asks, answers, refuses, closes, or is not seen.
LEMMA CallerRefines ==
    ASSUME IInv, NEW c \in Clients, Caller(c)
    PROVE  [Reads!Next]_Reads!vars
<1>0. TypeOK /\ UnbuiltEmpty /\ Led
    BY DEF IInv, FreshInv
\* A call that begins.
<1>1. ASSUME pc[c] = "idle", pc'[c] \in {"looked", "build"}, floor' = [floor EXCEPT ![c] = pub],
             UNCHANGED <<table, pub>>
      PROVE  Reads!Next
    <2>1. stage[c] = "idle" /\ answer[c] = Nil /\ stage'[c] = "asked" /\ answer'[c] = Nil
        BY <1>1 DEF stage, answer, Served
    <2>2. stage' = [stage EXCEPT ![c] = "asked"] /\ answer' = [answer EXCEPT ![c] = Nil]
        BY <2>1, OwnStage
    <2>3. answer' = answer
        BY <2>1, <2>2, Stages
    <2>4. Reads!Ask(c)
        BY <1>1, <2>1, <2>2, <2>3 DEF Reads!Ask, table
    <2> QED
        BY <2>4 DEF Reads!Next
\* A call that goes on.
<1>2. ASSUME pc[c] \notin {"idle", "served", "error"}, pc'[c] \notin {"idle", "served", "error"},
             UNCHANGED <<table, floor, pub>>
      PROVE  UNCHANGED Reads!vars
    <2>1. stage[c] = "asked" /\ answer[c] = Nil /\ stage'[c] = "asked" /\ answer'[c] = Nil
        BY <1>2 DEF stage, answer, Served
    <2> QED
        BY <1>2, <2>1, Unseen
\* A call that fails.
<1>3. ASSUME pc[c] \notin {"idle", "served", "error"}, pc'[c] = "error",
             UNCHANGED <<table, floor, pub>>
      PROVE  Reads!Next
    <2>1. stage[c] = "asked" /\ answer[c] = Nil /\ stage'[c] = "refused" /\ answer'[c] = Nil
        BY <1>3 DEF stage, answer, Served
    <2> QED
        BY <1>3, <2>1, Refusal DEF Reads!Next
<1>4. ASSUME NEW w \in Windows, ArchiveHit(c, w) \/ ArchiveMiss(c, w)  PROVE Reads!Next
    <2>1. pc[c] = "idle" /\ floor' = [floor EXCEPT ![c] = pub] /\ UNCHANGED <<table, pub>>
        BY <1>4 DEF ArchiveHit, ArchiveMiss, Begin
    <2>2. pc'[c] \in {"looked", "build"}
        BY <1>0, <1>4 DEF ArchiveHit, ArchiveMiss, TypeOK
    <2> QED
        BY <1>1, <2>1, <2>2
<1>5. ASSUME ReadDone(c) \/ ReadDoneAgain(c)  PROVE UNCHANGED Reads!vars
    <2>1. pc[c] \notin {"idle", "served", "error"} /\ pc'[c] \notin {"idle", "served", "error"}
        BY <1>0, <1>5 DEF ReadDone, ReadDoneAgain, TypeOK
    <2> QED
        BY <1>2, <1>5, <2>1 DEF ReadDone, ReadDoneAgain
<1>6. ASSUME AwaitDone(c) \/ Cancel(c)  PROVE [Reads!Next]_Reads!vars
    <2>1. pc[c] \notin {"idle", "served", "error"} /\ pc'[c] \in {"error", "touch"}
        BY <1>0, <1>6 DEF AwaitDone, Cancel, TypeOK
    <2> QED
        BY <1>2, <1>3, <1>6, <2>1 DEF AwaitDone, Cancel
<1>7. ASSUME BuildArchive(c) \/ BuildTruncated(c) \/ BuildError(c)  PROVE UNCHANGED Reads!vars
    <2>1. PICK r \in Archives \union {Nil} : Load(c, r)
        BY <1>0, <1>7, LoadsRows
    <2>2. pc[c] = "build" /\ pc'[c] = "publish" /\ UNCHANGED <<table, floor, pub>>
        BY <1>0, <2>1 DEF Load, TypeOK
    <2> QED
        BY <1>2, <2>2
<1>8. ASSUME Touch(c) \/ PublishArchive(c)  PROVE Reads!Next
    <2>1. pc[c] \in {"touch", "publish"} /\ pc'[c] = "served"
        BY <1>0, <1>8 DEF Touch, PublishArchive, TypeOK
    <2> QED
        BY <1>8, <2>1, Answered DEF Touch, PublishArchive, entries
<1>9. ASSUME PublishError(c)  PROVE Reads!Next
    <2>1. pc[c] = "publish" /\ pc'[c] = "error"
        BY <1>0, <1>9 DEF PublishError, TypeOK
    <2> QED
        BY <1>3, <1>9, <2>1 DEF PublishError
<1>10. ASSUME Respond(c)  PROVE Reads!Next
    <2>1. stage[c] \in {"served", "refused"}
        BY <1>10 DEF Respond, stage, Served
    <2>2. stage'[c] = "idle" /\ answer'[c] = Nil
        <3>1. pc'[c] = "idle"
            BY <1>0, <1>10 DEF Respond, TypeOK
        <3> QED
            BY <3>1 DEF stage, answer, Served
    <2>3. stage' = [stage EXCEPT ![c] = "idle"] /\ answer' = [answer EXCEPT ![c] = Nil]
        BY <2>2, OwnStage
    <2>4. Reads!Close(c)
        BY <1>10, <2>1, <2>3 DEF Reads!Close, Reads!Zero, Respond, table, Absent
    <2> QED
        BY <2>4 DEF Reads!Next
<1> QED
    BY <1>4, <1>5, <1>6, <1>7, <1>8, <1>9, <1>10 DEF Caller

\* LotteryManager implements ArchiveReads: whatever the cache, its locks and
\* its loads do, a caller gets a refusal, or rows of the table that are no older
\* than the last invalidation before the call.
THEOREM Refinement == Spec => ImplementsReads
<1>1. Init => Reads!Init
    <2> SUFFICES ASSUME Init PROVE Reads!Init
        OBVIOUS
    <2>1. stage = [c \in Clients |-> "idle"] /\ answer = [c \in Clients |-> Nil]
        BY DEF Init, stage, answer, Served
    <2> QED
        BY <2>1 DEF Init, Reads!Init, Reads!Rows, Reads!Levels, Reads!Zero, Levels, Absent
<1>2. IInv /\ IInv' /\ [Next]_vars => [Reads!Next]_Reads!vars
    <2> SUFFICES ASSUME IInv, IInv', [Next]_vars  PROVE [Reads!Next]_Reads!vars
        OBVIOUS
    <2>1. CASE UNCHANGED vars
        BY <2>1 DEF vars, table, entries, callers, Reads!vars, stage, answer, Served, Selected
    <2>2. CASE Quiet
        BY <2>1, <2>2 DEF Quiet
    <2> QED
        BY <2>1, <2>2, WriterRefines, CallerRefines DEF Next
<1> QED
    BY <1>1, <1>2, ManagerInvariant, PTL DEF Spec, Reads!Spec, ImplementsReads

-----------------------------------------------------------------------------
(* The LRU list.                                                            *)

\* l links the entries C, from head to tail and back.  The last conjunct says
\* that whoever starts at the head and follows next meets all of C.
WellLinked(l, C) ==
    /\ l.head \in C \union {Nil} /\ l.tail \in C \union {Nil}
    /\ l.head = Nil <=> C = {}
    /\ l.tail = Nil <=> C = {}
    /\ \A e \in C :
        /\ l.prev[e] \in C \union {Nil}
        /\ l.next[e] \in C \union {Nil}
        /\ l.prev[e] = Nil <=> l.head = e
        /\ l.next[e] = Nil <=> l.tail = e
        /\ l.prev[e] # Nil => l.next[l.prev[e]] = e
        /\ l.next[e] # Nil => l.prev[l.next[e]] = e
    /\ \A S \in SUBSET C :
        (l.head \in S /\ \A e \in S : l.next[e] \in S \union {Nil}) => S = C

Linked == ~torn => WellLinked(lru, Cached)

-----------------------------------------------------------------------------
(* The list operators.                                                      *)

\* addToFront links one more entry.
LEMMA AddLinked ==
    ASSUME NEW l \in ListType, NEW C \in SUBSET Entries, NEW e \in Entries \ C,
           WellLinked(l, C)
    PROVE  WellLinked(AddToFront(l, e), C \union {e})
<1> USE NilAssumption
<1> DEFINE m == AddToFront(l, e)
           D == C \union {e}
<1>1. /\ m.head = e /\ m.tail = IF l.tail = Nil THEN e ELSE l.tail
      /\ \A x \in Entries :
            /\ m.prev[x] = IF x = l.head THEN e ELSE IF x = e THEN Nil ELSE l.prev[x]
            /\ m.next[x] = IF x = e THEN l.head ELSE l.next[x]
    BY DEF AddToFront, ListType
<1>2. /\ m.head \in D \union {Nil} /\ m.tail \in D \union {Nil}
      /\ m.head # Nil /\ m.tail # Nil /\ D # {}
    BY <1>1 DEF WellLinked
<1> HIDE DEF m
<1>3. ASSUME NEW x \in D
      PROVE  /\ m.prev[x] \in D \union {Nil}
             /\ m.next[x] \in D \union {Nil}
             /\ m.prev[x] = Nil <=> m.head = x
             /\ m.next[x] = Nil <=> m.tail = x
             /\ m.prev[x] # Nil => m.next[m.prev[x]] = x
             /\ m.next[x] # Nil => m.prev[m.next[x]] = x
    <2>1. CASE x = e
        BY <1>1, <2>1 DEF WellLinked
    <2>2. CASE x # e
        BY <1>1, <2>2 DEF WellLinked
    <2> QED
        BY <1>3, <2>1, <2>2
<1>4. ASSUME NEW S \in SUBSET D, m.head \in S, \A x \in S : m.next[x] \in S \union {Nil}
      PROVE  S = D
    <2> DEFINE T == S \ {e}
    <2>1. T \in SUBSET C
        OBVIOUS
    <2>2. \A x \in T : l.next[x] \in T \union {Nil}
        <3> SUFFICES ASSUME NEW x \in T PROVE l.next[x] \in T \union {Nil}
            OBVIOUS
        <3>1. l.next[x] \in C \union {Nil} /\ m.next[x] = l.next[x]
            BY <1>1 DEF WellLinked
        <3> QED
            BY <1>4, <3>1
    <2>3. l.head \in T \union {Nil}
        BY <1>1, <1>4 DEF WellLinked
    <2>4. T = C
        BY <2>1, <2>2, <2>3 DEF WellLinked
    <2> QED
        BY <1>1, <1>4, <2>4
<1> QED
    BY <1>2, <1>3, <1>4 DEF WellLinked, m

\* remove unlinks an entry that is linked.
LEMMA RemoveLinked ==
    ASSUME NEW l \in ListType, NEW C \in SUBSET Entries, NEW e \in C, WellLinked(l, C)
    PROVE  WellLinked(Remove(l, e), C \ {e})
<1> USE NilAssumption
<1> DEFINE m == Remove(l, e)
           D == C \ {e}
<1>1. /\ m.head = IF l.prev[e] = Nil THEN l.next[e] ELSE l.head
      /\ m.tail = IF l.next[e] = Nil THEN l.prev[e] ELSE l.tail
      /\ \A x \in Entries \ {e} :
            /\ m.prev[x] = IF x = l.next[e] THEN l.prev[e] ELSE l.prev[x]
            /\ m.next[x] = IF x = l.prev[e] THEN l.next[e] ELSE l.next[x]
    BY DEF Remove, ListType
<1> HIDE DEF m
<1>2. l.next[e] # e /\ l.prev[e] # e
    <2>1. CASE l.next[e] = e \/ l.prev[e] = e
        <3>1. l.next[e] = e /\ l.prev[e] = e
            BY <2>1 DEF WellLinked
        <3>2. l.head \in C \ {e}
            BY <3>1 DEF WellLinked
        \* Everything but e is closed under next, so e would not be linked.
        <3>3. \A x \in C \ {e} : l.next[x] \in (C \ {e}) \union {Nil}
            BY <3>1 DEF WellLinked
        <3>4. C \ {e} = C
            BY <3>2, <3>3 DEF WellLinked
        <3> QED
            BY <3>4
    <2> QED
        BY <2>1
<1>3. m.head \in D \union {Nil} /\ m.tail \in D \union {Nil}
    BY <1>1, <1>2 DEF WellLinked
<1>4. m.head = Nil <=> D = {}
    <2>1. ASSUME m.head = Nil  PROVE D = {}
        <3>1. l.head = e /\ l.next[e] = Nil
            BY <1>1, <2>1 DEF WellLinked
        <3>2. {e} \in SUBSET C /\ l.head \in {e} /\ \A x \in {e} : l.next[x] \in {e} \union {Nil}
            BY <3>1
        <3>3. {e} = C
            BY <3>2 DEF WellLinked
        <3> QED
            BY <3>3
    <2> QED
        BY <1>3, <2>1
<1>5. m.tail = Nil <=> D = {}
    <2>1. ASSUME m.tail = Nil  PROVE D = {}
        <3>1. l.next[e] = Nil /\ l.prev[e] = Nil
            BY <1>1, <2>1 DEF WellLinked
        <3>2. l.head = e
            BY <3>1 DEF WellLinked
        <3>3. {e} \in SUBSET C /\ l.head \in {e} /\ \A x \in {e} : l.next[x] \in {e} \union {Nil}
            BY <3>1, <3>2
        <3>4. {e} = C
            BY <3>3 DEF WellLinked
        <3> QED
            BY <3>4
    <2> QED
        BY <1>3, <2>1
<1>6. ASSUME NEW x \in D
      PROVE  /\ m.prev[x] \in D \union {Nil}
             /\ m.next[x] \in D \union {Nil}
             /\ m.prev[x] = Nil <=> m.head = x
             /\ m.next[x] = Nil <=> m.tail = x
             /\ m.prev[x] # Nil => m.next[m.prev[x]] = x
             /\ m.next[x] # Nil => m.prev[m.next[x]] = x
    <2>1. m.prev[x] \in D \union {Nil} /\ m.next[x] \in D \union {Nil}
        BY <1>1, <1>2 DEF WellLinked
    <2>2. m.prev[x] = Nil <=> m.head = x
        BY <1>1, <1>2 DEF WellLinked
    <2>3. m.next[x] = Nil <=> m.tail = x
        BY <1>1, <1>2 DEF WellLinked
    <2>4. m.prev[x] # Nil => m.next[m.prev[x]] = x
        BY <1>1, <1>2 DEF WellLinked
    <2>5. m.next[x] # Nil => m.prev[m.next[x]] = x
        BY <1>1, <1>2 DEF WellLinked
    <2> QED
        BY <2>1, <2>2, <2>3, <2>4, <2>5
<1>7. ASSUME NEW S \in SUBSET D, m.head \in S, \A x \in S : m.next[x] \in S \union {Nil}
      PROVE  S = D
    <2> DEFINE T == S \union {e}
    <2>1. T \in SUBSET C
        OBVIOUS
    \* Either e's predecessor is in S, or S cannot be left through it.
    <2>2. l.next[e] \in T \union {Nil}
        <3>1. CASE l.prev[e] = Nil
            BY <1>1, <1>7, <3>1
        <3>2. CASE l.prev[e] \in S
            <4>1. m.next[l.prev[e]] = l.next[e]
                BY <1>1, <1>2, <3>2
            <4> QED
                BY <1>7, <3>2, <4>1
        <3>3. CASE l.prev[e] \notin S /\ l.prev[e] # Nil
            <4>1. \A x \in S : l.next[x] \in S \union {Nil}
                BY <1>1, <1>7, <3>3
            <4>2. S = C
                BY <1>1, <1>7, <3>3, <4>1 DEF WellLinked
            <4> QED
                BY <4>2
        <3> QED
            BY <3>1, <3>2, <3>3
    <2>3. \A x \in T : l.next[x] \in T \union {Nil}
        BY <1>1, <1>7, <2>2 DEF WellLinked
    <2>4. l.head \in T
        BY <1>1, <1>7 DEF WellLinked
    <2>5. T = C
        BY <2>1, <2>3, <2>4 DEF WellLinked
    <2> QED
        BY <2>5
<1> QED
    BY <1>3, <1>4, <1>5, <1>6, <1>7 DEF WellLinked, m

\* moveToFront leaves the same entries linked.
LEMMA MoveLinked ==
    ASSUME NEW l \in ListType, NEW C \in SUBSET Entries, NEW e \in C, WellLinked(l, C)
    PROVE  WellLinked(MoveToFront(l, e), C)
<1>1. CASE l.head = e
    BY <1>1 DEF MoveToFront
<1>2. CASE l.head # e
    <2>1. Remove(l, e) \in ListType /\ WellLinked(Remove(l, e), C \ {e})
        BY RemoveType, RemoveLinked
    <2>2. WellLinked(AddToFront(Remove(l, e), e), (C \ {e}) \union {e})
        BY <2>1, AddLinked
    <2>3. (C \ {e}) \union {e} = C
        OBVIOUS
    <2> QED
        BY <1>2, <2>2, <2>3 DEF MoveToFront
<1> QED
    BY <1>1, <1>2

-----------------------------------------------------------------------------
(* The steps.                                                               *)

\* The map holds an entry under one key, so deleting it there takes it out.
LEMMA Uncached ==
    ASSUME TypeOK, Placed, NEW e \in Entries, e \in Cached,
           cache' = [cache EXCEPT ![KeyOf(e)] = Nil]
    PROVE  Cached' = Cached \ {e}
<1>1. \A k \in Keys : cache[k] = e => k = KeyOf(e)
    BY NilAssumption DEF Placed
<1>2. KeyOf(e) \in Keys /\ cache[KeyOf(e)] = e
    BY CachedEntries, NilAssumption DEF Placed, Cached
<1>3. \A k \in Keys : cache'[k] = IF k = KeyOf(e) THEN Nil ELSE cache[k]
    BY DEF TypeOK
<1> QED
    BY <1>1, <1>2, <1>3 DEF Cached

\* The writer's steps.
LEMMA WriterLinked ==
    ASSUME IInv, Linked, Writer
    PROVE  Linked'
<1>0. TypeOK /\ Placed
    BY DEF IInv, FreshInv
<1>1. CASE InvalidateAll
    <2>1. Cached' = {} /\ lru'.head = Nil /\ lru'.tail = Nil
        BY <1>1 DEF InvalidateAll, Cached
    <2> QED
        BY <2>1 DEF Linked, WellLinked
<1>2. ASSUME NEW k \in Keys, InvalidateEntry(k)  PROVE Linked'
    <2> DEFINE e == cache[k]
    <2>1. e \in Entries /\ e \in Cached /\ KeyOf(e) = k
        BY <1>0, <1>2 DEF InvalidateEntry, TypeOK, Cached, Placed
    <2>2. Cached' = Cached \ {e}
        BY <1>0, <1>2, <2>1, Uncached DEF InvalidateEntry
    <2>3. lru \in ListType /\ Cached \in SUBSET Entries
        BY <1>0 DEF TypeOK, Cached
    <2>4. lru' = Remove(lru, e) /\ torn' = torn
        BY <1>2 DEF InvalidateEntry
    <2> HIDE DEF e
    <2> QED
        BY <2>1, <2>2, <2>3, <2>4, RemoveLinked DEF Linked
<1>3. ASSUME UNCHANGED <<cache, lru, torn>>  PROVE Linked'
    BY <1>3 DEF Linked, Cached
<1> QED
    BY <1>1, <1>2, <1>3 DEF Writer, SeedOnBoot, InsertNewDraws, UpdatePrizeAmounts,
       InvalidateRange, InvalidateDone

\* A caller's steps.
LEMMA CallerLinked ==
    ASSUME IInv, Linked, NEW c \in Clients, Caller(c)
    PROVE  Linked'
<1>0. TypeOK /\ Placed /\ lru \in ListType /\ Cached \in SUBSET Entries
    BY DEF IInv, FreshInv, TypeOK, Cached
<1>1. ASSUME NEW w \in Windows, ArchiveMiss(c, w)  PROVE Linked'
    <2>1. PICK e \in Entries, k \in Keys :
              /\ phase[e] = "free" /\ cache[k] = Nil
              /\ \/ cache' = [cache EXCEPT ![k] = e] /\ torn' = torn /\ lru' = AddToFront(lru, e)
                 \/ \E v \in Entries \ {e} :
                    /\ lru' = Remove(AddToFront(lru, e), v)
                    /\ torn' = (torn \/ v \notin Cached)
                    /\ cache' = [[cache EXCEPT ![k] = e] EXCEPT ![KeyOf(v)] = Nil]
        BY <1>0, <1>1, Miss
    <2> DEFINE map == [cache EXCEPT ![k] = e]
    <2>2. e \notin Cached
        BY <1>0, <2>1 DEF Placed, Cached
    <2>3. ASSUME ~torn
          PROVE  AddToFront(lru, e) \in ListType
                 /\ WellLinked(AddToFront(lru, e), Cached \union {e})
        BY <1>0, <2>2, <2>3, AddLinked, AddToFrontType DEF Linked
    <2>4. {map[j] : j \in Keys} \ {Nil} = Cached \union {e}
        <3>1. \A j \in Keys : map[j] = IF j = k THEN e ELSE cache[j]
            BY <1>0 DEF TypeOK
        <3>2. e # Nil
            BY NilAssumption
        <3> HIDE DEF map
        <3> QED
            BY <2>1, <3>1, <3>2 DEF Cached
    <2>5. CASE cache' = map /\ torn' = torn /\ lru' = AddToFront(lru, e)
        BY <2>3, <2>4, <2>5 DEF Linked, Cached
    <2>6. ASSUME NEW v \in Entries \ {e}, lru' = Remove(AddToFront(lru, e), v), ~torn',
                 torn' = (torn \/ v \notin Cached), cache' = [map EXCEPT ![KeyOf(v)] = Nil]
          PROVE  WellLinked(lru', Cached')
        <3>1. v \in Cached /\ ~torn
            BY <2>6
        <3>2. KeyOf(v) \in Keys /\ cache[KeyOf(v)] = v /\ KeyOf(v) # k
            BY <1>0, <2>1, <3>1, CachedEntries, NilAssumption DEF Placed, Cached
        <3>3. \A j \in Keys : cache[j] = v => j = KeyOf(v)
            BY <1>0, NilAssumption DEF Placed
        <3>4. \A j \in Keys :
                  cache'[j] = IF j = KeyOf(v) THEN Nil ELSE IF j = k THEN e ELSE cache[j]
            BY <1>0, <2>6, <3>2 DEF TypeOK
        <3>5. Cached' = (Cached \union {e}) \ {v}
            <4>1. ASSUME NEW x \in Cached'  PROVE x \in (Cached \union {e}) \ {v}
                <5>1. PICK j \in Keys : cache'[j] = x /\ x # Nil
                    BY <4>1 DEF Cached
                <5> QED
                    BY <2>6, <3>3, <3>4, <5>1 DEF Cached
            <4>2. ASSUME NEW x \in Cached, x # v  PROVE x \in Cached'
                <5>1. PICK j \in Keys : cache[j] = x /\ x # Nil
                    BY <4>2 DEF Cached
                <5>2. cache'[j] = x
                    BY <2>1, <3>2, <3>4, <4>2, <5>1
                <5> QED
                    BY <5>1, <5>2 DEF Cached
            <4>3. e \in Cached'
                BY <3>2, <3>4, NilAssumption DEF Cached
            <4> QED
                BY <2>6, <4>1, <4>2, <4>3
        <3> QED
            BY <1>0, <2>3, <2>6, <3>1, <3>5, RemoveLinked
    <2> QED
        BY <2>1, <2>5, <2>6 DEF Linked
<1>2. CASE Touch(c)
    <2>1. ent[c] \in Entries /\ Cached' = Cached /\ lru' = MoveToFront(lru, ent[c])
        BY <1>0, <1>2 DEF Touch, TypeOK, Cached
    <2>2. torn' = (torn \/ (lru.head # ent[c] /\ ent[c] \notin Cached))
        BY <1>2 DEF Touch
    <2>3. CASE lru.head = ent[c]
        BY <2>1, <2>2, <2>3 DEF Linked, MoveToFront
    <2>4. CASE lru.head # ent[c]
        BY <1>0, <2>1, <2>2, <2>4, MoveLinked DEF Linked
    <2> QED
        BY <2>3, <2>4
<1>3. CASE PublishError(c)
    <2>1. /\ ent[c] \in Entries /\ lru' = Remove(lru, ent[c])
          /\ torn' = (torn \/ ent[c] \notin Cached)
          /\ cache' = [cache EXCEPT ![KeyOf(ent[c])] = Nil]
        BY <1>0, <1>3 DEF PublishError, TypeOK
    <2>2. ent[c] \in Cached => Cached' = Cached \ {ent[c]}
        BY <1>0, <2>1, Uncached
    <2> QED
        BY <1>0, <2>1, <2>2, RemoveLinked DEF Linked
<1>4. ASSUME UNCHANGED <<cache, lru, torn>>  PROVE Linked'
    BY <1>4 DEF Linked, Cached
<1> QED
    BY <1>1, <1>2, <1>3, <1>4 DEF Caller, ArchiveHit, ReadDone, ReadDoneAgain, AwaitDone, Cancel,
       BuildArchive, BuildTruncated, BuildError, Load, PublishArchive, Respond

\* The list stays well linked.
THEOREM ListInvariant == Spec => []Linked
<1>1. Init => Linked
    BY DEF Init, Linked, WellLinked, Cached
<1>2. ASSUME IInv, Linked, [Next]_vars  PROVE Linked'
    <2>1. CASE UNCHANGED vars
        BY <1>2, <2>1 DEF vars, Linked, Cached
    <2> QED
        BY <1>2, <2>1, WriterLinked, CallerLinked DEF Next, Quiet
<1> QED
    BY <1>1, <1>2, ManagerInvariant, PTL DEF Spec

\* As long as remove() has only been applied to cached entries, the LRU list
\* links exactly the cached entries, in both directions, from head to tail.
THEOREM ListStaysCache == Spec => []ListIsCache
<1>1. Linked => ListIsCache
    BY DEF Linked, WellLinked, ListIsCache
<1> QED
    BY <1>1, ListInvariant, PTL

-----------------------------------------------------------------------------
(* The service above the manager: what a handler is answered, and the cap.  *)

\* The entry of a call has the key of the window the call asked for.
KeyAsAsked ==
    /\ asked \in [Clients -> Windows \union {Nil}]
    /\ \A c \in Clients : ent[c] # Nil =>
        asked[c] \in Windows /\ KeyOf(ent[c]) = windowKey(normalizeWindow(asked[c]))

-----------------------------------------------------------------------------
(* Days.                                                                    *)

\* Division by a day's length keeps the order.
LEMMA DivMonotone ==
    ASSUME NEW n \in Nat \ {0}, NEW x \in Nat, NEW y \in Nat, x <= y
    PROVE  x \div n \in Nat /\ x \div n <= y \div n
<1> DEFINE p == x \div n
           q == y \div n
<1>1. p \in Nat /\ q \in Nat
    OBVIOUS
<1>2. n * p <= x /\ y < n * (q + 1)
    OBVIOUS
<1>3. n * p < n * (q + 1)
    <2>1. n * p \in Nat /\ n * (q + 1) \in Nat
        BY <1>1
    <2> HIDE DEF p, q
    <2> QED
        BY <1>2, <2>1
<1> HIDE DEF p, q
<1>4. p < q + 1
    <2> SUFFICES ASSUME p >= q + 1 PROVE FALSE
        BY <1>1
    <2>1. n * p >= n * (q + 1)
        BY <1>1
    <2> QED
        BY <1>1, <1>3, <2>1
<1>5. p <= q
    BY <1>1, <1>4
<1> QED
    BY <1>1, <1>5 DEF p, q

\* Later instants fall on the same day or a later one.
LEMMA DayMonotone ==
    ASSUME NEW x \in Nat, NEW y \in Nat, x <= y
    PROVE  Day(x) \in Nat /\ Day(y) \in Nat /\ Day(x) <= Day(y)
<1>1. TicksPerDay \in Nat \ {0}
    BY TicksPerDayAssumption
<1>2. x + TicksPerDay - 1 \in Nat /\ y + TicksPerDay - 1 \in Nat
      /\ x + TicksPerDay - 1 <= y + TicksPerDay - 1
    BY <1>1
<1> QED
    BY <1>1, <1>2, DivMonotone DEF Day

\* Only the open bound has the key's "open".
LEMMA OpenDay ==
    ASSUME NEW x \in Nat
    PROVE  Day(x) = 0 <=> x = Open
<1>1. TicksPerDay \in Nat \ {0}
    BY TicksPerDayAssumption
<1>2. Day(0) = 0
    BY <1>1 DEF Day
<1>3. Day(1) = 1
    BY <1>1 DEF Day
<1>4. x >= 1 => Day(x) >= 1
    BY <1>3, DayMonotone
<1> QED
    BY <1>2, <1>4, DayMonotone DEF Open

\* Two bounds on one day admit the same instants of every other day.
LEMMA SameDayBounds ==
    ASSUME NEW a \in Nat, NEW b \in Nat, NEW t \in Nat, Day(a) = Day(b), Day(t) # Day(a)
    PROVE  (a <= t <=> b <= t) /\ (t <= a <=> t <= b)
BY DayMonotone

\* Two windows with one key select the same draws, those of the days at their
\* edges excepted.
LEMMA SameKeySameDraws ==
    ASSUME NEW v \in DateRange, NEW w \in DateRange, windowKey(v) = windowKey(w),
           NEW d \in Draws, ~OnEdge(d, w)
    PROVE  InWindow(DrawDate[d], v) <=> InWindow(DrawDate[d], w)
<1>1. /\ v.from \in Nat /\ v.to \in Nat /\ w.from \in Nat /\ w.to \in Nat
      /\ DrawDate[d] \in Nat
    BY DrawDateAssumption DEF DateRange
<1>2. Day(v.from) = Day(w.from) /\ Day(v.to) = Day(w.to)
    BY DEF windowKey
<1>3. Day(DrawDate[d]) # Day(w.from) /\ Day(DrawDate[d]) # Day(w.to)
    BY DEF OnEdge
<1>4. (v.from = Open <=> w.from = Open) /\ (v.to = Open <=> w.to = Open)
    BY <1>1, <1>2, OpenDay
<1>5. (w.from <= DrawDate[d] <=> v.from <= DrawDate[d])
      /\ (DrawDate[d] <= w.to <=> DrawDate[d] <= v.to)
    BY <1>1, <1>2, <1>3, SameDayBounds
<1> QED
    BY <1>4, <1>5 DEF InWindow

-----------------------------------------------------------------------------
(* The calls.                                                               *)

\* The service takes the manager's steps.
LEMMA ServiceSteps == ServiceSpec => Spec
<1>1. ServiceInit => Init
    BY DEF ServiceInit
<1>2. [ServiceNext]_serviceVars => [Next]_vars
    BY DEF ServiceNext, serviceVars, archive, Continue, Next, Caller
<1> QED
    BY <1>1, <1>2, PTL DEF ServiceSpec, Spec

\* A call keeps its entry and its window to the end.
LEMMA KeyAsAskedStep ==
    ASSUME IInv, KeyAsAsked, [ServiceNext]_serviceVars
    PROVE  KeyAsAsked'
<1>0. TypeOK /\ Placed /\ Led
    BY DEF IInv, FreshInv
<1>1. CASE UNCHANGED <<ent, window, asked>>
    BY <1>1 DEF KeyAsAsked, KeyOf
<1>2. ASSUME NEW c \in Clients, NEW w \in Windows, archive(c, w), ArchiveHit(c, w)
      PROVE  KeyAsAsked'
    <2>1. PICK k \in Keys :
              /\ k = windowKey(normalizeWindow(w)) /\ cache[k] # Nil
              /\ ent' = [ent EXCEPT ![c] = cache[k]] /\ window' = window
        BY <1>2 DEF ArchiveHit, Keys, entries
    <2>2. KeyOf(cache[k]) = k /\ asked' = [asked EXCEPT ![c] = w]
        BY <1>0, <1>2, <2>1 DEF Placed, archive
    <2> QED
        BY <1>0, <2>1, <2>2 DEF KeyAsAsked, KeyOf, TypeOK
<1>3. ASSUME NEW c \in Clients, NEW w \in Windows, archive(c, w), ArchiveMiss(c, w)
      PROVE  KeyAsAsked'
    <2>1. PICK e \in Entries :
              /\ phase[e] = "free"
              /\ window' = [window EXCEPT ![e] = normalizeWindow(w)]
              /\ ent' = [ent EXCEPT ![c] = e]
        BY <1>3 DEF ArchiveMiss
    <2>2. asked' = [asked EXCEPT ![c] = w]
        BY <1>3 DEF archive
    <2>3. \A b \in Clients : ent[b] # Nil => ent[b] # e
        BY <1>0, <2>1 DEF Led
    <2>4. window'[e] = normalizeWindow(w) /\ \A x \in Entries : x # e => window'[x] = window[x]
        BY <1>0, <2>1 DEF TypeOK
    <2>5. ASSUME NEW b \in Clients, ent'[b] # Nil
          PROVE  asked'[b] \in Windows
                 /\ windowKey(window'[ent'[b]]) = windowKey(normalizeWindow(asked'[b]))
        <3>1. CASE b = c
            BY <1>0, <2>1, <2>2, <2>4, <3>1 DEF KeyAsAsked, TypeOK
        <3>2. CASE b # c
            BY <1>0, <2>1, <2>2, <2>3, <2>4, <2>5, <3>2 DEF KeyAsAsked, KeyOf, TypeOK
        <3> QED
            BY <3>1, <3>2
    <2>6. asked' \in [Clients -> Windows \union {Nil}]
        BY <2>2 DEF KeyAsAsked
    <2> QED
        BY <2>5, <2>6 DEF KeyAsAsked, KeyOf
<1>4. ASSUME NEW c \in Clients, Continue(c)  PROVE KeyAsAsked'
    <2>1. ent' = ent \/ (ent' = [ent EXCEPT ![c] = Nil])
        BY <1>4 DEF Continue, Caller, ArchiveHit, ArchiveMiss, Begin, ReadDone, ReadDoneAgain,
           AwaitDone, Cancel, Touch, BuildArchive, BuildTruncated, BuildError, Load,
           PublishArchive, PublishError, Respond
    <2>2. window' = window
        BY <1>4 DEF Continue, Caller, ArchiveHit, ArchiveMiss, Begin, ReadDone, ReadDoneAgain,
           AwaitDone, Cancel, Touch, BuildArchive, BuildTruncated, BuildError, Load,
           PublishArchive, PublishError, Respond, entries
    <2>3. pc'[c] = "idle" => ent'[c] = Nil
        BY <1>0, <1>4 DEF Continue, Caller, ArchiveHit, ArchiveMiss, Begin, ReadDone,
           ReadDoneAgain, AwaitDone, Cancel, Touch, BuildArchive, BuildTruncated, BuildError,
           Load, PublishArchive, PublishError, Respond, TypeOK
    <2>4. asked' = [asked EXCEPT ![c] = IF pc'[c] = "idle" THEN Nil ELSE asked[c]]
        BY <1>4 DEF Continue
    <2> QED
        BY <1>0, <2>1, <2>2, <2>3, <2>4 DEF KeyAsAsked, KeyOf, TypeOK
<1>5. ASSUME Writer \/ Quiet, UNCHANGED asked  PROVE KeyAsAsked'
    BY <1>1, <1>5, WriterSteps DEF Quiet, vars, entries, callers
<1>6. CASE UNCHANGED serviceVars
    BY <1>1, <1>6 DEF serviceVars, vars, entries, callers
<1> QED
    BY <1>2, <1>3, <1>4, <1>5, <1>6 DEF ServiceNext, archive

\* What a handler gets fits the window it asked for, the days at its edges
\* excepted: no draw from outside, and every draw inside at least as it was
\* announced before the call, whoever the archive was built for.
THEOREM AskedIsAnswered == ServiceSpec => []AnswersWhatWasAsked
<1>1. ServiceInit => KeyAsAsked
    BY DEF ServiceInit, Init, KeyAsAsked
<1>2. IInv /\ KeyAsAsked /\ [ServiceNext]_serviceVars => KeyAsAsked'
    BY KeyAsAskedStep
<1>3. IInv /\ KeyAsAsked => AnswersWhatWasAsked
    <2> SUFFICES ASSUME IInv, KeyAsAsked, NEW c \in Clients, pc[c] = "served", arch[ent[c]] # Nil,
                        NEW d \in Draws, ~OnEdge(d, normalizeWindow(asked[c]))
                 PROVE  IF InWindow(DrawDate[d], normalizeWindow(asked[c]))
                        THEN arch[ent[c]].whole => floor[c][d] <= arch[ent[c]].rows[d]
                        ELSE arch[ent[c]].rows[d] = Absent
        BY DEF AnswersWhatWasAsked
    <2> DEFINE e == ent[c]
               w == normalizeWindow(asked[c])
    <2>0. TypeOK /\ Placed /\ Led /\ RowsBounded /\ CallsFresh
        BY DEF IInv, FreshInv
    <2>1. e \in Entries /\ e # Nil
        BY <2>0, NilAssumption DEF TypeOK
    <2>2. w \in DateRange /\ windowKey(window[e]) = windowKey(w)
        BY <2>1, NormalizeType, WindowsAssumption DEF KeyAsAsked, KeyOf
    <2>3. window[e] \in DateRange
        BY <2>0, <2>1 DEF Placed, Led
    <2>4. Selected(d, e) <=> InWindow(DrawDate[d], w)
        BY <2>2, <2>3, SameKeySameDraws DEF Selected
    <2>5. arch[e].whole /\ Selected(d, e) => floor[c][d] <= arch[e].rows[d]
        BY <2>0, <2>1 DEF CallsFresh, AtLeast
    <2>6. ~Selected(d, e) => arch[e].rows[d] = Absent
        <3>1. arch[e].rows[d] \in Levels
            BY <2>0, <2>1 DEF TypeOK, Archives, Snapshots
        <3>2. ~Selected(d, e) => arch[e].rows[d] <= Absent
            BY <2>0, <2>1 DEF RowsBounded
        <3> QED
            BY <3>1, <3>2 DEF Levels, Absent
    <2> QED
        BY <2>4, <2>5, <2>6
<1> QED
    BY <1>1, <1>2, <1>3, ServiceSteps, ManagerInvariant, PTL DEF ServiceSpec

-----------------------------------------------------------------------------
(* The cap.                                                                 *)

\* The keys that are in the map.
Held == {k \in Keys : cache[k] # Nil}

\* The cap is counted over the map's keys.
HeldCapped ==
    /\ overlapped \in BOOLEAN
    /\ ~torn /\ ~overlapped => IsFiniteSet(Held) /\ Cardinality(Held) <= MaxCacheEntries

\* Taking entries out of the map keeps the cap.
LEMMA FewerHeld ==
    ASSUME HeldCapped, overlapped' \in BOOLEAN,
           ~torn' /\ ~overlapped' => ~torn /\ ~overlapped, Held' \subseteq Held
    PROVE  HeldCapped'
<1>1. ASSUME ~torn', ~overlapped'
      PROVE  IsFiniteSet(Held') /\ Cardinality(Held') <= MaxCacheEntries
    <2>1. IsFiniteSet(Held) /\ Cardinality(Held) <= MaxCacheEntries
        BY <1>1 DEF HeldCapped
    <2>2. /\ IsFiniteSet(Held') /\ Cardinality(Held') <= Cardinality(Held)
          /\ Cardinality(Held') \in Nat /\ Cardinality(Held) \in Nat
        BY <2>1, FS_Subset, FS_CardinalityType
    <2> QED
        BY <2>1, <2>2, MaxCacheEntriesAssumption
<1> QED
    BY <1>1 DEF HeldCapped

\* A miss puts one entry in and takes one out when that exceeds the cap: the
\* tail is an older entry, and no load is in flight that it could pass over.
LEMMA MissCapped ==
    ASSUME IInv, Linked, HeldCapped, NEW c \in Clients, NEW w \in Windows,
           archive(c, w), ArchiveMiss(c, w)
    PROVE  HeldCapped'
<1> DEFINE k == windowKey(normalizeWindow(w))
<1>0. TypeOK /\ Placed
    BY DEF IInv, FreshInv
<1>1. overlapped' = (overlapped \/ (pc'[c] = "build" /\ \E x \in Cached : InFlight(x)))
    BY DEF archive
<1>2. SUFFICES ASSUME ~torn', ~overlapped'
               PROVE  IsFiniteSet(Held') /\ Cardinality(Held') <= MaxCacheEntries
    BY <1>1 DEF HeldCapped
<1>3. PICK e \in Entries :
          LET map == [cache EXCEPT ![k] = e]
              list == AddToFront(lru, e)
              victim == list.tail
          IN  /\ cache[k] = Nil /\ phase[e] = "free"
              /\ pc' = [pc EXCEPT ![c] = "build"]
              /\ IF victim # e /\ Evictable(list, map)
                 THEN /\ cache' = [map EXCEPT ![KeyOf(victim)] = Nil]
                      /\ torn' = (torn \/ victim \notin Cached)
                 ELSE cache' = map /\ UNCHANGED torn
    BY DEF ArchiveMiss
<1> DEFINE map == [cache EXCEPT ![k] = e]
           list == AddToFront(lru, e)
           Full == {j \in Keys : map[j] # Nil}
<1>4. k \in Keys /\ e # Nil
    BY NilAssumption DEF Keys
<1>5. Full = Held \union {k} /\ k \notin Held
    BY <1>0, <1>3, <1>4 DEF Held, TypeOK
<1>6. ~torn /\ ~overlapped
    BY <1>0, <1>1, <1>2, <1>3 DEF HeldCapped, TypeOK
<1>7. /\ IsFiniteSet(Held) /\ Cardinality(Held) <= MaxCacheEntries
      /\ Cardinality(Held) \in Nat
    BY <1>6, FS_CardinalityType DEF HeldCapped
<1>8. IsFiniteSet(Full) /\ Cardinality(Full) = Cardinality(Held) + 1
    BY <1>5, <1>7, FS_AddElement
<1>9. \A x \in Cached : ~InFlight(x)
    <2>1. pc'[c] = "build"
        BY <1>0, <1>3 DEF TypeOK
    <2> QED
        BY <1>1, <1>2, <2>1
<1>10. CASE Cardinality(Full) <= MaxCacheEntries
    <2>1. ~Evictable(list, map)
        BY <1>8, <1>7, <1>10, MaxCacheEntriesAssumption DEF Evictable
    <2>2. Held' = Full
        BY <1>3, <2>1 DEF Held
    <2> QED
        BY <1>8, <1>10, <2>2
<1>11. CASE Cardinality(Full) > MaxCacheEntries
    <2>1. Held # {}
        BY <1>7, <1>8, <1>11, FS_EmptySet, MaxCacheEntriesAssumption
    <2>2. Cached # {}
        BY <2>1 DEF Held, Cached
    <2>3. lru.tail \in Cached /\ lru.tail # Nil
        BY <1>6, <2>2 DEF Linked, WellLinked
    <2>4. list.tail = lru.tail
        BY <2>3 DEF AddToFront
    <2>5. e \notin Cached
        <3>1. phase[e] = "free"
            BY <1>0, <1>3
        <3> QED
            BY <1>0, <3>1 DEF Placed, Cached
    <2>6. list.tail # e /\ Evictable(list, map)
        BY <1>9, <1>11, <2>3, <2>4, <2>5 DEF Evictable
    <2> DEFINE v == lru.tail
    <2>7. cache' = [map EXCEPT ![KeyOf(v)] = Nil]
        BY <1>3, <2>4, <2>6
    <2>8. v \in Entries /\ KeyOf(v) \in Held /\ cache[KeyOf(v)] = v
        <3>1. v \in Entries
            BY <1>0, <2>3 DEF TypeOK, Cached
        <3>2. cache[KeyOf(v)] = v
            BY <1>0, <2>3, <3>1, CachedEntries
        <3>3. KeyOf(v) \in Keys
            BY <1>0, <2>3 DEF Placed, Cached
        <3> QED
            BY <2>3, <3>1, <3>2, <3>3 DEF Held
    <2> HIDE DEF v, map
    <2>9. Held' = Full \ {KeyOf(v)}
        <3>1. \A j \in Keys : cache'[j] = IF j = KeyOf(v) THEN Nil ELSE map[j]
            BY <1>0, <2>7, <2>8 DEF TypeOK, map, Held
        <3> QED
            BY <3>1 DEF Held
    <2>10. Cardinality(Held') = Cardinality(Full) - 1 /\ IsFiniteSet(Held')
        BY <1>5, <1>8, <2>8, <2>9, FS_RemoveElement
    <2> QED
        BY <1>7, <1>8, <2>10
<1> QED
    BY <1>7, <1>8, <1>10, <1>11, MaxCacheEntriesAssumption

\* Every other step leaves the map alone or takes entries out.
LEMMA HeldCappedStep ==
    ASSUME IInv, Linked, HeldCapped, [ServiceNext]_serviceVars
    PROVE  HeldCapped'
<1>0. TypeOK
    BY DEF IInv, FreshInv
<1>1. ASSUME \A k \in Keys : cache'[k] \in {cache[k], Nil}, torn => torn',
             overlapped' \in BOOLEAN, overlapped => overlapped'
      PROVE  HeldCapped'
    BY <1>1, FewerHeld DEF Held
<1>2. ASSUME Writer, UNCHANGED overlapped  PROVE HeldCapped'
    <2>1. \A k \in Keys : cache'[k] \in {cache[k], Nil}
        BY <1>0, <1>2 DEF Writer, SeedOnBoot, InvalidateAll, InsertNewDraws, UpdatePrizeAmounts,
           InvalidateRange, InvalidateEntry, InvalidateDone, TypeOK
    <2>2. torn' = torn
        BY <1>2 DEF Writer, SeedOnBoot, InvalidateAll, InsertNewDraws, UpdatePrizeAmounts,
           InvalidateRange, InvalidateEntry, InvalidateDone
    <2> QED
        BY <1>1, <1>2, <2>1, <2>2 DEF HeldCapped
<1>3. ASSUME NEW c \in Clients, Continue(c)  PROVE HeldCapped'
    <2>1. \A k \in Keys : cache'[k] \in {cache[k], Nil}
        BY <1>0, <1>3 DEF Continue, Caller, ArchiveHit, ArchiveMiss, Begin, ReadDone,
           ReadDoneAgain, AwaitDone, Cancel, Touch, BuildArchive, BuildTruncated, BuildError,
           Load, PublishArchive, PublishError, Respond, TypeOK
    <2>2. torn => torn'
        BY <1>3 DEF Continue, Caller, ArchiveHit, ArchiveMiss, Begin, ReadDone,
           ReadDoneAgain, AwaitDone, Cancel, Touch, BuildArchive, BuildTruncated, BuildError,
           Load, PublishArchive, PublishError, Respond
    <2> QED
        BY <1>1, <1>3, <2>1, <2>2 DEF Continue, HeldCapped
<1>4. ASSUME NEW c \in Clients, NEW w \in Windows, archive(c, w)  PROVE HeldCapped'
    <2>1. CASE ArchiveMiss(c, w)
        BY <1>4, <2>1, MissCapped
    <2>2. CASE ArchiveHit(c, w)
        <3>1. UNCHANGED <<cache, torn>>
            BY <2>2 DEF ArchiveHit
        <3>2. overlapped' \in BOOLEAN /\ (overlapped => overlapped')
            BY <1>4 DEF archive, HeldCapped
        <3> QED
            BY <1>1, <3>1, <3>2
    <2> QED
        BY <1>4, <2>1, <2>2 DEF archive
<1>5. ASSUME UNCHANGED <<cache, torn, overlapped>>  PROVE HeldCapped'
    BY <1>1, <1>5 DEF HeldCapped
<1> QED
    BY <1>2, <1>3, <1>4, <1>5 DEF ServiceNext, Quiet, serviceVars, vars

\* The cache keeps to maxCacheEntries as long as no two loads have overlapped
\* and the list is not torn.
THEOREM CapIsKept == ServiceSpec => []CapUnlessOverlapped
<1>1. ServiceInit => HeldCapped
    <2> SUFFICES ASSUME ServiceInit PROVE HeldCapped
        OBVIOUS
    <2>1. Held = {} /\ overlapped \in BOOLEAN
        BY DEF ServiceInit, Init, Held
    <2> QED
        BY <2>1, FS_EmptySet, MaxCacheEntriesAssumption DEF HeldCapped
<1>2. IInv /\ Linked /\ HeldCapped /\ [ServiceNext]_serviceVars => HeldCapped'
    BY HeldCappedStep
<1>3. ASSUME HeldCapped  PROVE CapUnlessOverlapped
    <2> SUFFICES ASSUME ~torn, ~overlapped PROVE Cardinality(Cached) <= MaxCacheEntries
        BY DEF CapUnlessOverlapped
    <2>1. /\ IsFiniteSet(Held) /\ Cardinality(Held) <= MaxCacheEntries
          /\ Cardinality(Held) \in Nat
        BY <1>3, FS_CardinalityType DEF HeldCapped
    <2> DEFINE f == [k \in Held |-> cache[k]]
    <2>2. f \in Surjection(Held, Cached)
        BY DEF Surjection, Held, Cached
    <2>3. IsFiniteSet(Cached) /\ Cardinality(Cached) <= Cardinality(Held)
        BY <2>1, <2>2, FS_Surjection
    <2>4. Cardinality(Cached) \in Nat
        BY <2>3, FS_CardinalityType
    <2> QED
        BY <2>1, <2>3, <2>4, MaxCacheEntriesAssumption
<1> QED
    BY <1>1, <1>2, <1>3, ServiceSteps, ManagerInvariant, ListInvariant, PTL DEF ServiceSpec
=============================================================================
