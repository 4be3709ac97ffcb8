------------------------ MODULE ScraperRunnerProofs ------------------------
(***************************************************************************)
(* Proofs about ScraperRunner for any callers, draws, batch size and cap,   *)
(* and any number of failures: the type invariant, that a run stops within  *)
(* one batch of its cap, and that every row written is announced.           *)
(***************************************************************************)
EXTENDS ScraperRunner, FiniteSetTheorems, WellFoundedInduction, TLAPS

\* What a run has written when it stands at a step of the prize loop.
Counts ==
    /\ at = "draw" => written + Cardinality(todo) <= BatchSize
    /\ mu # "boot" =>
        /\ at \in {"none", "fetch", "existing", "insert", "invalidateInserted", "announceInserted"} => total = 0
        /\ at \in {"refs", "draw"} => total < MaxPerRun
        /\ at \in {"invalidatePrizes", "announcePrizes", "finish"} => total < MaxPerRun + BatchSize

\* A draw the range collected so far will announce.
Due(d) == span # Unset /\ InWindow(DrawDate[d], span)

\* The steps of an InvalidateRange.
Telling == {"invalidateInserted", "announceInserted", "invalidatePrizes", "announcePrizes"}

\* The range is closed above once a row is in it, and one is before it is told.
Ranged ==
    /\ at \in Telling => span # Unset
    /\ span # Unset => span.to # Open
    /\ at = "draw" => (written = 0 <=> span = Unset)

\* A row is announced, lost, or due; at start-up there is nobody to tell.
Owed ==
    at \notin {"seed", "invalidateAll"} => \A d \in Draws \ lost :
        \/ pub[d] = db[d]
        \/ /\ Due(d) /\ mu # "boot"
           /\ at \in {"draw"} \union Telling

\* A ref of the batch is a row of the table.
Present == \A d \in todo : db[d] # Absent

\* Only the boot sequence seeds, and it does not fetch.
Booted ==
    /\ at \in {"seed", "invalidateAll"} => mu = "boot"
    /\ mu = "boot" => at \in {"seed", "invalidateAll", "refs", "draw", "finish"}

IInv == TypeOK /\ Booted /\ Counts /\ Ranged /\ Owed /\ Present

-----------------------------------------------------------------------------
(* Lemmas about the operators.                                              *)

\* A nonempty set of draws has an oldest one.
LEMMA Oldest ==
    ASSUME NEW D \in SUBSET Draws, D # {}
    PROVE  \E d \in D : \A e \in D : DrawDate[d] <= DrawDate[e]
<1> DEFINE Dates == {DrawDate[d] : d \in D}
<1>1. Dates \subseteq Nat /\ Dates # {}
    BY DrawDateAssumption
<1>2. PICK x \in Dates : \A y \in Dates : <<y, x>> \notin OpToRel(<, Nat)
    BY <1>1, NatLessThanWellFounded, WFMin
<1>3. \A y \in Dates : x <= y
    <2> SUFFICES ASSUME NEW y \in Dates PROVE x <= y
        OBVIOUS
    <2>1. x \in Nat /\ y \in Nat
        BY <1>1
    <2>2. <<y, x>> \notin OpToRel(<, Nat)
        BY <1>2
    <2> HIDE DEF Dates
    <2>3. ~ y < x
        BY <2>1, <2>2 DEF OpToRel
    <2> QED
        BY <2>1, <2>3
<1> QED
    BY <1>3

\* LIMIT: the query never returns more than a batch.
LEMMA NewestIsABatch ==
    ASSUME NEW D \in SUBSET Draws
    PROVE  /\ Newest(D) \subseteq D /\ IsFiniteSet(Newest(D))
           /\ Cardinality(Newest(D)) <= BatchSize
<1> DEFINE N == Newest(D)
<1>1. N \subseteq D /\ IsFiniteSet(D)
    BY DrawsAssumption, FS_Subset DEF Newest
<1>2. IsFiniteSet(N)
    BY <1>1, FS_Subset
<1>3. CASE N = {}
    BY <1>1, <1>3, FS_EmptySet, SizesAssumption
<1>4. CASE N # {}
    <2>1. PICK d \in N : \A e \in N : DrawDate[d] <= DrawDate[e]
        BY <1>1, <1>4, Oldest
    <2> DEFINE Newer == {x \in D : DrawDate[x] > DrawDate[d]}
    <2>2. N \ {d} \subseteq Newer
        BY <1>1, <2>1, DrawDateAssumption
    <2>3. IsFiniteSet(Newer) /\ Cardinality(Newer) \in Nat
        BY <1>1, FS_Subset, FS_CardinalityType
    <2>4. Cardinality(Newer) < BatchSize
        BY <2>1 DEF Newest
    <2>5. Cardinality(N \ {d}) <= Cardinality(Newer)
        BY <2>2, <2>3, FS_Subset
    <2>6. Cardinality(N \ {d}) = Cardinality(N) - 1
        BY <1>2, <2>1, FS_RemoveElement
    <2>7. Cardinality(N) \in Nat
        BY <1>2, FS_CardinalityType
    <2> QED
        BY <1>1, <1>2, <2>3, <2>4, <2>5, <2>6, <2>7, SizesAssumption
<1> QED
    BY <1>3, <1>4

\* The part of a batch that is left shrinks by one with every ref.
LEMMA OneRefLess ==
    ASSUME NEW D \in SUBSET Draws, NEW d \in D
    PROVE  Cardinality(D) \in Nat /\ Cardinality(D \ {d}) = Cardinality(D) - 1
BY DrawsAssumption, FS_Subset, FS_RemoveElement, FS_CardinalityType

\* A range widened by a date is closed above and covers what it covered.
LEMMA WidenCovers ==
    ASSUME NEW r \in DateRange, NEW t \in Nat \ {0}, r # Unset => r.to # Open
    PROVE  /\ Widen(r, t) \in DateRange /\ Widen(r, t) # Unset /\ Widen(r, t).to # Open
           /\ InWindow(t, Widen(r, t))
           /\ \A x \in Nat : r # Unset /\ InWindow(x, r) => InWindow(x, Widen(r, t))
BY DEF Widen, DateRange, Unset, Open, InWindow

\* The range of an insert is closed and covers its draws.
LEMMA SpansCover ==
    ASSUME NEW D \in SUBSET Draws, NEW r, Spans(r, D)
    PROVE  /\ r \in DateRange /\ r # Unset /\ r.to # Open
           /\ \A d \in D : InWindow(DrawDate[d], r)
BY DrawDateAssumption DEF Spans, DateRange, Unset, Open, InWindow

\* Failures are counted up to their bound.
LEMMA FaultsType ==
    ASSUME TypeOK, Fault \/ NoFault \/ UNCHANGED <<faults, clean>>
    PROVE  faults' \in 0..MaxFaults /\ clean' \in BOOLEAN
<1>1. faults' \in 0..MaxFaults
    BY SizesAssumption DEF TypeOK, Fault, NoFault, Timed
<1>2. clean' \in BOOLEAN
    BY Zenon DEF TypeOK, Fault, NoFault
<1> QED
    BY <1>1, <1>2

-----------------------------------------------------------------------------

\* The invariant holds at the start.
LEMMA InitInv == Init => IInv
<1> SUFFICES ASSUME Init PROVE IInv
    OBVIOUS
<1> USE SizesAssumption, CallersAssumption DEF Init
<1>1. TypeOK
    BY DEF TypeOK, Levels, Absent, Unset, DateRange, Open, Steps
<1>2. Booted /\ Counts /\ Ranged /\ Owed /\ Present
    BY DEF Booted, Counts, Ranged, Telling, Owed, Present
<1> QED
    BY <1>1, <1>2 DEF IInv

\* One step keeps the types; whoever is inside holds r.mu.
LEMMA TypeStep ==
    ASSUME TypeOK, Booted, Ranged, [Next]_vars
    PROVE  TypeOK'
<1> USE SizesAssumption, CallersAssumption DEF TypeOK, Booted, Ranged, Steps, Levels, Absent, NoPrizes, WithPrizes, Unset, DateRange, Open, locals, ghosts
<1>1. CASE SeedOnBoot
    <2>1. faults' \in 0..MaxFaults /\ clean' \in BOOLEAN
        BY <1>1, FaultsType DEF SeedOnBoot
    <2> QED
        BY <1>1, <2>1 DEF SeedOnBoot, Go, Raise
<1>2. CASE InvalidateAll
    BY <1>2 DEF InvalidateAll, Go
<1>3. ASSUME NEW p \in Callers, CallRunOnce(p)  PROVE TypeOK'
    BY <1>3 DEF CallRunOnce
<1>4. ASSUME NEW p \in Callers, Lock(p)  PROVE TypeOK'
    BY <1>4 DEF Lock
<1>5. CASE Deadline
    BY <1>5 DEF Deadline
<1>6. CASE FetchLotteryData
    <2>1. clean' \in BOOLEAN
        BY <1>6, Zenon DEF FetchLotteryData
    <2>2. faults' \in 0..MaxFaults
        BY <1>6 DEF FetchLotteryData
    <2>3. UNCHANGED <<db, mu, state, expired, locals, pub, lost>> /\ at = "fetch" /\ at' \in {"existing", "finish"}
        BY <1>6 DEF FetchLotteryData, Go
    <2> QED
        BY <2>1, <2>2, <2>3
<1>7. CASE existingDrawNumbers
    <2>1. faults' \in 0..MaxFaults /\ clean' \in BOOLEAN
        BY <1>7, FaultsType DEF existingDrawNumbers
    <2> QED
        BY <1>7, <2>1 DEF existingDrawNumbers, Go
<1>8. CASE InsertNewDraws
    <2>1. faults' \in 0..MaxFaults /\ clean' \in BOOLEAN
        BY <1>8, FaultsType DEF InsertNewDraws
    <2> QED
        BY <1>8, <2>1, SpansCover DEF InsertNewDraws, Go, Raise
<1>9. CASE InvalidateInserted
    BY <1>9 DEF InvalidateInserted, Go, Announce
<1>10. CASE SelectRefs
    <2>1. faults' \in 0..MaxFaults /\ clean' \in BOOLEAN
        BY <1>10, FaultsType DEF SelectRefs
    <2> QED
        BY <1>10, <2>1, NewestIsABatch, EligibleAssumption DEF SelectRefs, Go
<1>11. ASSUME NEW d \in Draws, SkipDraw(d)  PROVE TypeOK'
    <2>1. faults' \in 0..MaxFaults /\ clean' \in BOOLEAN
        BY <1>11, FaultsType DEF SkipDraw
    <2> QED
        BY <1>11, <2>1 DEF SkipDraw, NextRef
<1>12. ASSUME NEW d \in Draws, LoseDraw(d)  PROVE TypeOK'
    <2>1. faults' \in 0..MaxFaults /\ clean' \in BOOLEAN
        BY <1>12, FaultsType DEF LoseDraw
    <2> QED
        BY <1>12, <2>1 DEF LoseDraw, NextRef, Raise
<1>13. ASSUME NEW d \in Draws, WriteDraw(d)  PROVE TypeOK'
    <2>1. faults' \in 0..MaxFaults /\ clean' \in BOOLEAN
        BY <1>13, FaultsType DEF WriteDraw
    <2>2. Widen(span, DrawDate[d]) \in DateRange
        BY DrawDateAssumption, WidenCovers
    <2>3. span' \in DateRange /\ todo' \subseteq Draws /\ written' \in Nat /\ lost' \subseteq Draws
        BY <1>13, <2>2 DEF WriteDraw
    <2> QED
        BY <1>13, <2>1, <2>3 DEF WriteDraw, NextRef, Raise
<1>14. CASE EndBatch
    BY <1>14 DEF EndBatch, Go
<1>15. CASE InvalidatePrizes
    BY <1>15 DEF InvalidatePrizes, Go, Announce
<1>16. CASE Unlock
    BY <1>16 DEF Unlock
<1>17. ASSUME NEW d \in Draws, OtherInstance(d)  PROVE TypeOK'
    BY <1>17 DEF OtherInstance, Raise
<1>18. CASE UNCHANGED vars
    BY <1>18 DEF vars
<1>19. CASE CallInvalidateRange
    BY <1>19 DEF CallInvalidateRange, Go
<1> QED
    BY <1>1, <1>2, <1>3, <1>4, <1>5, <1>6, <1>7, <1>8, <1>9, <1>10, <1>11, <1>12,
       <1>13, <1>14, <1>15, <1>16, <1>17, <1>18, <1>19
    DEF Next, Boot, Run

\* The boot sequence is left once and for all.
LEMMA BootedStep ==
    ASSUME TypeOK, Booted, [Next]_vars
    PROVE  Booted'
<1> USE SizesAssumption, CallersAssumption DEF TypeOK, Booted, locals, ghosts
<1>1. CASE SeedOnBoot
    BY <1>1 DEF SeedOnBoot, Go, Fault, NoFault, Timed, Raise
<1>2. CASE InvalidateAll
    BY <1>2 DEF InvalidateAll, Go
<1>3. ASSUME NEW p \in Callers, CallRunOnce(p)  PROVE Booted'
    BY <1>3 DEF CallRunOnce
<1>4. ASSUME NEW p \in Callers, Lock(p)  PROVE Booted'
    BY <1>4 DEF Lock
<1>5. CASE Deadline
    BY <1>5 DEF Deadline
<1>6. CASE FetchLotteryData
    BY <1>6 DEF FetchLotteryData, Go
<1>7. CASE existingDrawNumbers
    BY <1>7 DEF existingDrawNumbers, Go, Fault, NoFault, Timed
<1>8. CASE InsertNewDraws
    BY <1>8 DEF InsertNewDraws, Go, Fault, NoFault, Timed, Raise
<1>9. CASE InvalidateInserted
    BY <1>9 DEF InvalidateInserted, Go, Announce
<1>10. CASE SelectRefs
    BY <1>10 DEF SelectRefs, Go, Fault, NoFault, Timed
<1>11. ASSUME NEW d \in Draws, SkipDraw(d)  PROVE Booted'
    BY <1>11 DEF SkipDraw, NextRef, Fault, Timed
<1>12. ASSUME NEW d \in Draws, LoseDraw(d)  PROVE Booted'
    BY <1>12 DEF LoseDraw, NextRef, Fault, Timed, Raise
<1>13. ASSUME NEW d \in Draws, WriteDraw(d)  PROVE Booted'
    BY <1>13 DEF WriteDraw, NextRef, NoFault, Timed, Raise
<1>14. CASE EndBatch
    BY <1>14 DEF EndBatch, Go
<1>15. CASE InvalidatePrizes
    BY <1>15 DEF InvalidatePrizes, Go, Announce
<1>16. CASE Unlock
    BY <1>16 DEF Unlock
<1>17. ASSUME NEW d \in Draws, OtherInstance(d)  PROVE Booted'
    BY <1>17 DEF OtherInstance, Raise
<1>18. CASE UNCHANGED vars
    BY <1>18 DEF vars
<1>19. CASE CallInvalidateRange
    BY <1>19 DEF CallInvalidateRange, Go
<1> QED
    BY <1>1, <1>2, <1>3, <1>4, <1>5, <1>6, <1>7, <1>8, <1>9, <1>10, <1>11, <1>12,
       <1>13, <1>14, <1>15, <1>16, <1>17, <1>18, <1>19
    DEF Next, Boot, Run

\* The cap is looked at before every batch, and a batch writes no more than it selected.
LEMMA CountsStep ==
    ASSUME TypeOK, Booted, Counts, [Next]_vars
    PROVE  Counts'
<1> USE SizesAssumption, CallersAssumption DEF TypeOK, Booted, Counts, Steps, locals, ghosts
<1>1. CASE SeedOnBoot
    BY <1>1 DEF SeedOnBoot, Go, Fault, NoFault, Timed, Raise
<1>2. CASE InvalidateAll
    BY <1>2 DEF InvalidateAll, Go
<1>3. ASSUME NEW p \in Callers, CallRunOnce(p)  PROVE Counts'
    BY <1>3 DEF CallRunOnce
<1>4. ASSUME NEW p \in Callers, Lock(p)  PROVE Counts'
    BY <1>4 DEF Lock
<1>5. CASE Deadline
    BY <1>5 DEF Deadline
<1>6. CASE FetchLotteryData
    BY <1>6 DEF FetchLotteryData, Go
<1>7. CASE existingDrawNumbers
    BY <1>7 DEF existingDrawNumbers, Go, Fault, NoFault, Timed
<1>8. CASE InsertNewDraws
    BY <1>8 DEF InsertNewDraws, Go, Fault, NoFault, Timed, Raise
<1>9. CASE InvalidateInserted
    BY <1>9 DEF InvalidateInserted, Go, Announce
<1>10. CASE SelectRefs
    <2> DEFINE batch == Newest({d \in Eligible : db[d] = NoPrizes})
    <2>1. batch \in SUBSET Draws /\ IsFiniteSet(batch) /\ Cardinality(batch) <= BatchSize
        BY NewestIsABatch, EligibleAssumption
    <2>2. todo' \in SUBSET batch /\ written' = 0 /\ UNCHANGED <<mu, total>>
        BY <1>10 DEF SelectRefs, Go
    <2>3. Cardinality(todo') \in Nat /\ Cardinality(todo') <= BatchSize
        BY <2>1, <2>2, FS_Subset, FS_CardinalityType
    <2> QED
        BY <1>10, <2>2, <2>3 DEF SelectRefs, Go
<1>11. ASSUME NEW d \in Draws, SkipDraw(d)  PROVE Counts'
    BY <1>11, OneRefLess DEF SkipDraw, NextRef, Fault, Timed
<1>12. ASSUME NEW d \in Draws, LoseDraw(d)  PROVE Counts'
    BY <1>12, OneRefLess DEF LoseDraw, NextRef, Fault, Timed, Raise
<1>13. ASSUME NEW d \in Draws, WriteDraw(d)  PROVE Counts'
    BY <1>13, OneRefLess DEF WriteDraw, NextRef, NoFault, Timed, Raise
<1>14. CASE EndBatch
    BY <1>14, FS_EmptySet DEF EndBatch, Go
<1>15. CASE InvalidatePrizes
    BY <1>15 DEF InvalidatePrizes, Go, Announce
<1>16. CASE Unlock
    BY <1>16 DEF Unlock
<1>17. ASSUME NEW d \in Draws, OtherInstance(d)  PROVE Counts'
    BY <1>17 DEF OtherInstance, Raise
<1>18. CASE UNCHANGED vars
    BY <1>18 DEF vars
<1>19. CASE CallInvalidateRange
    BY <1>19 DEF CallInvalidateRange, Go
<1> QED
    BY <1>1, <1>2, <1>3, <1>4, <1>5, <1>6, <1>7, <1>8, <1>9, <1>10, <1>11, <1>12,
       <1>13, <1>14, <1>15, <1>16, <1>17, <1>18, <1>19
    DEF Next, Boot, Run

\* The range of a batch is open until its first row is written.
LEMMA RangedStep ==
    ASSUME TypeOK, Booted, Ranged, [Next]_vars
    PROVE  Ranged'
<1> USE SizesAssumption, CallersAssumption DEF TypeOK, Booted, Ranged, Telling, locals, ghosts
<1>1. CASE SeedOnBoot
    BY <1>1 DEF SeedOnBoot, Go, Fault, NoFault, Timed, Raise
<1>2. CASE InvalidateAll
    BY <1>2 DEF InvalidateAll, Go
<1>3. ASSUME NEW p \in Callers, CallRunOnce(p)  PROVE Ranged'
    BY <1>3 DEF CallRunOnce
<1>4. ASSUME NEW p \in Callers, Lock(p)  PROVE Ranged'
    BY <1>4 DEF Lock
<1>5. CASE Deadline
    BY <1>5 DEF Deadline
<1>6. CASE FetchLotteryData
    BY <1>6 DEF FetchLotteryData, Go
<1>7. CASE existingDrawNumbers
    BY <1>7 DEF existingDrawNumbers, Go, Fault, NoFault, Timed
<1>8. CASE InsertNewDraws
    BY <1>8, SpansCover DEF InsertNewDraws, Go, Fault, NoFault, Timed, Raise
<1>9. CASE InvalidateInserted
    BY <1>9 DEF InvalidateInserted, Go, Announce
<1>10. CASE SelectRefs
    BY <1>10 DEF SelectRefs, Go, Fault, NoFault, Timed
<1>11. ASSUME NEW d \in Draws, SkipDraw(d)  PROVE Ranged'
    BY <1>11 DEF SkipDraw, NextRef, Fault, Timed
<1>12. ASSUME NEW d \in Draws, LoseDraw(d)  PROVE Ranged'
    BY <1>12 DEF LoseDraw, NextRef, Fault, Timed, Raise
<1>13. ASSUME NEW d \in Draws, WriteDraw(d)  PROVE Ranged'
    BY <1>13, WidenCovers, DrawDateAssumption DEF WriteDraw, NextRef, NoFault, Timed, Raise
<1>14. CASE EndBatch
    BY <1>14 DEF EndBatch, Go
<1>15. CASE InvalidatePrizes
    BY <1>15 DEF InvalidatePrizes, Go, Announce
<1>16. CASE Unlock
    BY <1>16 DEF Unlock
<1>17. ASSUME NEW d \in Draws, OtherInstance(d)  PROVE Ranged'
    BY <1>17 DEF OtherInstance, Raise
<1>18. CASE UNCHANGED vars
    BY <1>18 DEF vars
<1>19. CASE CallInvalidateRange
    BY <1>19 DEF CallInvalidateRange, Go
<1> QED
    BY <1>1, <1>2, <1>3, <1>4, <1>5, <1>6, <1>7, <1>8, <1>9, <1>10, <1>11, <1>12,
       <1>13, <1>14, <1>15, <1>16, <1>17, <1>18, <1>19
    DEF Next, Boot, Run

\* A row that is written is due until an invalidation covers it.
LEMMA OwedStep ==
    ASSUME TypeOK, Booted, Ranged, Owed, [Next]_vars
    PROVE  Owed'
<1> USE SizesAssumption, CallersAssumption DEF TypeOK, Booted, Ranged, Telling, Owed, Due, Levels, Absent, NoPrizes, WithPrizes, locals, ghosts
<1>1. CASE SeedOnBoot
    BY <1>1 DEF SeedOnBoot, Go, Fault, NoFault, Timed, Raise
<1>2. CASE InvalidateAll
    BY <1>2 DEF InvalidateAll, Go
<1>3. ASSUME NEW p \in Callers, CallRunOnce(p)  PROVE Owed'
    BY <1>3 DEF CallRunOnce
<1>4. ASSUME NEW p \in Callers, Lock(p)  PROVE Owed'
    BY <1>4 DEF Lock
<1>5. CASE Deadline
    BY <1>5 DEF Deadline
<1>6. CASE FetchLotteryData
    BY <1>6 DEF FetchLotteryData, Go
<1>7. CASE existingDrawNumbers
    BY <1>7 DEF existingDrawNumbers, Go, Fault, NoFault, Timed
<1>8. CASE InsertNewDraws
    BY <1>8, SpansCover DEF InsertNewDraws, Go, Fault, NoFault, Timed, Raise
<1>9. CASE InvalidateInserted
    BY <1>9 DEF InvalidateInserted, Go, Announce
<1>10. CASE SelectRefs
    BY <1>10 DEF SelectRefs, Go, Fault, NoFault, Timed
<1>11. ASSUME NEW d \in Draws, SkipDraw(d)  PROVE Owed'
    BY <1>11 DEF SkipDraw, NextRef, Fault, Timed
<1>12. ASSUME NEW d \in Draws, LoseDraw(d)  PROVE Owed'
    BY <1>12 DEF LoseDraw, NextRef, Fault, Timed, Raise
<1>13. ASSUME NEW d \in Draws, WriteDraw(d)  PROVE Owed'
    BY <1>13, WidenCovers, DrawDateAssumption DEF WriteDraw, NextRef, NoFault, Timed, Raise
<1>14. CASE EndBatch
    BY <1>14 DEF EndBatch, Go
<1>15. CASE InvalidatePrizes
    BY <1>15 DEF InvalidatePrizes, Go, Announce
<1>16. CASE Unlock
    BY <1>16 DEF Unlock
<1>17. ASSUME NEW d \in Draws, OtherInstance(d)  PROVE Owed'
    BY <1>17 DEF OtherInstance, Raise
<1>18. CASE UNCHANGED vars
    BY <1>18 DEF vars
<1>19. CASE CallInvalidateRange
    BY <1>19 DEF CallInvalidateRange, Go
<1> QED
    BY <1>1, <1>2, <1>3, <1>4, <1>5, <1>6, <1>7, <1>8, <1>9, <1>10, <1>11, <1>12,
       <1>13, <1>14, <1>15, <1>16, <1>17, <1>18, <1>19
    DEF Next, Boot, Run

\* Rows are never removed, and a batch is selected from those without prizes.
LEMMA PresentStep ==
    ASSUME TypeOK, Present, [Next]_vars
    PROVE  Present'
<1> USE DEF TypeOK, Present, Levels, Absent, NoPrizes, WithPrizes, locals, ghosts
<1>1. ASSUME todo' \subseteq todo, NEW D, NEW level \in 1..2, UNCHANGED db \/ Raise(D, level)
      PROVE  Present'
    BY <1>1 DEF Raise
<1>2. CASE SelectRefs
    <2>1. todo' \subseteq {d \in Eligible : db[d] = NoPrizes} /\ db' = db
        BY <1>2, EligibleAssumption DEF SelectRefs, Newest
    <2> QED
        BY <2>1
<1>3. CASE SeedOnBoot \/ InsertNewDraws
    <2>1. todo' = todo /\ \E D : UNCHANGED db \/ Raise(D, NoPrizes)
        BY <1>3 DEF SeedOnBoot, InsertNewDraws
    <2> QED
        BY <1>1, <2>1
<1>4. ASSUME NEW d \in Draws, SkipDraw(d) \/ LoseDraw(d) \/ WriteDraw(d)  PROVE Present'
    <2>1. todo' \subseteq todo /\ (UNCHANGED db \/ Raise({d}, WithPrizes))
        BY <1>4 DEF SkipDraw, LoseDraw, WriteDraw
    <2> QED
        BY <1>1, <2>1
<1>5. ASSUME NEW d \in Draws, OtherInstance(d)  PROVE Present'
    <2>1. db[d] + 1 \in 1..2 /\ todo' = todo /\ Raise({d}, db[d] + 1)
        BY <1>5 DEF OtherInstance
    <2> QED
        BY <1>1, <2>1
<1>6. CASE UNCHANGED <<db, todo>> \/ (db' = db /\ todo' = {})
    BY <1>6
<1> QED
    BY <1>2, <1>3, <1>4, <1>5, <1>6
    DEF Next, Boot, Run, InvalidateAll, CallRunOnce, Lock, Deadline, FetchLotteryData,
        existingDrawNumbers, CallInvalidateRange, InvalidateInserted, EndBatch,
        InvalidatePrizes, Unlock, Announce, vars

-----------------------------------------------------------------------------

\* The inductive invariant.
THEOREM RunnerInvariant == Spec => []IInv
<1>1. IInv /\ [Next]_vars => IInv'
    BY TypeStep, BootedStep, CountsStep, RangedStep, OwedStep, PresentStep DEF IInv
<1> QED
    BY <1>1, InitInv, PTL DEF Spec

\* Every variable keeps its type, and r.mu is held by whoever is inside RunOnce.
THEOREM TypeCorrect == Spec => []TypeOK
<1>1. IInv => TypeOK
    BY DEF IInv
<1> QED
    BY <1>1, RunnerInvariant, PTL

\* A run writes less than its cap and a batch.
THEOREM RunsKeepToTheCap == Spec => []CapOvershoot
<1>1. IInv => CapOvershoot
    BY SizesAssumption DEF IInv, TypeOK, Booted, Counts, CapOvershoot, Steps
<1> QED
    BY <1>1, RunnerInvariant, PTL

\* Between runs, every row that was written and whose write was not reported as
\* an error has been covered by an InvalidateRange.
THEOREM EverythingTold == Spec => []NothingLeftUntold
<1>1. IInv => NothingLeftUntold
    BY CallersAssumption DEF IInv, TypeOK, Owed, Telling, NothingLeftUntold
<1> QED
    BY <1>1, RunnerInvariant, PTL

-----------------------------------------------------------------------------
(* The process that LotteryManager takes to write the table.                *)

\* The cache without clients and windows is empty and stays so.
LEMMA NoKeys == Cache!Keys = {} /\ Cache!Cached = {}
BY DEF Cache!Keys, Cache!Cached

\* Every state in which nothing is committed and untold looks idle.
LEMMA WriterInit == Init => Cache!Init
<1> SUFFICES ASSUME Init PROVE Cache!Init
    OBVIOUS
<1>1. writer = "boot" /\ owed = Nil
    BY DEF Init, writer, owed
<1>2. db \in [Draws -> Cache!Levels] /\ pub = [d \in Draws |-> Cache!Absent]
    BY DEF Init, Levels, Absent, Cache!Levels, Cache!Absent
<1> QED
    BY <1>1, <1>2, NoKeys DEF Cache!Init, NoOne

\* Whatever else a step does, this is all that the cache sees of it.
seen == <<db, writer, owed, pub>>

\* A step that the cache does not see.
LEMMA Unseen == UNCHANGED seen => UNCHANGED Cache!vars
BY DEF seen, Cache!vars, Cache!table, Cache!entries, Cache!callers

\* Prizes are the highest level: an update of a row is an assignment.
LEMMA RaiseOne ==
    ASSUME TypeOK, NEW d \in Draws, Raise({d}, WithPrizes)
    PROVE  db' = [db EXCEPT ![d] = WithPrizes]
<1>1. db \in [Draws -> 0..2]
    BY DEF TypeOK, Levels
<1>2. db' = [x \in Draws |-> IF x \in {d} /\ db[x] < 2 THEN 2 ELSE db[x]]
    BY DEF Raise, WithPrizes
<1>3. \A x \in Draws : db'[x] = IF x = d THEN 2 ELSE db[x]
    BY <1>1, <1>2
<1> QED
    BY <1>1, <1>2, <1>3 DEF WithPrizes

\* The steps of the writer that leave everything else of the cache alone.
LEMMA Writes ==
    ASSUME NEW R \in SUBSET Draws, NEW told \in BOOLEAN, R # {},
           told => writer = "idle",
           db' = [d \in Draws |-> IF d \in R /\ db[d] = Absent THEN NoPrizes ELSE db[d]],
           IF told THEN writer' = "inserted" /\ Spans(owed', R) ELSE UNCHANGED <<writer, owed>>,
           pub' = pub
    PROVE  Cache!Next
<1>1. Cache!InsertNewDraws(R, told)
    BY DEF Cache!InsertNewDraws, Cache!Spans, Spans, Cache!Absent, Absent, Cache!NoPrizes, NoPrizes,
       Cache!entries, Cache!callers
<1> QED
    BY <1>1 DEF Cache!Next, Cache!Writer

LEMMA Updates ==
    ASSUME NEW d \in Draws, NEW told \in BOOLEAN, db[d] # Absent,
           told => writer \in {"idle", "prizes"},
           db' = [db EXCEPT ![d] = WithPrizes],
           IF told THEN writer' = "prizes" /\ owed' = Cache!Widen(owed, DrawDate[d])
                   ELSE UNCHANGED <<writer, owed>>,
           pub' = pub
    PROVE  Cache!Next
<1>1. Cache!UpdatePrizeAmounts(d, told)
    BY DEF Cache!UpdatePrizeAmounts, Cache!Absent, Absent, Cache!WithPrizes, WithPrizes,
       Cache!entries, Cache!callers
<1> QED
    BY <1>1 DEF Cache!Next, Cache!Writer

LEMMA Calls ==
    ASSUME writer \in {"inserted", "prizes"}, writer' = "invalidating", UNCHANGED <<db, owed, pub>>
    PROVE  Cache!Next
<1>1. Cache!InvalidateRange
    BY DEF Cache!InvalidateRange, Cache!entries, Cache!callers
<1> QED
    BY <1>1 DEF Cache!Next, Cache!Writer

LEMMA Announces ==
    ASSUME writer = "invalidating", writer' = "idle", owed' = Nil, db' = db,
           pub' = [d \in Draws |-> IF InWindow(DrawDate[d], owed) THEN db[d] ELSE pub[d]]
    PROVE  Cache!Next
<1>1. Cache!InvalidateDone
    BY NoKeys DEF Cache!InvalidateDone, Cache!entries, Cache!callers, Cache!InWindow, InWindow,
       Cache!Open, Open
<1> QED
    BY <1>1 DEF Cache!Next, Cache!Writer

-----------------------------------------------------------------------------
\* A step of the boot sequence.
LEMMA BootWrites ==
    ASSUME IInv, Boot
    PROVE  Cache!Next \/ UNCHANGED Cache!vars
<1>1. CASE SeedOnBoot
    <2>1. writer = "boot" /\ writer' = "boot" /\ owed = Nil /\ owed' = Nil /\ pub' = pub
        BY <1>1 DEF SeedOnBoot, Go, writer, owed
    <2>2. CASE db' = db
        BY <2>1, <2>2, Unseen DEF seen
    <2>3. CASE db' # db
        <3>1. (\A d \in Draws : db[d] = Absent) /\ Raise(Draws, NoPrizes)
            BY <1>1, <2>3 DEF SeedOnBoot
        <3>2. db' = [d \in Draws |-> NoPrizes]
            BY <3>1 DEF Raise, Absent, NoPrizes
        <3>3. Draws # {}
            BY <2>3, <3>2 DEF IInv, TypeOK
        <3>4. Cache!SeedOnBoot(Draws)
            BY <2>1, <3>1, <3>2, <3>3 DEF Cache!SeedOnBoot, Cache!Absent, Absent, Cache!NoPrizes,
               NoPrizes, Cache!entries, Cache!callers
        <3> QED
            BY <3>4 DEF Cache!Next, Cache!Writer
    <2> QED
        BY <2>2, <2>3
<1>2. CASE InvalidateAll
    <2>1. writer = "boot" /\ writer' = "idle" /\ owed = Nil /\ owed' = Nil /\ pub' = db /\ db' = db
        BY <1>2 DEF InvalidateAll, Go, writer, owed
    <2>2. Cache!InvalidateAll
        BY <2>1, NoKeys DEF Cache!InvalidateAll, Cache!entries, Cache!callers, NoOne
    <2> QED
        BY <2>2 DEF Cache!Next, Cache!Writer
<1> QED
    BY <1>1, <1>2 DEF Boot

\* Another instance writes at any time and tells nobody.
LEMMA OthersWrite ==
    ASSUME IInv, NEW d \in Draws, OtherInstance(d)
    PROVE  Cache!Next
<1>1. UNCHANGED <<writer, owed, pub>> /\ Raise({d}, db[d] + 1) /\ db[d] \in {0, 1}
    BY DEF OtherInstance, locals, writer, owed, IInv, TypeOK, Levels, WithPrizes
<1>2. CASE db[d] = 0
    <2>1. db' = [x \in Draws |-> IF x \in {d} /\ db[x] = Absent THEN NoPrizes ELSE db[x]]
        BY <1>1, <1>2 DEF Raise, Absent, NoPrizes
    <2> QED
        BY <1>1, <2>1, Writes
<1>3. CASE db[d] = 1
    <2>1. db' = [db EXCEPT ![d] = WithPrizes]
        <3>1. Raise({d}, WithPrizes)
            BY <1>1, <1>3 DEF WithPrizes
        <3> QED
            BY <3>1, RaiseOne DEF IInv
    <2>2. db[d] # Absent /\ FALSE \in BOOLEAN
        BY <1>3 DEF Absent
    <2> QED
        BY <1>1, <2>1, <2>2, Updates
<1> QED
    BY <1>1, <1>2, <1>3

\* InsertNewDraws: what was committed is told by its range, or, when the commit
\* was reported as an error, not at all.
LEMMA InsertWrites ==
    ASSUME IInv, InsertNewDraws
    PROVE  Cache!Next \/ UNCHANGED Cache!vars
<1>1. /\ at = "insert" /\ mu # "boot" /\ writer = "idle" /\ owed = Nil /\ pub' = pub /\ mu' = mu
      /\ missing \in SUBSET Draws
    BY DEF InsertNewDraws, Go, writer, owed, IInv, TypeOK, Booted
<1>2. ASSUME Raise(missing, NoPrizes)
      PROVE  db' = [d \in Draws |-> IF d \in missing /\ db[d] = Absent THEN NoPrizes ELSE db[d]]
    <2>1. \A d \in Draws : db[d] < NoPrizes <=> db[d] = Absent
        BY DEF IInv, TypeOK, Levels, NoPrizes, Absent
    <2> QED
        BY <1>2, <2>1 DEF Raise
<1>3. CASE /\ Raise(missing, NoPrizes) /\ missing # {} /\ Spans(span', missing)
           /\ at' = "invalidateInserted"
    <2>1. writer' = "inserted" /\ owed' = span'
        BY <1>3 DEF writer, owed
    <2>2. TRUE \in BOOLEAN /\ Spans(owed', missing)
        BY <1>3, <2>1
    <2> QED
        BY <1>1, <1>2, <1>3, <2>1, <2>2, Writes
<1>4. CASE Raise(missing, NoPrizes) /\ missing # {} /\ at' = "finish"
    <2>1. writer' = "idle" /\ owed' = Nil
        BY <1>4 DEF writer, owed
    <2>2. FALSE \in BOOLEAN
        OBVIOUS
    <2> QED
        BY <1>1, <1>2, <1>4, <2>1, <2>2, Writes
<1>5. CASE (db' = db \/ (Raise(missing, NoPrizes) /\ missing = {})) /\ at' \in {"refs", "finish"}
    <2>1. writer' = "idle" /\ owed' = Nil
        BY <1>5 DEF writer, owed
    <2>2. db' = db
        BY <1>5 DEF Raise, IInv, TypeOK
    <2> QED
        BY <1>1, <2>1, <2>2, Unseen DEF seen
<1> QED
    BY <1>3, <1>4, <1>5 DEF InsertNewDraws, Go

\* A prize update: told by the range of its batch, unless it was reported as an
\* error or made at start-up.
LEMMA DrawWrites ==
    ASSUME IInv, NEW d \in Draws, SkipDraw(d) \/ LoseDraw(d) \/ WriteDraw(d)
    PROVE  Cache!Next \/ UNCHANGED Cache!vars
<1>1. /\ at = "draw" /\ at' = "draw" /\ mu' = mu /\ pub' = pub /\ d \in todo
      /\ db[d] # Absent
    BY DEF SkipDraw, LoseDraw, WriteDraw, NextRef, IInv, Present
<1>2. /\ writer \in {"idle", "prizes"}
      /\ owed = IF mu = "boot" \/ span = Unset THEN Nil ELSE span
    BY <1>1 DEF writer, owed
<1>3. CASE SkipDraw(d)
    <2>1. UNCHANGED <<db, writer, owed>>
        BY <1>1, <1>3 DEF SkipDraw, writer, owed
    <2> QED
        BY <1>1, <2>1, Unseen DEF seen
<1>4. CASE LoseDraw(d)
    <2>1. UNCHANGED <<writer, owed>> /\ Raise({d}, WithPrizes)
        BY <1>1, <1>4 DEF LoseDraw, writer, owed
    <2>2. db' = [db EXCEPT ![d] = WithPrizes] /\ FALSE \in BOOLEAN
        BY <2>1, RaiseOne DEF IInv
    <2> QED
        BY <1>1, <2>1, <2>2, Updates
<1>5. CASE WriteDraw(d)
    <2>1. span' = Widen(span, DrawDate[d]) /\ Raise({d}, WithPrizes)
        BY <1>5 DEF WriteDraw
    <2>2. db' = [db EXCEPT ![d] = WithPrizes] /\ FALSE \in BOOLEAN /\ TRUE \in BOOLEAN
        BY <2>1, RaiseOne DEF IInv
    <2>3. CASE mu = "boot"
        <3>1. UNCHANGED <<writer, owed>>
            BY <1>1, <2>3 DEF writer, owed
        <3> QED
            BY <1>1, <2>2, <3>1, Updates
    <2>4. CASE mu # "boot"
        <3>1. span' # Unset /\ span \in DateRange /\ span # Nil
            BY <2>1, WidenCovers, DrawDateAssumption, NilAssumption DEF IInv, TypeOK, Ranged
        <3>2. writer' = "prizes" /\ owed' = span'
            BY <1>1, <2>4, <3>1 DEF writer, owed
        <3>3. owed' = Cache!Widen(owed, DrawDate[d])
            BY <1>2, <2>1, <2>4, <3>1, <3>2 DEF Widen, Cache!Widen
        <3> QED
            BY <1>1, <1>2, <2>2, <3>2, <3>3, Updates
    <2> QED
        BY <2>3, <2>4
<1> QED
    BY <1>3, <1>4, <1>5

\* Both invalidations of a run take the lock and announce their range.
LEMMA RunAnnounces ==
    ASSUME IInv, CallInvalidateRange \/ InvalidateInserted \/ InvalidatePrizes
    PROVE  Cache!Next
<1>1. CASE CallInvalidateRange
    <2>1. /\ writer \in {"inserted", "prizes"} /\ writer' = "invalidating"
          /\ UNCHANGED <<db, owed, pub>>
        BY <1>1 DEF CallInvalidateRange, Go, locals, ghosts, writer, owed, IInv, Booted, Ranged, Telling
    <2> QED
        BY <2>1, Calls
<1>2. CASE InvalidateInserted \/ InvalidatePrizes
    <2>1. /\ at \in {"announceInserted", "announcePrizes"} /\ at' \in {"refs", "finish"}
          /\ db' = db
          /\ pub' = [d \in Draws |-> IF InWindow(DrawDate[d], span) THEN db[d] ELSE pub[d]]
        BY <1>2 DEF InvalidateInserted, InvalidatePrizes, Announce, Go
    <2>2. writer = "invalidating" /\ owed = span /\ writer' = "idle" /\ owed' = Nil
        BY <2>1 DEF writer, owed
    <2> QED
        BY <2>1, <2>2, Announces
<1> QED
    BY <1>1, <1>2

\* The other steps of a run and its callers are nothing to the cache.
LEMMA RunUnseen ==
    ASSUME IInv,
           \/ FetchLotteryData \/ existingDrawNumbers \/ SelectRefs \/ EndBatch \/ Unlock
           \/ Deadline \/ (\E p \in Callers : CallRunOnce(p) \/ Lock(p)) \/ UNCHANGED vars
    PROVE  UNCHANGED Cache!vars
<1> USE DEF locals, ghosts, writer, owed, Go
<1>1. CASE FetchLotteryData \/ existingDrawNumbers
    <2>1. UNCHANGED seen
        BY <1>1 DEF FetchLotteryData, existingDrawNumbers, seen
    <2> QED
        BY <2>1, Unseen
<1>2. CASE SelectRefs
    <2>1. at = "refs" /\ at' \in {"draw", "finish"} /\ span' = Unset /\ UNCHANGED <<db, pub, mu>>
        BY <1>2 DEF SelectRefs
    <2>2. UNCHANGED seen
        BY <2>1 DEF seen
    <2> QED
        BY <2>2, Unseen
<1>3. CASE EndBatch
    <2>1. /\ at = "draw" /\ UNCHANGED <<db, pub, mu, span>>
          /\ at' = IF written = 0 \/ mu = "boot" THEN "finish" ELSE "invalidatePrizes"
        BY <1>3 DEF EndBatch
    <2>2. written = 0 <=> span = Unset
        BY <2>1 DEF IInv, Ranged
    <2>3. UNCHANGED seen
        BY <2>1, <2>2 DEF seen
    <2> QED
        BY <2>3, Unseen
<1>4. CASE Unlock
    <2>1. UNCHANGED seen
        BY <1>4 DEF Unlock, seen
    <2> QED
        BY <2>1, Unseen
<1>5. ASSUME NEW p \in Callers, Lock(p)  PROVE UNCHANGED Cache!vars
    <2>1. UNCHANGED seen
        BY <1>5, CallersAssumption DEF Lock, seen, IInv, TypeOK
    <2> QED
        BY <2>1, Unseen
<1>6. CASE Deadline \/ (\E p \in Callers : CallRunOnce(p)) \/ UNCHANGED vars
    <2>1. UNCHANGED seen
        BY <1>6 DEF Deadline, CallRunOnce, vars, seen
    <2> QED
        BY <2>1, Unseen
<1> QED
    BY <1>1, <1>2, <1>3, <1>4, <1>5, <1>6

\* The runner does to the table, and announces, what LotteryManager takes its
\* writer to do: for any draws, callers, batches and failures, and with other
\* instances writing at any time.  What is proved of the cache against that
\* writer holds of the cache next to this runner.
THEOREM RunnerIsTheWriter == Spec => ImplementsWriter
<1>1. IInv /\ [Next]_vars => [Cache!Next]_(Cache!vars)
    BY BootWrites, OthersWrite, InsertWrites, DrawWrites, RunAnnounces, RunUnseen DEF Next, Run
<1> QED
    BY <1>1, WriterInit, RunnerInvariant, PTL DEF Spec, ImplementsWriter, Cache!Spec

=============================================================================
