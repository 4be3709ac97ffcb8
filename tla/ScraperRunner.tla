--------------------------- MODULE ScraperRunner ---------------------------
(***************************************************************************)
(* The process that writes lottery_results: seed-on-boot, and RunOnce       *)
(* (internal/services/scrape_runner.go) called by the cron goroutine and by *)
(* the Redis consumer, with the repository and prize-seeder calls it makes  *)
(* and what each of them reports when it fails.                             *)
(*                                                                          *)
(* One step is one database statement or transaction, one page fetch with   *)
(* the update it leads to, or one end of an InvalidateRange.  RunOnce holds  *)
(* r.mu from start to end, so a single set of locals serves whichever call  *)
(* holds it.                                                                *)
(* Another instance of the server may write the same table.                 *)
(***************************************************************************)
EXTENDS DateWindows, FiniteSets

CONSTANTS
    Callers,         \* goroutines that call RunOnce: the cron and the consumer
    Cron,            \* the one whose ctx has a deadline
    Draws,
    DrawDate,        \* [Draws -> instants], all different
    Eligible,        \* draws the backfill query selects
    Unparsable,      \* draws whose prize page never yields a table
    BatchSize,       \* prizeBackfillBatchSize
    MaxPerRun,       \* maxPrizeBackfillPerRun
    MaxFaults,       \* failures a behaviour may contain (bound)
    Nil

ASSUME DrawDateAssumption ==
    /\ DrawDate \in [Draws -> Nat \ {0}]
    /\ \A d, e \in Draws : DrawDate[d] = DrawDate[e] => d = e
ASSUME EligibleAssumption == Eligible \subseteq Draws /\ Unparsable \subseteq Draws
ASSUME SizesAssumption == BatchSize \in Nat \ {0} /\ MaxPerRun \in Nat \ {0} /\ MaxFaults \in Nat
ASSUME DrawsAssumption == IsFiniteSet(Draws)
ASSUME CallersAssumption == Cron \in Callers /\ Nil \notin Callers \cup {"boot"} /\ "boot" \notin Callers
ASSUME NilAssumption == Nil \notin DateRange

Levels == 0..2
Absent == 0
NoPrizes == 1
WithPrizes == 2

VARIABLES
    db,        \* level of each draw, as in LotteryManager
    mu,        \* who is inside RunOnce (or the boot sequence), or Nil
    at,        \* where it stands: see Steps
    missing,   \* draws existingDrawNumbers did not find
    todo,      \* refs still to do in this prize batch
    written,   \* rows this batch has written
    total,     \* rows this run has written
    span,      \* [minDate, maxDate] so far, Unset while both are zero
    state,     \* of each caller: idle, waiting for r.mu, running
    expired,   \* callers whose ctx has ended
    faults,    \* failures so far
    clean,     \* history: no failure since this run began
    pub,       \* history: level up to which invalidations have been made
    lost       \* history: draws whose last write nobody will be told of

locals == <<missing, todo, written, total, span>>
ghosts == <<faults, clean, pub, lost>>
vars == <<db, mu, at, locals, state, expired, ghosts>>

Unset == [from |-> Open, to |-> Open]

Steps == {"none", "seed", "invalidateAll", "fetch", "existing", "insert",
          "invalidateInserted", "announceInserted", "refs", "draw",
          "invalidatePrizes", "announcePrizes", "finish"}

TypeOK ==
    /\ db \in [Draws -> Levels]
    /\ mu \in Callers \union {"boot", Nil}
    /\ at \in Steps
    /\ missing \subseteq Draws /\ todo \subseteq Draws
    /\ written \in Nat /\ total \in Nat
    /\ span \in DateRange
    /\ state \in [Callers -> {"idle", "waiting", "running"}]
    /\ expired \subseteq Callers
    /\ faults \in 0..MaxFaults
    /\ clean \in BOOLEAN
    /\ pub \in [Draws -> Levels]
    /\ lost \subseteq Draws
    /\ at = "none" <=> mu = Nil
    /\ \A p \in Callers : state[p] = "running" <=> mu = p

Init ==
    /\ db \in [Draws -> Levels]
    /\ mu = "boot" /\ at = "seed"
    /\ missing = {} /\ todo = {} /\ written = 0 /\ total = 0 /\ span = Unset
    /\ state = [p \in Callers |-> "idle"]
    /\ expired = {}
    /\ faults = 0 /\ clean = TRUE
    /\ pub = [d \in Draws |-> Absent]
    /\ lost = {}

-----------------------------------------------------------------------------
(* Vocabulary of the steps.                                                 *)

Go(step) == at' = step /\ UNCHANGED <<mu, state, expired>>

\* A step that fails uses up one of the failures a behaviour may contain; a
\* caller whose ctx has ended fails at every statement without using one.
Timed == mu \in expired
Fault ==
    /\ faults' = IF Timed THEN faults ELSE faults + 1
    /\ faults' <= MaxFaults
    /\ clean' = FALSE
NoFault == ~Timed /\ UNCHANGED <<faults, clean>>

\* Mutant: ON CONFLICT DO UPDATE.
RaiseOver(D, level) == db' = [d \in Draws |-> IF d \in D THEN level ELSE db[d]]

Raise(D, level) == db' = [d \in Draws |-> IF d \in D /\ db[d] < level THEN level ELSE db[d]]

\* Mutant: the range reported is that of the last row only.
WidenLast(r, t) == [from |-> t, to |-> t]

Widen(r, t) ==
    IF r = Unset THEN [from |-> t, to |-> t]
    ELSE [from |-> IF t < r.from THEN t ELSE r.from,
          to |-> IF t > r.to THEN t ELSE r.to]

Spans(r, D) ==
    \E lo, hi \in D :
        /\ \A d \in D : DrawDate[lo] <= DrawDate[d] /\ DrawDate[d] <= DrawDate[hi]
        /\ r = [from |-> DrawDate[lo], to |-> DrawDate[hi]]

\* InvalidateRange(span) takes the lock of the cache ...
CallInvalidateRange ==
    /\ \/ at = "invalidateInserted" /\ Go("announceInserted")
       \/ at = "invalidatePrizes" /\ Go("announcePrizes")
    /\ UNCHANGED <<db, locals, ghosts>>

\* ... and returns: every window that holds a draw of the range is gone.  An open
\* range is all of time.
Announce ==
    /\ pub' = [d \in Draws |-> IF InWindow(DrawDate[d], span) THEN db[d] ELSE pub[d]]
    /\ lost' = {d \in lost : ~InWindow(DrawDate[d], span)}
    /\ span' = Unset

-----------------------------------------------------------------------------
(* NewServer, before anything is served.                                    *)

\* SeedLotteryData: only an empty table is filled, in one transaction.  Every
\* failure is logged and start-up goes on.
SeedOnBoot ==
    /\ at = "seed"
    /\ \/ /\ \E d \in Draws : db[d] # Absent
          /\ NoFault /\ UNCHANGED db
       \/ /\ \A d \in Draws : db[d] = Absent
          /\ NoFault /\ Raise(Draws, NoPrizes)
       \/ Fault /\ UNCHANGED db
    /\ Go("invalidateAll")
    /\ UNCHANGED <<locals, pub, lost>>

\* Nothing is cached yet.  One prize batch follows, which tells nobody.
InvalidateAll ==
    /\ at = "invalidateAll"
    /\ pub' = db
    /\ lost' = {}
    /\ Go("refs")
    /\ UNCHANGED <<db, locals, faults, clean>>

-----------------------------------------------------------------------------
(* RunOnce.                                                                 *)

\* The server has started: the cron ticks, or a message was read.  The cron's
\* 150 s begin here, before r.mu is taken.
CallRunOnce(p) ==
    /\ mu # "boot"
    /\ state[p] = "idle"
    /\ state' = [state EXCEPT ![p] = "waiting"]
    /\ UNCHANGED <<db, mu, at, locals, expired, ghosts>>

Deadline ==
    /\ state[Cron] # "idle"
    /\ Cron \notin expired
    /\ faults < MaxFaults
    /\ faults' = faults + 1
    /\ expired' = expired \union {Cron}
    /\ UNCHANGED <<db, mu, at, locals, state, clean, pub, lost>>

\* Mutant: no mutual exclusion.
LockAnyway(p) ==
    /\ state[p] = "waiting"
    /\ mu # "boot"
    /\ mu' = p
    /\ state' = [state EXCEPT ![p] = "running"]
    /\ at' = "fetch"
    /\ clean' = TRUE
    /\ UNCHANGED <<db, locals, expired, faults, pub, lost>>

Lock(p) ==
    /\ state[p] = "waiting"
    /\ mu = Nil
    /\ mu' = p
    /\ state' = [state EXCEPT ![p] = "running"]
    /\ at' = "fetch"
    /\ clean' = TRUE
    /\ UNCHANGED <<db, locals, expired, faults, pub, lost>>

\* The page fetch takes no ctx: a deadline that has passed does not stop it.
FetchLotteryData ==
    /\ at = "fetch"
    /\ \/ Go("existing") /\ UNCHANGED <<faults, clean>>
       \/ faults < MaxFaults /\ faults' = faults + 1 /\ clean' = FALSE /\ Go("finish")
    /\ UNCHANGED <<db, locals, pub, lost>>

\* A failure is an error, or rows that break off unnoticed (rows.Err): then
\* draws that exist are taken for missing.
existingDrawNumbers ==
    LET absent == {d \in Draws : db[d] = Absent}
    IN  /\ at = "existing"
        /\ \/ NoFault /\ missing' = absent /\ Go("insert")
           \/ Fault /\ Go("finish") /\ UNCHANGED missing
           \/ Fault /\ Go("insert") /\ \E S \in SUBSET Draws : missing' = absent \union S
        /\ UNCHANGED <<db, todo, written, total, span, pub, lost>>

\* One transaction.  Its error may come after the database has committed.
InsertNewDraws ==
    /\ at = "insert"
    /\ \/ /\ NoFault
          /\ Raise(missing, NoPrizes)
          /\ IF missing = {} THEN Go("refs") /\ UNCHANGED span
             ELSE Spans(span', missing) /\ Go("invalidateInserted")
          /\ UNCHANGED lost
       \/ Fault /\ Go("finish") /\ UNCHANGED <<db, span, lost>>
       \/ /\ Fault /\ Go("finish") /\ UNCHANGED span
          /\ Raise(missing, NoPrizes)
          /\ lost' = lost \union {d \in missing : db[d] = Absent}
    /\ missing' = {}
    /\ UNCHANGED <<todo, written, total, pub>>

InvalidateInserted ==
    /\ at = "announceInserted"
    /\ Announce
    /\ Go("refs")
    /\ UNCHANGED <<db, missing, todo, written, total, faults, clean>>

\* ORDER BY draw_date DESC LIMIT BatchSize.
Newest(D) ==
    {d \in D : Cardinality({x \in D : DrawDate[x] > DrawDate[d]}) < BatchSize}

\* GetDrawsWithoutPrizeRefs.  An error and an empty batch both end the loop; a
\* row stream that breaks off gives part of the batch.
SelectRefs ==
    LET batch == Newest({d \in Eligible : db[d] = NoPrizes})
    IN  /\ at = "refs"
        /\ \/ NoFault /\ todo' = batch
           \/ Fault /\ todo' \in SUBSET batch
        /\ IF todo' = {} THEN Go("finish") ELSE Go("draw")
        /\ written' = 0 /\ span' = Unset
        /\ UNCHANGED <<db, missing, total, pub, lost>>

\* The next ref of the batch: its page is fetched, then its row is updated.
NextRef(d) == at = "draw" /\ d \in todo /\ \A x \in todo : DrawDate[x] <= DrawDate[d]

\* Mutant: the first failure ends the batch.
SkipDrawAndRest(d) ==
    /\ NextRef(d)
    /\ todo' = {}
    /\ IF d \in Unparsable THEN UNCHANGED <<faults, clean>> ELSE Fault
    /\ UNCHANGED <<db, mu, at, state, expired, missing, written, total, span, pub, lost>>

\* Either failed: it is logged and the loop goes on.
SkipDraw(d) ==
    /\ NextRef(d)
    /\ todo' = todo \ {d}
    /\ IF d \in Unparsable THEN UNCHANGED <<faults, clean>> ELSE Fault
    /\ UNCHANGED <<db, mu, at, state, expired, missing, written, total, span, pub, lost>>

\* The update was applied and its error came after that.
LoseDraw(d) ==
    /\ NextRef(d) /\ d \notin Unparsable
    /\ todo' = todo \ {d}
    /\ Fault
    /\ Raise({d}, WithPrizes)
    /\ lost' = lost \union {d}
    /\ UNCHANGED <<mu, at, state, expired, missing, written, total, span, pub>>

\* Written; at start-up the batch's range goes to nobody.
WriteDraw(d) ==
    /\ NextRef(d) /\ d \notin Unparsable
    /\ todo' = todo \ {d}
    /\ NoFault
    /\ Raise({d}, WithPrizes)
    /\ written' = written + 1
    /\ span' = Widen(span, DrawDate[d])
    /\ lost' = IF mu = "boot" THEN lost \union {d} ELSE lost
    /\ UNCHANGED <<mu, at, state, expired, missing, total, pub>>

\* Mutant: a batch that wrote nothing does not end the loop.
EndBatchAlways ==
    /\ at = "draw" /\ todo = {}
    /\ total' = total + written
    /\ Go(IF mu = "boot" THEN "finish" ELSE "invalidatePrizes")
    /\ UNCHANGED <<db, missing, todo, written, span, ghosts>>

\* SeedMissingPrizes returns.  RunOnce stops when nothing was written; the boot
\* sequence makes one batch and passes its range to nobody.
EndBatch ==
    /\ at = "draw" /\ todo = {}
    /\ total' = total + written
    /\ Go(IF written = 0 \/ mu = "boot" THEN "finish" ELSE "invalidatePrizes")
    /\ UNCHANGED <<db, missing, todo, written, span, ghosts>>

\* Mutant: no cap on the run.
InvalidatePrizesUncapped ==
    /\ at = "announcePrizes"
    /\ Announce
    /\ Go("refs")
    /\ UNCHANGED <<db, missing, todo, written, total, faults, clean>>

InvalidatePrizes ==
    /\ at = "announcePrizes"
    /\ Announce
    /\ Go(IF total < MaxPerRun THEN "refs" ELSE "finish")
    /\ UNCHANGED <<db, missing, todo, written, total, faults, clean>>

\* RunOnce returns (or NewServer goes on) and the locals are gone.
Unlock ==
    /\ at = "finish"
    /\ at' = "none"
    /\ mu' = Nil
    /\ state' = [p \in Callers |-> IF p = mu THEN "idle" ELSE state[p]]
    /\ expired' = expired \ {mu}
    /\ missing' = {} /\ todo' = {} /\ written' = 0 /\ total' = 0 /\ span' = Unset
    /\ UNCHANGED <<db, ghosts>>

-----------------------------------------------------------------------------
(* Another instance inserts a draw or fills in its prizes.                  *)
OtherInstance(d) ==
    /\ db[d] # WithPrizes
    /\ faults < MaxFaults
    /\ faults' = faults + 1
    /\ Raise({d}, db[d] + 1)
    /\ lost' = lost \union {d}
    /\ UNCHANGED <<mu, at, locals, state, expired, clean, pub>>

Run ==
    \/ FetchLotteryData
    \/ existingDrawNumbers
    \/ InsertNewDraws
    \/ CallInvalidateRange
    \/ InvalidateInserted
    \/ SelectRefs
    \/ \E d \in Draws : SkipDraw(d) \/ LoseDraw(d) \/ WriteDraw(d)
    \/ EndBatch
    \/ InvalidatePrizes
    \/ Unlock

Boot == SeedOnBoot \/ InvalidateAll

Next ==
    \/ Boot
    \/ \E p \in Callers : CallRunOnce(p) \/ Lock(p)
    \/ Deadline
    \/ Run
    \/ \E d \in Draws : OtherInstance(d)

\* The goroutines are scheduled, the mutex hands over to a starving waiter,
\* and the cron ticks again and again.
Spec ==
    /\ Init /\ [][Next]_vars
    /\ WF_vars(Boot) /\ WF_vars(Run)
    /\ WF_vars(CallRunOnce(Cron))
    /\ \A p \in Callers : SF_vars(Lock(p))

-----------------------------------------------------------------------------
(* Properties.                                                              *)

\* When nobody is inside RunOnce, every row this process wrote has been
\* covered by an InvalidateRange, whatever failed on the way: except rows
\* whose write was reported as an error or made before anybody could read.
NothingLeftUntold == mu = Nil => \A d \in Draws \ lost : pub[d] = db[d]

\* A run never begins a batch once it has written its cap, so that it stops
\* within one batch of it.
CapOvershoot ==
    mu # "boot" =>
        /\ at = "draw" => total < MaxPerRun
        /\ total < MaxPerRun + BatchSize

\* The runner is the process that LotteryManager takes to write the table: what it
\* does to the rows, in which order it commits and announces, and the range it
\* announces after each commit, are what the cache is checked against, also when
\* statements fail or report failure after they were committed, and while other
\* instances write.  The cache is empty here, and without clients.
writer ==
    CASE at \in {"seed", "invalidateAll"} -> "boot"
      [] at = "invalidateInserted" -> "inserted"
      [] at \in {"draw", "invalidatePrizes"} /\ mu # "boot" /\ span # Unset -> "prizes"
      [] at \in {"announceInserted", "announcePrizes"} -> "invalidating"
      [] OTHER -> "idle"
owed == IF writer \in {"boot", "idle"} THEN Nil ELSE span
NoOne == [x \in {} |-> Nil]
Cache == INSTANCE LotteryManager WITH
    Clients <- {}, Entries <- {}, Windows <- {}, MaxCacheEntries <- 1, EmptyCommits <- TRUE,
    cache <- NoOne, lru <- [head |-> Nil, tail |-> Nil, prev |-> NoOne, next |-> NoOne],
    window <- NoOne, phase <- NoOne, arch <- NoOne, pc <- NoOne, ent <- NoOne, floor <- NoOne,
    dropped <- {}, torn <- FALSE
ImplementsWriter == Cache!Spec

\* Every call returns: the prize loop ends, the lock is handed on.
CallsReturn == \A p \in Callers : state[p] # "idle" ~> state[p] = "idle"

\* As long as fewer draws than a batch have unreadable pages, every draw the
\* backfill can read has its prizes in the end: neither failures nor a short
\* run starve the old ones.
Reachable == Eligible \ Unparsable
BacklogDrains ==
    Cardinality(Unparsable \intersect Eligible) < BatchSize =>
        \A d \in Reachable : <>[](db[d] = WithPrizes)
=============================================================================
