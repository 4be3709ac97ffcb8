# stat-tree-server: TLA+ models, checks and proofs

The server keeps the draws of the Israeli lottery in a table, scrapes new draws
and their prizes into it, and answers statistics requests from in-memory
archives of date windows. This directory models the parts of it where order,
failure and sharing matter, checks them with TLC and proves the central
theorems about the archive cache and its callers, the tree the archives are made of,
the runner, the consumer, the scraper's parsers, the form generator, the key cache
and the server's lifecycle with TLAPS.

## 1. The system

| Part | State | Operations | Talks to |
|---|---|---|---|
| `LotteryManager` | LRU map window → archive, doubly linked list, in-flight loads | `Archive`, `InvalidateRange`, `InvalidateAll` | repository (one query per load); called by every RPC and by the runner |
| `ScraperRunner`, seeders | a mutex held over a whole run | `RunOnce`, `SeedMissingPrizes`, `SeedLotteryData` | scraper pages, repository, manager; called by cron, consumer and start-up |
| `ScraperConsumer` | Redis stream, group, pending list, status hashes; stop and done channels | `Start`, `DrainPending`, `loop`, `ProcessMessage`, `Stop` | Redis, `RunOnce` |
| Repository | table `lottery_results` | range query, insert of missing draws, prize update, backfill query | Postgres |
| `LotteryArchive`, `LoTree` | immutable once built | ranking, winning combinations, statistics, scoring | – |
| `FormGenerator` | candidate list, pinned prefix, branching flag, results | `Generate` | an archive |
| `LotteryService` | none | `GenerateForm`, `GetStatistics`, `Analyze`, `ScoreForm`, `Simulate` | manager, archive |
| `AuthMiddleware`, JWKS cache | key map, fetch time | token check, refresh | key server |
| Pais scraper | none | `FetchLotteryData`, `FetchPrizeAmounts` | pais.co.il; called by runner and seeders |
| `Server` | sub-servers, cron goroutine | `NewServer`, `Start`, `Stop` | all of them |
| gRPC and gateway servers | listeners, the gateway's client connection | `Start`, `Stop` | the handlers; REST requests reach them over gRPC |
| Configuration, pool | environment, pgx pool | `Load`, `NewDatabase`, `Close` | everything that runs a statement |
| Clients, generated code, migrations | – | – | – |

What is hard, and what makes each part correct:

* **Manager.** Callers read an entry's `done` field without the lock, loads run
  outside it, and invalidations arrive in between. It is correct when nothing
  stale stays cached or reaches a call that began after the invalidation, when a
  window is loaded once, the list matches the map, and every call ends.
* **Runner.** Two goroutines share a mutex; every statement may fail, also after
  it has taken effect; other instances write the same table. It is correct when
  each write it knows of is followed by an invalidation that covers it, when the
  prize loop ends near its cap, and the backlog drains.
* **Consumer.** Processes crash between Redis commands whose errors are ignored,
  and all instances share one consumer name. It is correct when a request is
  scraped at most once and is settled in the end, and when what was settled
  stays so.
* **Form generator.** A recursion permutes one list in place and shares a flag
  with all its calls. It is correct when it undoes what it swaps, keeps the
  requested numbers, repeats nothing, and ends.
* **Archive and its queries.** A prefix tree counts every group of every draw and
  is walked with whatever the client sent; the backtest joins two windows and
  sums tiers, prizes and draws. They are correct when the tree agrees with plain
  counting, rankings and analyses are complete, and totals add up.
* **Key cache.** Requests share a lazily created cache whose write lock is held
  while the key server is asked, and the realm changes its keys meanwhile. It is
  correct when withdrawn keys expire, new ones arrive, and a crowd of requests
  causes one fetch.
* **Handlers.** An archive is shared by calendar day, built for whoever came first,
  and invalidated by instant. A handler is right when what it gets fits the window
  it asked for, and when the cache keeps to its cap.
* **Pais scraper.** It counts labels and looks ahead over a page nobody promises to
  keep. It is right when a whole table is read exactly and an incomplete one is
  noticed, and when a file is read as a whole or not at all.
* **Lifecycle.** A signal meets runs, requests and listeners at any step. `Stop` is
  right when nothing that it waits for meets a closed pool, when only the deadline
  cuts a request off, and when it returns.

## 2. Modules

| Module | Models | Correspondence |
|---|---|---|
| `DateWindows` | `normalizeWindow`, `windowKey`, `rangesOverlap`, the range query | Instants are naturals, `Open` = 0 is the zero time, a day has `TicksPerDay` of them; keys are by day, comparisons by instant |
| `ArchiveReads` | the promise of `Archive` to its callers | abstract specification: table, announced level, calls |
| `LotteryManager` | `lottery_manager.go`, the writes that reach it | `cache`, `lru` = map and list; `phase` = `done` and `err` of an entry; `arch`; `pc` and `ent` per caller; `writer` is the runner, reduced to what it commits and announces |
| `MCLotteryManager` | – | draws, windows and symmetry for TLC |
| `ArchiveService`, `MCArchiveService` | the helper `archive` of `lottery_service.go` with the manager below it | `asked` is the window a caller named, which the manager forgets; `overlapped` is history |
| `LotteryManagerProofs` | – | theorems about `LotteryManager`, its refinement of `ArchiveReads`, and `ArchiveService` |
| `ScraperRunner`, `MCScraperRunner` | `scrape_runner.go`, both seeders, the repository calls, the boot sequence and the cron | `mu` holder, `at` step, the locals of `RunOnce` and of the prize batch; `ImplementsWriter` maps it to the writer of `LotteryManager` |
| `ScraperRunnerProofs` | – | theorems about `ScraperRunner` |
| `PaisScraper`, `MCPaisScraper` | `pais_scraper.go` | a page is its sequence of labels, a file its sequence of records; `i` is the loop's position |
| `PaisScraperProofs` | – | theorems about `PaisScraper` |
| `ScraperConsumer` | `scrape_consumer.go` | Redis keys as variables, `pc` and message in hand per instance |
| `ScraperConsumerProofs` | – | theorems about `ScraperConsumer` |
| `FormGenerator` | `form_generator.go`, the ranking and the winning combinations of an archive | `tries`, `skip`, `caseL` as in the code; `stack` is the call stack of `search` |
| `FormGeneratorProofs` | – | theorems about `FormGenerator` |
| `LotteryTree` | `node.go`, `tree.go`, the queries of `lottery_archive.go` | a trie is a function from paths of numbers to counts; `Build` is the set of the calls it makes, each named by the positions in the form that led to it; the recursions are those of the code |
| `Simulate` | `simulate.go` | operators; windows as in `DateWindows`, amounts whole numbers |
| `ArchiveQueries`, `MCArchiveQueries` | the read-only RPCs of `lottery_service.go` | `request`, `status` and `answer` of one RPC; `arch` grows draw by draw |
| `ArchiveQueriesProofs` | – | what the recursions of `Build` and of the queries compute; theorems about the tree and the answers, backtests and heat included |
| `JwksCache` | the key cache of `auth.go` | `jwks`, `keys`, `fetchedAt`, `lock` as in the code, `pc` per request, a clock in ticks |
| `JwksCacheProofs` | – | theorems about `JwksCache` |
| `ServerLifecycle` | `main.go`, `config.go`, `server.go` of startup, `grpc.go`, `gateway.go`, `postgres.go` | `main` is the step of the main goroutine; `run` per background goroutine, `req` per request |
| `ServerLifecycleProofs` | – | theorems about `ServerLifecycle` |

Conventions. A step is one critical section, one database statement or
transaction, one Redis command, one draw counted into a tree, or one call or
return of `search`. `InvalidateRange` is several steps under one lock, as its loop runs in the map's
random order; in the runner, which does not see the map, it is the call and its end.
The writer of `LotteryManager` also covers rows that are written and never announced,
at any time: by other instances, or by a statement that reported an error. The table is reduced to a *level* per draw (absent, without
prizes, with prizes); levels only rise, because inserts skip existing rows and
the backfill fills NULLs. Definitions that carry a comment beginning with
"Mutant" are plausible bugs: each property is shown to fail when one of them
takes the place of the real definition.

Unlocked reads are modelled by what a build may do: `ReadDone` may keep the
value of `e.done` for the `select`, or `ReadDoneAgain` loads it once more.

Ambiguous outcomes are steps of their own: a commit that took effect but was
reported as failed, a row stream that breaks off unnoticed (the code never asks
`rows.Err`), a Redis reply lost after the command was carried out.

## 3. Runs

| Run | Shows | Distinct states |
|---|---|---|
| `manager_safety` | `CacheFresh`, `AnswersFresh`, `ListIsCache`, `OneLoadUnlessTorn`, `NoResurrection`, and that the manager implements `ArchiveReads` | 4 M |
| `manager_calls` | Every call that loads or waits ends (`CallsEnd`) | 1 M |
| `service` | `AnswersWhatWasAsked`, `CapUnlessOverlapped` | 4.3 M |
| `runner` | `TypeOK`, `NothingLeftUntold`, `CapOvershoot`, `CallsReturn`, `BacklogDrains`, and that the runner implements the manager's writer | 180 k |
| `consumer` | `TypeOK`, `RunAtMostOnce`, `AnswersStand`, `StopReturns`, `RequestsSettle` | 660 k |
| `lifecycle` | `TypeOK`, `PoolOutlivesUsers`, `CutOffOnlyByDeadline`, `StopReturns` | 650 k |
| `jwks` | `TypeOK`, `WithdrawnKeysExpire`, `PublishedKeysArrive`, `FetchesApart` | 6.6 M |
| `scraper` | `PrizePageRead`, `DrawsFileRead` | 740 k |
| `forms` | `TypeOK`, `DistinctForms`, `WillBeInEveryForm`, `OnlyFirstChoiceHasWon`, `Terminates` | 325 k |
| `queries` | `GroupCounts`, `BestGroups`, `AnalysisExact`, `HeatAverages`, `BacktestExact` | 178 k |

What the properties say, where the names do not:

* `NothingLeftUntold`: between runs, every row written, and not reported as an
  error, has been covered by an invalidation. `CapOvershoot`: a run updates less
  than its cap and one batch. `ImplementsWriter`: what the runner does to the
  rows, and the order and range of its announcements, is what `LotteryManager` takes
  its `writer` to do.
* `GroupCounts`: at any point of the build, the tree holds exactly the groups of the
  draws counted so far, each with the number of draws that contain it; likewise for
  the strong numbers.
* `AnswersStand`: an acknowledged request has a terminal status.
  `RequestsSettle`: every request gets one once the instances stay up.
* `AnswersWhatWasAsked`: no draw from outside the window that was asked for, every
  draw inside as it was announced before the call; the first and the last calendar
  day of the window are the exception.
* `PoolOutlivesUsers`: no handler meets a closed pool and the consumer has ended
  when it is closed. `CutOffOnlyByDeadline`: no gRPC handler is ever cut off, and a
  REST request only after the 10 s.
* `PrizePageRead`: a whole regular table, with at most two other labels between a
  tier and its amount, is read exactly, whatever follows it; and no page is accepted
  with a tier that has no amount within reach, unless a tier's label is repeated.
* `BacktestExact`: the draws played are those of the window asked for, and tiers,
  totals and per-draw prizes agree with counting.

Two runs check what a comment of the code says and the code does not do; TLC finds
the behaviour.

| Run | Text | What happens |
|---|---|---|
| `manager_nil` | `lottery_service.go:51` "callers never proceed against a nil/invalid archive" | a waiter that reads `done` after a failed load was published gets a nil archive and no error |
| `manager_single_flight` | `lottery_manager.go:30` "built once, not once per racing caller" | the failed load of an invalidated entry deletes the entry of the load that followed it |

`ListIsCache` and `OneLoadUnlessTorn` hold as long as `torn` is false, that is,
as long as `remove` was applied to cached entries only. The code does not keep
to that (`moveToFront` of an entry invalidated meanwhile, the error path of a
dropped entry); `manager_single_flight` shows where it leads. Freshness
(`CacheFresh`, `AnswersFresh`) is checked and proved with a torn list included.

What the code does besides, and the models show without a run of its own:

* The cache keeps more than `maxCacheEntries` archives after overlapping misses,
  for there is one eviction per miss and none while the tail loads
  (`CapUnlessOverlapped` says when it holds).
* Two windows that differ within a day share one archive, the one of whoever came
  first.
* A consumer instance that starts marks the request a live one has in hand
  interrupted; the live one's answer overwrites that later.
* A batch of unreadable newest pages hides every older draw from the backfill
  (`BacklogDrains` asks for fewer of them than a batch), and the prize loop passes
  its cap by up to a batch less one.
* A key published after the last fetch is refused as unknown while the cache is
  fresh, although `get` asks for a refresh (`PublishedKeysArrive` gives the bound).
* A form in another than ascending order loses the groups that descend in it in
  `Analyze` and `ScoreForm`.
* A window of a single draw hands out that draw: `Generate` ignores the verdict of
  `search`, and the first choice goes through although it has won.
* A backtest of draws older than the default start finds none when the archive
  window has no lower bound, and a form of six with a duplicate is accepted and
  plays nothing.
* A prize page that repeats one tier's label and lacks another's is taken for
  complete, with a tier at zero; a tier that lost its own labels takes its
  neighbour's. A file of eight columns panics.
* An empty `LOTTERY_SCRAPER_CRON` becomes the default schedule, although
  `config.go:52` says "Empty = no scheduled refresh".
* A listener that cannot listen is only logged; a signal before `signal.Notify`
  ends the process where it stands.
* During `Stop`, REST requests become unavailable while the gRPC server drains and
  after the gateway's connection is closed; the cron's run is not waited for, and
  its next statement finds a closed pool.

### Bounds

* Manager: `manager_safety` and the runs next to it have two callers (three in
  `manager_single_flight`), one draw, two windows that both hold it, a cache of
  one (of two in `manager_single_flight`), and two or three entries in a
  behaviour (`Entries`): a dropped entry, its successor and a third are what the
  races need. Windows outside an affected range do not occur there; that what is
  left alone is fresh is the theorem `CacheIsFresh`, for any windows and draws.
  `EmptyCommits = FALSE`, in all runs but `manager_nil`, leaves out commits that
  change no row, which only add invalidations of what has not changed (the
  theorems take both). Callers and entries are symmetric in the safety runs
  only.
* Service: six windows, five of which end on days 1 to 3 with two instants a day, so
  that two pairs share a key; the draw falls on the second instant of day 2, where
  the first window of a pair leaves it out and the second does not. Two callers, two
  entries and a cache of one: a shared archive, an eviction and an invalidation of
  it. That more callers change nothing is the theorem `AskedIsAnswered`.
* Runner: four draws of which the newest never parses, batches of two, a cap of
  two, two failures (`MaxFaults`; another instance's write and an expired
  deadline count as one). Two batches pass the cap, so the overshoot happens.
* Consumer: two instances, two messages that may share an id or lack one,
  two troubles (`MaxTroubles`: crash, stop, lost command).
* Forms: numbers 1..4, draws of two, forms of two and three (plain and
  systematic), every set of winning combinations, both modes, lists of up to
  three requested numbers (`MaxWanted`, duplicates and unranked ones included;
  longer than a form, too), up to three forms (`HowMany`).
* Queries: every table of four draws of four numbers out of five, one of them
  older than the default start and with a sixth number; six windows for the
  archive and for the backtest; forms in and out of order, with duplicates, with
  numbers never drawn, systematic and too long. Four instead of six numbers keep
  all eight tiers and all depths of the tree.
* Scraper: whole pages of eight tiers with and without the first labels of a
  double-lotto table and with unwon tiers, with up to two labels lost, repeated or
  added anywhere; files of up to four records of every kind, of seven to ten
  columns.
* Lifecycle: every environment, two requests over either server, runs of up to two
  statements (`MaxStatements`), any failure at start. Deadlock is not checked: the
  process ends.
* Keys: two requests, two keys, up to two cache objects, a TTL of two ticks and
  fetches of up to one (`FetchTime`), one rotation (`MaxRotations`), a clock that
  stops at four (`MaxTime`): time for a fetch, its expiry and a second fetch, with
  the rotation anywhere. Requests, keys and objects are symmetric.

### Fairness

* `LotteryManager!FairSpec`: a goroutine that can go on does, the holder of the
  lock finishes, a query returns (with rows or an error). Nothing is assumed of
  clients or of the writer, nor that a `ctx` ends: hence the exception of
  `waitnil` in `CallsEnd`. The lock is free whenever the finite loop of
  `InvalidateRange` is not under way; weak fairness of `Touch` and of
  publication relies on invalidations not arriving for ever, which holds in the
  model because levels only rise, and in the code because a run takes seconds.
* `ScraperRunner!Spec`: the goroutine inside `RunOnce` goes on, the cron ticks
  again, and Go's mutex hands over to a starving waiter (strong fairness of
  `Lock`). Failures are bounded; `BacklogDrains` asks that fewer draws than a
  batch be unreadable, which is what the code needs.
* `ScraperConsumer!Spec`: a live loop goes on. A restart is not assumed:
  `RequestsSettle` is conditional on every instance staying up from some time on.
* `FormGenerator!Spec`: the one goroutine runs.
* `ServerLifecycle!Spec`: the steps of `Stop` and of the goroutines go on, handlers
  return, the timer of `Stop` fires, and Go's mutex serves a starving waiter
  (`Lock`). Nothing is assumed of clients, nor of a request that is held in the
  gateway: `StopReturns` rests on the deadline there.
* `ArchiveService`, `ArchiveQueries`, `PaisScraper` and `JwksCache` state safety only. That a request which queues
  for the cache's lock gets its turn rests on Go's mutex and on the timeout of the
  fetch, which `Tick` respects.

## 4. Proofs

Eight modules hold theorems. Each speaks of any finite or infinite sets of callers,
entries, windows, keys, instances and requests, of any caps and times, of pages and
files of any length, and of lotteries and requests of any size,
under the assumptions the models name and TLC evaluates (`…Assumption`); the ones
that say more than the type of a constant are that a cache, a day, a batch and a cap are
at least one, that draws are finite in number (runner, queries) and have distinct dates
(runner), that the numbers of a draw ascend, that a lottery has other than three numbers
and more than one strong one (`NewLoNodeWithParent` sizes smaller tries by another
rule), that a draw has two numbers at least (`ScoreForm` reads its pairs), that a form has at
least the numbers of a draw, that strong numbers and scraped prizes are natural (`prizeRE`
takes digits and commas), that the forms and the prize amounts clients send are lists of
integers and requested windows ranges of dates, and that `Nil` is none of the
values it is compared with.

The invariants are proved alike: a lemma for the initial states, a lemma per conjunct
of `IInv` or per group of actions, with a step per action in it, and the theorem by
`PTL`. The invariants that runs check are
seldom inductive; what had to be added is this.

* **`LotteryManagerProofs`**, freshness: `TypeCorrect`, `FreshCorrect`, `CacheIsFresh`,
  `AnswersAreFresh`, `NoEntryReturns`. `CacheFresh` alone is not inductive: a load in
  flight has no result yet, an invalidation compares ranges that must be known, and
  a waiter's entry may have left the map. `FreshInv` adds `RangesKnown`,
  `HistoryOrdered` (floor ≤ announced ≤ table), `UnbuiltEmpty` and `CallsFresh` (a
  caller's entry is fresh enough for it from the moment it has a result, cached or
  not). The heart is `SharedDateOverlaps`: a window and a range that share a date
  overlap, so what `InvalidateRange` leaves in the map has nothing to do with the
  draws it announces.
* **`LotteryManagerProofs`**, calls and list: `Refinement` maps every step to a step of
  `ArchiveReads` or a stutter. It needs, besides freshness, `RowsBounded` (an archive
  shows nothing the table does not), `Placed` (an entry lies under the key of its
  window) and `Led` (one call loads an entry, and no call returns with it before).
  With `LoadsCached` (a load is found under its key unless it was dropped) these
  also give `LoadsAreShared`, and with `Driven` (a load in flight has a call that
  carries it out, evicted and invalidated ones included) `NobodyWaitsForNothing`,
  which is what safety can say of `CallsEnd`. For `ListStaysCache`, `WellLinked` says that every cached
  entry is its neighbours' neighbour and that every set which holds the head and is
  closed under `next` holds all cached entries. The second half puts "reached from
  the head" without an induction over the list.
* **`LotteryManagerProofs`**, handlers: `AskedIsAnswered` from `KeyAsAsked` (what a caller holds
  lies under the key of the window it asked for) and `SameKeySameDraws` (windows
  with one key differ on the days at their edges only), which rests on
  `DayMonotone`. `CapIsKept` from `HeldCapped`, a count that an eviction pays for.
  The steps of the service are steps of the manager (`ServiceSteps`), so all of
  the manager's theorems carry over.
* **`ArchiveQueriesProofs`**, the build: `TreeCountsGroups`, that is `GroupCounts` for every lottery
  and table. `GroupCounts` is inductive once the draws to come are draws of the table
  (`DrawsListed`); the work is what one round of the build does, a recursion over the
  numbers of a draw. `Below` says without recursion which calls are made
  below a call: the sequences of positions whose numbers fit one after the other. It
  solves the equation of the recursion (`BelowUnfolds`), and by induction over what is
  left of `howMany` nothing else does (`BuildCalls`). The induction is `SetInduction`:
  the numbers for which a claim holds are a set that has zero and the
  successors of its elements, hence all of them. It then remains that the calls of a
  draw are its groups, each spelled by one call only (`CallsAreGroups`,
  `GroupsAreCalled`), although the draw may have numbers the lottery has no more.
* **`ArchiveQueriesProofs`**, the answers: `BestAreAnswered`, `AnalysesAreExact`, for the
  archive that `GroupCounts` describes. `AnswersInv` adds to it that only
  requests are answered and that the draws of an archive are draws of the table; each answer
  is then right when it is given. A walk over the tree goes
  to longer paths only, so its equation has a solution (`DescentSolved`), and what it
  collects are the nodes below its start, each once (`Collected`); a form's walk
  finds the paths made of its numbers in their order (`Looked`), which is why the claim
  is about ascending forms. Lists are put together without repetition (`Flattened`) and
  sorted by places: the place of a node is how many come before it (`SortedByCount`).
  What the answers say of *sets* follows because every drawn set has one path and every
  path one set (`GroupOfSet`, `OneGroupOfSet`).
* **`ArchiveQueriesProofs`**, the sums: `BacktestsAreExact` and `HeatIsAverage` compare what
  the code adds up round by round with what choosing counts. The sums of the models are the
  folds of the community modules over functions, whose recursion has a solution
  (`SumSolved`, `DescentSolved` again); from it follow, by induction over finite sets
  (`SubsetInduction`), that another element adds its summand (`SumAdds`), and what sums are
  worked with: `SumPlus`, `SumTimes`, `SumRenamed`, `SumListed`, and that a table's rows and columns
  add up to the same (`SumSwaps`). `Ways(n, k)` is the number of subsets of size k of n
  elements; Pascal's triangle holds for them (`WaysSum`), hence the factors of the loop
  of `binomialCount`, which divides after each factor and loses nothing by it
  (`BinomialCounts`).
* **`ArchiveQueriesProofs`**, the backtest. `Selecting` says that the draws counted and to
  come are the rows of the archive's window, `WindowKept` what the loop of
  `filterDrawsByWindow` leaves of them, and `DatePlayed` that the union of two windows
  contains what the second selects. `CombinationsPlayed`: the positive
  numbers sent, without duplicates, sorted and cut, are the least ones, and
  `generateCombinations` makes all their combinations. `TierCounted`: those that match m numbers
  of a draw are a choice of m of the numbers drawn and one of the rest. `TotalsAgree`: draws that
  won nothing may be left out, and amounts per draw and per tier are the rows and columns of
  one table. The state is no part of this but for `Selecting`: `AddsUp` speaks of any list
  of draws.
* **`ArchiveQueriesProofs`**, heat. A form is a set of numbers in its one ascending order
  (`LinesAreSets`), so each pair is in equally many forms of a length (`LinesWithPair`). The
  hits of a form are the sum over the pairs in it of how often they were drawn
  (`PairHits`, from `AnalyzedInOrder` and `TreeOfDrawn`); over all forms that is each pair as often
  as any other (`LinesWeighed`), over all draws it is the pairs of each draw (`PairsDrawn`), and the
  factor is the one that weighing every pair with one shows (`LinesAndPairs`). No
  inductive invariant is needed besides `AnswersInv`.
* **`ScraperRunnerProofs`**: `TypeCorrect` (with mutual exclusion),
  `RunsKeepToTheCap`, `EverythingTold`. `Counts` relates the counters to the step of
  the prize loop, `Ranged` says that the range to invalidate exists as soon as a row
  was written and ends at draws of the table, `Owed` that every row is announced, lost with its error, or in that
  range, `Present` that prizes are fetched for rows that exist, and `Booted` that only
  the start seeds. `RunnerIsTheWriter` maps every step of the runner to a step of
  the `writer` of `LotteryManager`, or a stutter, and so ties the two components
  together: what is proved of the cache is proved of this writer.
* **`PaisScraperProofs`**: `TypeCorrect`, `PagesReadRight`, `FilesReadWhole`.
  `TiersCounted`: the tiers found are the tier labels passed that had winners and an
  amount in reach. `TableFollowed`: of a whole table, those whose labels are
  behind, in order, each with its own figures; that a label of the table looks ahead to
  its own fields, and none outside it is counted, follows from where the table's labels
  stand (`Positions`), which rests on the rank of a label among them (`Ranks`: the rank of an
  element in a finite set of numbers orders the set) and not on an induction over the page. A page accepted has eight of them, so with
  no label repeated all tiers are there. `RecordsKept`: the draws are the good
  records behind, and the result is dropped with the first ragged or malformed one.
* **`ScraperConsumerProofs`**: `TypeCorrect`, `RunsOnce`, `AnswersLast`. `HandsApart`:
  no two instances hold one message. `RunsCounted`: a message in hand before its run
  has not been run. `DrainsSeen`, `EventsLast`, `OverAnswered` and `RunningOpen`
  follow a status from its first command to its last: behind every `running` there
  is a message that is not over, or whose command was lost.
* **`FormGeneratorProofs`**: `TypeCorrect`, `FormsDiffer`, `RequestedAreIn`,
  `WonFormsAreFirst`. `Requested` and `Candidates`: the list stays an arrangement of
  the ranking. `Calls`: a call that swapped had two places to swap, and starts no
  further than the form is long when the requested numbers fit. `Placing`: a pinned
  number is in front or still to be placed. Two conjuncts speak of lists that the
  program does not keep. `Undone`: there are the lists which the open calls found,
  each call's swap leads from its own to the next one's, so a search that fails is
  back at the first. `Traced`: there are the lists that the rounds of `regroup` make,
  the same for every form, so all forms of a request have one first choice. Both
  are existential, and a step names the next list: no induction over a list or a
  stack is needed.
* **`JwksCacheProofs`**: `TypeCorrect`, `WithdrawnExpire`, `PublishedArrive`,
  `FetchesLieApart`. `Holding` ties locks to fetches, `Timely` bounds a fetch and
  recalls how old the cache was when it began, `BodyRecent` and `KeysRecent` date
  the difference between what is cached and what is published.
* **`ServerLifecycleProofs`**: `TypeCorrect`, `PoolOutlives`, `OnlyDeadlineCutsOff`.
  `Goroutines`, `Handlers` and `Leftovers` say for each step of `main` which
  goroutines run, which listeners take requests and what is left of them.

Only model-checked: liveness (`CallsEnd`, `CallsReturn`, `BacklogDrains`, both
`StopReturns`, `RequestsSettle`, `Terminates`), which is beyond the prover. Every
invariant and every action property of a passing run is a theorem.

## 5. Not modelled, and what the models leave out

* Generated code, clients, migrations, headers and CORS, the swagger file, connection
  strings: text and wiring. `HealthCheck` counts rows.
* Regular expressions, digits, dates and the CSV reader are abstracted to whether a
  label or a record matches and whether its fields parse. `ScraperRunner` sees a
  fetch that succeeds or fails, and pages that never parse.
* In `ServerLifecycle` a run is a number of statements and an RPC at most one query;
  what they do is `ScraperRunner`'s, `ScraperConsumer`'s and `LotteryManager`'s.
* `Create`, `CreateBatch`, `Update`, `Delete` and the single-row getters of the
  repository have no concurrent caller, most of them none at all.
* Tokens are the id of their key: signature, issuer and audience are checked by a
  library or by pure comparisons.
* Heat is kept as a fraction of integers; floating-point rounding, labels, and
  conversions to protobuf are left out.
* The models take the seed-on-boot path; with `SEED_ON_BOOT` off the server
  starts with what the table holds, which the initial states include.
* `ForceSeedLotteryData` has no caller in the server.
* The consumer chooses the outcome of `RunOnce` when it reports it; the runner
  has its own module. TTLs of Redis keys and progress events are left out.
* A truncated query result (`BuildTruncated`) is cached by the code. The
  freshness properties speak of complete archives.
* Rows written by another instance, or by a statement whose error came after its
  effect, are never announced to this instance's cache. The properties exempt
  them by name (`told`, `lost`).
* In `FormGenerator` the step `panic` is an index out of range: with more ranked
  requested numbers than a form holds the recursion can run past the list.
  `WillBeInEveryForm` shows that it cannot while they fit.

## 6. Plan

Done: `DateWindows`, `LotteryManager` with `ArchiveReads` and their refinement,
`ArchiveService`, `ScraperRunner` and its refinement of the manager's writer,
`ScraperConsumer`, `PaisScraper`, `FormGenerator`, `JwksCache`, `LotteryTree`,
`Simulate`, `ArchiveQueries`, `ServerLifecycle`; theorems about all of them.

Next, in this order:

1. `ScraperConsumer` with the phase field and its progress events, and with
   `RunOnce` of `ScraperRunner` in place of its outcome; end-to-end freshness of an
   RPC after a completed run.
2. Liveness of the key cache's lock under the fairness of Go's mutex.
