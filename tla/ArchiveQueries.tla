--------------------------- MODULE ArchiveQueries ---------------------------
(***************************************************************************)
(* One read-only RPC of LotteryService (lottery_service.go, simulate.go):   *)
(* the window is resolved, the archive is built from the table draw by      *)
(* draw, and the request is answered from it.  Loads, sharing and staleness *)
(* of archives are LotteryManager's subject; here the table stands still.   *)
(***************************************************************************)
EXTENDS LotteryTree, Simulate

CONSTANTS
    AllDraws,     \* records [date, numbers, strong, prizes]
    Windows,      \* date windows of requests, None included
    Forms,        \* sequences of numbers sent by clients to be analysed
    PlayedForms,  \* and to be played
    Overrides,    \* prize amounts sent by clients, None included
    Costs,        \* ticket costs sent by clients
    MaxHowMany    \* longest list asked for (bound)

ASSUME SameSizeAssumption == DrawSize = MaxGroupSize
ASSUME FormsAssumption == Forms \union PlayedForms \subseteq Seq(Int)
ASSUME OverridesAssumption == Overrides \subseteq {None} \union [Tiers -> Int]
ASSUME WindowsAssumption == Windows \subseteq DateRange \union {None} /\ None \notin DateRange

Ascends(form) == \A j, k \in DOMAIN form : j < k => form[j] < form[k]
ASSUME DrawsAssumption ==
    /\ IsFiniteSet(AllDraws)
    /\ \A d \in AllDraws :
        /\ d.date \in Nat \ {0} /\ d.strong \in Nat
        /\ d.numbers \in [1..DrawSize -> Nat] /\ Ascends(d.numbers)
        /\ d.prizes = None \/ d.prizes \in [Tiers -> Nat]

VARIABLES
    table,     \* lottery_results
    request,   \* what was asked
    todo,      \* selected draws that NewLotteryArchive has yet to count
    arch,      \* the archive
    status,    \* idle, build, ok, rejected
    answer

vars == <<table, request, todo, arch, status, answer>>

EmptyArchive == [draws |-> <<>>, trie |-> EmptyTrie, strongs |-> EmptyTrie]

Requests ==
    [op : {"Analyze", "ScoreForm"}, window : Windows, form : Forms]
        \union [op : {"GetStatistics"}, window : Windows, size : 0..MaxGroupSize + 1,
                howMany : 0..MaxHowMany, weak : BOOLEAN]
        \union [op : {"GenerateForm"}, window : Windows, weak : BOOLEAN]
        \union [op : {"Simulate"}, window : Windows, simulate : Windows, form : PlayedForms,
                strong : 0..1, overrides : Overrides, cost : Costs]

Init ==
    /\ table \in SUBSET AllDraws
    /\ request = None /\ todo = <<>> /\ arch = EmptyArchive
    /\ status = "idle" /\ answer = None

-----------------------------------------------------------------------------
\* The window of the archive that answers a request.
ArchiveWindow(r) ==
    LET w == IF r.op = "Simulate" THEN unionWindows(r.window, r.simulate) ELSE r.window
    IN  normalizeWindow(windowFromProto(w))

\* GetByDateRange: the draws of a window, ORDER BY draw_date.
Selected(w) == {d \in table : InWindow(d.date, w)}
Ordered(D) ==
    {s \in [1..Cardinality(D) -> D] : \A j, k \in DOMAIN s : j < k => s[j] # s[k] /\ s[j].date <= s[k].date}

\* GetStatistics looks at the group size before it asks for an archive.
Ask(r) ==
    /\ status = "idle"
    /\ request' = r
    /\ IF r.op = "GetStatistics" /\ r.size > MaxGroupSize
       THEN status' = "rejected" /\ UNCHANGED todo
       ELSE status' = "build" /\ todo' \in Ordered(Selected(ArchiveWindow(r)))
    /\ UNCHANGED <<table, arch, answer>>

\* One round of NewLotteryArchive.
AddDraw ==
    /\ status = "build" /\ todo # <<>>
    /\ todo' = Tail(todo)
    /\ arch' = [draws   |-> Append(arch.draws, Head(todo)),
                trie    |-> AddNumbers(arch.trie, Head(todo).numbers),
                strongs |-> AddStrong(arch.strongs, Head(todo).strong)]
    /\ UNCHANGED <<table, request, status, answer>>

Built(op) == status = "build" /\ todo = <<>> /\ request.op = op

Answer(a) ==
    /\ status' = "ok" /\ answer' = a
    /\ UNCHANGED <<table, request, todo, arch>>

Reject ==
    /\ status' = "rejected"
    /\ UNCHANGED <<table, request, todo, arch, answer>>

\* Zero stands for a group size or a number of groups that was left out.
GetStatistics ==
    /\ Built("GetStatistics")
    /\ LET size == IF request.size = 0 THEN 2 ELSE request.size
           howMany == IF request.howMany = 0 THEN 10 ELSE request.howMany
       IN  Answer(TopGroups(arch.trie, howMany, size, request.weak))

\* What the form generator takes from the archive; the search is FormGenerator's.
GenerateForm ==
    /\ Built("GenerateForm")
    /\ Answer([ranked |-> RankNumbers(arch.trie, Len(arch.draws), request.weak),
               strong |-> TopStrong(arch.strongs, request.weak)])

Analyze ==
    /\ Built("Analyze")
    /\ Answer(AnalyzeArray(arch.trie, request.form))

Score ==
    /\ Built("ScoreForm")
    /\ IF Len(request.form) < 2 THEN Reject
       ELSE Answer(ScoreForm(arch.trie, Len(arch.draws), request.form))

RunBacktest ==
    /\ Built("Simulate")
    /\ IF Len(Counted(request.form)) < DrawSize THEN Reject
       ELSE Answer(Backtest(arch.draws, request.simulate, request.form, request.strong,
                            request.overrides, request.cost))

Answered == status \in {"ok", "rejected"} /\ UNCHANGED vars

Next ==
    \/ \E r \in Requests : Ask(r)
    \/ AddDraw \/ GetStatistics \/ GenerateForm \/ Analyze \/ Score \/ RunBacktest
    \/ Answered

Spec == Init /\ [][Next]_vars

-----------------------------------------------------------------------------
(* Properties.                                                              *)

\* What an archive is made of, and that a node exists only once it was counted.
TypeOK ==
    /\ table \subseteq AllDraws
    /\ request \in Requests \union {None}
    /\ status \in {"idle", "build", "ok", "rejected"}
    /\ ToSet(arch.draws) \union ToSet(todo) \subseteq table
    /\ \A node \in DOMAIN arch.trie : Len(node) \in 1..MaxGroupSize /\ arch.trie[node] > 0

\* The reference: draws of the archive that contain a group.
Containing(G) == {k \in DOMAIN arch.draws : G \subseteq ToSet(arch.draws[k].numbers)}
StrongTimes(n) == Cardinality({k \in DOMAIN arch.draws : arch.draws[k].strong = n})
Drawn == {G \in SUBSET (1..MaxNumber) : Cardinality(G) \in 1..MaxGroupSize /\ Containing(G) # {}}

\* The trie holds the groups that were drawn, each under its ascending path and
\* with the number of draws that contain it, at any point of the build and
\* although old draws have numbers the lottery has no more; likewise for the strong
\* numbers, of which the tree keeps two more than the current game has.
Groups == UNION {{g \in [1..size -> 1..MaxNumber] : Ascends(g)} : size \in 1..MaxGroupSize}
GroupCounts ==
    /\ TypeOK
    /\ arch.trie = [g \in {g \in Groups : Containing(ToSet(g)) # {}} |-> Cardinality(Containing(ToSet(g)))]
    /\ arch.strongs = [node \in {<<n>> : n \in {n \in 1..MaxStrong + 2 : StrongTimes(n) > 0}} |->
                         StrongTimes(node[1])]

\* No group that was left out is more frequent (in mode weak: rarer) than one
\* that was returned, and the list is as long as it can be; likewise for the
\* ranking of the numbers and for the strong number, which is one of the
\* current game's whenever those were drawn at all.
RanksBefore(a, b) == IF request.weak THEN a <= b ELSE a >= b
Times(G) == Cardinality(Containing(G))
BestGroups ==
    /\ status = "ok" /\ request.op = "GetStatistics" =>
        LET size == IF request.size = 0 THEN 2 ELSE request.size
            howMany == IF request.howMany = 0 THEN 10 ELSE request.howMany
            all == {G \in Drawn : Cardinality(G) = size}
            listed == {ToSet(answer[k]) : k \in DOMAIN answer}
        IN  /\ listed \subseteq all
            /\ Cardinality(listed) = Len(answer)
            /\ Len(answer) = Min({howMany, Cardinality(all)})
            /\ \A G \in listed, H \in all \ listed : RanksBefore(Times(G), Times(H))
    /\ status = "ok" /\ request.op = "GenerateForm" =>
        /\ \A j, k \in DOMAIN answer.ranked : j < k =>
            RanksBefore(Times({answer.ranked[j]}), Times({answer.ranked[k]}))
        /\ \A n \in 1..MaxNumber :
            (n \in ToSet(answer.ranked)) = (arch.draws = <<>> \/ Times({n}) > 0)
        /\ \A n \in 1..MaxStrong : StrongTimes(n) > 0 =>
            /\ answer.strong \in 1..MaxStrong /\ StrongTimes(answer.strong) > 0
            /\ RanksBefore(StrongTimes(answer.strong), StrongTimes(n))

\* "Forms of any length are accepted and every subset up to size 6 is reported"
\* (lottery_service.go:187).  Of the subsets that were drawn this holds for
\* forms in ascending order only: AnalysisExact asks it of those.
Reported(G) == \E k \in DOMAIN answer[Cardinality(G)] : ToSet(answer[Cardinality(G)][k]) = G
EverySubsetReported ==
    status = "ok" /\ request.op = "Analyze" =>
        \A G \in Drawn : G \subseteq ToSet(request.form) => Reported(G)

\* For an ascending form the analysis is complete, lists nothing twice and
\* nothing that was not drawn, and the most frequent groups come first.
AnalysisExact ==
    status = "ok" /\ request.op = "Analyze" /\ Ascends(request.form) =>
        /\ EverySubsetReported
        /\ \A size \in 1..MaxGroupSize :
            /\ \A k \in DOMAIN answer[size] :
                ToSet(answer[size][k]) \in {G \in Drawn : G \subseteq ToSet(request.form)}
            /\ \A j, k \in DOMAIN answer[size] : j < k =>
                /\ answer[size][j] # answer[size][k]
                /\ arch.trie[answer[size][j]] >= arch.trie[answer[size][k]]

\* "A heat of 100 is exactly average" (lottery_archive.go:202): over all forms
\* of a length, observed and expected pair hits add up to the same, as long as
\* no draw has numbers beyond the lottery's.
HeatAverages ==
    LET forms == {f \in [1..Len(request.form) -> 1..MaxNumber] : Ascends(f)}
        score(f) == ScoreForm(arch.trie, Len(arch.draws), f)
    IN  status = "ok" /\ request.op = "ScoreForm"
            /\ (\A k \in DOMAIN arch.draws : ToSet(arch.draws[k].numbers) \subseteq 1..MaxNumber)
        => SumFunction([f \in forms |-> score(f).observed * score(f).per])
             = SumFunction([f \in forms |-> score(f).expected])

\* The draws that are played are those of the requested window, also where it
\* goes beyond the archive's, except that an archive window without a lower
\* bound begins at the default start.
PlayedWindow ==
    status = "ok" /\ request.op = "Simulate" =>
        LET asked == IF request.simulate = None THEN request.window ELSE request.simulate
            openStart == Open \in {windowFromProto(w).from : w \in {request.window, request.simulate} \ {None}}
                            \/ asked = None
        IN  answer.played = Cardinality({d \in table :
                /\ InWindow(d.date, windowFromProto(asked))
                /\ openStart => d.date >= DefaultStart})

\* The tiers against counting without playing: of a form with h numbers that
\* were drawn and r that were not, C(h, m) * C(r, DrawSize - m) combinations
\* match m numbers; and nothing is lost between draws, tiers and total.
TiersAddUp ==
    status = "ok" /\ request.op = "Simulate" =>
        LET sent == {n \in ToSet(request.form) : n > 0}
            form == {n \in sent : Cardinality({j \in sent : j < n}) < MaxFormSize}
            draws == IF request.simulate = None THEN arch.draws
                     ELSE filterDrawsByWindow(arch.draws, request.simulate)
            h(d) == Cardinality(form \intersect ToSet(d.numbers))
            r(d) == Cardinality(form \ ToSet(d.numbers))
            expected(m, strong) ==
                SumFunction([k \in DOMAIN draws |->
                    IF (request.strong > 0 /\ draws[k].strong = request.strong) = strong
                    THEN binomialCount(h(draws[k]), m) * binomialCount(r(draws[k]), DrawSize - m)
                    ELSE 0])
        IN  /\ \A m \in DrawSize - 3..DrawSize :
                /\ answer.tierHits[2 * (DrawSize - m) + 1] = expected(m, TRUE)
                /\ answer.tierHits[2 * (DrawSize - m) + 2] = expected(m, FALSE)
            /\ answer.won = SumFunction(answer.tierTotal)
            /\ answer.won = SumFunction([k \in DOMAIN answer.draws |-> answer.draws[k].won])

\* A backtest plays the draws of the window that was asked for, and what it says
\* they won is what counting finds.
BacktestExact == PlayedWindow /\ TiersAddUp
=============================================================================
