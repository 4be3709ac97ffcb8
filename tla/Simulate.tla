------------------------------ MODULE Simulate ------------------------------
(***************************************************************************)
(* The backtest of a form against draws (internal/services/simulate.go):    *)
(* which draws are played, with which combinations, and what they win.      *)
(* Amounts are whole numbers; a draw is a record of the table.              *)
(***************************************************************************)
EXTENDS DateWindows, Integers, FiniteSetsExt, SequencesExt

CONSTANTS
    DrawSize,        \* numbers in a draw and in a combination: 6
    MaxFormSize,     \* longest systematic form: 12
    DefaultPrizes,   \* [Tiers -> Nat], defaultPrizeAmounts
    DefaultCost,     \* defaultTicketCost
    None             \* no window, no prizes, no overrides

Tiers == 1..8

ASSUME PrizesAssumption == DefaultPrizes \in [Tiers -> Nat] /\ DefaultCost \in Nat \ {0}
ASSUME SimulateSizesAssumption == DrawSize \in Nat \ {0} /\ MaxFormSize \in Nat

windowFromProto(w) == IF w = None THEN [from |-> Open, to |-> Open] ELSE w

\* Mutant: an open bound is taken for the earliest date.
unionWindowsOpenIsZero(a, b) ==
    IF a = None THEN b
    ELSE IF b = None THEN a
    ELSE [from |-> IF b.from < a.from THEN b.from ELSE a.from,
          to   |-> IF b.to > a.to THEN b.to ELSE a.to]

\* An open bound wins.
unionWindows(a, b) ==
    IF a = None THEN b
    ELSE IF b = None THEN a
    ELSE [from |-> IF b.from = Open \/ (a.from # Open /\ b.from < a.from) THEN b.from ELSE a.from,
          to   |-> IF b.to = Open \/ (a.to # Open /\ b.to > a.to) THEN b.to ELSE a.to]

\* The loops that append what passes a test: the elements of a list that are in T.
Passing(s, T) ==
    LET kept[k \in 0..Len(s)] ==
            IF k = 0 THEN <<>> ELSE IF s[k] \in T THEN Append(kept[k - 1], s[k]) ELSE kept[k - 1]
    IN  kept[Len(s)]

filterDrawsByWindow(draws, w) == Passing(draws, {d \in ToSet(draws) : InWindow(d.date, w)})

\* Numbers that are not positive are dropped before the form is counted, and
\* duplicates after; a number's place is behind those that are less.
Counted(form) == Passing(form, {n \in ToSet(form) : n > 0})
dedupAndSort(form) ==
    LET numbers == ToSet(form)
    IN  [k \in 1..Cardinality(numbers) |->
            CHOOSE n \in numbers : 1 + Cardinality({j \in numbers : j < n}) = k]

generateCombinations(form) ==
    kSubset(DrawSize, ToSet(SubSeq(form, 1, Min({MaxFormSize, Len(form)}))))

\* Mutant: four matches with the strong number pay like four without.
matchToTierFour(matches, strongMatched) ==
    IF matches \notin DrawSize - 3..DrawSize THEN 0
    ELSE 2 * (DrawSize - matches) + (IF strongMatched /\ matches # DrawSize - 2 THEN 1 ELSE 2)

matchToTier(matches, strongMatched) ==
    IF matches \notin DrawSize - 3..DrawSize THEN 0
    ELSE 2 * (DrawSize - matches) + (IF strongMatched THEN 1 ELSE 2)

\* A user's amount over the draw's own over the default.
drawPrizes(draw, overrides) ==
    [t \in Tiers |->
        IF overrides # None /\ overrides[t] >= 0 THEN overrides[t]
        ELSE IF draw.prizes # None THEN draw.prizes[t] ELSE DefaultPrizes[t]]

simulateDraw(draw, combinations, strong, overrides) ==
    LET strongMatched == strong > 0 /\ strong = draw.strong
        matches(c) == Cardinality(c \intersect ToSet(draw.numbers))
        hits == [t \in Tiers |->
                    Cardinality({c \in combinations : matchToTier(matches(c), strongMatched) = t})]
        prizes == drawPrizes(draw, overrides)
    IN  [draw |-> draw, hits |-> hits,
         won |-> SumFunction([t \in Tiers |-> hits[t] * prizes[t]])]

\* The summary, and the draws that won something.
Summary(results, draws, n, cost, overrides) ==
    LET each == DOMAIN results
    IN  [draws     |-> Passing(results, {r \in ToSet(results) : r.won > 0}),
         played    |-> Len(draws),
         combinations |-> Len(draws) * n,
         spent     |-> Len(draws) * n * cost,
         won       |-> SumFunction([k \in each |-> results[k].won]),
         tierHits  |-> [t \in Tiers |-> SumFunction([k \in each |-> results[k].hits[t]])],
         tierTotal |-> [t \in Tiers |-> SumFunction([k \in each |->
                           results[k].hits[t] * drawPrizes(results[k].draw, overrides)[t]])],
         real      |-> Cardinality({k \in DOMAIN draws : draws[k].prizes # None})]

\* Simulate, once the archive is there.
Backtest(archived, window, form, strong, overrides, ticketCost) ==
    LET draws == IF window = None THEN archived ELSE filterDrawsByWindow(archived, window)
        combinations == generateCombinations(dedupAndSort(Counted(form)))
        results == [k \in DOMAIN draws |-> simulateDraw(draws[k], combinations, strong, overrides)]
        cost == IF ticketCost <= 0 THEN DefaultCost ELSE ticketCost
    IN  Summary(results, draws, Cardinality(combinations), cost, overrides)
=============================================================================
