---------------------------- MODULE PaisScraper ----------------------------
(***************************************************************************)
(* internal/scraper/pais_scraper.go: one fetch from pais.co.il, either of   *)
(* the file of all draws (FetchLotteryData, parseCSV, parseRecord) or of    *)
(* the prize page of one draw (FetchPrizeAmounts, parsePrizeHTML).          *)
(*                                                                          *)
(* A prize page is the sequence of its aria-labels in document order and    *)
(* the two advertised prizes its text names (0: none).  A label is a tier,  *)
(* a number of winners, an amount, or something else; the regular           *)
(* expressions and the digits behind them are abstracted to that.  A record *)
(* of the file is what becomes of it: its fields parse or they do not.      *)
(***************************************************************************)
EXTENDS Integers, Sequences, FiniteSets

CONSTANTS
    Pages,        \* sequences of labels
    Adverts,      \* <<first, second>> advertised prizes
    Files,        \* sequences of records, the first of which is the header
    Widths        \* numbers of columns of a file

\* A label, with the fields its kind has.
Labels == [kind : {"tier"}, num : Nat, strong : BOOLEAN]
            \union [kind : {"winners", "amount"}, value : Nat]
            \union [kind : {"other"}]

Records == {"good", "badField", "badStrong", "malformed", "ragged"}

ASSUME PagesAssumption == Pages \subseteq Seq(Labels)
ASSUME AdvertsAssumption == Adverts \subseteq Nat \X Nat
ASSUME FilesAssumption == Files \subseteq Seq(Records) /\ Widths \subseteq Nat

VARIABLES
    job,          \* "page" or "file"
    page, advert, \* what FetchPrizeAmounts gets
    file, width,  \* what FetchLotteryData gets
    outcome,      \* "fetching", "parsing", "ok", "error", "panic"
    i,            \* the label or record to look at next
    tierAmounts, tierWinners, tiersFound,
    results       \* positions of the records that became draws

input == <<job, page, advert, file, width>>
prizes == <<tierAmounts, tierWinners, tiersFound>>
vars == <<input, outcome, i, prizes, results>>

Tiers == 0..7
None == [t \in Tiers |-> 0]

Init ==
    /\ \/ /\ job = "page" /\ page \in Pages /\ advert \in Adverts
          /\ file = <<>> /\ width = 0
       \/ /\ job = "file" /\ file \in Files /\ width \in Widths
          /\ page = <<>> /\ advert = <<0, 0>>
    /\ outcome = "fetching"
    /\ i = 1
    /\ tierAmounts = None /\ tierWinners = None /\ tiersFound = 0
    /\ results = <<>>

\* The request: it may fail, or be answered with another status than 200.
Fetch ==
    /\ outcome = "fetching"
    /\ outcome' \in {"parsing", "error"}
    /\ UNCHANGED <<input, i, prizes, results>>

-----------------------------------------------------------------------------
(* parsePrizeHTML. *)

\* 6+strong is 0, 6 is 1, down to 3 which is 7; other tiers have no index.
tierLabelToIndex(num, strong) ==
    IF num \in 3..6 THEN 2 * (6 - num) + (IF strong THEN 0 ELSE 1) ELSE -1

TierOf(label) == IF label.kind = "tier" THEN tierLabelToIndex(label.num, label.strong) ELSE -1

\* Mutant: only the two labels a tier should have are looked at.
LookAheadTwo(kind, k) ==
    LET J == {j \in k + 1..k + 2 : j <= Len(page) /\ page[j].kind = kind}
    IN  IF J = {} THEN -1 ELSE page[CHOOSE j \in J : \A m \in J : j <= m].value

\* The first label of a kind among the four that follow k: its value, or -1.
LookAhead(kind, k) ==
    LET J == {j \in k + 1..k + 4 : j <= Len(page) /\ page[j].kind = kind}
    IN  IF J = {} THEN -1 ELSE page[CHOOSE j \in J : \A m \in J : j <= m].value

\* A label is a tier of its own as soon as winners and amount are found, no
\* matter whether they belong to it or whether the tier has been seen before.
ParseLabel ==
    /\ job = "page" /\ outcome = "parsing"
    /\ i <= Len(page) /\ tiersFound < 8
    /\ LET t == TierOf(page[i])
           winners == LookAhead("winners", i)
           amount == LookAhead("amount", i)
       IN  IF t >= 0 /\ winners >= 0 /\ amount >= 0
           THEN /\ tierWinners' = [tierWinners EXCEPT ![t] = winners]
                /\ tierAmounts' = [tierAmounts EXCEPT ![t] = amount]
                /\ tiersFound' = tiersFound + 1
           ELSE UNCHANGED prizes
    /\ i' = i + 1
    /\ UNCHANGED <<input, outcome, results>>

\* Unwon first and second prizes are replaced by the advertised ones.
Advertised(t, amount) ==
    IF t \in {0, 1} /\ tierWinners[t] = 0 /\ advert[t + 1] > 0 THEN advert[t + 1] ELSE amount

PageEnds ==
    /\ job = "page" /\ outcome = "parsing"
    /\ i > Len(page) \/ tiersFound = 8
    /\ IF tiersFound < 8
       THEN outcome' = "error" /\ UNCHANGED tierAmounts
       ELSE /\ outcome' = "ok"
            /\ tierAmounts' = [t \in Tiers |-> Advertised(t, tierAmounts[t])]
    /\ UNCHANGED <<input, i, tierWinners, tiersFound, results>>

-----------------------------------------------------------------------------
(* parseCSV. *)

\* A file without any record is a file without draws.
ReadHeader ==
    /\ job = "file" /\ outcome = "parsing" /\ i = 1
    /\ IF file # <<>> /\ file[1] = "malformed"
       THEN outcome' = "error" /\ UNCHANGED i
       ELSE i' = 2 /\ UNCHANGED outcome
    /\ UNCHANGED <<input, prizes, results>>

\* Mutant: a field that does not parse leaves a zero.
parseRecordLenient(r) ==
    CASE width < 8 -> "skip"
      [] width = 8 -> "panic"
      [] OTHER -> "draw"

\* The length check asks for 8 columns, the strong number is in the ninth.
parseRecord(r) ==
    CASE width < 8 \/ r = "badField" -> "skip"
      [] width = 8 /\ r # "badField" -> "panic"
      [] width > 8 /\ r = "badStrong" -> "skip"
      [] OTHER -> "draw"

\* The reader refuses bare quotes and records of another width than the header.
ReadRecord ==
    /\ job = "file" /\ outcome = "parsing" /\ i \in 2..Len(file)
    /\ \/ /\ file[i] \in {"malformed", "ragged"}
          /\ outcome' = "error" /\ results' = <<>> /\ UNCHANGED i
       \/ /\ file[i] \notin {"malformed", "ragged"}
          /\ outcome' = IF parseRecord(file[i]) = "panic" THEN "panic" ELSE outcome
          /\ results' = IF parseRecord(file[i]) = "draw" THEN Append(results, i) ELSE results
          /\ i' = i + 1
    /\ UNCHANGED <<input, prizes>>

FileEnds ==
    /\ job = "file" /\ outcome = "parsing" /\ i >= 2 /\ i > Len(file)
    /\ outcome' = "ok"
    /\ UNCHANGED <<input, i, prizes, results>>

Next == Fetch \/ ParseLabel \/ PageEnds \/ ReadHeader \/ ReadRecord \/ FileEnds

Spec == Init /\ [][Next]_vars

-----------------------------------------------------------------------------

\* Every variable is of its type; at most eight tiers are found.
TypeOK ==
    /\ job \in {"page", "file"}
    /\ outcome \in {"fetching", "parsing", "ok", "error", "panic"}
    /\ i \in Nat \ {0}
    /\ tierAmounts \in [Tiers -> Nat] /\ tierWinners \in [Tiers -> Nat]
    /\ tiersFound \in 0..8
    /\ results \in Seq(Nat)

\* Where the labels are that a table consists of, in order.
TableLabels == {k \in 1..Len(page) : page[k].kind \in {"winners", "amount"} \/ TierOf(page[k]) >= 0}
TablePositions ==
    LET before == [k \in TableLabels |-> Cardinality({j \in TableLabels : j < k})]
    IN  [n \in 1..Cardinality(TableLabels) |-> CHOOSE k \in TableLabels : before[k] = n - 1]

\* The regular table is whole: eight tiers in their order, each followed by its
\* winners and its amount, with at most two other labels in between.
Legible ==
    LET pos == TablePositions
    IN  /\ Cardinality(TableLabels) >= 24
        /\ \A t \in Tiers :
              /\ TierOf(page[pos[3 * t + 1]]) = t
              /\ page[pos[3 * t + 2]].kind = "winners"
              /\ page[pos[3 * t + 3]].kind = "amount"
              /\ pos[3 * t + 3] - pos[3 * t + 1] <= 4

\* What such a page says of a tier.
Printed(t) ==
    LET pos == TablePositions
        winners == page[pos[3 * t + 2]].value
    IN  IF t <= 1 /\ winners = 0 /\ advert[t + 1] > 0
        THEN advert[t + 1] ELSE page[pos[3 * t + 3]].value

\* A whole regular table is never refused (only its request can fail) and is read
\* exactly, whatever stands between its labels and whatever follows it: no amount
\* of the double-lotto table gets in.
LegiblePageRead ==
    job = "page" /\ outcome \in {"ok", "error"} /\ Legible =>
        /\ outcome = "error" => i = 1
        /\ outcome = "ok" => \A t \in Tiers : tierAmounts[t] = Printed(t)

\* No tier is left at 0 unnoticed, unless a tier label is repeated: the count of
\* tiers found does not tell a repeated tier from a missing one.
NoTierLeftOut ==
    LET At(t) == {k \in 1..Len(page) : TierOf(page[k]) = t}
    IN  job = "page" /\ outcome = "ok" /\ (\A t \in Tiers : \A k, m \in At(t) : k = m) =>
            \A t \in Tiers : \E k \in At(t) : \E m \in k + 1..Len(page) :
                m <= k + 4 /\ page[m].kind = "amount"

\* A prize page is read right or refused, as far as the two can tell.
PrizePageRead == LegiblePageRead /\ NoTierLeftOut

\* A file is read as a whole or not at all: its draws are the records that parse,
\* in file order, and one that the reader refuses leaves nothing.  The parser
\* panics on a file of exactly eight columns and on no other.
DrawsFileRead ==
    job = "file" =>
        /\ outcome = "ok" =>
              /\ \A k \in 2..Len(file) : file[k] \notin {"malformed", "ragged"}
              /\ \A j, k \in DOMAIN results : j < k => results[j] < results[k]
              /\ {results[k] : k \in DOMAIN results} =
                    IF width < 9 THEN {} ELSE {k \in 2..Len(file) : file[k] = "good"}
        /\ outcome = "error" => results = <<>>
        /\ outcome = "panic" => width = 8

=============================================================================
