-------------------------- MODULE PaisScraperProofs --------------------------
(***************************************************************************)
(* The two parsers of the scraper, for pages and files of any length and    *)
(* any content: a whole prize table is read exactly, whatever stands        *)
(* between and after its labels, and no tier is missed without a repeated   *)
(* label; a file is read as a whole or not at all.                          *)
(***************************************************************************)
EXTENDS PaisScraper, SequenceTheorems, FiniteSetTheorems, TLAPS

\* What is parsed.
Inputs ==
    /\ page \in Seq(Labels) /\ advert \in Nat \X Nat
    /\ file \in Seq(Records) /\ width \in Nat

\* A tier label with winners and an amount within reach.
Found(k) == TierOf(page[k]) >= 0 /\ LookAhead("winners", k) >= 0 /\ LookAhead("amount", k) >= 0

\* A tier is counted for every such label, no matter which.
TiersCounted ==
    job = "page" =>
        /\ i <= Len(page) + 1
        /\ tiersFound = Cardinality({k \in 1..i - 1 : Found(k)})
        /\ outcome = "ok" => tiersFound = 8

\* Of a whole table, the tiers found are those whose labels have been passed, in
\* order, and each has its own winners and amount.
TableFollowed ==
    job = "page" /\ Legible =>
        LET pos == TablePositions
        IN  /\ outcome \in {"fetching", "error"} => i = 1
            /\ \A t \in Tiers : t < tiersFound <=> pos[3 * t + 1] < i
            /\ \A t \in Tiers : t < tiersFound =>
                /\ tierWinners[t] = page[pos[3 * t + 2]].value
                /\ tierAmounts[t] = IF outcome = "ok" THEN Printed(t) ELSE page[pos[3 * t + 3]].value

\* The draws are the records behind us that parse.
RecordsKept ==
    job = "file" =>
        /\ outcome = "fetching" => i = 1 /\ results = <<>>
        /\ outcome \in {"parsing", "ok"} =>
            \A k \in 2..Len(file) : k < i => file[k] \notin {"malformed", "ragged"}
        /\ outcome = "ok" => i > Len(file)
        /\ outcome = "error" => results = <<>>
        /\ outcome = "panic" => width = 8
        /\ \A k \in DOMAIN results : results[k] < i
        /\ \A j, k \in DOMAIN results : j < k => results[j] < results[k]
        /\ outcome # "error" => {results[k] : k \in DOMAIN results} =
            {k \in 2..Len(file) : k < i /\ width > 8 /\ file[k] = "good"}

IInv == TypeOK /\ Inputs /\ TiersCounted /\ TableFollowed /\ RecordsKept

-----------------------------------------------------------------------------
(* Labels.                                                                  *)

\* The fields of a label.
LEMMA LabelFields ==
    ASSUME NEW l \in Labels
    PROVE  /\ l.kind \in {"winners", "amount"} => l.value \in Nat
           /\ TierOf(l) \in Tiers \union {-1}
           /\ TierOf(l) >= 0 => l.kind = "tier"
<1>1. CASE l \in [kind : {"tier"}, num : Nat, strong : BOOLEAN]
    <2>1. l.kind = "tier" /\ l.num \in Nat
        BY <1>1
    <2>2. tierLabelToIndex(l.num, l.strong) \in Tiers \union {-1}
        <3>1. CASE l.num \in 3..6
            <4>1. 2 * (6 - l.num) \in {0, 2, 4, 6}
                BY <3>1
            <4> QED
                BY <3>1, <4>1 DEF tierLabelToIndex, Tiers
        <3>2. CASE l.num \notin 3..6
            BY <3>2 DEF tierLabelToIndex
        <3> QED
            BY <3>1, <3>2
    <2> QED
        BY <2>1, <2>2 DEF TierOf
<1>2. CASE l \in [kind : {"winners", "amount"}, value : Nat]
    BY <1>2 DEF TierOf
<1>3. CASE l \in [kind : {"other"}]
    BY <1>3 DEF TierOf
<1> QED
    BY <1>1, <1>2, <1>3 DEF Labels

\* The tiers are 0 to 7.
LEMMA TierNumbers == \A t : t \in Tiers <=> t \in Nat /\ t <= 7
BY DEF Tiers

\* What is found ahead is the first of its kind.
LEMMA FirstAhead ==
    ASSUME NEW kind, NEW k \in Nat, NEW j \in k + 1..k + 4, j <= Len(page), page[j].kind = kind,
           \A m \in k + 1..k + 4 : m < j => page[m].kind # kind
    PROVE  LookAhead(kind, k) = page[j].value
<1> DEFINE J == {m \in k + 1..k + 4 : m <= Len(page) /\ page[m].kind = kind}
           f == CHOOSE m \in J : \A x \in J : m <= x
<1>1. j \in J /\ \A x \in J : j <= x
    OBVIOUS
<1>2. f \in J /\ \A x \in J : f <= x
    <2> HIDE DEF J
    <2> QED
        BY <1>1
<1>3. f = j
    BY <1>1, <1>2
<1>4. LookAhead(kind, k) = page[f].value
    BY <1>1 DEF LookAhead
<1> QED
    BY <1>3, <1>4

\* Whatever is found ahead is within four labels, and a number.
LEMMA WithinReach ==
    ASSUME page \in Seq(Labels), NEW kind \in {"winners", "amount"}, NEW k \in Nat
    PROVE  /\ LookAhead(kind, k) \in Nat \union {-1}
           /\ LookAhead(kind, k) >= 0 =>
                \E m \in k + 1..Len(page) : m <= k + 4 /\ page[m].kind = kind
<1> DEFINE J == {m \in k + 1..k + 4 : m <= Len(page) /\ page[m].kind = kind}
<1>1. CASE J = {}
    BY <1>1 DEF LookAhead
<1>2. CASE J # {}
    <2>1. PICK j \in J : \A x \in J : j <= x
        <3>1. J \subseteq {k + 1, k + 2, k + 3, k + 4}
            OBVIOUS
        <3> HIDE DEF J
        <3>2. CASE k + 1 \in J
            BY <3>1, <3>2
        <3>3. CASE k + 1 \notin J /\ k + 2 \in J
            BY <3>1, <3>3
        <3>4. CASE k + 1 \notin J /\ k + 2 \notin J /\ k + 3 \in J
            BY <3>1, <3>4
        <3>5. CASE k + 1 \notin J /\ k + 2 \notin J /\ k + 3 \notin J
            <4>1. J = {k + 4}
                BY <1>2, <3>1, <3>5
            <4> QED
                BY <4>1
        <3> QED
            BY <3>2, <3>3, <3>4, <3>5
    <2>2. LookAhead(kind, k) = page[j].value
        <3>1. /\ j \in k + 1..k + 4 /\ j <= Len(page) /\ page[j].kind = kind
              /\ Len(page) \in Nat
            BY <2>1, LenProperties
        <3>2. ASSUME NEW m \in k + 1..k + 4, m < j  PROVE page[m].kind # kind
            <4>1. m <= Len(page) /\ ~(j <= m)
                BY <3>1, <3>2
            <4>2. m \notin J
                BY <2>1, <4>1
            <4> QED
                BY <4>1, <4>2
        <3> QED
            BY <3>1, <3>2, FirstAhead
    <2>3. Len(page) \in Nat
        BY LenProperties
    <2>4. page[j] \in Labels /\ j \in k + 1..Len(page)
        BY <2>1, <2>3, ElementOfSeq
    <2> QED
        BY <2>1, <2>2, <2>4, LabelFields
<1> QED
    BY <1>1, <1>2

-----------------------------------------------------------------------------
(* The positions of the table.                                              *)

\* The rank of an element of a finite set of numbers orders the set.
LEMMA Ranks ==
    ASSUME NEW T \in SUBSET Nat, IsFiniteSet(T), NEW rank,
           rank = [k \in T |-> Cardinality({x \in T : x < k})]
    PROVE  /\ Cardinality(T) \in Nat
           /\ rank \in [T -> 0..Cardinality(T) - 1]
           /\ \A j, k \in T : j < k => rank[j] < rank[k]
           /\ \A m \in 0..Cardinality(T) - 1 : \E k \in T : rank[k] = m
<1> DEFINE n == Cardinality(T)
           Below(k) == {x \in T : x < k}
<1>1. n \in Nat
    BY FS_CardinalityType
<1>2. \A k \in T : Below(k) \in SUBSET T
    OBVIOUS
<1>3. \A k \in T : IsFiniteSet(Below(k)) /\ Cardinality(Below(k)) \in Nat
    <2> SUFFICES ASSUME NEW k \in T  PROVE IsFiniteSet(Below(k)) /\ Cardinality(Below(k)) \in Nat
        OBVIOUS
    <2>1. IsFiniteSet(Below(k))
        BY <1>2, FS_Subset
    <2> QED
        BY <2>1, FS_CardinalityType
<1>4. \A k \in T : rank[k] = Cardinality(Below(k))
    OBVIOUS
<1>5. ASSUME NEW j \in T, NEW k \in T, j < k  PROVE rank[j] < rank[k]
    <2>1. \A x \in T : x < j => x < k
        <3>1. \A x, y, z \in Nat : x < y /\ y < z => x < z
            OBVIOUS
        <3> QED
            BY <1>5, <3>1
    <2>2. Below(j) \in SUBSET Below(k) /\ j \in Below(k) /\ j \notin Below(j)
        <3>1. Below(j) \in SUBSET Below(k)
            BY <2>1
        <3>2. j \in Below(k)
            BY <1>5
        <3>3. ~(j < j)
            OBVIOUS
        <3> QED
            BY <3>1, <3>2, <3>3
    <2>3. Below(j) # Below(k)
        BY <2>2
    <2> HIDE DEF Below
    <2>4. Cardinality(Below(j)) <= Cardinality(Below(k))
          /\ Cardinality(Below(k)) # Cardinality(Below(j))
        BY <1>3, <2>2, <2>3, FS_Subset
    <2> QED
        BY <1>3, <1>4, <2>4
<1>6. ASSUME NEW k \in T  PROVE rank[k] \in 0..n - 1
    <2>1. k \notin Below(k)
        OBVIOUS
    <2>2. Below(k) # T
        BY <2>1
    <2> HIDE DEF Below
    <2>3. Cardinality(Below(k)) <= Cardinality(T) /\ Cardinality(T) # Cardinality(Below(k))
        BY <1>2, <2>2, FS_Subset
    <2> QED
        BY <1>1, <1>3, <1>4, <2>3
<1>7. rank \in [T -> 0..n - 1]
    BY <1>6
<1>8. \A j, k \in T : rank[j] = rank[k] => j = k
    <2> SUFFICES ASSUME NEW j \in T, NEW k \in T, rank[j] = rank[k]  PROVE j = k
        OBVIOUS
    <2>1. j \in Nat /\ k \in Nat /\ rank[j] \in Int /\ rank[k] \in Int
        BY <1>6
    <2>2. ~(j < k) /\ ~(k < j)
        BY <1>5, <2>1
    <2> QED
        BY <2>1, <2>2
<1>9. rank \in Surjection(T, 0..n - 1)
    <2>1. rank \in Injection(T, 0..n - 1)
        BY <1>7, <1>8 DEF Injection, IsInjective
    <2>2. IsFiniteSet(0..n - 1) /\ Cardinality(0..n - 1) = n
        <3>1. 0 \in Int /\ n - 1 \in Int /\ (0 > n - 1 => n = 0)
            BY <1>1
        <3>2. /\ IsFiniteSet(0..n - 1)
              /\ Cardinality(0..n - 1) = IF 0 > n - 1 THEN 0 ELSE (n - 1) - 0 + 1
            BY <3>1, FS_Interval
        <3> QED
            BY <1>1, <3>1, <3>2
    <2> QED
        BY <2>1, <2>2, FS_Injection
<1>10. \A m \in 0..n - 1 : \E k \in T : rank[k] = m
    BY <1>9 DEF Surjection
<1> QED
    BY <1>1, <1>5, <1>7, <1>10

\* The positions are the table's labels, once each and in order.
LEMMA Positions ==
    ASSUME page \in Seq(Labels)
    PROVE  /\ Cardinality(TableLabels) \in Nat
           /\ TablePositions \in [1..Cardinality(TableLabels) -> TableLabels]
           /\ \A m, n \in 1..Cardinality(TableLabels) : m < n => TablePositions[m] < TablePositions[n]
           /\ \A k \in TableLabels : \E n \in 1..Cardinality(TableLabels) : TablePositions[n] = k
<1> DEFINE T == TableLabels
           n == Cardinality(T)
           rank == [k \in T |-> Cardinality({x \in T : x < k})]
<1>1. T \in SUBSET Nat /\ IsFiniteSet(T)
    <2>1. Len(page) \in Nat
        BY LenProperties
    <2>2. IsFiniteSet(1..Len(page)) /\ 1..Len(page) \subseteq Nat
        BY <2>1, FS_Interval
    <2>3. T \in SUBSET (1..Len(page))
        BY DEF TableLabels
    <2> HIDE DEF T
    <2>4. IsFiniteSet(T)
        BY <2>2, <2>3, FS_Subset
    <2> QED
        BY <2>2, <2>3, <2>4
<1>2. TablePositions = [m \in 1..n |-> CHOOSE k \in T : rank[k] = m - 1]
    BY DEF TablePositions
<1> HIDE DEF T
<1>3. /\ n \in Nat /\ rank \in [T -> 0..n - 1]
      /\ \A j, k \in T : j < k => rank[j] < rank[k]
      /\ \A m \in 0..n - 1 : \E k \in T : rank[k] = m
    <2>1. rank = [k \in T |-> Cardinality({x \in T : x < k})]
        OBVIOUS
    <2>2. \A r : r = [k \in T |-> Cardinality({x \in T : x < k})] =>
            /\ Cardinality(T) \in Nat
            /\ r \in [T -> 0..Cardinality(T) - 1]
            /\ \A j, k \in T : j < k => r[j] < r[k]
            /\ \A m \in 0..Cardinality(T) - 1 : \E k \in T : r[k] = m
        BY <1>1, Ranks
    <2> HIDE DEF rank
    <2> QED
        BY <2>1, <2>2
<1> HIDE DEF rank, n
<1>4. \A m \in 1..n : TablePositions[m] \in T /\ rank[TablePositions[m]] = m - 1
    <2> SUFFICES ASSUME NEW m \in 1..n
                 PROVE  TablePositions[m] \in T /\ rank[TablePositions[m]] = m - 1
        OBVIOUS
    <2>1. m - 1 \in 0..n - 1
        BY <1>3
    <2>2. \E k \in T : rank[k] = m - 1
        BY <1>3, <2>1
    <2>3. TablePositions[m] = CHOOSE k \in T : rank[k] = m - 1
        BY <1>2
    <2> QED
        BY <2>2, <2>3
<1>5. \A j, k \in T : rank[j] < rank[k] => j < k
    <2> SUFFICES ASSUME NEW j \in T, NEW k \in T, rank[j] < rank[k]  PROVE j < k
        OBVIOUS
    <2>1. j \in Nat /\ k \in Nat /\ rank[j] \in Int /\ rank[k] \in Int
        BY <1>1, <1>3
    <2>2. ~(k < j) /\ k # j
        BY <1>3, <2>1
    <2> QED
        BY <2>1, <2>2
<1>6. \A l, m \in 1..n : l < m => TablePositions[l] < TablePositions[m]
    BY <1>3, <1>4, <1>5
<1>7. ASSUME NEW k \in T  PROVE \E m \in 1..n : TablePositions[m] = k
    <2>1. rank[k] + 1 \in 1..n /\ (rank[k] + 1) - 1 = rank[k]
        BY <1>3
    <2>2. PICK m \in 1..n : m = rank[k] + 1
        BY <2>1
    <2>3. TablePositions[m] \in T /\ rank[TablePositions[m]] = rank[k]
        BY <1>4, <2>1, <2>2
    <2>4. TablePositions[m] = k
        <3>1. TablePositions[m] \in Nat /\ k \in Nat
            BY <1>1, <2>3
        <3>2. rank[k] \in 0..n - 1 /\ rank[k] \in Int
            BY <1>3
        <3>3. ~(TablePositions[m] < k) /\ ~(k < TablePositions[m])
            BY <1>3, <2>3, <3>1, <3>2
        <3> QED
            BY <3>1, <3>3
    <2> QED
        BY <2>4
<1>8. TablePositions \in [1..n -> T]
    BY <1>2, <1>4
<1> QED
    BY <1>3, <1>6, <1>7, <1>8 DEF n, T

\* A whole table: what the parser finds ahead of a tier's label is that tier's.
LEMMA TableRead ==
    ASSUME page \in Seq(Labels), Legible, NEW t \in Tiers
    PROVE  /\ TierOf(page[TablePositions[3 * t + 1]]) = t
           /\ TablePositions[3 * t + 1] \in 1..Len(page)
           /\ LookAhead("winners", TablePositions[3 * t + 1]) = page[TablePositions[3 * t + 2]].value
           /\ LookAhead("amount", TablePositions[3 * t + 1]) = page[TablePositions[3 * t + 3]].value
           /\ page[TablePositions[3 * t + 2]].value \in Nat
           /\ page[TablePositions[3 * t + 3]].value \in Nat
<1> DEFINE n == Cardinality(TableLabels)
           a == TablePositions[3 * t + 1]
           b == TablePositions[3 * t + 2]
           c == TablePositions[3 * t + 3]
<1>1. n \in Nat /\ n >= 24 /\ t \in 0..7 /\ Len(page) \in Nat
    BY Positions, LenProperties DEF Legible, Tiers
<1>2. 3 * t + 1 \in 1..n /\ 3 * t + 2 \in 1..n /\ 3 * t + 3 \in 1..n
    BY <1>1
<1>3. a \in TableLabels /\ b \in TableLabels /\ c \in TableLabels /\ a < b /\ b < c
    <2>1. /\ TablePositions \in [1..n -> TableLabels]
          /\ \A l, m \in 1..n : l < m => TablePositions[l] < TablePositions[m]
        BY Positions
    <2>2. 3 * t + 1 < 3 * t + 2 /\ 3 * t + 2 < 3 * t + 3
        BY <1>1
    <2> HIDE DEF n
    <2> QED
        BY <1>2, <2>1, <2>2
<1>4. a \in 1..Len(page) /\ b \in 1..Len(page) /\ c \in 1..Len(page)
    BY <1>3 DEF TableLabels
<1>5. /\ TierOf(page[a]) = t /\ page[b].kind = "winners" /\ page[c].kind = "amount"
      /\ c <= a + 4
    <2>1. c - a <= 4
        BY DEF Legible
    <2> QED
        BY <1>4, <2>1 DEF Legible
<1>6. \A k \in TableLabels : \E m \in 1..n : k = TablePositions[m]
    BY Positions
<1>7. \A l, m \in 1..n : l < m => TablePositions[l] < TablePositions[m]
    BY Positions
<1>8. \A l \in 1..n : TablePositions[l] \in Nat
    BY <1>1, Positions DEF TableLabels
<1>9. ASSUME NEW k \in TableLabels, a < k, k < c  PROVE k = b
    <2>1. PICK m \in 1..n : k = TablePositions[m]
        BY <1>6
    <2>2. ~(m <= 3 * t + 1)
        BY <1>2, <1>4, <1>7, <1>8, <1>9, <2>1
    <2>3. ~(m >= 3 * t + 3)
        BY <1>2, <1>4, <1>7, <1>8, <1>9, <2>1
    <2>4. m = 3 * t + 2
        BY <1>1, <2>2, <2>3
    <2> QED
        BY <2>1, <2>4
<1> HIDE DEF a, b, c
<1>10. ASSUME NEW k \in Nat, a < k, k < c, k # b  PROVE page[k].kind \notin {"winners", "amount"}
    <2>1. k \in 1..Len(page)
        BY <1>1, <1>4, <1>10
    <2> QED
        BY <1>9, <1>10, <2>1 DEF TableLabels
<1>11. LookAhead("winners", a) = page[b].value
    <2>1. b \in a + 1..a + 4 /\ b <= Len(page) /\ a \in Nat
        BY <1>1, <1>3, <1>4, <1>5
    <2>2. \A m \in a + 1..a + 4 : m < b => page[m].kind # "winners"
        BY <1>3, <1>4, <1>10
    <2> QED
        BY <1>5, <2>1, <2>2, FirstAhead
<1>12. LookAhead("amount", a) = page[c].value
    <2>1. c \in a + 1..a + 4 /\ c <= Len(page) /\ a \in Nat
        BY <1>1, <1>3, <1>4, <1>5
    <2>2. \A m \in a + 1..a + 4 : m < c => page[m].kind # "amount"
        BY <1>4, <1>5, <1>10
    <2> QED
        BY <1>5, <2>1, <2>2, FirstAhead
<1>13. page[b].value \in Nat /\ page[c].value \in Nat
    <2>1. page[b] \in Labels /\ page[c] \in Labels
        BY <1>4, ElementOfSeq
    <2> QED
        BY <1>5, <2>1, LabelFields
<1> QED
    BY <1>4, <1>5, <1>11, <1>12, <1>13 DEF a, b, c

\* In and before a whole table no other label names a tier.
LEMMA TierLabels ==
    ASSUME page \in Seq(Labels), Legible, NEW k \in 1..Len(page), TierOf(page[k]) >= 0,
           k <= TablePositions[22]
    PROVE  \E t \in Tiers : TablePositions[3 * t + 1] = k
<1> DEFINE n == Cardinality(TableLabels)
<1>1. n \in Nat /\ n >= 24
    BY Positions DEF Legible
<1>2. k \in TableLabels
    BY DEF TableLabels
<1>3. PICK m \in 1..n : TablePositions[m] = k
    BY <1>2, Positions
<1>4. m <= 22
    <2>1. TablePositions[22] \in Nat
        BY <1>1, Positions DEF TableLabels
    <2>2. 22 < m => TablePositions[22] < TablePositions[m]
        BY <1>1, Positions
    <2> QED
        BY <1>3, <2>1, <2>2
<1>5. page[k].kind = "tier"
    <2>1. page[k] \in Labels
        BY ElementOfSeq
    <2> QED
        BY <2>1, LabelFields
<1>6. \A t \in Tiers : m # 3 * t + 2 /\ m # 3 * t + 3
    BY <1>3, <1>5 DEF Legible
<1>7. \E t \in Tiers : m = 3 * t + 1 \/ m = 3 * t + 2 \/ m = 3 * t + 3
    <2>1. m \in 1..22
        BY <1>4
    <2>2. \E t \in 0..7 : m = 3 * t + 1 \/ m = 3 * t + 2 \/ m = 3 * t + 3
        <3> DEFINE q == (m - 1) \div 3
        <3>1. q \in Int /\ 3 * q <= m - 1 /\ m - 1 < 3 * (q + 1)
            BY <2>1
        <3> HIDE DEF q
        <3> QED
            BY <2>1, <3>1
    <2> QED
        BY <2>2 DEF Tiers
<1> QED
    BY <1>3, <1>6, <1>7

-----------------------------------------------------------------------------
(* The steps.                                                               *)

\* What is parsed stays, and so does what depends on it alone.
LEMMA SameInputs ==
    ASSUME UNCHANGED input
    PROVE  /\ UNCHANGED <<job, page, advert, file, width>>
           /\ Legible' = Legible /\ TablePositions' = TablePositions
           /\ \A t : Printed(t)' = Printed(t)
           /\ \A k : Found(k)' = Found(k)
<1>1. UNCHANGED <<job, page, advert, file, width>>
    BY DEF input
<1>2. TablePositions' = TablePositions /\ TableLabels' = TableLabels
    BY <1>1 DEF TablePositions, TableLabels
<1>3. \A kind, k : LookAhead(kind, k)' = LookAhead(kind, k)
    BY <1>1 DEF LookAhead
<1> QED
    BY <1>1, <1>2, <1>3 DEF Legible, Printed, Found

\* An advertised prize is a number.
LEMMA AdvertisedType ==
    ASSUME Inputs, NEW t \in Tiers, NEW amount \in Nat
    PROVE  Advertised(t, amount) \in Nat
<1>1. advert[1] \in Nat /\ advert[2] \in Nat
    BY DEF Inputs
<1>2. CASE t = 0
    BY <1>1, <1>2 DEF Advertised
<1>3. CASE t = 1
    BY <1>1, <1>3 DEF Advertised
<1>4. CASE t \notin {0, 1}
    BY <1>4 DEF Advertised
<1> QED
    BY <1>2, <1>3, <1>4

\* What a step of either parser does to the types of what it has found.
LEMMA TypeStep ==
    ASSUME TypeOK, Inputs, [Next]_vars
    PROVE  TypeOK' /\ Inputs'
<1> USE DEF TypeOK
<1>0. Len(page) \in Nat /\ Len(file) \in Nat
    BY LenProperties DEF Inputs
<1>1. CASE Fetch
    BY <1>1 DEF Fetch, Inputs, input, prizes
<1>2. CASE ParseLabel
    <2>1. page[i] \in Labels /\ i \in Nat
        BY <1>0, <1>2, ElementOfSeq DEF ParseLabel, Inputs
    <2>2. /\ LookAhead("winners", i) \in Nat \union {-1} /\ LookAhead("amount", i) \in Nat \union {-1}
          /\ TierOf(page[i]) \in Tiers \union {-1}
        BY <2>1, LabelFields, WithinReach DEF Inputs
    <2>3. /\ tierWinners' \in [Tiers -> Nat] /\ tierAmounts' \in [Tiers -> Nat]
          /\ tiersFound' \in 0..8
        <3> DEFINE t == TierOf(page[i])
                   w == LookAhead("winners", i)
                   a == LookAhead("amount", i)
        <3>1. \/ /\ t >= 0 /\ w >= 0 /\ a >= 0 /\ tiersFound' = tiersFound + 1
                 /\ tierWinners' = [tierWinners EXCEPT ![t] = w]
                 /\ tierAmounts' = [tierAmounts EXCEPT ![t] = a]
              \/ UNCHANGED <<tierAmounts, tierWinners, tiersFound>>
            BY <1>2 DEF ParseLabel, prizes
        <3>2. tiersFound < 8
            BY <1>2 DEF ParseLabel
        <3>3. t \in Tiers \union {-1} /\ w \in Nat \union {-1} /\ a \in Nat \union {-1}
            BY <2>2
        <3>4. -1 \notin Tiers /\ ~(-1 >= 0)
            BY DEF Tiers
        <3> HIDE DEF t, w, a
        <3>5. tiersFound' \in 0..8
            BY <3>1, <3>2
        <3>6. tierWinners' \in [Tiers -> Nat] /\ tierAmounts' \in [Tiers -> Nat]
            <4>1. CASE UNCHANGED <<tierAmounts, tierWinners, tiersFound>>
                BY <4>1
            <4>2. CASE /\ t \in Tiers /\ w \in Nat /\ a \in Nat
                       /\ tierWinners' = [tierWinners EXCEPT ![t] = w]
                       /\ tierAmounts' = [tierAmounts EXCEPT ![t] = a]
                BY <4>2
            <4>3. t >= 0 /\ w >= 0 /\ a >= 0 => t \in Tiers /\ w \in Nat /\ a \in Nat
                BY <3>3, <3>4
            <4> QED
                BY <3>1, <4>1, <4>2, <4>3
        <3> QED
            BY <3>5, <3>6
    <2> QED
        BY <1>2, <2>3 DEF ParseLabel, Inputs, input
<1>3. CASE PageEnds
    <2>1. tierAmounts' \in [Tiers -> Nat]
        BY <1>3, AdvertisedType DEF PageEnds
    <2> QED
        BY <1>3, <2>1 DEF PageEnds, Inputs, input
<1>4. CASE ReadHeader
    BY <1>4 DEF ReadHeader, Inputs, input, prizes
<1>5. CASE ReadRecord
    <2>1. results' \in {results, Append(results, i), <<>>}
        BY <1>5 DEF ReadRecord
    <2>2. results' \in Seq(Nat)
        <3>1. Append(results, i) \in Seq(Nat)
            BY AppendProperties
        <3> QED
            BY <2>1, <3>1, EmptySeq
    <2>3. UNCHANGED <<input, prizes>> /\ i' \in Nat \ {0} /\ outcome' \in {"error", "panic", outcome}
        BY <1>5 DEF ReadRecord
    <2> QED
        BY <2>2, <2>3 DEF Inputs, input, prizes
<1>6. CASE FileEnds
    BY <1>6 DEF FileEnds, Inputs, input, prizes
<1>7. CASE UNCHANGED vars
    BY <1>7 DEF vars, Inputs, input, prizes
<1> QED
    BY <1>1, <1>2, <1>3, <1>4, <1>5, <1>6, <1>7 DEF Next

\* One more label is one more to count, if a tier is found there.
LEMMA CountedStep ==
    ASSUME TypeOK, Inputs, TiersCounted, [Next]_vars
    PROVE  TiersCounted'
<1> USE DEF TypeOK
<1> DEFINE F(k) == {x \in 1..k : Found(x)}
<1>1. Len(page) \in Nat
    BY LenProperties DEF Inputs
<1>2. CASE ParseLabel
    <2>1. /\ job = "page" /\ i <= Len(page) /\ i' = i + 1 /\ UNCHANGED input /\ outcome' = outcome
          /\ tiersFound = Cardinality(F(i - 1)) /\ outcome # "ok"
        BY <1>2 DEF ParseLabel, TiersCounted
    <2>2. UNCHANGED <<job, page>> /\ \A k : Found(k)' = Found(k)
        BY <2>1, SameInputs
    <2>3. tiersFound' = IF Found(i) THEN tiersFound + 1 ELSE tiersFound
        BY <1>2 DEF ParseLabel, Found, prizes
    <2>4. Cardinality(F(i)) = IF Found(i) THEN Cardinality(F(i - 1)) + 1 ELSE Cardinality(F(i - 1))
        <3>1. IsFiniteSet(F(i - 1)) /\ i \notin F(i - 1)
            <4>1. IsFiniteSet(1..i - 1) /\ F(i - 1) \in SUBSET (1..i - 1)
                BY FS_Interval
            <4> QED
                BY <4>1, FS_Subset
        <3>2. F(i) = IF Found(i) THEN F(i - 1) \union {i} ELSE F(i - 1)
            <4>1. \A x : x \in 1..i <=> x \in 1..i - 1 \/ x = i
                OBVIOUS
            <4> QED
                BY <4>1
        <3> HIDE DEF F
        <3> QED
            BY <3>1, <3>2, FS_AddElement
    <2>5. i' - 1 = i /\ {k \in 1..i' - 1 : Found(k)'} = F(i)
        <3>1. i' - 1 = i
            BY <2>1
        <3> QED
            BY <2>2, <3>1
    <2>6. tiersFound' = Cardinality({k \in 1..i' - 1 : Found(k)'})
        <3> HIDE DEF F
        <3> QED
            BY <2>1, <2>3, <2>4, <2>5
    <2>7. i' <= Len(page') + 1 /\ outcome' # "ok"
        BY <1>1, <2>1, <2>2
    <2> QED
        BY <2>6, <2>7 DEF TiersCounted
<1>3. CASE PageEnds
    <2>1. UNCHANGED <<job, page, i, tiersFound>> /\ \A k : Found(k)' = Found(k)
        BY <1>3, SameInputs DEF PageEnds, input
    <2>2. outcome' = "ok" => tiersFound = 8
        BY <1>3 DEF PageEnds
    <2> QED
        BY <2>1, <2>2 DEF TiersCounted
<1>4. CASE Fetch \/ UNCHANGED vars
    <2>1. UNCHANGED <<job, page, i, tiersFound>> /\ \A k : Found(k)' = Found(k)
        BY <1>4, SameInputs DEF Fetch, vars, input, prizes
    <2>2. outcome' = "ok" => outcome = "ok"
        BY <1>4 DEF Fetch, vars
    <2> QED
        BY <2>1, <2>2 DEF TiersCounted
<1>5. CASE ReadHeader \/ ReadRecord \/ FileEnds
    BY <1>5 DEF ReadHeader, ReadRecord, FileEnds, input, TiersCounted
<1> QED
    BY <1>2, <1>3, <1>4, <1>5 DEF Next

\* The next tier's label is the one that is counted next.
LEMMA FollowedStep ==
    ASSUME TypeOK, Inputs, TableFollowed, [Next]_vars
    PROVE  TableFollowed'
<1> USE DEF TypeOK
<1> DEFINE pos == TablePositions
<1>1. CASE \/ Fetch \/ ParseLabel \/ PageEnds
           \/ UNCHANGED vars
    <2> SUFFICES ASSUME job' = "page", Legible'
                 PROVE  /\ outcome' \in {"fetching", "error"} => i' = 1
                        /\ \A t \in Tiers : t < tiersFound' <=> pos'[3 * t + 1] < i'
                        /\ \A t \in Tiers : t < tiersFound' =>
                            /\ tierWinners'[t] = page'[pos'[3 * t + 2]].value
                            /\ tierAmounts'[t] = IF outcome' = "ok" THEN Printed(t)'
                                                 ELSE page'[pos'[3 * t + 3]].value
        BY DEF TableFollowed
    <2>1. UNCHANGED input
        BY <1>1 DEF Fetch, ParseLabel, PageEnds, vars
    <2>2. /\ job = "page" /\ Legible /\ pos' = pos /\ page' = page /\ advert' = advert
          /\ \A t \in Tiers : Printed(t)' = Printed(t)
        BY <2>1, SameInputs
    <2>3. /\ outcome \in {"fetching", "error"} => i = 1
          /\ \A t \in Tiers : t < tiersFound <=> pos[3 * t + 1] < i
          /\ \A t \in Tiers : t < tiersFound =>
                /\ tierWinners[t] = page[pos[3 * t + 2]].value
                /\ tierAmounts[t] = IF outcome = "ok" THEN Printed(t) ELSE page[pos[3 * t + 3]].value
        BY <2>2 DEF TableFollowed
    <2>4. \A t \in Tiers : pos[3 * t + 1] \in 1..Len(page) /\ TierOf(page[pos[3 * t + 1]]) = t
        BY <2>2, TableRead DEF Inputs
    <2>5. Len(page) \in Nat /\ 7 \in Tiers /\ Tiers \subseteq Nat
        BY LenProperties DEF Inputs, Tiers
    <2> HIDE DEF pos
    <2>6. CASE ParseLabel
        <3>1. i <= Len(page) /\ tiersFound < 8 /\ i' = i + 1 /\ outcome' = outcome /\ outcome = "parsing"
            BY <2>6 DEF ParseLabel
        <3>2. CASE TierOf(page[i]) >= 0
            <4>1. i <= pos[22]
                <5>1. 3 * 7 + 1 = 22 /\ ~(7 < tiersFound)
                    BY <3>1
                <5> QED
                    BY <2>3, <2>4, <2>5, <5>1
            <4>2. PICK t \in Tiers : pos[3 * t + 1] = i
                BY <2>2, <3>1, <3>2, <4>1, TierLabels DEF Inputs, pos
            <4>3. t = tiersFound
                <5>1. ~(t < tiersFound)
                    BY <2>3, <4>2
                <5>2. tiersFound \in Tiers /\ ~(tiersFound < tiersFound)
                    BY <3>1 DEF Tiers
                <5>3. tiersFound < t => pos[3 * tiersFound + 1] < pos[3 * t + 1]
                    <6> SUFFICES ASSUME tiersFound < t  PROVE pos[3 * tiersFound + 1] < pos[3 * t + 1]
                        OBVIOUS
                    <6>1. Cardinality(TableLabels) \in Nat /\ Cardinality(TableLabels) >= 24
                        BY <2>2, Positions DEF Inputs, Legible
                    <6>2. 3 * tiersFound + 1 \in 1..Cardinality(TableLabels) /\ 3 * t + 1 \in 1..Cardinality(TableLabels)
                          /\ 3 * tiersFound + 1 < 3 * t + 1
                        BY <4>2, <5>2, <6>1, TierNumbers
                    <6> QED
                        BY <6>2, Positions DEF Inputs, pos
                <5>4. ~(tiersFound < t)
                    BY <2>3, <4>2, <5>2, <5>3
                <5> QED
                    BY <2>5, <5>1, <5>4
            <4>4. /\ LookAhead("winners", i) = page[pos[3 * t + 2]].value
                  /\ LookAhead("amount", i) = page[pos[3 * t + 3]].value
                  /\ page[pos[3 * t + 2]].value \in Nat /\ page[pos[3 * t + 3]].value \in Nat
                  /\ TierOf(page[i]) = t
                BY <2>2, <4>2, TableRead DEF Inputs, pos
            <4>5. /\ tiersFound' = tiersFound + 1
                  /\ tierWinners' = [tierWinners EXCEPT ![t] = page[pos[3 * t + 2]].value]
                  /\ tierAmounts' = [tierAmounts EXCEPT ![t] = page[pos[3 * t + 3]].value]
                <5>1. LookAhead("winners", i) >= 0 /\ LookAhead("amount", i) >= 0
                    BY <4>4
                <5>2. /\ tiersFound' = tiersFound + 1
                      /\ tierWinners' = [tierWinners EXCEPT ![TierOf(page[i])] = LookAhead("winners", i)]
                      /\ tierAmounts' = [tierAmounts EXCEPT ![TierOf(page[i])] = LookAhead("amount", i)]
                    BY <2>6, <3>2, <5>1 DEF ParseLabel
                <5> QED
                    BY <4>4, <5>2
            <4>6. ASSUME NEW u \in Tiers
                  PROVE  u < tiersFound' <=> pos[3 * u + 1] < i'
                <5>1. CASE u = t
                    BY <2>5, <3>1, <4>2, <4>3, <4>5, <5>1
                <5>2. CASE u # t
                    <6>1. pos[3 * u + 1] # i
                        BY <2>4, <4>4, <5>2
                    <6>2. u \in Nat /\ pos[3 * u + 1] \in Nat /\ i \in Nat /\ tiersFound \in Nat
                        BY <2>4, <2>5
                    <6>3. u < tiersFound + 1 <=> u < tiersFound
                        BY <4>3, <5>2, <6>2
                    <6>4. pos[3 * u + 1] < i + 1 <=> pos[3 * u + 1] < i
                        BY <6>1, <6>2
                    <6> QED
                        BY <2>3, <3>1, <4>5, <6>3, <6>4
                <5> QED
                    BY <5>1, <5>2
            <4>7. ASSUME NEW u \in Tiers, u < tiersFound'
                  PROVE  /\ tierWinners'[u] = page[pos[3 * u + 2]].value
                         /\ tierAmounts'[u] = page[pos[3 * u + 3]].value
                <5>1. CASE u = t
                    BY <4>5, <5>1
                <5>2. CASE u # t
                    <6>1. u < tiersFound
                        BY <4>2, <4>3, <4>5, <4>7, <5>2, TierNumbers
                    <6> QED
                        BY <2>3, <3>1, <4>5, <5>2, <6>1
                <5> QED
                    BY <5>1, <5>2
            <4> QED
                BY <2>2, <3>1, <4>6, <4>7
        <3>3. CASE ~(TierOf(page[i]) >= 0)
            <4>1. UNCHANGED <<tiersFound, tierAmounts, tierWinners>>
                BY <2>6, <3>3 DEF ParseLabel, prizes
            <4>2. \A t \in Tiers : pos[3 * t + 1] # i
                BY <2>4, <2>5, <3>3
            <4>3. \A t \in Tiers : pos[3 * t + 1] < i + 1 <=> pos[3 * t + 1] < i
                BY <2>4, <2>5, <4>2
            <4> QED
                BY <2>2, <2>3, <3>1, <4>1, <4>3
        <3> QED
            BY <3>2, <3>3
    <2>7. CASE PageEnds
        <3>1. UNCHANGED <<i, tierWinners, tiersFound>> /\ outcome = "parsing" /\ (i > Len(page) \/ tiersFound = 8)
            BY <2>7 DEF PageEnds
        <3>2. tiersFound = 8
            <4>1. i > Len(page) => 7 < tiersFound
                <5>1. i > Len(page) => pos[3 * 7 + 1] < i
                    BY <2>4, <2>5
                <5> QED
                    BY <2>3, <2>5, <5>1
            <4> QED
                BY <3>1, <4>1
        <3>3. outcome' = "ok" /\ tierAmounts' = [t \in Tiers |-> Advertised(t, tierAmounts[t])]
            BY <2>7, <3>2 DEF PageEnds
        <3>4. ASSUME NEW t \in Tiers
              PROVE  tierAmounts'[t] = Printed(t)
            <4>1. tierWinners[t] = page[pos[3 * t + 2]].value /\ tierAmounts[t] = page[pos[3 * t + 3]].value
                BY <2>3, <3>1, <3>2, TierNumbers
            <4>2. t \in {0, 1} <=> t <= 1
                BY TierNumbers
            <4> QED
                BY <3>3, <4>1, <4>2 DEF Printed, Advertised, pos
        <3> QED
            BY <2>2, <2>3, <3>1, <3>3, <3>4
    <2>8. CASE Fetch \/ UNCHANGED vars
        <3>1. UNCHANGED <<i, tierWinners, tierAmounts, tiersFound>>
            BY <2>8 DEF Fetch, vars, prizes
        <3>2. CASE Fetch
            <4>1. outcome = "fetching" /\ outcome' \in {"parsing", "error"}
                BY <3>2 DEF Fetch
            <4> QED
                BY <2>2, <2>3, <3>1, <4>1
        <3>3. CASE UNCHANGED vars
            BY <2>2, <2>3, <3>1, <3>3 DEF vars
        <3> QED
            BY <2>8, <3>2, <3>3
    <2> QED
        BY <1>1, <2>6, <2>7, <2>8
<1>2. CASE ReadHeader \/ ReadRecord \/ FileEnds
    BY <1>2 DEF ReadHeader, ReadRecord, FileEnds, input, TableFollowed
<1> QED
    BY <1>1, <1>2 DEF Next

\* A record behind us is a draw of the results or was skipped; one that stops the
\* parser takes the results with it.
LEMMA RecordsStep ==
    ASSUME TypeOK, Inputs, RecordsKept, [Next]_vars
    PROVE  RecordsKept'
<1> USE DEF TypeOK
<1> DEFINE Good(n) == {k \in 2..Len(file) : k < n /\ width > 8 /\ file[k] = "good"}
<1>1. Len(file) \in Nat
    BY LenProperties DEF Inputs
<1>2. CASE ParseLabel \/ PageEnds
    BY <1>2 DEF ParseLabel, PageEnds, input, RecordsKept
<1>3. CASE Fetch
    <2>1. UNCHANGED <<job, file, width, i, results>> /\ outcome = "fetching" /\ outcome' \in {"parsing", "error"}
        BY <1>3 DEF Fetch, input
    <2>2. job = "file" => i = 1 /\ results = <<>>
        BY <2>1 DEF RecordsKept
    <2>3. \A k \in 2..Len(file) : ~(k < 1)
        BY <1>1
    <2> QED
        BY <2>1, <2>2, <2>3 DEF RecordsKept
<1>4. CASE ReadHeader
    BY <1>4 DEF ReadHeader, input, RecordsKept
<1>5. CASE FileEnds
    BY <1>1, <1>5 DEF FileEnds, input, RecordsKept
<1>6. CASE UNCHANGED vars
    BY <1>6 DEF vars, input, RecordsKept
<1>7. CASE ReadRecord
    <2>1. /\ job = "file" /\ outcome = "parsing" /\ i \in 2..Len(file)
          /\ UNCHANGED <<job, file, width>>
        BY <1>7 DEF ReadRecord, input
    <2>2. /\ \A k \in 2..Len(file) : k < i => file[k] \notin {"malformed", "ragged"}
          /\ \A k \in DOMAIN results : results[k] < i
          /\ \A j, k \in DOMAIN results : j < k => results[j] < results[k]
          /\ {results[k] : k \in DOMAIN results} = Good(i)
        BY <2>1 DEF RecordsKept
    <2>3. CASE file[i] \in {"malformed", "ragged"}
        BY <1>7, <2>1, <2>3 DEF ReadRecord, RecordsKept
    <2>4. CASE file[i] \notin {"malformed", "ragged"}
        <3>1. file[i] \in Records /\ i' = i + 1 /\ outcome' \in {"parsing", "panic"}
            BY <1>7, <2>1, <2>4, ElementOfSeq DEF ReadRecord, Inputs
        <3>2. outcome' = "panic" => width = 8
            BY <1>7, <2>1, <2>4 DEF ReadRecord, parseRecord, Inputs
        <3>3. results' = IF width > 8 /\ file[i] = "good" THEN Append(results, i) ELSE results
            <4>1. results' = IF parseRecord(file[i]) = "draw" THEN Append(results, i) ELSE results
                BY <1>7, <2>4 DEF ReadRecord
            <4>2. parseRecord(file[i]) = "draw" <=> width > 8 /\ file[i] = "good"
                BY <2>4, <3>1 DEF parseRecord, Records, Inputs
            <4> QED
                BY <4>1, <4>2
        <3>4. \A k \in 2..Len(file) : k < i + 1 <=> k < i \/ k = i
            OBVIOUS
        <3>5. \A k \in 2..Len(file) : k < i' => file[k] \notin {"malformed", "ragged"}
            BY <2>2, <2>4, <3>1, <3>4
        <3>6. /\ \A k \in DOMAIN results' : results'[k] < i'
              /\ \A j, k \in DOMAIN results' : j < k => results'[j] < results'[k]
              /\ {results'[k] : k \in DOMAIN results'} = Good(i')
            <4>1. CASE width > 8 /\ file[i] = "good"
                <5> DEFINE n == Len(results)
                <5>1. n \in Nat /\ DOMAIN results = 1..n /\ \A k \in 1..n : results[k] \in Nat
                    BY LenProperties, ElementOfSeq
                <5>2. /\ DOMAIN results' = 1..n + 1 /\ results'[n + 1] = i
                      /\ \A k \in 1..n : results'[k] = results[k]
                    <6>1. results' = Append(results, i) /\ results \in Seq(Nat)
                        BY <3>3, <4>1
                    <6> QED
                        BY <6>1
                <5> HIDE DEF n
                <5>3. \A k : k \in 1..n + 1 <=> k \in 1..n \/ k = n + 1
                    BY <5>1
                <5>4. \A k \in DOMAIN results' : results'[k] < i'
                    BY <2>2, <3>1, <5>1, <5>2, <5>3
                <5>5. ASSUME NEW j \in DOMAIN results', NEW k \in DOMAIN results', j < k
                      PROVE  results'[j] < results'[k]
                    <6>1. j \in 1..n
                        BY <5>1, <5>2, <5>5
                    <6>2. CASE k \in 1..n
                        BY <2>2, <5>1, <5>2, <5>5, <6>1, <6>2
                    <6>3. CASE k = n + 1
                        BY <2>2, <5>1, <5>2, <6>1, <6>3
                    <6> QED
                        BY <5>2, <5>3, <6>2, <6>3
                <5>6. {results'[k] : k \in DOMAIN results'} = {results[k] : k \in DOMAIN results} \union {i}
                    <6>1. {results'[k] : k \in DOMAIN results'} = {results'[k] : k \in 1..n} \union {results'[n + 1]}
                        BY <5>2, <5>3
                    <6>2. {results'[k] : k \in 1..n} = {results[k] : k \in DOMAIN results}
                        <7>1. {results[k] : k \in DOMAIN results} = {results[k] : k \in 1..n}
                            BY <5>1
                        <7>2. ASSUME NEW x  PROVE (\E k \in 1..n : x = results'[k]) <=> (\E k \in 1..n : x = results[k])
                            BY <5>2
                        <7> QED
                            BY <7>1, <7>2
                    <6> QED
                        BY <5>2, <6>1, <6>2
                <5>7. Good(i') = Good(i) \union {i}
                    BY <2>1, <3>1, <3>4, <4>1
                <5> QED
                    BY <2>2, <5>4, <5>5, <5>6, <5>7
            <4>2. CASE ~(width > 8 /\ file[i] = "good")
                <5>1. results' = results
                    BY <3>3, <4>2
                <5>2. Good(i') = Good(i)
                    BY <3>1, <3>4, <4>2
                <5>3. \A k \in DOMAIN results : results[k] \in Nat /\ (results[k] < i => results[k] < i + 1)
                    BY LenProperties, ElementOfSeq
                <5> QED
                    BY <2>2, <3>1, <5>1, <5>2, <5>3
            <4> QED
                BY <4>1, <4>2
        <3> QED
            BY <2>1, <3>1, <3>2, <3>5, <3>6 DEF RecordsKept
    <2> QED
        BY <2>3, <2>4
<1> QED
    BY <1>2, <1>3, <1>4, <1>5, <1>6, <1>7 DEF Next

-----------------------------------------------------------------------------
(* What the two parsers promise.                                            *)

\* Neither parser has looked at anything yet.
LEMMA InitInv == Init => IInv
<1> SUFFICES ASSUME Init  PROVE IInv
    OBVIOUS
<1> USE DEF Init
<1>1. <<>> \in Seq(Nat) /\ <<>> \in Seq(Labels) /\ <<>> \in Seq(Records)
    BY EmptySeq
<1>2. Inputs
    <2>1. CASE job = "page" /\ page \in Pages /\ advert \in Adverts /\ file = <<>> /\ width = 0
        BY <1>1, <2>1, PagesAssumption, AdvertsAssumption DEF Inputs
    <2>2. CASE job = "file" /\ file \in Files /\ width \in Widths /\ page = <<>> /\ advert = <<0, 0>>
        BY <1>1, <2>2, FilesAssumption DEF Inputs
    <2> QED
        BY <2>1, <2>2
<1>3. TypeOK
    BY <1>1 DEF TypeOK, None
<1>4. Len(page) \in Nat /\ Len(file) \in Nat
    BY <1>2, LenProperties DEF Inputs
<1>5. TiersCounted
    <2>1. {k \in 1..i - 1 : Found(k)} = {}
        OBVIOUS
    <2>2. Cardinality({k \in 1..i - 1 : Found(k)}) = 0
        BY <2>1, FS_EmptySet
    <2> QED
        BY <1>4, <2>2 DEF TiersCounted
<1>6. TableFollowed
    <2> SUFFICES ASSUME Legible
                 PROVE  \A t \in Tiers : ~(t < 0) /\ ~(TablePositions[3 * t + 1] < 1)
        BY DEF TableFollowed
    <2>1. ASSUME NEW t \in Tiers  PROVE ~(TablePositions[3 * t + 1] < 1)
        <3>1. TablePositions[3 * t + 1] \in 1..Len(page)
            BY <1>2, TableRead DEF Inputs
        <3> QED
            BY <1>4, <3>1
    <2> QED
        BY <2>1, TierNumbers
<1>7. RecordsKept
    <2>1. DOMAIN results = {}
        OBVIOUS
    <2>2. \A k \in 2..Len(file) : ~(k < 1)
        BY <1>4
    <2> QED
        BY <2>1, <2>2 DEF RecordsKept
<1> QED
    BY <1>2, <1>3, <1>5, <1>6, <1>7 DEF IInv

\* The inductive invariant of both parsers.
THEOREM ScraperInvariant == Spec => []IInv
<1>1. Init => IInv
    BY InitInv
<1>2. IInv /\ [Next]_vars => IInv'
    BY TypeStep, CountedStep, FollowedStep, RecordsStep DEF IInv
<1> QED
    BY <1>1, <1>2, PTL DEF Spec

\* Every variable keeps its type; tiersFound never passes the eight tiers that
\* parsePrizeHTML's arrays have room for.
THEOREM TypeCorrect == Spec => []TypeOK
<1>1. IInv => TypeOK
    BY DEF IInv
<1> QED
    BY <1>1, ScraperInvariant, PTL

\* A whole regular table is read exactly and is not refused, however long the page
\* and whatever other labels it has.
LEMMA TableExact == IInv => LegiblePageRead
<1> SUFFICES ASSUME IInv, job = "page", outcome \in {"ok", "error"}, Legible
             PROVE  /\ outcome = "error" => i = 1
                    /\ outcome = "ok" => \A t \in Tiers : tierAmounts[t] = Printed(t)
    BY DEF LegiblePageRead
<1>1. outcome = "ok" => tiersFound = 8
    BY DEF IInv, TiersCounted
<1>2. /\ outcome = "error" => i = 1
      /\ outcome = "ok" => \A t \in Tiers : t < tiersFound => tierAmounts[t] = Printed(t)
    BY DEF IInv, TableFollowed
<1> QED
    BY <1>1, <1>2, TierNumbers

\* Eight tier labels with an amount, no two of the same tier, are one of each.
LEMMA AllTiersFound == IInv => NoTierLeftOut
<1> DEFINE At(t) == {k \in 1..Len(page) : TierOf(page[k]) = t}
<1> SUFFICES ASSUME IInv, job = "page", outcome = "ok",
                    \A t \in Tiers : \A k, m \in At(t) : k = m
             PROVE  \A t \in Tiers : \E k \in At(t) : \E m \in k + 1..Len(page) :
                        m <= k + 4 /\ page[m].kind = "amount"
    BY DEF NoTierLeftOut
<1> DEFINE F == {k \in 1..i - 1 : Found(k)}
           tier == [k \in F |-> TierOf(page[k])]
<1>1. Len(page) \in Nat /\ page \in Seq(Labels) /\ i \in Nat \ {0} /\ i <= Len(page) + 1
    BY LenProperties DEF IInv, Inputs, TypeOK, TiersCounted
<1>2. Cardinality(F) = 8
    BY DEF IInv, TiersCounted
<1>3. F \subseteq 1..Len(page)
    BY <1>1
<1>4. IsFiniteSet(F)
    <2>1. IsFiniteSet(1..Len(page))
        BY <1>1, FS_Interval
    <2> HIDE DEF F
    <2> QED
        BY <1>3, <2>1, FS_Subset
<1>5. \A k \in F : tier[k] \in Tiers /\ k \in At(tier[k])
    <2> SUFFICES ASSUME NEW k \in F  PROVE tier[k] \in Tiers /\ k \in At(tier[k])
        OBVIOUS
    <2>1. page[k] \in Labels /\ TierOf(page[k]) >= 0
        BY <1>1, <1>3, ElementOfSeq DEF Found
    <2>2. TierOf(page[k]) \in Tiers
        BY <2>1, LabelFields
    <2> QED
        BY <1>3, <2>2
<1>6. IsFiniteSet(Tiers) /\ Cardinality(Tiers) = 8
    <2>1. 0 \in Int /\ 7 \in Int /\ ~(0 > 7)
        OBVIOUS
    <2>2. IsFiniteSet(0..7) /\ Cardinality(0..7) = 7 - 0 + 1
        BY <2>1, FS_Interval
    <2> QED
        BY <2>2 DEF Tiers
<1>7. tier \in Injection(F, Tiers)
    <2> HIDE DEF F
    <2>1. tier \in [F -> Tiers]
        BY <1>5
    <2>2. \A k, m \in F : tier[k] = tier[m] => k = m
        <3> HIDE DEF tier, At
        <3> QED
            BY <1>5
    <2> QED
        BY <2>1, <2>2 DEF Injection, IsInjective
<1>8. tier \in Surjection(F, Tiers)
    <2> HIDE DEF F, tier
    <2> QED
        BY <1>2, <1>4, <1>6, <1>7, FS_Injection
<1> SUFFICES ASSUME NEW t \in Tiers
             PROVE  \E k \in At(t) : \E m \in k + 1..Len(page) : m <= k + 4 /\ page[m].kind = "amount"
    OBVIOUS
<1>9. PICK k \in F : tier[k] = t
    BY <1>8 DEF Surjection
<1>10. k \in At(t) /\ k \in Nat
    BY <1>3, <1>5, <1>9
<1>11. \E m \in k + 1..Len(page) : m <= k + 4 /\ page[m].kind = "amount"
    <2>1. LookAhead("amount", k) >= 0
        BY <1>9 DEF Found
    <2> QED
        BY <1>1, <1>10, <2>1, WithinReach
<1> QED
    BY <1>10, <1>11

\* parsePrizeHTML reads a page right or refuses it, as far as labels can tell: for
\* pages of any length, with any labels between the table's.
THEOREM PagesReadRight == Spec => []PrizePageRead
<1>1. IInv => PrizePageRead
    BY TableExact, AllTiersFound DEF PrizePageRead
<1> QED
    BY <1>1, ScraperInvariant, PTL

\* parseCSV returns exactly the records that parse, in file order, or nothing at
\* all, and panics on eight columns only: for files of any length and width.
THEOREM FilesReadWhole == Spec => []DrawsFileRead
<1>1. ASSUME IInv, job = "file", outcome = "ok"
      PROVE  /\ \A k \in 2..Len(file) : file[k] \notin {"malformed", "ragged"}
             /\ \A j, k \in DOMAIN results : j < k => results[j] < results[k]
             /\ {results[k] : k \in DOMAIN results} =
                    IF width < 9 THEN {} ELSE {k \in 2..Len(file) : file[k] = "good"}
    <2>1. /\ Len(file) \in Nat /\ i \in Nat /\ width \in Nat /\ i > Len(file)
        BY <1>1, LenProperties DEF IInv, Inputs, TypeOK, RecordsKept
    <2>2. \A k \in 2..Len(file) : k < i
        BY <2>1
    <2>3. width > 8 <=> ~(width < 9)
        BY <2>1
    <2>4. /\ \A k \in 2..Len(file) : k < i => file[k] \notin {"malformed", "ragged"}
          /\ \A j, k \in DOMAIN results : j < k => results[j] < results[k]
          /\ {results[k] : k \in DOMAIN results} =
                {k \in 2..Len(file) : k < i /\ width > 8 /\ file[k] = "good"}
        BY <1>1 DEF IInv, RecordsKept
    <2>5. {k \in 2..Len(file) : k < i /\ width > 8 /\ file[k] = "good"} =
            IF width < 9 THEN {} ELSE {k \in 2..Len(file) : file[k] = "good"}
        BY <2>2, <2>3
    <2> QED
        BY <2>2, <2>4, <2>5
<1>2. IInv => DrawsFileRead
    <2> SUFFICES ASSUME IInv, job = "file"  PROVE DrawsFileRead
        BY DEF DrawsFileRead
    <2>1. (outcome = "error" => results = <<>>) /\ (outcome = "panic" => width = 8)
        BY DEF IInv, RecordsKept
    <2> QED
        BY <1>1, <2>1 DEF DrawsFileRead
<1> QED
    BY <1>2, ScraperInvariant, PTL

=============================================================================
