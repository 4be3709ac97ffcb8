---------------------------- MODULE LotteryTree ----------------------------
(***************************************************************************)
(* The prefix tree of an archive (internal/lottery-tree/node.go, tree.go    *)
(* and lottery_archive.go): how a draw is counted into it, and what is read *)
(* from it.                                                                 *)
(*                                                                          *)
(* A trie is a function from the nodes that exist, each named by the path   *)
(* of numbers that leads to it, to their counts.  The anchor is the empty   *)
(* path and has no count.                                                   *)
(***************************************************************************)
EXTENDS Integers, FiniteSetsExt, SequencesExt, TLC

CONSTANTS
    MaxNumber,      \* LotteryArchive.MaxNumber
    MaxGroupSize,   \* maxGroupSize, also how many numbers a draw has
    MaxStrong       \* maxStrong

\* A trie over three numbers sizes its nodes by another rule; none is built.
ASSUME NumbersAssumption ==
    /\ MaxNumber \in Nat \ {0, 3} /\ MaxStrong \in Nat \ {0, 1}
    /\ MaxGroupSize \in 1..MaxNumber
\* ScoreForm reads the groups of two.
ASSUME PairsAssumption == MaxGroupSize >= 2

\* C(n, k): the loop divides after each factor.
binomialCount(n, k) ==
    LET result[i \in 0..n] == IF i = 0 THEN 1 ELSE (result[i - 1] * (n - i + 1)) \div i
    IN  IF k \notin 0..n THEN 0 ELSE result[Min({k, n - k})]

-----------------------------------------------------------------------------
(* Building.                                                                *)

Num(node) == IF node = <<>> THEN 0 ELSE Last(node)

\* Mutant: the last slot is out of bounds.
HasSlotShort(lottery, node, n) == Num(node) < n /\ n < lottery

\* treeIndex lies within n.Next: numbers that do not ascend, or lie beyond the
\* lottery, are passed over.
HasSlot(lottery, node, n) == Num(node) < n /\ n <= lottery

\* LoNode.Build from the anchor, as the calls it makes: each one is named by the
\* positions in the form that led to it, i + 1 being where the next one starts.
Spelled(form, path) == [k \in DOMAIN path |-> form[path[k]]]
Later(path, i) == path = <<>> \/ Last(path) < i
Follows(lottery, form, path, i) ==
    Later(path, i) /\ HasSlot(lottery, Spelled(form, path), form[i])
Build(lottery, form, howMany) ==
    LET below[path \in Seq(DOMAIN form)] ==
            IF Len(path) >= howMany THEN {}
            ELSE UNION {{Append(path, i)} \union below[Append(path, i)] :
                            i \in {j \in DOMAIN form : Follows(lottery, form, path, j)}}
    IN  below[<<>>]

\* A call creates its node with a count of one, or adds one to it.
Visit(trie, form, calls) ==
    LET times(node) == Cardinality({path \in calls : Spelled(form, path) = node})
    IN  [node \in DOMAIN trie \union {Spelled(form, path) : path \in calls} |->
            IF node \in DOMAIN trie THEN trie[node] + times(node) ELSE times(node)]

EmptyTrie == << >>
AddNumbers(trie, numbers) == Visit(trie, numbers, Build(MaxNumber, numbers, MaxGroupSize))
AddStrong(trie, strong) == Visit(trie, <<strong>>, Build(MaxStrong + 2, <<strong>>, 1))

-----------------------------------------------------------------------------
(* Reading.  Mode "weak" prefers the least frequent.                        *)

\* sort.SliceStable by count: a group's place is behind those that come before it.
SortByCount(trie, groups, weak) ==
    LET before(a, b) ==
            LET ca == trie[groups[a]]
                cb == trie[groups[b]]
            IN  IF ca = cb THEN a < b ELSE (ca < cb) = weak
        place == [a \in DOMAIN groups |-> 1 + Cardinality({b \in DOMAIN groups : before(b, a)})]
    IN  [k \in DOMAIN groups |-> groups[CHOOSE a \in DOMAIN groups : place[a] = k]]

\* Every group of that size below a node, in the order of the walk.
collectNodes(trie, size) ==
    LET below[node \in Seq(1..MaxNumber)] ==
            IF Len(node) = size THEN <<node>>
            ELSE FlattenSeq([n \in 1..MaxNumber |->
                    IF Append(node, n) \in DOMAIN trie THEN below[Append(node, n)] ELSE <<>>])
    IN  below[<<>>]

CollectNodes(trie, size, weak) == SortByCount(trie, collectNodes(trie, size), weak)

\* Mutant: the groups are cut off before they are sorted.
TopGroupsUnsorted(trie, howMany, size, weak) ==
    LET groups == collectNodes(trie, size)
    IN  SortByCount(trie, SubSeq(groups, 1, Min({howMany, Len(groups)})), weak)

TopGroups(trie, howMany, size, weak) ==
    LET groups == CollectNodes(trie, size, weak)
    IN  SubSeq(groups, 1, Min({howMany, Len(groups)}))

\* Every number while there are no draws.
RankNumbers(trie, draws, weak) ==
    IF draws = 0 THEN [n \in 1..MaxNumber |-> n]
    ELSE LET singles == CollectNodes(trie, 1, weak) IN [k \in DOMAIN singles |-> singles[k][1]]

\* Only strong numbers of the current game; the first of equals.
TopStrong(strongs, weak) ==
    LET valid == {n \in 1..MaxStrong : <<n>> \in DOMAIN strongs}
        beats(a, b) ==
            LET ca == strongs[<<a>>]
                cb == strongs[<<b>>]
            IN  IF ca = cb THEN a <= b ELSE (ca < cb) = weak
    IN  IF valid = {} THEN 0 ELSE CHOOSE a \in valid : \A b \in valid : beats(a, b)

\* Mutant: one position is skipped below each number that was found.
analyzeBuildSkipping(trie, form, maxSize) ==
    LET below[path \in Seq(DOMAIN form)] ==
            IF Len(path) = maxSize THEN <<>>
            ELSE FlattenSeq([i \in DOMAIN form |->
                    LET child == Append(path, i)
                    IN  IF (path = <<>> \/ Last(path) + 1 < i) /\ Spelled(form, child) \in DOMAIN trie
                        THEN <<Spelled(form, child)>> \o below[child] ELSE <<>>])
    IN  below[<<>>]

\* The groups of a form that the trie holds, in the order of the traversal; a call
\* is named by the positions in the form that led to it, as in Build.
analyzeBuild(trie, form, maxSize) ==
    LET below[path \in Seq(DOMAIN form)] ==
            IF Len(path) = maxSize THEN <<>>
            ELSE FlattenSeq([i \in DOMAIN form |->
                    LET child == Append(path, i)
                    IN  IF Later(path, i) /\ Spelled(form, child) \in DOMAIN trie
                        THEN <<Spelled(form, child)>> \o below[child] ELSE <<>>])
    IN  below[<<>>]

\* FrequencyGroups: per size, the groups in order of their counts.
AnalyzeArray(trie, form) ==
    LET entries == analyzeBuild(trie, form, MaxGroupSize)
        groups(size) ==
            FlattenSeq([k \in DOMAIN entries |-> IF Len(entries[k]) = size THEN <<entries[k]>> ELSE <<>>])
    IN  [size \in 1..MaxGroupSize |-> SortByCount(trie, groups(size), FALSE)]

\* Mutant: FrequencyGroups is indexed by size - 2.
ScoreFormSingles(trie, draws, form) ==
    LET pairs == AnalyzeArray(trie, form)[1]
    IN  [observed |-> SumFunction([k \in DOMAIN pairs |-> trie[pairs[k]]]),
         expected |-> draws * binomialCount(Len(form), 2) * binomialCount(MaxGroupSize, 2),
         per      |-> binomialCount(MaxNumber, 2)]

\* The pair hits of a form, and the expected ones as a fraction of integers;
\* heat is their quotient in percent.
ScoreForm(trie, draws, form) ==
    LET pairs == AnalyzeArray(trie, form)[2]
    IN  [observed |-> SumFunction([k \in DOMAIN pairs |-> trie[pairs[k]]]),
         expected |-> draws * binomialCount(Len(form), 2) * binomialCount(MaxGroupSize, 2),
         per      |-> binomialCount(MaxNumber, 2)]
=============================================================================
