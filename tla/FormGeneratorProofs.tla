------------------------- MODULE FormGeneratorProofs -------------------------
(***************************************************************************)
(* The backtracking search of the form generator, for lotteries of any size *)
(* and requests of any length: the list stays a permutation of the ranking, *)
(* forms are distinct, hold the requested numbers, and only the ranking's   *)
(* first choice can have won.                                               *)
(***************************************************************************)
EXTENDS FormGenerator, SequenceTheorems, FiniteSetTheorems, TLAPS

Indexes == 1..Len(ranked)
Lists == [Indexes -> Numbers]

\* s holds the ranked numbers, once each.
Arranged(s) ==
    /\ s \in Lists
    /\ \A j, k \in Indexes : s[j] = s[k] => j = k
    /\ {s[k] : k \in Indexes} = {ranked[k] : k \in Indexes}

\* What the request and the ranking are.
Requested ==
    /\ ranked \in Seq(Numbers) /\ Arranged(ranked)
    /\ formType \in Nat \ {0} /\ willBe \in Wanted
    /\ phase \in {"idle", "form", "regroup", "search", "return", "done", "panic"}
    /\ phase \notin {"idle", "done"} => formType <= Len(ranked)

\* The state of the search besides its calls.
Candidates ==
    /\ Arranged(tries)
    /\ skip \in 0..Len(ranked) /\ caseL \in {0, 1} /\ found \in BOOLEAN
    /\ todo \in Wanted
    /\ phase \in {"search", "return", "panic"} => todo = <<>>

Frames == [start : Nat, check : Nat, branch : 0..2]

\* A call that has swapped had two places of the list to swap; its callers have.
CallOK(f) ==
    /\ skip <= f.start /\ f.check \in formType..Len(ranked)
    /\ Fits => f.start <= formType
    /\ f.branch # 0 => f.start < Len(ranked) /\ f.start # formType /\ f.check < Len(ranked)

Calls ==
    /\ stack \in Seq(Frames)
    /\ \A k \in 1..Len(stack) : CallOK(stack[k])
    /\ \A k \in 1..Len(stack) : k < Len(stack) => stack[k].branch # 0
    /\ phase = "search" => stack # <<>> /\ Top.branch = 0
    /\ phase = "return" => (stack # <<>> => Top.branch # 0)
    /\ phase \in {"idle", "form", "regroup", "done"} => stack = <<>>

\* The pinned numbers are in front, or still to be placed.
Placing ==
    Fits /\ phase \in {"regroup", "search", "return", "panic"} =>
        {tries[k] : k \in 1..skip}
            \union ({todo[k] : k \in DOMAIN todo} \intersect {ranked[k] : k \in Indexes}) = Pinned

Answers ==
    /\ results \in Seq(SUBSET Numbers)
    /\ Len(results) <= HowMany /\ stuck \subseteq 1..Len(results)
    /\ phase = "idle" => results = <<>>
    /\ phase \in {"regroup", "search", "return", "panic"} => Len(results) < HowMany
    /\ phase = "return" /\ found => notInResults /\ allFormsCheck

\* The lists the open calls found: each call's swap leads from its own to the
\* next one's, and a failed search is back at the first.
Undone ==
    phase \in {"search", "return"} => \E saved \in [Nat -> Lists] :
        /\ leading(saved[1]) = first
        /\ \A k \in 1..Len(stack) : stack[k].branch # 0 =>
            saved[k + 1] = Swap(saved[k], stack[k].start + 1, stack[k].check + 1)
        /\ phase = "search" => tries = saved[Len(stack)]
        /\ phase = "return" /\ ~found => tries = saved[Len(stack) + 1]

\* One round of regroup, from the list s with p pinned entries to s2 with p2.
Moved(s, p, want, s2, p2) ==
    LET P == {j \in p + 1..Len(s) : s[j] = want}
    IN  IF P = {} THEN s2 = s /\ p2 = p ELSE s2 = Swap(s, p + 1, Min(P)) /\ p2 = p + 1

\* Every form is begun from the same list: the rounds of regroup made so far are
\* the same for each form, and once all of them are known, so is the first choice.
Traced ==
    \E lists \in [Nat -> Lists], skips \in [Nat -> Nat], known \in 0..Len(willBe) :
        /\ lists[0] = ranked /\ skips[0] = 0
        /\ \A k \in 0..Len(willBe) : k < known =>
            Moved(lists[k], skips[k], willBe[k + 1], lists[k + 1], skips[k + 1])
        /\ phase = "regroup" =>
            /\ Len(todo) <= Len(willBe)
            /\ \A k \in 1..Len(todo) : todo[k] = willBe[Len(willBe) - Len(todo) + k]
            /\ Len(willBe) - Len(todo) <= known
            /\ tries = lists[Len(willBe) - Len(todo)]
            /\ skip = skips[Len(willBe) - Len(todo)]
        /\ results # <<>> \/ phase \in {"search", "return"} =>
            known = Len(willBe) /\ leading(lists[known]) = first

IInv ==
    /\ Requested /\ Candidates /\ Calls /\ Placing /\ Answers /\ Undone /\ Traced
    /\ DistinctForms /\ WillBeInEveryForm /\ OnlyFirstChoiceHasWon

-----------------------------------------------------------------------------
(* Lists.                                                                   *)

\* A list of the ranked numbers is a sequence as long as the ranking.
LEMMA ListLength ==
    ASSUME ranked \in Seq(Numbers), NEW s \in Lists
    PROVE  /\ Len(ranked) \in Nat /\ s \in Seq(Numbers) /\ Len(s) = Len(ranked)
           /\ DOMAIN s = Indexes
<1>1. Len(ranked) \in Nat
    BY LenProperties
<1>2. s \in Seq(Numbers)
    BY <1>1, SeqDef DEF Lists, Indexes
<1>3. DOMAIN s = 1..Len(ranked) /\ DOMAIN s = 1..Len(s) /\ Len(s) \in Nat
    BY <1>2, LenProperties DEF Lists, Indexes
<1> QED
    BY <1>1, <1>2, <1>3 DEF Indexes

\* A swap exchanges two entries, keeps the numbers, and undoes itself.
LEMMA SwapEntries ==
    ASSUME NEW s \in Lists, NEW j \in Indexes, NEW k \in Indexes
    PROVE  /\ Swap(s, j, k) \in Lists
           /\ \A i \in Indexes :
                Swap(s, j, k)[i] = IF i = k THEN s[j] ELSE IF i = j THEN s[k] ELSE s[i]
           /\ Swap(Swap(s, j, k), j, k) = s
<1>1. /\ Swap(s, j, k) \in Lists
      /\ \A i \in Indexes :
            Swap(s, j, k)[i] = IF i = k THEN s[j] ELSE IF i = j THEN s[k] ELSE s[i]
    BY DEF Swap, Lists
<1>2. /\ Swap(Swap(s, j, k), j, k) \in Lists
      /\ \A i \in Indexes : Swap(Swap(s, j, k), j, k)[i] =
            IF i = k THEN Swap(s, j, k)[j] ELSE IF i = j THEN Swap(s, j, k)[k] ELSE Swap(s, j, k)[i]
    BY <1>1 DEF Swap, Lists
<1>3. \A i \in Indexes : Swap(Swap(s, j, k), j, k)[i] = s[i]
    BY <1>1, <1>2
<1> QED
    BY <1>1, <1>2, <1>3 DEF Lists

LEMMA SwapArranged ==
    ASSUME NEW s, Arranged(s), NEW j \in Indexes, NEW k \in Indexes
    PROVE  Arranged(Swap(s, j, k))
<1> DEFINE t == Swap(s, j, k)
<1>1. /\ t \in Lists
      /\ \A i \in Indexes : t[i] = IF i = k THEN s[j] ELSE IF i = j THEN s[k] ELSE s[i]
    BY SwapEntries DEF Arranged
<1> HIDE DEF t
<1>2. \A a, b \in Indexes : t[a] = t[b] => a = b
    BY <1>1 DEF Arranged
<1>3. {t[i] : i \in Indexes} = {s[i] : i \in Indexes}
    BY <1>1
<1> QED
    BY <1>1, <1>2, <1>3 DEF Arranged, t

\* The front of a list has as many numbers as places.
LEMMA FrontSize ==
    ASSUME ranked \in Seq(Numbers), NEW s, Arranged(s), NEW m \in 0..Len(ranked)
    PROVE  IsFiniteSet({s[k] : k \in 1..m}) /\ Cardinality({s[k] : k \in 1..m}) = m
<1> DEFINE F == {s[k] : k \in 1..m}
           f == [k \in 1..m |-> s[k]]
<1>1. Len(ranked) \in Nat /\ \A k \in 1..m : k \in Indexes
    BY LenProperties DEF Indexes
<1>2. f \in Bijection(1..m, F)
    <2>1. f \in [1..m -> F]
        OBVIOUS
    <2>2. \A a, b \in 1..m : f[a] = f[b] => a = b
        BY <1>1 DEF Arranged
    <2>3. \A x \in F : \E k \in 1..m : f[k] = x
        OBVIOUS
    <2> QED
        BY <2>1, <2>2, <2>3 DEF Bijection, Injection, Surjection, IsInjective
<1>3. IsFiniteSet(1..m) /\ Cardinality(1..m) = m
    BY FS_Interval, <1>1
<1> QED
    BY <1>2, <1>3, FS_Bijection DEF ExistsBijection

\* A ranking is a list of numbers without repetition.
LEMMA RankingArranged ==
    ASSUME NEW weak \in BOOLEAN, ranked \in Rankings(won, weak)
    PROVE  ranked \in Seq(Numbers) /\ Arranged(ranked)
<1> DEFINE drawn == {n \in Numbers : won = {} \/ Frequency(won, n) > 0}
           before(x, y) == IF Frequency(won, x) = Frequency(won, y) THEN x < y
                           ELSE (Frequency(won, x) < Frequency(won, y)) = weak
<1>1. /\ ranked \in [1..Cardinality(drawn) -> drawn]
      /\ \A j, k \in DOMAIN ranked : j < k => before(ranked[j], ranked[k])
    BY DEF Rankings
<1>2. Cardinality(drawn) \in Nat
    <2>1. IsFiniteSet(Numbers)
        BY FS_Interval, SizesAssumption DEF Numbers
    <2>2. drawn \in SUBSET Numbers
        OBVIOUS
    <2> QED
        BY <2>1, <2>2, FS_Subset, FS_CardinalityType
<1>3. ranked \in [1..Cardinality(drawn) -> Numbers] /\ DOMAIN ranked = 1..Cardinality(drawn)
    BY <1>1
<1>4. ranked \in Seq(Numbers)
    BY <1>2, <1>3, SeqDef
<1>5. Indexes = 1..Cardinality(drawn)
    BY <1>2, <1>3, <1>4, LenProperties DEF Indexes
<1>6. ASSUME NEW j \in Indexes, NEW k \in Indexes, ranked[j] = ranked[k], j < k  PROVE FALSE
    <2>1. before(ranked[j], ranked[j])
        BY <1>1, <1>3, <1>5, <1>6
    <2>2. ranked[j] < ranked[j] /\ ranked[j] \in Numbers
        BY <1>3, <1>5, <2>1
    <2> QED
        BY <2>2, SizesAssumption DEF Numbers
<1>7. \A j, k \in Indexes : ranked[j] = ranked[k] => j = k
    <2>1. \A j, k \in Indexes : j = k \/ j < k \/ k < j
        BY <1>2, <1>5
    <2> QED
        BY <1>6, <2>1
<1> QED
    BY <1>3, <1>4, <1>5, <1>7 DEF Arranged, Lists

-----------------------------------------------------------------------------
(* Calls.                                                                   *)

\* The innermost call, and what remains when it returns.
LEMMA PopFacts ==
    ASSUME stack \in Seq(Frames), stack # <<>>
    PROVE  /\ Len(stack) \in Nat \ {0} /\ Top \in Frames
           /\ Pop \in Seq(Frames) /\ Len(Pop) = Len(stack) - 1
           /\ \A k \in 1..Len(stack) - 1 : Pop[k] = stack[k]
           /\ Pop # <<>> => Len(stack) - 1 \in 1..Len(stack)
<1>1. Len(stack) \in Nat \ {0} /\ Top \in Frames
    BY EmptySeq, ElementOfSeq DEF Top
<1>2. \A k \in 1..Len(stack) - 1 : stack[k] \in Frames
    BY <1>1, ElementOfSeq
<1>3. /\ Pop \in Seq(Frames) /\ Len(Pop) = Len(stack) - 1
      /\ \A k \in 1..Len(stack) - 1 : Pop[k] = stack[k]
    <2> DEFINE q == Len(stack) - 1
    <2>0. \A l \in Nat \ {0} : l - 1 \in Nat
        OBVIOUS
    <2>1. q \in Nat
        BY <1>1, <2>0
    <2>2. \A k \in 1..q : stack[k] \in Frames
        BY <1>2
    <2>3. Pop = SubSeq(stack, 1, q)
        BY DEF Pop
    <2> HIDE DEF q
    <2>4. /\ Pop \in Seq(Frames)
          /\ Len(Pop) = IF 1 <= q THEN q - 1 + 1 ELSE 0
          /\ \A k \in 1..q - 1 + 1 : Pop[k] = stack[1 + k - 1]
        BY <2>1, <2>2, <2>3, SubSeqProperties
    <2>5. ASSUME NEW k \in 1..q  PROVE Pop[k] = stack[k]
        <3>1. 1 + k - 1 = k /\ k \in 1..q - 1 + 1
            BY <2>1
        <3>2. Pop[k] = stack[1 + k - 1]
            BY <2>4, <3>1
        <3> QED
            BY <3>1, <3>2
    <2>6. Len(Pop) = q
        BY <2>1, <2>4
    <2> QED
        BY <2>4, <2>5, <2>6 DEF q
<1>4. Pop # <<>> => Len(Pop) # 0
    BY <1>3, EmptySeq
<1> QED
    BY <1>1, <1>3, <1>4

\* The innermost call goes on at branch b and makes a call at x and y.
Deeper(b, x, y) == Call([stack EXCEPT ![Len(stack)].branch = b], x, y)

LEMMA CallFacts ==
    ASSUME stack \in Seq(Frames), stack # <<>>, NEW b \in 0..2, NEW x \in Nat, NEW y \in Nat
    PROVE  LET t == Deeper(b, x, y)
           IN  /\ t \in Seq(Frames) /\ Len(t) = Len(stack) + 1
               /\ \A k \in 1..Len(stack) :
                    /\ t[k].start = stack[k].start /\ t[k].check = stack[k].check
                    /\ t[k].branch = IF k = Len(stack) THEN b ELSE stack[k].branch
               /\ t[Len(stack) + 1] = [start |-> x, check |-> y, branch |-> 0]
<1> DEFINE l == Len(stack)
           f == [stack[l] EXCEPT !.branch = b]
           u == [stack EXCEPT ![l] = f]
           new == [start |-> x, check |-> y, branch |-> 0]
           t == Deeper(b, x, y)
<1>1. l \in 1..l /\ l \in Nat /\ stack[l] \in Frames
    BY PopFacts DEF Top
<1>2. f \in Frames /\ f.start = stack[l].start /\ f.check = stack[l].check /\ f.branch = b
    BY <1>1 DEF Frames
<1>3. new \in Frames
    BY DEF Frames
<1>4. /\ u \in Seq(Frames) /\ Len(u) = l
      /\ \A k \in 1..l : u[k] = IF k = l THEN f ELSE stack[k]
    <2> HIDE DEF f
    <2> QED
        BY <1>1, <1>2, ExceptSeq
<1>5. t = Append(u, new)
    BY DEF Deeper, Call
<1>6. /\ t \in Seq(Frames) /\ Len(t) = l + 1 /\ t[l + 1] = new
      /\ \A k \in 1..l : t[k] = u[k]
    <2> HIDE DEF u, new, t
    <2> QED
        BY <1>3, <1>4, <1>5, AppendProperties
<1> QED
    BY <1>1, <1>2, <1>4, <1>6 DEF Deeper

\* The flag chooses which of the two indexes moves.
LEMMA Flips ==
    ASSUME NEW c \in {0, 1}
    PROVE  (c + 1) % 2 \in {0, 1} /\ (((c + 1) % 2) + 1) % 2 \in {0, 1}
<1>1. 1 % 2 = 1 /\ 2 % 2 = 0
    BY SMT
<1>2. (0 + 1) % 2 = 1 /\ (1 + 1) % 2 = 0
    BY <1>1
<1>3. (((0 + 1) % 2) + 1) % 2 = 0 /\ (((1 + 1) % 2) + 1) % 2 = 1
    BY <1>2
<1> QED
    BY <1>2, <1>3

-----------------------------------------------------------------------------
(* Requested numbers.                                                       *)

LEMMA WantedSeq ==
    ASSUME NEW w \in Wanted
    PROVE  w \in Seq(Numbers) /\ Len(w) \in 0..MaxWanted /\ DOMAIN w = 1..Len(w)
<1>1. PICK m \in 0..MaxWanted : w \in [1..m -> Numbers]
    BY DEF Wanted
<1>2. m \in Nat /\ w \in Seq(Numbers)
    BY <1>1, SeqDef, SizesAssumption
<1>3. DOMAIN w = 1..m /\ DOMAIN w = 1..Len(w) /\ Len(w) \in Nat
    BY <1>1, <1>2, LenProperties
<1>4. Len(w) = m
    BY <1>2, <1>3
<1> QED
    BY <1>1, <1>2, <1>3, <1>4

LEMMA TailWanted ==
    ASSUME NEW w \in Wanted, w # <<>>
    PROVE  /\ Tail(w) \in Wanted /\ Len(Tail(w)) = Len(w) - 1 /\ Len(w) \in Nat \ {0}
           /\ Head(w) = w[1] /\ Head(w) \in Numbers
           /\ \A k \in 1..Len(w) - 1 : Tail(w)[k] = w[k + 1]
<1>1. w \in Seq(Numbers) /\ Len(w) \in 0..MaxWanted /\ Len(w) \in Nat \ {0}
    BY WantedSeq, EmptySeq
<1>2. /\ Tail(w) \in Seq(Numbers) /\ Len(Tail(w)) = Len(w) - 1 /\ Head(w) \in Numbers
      /\ \A k \in 1..Len(w) - 1 : Tail(w)[k] = w[k + 1]
    BY <1>1, HeadTailProperties
<1>3. Tail(w) \in [1..Len(w) - 1 -> Numbers] /\ Len(w) - 1 \in 0..MaxWanted
    <2>1. Tail(w) \in [1..Len(Tail(w)) -> Numbers]
        BY <1>2, LenProperties
    <2> QED
        BY <1>1, <1>2, <2>1, SizesAssumption
<1>4. Tail(w) \in Wanted
    BY <1>3 DEF Wanted
<1>5. Head(w) = w[1]
    BY <1>1
<1> QED
    BY <1>1, <1>2, <1>4, <1>5

\* A number has one place at most.
LEMMA OnePlace ==
    ASSUME Requested, Candidates, NEW x, Positions(x) # {}
    PROVE  /\ Min(Positions(x)) \in Indexes /\ tries[Min(Positions(x))] = x
           /\ skip < Min(Positions(x)) /\ skip + 1 \in Indexes
<1>1. /\ Len(ranked) \in Nat /\ Len(tries) = Len(ranked)
      /\ skip \in 0..Len(ranked)
    BY ListLength DEF Requested, Candidates, Arranged
<1>2. PICK p \in Positions(x) : TRUE
    OBVIOUS
<1>3. \A q \in Positions(x) : q \in Indexes /\ tries[q] = x /\ skip < q
    BY <1>1 DEF Positions, Indexes
<1>4. Positions(x) = {p}
    BY <1>2, <1>3 DEF Candidates, Arranged
<1>5. Min(Positions(x)) = p
    <2>1. p <= p
        BY <1>1, <1>2, <1>3 DEF Indexes
    <2> QED
        BY <1>4, <2>1 DEF Min
<1> QED
    BY <1>1, <1>2, <1>3, <1>5 DEF Indexes

\* The two places of a call's swap.
LEMMA SwapPlaces ==
    ASSUME Requested, Calls, stack # <<>>,
           Top.branch # 0 \/ (Top.start < Len(ranked) /\ Top.check < Len(ranked))
    PROVE  /\ Top.start + 1 \in Indexes /\ Top.check + 1 \in Indexes
           /\ Top.start \in Nat /\ Top.check \in Nat
<1>1. Len(ranked) \in Nat /\ Top \in Frames /\ Len(stack) \in 1..Len(stack)
    BY PopFacts, LenProperties DEF Requested, Calls
<1>2. CallOK(Top)
    BY <1>1 DEF Calls, Top
<1> QED
    BY <1>1, <1>2 DEF CallOK, Frames, Indexes, Requested

-----------------------------------------------------------------------------
(* Types.                                                                   *)

\* The ranking never changes, and the request not once it has begun.
LEMMA SameRequest ==
    ASSUME [Next]_vars
    PROVE  /\ ranked' = ranked /\ won' = won
           /\ UNCHANGED <<formType, willBe>>
              \/ (phase = "idle" /\ phase' \in {"form", "done"} /\ UNCHANGED <<tries, skip, todo, caseL, stack, found, first, results, stuck>>)
<1> QED
    BY DEF Next, vars, request, Generate, NextForm, regroup, StartSearch, Search, SecondBranch,
       Unswap, PassUp, addResult, Finished

LEMMA RequestedStep ==
    ASSUME Requested, Calls, [Next]_vars
    PROVE  Requested'
<1>1. Arranged(ranked)' <=> Arranged(ranked)
    BY SameRequest DEF Arranged, Lists, Indexes
<1>2. ranked' \in Seq(Numbers)
    BY SameRequest DEF Requested
<1>3. CASE \E size \in FormTypes, want \in Wanted : Generate(size, want)
    <2>1. PICK size \in FormTypes, want \in Wanted : Generate(size, want)
        BY <1>3
    <2>2. size \in Nat \ {0} /\ Len(ranked) \in Nat
        BY FormTypesAssumption, SizesAssumption, LenProperties DEF Requested
    <2> QED
        BY <1>1, <1>2, <2>1, <2>2 DEF Requested, Generate
<1>4. CASE ~ \E size \in FormTypes, want \in Wanted : Generate(size, want)
    <2>1. UNCHANGED <<formType, willBe>>
        BY <1>4 DEF Next, vars, request, NextForm, regroup, StartSearch, Search, SecondBranch,
           Unswap, PassUp, addResult, Finished
    <2>2. /\ phase' \in {"idle", "form", "regroup", "search", "return", "done", "panic"}
          /\ phase' \notin {"idle", "done"} => phase \notin {"idle", "done"}
        BY <1>4 DEF Next, vars, request, NextForm, regroup, StartSearch, Search, SecondBranch, Return,
           Unswap, PassUp, addResult, Finished, Requested
    <2> QED
        BY <1>1, <1>2, <2>1, <2>2, SameRequest DEF Requested
<1> QED
    BY <1>3, <1>4

LEMMA CandidatesStep ==
    ASSUME Requested, Candidates, Calls, [Next]_vars
    PROVE  Candidates'
<1>1. Len(ranked) \in Nat /\ Len(tries) = Len(ranked) /\ ranked' = ranked
    BY ListLength, SameRequest DEF Requested, Candidates, Arranged
<1>2. \A s : Arranged(s)' <=> Arranged(s)
    BY <1>1 DEF Arranged, Lists, Indexes
<1>3. ASSUME NEW size \in FormTypes, NEW want \in Wanted, Generate(size, want)
      PROVE  Candidates'
    BY <1>1, <1>2, <1>3 DEF Candidates, Generate, Requested
<1>4. CASE NextForm
    BY <1>1, <1>2, <1>4 DEF Candidates, NextForm, Requested
<1>5. CASE regroup
    <2>1. Tail(todo) \in Wanted
        BY <1>5, TailWanted DEF regroup, Candidates
    <2>2. CASE Positions(Head(todo)) = {}
        BY <1>1, <1>2, <1>5, <2>1, <2>2 DEF Candidates, regroup
    <2>3. CASE Positions(Head(todo)) # {}
        <3>1. Arranged(tries')
            BY <1>5, <2>3, OnePlace, SwapArranged DEF Candidates, regroup
        <3>2. skip + 1 \in 0..Len(ranked)
            BY <1>1, <2>3, OnePlace DEF Indexes
        <3> QED
            BY <1>1, <1>2, <1>5, <2>1, <2>3, <3>1, <3>2 DEF Candidates, regroup
    <2> QED
        BY <2>2, <2>3
<1>6. CASE StartSearch
    BY <1>1, <1>2, <1>6 DEF Candidates, StartSearch
<1>7. CASE Search
    <2>1. Arranged(tries')
        <3>1. CASE tries' = tries
            BY <3>1 DEF Candidates
        <3>2. CASE tries' # tries
            <4>1. /\ tries' = Swap(tries, Top.start + 1, Top.check + 1)
                  /\ ~(Top.start = formType \/ Top.check = Len(tries)) /\ ~(Top.start >= Len(tries))
                BY <1>7, <3>2 DEF Search
            <4>2. stack # <<>> /\ Top \in Frames /\ CallOK(Top)
                BY <1>7, PopFacts DEF Search, Calls, Top
            <4>3. Top.start < Len(ranked) /\ Top.check < Len(ranked)
                BY <1>1, <4>1, <4>2 DEF CallOK, Frames, Requested
            <4> QED
                BY <4>1, <4>2, <4>3, SwapPlaces, SwapArranged DEF Candidates
        <3> QED
            BY <3>1, <3>2
    <2>2. caseL' \in {0, 1}
        BY <1>7, Flips DEF Search, Candidates
    <2>3. found' \in BOOLEAN
        BY <1>7 DEF Search, Candidates, Return
    <2> QED
        BY <1>1, <1>2, <1>7, <2>1, <2>2, <2>3 DEF Candidates, Search
<1>8. CASE SecondBranch
    BY <1>1, <1>2, <1>8 DEF Candidates, SecondBranch
<1>9. CASE Unswap
    <2>1. Arranged(tries')
        BY <1>9, SwapPlaces, SwapArranged DEF Candidates, Unswap
    <2> QED
        BY <1>1, <1>2, <1>9, <2>1 DEF Candidates, Unswap, Return
<1>10. CASE PassUp
    BY <1>1, <1>2, <1>10 DEF Candidates, PassUp, Return
<1>11. CASE addResult
    BY <1>1, <1>2, <1>11 DEF Candidates, addResult
<1>12. CASE UNCHANGED vars
    BY <1>1, <1>2, <1>12 DEF Candidates, vars
<1> QED
    BY <1>3, <1>4, <1>5, <1>6, <1>7, <1>8, <1>9, <1>10, <1>11, <1>12 DEF Next, Finished

-----------------------------------------------------------------------------
(* The calls and the pinned numbers.                                        *)

\* While a request lasts, what it asks for stays the same.
LEMMA SameFits ==
    ASSUME UNCHANGED <<ranked, formType, willBe>>
    PROVE  /\ Fits' = Fits /\ Pinned' = Pinned /\ Indexes' = Indexes /\ Lists' = Lists
           /\ skip' = skip => \A f : CallOK(f)' <=> CallOK(f)
<1> QED
    BY DEF Fits, Pinned, Indexes, Lists, CallOK

\* Requested numbers that fit leave room in the form.
LEMMA PinnedFit ==
    ASSUME Requested, Candidates, Placing, Fits, todo = <<>>,
           phase \in {"regroup", "search", "return", "panic"}
    PROVE  {tries[k] : k \in 1..skip} = Pinned /\ skip <= formType
<1>1. DOMAIN todo = {}
    <2>1. Len(todo) = 0 /\ DOMAIN todo = 1..Len(todo)
        BY WantedSeq, EmptySeq DEF Candidates
    <2> QED
        BY <2>1
<1>2. {tries[k] : k \in 1..skip} = Pinned
    <2>1. {todo[k] : k \in DOMAIN todo} = {}
        BY <1>1
    <2> QED
        BY <2>1 DEF Placing
<1>3. Cardinality({tries[k] : k \in 1..skip}) = skip
    BY FrontSize DEF Requested, Candidates
<1> QED
    BY <1>2, <1>3 DEF Fits

\* A call of search returns, runs past the list, or swaps and calls itself.
LEMMA SearchShape ==
    ASSUME Search
    PROVE  \/ \E v \in BOOLEAN : Return(v) /\ UNCHANGED tries /\ (v => notInResults /\ allFormsCheck)
           \/ /\ phase' = "panic" /\ UNCHANGED <<tries, stack, found>>
              /\ Top.start >= Len(tries) /\ Top.start # formType
           \/ /\ ~(Top.start = formType \/ Top.check = Len(tries)) /\ ~(Top.start >= Len(tries))
              /\ tries' = Swap(tries, Top.start + 1, Top.check + 1)
              /\ phase' = phase /\ found' = found
              /\ stack' = Deeper(1, Top.start + ((((caseL + 1) % 2) + 1) % 2), Top.check + ((caseL + 1) % 2))
<1>1. CASE notInResults /\ allFormsCheck
    BY <1>1 DEF Search
<1>2. CASE ~(notInResults /\ allFormsCheck) /\ (Top.start = formType \/ Top.check = Len(tries))
    BY <1>2, Zenon DEF Search
<1>3. CASE ~(notInResults /\ allFormsCheck) /\ ~(Top.start = formType \/ Top.check = Len(tries))
    <2>1. CASE Top.start >= Len(tries)
        BY <1>3, <2>1, Zenon DEF Search
    <2>2. CASE ~(Top.start >= Len(tries))
        <3>1. /\ tries' = Swap(tries, Top.start + 1, Top.check + 1)
              /\ stack' = Deeper(1, Top.start + ((((caseL + 1) % 2) + 1) % 2), Top.check + ((caseL + 1) % 2))
            BY <1>3, <2>2, Zenon DEF Search, Deeper
        <3>2. UNCHANGED <<phase, found>>
            BY <1>3, <2>2, Zenon DEF Search
        <3>3. phase' = phase /\ found' = found
            BY <3>2
        <3> QED
            BY <1>3, <2>2, <3>1, <3>3, Zenon
    <2> QED
        BY <2>1, <2>2
<1> QED
    BY <1>1, <1>2, <1>3

LEMMA PopCalls ==
    ASSUME Calls, stack # <<>>, stack' = Pop, phase' = "return",
           UNCHANGED <<ranked, formType, willBe, skip>>
    PROVE  Calls'
<1>1. /\ Len(stack) \in Nat \ {0} /\ Pop \in Seq(Frames) /\ Len(Pop) = Len(stack) - 1
      /\ \A k \in 1..Len(stack) - 1 : Pop[k] = stack[k]
      /\ Pop # <<>> => Len(stack) - 1 \in 1..Len(stack)
    BY PopFacts DEF Calls
<1>2. ASSUME NEW k \in 1..Len(Pop)
      PROVE  Pop[k] = stack[k] /\ CallOK(stack[k]) /\ stack[k].branch # 0
    BY <1>1, <1>2 DEF Calls
<1>3. Pop # <<>> => Pop[Len(Pop)].branch # 0
    <2>1. Pop # <<>> => Len(Pop) \in 1..Len(Pop)
        BY <1>1, EmptySeq
    <2> QED
        BY <1>2, <2>1
<1> QED
    BY <1>1, <1>2, <1>3, SameFits DEF Calls, Top

LEMMA DeeperCalls ==
    ASSUME Requested, Calls, stack # <<>>, phase' = "search",
           NEW b \in {1, 2}, NEW x \in Nat, NEW y \in Nat, stack' = Deeper(b, x, y),
           UNCHANGED <<ranked, formType, willBe, skip>>,
           Top.start < Len(ranked), Top.start # formType, Top.check < Len(ranked),
           skip <= x, y \in formType..Len(ranked), Fits => x <= formType
    PROVE  Calls'
<1>1. /\ stack' \in Seq(Frames) /\ Len(stack') = Len(stack) + 1 /\ Len(stack) \in Nat \ {0}
      /\ \A k \in 1..Len(stack) :
            /\ stack'[k].start = stack[k].start /\ stack'[k].check = stack[k].check
            /\ stack'[k].branch = IF k = Len(stack) THEN b ELSE stack[k].branch
      /\ stack'[Len(stack) + 1] = [start |-> x, check |-> y, branch |-> 0]
    <2>1. stack \in Seq(Frames) /\ Len(stack) \in Nat \ {0} /\ b \in 0..2
        BY PopFacts DEF Calls
    <2>2. /\ Deeper(b, x, y) \in Seq(Frames) /\ Len(Deeper(b, x, y)) = Len(stack) + 1
          /\ \A k \in 1..Len(stack) :
                /\ Deeper(b, x, y)[k].start = stack[k].start
                /\ Deeper(b, x, y)[k].check = stack[k].check
                /\ Deeper(b, x, y)[k].branch = IF k = Len(stack) THEN b ELSE stack[k].branch
          /\ Deeper(b, x, y)[Len(stack) + 1] = [start |-> x, check |-> y, branch |-> 0]
        BY <2>1, CallFacts
    <2> QED
        BY <2>1, <2>2
<1>2. CallOK([start |-> x, check |-> y, branch |-> 0])
    BY DEF CallOK
<1>3. ASSUME NEW k \in 1..Len(stack)
      PROVE  CallOK(stack'[k]) /\ stack'[k].branch # 0
    <2>1. CASE k = Len(stack)
        BY <1>1, <2>1 DEF Calls, CallOK, Top
    <2>2. CASE k # Len(stack)
        <3>1. k < Len(stack)
            BY <1>1, <2>2
        <3> QED
            BY <1>1, <2>2, <3>1 DEF Calls, CallOK
    <2> QED
        BY <2>1, <2>2
<1>4. ASSUME NEW k \in 1..Len(stack')
      PROVE  CallOK(stack'[k]) /\ (k < Len(stack') => stack'[k].branch # 0)
    <2>1. k \in 1..Len(stack) \/ k = Len(stack) + 1
        BY <1>1
    <2> QED
        BY <1>1, <1>2, <1>3, <2>1
<1>5. stack' # <<>>
    BY <1>1, EmptySeq
<1> QED
    BY <1>1, <1>4, <1>5, SameFits DEF Calls, Top

LEMMA CallsStep ==
    ASSUME Requested, Candidates, Calls, Placing, [Next]_vars
    PROVE  Calls'
<1>0. Len(ranked) \in Nat /\ Len(tries) = Len(ranked) /\ ranked' = ranked
    BY ListLength, SameRequest DEF Requested, Candidates, Arranged
<1>1. ASSUME stack = <<>>, stack' = <<>>, phase' # "search"  PROVE Calls'
    <2>1. 1..Len(stack') = {} /\ stack' \in Seq(Frames)
        BY <1>1, EmptySeq
    <2> QED
        BY <1>1, <2>1 DEF Calls
<1>2. ASSUME NEW size \in FormTypes, NEW want \in Wanted, Generate(size, want)
      PROVE  Calls'
    BY <1>1, <1>2 DEF Calls, Generate
<1>3. CASE NextForm
    BY <1>1, <1>3 DEF Calls, NextForm
<1>4. CASE regroup
    BY <1>1, <1>4 DEF Calls, regroup
<1>5. CASE StartSearch
    <2> DEFINE f == [start |-> skip, check |-> formType, branch |-> 0]
    <2>1. stack' = Append(<<>>, f) /\ phase' = "search" /\ UNCHANGED <<ranked, formType, willBe, skip>>
        BY <1>5 DEF StartSearch, Call, request
    <2>2. f \in Frames
        BY <1>0 DEF Frames, Requested, Candidates
    <2>3. f.start = skip /\ f.check = formType /\ f.branch = 0
        OBVIOUS
    <2>4. CallOK(f)
        <3>1. Fits => skip <= formType
            BY <1>5, PinnedFit DEF StartSearch
        <3> QED
            BY <1>0, <1>5, <2>3, <3>1 DEF CallOK, Requested, Candidates, StartSearch
    <2> HIDE DEF f
    <2>5. stack' \in Seq(Frames) /\ stack' # <<>> /\ Len(stack') = 1 /\ stack'[1] = f
        BY <2>1, <2>2, EmptySeq, AppendProperties
    <2>6. \A k \in 1..Len(stack') : k = 1
        BY <2>5
    <2>7. \A g : CallOK(g)' <=> CallOK(g)
        BY <2>1, SameFits
    <2> QED
        BY <2>1, <2>3, <2>4, <2>5, <2>6, <2>7 DEF Calls, Top
<1>6. CASE Search
    <2>1. /\ stack # <<>> /\ Top \in Frames /\ CallOK(Top)
          /\ UNCHANGED <<ranked, formType, willBe, skip>>
        BY <1>6, PopFacts DEF Search, Calls, Top, request
    <2>2. CASE \E v \in BOOLEAN : Return(v)
        BY <2>1, <2>2, PopCalls DEF Return
    <2>3. CASE phase' = "panic" /\ UNCHANGED <<tries, stack, found>>
        BY <2>1, <2>3, SameFits DEF Calls
    <2>4. CASE /\ ~(Top.start = formType \/ Top.check = Len(tries)) /\ ~(Top.start >= Len(tries))
               /\ phase' = phase
               /\ stack' = Deeper(1, Top.start + ((((caseL + 1) % 2) + 1) % 2), Top.check + ((caseL + 1) % 2))
        <3> DEFINE a == (((caseL + 1) % 2) + 1) % 2
                   c == (caseL + 1) % 2
        <3>1. a \in {0, 1} /\ c \in {0, 1}
            BY Flips DEF Candidates
        <3> HIDE DEF a, c
        <3>2. Top.start \in Nat /\ Top.check \in Nat /\ formType \in Nat /\ skip \in Nat
            BY <1>0, <2>1 DEF Frames, Requested, Candidates
        <3>3. Top.start < Len(ranked) /\ Top.start # formType /\ Top.check < Len(ranked)
            BY <1>0, <2>1, <2>4, <3>2 DEF CallOK
        <3>4. /\ Top.start + a \in Nat /\ Top.check + c \in Nat /\ skip <= Top.start + a
              /\ Top.check + c \in formType..Len(ranked)
              /\ Fits => Top.start + a <= formType
            BY <1>0, <2>1, <3>1, <3>2, <3>3 DEF CallOK
        <3>5. phase' = "search"
            BY <1>6, <2>4 DEF Search
        <3>6. stack' = Deeper(1, Top.start + a, Top.check + c)
            BY <2>4, Zenon DEF a, c
        <3> QED
            BY <2>1, <3>3, <3>4, <3>5, <3>6, DeeperCalls
    <2> QED
        BY <1>6, <2>2, <2>3, <2>4, SearchShape
<1>7. CASE SecondBranch
    <2>1. /\ stack # <<>> /\ Top \in Frames /\ CallOK(Top) /\ Top.branch = 1
          /\ UNCHANGED <<ranked, formType, willBe, skip>>
        BY <1>7, PopFacts DEF SecondBranch, Calls, Top, request
    <2> DEFINE c == (caseL + 1) % 2
    <2>2. caseL \in {0, 1} /\ c \in {0, 1}
        BY Flips DEF Candidates
    <2>3. phase' = "search" /\ stack' = Deeper(2, Top.start + caseL, Top.check + c)
        BY <1>7 DEF SecondBranch, Deeper
    <2> HIDE DEF c
    <2>4. Top.start \in Nat /\ Top.check \in Nat /\ formType \in Nat /\ skip \in Nat
        BY <1>0, <2>1 DEF Frames, Requested, Candidates
    <2>5. Top.start < Len(ranked) /\ Top.start # formType /\ Top.check < Len(ranked)
        BY <2>1 DEF CallOK
    <2>6. /\ Top.start + caseL \in Nat /\ Top.check + c \in Nat /\ skip <= Top.start + caseL
          /\ Top.check + c \in formType..Len(ranked)
          /\ Fits => Top.start + caseL <= formType
        BY <1>0, <2>1, <2>2, <2>4, <2>5 DEF CallOK
    <2> QED
        BY <2>1, <2>3, <2>5, <2>6, DeeperCalls
<1>8. CASE Unswap
    BY <1>8, PopCalls DEF Unswap, Return, request
<1>9. CASE PassUp
    BY <1>9, PopCalls DEF PassUp, Return, request
<1>10. CASE addResult
    BY <1>1, <1>10 DEF Calls, addResult
<1>11. CASE UNCHANGED vars
    BY <1>11, SameFits DEF Calls, vars, request, Top
<1> QED
    BY <1>2, <1>3, <1>4, <1>5, <1>6, <1>7, <1>8, <1>9, <1>10, <1>11 DEF Next, Finished

-----------------------------------------------------------------------------
(* Where the requested numbers are.                                         *)

LEMMA RangeTail ==
    ASSUME NEW w \in Wanted, w # <<>>
    PROVE  {w[k] : k \in DOMAIN w} = {Head(w)} \union {Tail(w)[k] : k \in DOMAIN Tail(w)}
<1>1. /\ Len(w) \in Nat \ {0} /\ Head(w) = w[1]
      /\ DOMAIN w = 1..Len(w) /\ DOMAIN Tail(w) = 1..Len(w) - 1
      /\ \A k \in 1..Len(w) - 1 : Tail(w)[k] = w[k + 1]
    BY TailWanted, WantedSeq
<1>2. ASSUME NEW k \in DOMAIN w
      PROVE  w[k] = Head(w) \/ \E j \in DOMAIN Tail(w) : w[k] = Tail(w)[j]
    <2>1. CASE k = 1
        BY <1>1, <2>1
    <2>2. CASE k # 1
        <3>1. k - 1 \in DOMAIN Tail(w) /\ k - 1 + 1 = k
            BY <1>1, <2>2
        <3>2. Tail(w)[k - 1] = w[k]
            BY <1>1, <3>1
        <3> QED
            BY <3>1, <3>2
    <2> QED
        BY <2>1, <2>2
<1>3. Head(w) \in {w[k] : k \in DOMAIN w}
    BY <1>1
<1>4. ASSUME NEW j \in DOMAIN Tail(w)
      PROVE  Tail(w)[j] \in {w[k] : k \in DOMAIN w}
    <2>1. j + 1 \in DOMAIN w /\ Tail(w)[j] = w[j + 1]
        BY <1>1
    <2> QED
        BY <2>1
<1> QED
    BY <1>2, <1>3, <1>4

\* A swap beyond the pinned entries leaves them where they are.
LEMMA SwapBeyond ==
    ASSUME Requested, Candidates, NEW j \in Indexes, NEW k \in Indexes, skip < j, skip < k
    PROVE  {Swap(tries, j, k)[i] : i \in 1..skip} = {tries[i] : i \in 1..skip}
<1>1. Len(ranked) \in Nat /\ \A i \in 1..skip : i \in Indexes /\ i # j /\ i # k
    BY LenProperties DEF Requested, Candidates, Indexes
<1>2. \A i \in 1..skip : Swap(tries, j, k)[i] = tries[i]
    BY <1>1, SwapEntries DEF Candidates, Arranged
<1> QED
    BY <1>2

LEMMA PlacingStep ==
    ASSUME Requested, Candidates, Calls, Placing, [Next]_vars
    PROVE  Placing'
<1>1. SUFFICES ASSUME Fits', phase' \in {"regroup", "search", "return", "panic"}
      PROVE  {tries'[k] : k \in 1..skip'}
                \union ({todo'[k] : k \in DOMAIN todo'} \intersect {ranked'[k] : k \in Indexes'}) = Pinned'
    BY DEF Placing
<1>2. UNCHANGED <<ranked, formType, willBe>>
    BY <1>1, SameRequest
<1>3. Fits /\ Pinned' = Pinned /\ Indexes' = Indexes
    BY <1>1, <1>2, SameFits
<1>4. ASSUME UNCHANGED <<skip, todo>>, phase \in {"regroup", "search", "return", "panic"},
             {tries'[k] : k \in 1..skip} = {tries[k] : k \in 1..skip}
      PROVE  {tries'[k] : k \in 1..skip'}
                \union ({todo'[k] : k \in DOMAIN todo'} \intersect {ranked'[k] : k \in Indexes'}) = Pinned'
    BY <1>2, <1>3, <1>4 DEF Placing
<1>5. CASE NextForm
    <2>1. tries' = ranked /\ skip' = 0 /\ todo' = willBe
        BY <1>1, <1>5 DEF NextForm
    <2>2. {tries'[k] : k \in 1..skip'} = {}
        BY <2>1
    <2> QED
        BY <1>2, <1>3, <2>1, <2>2 DEF Pinned, Indexes
<1>6. CASE regroup
    <2> DEFINE x == Head(todo)
               F == {tries[k] : k \in 1..skip}
               R == {ranked[k] : k \in Indexes}
               T == {Tail(todo)[k] : k \in DOMAIN Tail(todo)}
    <2>1. todo' = Tail(todo) /\ todo # <<>>
        BY <1>6 DEF regroup
    <2>2. F \union (({x} \union T) \intersect R) = Pinned
        BY <1>3, <1>6, <2>1, RangeTail DEF Placing, Candidates, regroup
    <2>3. {tries[k] : k \in Indexes} = R /\ Len(ranked) \in Nat /\ Len(tries) = Len(ranked)
        BY ListLength DEF Candidates, Arranged, Requested
    <2>4. CASE Positions(x) = {}
        <3>1. x \in R => x \in F
            <4>1. SUFFICES ASSUME x \in R  PROVE x \in F
                OBVIOUS
            <4>2. PICK k \in Indexes : tries[k] = x
                BY <2>3, <4>1
            <4>3. k \in 1..skip
                BY <2>3, <2>4, <4>2 DEF Positions, Indexes, Candidates
            <4> QED
                BY <4>2, <4>3
        <3>2. UNCHANGED <<tries, skip>>
            BY <1>6, <2>4 DEF regroup
        <3> QED
            BY <1>2, <1>3, <2>1, <2>2, <3>1, <3>2
    <2>5. CASE Positions(x) # {}
        <3> DEFINE p == Min(Positions(x))
        <3>1. p \in Indexes /\ tries[p] = x /\ skip < p /\ skip + 1 \in Indexes
            BY <2>5, OnePlace
        <3>2. tries' = Swap(tries, skip + 1, p) /\ skip' = skip + 1
            BY <1>6, <2>5 DEF regroup
        <3> HIDE DEF p
        <3>3. skip \in Nat /\ skip < skip + 1 /\ 1..skip + 1 = (1..skip) \union {skip + 1}
            BY <2>3 DEF Candidates
        <3>4. {tries'[k] : k \in 1..skip} = F
            <4>1. {Swap(tries, skip + 1, p)[k] : k \in 1..skip} = F
                BY <3>1, <3>3, SwapBeyond
            <4> QED
                BY <3>2, <4>1
        <3>5. tries'[skip + 1] = x
            BY <3>1, <3>2, SwapEntries DEF Candidates, Arranged
        <3>6. {tries'[k] : k \in 1..skip'} = F \union {x}
            BY <3>2, <3>3, <3>4, <3>5
        <3>7. x \in R
            BY <2>3, <3>1
        <3> QED
            BY <1>2, <1>3, <2>1, <2>2, <3>6, <3>7
    <2> QED
        BY <2>4, <2>5
<1>7. CASE StartSearch
    BY <1>4, <1>7 DEF StartSearch
<1>8. ASSUME stack # <<>>, tries' = Swap(tries, Top.start + 1, Top.check + 1),
             Top.start + 1 \in Indexes, Top.check + 1 \in Indexes, todo = <<>>,
             phase \in {"regroup", "search", "return", "panic"}
      PROVE  {tries'[k] : k \in 1..skip} = {tries[k] : k \in 1..skip}
    <2>1. Top \in Frames /\ CallOK(Top)
        BY <1>8, PopFacts DEF Calls, Top
    <2>2. skip <= formType
        BY <1>3, <1>8, PinnedFit
    <2>3. skip < Top.start + 1 /\ skip < Top.check + 1
        BY <2>1, <2>2 DEF CallOK, Frames, Candidates, Requested
    <2> QED
        BY <1>8, <2>3, SwapBeyond
<1>9. CASE Search
    <2>1. /\ stack # <<>> /\ phase = "search" /\ todo = <<>> /\ UNCHANGED <<skip, todo>>
          /\ Len(tries) = Len(ranked) /\ Top \in Frames /\ CallOK(Top)
        BY <1>9, PopFacts, ListLength DEF Search, Calls, Candidates, Requested, Arranged, Top
    <2>2. {tries'[k] : k \in 1..skip} = {tries[k] : k \in 1..skip}
        <3>1. CASE tries' = tries
            BY <3>1
        <3>2. CASE /\ ~(Top.start = formType \/ Top.check = Len(tries)) /\ ~(Top.start >= Len(tries))
                   /\ tries' = Swap(tries, Top.start + 1, Top.check + 1)
            <4>1. Top.start < Len(ranked) /\ Top.check < Len(ranked)
                BY <2>1, <3>2, LenProperties DEF CallOK, Frames, Requested
            <4> QED
                BY <1>8, <2>1, <3>2, <4>1, SwapPlaces
        <3> QED
            BY <1>9, <3>1, <3>2, SearchShape
    <2> QED
        BY <1>4, <2>1, <2>2
<1>10. CASE SecondBranch
    BY <1>4, <1>10 DEF SecondBranch
<1>11. CASE Unswap
    <2>1. /\ stack # <<>> /\ phase = "return" /\ todo = <<>> /\ UNCHANGED <<skip, todo>>
          /\ tries' = Swap(tries, Top.start + 1, Top.check + 1) /\ Top.branch # 0
        BY <1>11 DEF Unswap, Candidates
    <2>2. {tries'[k] : k \in 1..skip} = {tries[k] : k \in 1..skip}
        BY <1>8, <2>1, SwapPlaces
    <2> QED
        BY <1>4, <2>1, <2>2
<1>12. CASE PassUp
    BY <1>4, <1>12 DEF PassUp
<1>13. CASE UNCHANGED vars
    BY <1>1, <1>4, <1>13 DEF vars
<1>14. CASE addResult \/ \E size \in FormTypes, want \in Wanted : Generate(size, want)
    BY <1>1, <1>14 DEF addResult, Generate
<1> QED
    BY <1>5, <1>6, <1>7, <1>9, <1>10, <1>11, <1>12, <1>13, <1>14 DEF Next, Finished

-----------------------------------------------------------------------------
(* The forms handed out.                                                    *)

\* What is handed out is the front of the list, one form more.
LEMMA OneMore ==
    ASSUME Requested, Candidates, Answers, phase = "return"
    PROVE  LET new == Append(results, leading(tries))
           IN  /\ leading(tries) \in SUBSET Numbers
               /\ Cardinality(leading(tries)) = formType
               /\ new \in Seq(SUBSET Numbers) /\ Len(new) = Len(results) + 1
               /\ \A k \in 1..Len(results) : new[k] = results[k]
               /\ new[Len(results) + 1] = leading(tries)
               /\ Len(results) \in Nat
<1>1. formType \in 0..Len(ranked) /\ Len(ranked) \in Nat
    BY LenProperties DEF Requested
<1>2. leading(tries) \in SUBSET Numbers
    BY <1>1 DEF leading, Candidates, Arranged, Lists, Indexes
<1>3. Cardinality(leading(tries)) = formType
    BY <1>1, FrontSize DEF leading, Candidates, Requested
<1> HIDE DEF leading
<1> QED
    BY <1>2, <1>3, AppendProperties, LenProperties DEF Answers

LEMMA AnswersStep ==
    ASSUME Requested, Candidates, Calls, Answers, [Next]_vars
    PROVE  Answers'
<1>1. Len(results) \in Nat /\ HowMany \in Nat \ {0}
    BY LenProperties, SizesAssumption DEF Answers
<1>2. ASSUME NEW size \in FormTypes, NEW want \in Wanted, Generate(size, want)
      PROVE  Answers'
    BY <1>1, <1>2 DEF Answers, Generate
<1>3. CASE NextForm
    BY <1>1, <1>3 DEF Answers, NextForm
<1>4. CASE regroup
    BY <1>1, <1>4 DEF Answers, regroup
<1>5. CASE StartSearch
    BY <1>1, <1>5 DEF Answers, StartSearch
<1>6. CASE Search
    <2>1. UNCHANGED <<results, stuck, formType, won>> /\ phase = "search"
        BY <1>6 DEF Search, request
    <2>2. phase' \in {"search", "return", "panic"}
        BY <1>6, <2>1, SearchShape DEF Return
    <2>3. phase' = "return" /\ found' => tries' = tries /\ notInResults /\ allFormsCheck
        BY <1>6, <2>1, SearchShape DEF Return
    <2> QED
        BY <1>1, <2>1, <2>2, <2>3 DEF Answers, notInResults, allFormsCheck, leading
<1>7. CASE SecondBranch
    BY <1>1, <1>7 DEF Answers, SecondBranch
<1>8. CASE Unswap
    BY <1>1, <1>8 DEF Answers, Unswap, Return
<1>9. CASE PassUp
    BY <1>1, <1>9 DEF Answers, PassUp, Return, request, notInResults, allFormsCheck, leading
<1>10. CASE addResult
    <2>1. CASE notInResults
        <3>1. /\ results' = Append(results, leading(tries)) /\ phase' = "form" /\ phase = "return"
              /\ stuck' = stuck \union (IF found THEN {} ELSE {Len(results) + 1})
            BY <1>10, <2>1 DEF addResult
        <3>2. /\ results' \in Seq(SUBSET Numbers) /\ Len(results') = Len(results) + 1
            BY <3>1, OneMore
        <3>3. Len(results) < HowMany /\ stuck \subseteq 1..Len(results)
            BY <3>1 DEF Answers
        <3>4. stuck' \subseteq 1..Len(results')
            <4>1. \A r \in Nat : 1..r + 1 = (1..r) \union {r + 1}
                OBVIOUS
            <4>2. 1..Len(results') = (1..Len(results)) \union {Len(results) + 1}
                BY <1>1, <3>2, <4>1
            <4>3. stuck' \subseteq stuck \union {Len(results) + 1}
                BY <3>1
            <4> QED
                BY <3>3, <4>2, <4>3
        <3>5. Len(results') <= HowMany
            BY <1>1, <3>2, <3>3
        <3> QED
            BY <3>1, <3>2, <3>4, <3>5 DEF Answers
    <2>2. CASE ~notInResults
        BY <1>1, <1>10, <2>2 DEF Answers, addResult
    <2> QED
        BY <2>1, <2>2
<1>11. CASE UNCHANGED vars
    BY <1>1, <1>11 DEF Answers, vars, request, notInResults, allFormsCheck, leading
<1> QED
    BY <1>2, <1>3, <1>4, <1>5, <1>6, <1>7, <1>8, <1>9, <1>10, <1>11 DEF Next, Finished

\* What has been handed out stays as it is; only addResult adds to it.
LEMMA SameResults ==
    ASSUME [Next]_vars, ~addResult
    PROVE  results' = results /\ stuck' = stuck
<1> QED
    BY DEF Next, vars, Generate, NextForm, regroup, StartSearch, Search, SecondBranch, Unswap,
       PassUp, Finished

LEMMA DistinctStep ==
    ASSUME Requested, Candidates, Answers, DistinctForms, [Next]_vars
    PROVE  DistinctForms'
<1>1. CASE ~addResult
    <2>1. results = <<>> => Len(results) = 0
        BY EmptySeq
    <2> QED
        BY <1>1, <2>1, SameResults, SameRequest DEF DistinctForms, Answers
<1>2. CASE addResult
    <2>1. phase = "return" /\ formType' = formType
        BY <1>2 DEF addResult, request
    <2>2. CASE notInResults
        <3>1. results' = Append(results, leading(tries))
            BY <1>2, <2>2 DEF addResult
        <3>2. /\ Len(results') = Len(results) + 1 /\ Len(results) \in Nat
              /\ \A k \in 1..Len(results) : results'[k] = results[k]
              /\ results'[Len(results) + 1] = leading(tries)
              /\ Cardinality(leading(tries)) = formType
            BY <2>1, <3>1, OneMore
        <3>3. \A k \in 1..Len(results') : k \in 1..Len(results) \/ k = Len(results) + 1
            BY <3>2
        <3> QED
            BY <2>1, <2>2, <3>2, <3>3 DEF DistinctForms, notInResults
    <2>3. CASE ~notInResults
        BY <1>2, <2>1, <2>3 DEF addResult, DistinctForms
    <2> QED
        BY <2>2, <2>3
<1> QED
    BY <1>1, <1>2

LEMMA WillBeStep ==
    ASSUME Requested, Candidates, Calls, Placing, Answers, WillBeInEveryForm, [Next]_vars
    PROVE  WillBeInEveryForm'
<1>1. CASE \E size \in FormTypes, want \in Wanted : Generate(size, want)
    <2>1. results' = <<>> /\ phase' # "panic"
        BY <1>1 DEF Generate, Answers
    <2>2. 1..Len(results') = {}
        BY <2>1, EmptySeq
    <2> QED
        BY <2>1, <2>2 DEF WillBeInEveryForm
<1>2. ASSUME ~ \E size \in FormTypes, want \in Wanted : Generate(size, want)
      PROVE  UNCHANGED <<ranked, formType, willBe>>
    BY <1>2 DEF Next, vars, request, NextForm, regroup, StartSearch, Search, SecondBranch, Unswap,
       PassUp, addResult, Finished
<1>3. CASE Search
    <2>1. Fits => phase' # "panic"
        <3>1. SUFFICES ASSUME Fits, phase' = "panic"  PROVE FALSE
            OBVIOUS
        <3>2. Top.start >= Len(tries) /\ Top.start # formType /\ phase = "search" /\ stack # <<>>
            BY <1>3, <3>1, SearchShape DEF Return, Search, Calls
        <3>3. Top \in Frames /\ CallOK(Top) /\ Len(tries) = Len(ranked) /\ Len(ranked) \in Nat
            BY <3>2, PopFacts, ListLength DEF Calls, Top, Candidates, Arranged, Requested
        <3> QED
            BY <3>1, <3>2, <3>3 DEF CallOK, Frames, Requested
    <2>2. results' = results /\ UNCHANGED <<ranked, formType, willBe>>
        BY <1>3 DEF Search, request
    <2> QED
        BY <2>1, <2>2, SameFits DEF WillBeInEveryForm
<1>4. CASE addResult
    <2>1. phase = "return" /\ phase' # "panic" /\ todo = <<>> /\ UNCHANGED <<ranked, formType, willBe>>
        BY <1>4 DEF addResult, request, Candidates
    <2>2. CASE notInResults
        <3>1. results' = Append(results, leading(tries))
            BY <1>4, <2>2 DEF addResult
        <3>2. /\ Len(results') = Len(results) + 1 /\ Len(results) \in Nat
              /\ \A k \in 1..Len(results) : results'[k] = results[k]
              /\ results'[Len(results) + 1] = leading(tries)
            BY <2>1, <3>1, OneMore
        <3>3. Fits => Pinned \subseteq leading(tries)
            BY <2>1, PinnedFit DEF leading, Requested, Candidates
        <3>4. \A k \in 1..Len(results') : k \in 1..Len(results) \/ k = Len(results) + 1
            BY <3>2
        <3> QED
            BY <2>1, <3>2, <3>3, <3>4, SameFits DEF WillBeInEveryForm
    <2>3. CASE ~notInResults
        BY <1>4, <2>1, <2>3, SameFits DEF addResult, WillBeInEveryForm
    <2> QED
        BY <2>2, <2>3
<1>5. CASE ~Search /\ ~addResult /\ ~ \E size \in FormTypes, want \in Wanted : Generate(size, want)
    <2>1. phase' = "panic" => phase = "panic"
        BY <1>5 DEF Next, vars, NextForm, regroup, StartSearch, SecondBranch, Unswap, PassUp, Return,
           Finished
    <2> QED
        BY <1>2, <1>5, <2>1, SameResults, SameFits DEF WillBeInEveryForm
<1> QED
    BY <1>1, <1>3, <1>4, <1>5

-----------------------------------------------------------------------------
(* What a failed search leaves behind.                                      *)

LEMMA UndoneStep ==
    ASSUME Requested, Candidates, Calls, Undone, [Next]_vars
    PROVE  Undone'
<1>1. SUFFICES ASSUME phase' \in {"search", "return"}
      PROVE  Undone'
    BY DEF Undone
<1>2. UNCHANGED <<ranked, formType, willBe>>
    BY <1>1, SameRequest
<1>3. \A s : leading(s)' = leading(s)
    BY <1>2 DEF leading
<1>4. tries \in Lists /\ Len(tries) = Len(ranked)
    BY ListLength DEF Candidates, Arranged, Requested
<1>5. CASE StartSearch
    <2> DEFINE f == [start |-> skip, check |-> formType, branch |-> 0]
               saved == [k \in Nat |-> tries]
    <2>1. stack' = Append(<<>>, f) /\ phase' = "search" /\ first' = leading(tries) /\ tries' = tries
        BY <1>5 DEF StartSearch, Call
    <2>2. f \in Frames /\ f.branch = 0
        BY LenProperties DEF Frames, Requested, Candidates
    <2> HIDE DEF f
    <2>3. Len(stack') = 1 /\ stack'[1] = f
        BY <2>1, <2>2, EmptySeq, AppendProperties
    <2>4. saved \in [Nat -> Lists] /\ saved[1] = tries
        BY <1>4
    <2>5. \A k \in 1..Len(stack') : k = 1
        BY <2>3
    <2> HIDE DEF saved
    <2>6. Lists' = Lists
        BY <1>2, SameFits
    <2>7. \A k \in 1..Len(stack') : stack'[k].branch = 0
        BY <2>2, <2>3, <2>5
    <2> QED
        BY <1>3, <2>1, <2>3, <2>4, <2>6, <2>7 DEF Undone
<1>6. ASSUME phase \in {"search", "return"}
      PROVE  \E saved \in [Nat -> Lists] :
                /\ leading(saved[1]) = first
                /\ \A k \in 1..Len(stack) : stack[k].branch # 0 =>
                    saved[k + 1] = Swap(saved[k], stack[k].start + 1, stack[k].check + 1)
                /\ phase = "search" => tries = saved[Len(stack)]
                /\ phase = "return" /\ ~found => tries = saved[Len(stack) + 1]
    BY <1>6 DEF Undone
<1>7. ASSUME NEW saved \in [Nat -> Lists],
             leading(saved[1]) = first, first' = first,
             \A k \in 1..Len(stack) : stack[k].branch # 0 =>
                saved[k + 1] = Swap(saved[k], stack[k].start + 1, stack[k].check + 1),
             stack # <<>>, stack' = Pop, phase' = "return", ~found' => tries' = saved[Len(stack)]
      PROVE  Undone'
    <2>1. /\ Len(stack) \in Nat \ {0} /\ Len(stack') = Len(stack) - 1
          /\ \A k \in 1..Len(stack) - 1 : stack'[k] = stack[k]
        BY <1>7, PopFacts DEF Calls
    <2>2. Len(stack') + 1 = Len(stack) /\ \A k \in 1..Len(stack') : k \in 1..Len(stack)
        BY <2>1
    <2>3. \A k \in 1..Len(stack') : stack'[k].branch # 0 =>
            saved[k + 1] = Swap(saved[k], stack'[k].start + 1, stack'[k].check + 1)
        BY <1>7, <2>1, <2>2
    <2>4. Lists' = Lists
        BY <1>2, SameFits
    <2> QED
        BY <1>3, <1>7, <2>2, <2>3, <2>4 DEF Undone
<1>8. ASSUME NEW saved \in [Nat -> Lists], NEW b \in {1, 2}, NEW x \in Nat, NEW y \in Nat,
             leading(saved[1]) = first, first' = first,
             \A k \in 1..Len(stack) : k < Len(stack) \/ b = 2 =>
                saved[k + 1] = Swap(saved[k], stack[k].start + 1, stack[k].check + 1),
             stack # <<>>, stack' = Deeper(b, x, y), phase' = "search", tries' \in Lists,
             tries' = Swap(saved[Len(stack)], Top.start + 1, Top.check + 1)
      PROVE  Undone'
    <2> DEFINE l == Len(stack)
               kept == [saved EXCEPT ![l + 1] = tries']
    <2>1. /\ l \in Nat \ {0} /\ Len(stack') = l + 1
          /\ \A k \in 1..l : /\ stack'[k].start = stack[k].start /\ stack'[k].check = stack[k].check
                             /\ stack'[k].branch = IF k = l THEN b ELSE stack[k].branch
          /\ stack'[l + 1].branch = 0
        <3>1. /\ l \in Nat \ {0} /\ b \in 0..2 /\ stack \in Seq(Frames)
            BY <1>8, PopFacts DEF Calls
        <3>2. stack # <<>> /\ stack' = Deeper(b, x, y)
            BY <1>8
        <3> HIDE DEF l, kept
        <3>3. /\ Len(Deeper(b, x, y)) = Len(stack) + 1
              /\ \A k \in 1..Len(stack) :
                    /\ Deeper(b, x, y)[k].start = stack[k].start
                    /\ Deeper(b, x, y)[k].check = stack[k].check
                    /\ Deeper(b, x, y)[k].branch = IF k = Len(stack) THEN b ELSE stack[k].branch
              /\ Deeper(b, x, y)[Len(stack) + 1] = [start |-> x, check |-> y, branch |-> 0]
            BY <3>1, <3>2, CallFacts
        <3>4. Deeper(b, x, y)[Len(stack) + 1].branch = 0
            BY <3>3
        <3> QED
            BY <3>1, <3>2, <3>3, <3>4 DEF l
    <2>2. /\ kept \in [Nat -> Lists] /\ kept[l + 1] = tries'
          /\ \A k \in Nat : k # l + 1 => kept[k] = saved[k]
        BY <1>8, <2>1
    <2> HIDE DEF l, kept
    <2>3. ASSUME NEW k \in 1..l
          PROVE  kept[k + 1] = Swap(kept[k], stack'[k].start + 1, stack'[k].check + 1)
        <3>1. k # l + 1 /\ k \in Nat /\ kept[k] = saved[k]
            BY <2>1, <2>2
        <3>2. CASE k = l
            BY <1>8, <2>1, <2>2, <3>1, <3>2 DEF Top, l
        <3>3. CASE k # l
            <4>1. k + 1 # l + 1 /\ k + 1 \in Nat /\ k < l
                BY <2>1, <3>3
            <4>2. kept[k + 1] = saved[k + 1]
                BY <2>2, <4>1
            <4>3. saved[k + 1] = Swap(saved[k], stack[k].start + 1, stack[k].check + 1)
                BY <1>8, <4>1 DEF l
            <4> QED
                BY <2>1, <3>1, <4>2, <4>3
        <3> QED
            BY <3>2, <3>3
    <2>4. \A k \in 1..Len(stack') : stack'[k].branch # 0 =>
            kept[k + 1] = Swap(kept[k], stack'[k].start + 1, stack'[k].check + 1)
        <3>1. \A k \in 1..l + 1 : k \in 1..l \/ k = l + 1
            BY <2>1
        <3> QED
            BY <2>1, <2>3, <3>1
    <2>5. kept[1] = saved[1]
        BY <2>1, <2>2
    <2>6. Lists' = Lists
        BY <1>2, SameFits
    <2> QED
        BY <1>3, <1>8, <2>1, <2>2, <2>4, <2>5, <2>6 DEF Undone
<1>9. CASE Search
    <2>1. phase = "search" /\ stack # <<>> /\ first' = first /\ Top \in Frames /\ Top.branch = 0
        BY <1>9, PopFacts DEF Search, Calls
    <2>2. PICK saved \in [Nat -> Lists] :
            /\ leading(saved[1]) = first
            /\ \A k \in 1..Len(stack) : stack[k].branch # 0 =>
                saved[k + 1] = Swap(saved[k], stack[k].start + 1, stack[k].check + 1)
            /\ tries = saved[Len(stack)]
        BY <1>6, <2>1
    <2>3. CASE \E v \in BOOLEAN : Return(v) /\ UNCHANGED tries
        BY <1>7, <2>1, <2>2, <2>3 DEF Return
    <2>4. CASE /\ ~(Top.start = formType \/ Top.check = Len(tries)) /\ ~(Top.start >= Len(tries))
               /\ tries' = Swap(tries, Top.start + 1, Top.check + 1)
               /\ phase' = phase /\ found' = found
               /\ stack' = Deeper(1, Top.start + ((((caseL + 1) % 2) + 1) % 2), Top.check + ((caseL + 1) % 2))
        <3> DEFINE x == Top.start + ((((caseL + 1) % 2) + 1) % 2)
                   y == Top.check + ((caseL + 1) % 2)
        <3>1. x \in Nat /\ y \in Nat
            BY <2>1, Flips DEF Candidates, Frames
        <3>2. stack' = Deeper(1, x, y)
            BY <2>4, Zenon
        <3> HIDE DEF x, y
        <3>3. tries' = Swap(saved[Len(stack)], Top.start + 1, Top.check + 1)
            BY <2>2, <2>4
        <3>4. tries' \in Lists /\ phase' = "search"
            BY <2>1, <2>4, CandidatesStep, SameFits, <1>2 DEF Candidates, Arranged
        <3>5. \A k \in 1..Len(stack) : k < Len(stack) \/ 1 = 2 =>
                saved[k + 1] = Swap(saved[k], stack[k].start + 1, stack[k].check + 1)
            BY <2>2 DEF Calls
        <3> QED
            BY <1>8, <2>1, <2>2, <3>1, <3>2, <3>3, <3>4, <3>5
    <2> QED
        BY <1>1, <1>9, <2>3, <2>4, SearchShape
<1>10. CASE SecondBranch
    <2>1. /\ phase = "return" /\ ~found /\ stack # <<>> /\ first' = first /\ tries' = tries
          /\ phase' = "search" /\ Top \in Frames /\ Top.branch = 1
        BY <1>10, PopFacts DEF SecondBranch, Calls
    <2>2. PICK saved \in [Nat -> Lists] :
            /\ leading(saved[1]) = first
            /\ \A k \in 1..Len(stack) : stack[k].branch # 0 =>
                saved[k + 1] = Swap(saved[k], stack[k].start + 1, stack[k].check + 1)
            /\ tries = saved[Len(stack) + 1]
        BY <1>6, <2>1
    <2> DEFINE y == Top.check + ((caseL + 1) % 2)
    <2>3. Top.start + caseL \in Nat /\ y \in Nat
        BY <2>1, Flips DEF Candidates, Frames
    <2>4. stack' = Deeper(2, Top.start + caseL, y)
        BY <1>10, Zenon DEF SecondBranch, Deeper
    <2> HIDE DEF y
    <2>5. Len(stack) \in 1..Len(stack) /\ Len(stack) \in Nat
        BY <2>1, PopFacts DEF Calls
    <2>6. \A k \in 1..Len(stack) :
            saved[k + 1] = Swap(saved[k], stack[k].start + 1, stack[k].check + 1)
        <3>1. \A k \in 1..Len(stack) : stack[k].branch # 0
            <4>1. \A k \in 1..Len(stack) : k < Len(stack) \/ k = Len(stack)
                BY <2>5
            <4> QED
                BY <2>1, <4>1 DEF Calls, Top
        <3> QED
            BY <2>2, <3>1
    <2>7. tries' = Swap(saved[Len(stack)], Top.start + 1, Top.check + 1)
        BY <2>1, <2>2, <2>5, <2>6 DEF Top
    <2> QED
        BY <1>4, <1>8, <2>1, <2>2, <2>3, <2>4, <2>6, <2>7
<1>11. CASE Unswap
    <2>1. /\ phase = "return" /\ ~found /\ stack # <<>> /\ first' = first
          /\ phase' = "return" /\ stack' = Pop /\ Top.branch = 2
          /\ tries' = Swap(tries, Top.start + 1, Top.check + 1)
        BY <1>11 DEF Unswap, Return
    <2>2. PICK saved \in [Nat -> Lists] :
            /\ leading(saved[1]) = first
            /\ \A k \in 1..Len(stack) : stack[k].branch # 0 =>
                saved[k + 1] = Swap(saved[k], stack[k].start + 1, stack[k].check + 1)
            /\ tries = saved[Len(stack) + 1]
        BY <1>6, <2>1
    <2>3. Len(stack) \in 1..Len(stack) /\ Len(stack) \in Nat
        BY <2>1, PopFacts DEF Calls
    <2>4. tries = Swap(saved[Len(stack)], Top.start + 1, Top.check + 1)
        BY <2>1, <2>2, <2>3 DEF Top
    <2>5. Top.start + 1 \in Indexes /\ Top.check + 1 \in Indexes /\ saved[Len(stack)] \in Lists
        BY <2>1, <2>3, SwapPlaces
    <2>6. tries' = saved[Len(stack)]
        BY <2>1, <2>4, <2>5, SwapEntries
    <2> QED
        BY <1>7, <2>1, <2>2, <2>6
<1>12. CASE PassUp
    <2>1. /\ phase = "return" /\ stack # <<>> /\ first' = first
          /\ phase' = "return" /\ stack' = Pop /\ found'
        BY <1>12 DEF PassUp, Return
    <2>2. PICK saved \in [Nat -> Lists] :
            /\ leading(saved[1]) = first
            /\ \A k \in 1..Len(stack) : stack[k].branch # 0 =>
                saved[k + 1] = Swap(saved[k], stack[k].start + 1, stack[k].check + 1)
        BY <1>6, <2>1
    <2> QED
        BY <1>7, <2>1, <2>2
<1>13. CASE UNCHANGED vars
    BY <1>1, <1>2, <1>3, <1>6, <1>13, SameFits DEF vars, Undone
<1>14. CASE NextForm \/ regroup \/ addResult \/ \E size \in FormTypes, want \in Wanted : Generate(size, want)
    BY <1>1, <1>14 DEF NextForm, regroup, addResult, Generate
<1> QED
    BY <1>2, <1>5, <1>9, <1>10, <1>11, <1>12, <1>13, <1>14, SameFits DEF Next, Finished, Undone

-----------------------------------------------------------------------------
(* Every form is begun from the same list.                                  *)

\* What Traced says of a particular trace.
Traces(lists, skips, known) ==
    /\ lists \in [Nat -> Lists] /\ skips \in [Nat -> Nat] /\ known \in 0..Len(willBe)
    /\ lists[0] = ranked /\ skips[0] = 0
    /\ \A k \in 0..Len(willBe) : k < known =>
        Moved(lists[k], skips[k], willBe[k + 1], lists[k + 1], skips[k + 1])
    /\ phase = "regroup" =>
        /\ Len(todo) <= Len(willBe)
        /\ \A k \in 1..Len(todo) : todo[k] = willBe[Len(willBe) - Len(todo) + k]
        /\ Len(willBe) - Len(todo) <= known
        /\ tries = lists[Len(willBe) - Len(todo)]
        /\ skip = skips[Len(willBe) - Len(todo)]
    /\ results # <<>> \/ phase \in {"search", "return"} =>
        known = Len(willBe) /\ leading(lists[known]) = first

LEMMA TracedStep ==
    ASSUME Requested, Candidates, Calls, Answers, Traced, [Next]_vars
    PROVE  Traced'
<1>0. /\ Len(willBe) \in Nat /\ willBe \in Seq(Numbers) /\ Len(todo) \in Nat
    BY WantedSeq DEF Requested, Candidates
<1>1. CASE \E size \in FormTypes, want \in Wanted : Generate(size, want)
    <2>1. PICK size \in FormTypes, want \in Wanted : Generate(size, want)
        BY <1>1
    <2>2. /\ phase' \in {"form", "done"} /\ results' = <<>> /\ ranked' = ranked
          /\ willBe' \in Wanted
        BY <2>1 DEF Generate, Answers
    <2>3. Len(willBe') \in Nat
        BY <2>2, WantedSeq
    <2> DEFINE lists == [k \in Nat |-> ranked]
               skips == [k \in Nat |-> 0]
    <2>4. lists \in [Nat -> Lists]' /\ skips \in [Nat -> Nat] /\ lists[0] = ranked /\ skips[0] = 0
        BY <2>2 DEF Requested, Arranged, Lists, Indexes
    <2>5. \A k \in 0..Len(willBe') : ~(k < 0)
        BY <2>3
    <2>6. 0 \in 0..Len(willBe')
        BY <2>3
    <2> HIDE DEF lists, skips
    <2> QED
        BY <2>2, <2>4, <2>5, <2>6 DEF Traced
<1>2. CASE UNCHANGED <<ranked, formType, willBe>>
    <2>1. PICK lists \in [Nat -> Lists], skips \in [Nat -> Nat], known \in 0..Len(willBe) :
            Traces(lists, skips, known)
        BY DEF Traced, Traces
    <2>2. Lists' = Lists /\ \A s : leading(s)' = leading(s)
        BY <1>2, SameFits DEF leading
    <2> USE <1>2
    <2>3. ASSUME phase' # "regroup", first' = first,
                 results' # <<>> \/ phase' \in {"search", "return"} =>
                    results # <<>> \/ phase \in {"search", "return"}
          PROVE  Traced'
        BY <2>1, <2>2, <2>3 DEF Traced, Traces
    <2>4. CASE NextForm
        <3>1. CASE phase' = "regroup"
            <4>1. /\ tries' = ranked /\ skip' = 0 /\ todo' = willBe /\ phase = "form"
                  /\ first' = first /\ results' = results
                BY <2>4, <3>1 DEF NextForm
            <4>2. Len(willBe) - Len(willBe) = 0 /\ Len(willBe) <= Len(willBe) /\ 0 <= known
                BY <1>0
            <4>3. \A k \in 1..Len(willBe) : 0 + k = k
                BY <1>0
            <4>4. lists[0] = ranked /\ skips[0] = 0
                BY <2>1 DEF Traces
            <4>5. Traces(lists, skips, known)'
                BY <2>1, <2>2, <3>1, <4>1, <4>2, <4>3, <4>4 DEF Traces
            <4> QED
                BY <4>5 DEF Traced, Traces
        <3>2. CASE phase' # "regroup"
            BY <2>3, <2>4, <3>2 DEF NextForm
        <3> QED
            BY <3>1, <3>2
    <2>5. CASE regroup
        <3> DEFINE m == Len(willBe) - Len(todo)
                   x == Head(todo)
        <3>1. /\ phase = "regroup" /\ phase' = "regroup" /\ todo # <<>> /\ todo' = Tail(todo)
              /\ results' = results /\ first' = first
            BY <2>5 DEF regroup
        <3>2. /\ Len(todo) \in Nat \ {0} /\ Len(todo') = Len(todo) - 1 /\ x = todo[1]
              /\ \A k \in 1..Len(todo) - 1 : todo'[k] = todo[k + 1]
            BY <3>1, TailWanted DEF Candidates
        <3>3. /\ Len(todo) <= Len(willBe) /\ m <= known /\ tries = lists[m] /\ skip = skips[m]
              /\ \A k \in 1..Len(todo) : todo[k] = willBe[m + k]
            BY <2>1, <3>1 DEF Traces
        <3>4. /\ m \in Nat /\ Len(willBe) - Len(todo') = m + 1 /\ m + 1 \in 0..Len(willBe)
              /\ Len(todo') <= Len(willBe)
            <4>1. \A a \in Nat, b \in Nat \ {0} : b <= a =>
                    a - b \in Nat /\ a - (b - 1) = a - b + 1 /\ a - b + 1 \in 0..a /\ b - 1 <= a
                OBVIOUS
            <4> QED
                BY <1>0, <3>2, <3>3, <4>1
        <3>5. ASSUME NEW k \in 1..Len(todo')
              PROVE  todo'[k] = willBe[Len(willBe) - Len(todo') + k]
            <4>1. k + 1 \in 1..Len(todo) /\ m + (k + 1) = m + 1 + k /\ k \in 1..Len(todo) - 1
                BY <1>0, <3>2, <3>4
            <4>2. todo'[k] = willBe[m + (k + 1)]
                BY <3>2, <3>3, <4>1
            <4> QED
                BY <3>4, <4>1, <4>2
        <3>6. x = willBe[m + 1]
            <4>1. 1 \in 1..Len(todo)
                BY <3>2
            <4> QED
                BY <3>2, <3>3, <4>1
        <3>7. Moved(tries, skip, x, tries', skip')
            BY <2>5 DEF regroup, Moved, Positions
        <3>8. tries' \in Lists /\ skip' \in Nat
            <4>1. Candidates'
                BY CandidatesStep
            <4> QED
                BY <2>2, <4>1 DEF Candidates, Arranged
        <3>9. Requested'
            BY RequestedStep
        <3> HIDE DEF m
        <3>10. CASE m < known
            <4>1. Moved(lists[m], skips[m], willBe[m + 1], lists[m + 1], skips[m + 1])
                <5>1. m \in 0..Len(willBe)
                    BY <1>0, <3>4
                <5> QED
                    BY <2>1, <3>10, <5>1 DEF Traces
            <4>2. tries' = lists[m + 1] /\ skip' = skips[m + 1]
                BY <3>3, <3>6, <3>7, <4>1 DEF Moved
            <4>3. m + 1 <= known
                BY <3>4, <3>10
            <4>4. Traces(lists, skips, known)'
                BY <2>1, <2>2, <3>1, <3>4, <3>5, <4>2, <4>3 DEF Traces
            <4> QED
                BY <4>4 DEF Traced, Traces
        <3>11. CASE ~(m < known)
            <4> DEFINE lists2 == [lists EXCEPT ![m + 1] = tries']
                       skips2 == [skips EXCEPT ![m + 1] = skip']
            <4>1. m = known
                BY <3>3, <3>4, <3>11
            <4>2. results = <<>>
                <5>1. m # Len(willBe)
                    BY <1>0, <3>2 DEF m
                <5> QED
                    BY <2>1, <4>1, <5>1 DEF Traces
            <4>3. /\ lists2 \in [Nat -> Lists] /\ skips2 \in [Nat -> Nat]
                  /\ lists2[m + 1] = tries' /\ skips2[m + 1] = skip'
                  /\ \A k \in Nat : k # m + 1 => lists2[k] = lists[k] /\ skips2[k] = skips[k]
                <5>0. m + 1 \in Nat
                    BY <3>4
                <5>1. lists \in [Nat -> Lists] /\ skips \in [Nat -> Nat] /\ m + 1 \in Nat
                    BY <2>1, <5>0
                <5>2. /\ lists2 \in [Nat -> Lists] /\ lists2[m + 1] = tries'
                      /\ \A k \in Nat : k # m + 1 => lists2[k] = lists[k]
                    BY <3>8, <5>1
                <5>3. /\ skips2 \in [Nat -> Nat] /\ skips2[m + 1] = skip'
                      /\ \A k \in Nat : k # m + 1 => skips2[k] = skips[k]
                    BY <3>8, <5>1
                <5> QED
                    BY <5>2, <5>3
            <4> HIDE DEF lists2, skips2
            <4>4. lists2[0] = ranked /\ skips2[0] = 0
                <5>1. 0 # m + 1
                    BY <3>4
                <5> QED
                    BY <2>1, <4>3, <5>1 DEF Traces
            <4>5. ASSUME NEW k \in 0..Len(willBe), k < m + 1
                  PROVE  Moved(lists2[k], skips2[k], willBe[k + 1], lists2[k + 1], skips2[k + 1])
                <5>1. k \in Nat /\ k + 1 \in Nat /\ k # m + 1
                    BY <3>4, <4>5
                <5>2. CASE k = m
                    BY <3>3, <3>6, <3>7, <4>3, <5>1, <5>2
                <5>3. CASE k # m
                    <6>1. k < known /\ k + 1 # m + 1
                        BY <3>4, <4>1, <4>5, <5>1, <5>3
                    <6>2. Moved(lists[k], skips[k], willBe[k + 1], lists[k + 1], skips[k + 1])
                        BY <2>1, <6>1 DEF Traces
                    <6> QED
                        BY <4>3, <5>1, <6>1, <6>2
                <5> QED
                    BY <5>2, <5>3
            <4>6. m + 1 <= m + 1
                BY <3>4
            <4>7. Traced'
                <5>1. /\ lists2 \in [Nat -> Lists'] /\ skips2 \in [Nat -> Nat] /\ m + 1 \in 0..Len(willBe')
                      /\ lists2[0] = ranked' /\ skips2[0] = 0
                    BY <2>2, <3>4, <4>3, <4>4
                <5>2. \A k \in 0..Len(willBe') : k < m + 1 =>
                        Moved(lists2[k], skips2[k], willBe'[k + 1], lists2[k + 1], skips2[k + 1])
                    BY <4>5
                <5>3. /\ Len(todo') <= Len(willBe')
                      /\ \A k \in 1..Len(todo') : todo'[k] = willBe'[Len(willBe') - Len(todo') + k]
                      /\ Len(willBe') - Len(todo') <= m + 1
                      /\ tries' = lists2[Len(willBe') - Len(todo')]
                      /\ skip' = skips2[Len(willBe') - Len(todo')]
                    BY <3>4, <3>5, <4>3, <4>6
                <5> QED
                    BY <3>1, <4>2, <5>1, <5>2, <5>3 DEF Traced
            <4> QED
                BY <4>7
        <3> QED
            BY <3>10, <3>11
    <2>6. CASE StartSearch
        <3>1. /\ phase = "regroup" /\ phase' = "search" /\ todo = <<>> /\ first' = leading(tries)
            BY <2>6 DEF StartSearch
        <3>2. Len(todo) = 0 /\ Len(willBe) - Len(todo) = Len(willBe)
            BY <1>0, <3>1, EmptySeq
        <3>3. known = Len(willBe) /\ tries = lists[known]
            <4>1. Len(willBe) <= known /\ tries = lists[Len(willBe)]
                BY <2>1, <3>1, <3>2 DEF Traces
            <4>2. known = Len(willBe)
                BY <1>0, <4>1
            <4> QED
                BY <4>1, <4>2
        <3>4. Traces(lists, skips, known)'
            BY <2>1, <2>2, <3>1, <3>3 DEF Traces
        <3> QED
            BY <3>4 DEF Traced, Traces
    <2>7. CASE Search
        BY <2>3, <2>7, SearchShape DEF Search, Return
    <2>8. CASE SecondBranch \/ Unswap \/ PassUp \/ addResult
        BY <2>3, <2>8 DEF SecondBranch, Unswap, PassUp, Return, addResult
    <2>9. CASE UNCHANGED vars
        <3>1. Traces(lists, skips, known)'
            BY <2>1, <2>2, <2>9 DEF Traces, vars
        <3> QED
            BY <3>1 DEF Traced, Traces
    <2>10. CASE \E size \in FormTypes, want \in Wanted : Generate(size, want)
        BY <1>1, <2>10
    <2> QED
        BY <2>4, <2>5, <2>6, <2>7, <2>8, <2>9, <2>10 DEF Next, Finished
<1>3. UNCHANGED <<ranked, formType, willBe>> \/ \E size \in FormTypes, want \in Wanted : Generate(size, want)
    BY DEF Next, vars, request, NextForm, regroup, StartSearch, Search, SecondBranch, Unswap,
       PassUp, addResult, Finished
<1> QED
    BY <1>1, <1>2, <1>3

-----------------------------------------------------------------------------
(* The first choice.                                                        *)

LEMMA FirstStep ==
    ASSUME Requested, Candidates, Calls, Answers, Undone, Traced, OnlyFirstChoiceHasWon, [Next]_vars
    PROVE  OnlyFirstChoiceHasWon'
<1>0. \A form : HasWon(form)' <=> HasWon(form)
    BY SameRequest DEF HasWon
<1>1. ASSUME results # <<>>, StartSearch  PROVE first' = first
    <2>1. /\ phase = "regroup" /\ todo = <<>> /\ first' = leading(tries)
          /\ Len(willBe) \in Nat
        BY <1>1, WantedSeq DEF StartSearch, Requested
    <2>2. Len(willBe) - Len(todo) = Len(willBe)
        BY <2>1, EmptySeq
    <2>3. tries \in Lists /\ leading(tries) = first
        BY <1>1, <2>1, <2>2 DEF Traced, Candidates, Arranged
    <2> QED
        BY <2>1, <2>3
<1>2. ASSUME results # <<>>, ~StartSearch  PROVE first' = first
    BY <1>2 DEF Next, vars, Generate, NextForm, regroup, Search, SecondBranch, Unswap, PassUp,
       addResult, Finished, Answers
<1>3. CASE results = <<>> /\ ~addResult
    <2>1. 1..Len(results') = {}
        BY <1>3, SameResults, EmptySeq
    <2> QED
        BY <2>1 DEF OnlyFirstChoiceHasWon
<1>4. CASE results # <<>> /\ ~addResult
    BY <1>0, <1>1, <1>2, <1>4, SameResults DEF OnlyFirstChoiceHasWon
<1>5. CASE addResult
    <2>1. phase = "return" /\ stack = <<>> /\ first' = first
        BY <1>5 DEF addResult
    <2>2. CASE notInResults
        <3>1. /\ results' = Append(results, leading(tries))
              /\ stuck' = stuck \union (IF found THEN {} ELSE {Len(results) + 1})
            BY <1>5, <2>2 DEF addResult
        <3>2. /\ Len(results') = Len(results) + 1 /\ Len(results) \in Nat
              /\ \A k \in 1..Len(results) : results'[k] = results[k]
              /\ results'[Len(results) + 1] = leading(tries)
            BY <2>1, <3>1, OneMore
        <3>3. found => ~HasWon(leading(tries))
            BY <2>1 DEF Answers, allFormsCheck, HasWon
        <3>4. ~found => leading(tries) = first
            <4>1. Len(stack) + 1 = 1
                BY <2>1, EmptySeq
            <4> QED
                BY <2>1, <4>1 DEF Undone
        <3>5. \A k \in 1..Len(results') : k \in 1..Len(results) \/ k = Len(results) + 1
            BY <3>2
        <3>6. ASSUME NEW k \in 1..Len(results'), HasWon(results'[k])
              PROVE  k \in stuck' /\ results'[k] = first
            <4>1. CASE k \in 1..Len(results)
                BY <3>1, <3>2, <3>6, <4>1 DEF OnlyFirstChoiceHasWon
            <4>2. CASE k = Len(results) + 1
                BY <3>1, <3>2, <3>3, <3>4, <3>6, <4>2
            <4> QED
                BY <3>5, <4>1, <4>2
        <3> QED
            BY <1>0, <2>1, <3>6 DEF OnlyFirstChoiceHasWon
    <2>3. CASE ~notInResults
        BY <1>0, <1>5, <2>1, <2>3 DEF addResult, OnlyFirstChoiceHasWon
    <2> QED
        BY <2>2, <2>3
<1> QED
    BY <1>3, <1>4, <1>5

-----------------------------------------------------------------------------

LEMMA InitInv == Init => IInv
<1> SUFFICES ASSUME Init PROVE IInv
    OBVIOUS
<1>1. ranked \in Seq(Numbers) /\ Arranged(ranked) /\ Len(ranked) \in Nat
    BY RankingArranged, LenProperties DEF Init
<1>2. <<>> \in Wanted
    <2>1. <<>> \in [1..0 -> Numbers] /\ 0 \in 0..MaxWanted
        BY SizesAssumption
    <2> QED
        BY <2>1 DEF Wanted
<1>3. Len(<<>>) = 0 /\ 1..0 = {}
    BY EmptySeq
<1>4. Requested /\ Candidates
    <2>1. Arranged(tries)
        BY <1>1 DEF Init
    <2>2. Requested
        BY <1>1, <1>2, SizesAssumption DEF Init, Requested
    <2>3. skip \in 0..Len(ranked) /\ caseL \in {0, 1} /\ found \in BOOLEAN
        <3>1. skip = 0 /\ caseL = 0 /\ found = FALSE
            BY DEF Init
        <3>2. 0 \in 0..Len(ranked)
            BY <1>1
        <3> QED
            BY <3>1, <3>2
    <2> QED
        BY <1>2, <2>1, <2>2, <2>3 DEF Init, Candidates
<1>5. Calls
    BY <1>3, EmptySeq DEF Init, Calls
<1>6. Placing /\ Undone
    BY DEF Init, Placing, Undone
<1>7. Answers
    BY <1>3, EmptySeq, SizesAssumption DEF Init, Answers
<1>8. Traced
    <2> DEFINE lists == [k \in Nat |-> ranked]
               skips == [k \in Nat |-> 0]
    <2>1. /\ lists \in [Nat -> Lists] /\ skips \in [Nat -> Nat]
          /\ lists[0] = ranked /\ skips[0] = 0
        BY <1>1 DEF Arranged
    <2>2. Len(willBe) = 0 /\ 0 \in 0..0 /\ \A k \in 0..0 : ~(k < 0)
        BY <1>3 DEF Init
    <2> HIDE DEF lists, skips
    <2> QED
        BY <2>1, <2>2 DEF Init, Traced
<1>9. DistinctForms /\ WillBeInEveryForm /\ OnlyFirstChoiceHasWon
    BY <1>3 DEF Init, DistinctForms, WillBeInEveryForm, OnlyFirstChoiceHasWon
<1> QED
    BY <1>4, <1>5, <1>6, <1>7, <1>8, <1>9 DEF IInv

\* The inductive invariant of the search.
THEOREM GeneratorInvariant == Spec => []IInv
<1>1. IInv /\ [Next]_vars => IInv'
    BY RequestedStep, CandidatesStep, CallsStep, PlacingStep, AnswersStep, UndoneStep, TracedStep,
       DistinctStep, WillBeStep, FirstStep DEF IInv
<1> QED
    BY <1>1, InitInv, PTL DEF Spec

\* The list stays a permutation of the ranking, and the search only ever looks
\* beyond the form.
THEOREM TypeCorrect == Spec => []TypeOK
<1>1. IInv => TypeOK
    <2> SUFFICES ASSUME IInv PROVE TypeOK
        OBVIOUS
    <2>1. Len(tries) = Len(ranked)
        BY ListLength DEF IInv, Requested, Candidates, Arranged
    <2>2. {tries[k] : k \in 1..Len(tries)} = {ranked[k] : k \in 1..Len(ranked)}
        BY <2>1 DEF IInv, Candidates, Arranged, Indexes
    <2>3. \A k \in 1..Len(stack) : stack[k].check \in formType..Len(tries)
        BY <2>1 DEF IInv, Calls, CallOK
    <2> QED
        BY <2>1, <2>2, <2>3 DEF TypeOK, IInv, Requested, Candidates, Answers
<1> QED
    BY <1>1, GeneratorInvariant, PTL

\* No form is handed out twice.
THEOREM FormsDiffer == Spec => []DistinctForms
<1>1. IInv => DistinctForms
    BY DEF IInv
<1> QED
    BY <1>1, GeneratorInvariant, PTL

\* Requested numbers that fit are in every form, and the search stays within the
\* list.
THEOREM RequestedAreIn == Spec => []WillBeInEveryForm
<1>1. IInv => WillBeInEveryForm
    BY DEF IInv
<1> QED
    BY <1>1, GeneratorInvariant, PTL

\* A form that has won is the ranking's first choice, after a search that found
\* nothing and undid all its swaps.
THEOREM WonFormsAreFirst == Spec => []OnlyFirstChoiceHasWon
<1>1. IInv => OnlyFirstChoiceHasWon
    BY DEF IInv
<1> QED
    BY <1>1, GeneratorInvariant, PTL
=============================================================================
