------------------------ MODULE ArchiveQueriesProofs ------------------------
(***************************************************************************)
(* What the recursions that build and read an archive's tree compute, for   *)
(* every lottery, table, window and request: each group that was drawn has  *)
(* its node, the node's count is the number of draws that contain it, and   *)
(* what is answered from the tree is what counting the draws finds.         *)
(***************************************************************************)
EXTENDS ArchiveQueries, WellFoundedInduction, SequenceTheorems, FiniteSetTheorems, TLAPS

-----------------------------------------------------------------------------
(* Induction over the natural numbers, in the form of sets.                 *)

\* A nonempty set of natural numbers has a least element.
LEMMA LeastNumber ==
    ASSUME NEW T, T \subseteq Nat, T # {}
    PROVE  \E x \in T : \A y \in T : ~(y < x)
<1> DEFINE R == {p \in Nat \X Nat : p[1] < p[2]}
<1>1. IsWellFoundedOn(R, Nat)
    BY NatLessThanWellFounded DEF OpToRel
<1> HIDE DEF R
<1>2. \E x \in T : \A y \in T : ~(<<y, x>> \in R)
    BY <1>1, WFMin, Zenon
<1> QED
    BY <1>2 DEF R

\* A set with zero and the successors of its elements has all of them.
LEMMA SetInduction ==
    ASSUME NEW T, T \subseteq Nat, 0 \in T, \A n \in T : n + 1 \in T
    PROVE  T = Nat
<1> SUFFICES ASSUME Nat \ T # {} PROVE FALSE
    OBVIOUS
<1>1. PICK x \in Nat \ T : \A y \in Nat \ T : ~(y < x)
    <2>1. Nat \ T \subseteq Nat
        OBVIOUS
    <2> QED
        BY <2>1, LeastNumber
<1>2. x # 0 /\ x - 1 \in Nat
    BY <1>1
<1>3. x - 1 \in T
    BY <1>1, <1>2
<1> QED
    BY <1>1, <1>2, <1>3

-----------------------------------------------------------------------------
(* The calls of LoNode.Build, without its recursion.                        *)

\* The k-th number of a group has a slot below the one before it.
Fits(lottery, form, path, k) ==
    /\ form[path[k]] <= lottery
    /\ IF k = 1 THEN 0 < form[path[k]]
       ELSE path[k - 1] < path[k] /\ form[path[k - 1]] < form[path[k]]

\* The calls that are made below one of them.
Below(lottery, form, howMany, path) ==
    {q \in Seq(DOMAIN form) :
        /\ Len(path) < Len(q) /\ Len(q) <= howMany
        /\ \A k \in 1..Len(path) : q[k] = path[k]
        /\ \A k \in Len(path) + 1..Len(q) : Fits(lottery, form, q, k)}

\* Whether a number fits is between it and the one before.
LEMMA FitsAlike ==
    ASSUME NEW lottery, NEW form, NEW q, NEW r, NEW k \in Nat \ {0}, \A j \in 1..k : q[j] = r[j]
    PROVE  Fits(lottery, form, q, k) <=> Fits(lottery, form, r, k)
<1>1. q[k] = r[k] /\ (k # 1 => q[k - 1] = r[k - 1])
    OBVIOUS
<1> QED
    BY <1>1 DEF Fits

\* The loop of Build goes on with the numbers that fit.
LEMMA FollowsFits ==
    ASSUME NEW lottery \in Nat, NEW form \in Seq(Nat),
           NEW path \in Seq(DOMAIN form), NEW i \in DOMAIN form
    PROVE  Follows(lottery, form, path, i)
               <=> Fits(lottery, form, Append(path, i), Len(path) + 1)
<1> DEFINE q == Append(path, i)
           n == Len(path)
<1>1. /\ n \in Nat /\ q \in Seq(DOMAIN form) /\ Len(q) = n + 1 /\ q[n + 1] = i
      /\ \A k \in 1..n : q[k] = path[k] /\ path[k] \in DOMAIN form
    OBVIOUS
<1>2. DOMAIN form \subseteq Nat /\ \A j \in DOMAIN form : form[j] \in Nat
    OBVIOUS
<1>3. CASE path = <<>>
    <2>1. Spelled(form, path) = <<>> /\ n = 0
        BY <1>3 DEF Spelled
    <2> QED
        BY <1>1, <1>2, <1>3, <2>1 DEF Follows, Later, HasSlot, Num, Fits
<1>4. CASE path # <<>>
    <2>1. n \in 1..n /\ n + 1 # 1 /\ n + 1 - 1 = n
        BY <1>1, <1>4
    <2>2. Last(path) = path[n] /\ q[n] = path[n]
        BY <1>1, <2>1 DEF Last
    <2>3. Spelled(form, path) \in Seq(Nat) /\ Len(Spelled(form, path)) = n
        BY <1>2 DEF Spelled
    <2>4. Spelled(form, path) # <<>> /\ Last(Spelled(form, path)) = form[path[n]]
        BY <2>1, <2>3 DEF Last, Spelled
    <2> HIDE DEF q, n
    <2> QED
        BY <1>1, <1>2, <1>4, <2>1, <2>2, <2>4 DEF Follows, Later, HasSlot, Num, Fits, q, n
<1> QED
    BY <1>3, <1>4

\* One round of the recursion.
LEMMA BelowUnfolds ==
    ASSUME NEW lottery \in Nat, NEW form \in Seq(Nat), NEW howMany \in Nat,
           NEW path \in Seq(DOMAIN form)
    PROVE  Below(lottery, form, howMany, path) =
               IF Len(path) >= howMany THEN {}
               ELSE UNION {{Append(path, i)} \union Below(lottery, form, howMany, Append(path, i)) :
                               i \in {j \in DOMAIN form : Follows(lottery, form, path, j)}}
<1> DEFINE B(p) == Below(lottery, form, howMany, p)
           next == {j \in DOMAIN form : Follows(lottery, form, path, j)}
           n == Len(path)
<1>1. n \in Nat
    OBVIOUS
<1>2. CASE n >= howMany
    BY <1>1, <1>2 DEF Below
<1>3. CASE n < howMany
    <2>1. ASSUME NEW q \in B(path)
          PROVE  \E i \in next : q = Append(path, i) \/ q \in B(Append(path, i))
        <3>1. /\ q \in Seq(DOMAIN form) /\ n < Len(q) /\ Len(q) <= howMany
              /\ \A k \in 1..n : q[k] = path[k]
              /\ \A k \in n + 1..Len(q) : Fits(lottery, form, q, k)
            BY <2>1 DEF Below
        <3> DEFINE i == q[n + 1]
                   r == Append(path, i)
        <3>2. n + 1 \in 1..Len(q) /\ i \in DOMAIN form
            <4>1. n + 1 \in 1..Len(q)
                <5>1. Len(q) \in Nat
                    BY <3>1
                <5> HIDE DEF n
                <5> QED
                    BY <1>1, <3>1, <5>1
            <4> QED
                BY <3>1, <4>1, ElementOfSeq
        <3>3. r \in Seq(DOMAIN form) /\ Len(r) = n + 1 /\ \A k \in 1..n + 1 : r[k] = q[k]
            <4>1. r \in Seq(DOMAIN form) /\ Len(r) = n + 1 /\ r[n + 1] = i /\ \A k \in 1..n : r[k] = path[k]
                BY <3>2
            <4>2. i = q[n + 1]
                OBVIOUS
            <4> HIDE DEF r, n, i
            <4>3. \A k \in 1..n + 1 : k \in 1..n \/ k = n + 1
                BY <1>1
            <4>4. \A k \in 1..n : q[k] = path[k]
                BY <3>1
            <4> QED
                BY <4>1, <4>2, <4>3, <4>4
        <3>4. Fits(lottery, form, q, n + 1)
            BY <1>1, <3>1, <3>2
        <3>5. Fits(lottery, form, r, n + 1)
            <4> HIDE DEF r, n
            <4>1. n + 1 \in Nat \ {0} /\ \A k \in 1..n + 1 : r[k] = q[k]
                BY <1>1, <3>3
            <4> QED
                BY <3>4, <4>1, FitsAlike
        <3>6. i \in next
            BY <3>2, <3>5, FollowsFits
        <3>7. CASE Len(q) = n + 1
            <4>1. q = r
                BY <3>1, <3>3, <3>7, SeqEqual
            <4> QED
                BY <3>6, <4>1
        <3>8. CASE Len(q) # n + 1
            <4>1. Len(r) < Len(q) /\ \A k \in Len(r) + 1..Len(q) : k \in n + 1..Len(q)
                <5>1. Len(q) \in Nat /\ n < Len(q) /\ Len(r) = n + 1
                    BY <3>1, <3>3
                <5> HIDE DEF r, n
                <5> QED
                    BY <1>1, <3>8, <5>1
            <4>2. q \in B(r)
                BY <3>1, <3>3, <4>1 DEF Below
            <4> QED
                BY <3>6, <4>2
        <3> QED
            BY <3>7, <3>8
    <2>2. ASSUME NEW i \in next, NEW q, q = Append(path, i) \/ q \in B(Append(path, i))
          PROVE  q \in B(path)
        <3> DEFINE r == Append(path, i)
        <3>1. r \in Seq(DOMAIN form) /\ Len(r) = n + 1 /\ \A k \in 1..n : r[k] = path[k]
            BY <1>1
        <3>2. Fits(lottery, form, r, n + 1)
            BY FollowsFits
        <3>3. CASE q = r
            <4>1. \A k \in n + 1..Len(r) : k = n + 1
                BY <1>1, <3>1
            <4>2. n < Len(r) /\ Len(r) <= howMany
                BY <1>1, <1>3, <3>1
            <4> HIDE DEF r
            <4> QED
                BY <3>1, <3>2, <3>3, <4>1, <4>2 DEF Below, r
        <3>4. CASE q \in B(r)
            <4>1. /\ q \in Seq(DOMAIN form) /\ n + 1 < Len(q) /\ Len(q) <= howMany
                  /\ \A k \in 1..n + 1 : q[k] = r[k]
                  /\ \A k \in n + 1 + 1..Len(q) : Fits(lottery, form, q, k)
                BY <3>1, <3>4 DEF Below
            <4>2. Fits(lottery, form, q, n + 1)
                <5> HIDE DEF r, n
                <5>1. n + 1 \in Nat \ {0} /\ \A k \in 1..n + 1 : q[k] = r[k]
                    BY <1>1, <4>1
                <5> QED
                    BY <3>2, <5>1, FitsAlike
            <4>3. \A k \in n + 1..Len(q) : k = n + 1 \/ k \in n + 1 + 1..Len(q)
                BY <1>1, <4>1
            <4>4. n < Len(q) /\ \A k \in 1..n : k \in 1..n + 1
                BY <1>1, <4>1
            <4> QED
                BY <3>1, <4>1, <4>2, <4>3, <4>4 DEF Below
        <3> QED
            BY <2>2, <3>3, <3>4
    <2>3. B(path) = UNION {{Append(path, i)} \union B(Append(path, i)) : i \in next}
        <3> HIDE DEF B, next
        <3>1. ASSUME NEW q \in UNION {{Append(path, i)} \union B(Append(path, i)) : i \in next}
              PROVE  \E i \in next : q = Append(path, i) \/ q \in B(Append(path, i))
            OBVIOUS
        <3> QED
            BY <2>1, <2>2, <3>1
    <2> QED
        BY <1>1, <1>3, <2>3
<1> QED
    BY <1>1, <1>2, <1>3

\* The recursion makes the calls of Below: it is well defined because Below solves
\* its equation, and no other solution agrees with it on the way down.
LEMMA BuildCalls ==
    ASSUME NEW lottery \in Nat, NEW form \in Seq(Nat), NEW howMany \in Nat
    PROVE  Build(lottery, form, howMany) = Below(lottery, form, howMany, <<>>)
<1> DEFINE P == Seq(DOMAIN form)
           next(path) == {j \in DOMAIN form : Follows(lottery, form, path, j)}
           Round(g) == [path \in P |->
                           IF Len(path) >= howMany THEN {}
                           ELSE UNION {{Append(path, i)} \union g[Append(path, i)] : i \in next(path)}]
           C == [path \in P |-> Below(lottery, form, howMany, path)]
           B == CHOOSE g : g = Round(g)
<1>1. Build(lottery, form, howMany) = B[<<>>]
    BY DEF Build
<1>0. \A path \in P :
          Below(lottery, form, howMany, path) =
              IF Len(path) >= howMany THEN {}
              ELSE UNION {{Append(path, i)} \union Below(lottery, form, howMany, Append(path, i)) :
                              i \in next(path)}
    BY BelowUnfolds
<1>2. \A path \in P : \A i \in next(path) : Append(path, i) \in P
    OBVIOUS
<1>3. C = Round(C)
    <2>1. ASSUME NEW path \in P
          PROVE  C[path] = Round(C)[path]
        <3>1. {{Append(path, i)} \union C[Append(path, i)] : i \in next(path)}
                  = {{Append(path, i)} \union Below(lottery, form, howMany, Append(path, i)) :
                         i \in next(path)}
            <4>1. \A i \in next(path) : C[Append(path, i)] = Below(lottery, form, howMany, Append(path, i))
                BY <1>2
            <4> HIDE DEF C, next
            <4> QED
                BY <4>1
        <3>2. C[path] = Below(lottery, form, howMany, path)
            OBVIOUS
        <3>3. Round(C)[path] =
                  IF Len(path) >= howMany THEN {}
                  ELSE UNION {{Append(path, i)} \union C[Append(path, i)] : i \in next(path)}
            <4> HIDE DEF C, next
            <4> QED
                BY <2>1
        <3> HIDE DEF C, Round, next
        <3> QED
            BY <1>0, <3>1, <3>2, <3>3
    <2> HIDE DEF P, next
    <2> QED
        BY <2>1
<1>4. B = Round(B)
    <2> HIDE DEF C, Round
    <2> QED
        BY <1>3
<1> DEFINE T == {m \in Nat : \A path \in P :
                    Len(path) + m >= howMany => B[path] = Below(lottery, form, howMany, path)}
<1>5. T = Nat
    <2> HIDE DEF B
    <2>1. 0 \in T
        <3> SUFFICES ASSUME NEW path \in P, Len(path) + 0 >= howMany
                     PROVE  B[path] = Below(lottery, form, howMany, path)
            OBVIOUS
        <3>1. Len(path) >= howMany
            OBVIOUS
        <3> QED
            BY <1>0, <1>4, <3>1
    <2>2. ASSUME NEW m \in T
          PROVE  m + 1 \in T
        <3> SUFFICES ASSUME NEW path \in P, Len(path) + (m + 1) >= howMany
                     PROVE  B[path] = Below(lottery, form, howMany, path)
            BY <2>2
        <3>1. \A i \in next(path) :
                  B[Append(path, i)] = Below(lottery, form, howMany, Append(path, i))
            <4> SUFFICES ASSUME NEW i \in next(path)
                         PROVE  B[Append(path, i)] = Below(lottery, form, howMany, Append(path, i))
                OBVIOUS
            <4>1. Append(path, i) \in P /\ Len(Append(path, i)) + m >= howMany
                BY <2>2
            <4> QED
                BY <2>2, <4>1
        <3>2. {{Append(path, i)} \union B[Append(path, i)] : i \in next(path)}
                  = {{Append(path, i)} \union Below(lottery, form, howMany, Append(path, i)) :
                         i \in next(path)}
            <4> HIDE DEF next
            <4> QED
                BY <3>1
        <3>3. B[path] = IF Len(path) >= howMany THEN {}
                        ELSE UNION {{Append(path, i)} \union B[Append(path, i)] : i \in next(path)}
            <4> HIDE DEF next
            <4> QED
                BY <1>4
        <3> QED
            <4> HIDE DEF next, T
            <4> QED
                BY <1>0, <3>2, <3>3
    <2> HIDE DEF T
    <2>3. T \subseteq Nat
        BY DEF T
    <2> QED
        BY <2>1, <2>2, <2>3, SetInduction
<1>6. <<>> \in P /\ Len(<<>>) + howMany >= howMany
    OBVIOUS
<1>7. howMany \in T
    BY <1>5
<1> HIDE DEF B
<1> QED
    BY <1>1, <1>6, <1>7

-----------------------------------------------------------------------------
(* A draw.                                                                  *)

\* The numbers of a group ascend, and so do their positions.
LEMMA FitsAscends ==
    ASSUME NEW lottery \in Nat, NEW form \in Seq(Nat), NEW q \in Seq(DOMAIN form),
           \A k \in 1..Len(q) : Fits(lottery, form, q, k),
           NEW j \in 1..Len(q), NEW k \in 1..Len(q), j < k
    PROVE  q[j] < q[k] /\ form[q[j]] < form[q[k]]
<1> DEFINE T == {m \in Nat : j + 1 + m <= Len(q) =>
                    q[j] < q[j + 1 + m] /\ form[q[j]] < form[q[j + 1 + m]]}
<1>0. \A i \in 1..Len(q) : q[i] \in Nat /\ form[q[i]] \in Nat
    <2>1. \A x \in DOMAIN form : x \in Nat /\ form[x] \in Nat
        <3>1. Len(form) \in Nat /\ DOMAIN form = 1..Len(form)
            BY LenProperties
        <3>2. \A x \in 1..Len(form) : form[x] \in Nat
            BY ElementOfSeq
        <3> QED
            BY <3>1, <3>2
    <2>2. \A i \in 1..Len(q) : q[i] \in DOMAIN form
        BY ElementOfSeq
    <2> QED
        BY <2>1, <2>2
<1>1. \A i \in 1..Len(q) : i # 1 => q[i - 1] < q[i] /\ form[q[i - 1]] < form[q[i]]
    BY DEF Fits
<1>2. 0 \in T
    <2> SUFFICES ASSUME j + 1 + 0 <= Len(q)
                 PROVE  q[j] < q[j + 1 + 0] /\ form[q[j]] < form[q[j + 1 + 0]]
        OBVIOUS
    <2>1. j + 1 \in 1..Len(q) /\ j + 1 # 1 /\ j + 1 - 1 = j /\ j + 1 + 0 = j + 1
        OBVIOUS
    <2> QED
        BY <1>1, <2>1
<1>3. ASSUME NEW m \in T
      PROVE  m + 1 \in T
    <2> SUFFICES ASSUME j + 1 + (m + 1) <= Len(q)
                 PROVE  q[j] < q[j + 1 + (m + 1)] /\ form[q[j]] < form[q[j + 1 + (m + 1)]]
        BY <1>3
    <2> DEFINE a == j + 1 + m
               b == j + 1 + (m + 1)
    <2>1. m \in Nat /\ b \in 1..Len(q) /\ b # 1 /\ b - 1 = a /\ a \in 1..Len(q)
        BY <1>3
    <2>2. q[j] < q[a] /\ form[q[j]] < form[q[a]]
        BY <1>3, <2>1
    <2>3. q[a] < q[b] /\ form[q[a]] < form[q[b]]
        BY <1>1, <2>1
    <2> HIDE DEF a, b
    <2>4. q[j] < q[b] /\ form[q[j]] < form[q[b]]
        <3>1. /\ q[j] \in Nat /\ q[a] \in Nat /\ q[b] \in Nat
              /\ form[q[j]] \in Nat /\ form[q[a]] \in Nat /\ form[q[b]] \in Nat
            BY <1>0, <2>1
        <3>2. \A x, y, z \in Nat : x < y /\ y < z => x < z
            OBVIOUS
        <3> QED
            BY <2>2, <2>3, <3>1, <3>2, Zenon
    <2> QED
        BY <2>4 DEF b
<1>4. T = Nat
    <2>1. T \subseteq Nat
        OBVIOUS
    <2> HIDE DEF T
    <2> QED
        BY <1>2, <1>3, <2>1, SetInduction
<1>5. k - j - 1 \in T /\ j + 1 + (k - j - 1) = k
    <2> HIDE DEF T
    <2> QED
        BY <1>4
<1> QED
    BY <1>5

\* Whoever is counted is a group of the draw.
LEMMA CallsAreGroups ==
    ASSUME NEW form \in [1..DrawSize -> Nat],
           NEW q \in Build(MaxNumber, form, MaxGroupSize)
    PROVE  /\ Spelled(form, q) \in Groups
           /\ ToSet(Spelled(form, q)) \subseteq ToSet(form)
<1> DEFINE g == Spelled(form, q)
<1> USE NumbersAssumption, SimulateSizesAssumption
<1>0. form \in Seq(Nat) /\ DOMAIN form = 1..DrawSize /\ MaxNumber \in Nat /\ MaxGroupSize \in Nat
    OBVIOUS
<1>1. q \in Below(MaxNumber, form, MaxGroupSize, <<>>)
    BY <1>0, BuildCalls
<1>2. /\ q \in Seq(DOMAIN form) /\ Len(q) \in 1..MaxGroupSize
      /\ \A k \in 1..Len(q) : Fits(MaxNumber, form, q, k)
    BY <1>0, <1>1 DEF Below
<1>3. \A k \in 1..Len(q) : q[k] \in DOMAIN form /\ form[q[k]] \in Nat
    BY <1>0, <1>2
<1>4. \A k \in 1..Len(q) : form[q[k]] \in 1..MaxNumber
    <2> SUFFICES ASSUME NEW k \in 1..Len(q)
                 PROVE  form[q[k]] \in 1..MaxNumber
        OBVIOUS
    <2>1. form[q[k]] <= MaxNumber
        BY <1>2 DEF Fits
    <2>2. 1 \in 1..Len(q) /\ 0 < form[q[1]]
        BY <1>2 DEF Fits
    <2>3. k # 1 => form[q[1]] < form[q[k]]
        <3> SUFFICES ASSUME k # 1 PROVE form[q[1]] < form[q[k]]
            OBVIOUS
        <3>1. 1 < k
            BY <1>2
        <3> QED
            BY <1>0, <1>2, <2>2, <3>1, FitsAscends
    <2> QED
        BY <1>0, <1>3, <2>1, <2>2, <2>3
<1>5. g \in [1..Len(q) -> 1..MaxNumber] /\ DOMAIN g = 1..Len(q)
    BY <1>2, <1>4 DEF Spelled
<1>6. Ascends(g)
    BY <1>0, <1>2, <1>5, FitsAscends DEF Ascends, Spelled
<1>7. ToSet(g) \subseteq ToSet(form)
    BY <1>3, <1>5 DEF ToSet, Spelled
<1> HIDE DEF g
<1>8. g \in {h \in [1..Len(q) -> 1..MaxNumber] : Ascends(h)}
    BY <1>5, <1>6
<1>9. g \in Groups
    BY <1>2, <1>8 DEF Groups
<1> QED
    BY <1>7, <1>9 DEF g

\* Each group of the draw is counted once.
LEMMA GroupsAreCalled ==
    ASSUME NEW form \in [1..DrawSize -> Nat], Ascends(form),
           NEW g \in Groups, ToSet(g) \subseteq ToSet(form)
    PROVE  \E q : {p \in Build(MaxNumber, form, MaxGroupSize) : Spelled(form, p) = g} = {q}
<1> USE NumbersAssumption, SimulateSizesAssumption
<1>0. form \in Seq(Nat) /\ DOMAIN form = 1..DrawSize /\ MaxNumber \in Nat /\ MaxGroupSize \in Nat
    OBVIOUS
<1>1. PICK n \in 1..MaxGroupSize : g \in [1..n -> 1..MaxNumber] /\ Ascends(g)
    BY DEF Groups
<1> DEFINE q == [k \in 1..n |-> CHOOSE i \in DOMAIN form : form[i] = g[k]]
<1>2. \A k \in 1..n : \E i \in DOMAIN form : form[i] = g[k]
    BY <1>1 DEF ToSet
<1>3. \A k \in 1..n : q[k] \in DOMAIN form /\ form[q[k]] = g[k]
    BY <1>2
<1>4. q \in [1..n -> DOMAIN form] /\ q \in Seq(DOMAIN form) /\ Len(q) = n /\ DOMAIN q = 1..n
    <2>1. q \in [1..n -> DOMAIN form]
        BY <1>3
    <2> HIDE DEF q
    <2> QED
        BY <1>0, <2>1
<1> HIDE DEF q
<1>5. \A k \in 1..n : Fits(MaxNumber, form, q, k)
    <2> SUFFICES ASSUME NEW k \in 1..n
                 PROVE  Fits(MaxNumber, form, q, k)
        OBVIOUS
    <2>1. g[k] \in 1..MaxNumber
        BY <1>1
    <2>2. ASSUME k # 1
          PROVE  q[k - 1] < q[k] /\ g[k - 1] < g[k]
        <3>1. k - 1 \in 1..n /\ k - 1 < k
            BY <2>2
        <3>2. g[k - 1] < g[k]
            BY <1>1, <3>1 DEF Ascends
        <3>3. form[q[k - 1]] < form[q[k]]
            BY <1>3, <3>1, <3>2
        <3>4. q[k - 1] \in Nat /\ q[k] \in Nat
            BY <1>0, <1>3, <3>1
        <3>5. ~(q[k] < q[k - 1]) /\ q[k] # q[k - 1]
            <4>1. form[q[k - 1]] \in Nat /\ form[q[k]] \in Nat
                BY <1>0, <1>3, <3>1
            <4> QED
                BY <1>3, <3>1, <3>3, <4>1 DEF Ascends
        <3> QED
            BY <3>2, <3>4, <3>5
    <2>3. k # 1 => form[q[k - 1]] = g[k - 1]
        BY <1>3
    <2> QED
        BY <1>3, <2>1, <2>2, <2>3 DEF Fits
<1>6. q \in Build(MaxNumber, form, MaxGroupSize)
    <2>1. q \in Below(MaxNumber, form, MaxGroupSize, <<>>)
        BY <1>0, <1>1, <1>4, <1>5 DEF Below
    <2> QED
        BY <1>0, <2>1, BuildCalls
<1>7. Spelled(form, q) = g
    BY <1>1, <1>3, <1>4 DEF Spelled
<1>8. ASSUME NEW p \in Build(MaxNumber, form, MaxGroupSize), Spelled(form, p) = g
      PROVE  p = q
    <2>1. p \in Below(MaxNumber, form, MaxGroupSize, <<>>)
        BY <1>0, BuildCalls
    <2>2. p \in Seq(DOMAIN form) /\ DOMAIN p = 1..Len(p) /\ Len(p) \in Nat
        BY <2>1 DEF Below
    <2>3. DOMAIN p = 1..n /\ Len(p) = n
        <3>1. DOMAIN p = DOMAIN g
            BY <1>8 DEF Spelled
        <3>2. DOMAIN p = 1..n
            BY <1>1, <3>1
        <3>3. n \in 1..Len(p) /\ (Len(p) # 0 => Len(p) \in 1..n)
            BY <1>1, <2>2, <3>2
        <3>4. \A x \in 1..MaxGroupSize, y \in Nat : x \in 1..y /\ (y # 0 => y \in 1..x) => y = x
            OBVIOUS
        <3> QED
            BY <1>1, <2>2, <3>2, <3>3, <3>4, Zenon
    <2>4. \A k \in 1..n : p[k] \in DOMAIN form /\ form[p[k]] = g[k]
        <3>1. \A k \in 1..n : p[k] \in DOMAIN form
            BY <2>2, <2>3, ElementOfSeq
        <3>2. \A k \in 1..n : Spelled(form, p)[k] = form[p[k]]
            BY <2>3 DEF Spelled
        <3> QED
            BY <1>8, <3>1, <3>2
    <2>5. \A k \in 1..n : p[k] = q[k]
        <3> SUFFICES ASSUME NEW k \in 1..n
                     PROVE  p[k] = q[k]
            OBVIOUS
        <3>1. p[k] \in 1..DrawSize /\ q[k] \in 1..DrawSize /\ form[p[k]] = form[q[k]]
            BY <1>0, <1>3, <2>4
        <3>2. ~(p[k] < q[k]) /\ ~(q[k] < p[k])
            BY <1>0, <3>1 DEF Ascends
        <3> QED
            BY <3>1, <3>2
    <2> QED
        BY <1>4, <2>2, <2>3, <2>5, SeqEqual
<1> QED
    BY <1>6, <1>7, <1>8

\* Counting a draw in adds one to each of its groups, those that had no node yet
\* included, and leaves the others alone.
LEMMA AddNumbersCounts ==
    ASSUME NEW form \in [1..DrawSize -> Nat], Ascends(form),
           NEW trie, DOMAIN trie \subseteq Groups, \A g \in DOMAIN trie : trie[g] \in Nat
    PROVE  AddNumbers(trie, form) =
               [g \in DOMAIN trie \union {g \in Groups : ToSet(g) \subseteq ToSet(form)} |->
                   (IF g \in DOMAIN trie THEN trie[g] ELSE 0)
                       + (IF ToSet(g) \subseteq ToSet(form) THEN 1 ELSE 0)]
<1> DEFINE calls == Build(MaxNumber, form, MaxGroupSize)
           own == {g \in Groups : ToSet(g) \subseteq ToSet(form)}
           times(g) == Cardinality({p \in calls : Spelled(form, p) = g})
<1>1. {Spelled(form, p) : p \in calls} = own
    <2>1. \A p \in calls : Spelled(form, p) \in own
        BY CallsAreGroups
    <2>2. \A g \in own : \E p \in calls : Spelled(form, p) = g
        <3> SUFFICES ASSUME NEW g \in own
                     PROVE  \E p \in calls : Spelled(form, p) = g
            OBVIOUS
        <3>1. PICK q : {p \in calls : Spelled(form, p) = g} = {q}
            BY GroupsAreCalled
        <3> HIDE DEF calls
        <3> QED
            BY <3>1
    <2> HIDE DEF calls, own
    <2> QED
        BY <2>1, <2>2
<1>2. \A g \in own : times(g) = 1
    <2> SUFFICES ASSUME NEW g \in own
                 PROVE  times(g) = 1
        OBVIOUS
    <2>1. PICK q : {p \in calls : Spelled(form, p) = g} = {q}
        BY GroupsAreCalled
    <2> HIDE DEF calls
    <2> QED
        BY <2>1, FS_Singleton
<1>3. \A g \in Groups \ own : times(g) = 0
    <2> SUFFICES ASSUME NEW g \in Groups \ own
                 PROVE  times(g) = 0
        OBVIOUS
    <2>1. {p \in calls : Spelled(form, p) = g} = {}
        BY CallsAreGroups
    <2> HIDE DEF calls
    <2> QED
        BY <2>1, FS_EmptySet
<1>4. AddNumbers(trie, form) =
          [g \in DOMAIN trie \union {Spelled(form, p) : p \in calls} |->
              IF g \in DOMAIN trie THEN trie[g] + times(g) ELSE times(g)]
    BY DEF AddNumbers, Visit
<1>5. \A g \in DOMAIN trie \union own :
          (IF g \in DOMAIN trie THEN trie[g] + times(g) ELSE times(g))
              = (IF g \in DOMAIN trie THEN trie[g] ELSE 0) + (IF ToSet(g) \subseteq ToSet(form) THEN 1 ELSE 0)
    <2> SUFFICES ASSUME NEW g \in DOMAIN trie \union own
                 PROVE  (IF g \in DOMAIN trie THEN trie[g] + times(g) ELSE times(g))
                            = (IF g \in DOMAIN trie THEN trie[g] ELSE 0)
                                  + (IF ToSet(g) \subseteq ToSet(form) THEN 1 ELSE 0)
        OBVIOUS
    <2>1. g \in Groups
        OBVIOUS
    <2>2. times(g) = IF ToSet(g) \subseteq ToSet(form) THEN 1 ELSE 0
        <3> HIDE DEF times
        <3> QED
            BY <1>2, <1>3, <2>1
    <2> HIDE DEF times
    <2> QED
        BY <2>2
<1> HIDE DEF calls, times
<1> QED
    BY <1>1, <1>4, <1>5

\* A strong number within the tree's bounds is one more group of one number.
LEMMA AddStrongCounts ==
    ASSUME NEW strong \in Nat, NEW trie, \A node \in DOMAIN trie : trie[node] \in Nat
    PROVE  AddStrong(trie, strong) =
               [node \in DOMAIN trie \union (IF strong \in 1..MaxStrong + 2 THEN {<<strong>>} ELSE {}) |->
                   (IF node \in DOMAIN trie THEN trie[node] ELSE 0)
                       + (IF strong \in 1..MaxStrong + 2 /\ node = <<strong>> THEN 1 ELSE 0)]
<1> DEFINE form == <<strong>>
           lottery == MaxStrong + 2
           calls == Build(lottery, form, 1)
           times(node) == Cardinality({p \in calls : Spelled(form, p) = node})
           own == IF strong \in 1..lottery THEN {<<strong>>} ELSE {}
<1>1. form \in Seq(Nat) /\ DOMAIN form = {1} /\ form[1] = strong /\ lottery \in Nat
    BY NumbersAssumption
<1>2. calls = Below(lottery, form, 1, <<>>)
    <2> HIDE DEF form, lottery
    <2> QED
        BY <1>1, BuildCalls
<1>3. \A q \in Seq({1}) : Len(q) = 1 => q = <<1>>
    OBVIOUS
<1>4. \A q : Fits(lottery, form, q, 1) <=> form[q[1]] <= lottery /\ 0 < form[q[1]]
    BY DEF Fits
<1>5. calls = IF strong \in 1..lottery THEN {<<1>>} ELSE {}
    <2> HIDE DEF form, lottery
    <2>1. \A q : q \in Below(lottery, form, 1, <<>>)
                    <=> q \in Seq({1}) /\ Len(q) = 1 /\ Fits(lottery, form, q, 1)
        <3>1. \A q \in Seq({1}) : 0 < Len(q) /\ Len(q) <= 1 <=> Len(q) = 1
            <4>1. \A q \in Seq({1}) : Len(q) \in Nat
                OBVIOUS
            <4>2. \A n \in Nat : 0 < n /\ n <= 1 <=> n = 1
                OBVIOUS
            <4> QED
                BY <4>1, <4>2, Zenon
        <3>2. \A k \in 0 + 1..1 : k = 1
            OBVIOUS
        <3>3. 1 \in 0 + 1..1 /\ Len(<<>>) = 0
            OBVIOUS
        <3> QED
            BY <1>1, <3>1, <3>2, <3>3 DEF Below
    <2>2. <<1>> \in Seq({1}) /\ Len(<<1>>) = 1 /\ <<1>>[1] = 1
        OBVIOUS
    <2>3. \A q : q \in calls <=> q = <<1>> /\ strong <= lottery /\ 0 < strong
        BY <1>1, <1>2, <1>3, <1>4, <2>1, <2>2
    <2>4. strong \in 1..lottery <=> strong <= lottery /\ 0 < strong
        BY <1>1
    <2> HIDE DEF calls
    <2> QED
        BY <2>3, <2>4
<1>6. Spelled(form, <<1>>) = <<strong>>
    BY DEF Spelled
<1>7. {Spelled(form, p) : p \in calls} = own
    <2> HIDE DEF form, lottery, calls
    <2> QED
        BY <1>5, <1>6
<1>8. \A node : times(node) = IF strong \in 1..lottery /\ node = <<strong>> THEN 1 ELSE 0
    <2> SUFFICES ASSUME NEW node
                 PROVE  times(node) = IF strong \in 1..lottery /\ node = <<strong>> THEN 1 ELSE 0
        OBVIOUS
    <2>1. {p \in calls : Spelled(form, p) = node}
              = IF strong \in 1..lottery /\ node = <<strong>> THEN {<<1>>} ELSE {}
        <3> HIDE DEF form, lottery, calls
        <3> QED
            BY <1>5, <1>6
    <2> HIDE DEF form, lottery, calls
    <2> QED
        BY <2>1, FS_EmptySet, FS_Singleton
<1>9. AddStrong(trie, strong) =
          [node \in DOMAIN trie \union {Spelled(form, p) : p \in calls} |->
              IF node \in DOMAIN trie THEN trie[node] + times(node) ELSE times(node)]
    BY DEF AddStrong, Visit
<1>10. \A node \in DOMAIN trie \union own :
           (IF node \in DOMAIN trie THEN trie[node] + times(node) ELSE times(node))
               = (IF node \in DOMAIN trie THEN trie[node] ELSE 0)
                     + (IF strong \in 1..lottery /\ node = <<strong>> THEN 1 ELSE 0)
    <2> HIDE DEF times, own, form, lottery
    <2> QED
        BY <1>8
<1> HIDE DEF calls, times, form
<1> QED
    BY <1>7, <1>9, <1>10

-----------------------------------------------------------------------------
(* Sequences without repetition.                                            *)

\* Nothing occurs twice.
Distinct(s) == \A j, k \in DOMAIN s : s[j] = s[k] => j = k

\* Two lists that share nothing and repeat nothing repeat nothing together.
LEMMA Concatenated ==
    ASSUME NEW X, NEW a \in Seq(X), NEW b \in Seq(X)
    PROVE  /\ a \o b \in Seq(X)
           /\ ToSet(a \o b) = ToSet(a) \union ToSet(b)
           /\ Distinct(a) /\ Distinct(b) /\ ToSet(a) \intersect ToSet(b) = {} => Distinct(a \o b)
<1> DEFINE m == Len(a)
           n == Len(b)
           c == a \o b
<1>1. /\ m \in Nat /\ DOMAIN a = 1..m /\ n \in Nat /\ DOMAIN b = 1..n
      /\ c \in Seq(X) /\ DOMAIN c = 1..m + n
      /\ \A k \in 1..m : c[k] = a[k]
      /\ \A k \in m + 1..m + n : c[k] = b[k - m]
    OBVIOUS
<1> HIDE DEF m, n, c
<1>2. /\ \A k \in 1..m + n : k \in 1..m \/ (k \in m + 1..m + n /\ k - m \in 1..n)
      /\ \A k \in 1..m : k \in 1..m + n
      /\ \A k \in 1..n : k + m \in m + 1..m + n /\ k + m \in 1..m + n /\ k + m - m = k
    BY <1>1
<1>3. ToSet(c) = ToSet(a) \union ToSet(b)
    <2>1. \A x \in ToSet(c) : x \in ToSet(a) \/ x \in ToSet(b)
        BY <1>1, <1>2 DEF ToSet
    <2>2. \A x \in ToSet(a) : x \in ToSet(c)
        BY <1>1, <1>2 DEF ToSet
    <2>3. \A x \in ToSet(b) : x \in ToSet(c)
        <3> SUFFICES ASSUME NEW k \in 1..n PROVE b[k] \in ToSet(c)
            BY <1>1 DEF ToSet
        <3>1. c[k + m] = b[k]
            BY <1>1, <1>2
        <3> QED
            BY <1>1, <1>2, <3>1 DEF ToSet
    <2> QED
        BY <2>1, <2>2, <2>3
<1>4. ASSUME Distinct(a), Distinct(b), ToSet(a) \intersect ToSet(b) = {}
      PROVE  Distinct(c)
    <2> SUFFICES ASSUME NEW j \in 1..m + n, NEW k \in 1..m + n, c[j] = c[k] PROVE j = k
        BY <1>1 DEF Distinct
    <2>1. CASE j \in 1..m /\ k \in 1..m
        BY <1>1, <1>4, <2>1 DEF Distinct
    <2>2. CASE j - m \in 1..n /\ k - m \in 1..n
        <3>1. b[j - m] = b[k - m]
            BY <1>1, <1>2, <2>2
        <3>2. j - m = k - m
            BY <1>1, <1>4, <2>2, <3>1 DEF Distinct
        <3> QED
            BY <1>1, <3>2
    <2>3. CASE j \in 1..m /\ k \in m + 1..m + n /\ k - m \in 1..n
        <3>1. c[j] \in ToSet(a) /\ c[k] \in ToSet(b)
            BY <1>1, <2>3 DEF ToSet
        <3> QED
            BY <1>4, <3>1
    <2>4. CASE k \in 1..m /\ j \in m + 1..m + n /\ j - m \in 1..n
        <3>1. c[k] \in ToSet(a) /\ c[j] \in ToSet(b)
            BY <1>1, <2>4 DEF ToSet
        <3> QED
            BY <1>4, <3>1
    <2> QED
        BY <1>2, <2>1, <2>2, <2>3, <2>4
<1> QED
    BY <1>1, <1>3, <1>4 DEF c

\* The recursion of FlattenSeq.
LEMMA FlattenUnfolds ==
    ASSUME NEW s, NEW n \in Nat \ {0}, Len(s) = n
    PROVE  \E f : /\ FlattenSeq(s) = f[n]
                  /\ f[1] = s[1]
                  /\ \A i \in 2..n : f[i] = f[i - 1] \o s[i]
<1> DEFINE Round(m, g) == [i \in 1..m |-> IF i = 1 THEN s[i] ELSE g[i - 1] \o s[i]]
           T == {m \in Nat : \E g : g = Round(m, g)}
           f == CHOOSE g : g = Round(n, g)
<1>1. T = Nat
    <2>1. 0 \in T
        <3>1. << >> = Round(0, << >>)
            BY SMT
        <3> HIDE DEF Round
        <3> QED
            BY <3>1
    <2>2. ASSUME NEW m \in T
          PROVE  m + 1 \in T
        <3>1. PICK g : g = Round(m, g)
            BY <2>2
        <3> DEFINE h == [i \in 1..m + 1 |-> IF i = 1 THEN s[i] ELSE g[i - 1] \o s[i]]
        <3>2. m \in Nat /\ DOMAIN g = 1..m
            BY <2>2, <3>1
        <3>3. \A i \in 1..m : h[i] = g[i]
            <4>1. \A i \in 1..m : g[i] = IF i = 1 THEN s[i] ELSE g[i - 1] \o s[i]
                BY <3>1
            <4>2. \A i \in 1..m : i \in 1..m + 1
                BY <3>2
            <4> QED
                BY <4>1, <4>2
        <3>4. \A i \in 1..m + 1 : i # 1 => i - 1 \in 1..m
            BY <3>2
        <3>5. \A i \in 1..m + 1 : h[i] = IF i = 1 THEN s[i] ELSE h[i - 1] \o s[i]
            <4> SUFFICES ASSUME NEW i \in 1..m + 1
                         PROVE  h[i] = IF i = 1 THEN s[i] ELSE h[i - 1] \o s[i]
                OBVIOUS
            <4>1. h[i] = IF i = 1 THEN s[i] ELSE g[i - 1] \o s[i]
                OBVIOUS
            <4> HIDE DEF h
            <4> QED
                BY <3>3, <3>4, <4>1
        <3>6. h = Round(m + 1, h)
            <4>1. DOMAIN h = 1..m + 1 /\ h = [i \in 1..m + 1 |-> h[i]]
                OBVIOUS
            <4> HIDE DEF h
            <4> QED
                BY <3>5, <4>1
        <3> HIDE DEF Round, h
        <3> QED
            BY <3>2, <3>6
    <2> HIDE DEF T
    <2>3. T \subseteq Nat
        BY DEF T
    <2> QED
        BY <2>1, <2>2, <2>3, SetInduction
<1>2. f = Round(n, f)
    <2>1. \E g : g = Round(n, g)
        BY <1>1
    <2> HIDE DEF Round
    <2> QED
        BY <2>1
<1>3. FlattenSeq(s) = f[n]
    BY DEF FlattenSeq
<1> HIDE DEF f
<1>4. f[1] = s[1]
    BY <1>2
<1>5. ASSUME NEW i \in 2..n PROVE f[i] = f[i - 1] \o s[i]
    <2>1. i \in 1..n /\ i # 1
        OBVIOUS
    <2> QED
        BY <1>2, <2>1
<1> QED
    BY <1>3, <1>4, <1>5

\* A list of lists, flattened, has the elements of all of them, and none twice if
\* they share none and have none twice.
LEMMA Flattened ==
    ASSUME NEW X, NEW s \in Seq(Seq(X))
    PROVE  /\ FlattenSeq(s) \in Seq(X)
           /\ ToSet(FlattenSeq(s)) = UNION {ToSet(s[i]) : i \in DOMAIN s}
           /\ (/\ \A i \in DOMAIN s : Distinct(s[i])
               /\ \A i, j \in DOMAIN s : i # j => ToSet(s[i]) \intersect ToSet(s[j]) = {})
              => Distinct(FlattenSeq(s))
<1> DEFINE n == Len(s)
           Apart == /\ \A i \in DOMAIN s : Distinct(s[i])
                    /\ \A i, j \in DOMAIN s : i # j => ToSet(s[i]) \intersect ToSet(s[j]) = {}
<1>1. n \in Nat /\ DOMAIN s = 1..n /\ \A i \in 1..n : s[i] \in Seq(X)
    OBVIOUS
<1>2. CASE n = 0
    <2>1. FlattenSeq(s) = s /\ DOMAIN s = {}
        BY <1>1, <1>2 DEF FlattenSeq
    <2>2. s \in Seq(X) /\ ToSet(s) = {} /\ Distinct(s)
        <3>1. s = <<>>
            BY <1>2
        <3> QED
            BY <2>1, <3>1 DEF ToSet, Distinct
    <2> QED
        BY <2>1, <2>2
<1>3. CASE n # 0
    <2>0. n \in Nat \ {0} /\ Len(s) = n
        BY <1>1, <1>3
    <2> HIDE DEF n, Apart
    <2>1. PICK f : /\ FlattenSeq(s) = f[n]
                   /\ f[1] = s[1]
                   /\ \A i \in 2..n : f[i] = f[i - 1] \o s[i]
        BY <2>0, FlattenUnfolds
    <2> DEFINE Right(i) == /\ f[i] \in Seq(X)
                           /\ ToSet(f[i]) = UNION {ToSet(s[j]) : j \in 1..i}
                           /\ Apart => Distinct(f[i])
               T == {m \in Nat : m + 1 <= n => Right(m + 1)}
    <2>7. \A i \in 2..n : f[i] = f[i - 1] \o s[i]
        BY <2>1, Zenon
    <2>2. 0 \in T
        <3>1. Right(1)
            <4>1. 1 \in 1..n
                BY <1>1, <1>3
            <4>2. {ToSet(s[j]) : j \in 1..1} = {ToSet(s[1])}
                OBVIOUS
            <4>3. Apart => Distinct(s[1])
                BY <1>1, <4>1 DEF Apart
            <4> QED
                BY <1>1, <2>1, <4>1, <4>2, <4>3
        <3> QED
            BY <3>1
    <2>3. ASSUME NEW m \in T
          PROVE  m + 1 \in T
        <3> SUFFICES ASSUME m + 1 + 1 <= n PROVE Right(m + 1 + 1)
            BY <2>3
        <3> DEFINE p == m + 1
        <3>1. m \in Nat /\ p \in 1..n /\ p + 1 \in 2..n /\ p + 1 \in 1..n /\ (p + 1) - 1 = p
            BY <1>1, <2>3
        <3>2. Right(p)
            BY <2>3, <3>1
        <3> HIDE DEF p
        <3>3. f[p + 1] = f[p] \o s[p + 1] /\ s[p + 1] \in Seq(X)
            <4>1. f[p + 1] = f[(p + 1) - 1] \o s[p + 1]
                BY <2>7, <3>1, Zenon
            <4>2. f[(p + 1) - 1] = f[p]
                BY <3>1
            <4> QED
                BY <1>1, <3>1, <4>1, <4>2
        <3>4. /\ f[p + 1] \in Seq(X)
              /\ ToSet(f[p + 1]) = ToSet(f[p]) \union ToSet(s[p + 1])
              /\ Distinct(f[p]) /\ Distinct(s[p + 1]) /\ ToSet(f[p]) \intersect ToSet(s[p + 1]) = {}
                    => Distinct(f[p + 1])
            BY <3>2, <3>3, Concatenated
        <3>5. 1..p + 1 = 1..p \union {p + 1}
            BY <3>1
        <3>6. ToSet(f[p + 1]) = UNION {ToSet(s[j]) : j \in 1..p + 1}
            BY <3>2, <3>4, <3>5
        <3>7. ASSUME Apart PROVE Distinct(f[p + 1])
            <4>1. \A j \in 1..p : j \in DOMAIN s /\ j # p + 1
                BY <1>1, <3>1
            <4>2. \A j \in 1..p : ToSet(s[j]) \intersect ToSet(s[p + 1]) = {}
                BY <1>1, <3>1, <3>7, <4>1 DEF Apart
            <4>3. ToSet(f[p]) \intersect ToSet(s[p + 1]) = {}
                BY <3>2, <4>2
            <4>4. Distinct(s[p + 1])
                BY <1>1, <3>1, <3>7 DEF Apart
            <4> QED
                BY <3>2, <3>4, <3>7, <4>3, <4>4
        <3> QED
            BY <3>4, <3>6, <3>7 DEF p
    <2>4. T = Nat
        <3> HIDE DEF T
        <3>1. T \subseteq Nat
            BY DEF T
        <3> QED
            BY <2>2, <2>3, <3>1, SetInduction
    <2>5. n - 1 \in T /\ n - 1 + 1 = n
        <3>1. n - 1 \in Nat /\ n - 1 + 1 = n
            BY <1>1, <1>3
        <3> HIDE DEF T
        <3> QED
            BY <2>4, <3>1
    <2>6. Right(n)
        <3>1. n - 1 + 1 <= n => Right(n - 1 + 1)
            BY <2>5
        <3> HIDE DEF Right
        <3> QED
            BY <1>1, <2>5, <3>1
    <2> QED
        BY <1>1, <2>1, <2>6 DEF Apart
<1> QED
    BY <1>2, <1>3

-----------------------------------------------------------------------------
(* Sorting.                                                                 *)

\* For each place of a list, those that come before it in a strict order.
Strict(n, front) ==
    /\ n \in Nat /\ front \in [1..n -> SUBSET (1..n)]
    /\ \A a \in 1..n : a \notin front[a]
    /\ \A a, b \in 1..n : a # b => a \in front[b] \/ b \in front[a]
    /\ \A a, b, c \in 1..n : a \in front[b] /\ b \in front[c] => a \in front[c]

\* Every place is taken.
Fills(n, rank) == \A k \in 1..n : \E a \in 1..n : rank[a] = k

\* How many they are is its place in the sorted list.
LEMMA Places ==
    ASSUME NEW n, NEW front, Strict(n, front),
           NEW rank, \A a \in 1..n : rank[a] = 1 + Cardinality(front[a])
    PROVE  /\ \A a \in 1..n : rank[a] \in 1..n
           /\ \A a, b \in 1..n : a \in front[b] => rank[a] < rank[b]
           /\ Fills(n, rank)
<1>0. /\ n \in Nat /\ front \in [1..n -> SUBSET (1..n)]
      /\ \A a \in 1..n : a \notin front[a]
      /\ \A a, b \in 1..n : a # b => a \in front[b] \/ b \in front[a]
      /\ \A a, b, c \in 1..n : a \in front[b] /\ b \in front[c] => a \in front[c]
    BY DEF Strict
<1> DEFINE Before(a) == front[a]
           f == [a \in 1..n |-> rank[a]]
<1>1. IsFiniteSet(1..n) /\ Cardinality(1..n) = n
    BY <1>0, FS_Interval
<1>2. \A a \in 1..n : IsFiniteSet(Before(a)) /\ Cardinality(Before(a)) \in Nat
    <2>1. \A a \in 1..n : Before(a) \subseteq 1..n
        BY <1>0
    <2> HIDE DEF Before
    <2> QED
        BY <1>1, <2>1, FS_Subset, FS_CardinalityType
<1>3. \A a \in 1..n : rank[a] = 1 + Cardinality(Before(a))
    OBVIOUS
<1>4. ASSUME NEW a \in 1..n, NEW b \in 1..n, a \in front[b]
      PROVE  rank[a] < rank[b]
    <2>1. Before(a) \subseteq Before(b) /\ a \in Before(b) /\ a \notin Before(a)
        BY <1>0, <1>4
    <2>2. Before(a) # Before(b)
        BY <2>1
    <2> HIDE DEF Before
    <2>3. Cardinality(Before(a)) <= Cardinality(Before(b))
          /\ Cardinality(Before(b)) # Cardinality(Before(a))
        BY <1>2, <2>1, <2>2, FS_Subset
    <2>4. \A x, y \in Nat : x <= y /\ y # x => 1 + x < 1 + y
        OBVIOUS
    <2>5. 1 + Cardinality(Before(a)) < 1 + Cardinality(Before(b))
        BY <1>2, <2>3, <2>4, Zenon
    <2> QED
        BY <1>3, <2>5, Zenon
<1>5. ASSUME NEW a \in 1..n PROVE rank[a] \in 1..n
    <2>1. Before(a) \subseteq 1..n /\ a \notin Before(a)
        BY <1>0
    <2>2. Before(a) # 1..n
        BY <2>1
    <2> HIDE DEF Before
    <2>3. Cardinality(Before(a)) <= n /\ n # Cardinality(Before(a))
        BY <1>1, <1>2, <2>1, <2>2, FS_Subset
    <2>4. \A x \in Nat : x <= n /\ n # x => 1 + x \in 1..n
        BY <1>0
    <2>5. 1 + Cardinality(Before(a)) \in 1..n
        BY <1>2, <2>3, <2>4, Zenon
    <2> QED
        BY <1>3, <2>5, Zenon
<1>6. \A a, b \in 1..n : rank[a] = rank[b] => a = b
    <2> SUFFICES ASSUME NEW a \in 1..n, NEW b \in 1..n, rank[a] = rank[b], a # b PROVE FALSE
        OBVIOUS
    <2>1. rank[a] < rank[b] \/ rank[b] < rank[a]
        BY <1>0, <1>4
    <2>2. \A x, y \in 1..n : x < y \/ y < x => x # y
        OBVIOUS
    <2> QED
        BY <1>5, <2>1, <2>2, Zenon
<1>7. f \in Surjection(1..n, 1..n)
    <2>1. f \in [1..n -> 1..n] /\ \A a \in 1..n : f[a] = rank[a]
        BY <1>5
    <2> HIDE DEF f
    <2>2. f \in Injection(1..n, 1..n)
        BY <1>6, <2>1 DEF Injection, IsInjective
    <2> QED
        BY <1>1, <2>2, FS_Injection
<1>8. Fills(n, rank)
    BY <1>7 DEF Surjection, Fills
<1> QED
    BY <1>4, <1>5, <1>8

\* Sorting keeps the elements and how often each occurs, and orders the counts.
LEMMA SortedByCount ==
    ASSUME NEW X, NEW trie, NEW groups \in Seq(X), NEW weak \in BOOLEAN,
           \A g \in X : trie[g] \in Nat
    PROVE  LET sorted == SortByCount(trie, groups, weak)
           IN  /\ sorted \in Seq(X)
               /\ Len(sorted) = Len(groups)
               /\ ToSet(sorted) = ToSet(groups)
               /\ Distinct(groups) => Distinct(sorted)
               /\ \A j, k \in DOMAIN sorted : j < k =>
                    IF weak THEN trie[sorted[j]] <= trie[sorted[k]] ELSE trie[sorted[j]] >= trie[sorted[k]]
<1> DEFINE n == Len(groups)
           t(a) == trie[groups[a]]
           before(a, b) == IF t(a) = t(b) THEN a < b ELSE (t(a) < t(b)) = weak
           ahead == [a \in 1..n |-> {b \in 1..n : before(b, a)}]
           place == [a \in 1..n |-> 1 + Cardinality(ahead[a])]
           at == [k \in 1..n |-> CHOOSE a \in 1..n : place[a] = k]
           sorted == SortByCount(trie, groups, weak)
<1>1. /\ n \in Nat /\ DOMAIN groups = 1..n
      /\ \A a \in 1..n : groups[a] \in X /\ t(a) \in Nat
    OBVIOUS
<1>2. ahead \in [1..n -> SUBSET (1..n)] /\ \A a, b \in 1..n : a \in ahead[b] <=> before(a, b)
    OBVIOUS
<1>3. sorted = [k \in 1..n |-> groups[at[k]]]
    <2> DEFINE spot == [a \in DOMAIN groups |-> 1 + Cardinality({b \in DOMAIN groups : before(b, a)})]
    <2>1. spot = place
        <3>1. \A a \in 1..n : {b \in 1..n : before(b, a)} = ahead[a]
            OBVIOUS
        <3> HIDE DEF ahead, before
        <3> QED
            BY <1>1, <3>1
    <2>2. sorted = [k \in DOMAIN groups |-> groups[CHOOSE a \in DOMAIN groups : spot[a] = k]]
        BY DEF SortByCount
    <2> HIDE DEF place, sorted, before, spot
    <2> QED
        BY <1>1, <2>1, <2>2
<1> HIDE DEF sorted
<1>4. /\ \A a \in 1..n : ~before(a, a)
      /\ \A a, b \in 1..n : a # b => before(a, b) \/ before(b, a)
      /\ \A a, b, c \in 1..n : before(a, b) /\ before(b, c) => before(a, c)
    <2>1. \A a \in 1..n : t(a) \in Nat /\ a \in Nat
        BY <1>1
    <2> HIDE DEF t, n
    <2>2. \A a \in 1..n : ~before(a, a)
        BY <2>1
    <2>3. \A a, b \in 1..n : a # b => before(a, b) \/ before(b, a)
        BY <2>1
    <2>4. ASSUME NEW a \in 1..n, NEW b \in 1..n, NEW c \in 1..n, before(a, b), before(b, c)
          PROVE  before(a, c)
        <3>1. /\ t(a) \in Nat /\ t(b) \in Nat /\ t(c) \in Nat
              /\ a \in Nat /\ b \in Nat /\ c \in Nat
            BY <2>1
        <3> QED
            BY <2>4, <3>1
    <2> QED
        BY <2>2, <2>3, <2>4
<1> HIDE DEF ahead, before
<1>5. /\ \A a \in 1..n : place[a] \in 1..n
      /\ \A a, b \in 1..n : before(a, b) => place[a] < place[b]
      /\ \A k \in 1..n : \E a \in 1..n : place[a] = k
    <2>1. \A a \in 1..n : place[a] = 1 + Cardinality(ahead[a])
        OBVIOUS
    <2> HIDE DEF place
    <2>2. /\ \A a \in 1..n : place[a] \in 1..n
          /\ \A a, b \in 1..n : a \in ahead[b] => place[a] < place[b]
          /\ \A k \in 1..n : \E a \in 1..n : place[a] = k
        <3>1. /\ \A a \in 1..n : a \notin ahead[a]
              /\ \A a, b \in 1..n : a # b => a \in ahead[b] \/ b \in ahead[a]
              /\ \A a, b, c \in 1..n : a \in ahead[b] /\ b \in ahead[c] => a \in ahead[c]
            BY <1>2, <1>4
        <3>2. Strict(n, ahead)
            BY <1>1, <1>2, <3>1 DEF Strict
        <3>3. \A a \in 1..n : place[a] = 1 + Cardinality(ahead[a])
            BY <2>1
        <3> HIDE DEF n, at, t
        <3>4. \A a \in 1..n : place[a] \in 1..n
            BY <3>2, <3>3, Places
        <3>5. \A a, b \in 1..n : a \in ahead[b] => place[a] < place[b]
            BY <3>2, <3>3, Places
        <3>6. Fills(n, place)
            BY <3>2, <3>3, Places
        <3> QED
            BY <3>4, <3>5, <3>6 DEF Fills
    <2> QED
        BY <1>2, <2>2
<1> HIDE DEF place
<1>6. \A k \in 1..n : at[k] \in 1..n /\ place[at[k]] = k
    BY <1>5
<1> HIDE DEF at
<1>7. \A a \in 1..n : \E k \in 1..n : at[k] = a
    <2> SUFFICES ASSUME NEW a \in 1..n PROVE \E k \in 1..n : at[k] = a
        OBVIOUS
    <2>1. place[a] \in 1..n
        BY <1>5
    <2>2. at[place[a]] \in 1..n /\ place[at[place[a]]] = place[a]
        BY <1>6, <2>1
    <2>3. \A b, c \in 1..n : place[b] = place[c] => b = c
        <3> SUFFICES ASSUME NEW b \in 1..n, NEW c \in 1..n, place[b] = place[c], b # c PROVE FALSE
            OBVIOUS
        <3>1. place[b] < place[c] \/ place[c] < place[b]
            BY <1>4, <1>5
        <3>2. \A x, y \in 1..n : x < y \/ y < x => x # y
            OBVIOUS
        <3>3. place[b] \in 1..n /\ place[c] \in 1..n
            BY <1>5
        <3> QED
            BY <3>1, <3>2, <3>3
    <2> QED
        BY <2>1, <2>2, <2>3
<1>8. sorted \in Seq(X) /\ DOMAIN sorted = 1..n /\ Len(sorted) = n
    <2>1. sorted \in [1..n -> X]
        BY <1>1, <1>3, <1>6
    <2> QED
        BY <1>1, <2>1
<1>9. ToSet(sorted) = ToSet(groups)
    <2>1. \A x \in ToSet(sorted) : x \in ToSet(groups)
        BY <1>1, <1>3, <1>6 DEF ToSet
    <2>2. \A x \in ToSet(groups) : x \in ToSet(sorted)
        <3> SUFFICES ASSUME NEW a \in 1..n PROVE groups[a] \in ToSet(sorted)
            BY <1>1 DEF ToSet
        <3>1. PICK k \in 1..n : at[k] = a
            BY <1>7
        <3>2. sorted[k] = groups[a]
            BY <1>3, <3>1
        <3> QED
            BY <1>8, <3>2 DEF ToSet
    <2> QED
        BY <2>1, <2>2
<1>10. ASSUME Distinct(groups) PROVE Distinct(sorted)
    <2> SUFFICES ASSUME NEW j \in 1..n, NEW k \in 1..n, sorted[j] = sorted[k] PROVE j = k
        BY <1>8 DEF Distinct
    <2>1. groups[at[j]] = groups[at[k]]
        BY <1>3
    <2>2. at[j] = at[k]
        BY <1>1, <1>6, <1>10, <2>1 DEF Distinct
    <2> QED
        BY <1>6, <2>2
<1>11. ASSUME NEW j \in 1..n, NEW k \in 1..n, j < k
       PROVE  IF weak THEN trie[sorted[j]] <= trie[sorted[k]] ELSE trie[sorted[j]] >= trie[sorted[k]]
    <2>1. at[j] \in 1..n /\ at[k] \in 1..n /\ place[at[j]] = j /\ place[at[k]] = k
        BY <1>6
    <2>2. ~before(at[k], at[j])
        <3>1. ~(k < j)
            BY <1>11
        <3> QED
            BY <1>5, <2>1, <3>1
    <2>3. sorted[j] = groups[at[j]] /\ sorted[k] = groups[at[k]]
        BY <1>3
    <2>4. trie[sorted[j]] = t(at[j]) /\ trie[sorted[k]] = t(at[k]) /\ t(at[j]) \in Nat /\ t(at[k]) \in Nat
        BY <1>1, <2>1, <2>3
    <2>5. before(at[j], at[k]) \/ at[j] = at[k]
        BY <1>4, <2>1, <2>2
    <2> HIDE DEF t
    <2> QED
        BY <2>2, <2>4, <2>5 DEF before
<1> QED
    BY <1>8, <1>9, <1>10, <1>11 DEF sorted

-----------------------------------------------------------------------------
(* Walking a tree.                                                          *)

\* One round F of a recursion looks at greater depths only, and not beyond K.
Descends(P, V, depth, K, F) ==
    /\ V # {} /\ depth \in [P -> Nat] /\ K \in Nat /\ F \in [[P -> V] -> [P -> V]]
    /\ \A g, h \in [P -> V] : \A p \in P :
        (\A q \in P : depth[p] < depth[q] /\ depth[q] <= K => g[q] = h[q]) => F[g][p] = F[h][p]

\* Such a recursion has a solution.
LEMMA DescentSolved ==
    ASSUME NEW P, NEW V, NEW depth, NEW K, NEW F, Descends(P, V, depth, K, F)
    PROVE  \E g \in [P -> V] : F[g] = g
<1>0. /\ V # {} /\ depth \in [P -> Nat] /\ K \in Nat /\ F \in [[P -> V] -> [P -> V]]
      /\ \A g, h \in [P -> V] : \A p \in P :
          (\A q \in P : depth[p] < depth[q] /\ depth[q] <= K => g[q] = h[q]) => F[g][p] = F[h][p]
    BY DEF Descends
<1> DEFINE T == {m \in Nat : \E g \in [P -> V] : \A p \in P : depth[p] + m > K => F[g][p] = g[p]}
<1>1. 0 \in T
    <2>1. PICK v : v \in V
        BY <1>0
    <2> DEFINE g == [p \in P |-> v]
    <2>2. g \in [P -> V] /\ F[g] \in [P -> V]
        BY <1>0, <2>1
    <2> HIDE DEF g
    <2>3. ASSUME NEW p \in P, depth[p] + 0 > K
          PROVE  F[F[g]][p] = F[g][p]
        <3>1. \A q \in P : ~(depth[p] < depth[q] /\ depth[q] <= K)
            BY <1>0, <2>3
        <3> QED
            BY <1>0, <2>2, <3>1
    <2> QED
        BY <2>2, <2>3
<1>2. ASSUME NEW m \in T
      PROVE  m + 1 \in T
    <2>1. PICK g \in [P -> V] : \A p \in P : depth[p] + m > K => F[g][p] = g[p]
        BY <1>2
    <2>2. F[g] \in [P -> V] /\ m \in Nat
        BY <1>0, <1>2
    <2>3. ASSUME NEW p \in P, depth[p] + (m + 1) > K
          PROVE  F[F[g]][p] = F[g][p]
        <3>1. \A q \in P : depth[p] < depth[q] => depth[q] + m > K
            BY <1>0, <2>2, <2>3
        <3>2. \A q \in P : depth[p] < depth[q] /\ depth[q] <= K => F[g][q] = g[q]
            BY <1>0, <2>1, <3>1
        <3> QED
            BY <1>0, <2>2, <3>2
    <2> QED
        BY <2>2, <2>3
<1>3. K + 1 \in T
    <2>1. T = Nat
        <3> HIDE DEF T
        <3>1. T \subseteq Nat
            BY DEF T
        <3> QED
            BY <1>1, <1>2, <3>1, SetInduction
    <2> HIDE DEF T
    <2> QED
        BY <1>0, <2>1
<1>4. PICK g \in [P -> V] : \A p \in P : depth[p] + (K + 1) > K => F[g][p] = g[p]
    BY <1>3
<1>5. \A p \in P : F[g][p] = g[p]
    <2>1. \A p \in P : depth[p] + (K + 1) > K
        BY <1>0
    <2> QED
        BY <1>4, <2>1
<1>6. F[g] \in [P -> V]
    BY <1>0
<1> QED
    BY <1>5, <1>6

\* A path leads to a node or is on the way to it.
Starts(path, g) == Len(path) <= Len(g) /\ \A k \in 1..Len(path) : g[k] = path[k]

\* A path goes on with the node's next number.
LEMMA StartsOn ==
    ASSUME NEW X, NEW path \in Seq(X), NEW x \in X, NEW g \in Seq(X)
    PROVE  /\ Append(path, x) \in Seq(X) /\ Len(Append(path, x)) = Len(path) + 1
           /\ Starts(Append(path, x), g)
                  <=> Starts(path, g) /\ Len(path) < Len(g) /\ g[Len(path) + 1] = x
<1> DEFINE q == Append(path, x)
           n == Len(path)
<1>1. /\ q \in Seq(X) /\ n \in Nat /\ Len(q) = n + 1 /\ Len(g) \in Nat
      /\ q[n + 1] = x /\ \A k \in 1..n : q[k] = path[k]
    OBVIOUS
<1> HIDE DEF q, n
<1>2. (\A k \in 1..n + 1 : g[k] = q[k]) <=> (\A k \in 1..n : g[k] = path[k]) /\ g[n + 1] = x
    <2>1. /\ \A k \in 1..n + 1 : k \in 1..n \/ k = n + 1
          /\ \A k \in 1..n : k \in 1..n + 1
          /\ n + 1 \in 1..n + 1
        BY <1>1
    <2> QED
        BY <1>1, <2>1
<1>3. n + 1 <= Len(g) <=> n < Len(g)
    BY <1>1
<1>4. n < Len(g) => n <= Len(g)
    BY <1>1
<1> QED
    BY <1>1, <1>2, <1>3, <1>4 DEF Starts, q, n

\* A path as long as its node is its node.
LEMMA StartsWhole ==
    ASSUME NEW X, NEW path \in Seq(X), NEW g \in Seq(X), Starts(path, g), Len(path) = Len(g)
    PROVE  path = g
<1>1. \A k \in 1..Len(path) : path[k] = g[k]
    BY DEF Starts
<1> QED
    BY <1>1, SeqEqual

\* Every node is a group, and so is every node on the way to it.
Rooted(trie) ==
    /\ DOMAIN trie \subseteq Groups
    /\ \A g \in DOMAIN trie, path \in Seq(1..MaxNumber) :
        path # <<>> /\ Starts(path, g) => path \in DOMAIN trie

\* A group is an ascending sequence of numbers of the lottery.
LEMMA GroupFacts ==
    ASSUME NEW g \in Groups
    PROVE  g \in Seq(1..MaxNumber) /\ Len(g) \in 1..MaxGroupSize /\ DOMAIN g = 1..Len(g) /\ Ascends(g)
<1>1. PICK n \in 1..MaxGroupSize : g \in [1..n -> 1..MaxNumber] /\ Ascends(g)
    BY DEF Groups
<1>2. g \in Seq(1..MaxNumber) /\ Len(g) = n
    BY <1>1, NumbersAssumption
<1> QED
    BY <1>1, <1>2

\* CollectNodes finds every group of that size that has a node, once.
LEMMA Collected ==
    ASSUME NEW trie, Rooted(trie), NEW size \in Nat \ {0}
    PROVE  LET found == collectNodes(trie, size)
           IN  /\ found \in Seq(Groups)
               /\ ToSet(found) = {g \in DOMAIN trie : Len(g) = size}
               /\ Distinct(found)
<1> DEFINE P == Seq(1..MaxNumber)
           V == Seq(P)
           lists(g, path) == [n \in 1..MaxNumber |->
                                 IF Append(path, n) \in DOMAIN trie THEN g[Append(path, n)] ELSE <<>>]
           Round(g) == [path \in P |->
                           IF Len(path) = size THEN <<path>> ELSE FlattenSeq(lists(g, path))]
           C == CHOOSE g : g = Round(g)
           Right(path) == /\ C[path] \in Seq(Groups)
                          /\ ToSet(C[path]) = {g \in DOMAIN trie : Len(g) = size /\ Starts(path, g)}
                          /\ Distinct(C[path])
<1>0. MaxNumber \in Nat /\ MaxGroupSize \in Nat
    BY NumbersAssumption
<1>1. collectNodes(trie, size) = C[<<>>]
    BY DEF collectNodes
<1>2. \A path \in P, n \in 1..MaxNumber :
          Append(path, n) \in P /\ Len(Append(path, n)) = Len(path) + 1 /\ Len(path) \in Nat
    OBVIOUS
<1>3. \A path \in DOMAIN trie : path \in P /\ Len(path) \in 1..MaxGroupSize
    BY GroupFacts DEF Rooted
<1>4. C = Round(C)
    <2> DEFINE F == [g \in [P -> V] |-> Round(g)]
               depth == [path \in P |-> Len(path)]
    <2>1. ASSUME NEW g \in [P -> V]
          PROVE  Round(g) \in [P -> V]
        <3> SUFFICES ASSUME NEW path \in P
                     PROVE  (IF Len(path) = size THEN <<path>> ELSE FlattenSeq(lists(g, path))) \in V
            OBVIOUS
        <3>1. <<path>> \in V /\ <<>> \in V
            OBVIOUS
        <3>2. lists(g, path) \in [1..MaxNumber -> V]
            <4> HIDE DEF V
            <4> QED
                BY <1>2, <3>1
        <3> HIDE DEF lists
        <3>3. lists(g, path) \in Seq(V)
            <4> HIDE DEF V
            <4> QED
                BY <1>0, <3>2
        <3>4. FlattenSeq(lists(g, path)) \in V
            <4> HIDE DEF P
            <4> QED
                BY <3>3, Flattened
        <3> QED
            BY <3>1, <3>4
    <2>2. ASSUME NEW g \in [P -> V], NEW h \in [P -> V], NEW path \in P,
                 \A q \in P : depth[path] < depth[q] /\ depth[q] <= MaxGroupSize => g[q] = h[q]
          PROVE  F[g][path] = F[h][path]
        <3>1. \A n \in 1..MaxNumber : Append(path, n) \in DOMAIN trie => g[Append(path, n)] = h[Append(path, n)]
            <4> SUFFICES ASSUME NEW n \in 1..MaxNumber, Append(path, n) \in DOMAIN trie
                         PROVE  g[Append(path, n)] = h[Append(path, n)]
                OBVIOUS
            <4>1. Append(path, n) \in P /\ Len(path) < Len(Append(path, n)) /\ Len(Append(path, n)) <= MaxGroupSize
                <5>1. Append(path, n) \in P /\ Len(Append(path, n)) = Len(path) + 1 /\ Len(path) \in Nat
                    BY <1>2
                <5>2. Len(Append(path, n)) \in 1..MaxGroupSize
                    BY <1>3
                <5> HIDE DEF P, V, depth
                <5> QED
                    BY <1>0, <5>1, <5>2
            <4>2. depth[path] = Len(path) /\ depth[Append(path, n)] = Len(Append(path, n))
                BY <4>1
            <4> HIDE DEF depth, P, V
            <4> QED
                BY <2>2, <4>1, <4>2
        <3>2. lists(g, path) = lists(h, path)
            <4> HIDE DEF P, V, depth
            <4> QED
                BY <3>1
        <3>3. Round(g)[path] = Round(h)[path]
            <4> HIDE DEF lists, P, V, depth
            <4> QED
                BY <3>2
        <3> HIDE DEF Round, P, V, depth
        <3> QED
            BY <3>3
    <2>3. \E g \in [P -> V] : F[g] = g
        <3>1. depth \in [P -> Nat]
            OBVIOUS
        <3>2. F \in [[P -> V] -> [P -> V]]
            <4> HIDE DEF P, V, Round
            <4> QED
                BY <2>1
        <3>3. <<>> \in V
            OBVIOUS
        <3>4. V # {}
            BY <3>3
        <3>5. \A g, h \in [P -> V] : \A path \in P :
                  (\A q \in P : depth[path] < depth[q] /\ depth[q] <= MaxGroupSize => g[q] = h[q])
                      => F[g][path] = F[h][path]
            <4> HIDE DEF F, P, V, depth
            <4> QED
                BY <2>2
        <3> HIDE DEF F, P, V, depth
        <3>6. Descends(P, V, depth, MaxGroupSize, F)
            BY <1>0, <3>1, <3>2, <3>4, <3>5 DEF Descends
        <3> QED
            BY <3>6, DescentSolved
    <2>4. \E g : g = Round(g)
        <3> HIDE DEF P, V, Round
        <3> QED
            BY <2>3
    <2> HIDE DEF Round
    <2> QED
        BY <2>4
<1> HIDE DEF C
<1>5. \A path \in P : C[path] = IF Len(path) = size THEN <<path>> ELSE FlattenSeq(lists(C, path))
    <2> HIDE DEF P, lists
    <2> QED
        BY <1>4
<1> DEFINE Ahead(path) == path \in DOMAIN trie \union {<<>>} /\ Len(path) <= size
           T == {m \in Nat : \A path : Ahead(path) /\ Len(path) + m > MaxGroupSize => Right(path)}
<1>6. 0 \in T
    <2>1. \A path : Ahead(path) => ~(Len(path) + 0 > MaxGroupSize)
        BY <1>0, <1>3
    <2> HIDE DEF Ahead, Right
    <2> QED
        BY <2>1
<1>7. ASSUME NEW m \in T
      PROVE  m + 1 \in T
    <2> SUFFICES ASSUME NEW path, Ahead(path), Len(path) + (m + 1) > MaxGroupSize
                 PROVE  Right(path)
        BY <1>7
    <2>1. path \in P /\ Len(path) \in Nat /\ Len(path) <= size /\ m \in Nat
        <3>1. path \in P
            <4>1. <<>> \in P
                OBVIOUS
            <4> QED
                BY <1>3, <4>1
        <3> QED
            BY <1>7, <3>1
    <2>2. CASE Len(path) = size
        <3>1. C[path] = <<path>> /\ path \in DOMAIN trie /\ path \in Groups
            <4>1. path # <<>>
                BY <2>2
            <4> QED
                BY <1>5, <2>1, <2>2, <4>1 DEF Rooted
        <3>2. C[path] \in Seq(Groups) /\ ToSet(C[path]) = {path} /\ Distinct(C[path])
            BY <3>1 DEF ToSet, Distinct
        <3>3. Starts(path, path)
            BY <2>1 DEF Starts
        <3>4. \A g \in DOMAIN trie : Len(g) = size /\ Starts(path, g) => g = path
            BY <1>3, <2>1, <2>2, StartsWhole
        <3> QED
            BY <2>2, <3>1, <3>2, <3>3, <3>4
    <2>3. CASE Len(path) # size
        <3> DEFINE s == lists(C, path)
                   ends(n) == {g \in DOMAIN trie : Len(g) = size /\ Starts(Append(path, n), g)}
        <3>1. Len(path) < size
            BY <2>1, <2>3
        <3>2. \A n \in 1..MaxNumber, g \in DOMAIN trie :
                  Starts(Append(path, n), g) <=> Starts(path, g) /\ Len(path) < Len(g) /\ g[Len(path) + 1] = n
            BY <1>3, <2>1, StartsOn
        <3>3. ASSUME NEW n \in 1..MaxNumber
              PROVE  s[n] \in Seq(Groups) /\ ToSet(s[n]) = ends(n) /\ Distinct(s[n])
            <4>1. CASE Append(path, n) \in DOMAIN trie
                <5>1. Ahead(Append(path, n)) /\ Len(Append(path, n)) + m > MaxGroupSize
                    BY <1>0, <1>2, <2>1, <3>1, <4>1
                <5>2. Right(Append(path, n))
                    <6> HIDE DEF Right, Ahead
                    <6> QED
                        BY <1>7, <5>1
                <5>3. s[n] = C[Append(path, n)]
                    BY <4>1
                <5> HIDE DEF s
                <5> QED
                    BY <5>2, <5>3
            <4>2. CASE Append(path, n) \notin DOMAIN trie
                <5>1. s[n] = <<>>
                    BY <4>2
                <5>2. ends(n) = {}
                    <6>1. Append(path, n) \in P /\ Append(path, n) # <<>>
                        BY <1>2, <2>1
                    <6> QED
                        BY <4>2, <6>1 DEF Rooted
                <5> HIDE DEF s, ends
                <5> QED
                    BY <5>1, <5>2 DEF ToSet, Distinct
            <4> QED
                BY <4>1, <4>2
        <3>4. s \in Seq(Seq(Groups)) /\ DOMAIN s = 1..MaxNumber
            <4>1. DOMAIN s = 1..MaxNumber /\ s = [n \in 1..MaxNumber |-> s[n]]
                OBVIOUS
            <4> HIDE DEF s, ends
            <4>2. s \in [1..MaxNumber -> Seq(Groups)]
                BY <3>3, <4>1
            <4> QED
                BY <1>0, <4>1, <4>2
        <3>5. C[path] = FlattenSeq(s)
            BY <1>5, <2>1, <2>3
        <3>6. \A j, k \in 1..MaxNumber : j # k => ends(j) \intersect ends(k) = {}
            BY <3>2
        <3>7. UNION {ends(n) : n \in 1..MaxNumber} = {g \in DOMAIN trie : Len(g) = size /\ Starts(path, g)}
            <4>1. ASSUME NEW g \in DOMAIN trie, Len(g) = size, Starts(path, g)
                  PROVE  \E n \in 1..MaxNumber : g \in ends(n)
                <5>1. g \in P /\ Len(path) + 1 \in 1..Len(g)
                    BY <1>3, <2>1, <3>1, <4>1
                <5>2. g[Len(path) + 1] \in 1..MaxNumber
                    BY <5>1, ElementOfSeq
                <5> QED
                    BY <3>1, <3>2, <4>1, <5>2
            <4>2. \A n \in 1..MaxNumber : \A g \in ends(n) : g \in DOMAIN trie /\ Len(g) = size /\ Starts(path, g)
                BY <3>2
            <4> HIDE DEF ends
            <4> QED
                BY <4>1, <4>2
        <3> HIDE DEF s, ends
        <3>8. FlattenSeq(s) \in Seq(Groups) /\ ToSet(FlattenSeq(s)) = UNION {ToSet(s[n]) : n \in DOMAIN s}
            BY <3>4, Flattened
        <3>9. {ToSet(s[n]) : n \in DOMAIN s} = {ends(n) : n \in 1..MaxNumber}
            BY <3>3, <3>4
        <3>10. Distinct(FlattenSeq(s))
            <4>1. /\ \A i \in DOMAIN s : Distinct(s[i])
                  /\ \A i, j \in DOMAIN s : i # j => ToSet(s[i]) \intersect ToSet(s[j]) = {}
                BY <3>3, <3>4, <3>6
            <4> QED
                BY <3>4, <4>1, Flattened
        <3> QED
            BY <3>5, <3>7, <3>8, <3>9, <3>10
    <2> QED
        BY <2>2, <2>3
<1>8. T = Nat
    <2> HIDE DEF T
    <2>1. T \subseteq Nat
        BY DEF T
    <2> QED
        BY <1>6, <1>7, <2>1, SetInduction
<1>9. Right(<<>>)
    <2>1. Ahead(<<>>) /\ Len(<<>>) + (MaxGroupSize + 1) > MaxGroupSize
        BY <1>0
    <2>2. MaxGroupSize + 1 \in T
        <3> HIDE DEF T
        <3> QED
            BY <1>0, <1>8
    <2> HIDE DEF Ahead, Right
    <2> QED
        BY <2>1, <2>2
<1>10. \A g \in DOMAIN trie : Starts(<<>>, g)
    BY <1>3 DEF Starts
<1> QED
    BY <1>1, <1>9, <1>10

-----------------------------------------------------------------------------
(* Looking a form up in a tree.                                             *)

\* Going on with one more position spells one more number.
LEMMA SpelledOn ==
    ASSUME NEW form \in Seq(Int), NEW path \in Seq(DOMAIN form)
    PROVE  /\ Spelled(form, path) \in Seq(Int) /\ Len(Spelled(form, path)) = Len(path)
           /\ \A k \in 1..Len(path) : Spelled(form, path)[k] = form[path[k]]
           /\ \A i \in DOMAIN form : Spelled(form, Append(path, i)) = Append(Spelled(form, path), form[i])
<1> DEFINE h == Spelled(form, path)
           n == Len(path)
<1>1. \A x \in DOMAIN form : form[x] \in Int
    OBVIOUS
<1>2. n \in Nat /\ DOMAIN path = 1..n /\ \A k \in 1..n : path[k] \in DOMAIN form
    OBVIOUS
<1>3. h \in [1..n -> Int] /\ \A k \in 1..n : h[k] = form[path[k]]
    BY <1>1, <1>2 DEF Spelled
<1>4. h \in Seq(Int) /\ Len(h) = n
    <2> HIDE DEF h, n
    <2> QED
        BY <1>2, <1>3
<1>5. ASSUME NEW i \in DOMAIN form
      PROVE  Spelled(form, Append(path, i)) = Append(h, form[i])
    <2> DEFINE q == Append(path, i)
               r == Append(h, form[i])
    <2>1. /\ DOMAIN q = 1..n + 1 /\ q[n + 1] = i /\ \A k \in 1..n : q[k] = path[k]
        OBVIOUS
    <2>2. /\ r \in Seq(Int) /\ Len(r) = n + 1 /\ r[n + 1] = form[i] /\ \A k \in 1..n : r[k] = h[k]
        <3> HIDE DEF h, n
        <3> QED
            BY <1>1, <1>4
    <2>3. r = [k \in 1..n + 1 |-> r[k]]
        <3> HIDE DEF r, n
        <3>1. r \in [1..n + 1 -> Int]
            BY <1>2, <2>2
        <3> QED
            BY <3>1
    <2> HIDE DEF q, r, h, n
    <2>4. \A k \in 1..n + 1 : form[q[k]] = r[k]
        <3>1. \A k \in 1..n + 1 : k \in 1..n \/ k = n + 1
            BY <1>2
        <3> QED
            BY <1>3, <2>1, <2>2, <3>1
    <2>5. Spelled(form, q) = r
        BY <2>1, <2>3, <2>4 DEF Spelled
    <2> QED
        BY <2>5 DEF q, r
<1> QED
    BY <1>3, <1>4, <1>5

\* For an ascending form the walk finds every group of its numbers that has a
\* node, once.
LEMMA Looked ==
    ASSUME NEW trie, Rooted(trie), NEW form \in Seq(Int), Ascends(form)
    PROVE  LET found == analyzeBuild(trie, form, MaxGroupSize)
           IN  /\ found \in Seq(Groups)
               /\ ToSet(found) = {g \in DOMAIN trie : ToSet(g) \subseteq ToSet(form)}
               /\ Distinct(found)
<1> DEFINE P == Seq(DOMAIN form)
           V == Seq(Seq(Int))
           leads(path, i) == Later(path, i) /\ Spelled(form, Append(path, i)) \in DOMAIN trie
           lists(g, path) == [i \in DOMAIN form |->
                                 IF leads(path, i)
                                 THEN <<Spelled(form, Append(path, i))>> \o g[Append(path, i)] ELSE <<>>]
           Round(g) == [path \in P |->
                           IF Len(path) = MaxGroupSize THEN <<>> ELSE FlattenSeq(lists(g, path))]
           C == CHOOSE g : g = Round(g)
           Right(path) == /\ C[path] \in Seq(Groups)
                          /\ ToSet(C[path]) = {g \in DOMAIN trie : /\ Starts(Spelled(form, path), g)
                                                                   /\ Len(path) < Len(g)
                                                                   /\ ToSet(g) \subseteq ToSet(form)}
                          /\ Distinct(C[path])
<1>0. MaxNumber \in Nat /\ MaxGroupSize \in Nat
    BY NumbersAssumption
<1>1. analyzeBuild(trie, form, MaxGroupSize) = C[<<>>]
    <2>1. analyzeBuild(trie, form, MaxGroupSize) =
              (CHOOSE g : g = [path \in P |->
                  IF Len(path) = MaxGroupSize THEN <<>>
                  ELSE FlattenSeq([i \in DOMAIN form |->
                           IF leads(path, i)
                           THEN <<Spelled(form, Append(path, i))>> \o g[Append(path, i)] ELSE <<>>])])[<<>>]
        BY DEF analyzeBuild
    <2> QED
        BY <2>1
<1>2. \A path \in P, i \in DOMAIN form :
          Append(path, i) \in P /\ Len(Append(path, i)) = Len(path) + 1 /\ Len(path) \in Nat
    OBVIOUS
<1>3. \A g \in DOMAIN trie : g \in Seq(1..MaxNumber) /\ Len(g) \in 1..MaxGroupSize /\ g \in Groups /\ Ascends(g)
    BY GroupFacts DEF Rooted
<1>4. \A path \in P, i \in DOMAIN form :
          leads(path, i) => Len(Append(path, i)) <= MaxGroupSize
    <2> SUFFICES ASSUME NEW path \in P, NEW i \in DOMAIN form, leads(path, i)
                 PROVE  Len(Append(path, i)) <= MaxGroupSize
        OBVIOUS
    <2>1. Len(Spelled(form, Append(path, i))) = Len(Append(path, i))
        BY <1>2, SpelledOn
    <2>2. Len(Spelled(form, Append(path, i))) \in 1..MaxGroupSize
        BY <1>3
    <2> QED
        BY <1>0, <2>1, <2>2
<1> HIDE DEF leads
<1>5. C = Round(C)
    <2> DEFINE F == [g \in [P -> V] |-> Round(g)]
               depth == [path \in P |-> Len(path)]
    <2>1. ASSUME NEW g \in [P -> V]
          PROVE  Round(g) \in [P -> V]
        <3> SUFFICES ASSUME NEW path \in P
                     PROVE  (IF Len(path) = MaxGroupSize THEN <<>> ELSE FlattenSeq(lists(g, path))) \in V
            OBVIOUS
        <3>1. <<>> \in V
            OBVIOUS
        <3>2. \A i \in DOMAIN form : <<Spelled(form, Append(path, i))>> \o g[Append(path, i)] \in V
            <4> SUFFICES ASSUME NEW i \in DOMAIN form
                         PROVE  <<Spelled(form, Append(path, i))>> \o g[Append(path, i)] \in V
                OBVIOUS
            <4>1. Spelled(form, Append(path, i)) \in Seq(Int)
                BY <1>2, SpelledOn
            <4>2. g[Append(path, i)] \in V
                <5>1. Append(path, i) \in P
                    BY <1>2
                <5> HIDE DEF P, V
                <5> QED
                    BY <5>1
            <4> QED
                BY <4>1, <4>2
        <3>3. lists(g, path) \in Seq(V)
            <4>1. DOMAIN form = 1..Len(form) /\ Len(form) \in Nat
                OBVIOUS
            <4> HIDE DEF V
            <4> QED
                BY <3>1, <3>2, <4>1
        <3> HIDE DEF lists
        <3>4. FlattenSeq(lists(g, path)) \in V
            BY <3>3, Flattened
        <3> QED
            BY <3>1, <3>4
    <2>2. ASSUME NEW g \in [P -> V], NEW h \in [P -> V], NEW path \in P,
                 \A q \in P : depth[path] < depth[q] /\ depth[q] <= MaxGroupSize => g[q] = h[q]
          PROVE  F[g][path] = F[h][path]
        <3>1. \A i \in DOMAIN form : leads(path, i) => g[Append(path, i)] = h[Append(path, i)]
            <4> SUFFICES ASSUME NEW i \in DOMAIN form, leads(path, i)
                         PROVE  g[Append(path, i)] = h[Append(path, i)]
                OBVIOUS
            <4>1. Append(path, i) \in P /\ Len(path) < Len(Append(path, i)) /\ Len(Append(path, i)) <= MaxGroupSize
                <5>1. Append(path, i) \in P /\ Len(Append(path, i)) = Len(path) + 1 /\ Len(path) \in Nat
                    BY <1>2
                <5>2. Len(Append(path, i)) <= MaxGroupSize
                    BY <1>4
                <5> HIDE DEF P, V, depth
                <5> QED
                    BY <5>1, <5>2
            <4>2. depth[path] = Len(path) /\ depth[Append(path, i)] = Len(Append(path, i))
                BY <4>1
            <4> HIDE DEF depth, P, V
            <4> QED
                BY <2>2, <4>1, <4>2
        <3>2. lists(g, path) = lists(h, path)
            <4> HIDE DEF P, V, depth
            <4> QED
                BY <3>1
        <3>3. Round(g)[path] = Round(h)[path]
            <4> HIDE DEF lists, P, V, depth
            <4> QED
                BY <3>2
        <3> HIDE DEF Round, P, V, depth
        <3> QED
            BY <3>3
    <2>3. \E g \in [P -> V] : F[g] = g
        <3>1. depth \in [P -> Nat]
            OBVIOUS
        <3>2. F \in [[P -> V] -> [P -> V]]
            <4> HIDE DEF P, V, Round
            <4> QED
                BY <2>1
        <3>3. V # {}
            <4>1. <<>> \in V
                OBVIOUS
            <4> QED
                BY <4>1
        <3>4. \A g, h \in [P -> V] : \A path \in P :
                  (\A q \in P : depth[path] < depth[q] /\ depth[q] <= MaxGroupSize => g[q] = h[q])
                      => F[g][path] = F[h][path]
            <4> HIDE DEF F, P, V, depth
            <4> QED
                BY <2>2
        <3> HIDE DEF F, P, V, depth
        <3>5. Descends(P, V, depth, MaxGroupSize, F)
            BY <1>0, <3>1, <3>2, <3>3, <3>4 DEF Descends
        <3> QED
            BY <3>5, DescentSolved
    <2>4. \E g : g = Round(g)
        <3> HIDE DEF P, V, Round
        <3> QED
            BY <2>3
    <2> HIDE DEF Round
    <2> QED
        BY <2>4
<1> HIDE DEF C
<1>6. \A path \in P : C[path] = IF Len(path) = MaxGroupSize THEN <<>> ELSE FlattenSeq(lists(C, path))
    <2> HIDE DEF P, lists
    <2> QED
        BY <1>5
<1> DEFINE Ahead(path) == path \in P /\ Spelled(form, path) \in DOMAIN trie \union {<<>>}
           T == {m \in Nat : \A path : Ahead(path) /\ Len(path) + m >= MaxGroupSize => Right(path)}
<1>7. \A path : Ahead(path) => /\ Len(path) \in Nat /\ Len(path) <= MaxGroupSize
                               /\ Spelled(form, path) \in Seq(1..MaxNumber)
                               /\ Len(Spelled(form, path)) = Len(path)
    <2> SUFFICES ASSUME NEW path, Ahead(path)
                 PROVE  /\ Len(path) \in Nat /\ Len(path) <= MaxGroupSize
                        /\ Spelled(form, path) \in Seq(1..MaxNumber)
                        /\ Len(Spelled(form, path)) = Len(path)
        OBVIOUS
    <2>1. Len(Spelled(form, path)) = Len(path) /\ Len(path) \in Nat
        BY SpelledOn
    <2>2. CASE Spelled(form, path) \in DOMAIN trie
        BY <1>0, <1>3, <2>1, <2>2
    <2>3. CASE Spelled(form, path) = <<>>
        BY <1>0, <2>1, <2>3
    <2> QED
        BY <2>2, <2>3
<1>8. ASSUME NEW path, Ahead(path), Len(path) = MaxGroupSize
      PROVE  Right(path)
    <2>1. C[path] = <<>>
        BY <1>6, <1>8
    <2>2. \A g \in DOMAIN trie : ~(Len(path) < Len(g))
        BY <1>0, <1>3, <1>8
    <2> HIDE DEF Ahead
    <2> QED
        BY <2>1, <2>2 DEF ToSet, Distinct
<1>9. 0 \in T
    <2>1. \A path : Ahead(path) /\ Len(path) + 0 >= MaxGroupSize => Len(path) = MaxGroupSize
        <3> HIDE DEF Ahead
        <3> QED
            BY <1>0, <1>7
    <2> HIDE DEF Ahead, Right
    <2> QED
        BY <1>8, <2>1
<1>10. ASSUME NEW m \in T
       PROVE  m + 1 \in T
    <2> SUFFICES ASSUME NEW path, Ahead(path), Len(path) + (m + 1) >= MaxGroupSize, Len(path) # MaxGroupSize
                 PROVE  Right(path)
        <3> HIDE DEF Ahead, Right
        <3> QED
            BY <1>8, <1>10
    <2> DEFINE h == Spelled(form, path)
               n == Len(path)
               s == lists(C, path)
               ends(i) == {g \in DOMAIN trie : /\ Later(path, i) /\ Starts(Append(h, form[i]), g)
                                               /\ ToSet(g) \subseteq ToSet(form)}
    <2>1. path \in P /\ h \in Seq(1..MaxNumber) /\ n \in Nat /\ Len(h) = n /\ n < MaxGroupSize /\ m \in Nat
        <3>1. n \in Nat /\ n <= MaxGroupSize /\ h \in Seq(1..MaxNumber) /\ Len(h) = n
            BY <1>7
        <3>2. path \in P /\ m \in Nat
            BY <1>10
        <3> QED
            BY <1>0, <3>1, <3>2
    <2>2. DOMAIN form = 1..Len(form) /\ Len(form) \in Nat /\ \A i \in DOMAIN form : form[i] \in Int
        OBVIOUS
    <2>3. \A i \in DOMAIN form : Spelled(form, Append(path, i)) = Append(h, form[i])
        BY <2>1, SpelledOn
    <2>4. \A i \in DOMAIN form, g \in DOMAIN trie :
              Starts(Append(h, form[i]), g) <=> Starts(h, g) /\ n < Len(g) /\ g[n + 1] = form[i]
        <3> SUFFICES ASSUME NEW i \in DOMAIN form, NEW g \in DOMAIN trie
                     PROVE  Starts(Append(h, form[i]), g) <=> Starts(h, g) /\ n < Len(g) /\ g[n + 1] = form[i]
            OBVIOUS
        <3>1. g \in Seq(Int) /\ h \in Seq(Int) /\ form[i] \in Int
            <4>1. \A x \in Seq(1..MaxNumber) : x \in Seq(Int)
                <5>1. 1..MaxNumber \subseteq Int
                    OBVIOUS
                <5> QED
                    BY <5>1, SeqMonotonic
            <4> HIDE DEF h
            <4> QED
                BY <1>3, <2>1, <2>2, <4>1
        <3> HIDE DEF h, n
        <3> QED
            BY <2>1, <3>1, StartsOn
    <2>5. ASSUME NEW i \in DOMAIN form
          PROVE  s[i] \in Seq(Groups) /\ ToSet(s[i]) = ends(i) /\ Distinct(s[i])
        <3> DEFINE q == Append(path, i)
                   c == Spelled(form, q)
        <3>1. q \in P /\ Len(q) = n + 1 /\ c = Append(h, form[i]) /\ Len(c) = n + 1
            <4>1. q \in P /\ Len(q) = n + 1
                BY <1>2, <2>1
            <4>2. Len(c) = Len(q)
                BY <4>1, SpelledOn
            <4> QED
                BY <2>3, <4>1, <4>2
        <3>2. CASE leads(path, i)
            <4>1. c \in DOMAIN trie /\ Later(path, i)
                BY <3>2 DEF leads
            <4>2. Ahead(q)
                BY <3>1, <4>1
            <4>3. Right(q)
                <5>1. Len(q) + m >= MaxGroupSize
                    BY <1>0, <2>1, <3>1
                <5> HIDE DEF Right, Ahead, q
                <5> QED
                    BY <1>10, <4>2, <5>1
            <4>4. s[i] = <<c>> \o C[q]
                BY <3>2
            <4>5. <<c>> \in Seq(Groups) /\ ToSet(<<c>>) = {c} /\ Distinct(<<c>>)
                <5>1. c \in Groups
                    BY <1>3, <4>1
                <5> HIDE DEF c
                <5> QED
                    BY <5>1 DEF ToSet, Distinct
            <4>6. C[q] \in Seq(Groups) /\ Distinct(C[q])
                BY <4>3
            <4>7. ToSet(C[q]) = {g \in DOMAIN trie : Starts(c, g) /\ n + 1 < Len(g) /\ ToSet(g) \subseteq ToSet(form)}
                <5>1. ToSet(C[q]) = {g \in DOMAIN trie : /\ Starts(c, g) /\ Len(q) < Len(g)
                                                         /\ ToSet(g) \subseteq ToSet(form)}
                    BY <4>3
                <5> HIDE DEF c, q, h, n
                <5> QED
                    BY <3>1, <5>1
            <4>8. ToSet(c) \subseteq ToSet(form) /\ Starts(c, c)
                <5>1. DOMAIN c = DOMAIN q /\ \A k \in DOMAIN q : q[k] \in DOMAIN form /\ c[k] = form[q[k]]
                    BY <3>1 DEF Spelled
                <5> HIDE DEF c, q
                <5>2. \A k \in DOMAIN c : c[k] \in ToSet(form)
                    BY <5>1 DEF ToSet
                <5>3. ToSet(c) \subseteq ToSet(form)
                    BY <5>2 DEF ToSet
                <5>4. Len(c) <= Len(c)
                    BY <2>1, <3>1
                <5> QED
                    BY <5>3, <5>4 DEF Starts
            <4>9. \A g \in DOMAIN trie : Starts(c, g) => g = c \/ n + 1 < Len(g)
                <5> SUFFICES ASSUME NEW g \in DOMAIN trie, Starts(c, g), ~(n + 1 < Len(g))
                             PROVE  g = c
                    OBVIOUS
                <5>1. Len(c) = Len(g)
                    <6>1. Len(g) \in Nat /\ Len(c) <= Len(g)
                        BY <1>3 DEF Starts
                    <6> HIDE DEF c, h, n
                    <6> QED
                        BY <2>1, <3>1, <6>1
                <5>2. c \in Seq(1..MaxNumber) /\ g \in Seq(1..MaxNumber)
                    BY <1>3, <4>1
                <5> HIDE DEF c
                <5> QED
                    BY <5>1, <5>2, StartsWhole
            <4>10. ToSet(<<c>> \o C[q]) = {c} \union ToSet(C[q]) /\ <<c>> \o C[q] \in Seq(Groups)
                <5> HIDE DEF c, q
                <5> DEFINE a == <<c>>
                           b == C[q]
                <5>1. a \in Seq(Groups) /\ b \in Seq(Groups) /\ ToSet(a) = {c}
                    BY <4>5, <4>6
                <5> HIDE DEF a, b
                <5>2. ToSet(a \o b) = ToSet(a) \union ToSet(b) /\ a \o b \in Seq(Groups)
                    BY <5>1, Concatenated
                <5> QED
                    BY <5>1, <5>2 DEF a, b
            <4>11. c \notin ToSet(C[q])
                <5>1. ~(n + 1 < Len(c))
                    BY <2>1, <3>1
                <5> HIDE DEF c, q, n
                <5> QED
                    BY <4>7, <5>1
            <4>12. Distinct(<<c>> \o C[q])
                <5>1. {c} \intersect ToSet(C[q]) = {}
                    BY <4>11
                <5> HIDE DEF c, q
                <5> QED
                    BY <4>5, <4>6, <5>1, Concatenated
            <4>13. ends(i) = {c} \union ToSet(C[q])
                <5>1. ends(i) = {g \in DOMAIN trie : Starts(c, g) /\ ToSet(g) \subseteq ToSet(form)}
                    BY <3>1, <4>1
                <5> HIDE DEF ends, c, q, n
                <5> QED
                    BY <4>1, <4>7, <4>8, <4>9, <5>1
            <4> HIDE DEF ends, c, q, s
            <4> QED
                BY <4>4, <4>10, <4>12, <4>13
        <3>3. CASE ~leads(path, i)
            <4>1. s[i] = <<>>
                BY <3>3
            <4>2. ends(i) = {}
                <5> SUFFICES ASSUME NEW g \in ends(i) PROVE FALSE
                    OBVIOUS
                <5>1. g \in DOMAIN trie /\ Later(path, i) /\ Starts(c, g)
                    BY <3>1
                <5>2. n + 1 \in 1..Len(g) /\ form[i] = g[n + 1]
                    <6>1. n < Len(g) /\ Len(g) \in Nat /\ g[n + 1] = form[i]
                        BY <1>3, <2>4, <3>1, <5>1
                    <6> HIDE DEF n
                    <6> QED
                        BY <2>1, <6>1
                <5>3. form[i] \in 1..MaxNumber
                    <6> HIDE DEF n
                    <6> QED
                        BY <1>3, <5>1, <5>2, ElementOfSeq
                <5>4. c \in Seq(1..MaxNumber) /\ c # <<>>
                    <6>1. Append(h, form[i]) \in Seq(1..MaxNumber)
                        <7> HIDE DEF h
                        <7> QED
                            BY <2>1, <5>3, StartsOn
                    <6>2. c # <<>>
                        <7>1. Len(c) # 0
                            BY <2>1, <3>1
                        <7> HIDE DEF c
                        <7> QED
                            BY <7>1
                    <6> HIDE DEF c, h, q
                    <6> QED
                        BY <3>1, <6>1, <6>2
                <5>5. c \in DOMAIN trie
                    <6> HIDE DEF c
                    <6> QED
                        BY <5>1, <5>4 DEF Rooted
                <5> QED
                    BY <3>3, <5>1, <5>5 DEF leads
            <4> HIDE DEF s, ends
            <4> QED
                BY <4>1, <4>2 DEF ToSet, Distinct
        <3> QED
            BY <3>2, <3>3
    <2>6. s \in Seq(Seq(Groups)) /\ DOMAIN s = DOMAIN form
        <3>1. DOMAIN s = DOMAIN form /\ s = [i \in DOMAIN form |-> s[i]]
            OBVIOUS
        <3> HIDE DEF s, ends
        <3>2. s \in [DOMAIN form -> Seq(Groups)]
            BY <2>5, <3>1
        <3> QED
            BY <2>2, <3>1, <3>2
    <2>7. C[path] = FlattenSeq(s)
        BY <1>6, <2>1
    <2>8. \A i, j \in DOMAIN form : form[i] < form[j] => i < j
        <3> SUFFICES ASSUME NEW i \in DOMAIN form, NEW j \in DOMAIN form, form[i] < form[j], ~(i < j)
                     PROVE  FALSE
            OBVIOUS
        <3>1. i = j \/ form[j] < form[i]
            BY <2>2 DEF Ascends
        <3> QED
            BY <2>2, <3>1
    <2>9. \A i, j \in DOMAIN form : i # j => ends(i) \intersect ends(j) = {}
        <3> SUFFICES ASSUME NEW i \in DOMAIN form, NEW j \in DOMAIN form, i # j,
                            NEW g \in ends(i) \intersect ends(j)
                     PROVE  FALSE
            OBVIOUS
        <3>1. form[i] = form[j]
            BY <2>4
        <3>2. form[i] < form[j] \/ form[j] < form[i]
            BY <2>2 DEF Ascends
        <3> QED
            BY <2>2, <3>1, <3>2
    <2>10. UNION {ends(i) : i \in DOMAIN form} =
               {g \in DOMAIN trie : Starts(h, g) /\ n < Len(g) /\ ToSet(g) \subseteq ToSet(form)}
        <3>1. ASSUME NEW g \in DOMAIN trie, Starts(h, g), n < Len(g), ToSet(g) \subseteq ToSet(form)
              PROVE  \E i \in DOMAIN form : g \in ends(i)
            <4>1. g \in Seq(1..MaxNumber) /\ n + 1 \in 1..Len(g) /\ DOMAIN g = 1..Len(g) /\ Ascends(g)
                <5>1. g \in Seq(1..MaxNumber) /\ Len(g) \in Nat /\ Ascends(g)
                    BY <1>3
                <5>2. DOMAIN g = 1..Len(g)
                    BY <5>1
                <5> HIDE DEF n
                <5> QED
                    BY <2>1, <3>1, <5>1, <5>2
            <4>2. PICK i \in DOMAIN form : form[i] = g[n + 1]
                BY <3>1, <4>1 DEF ToSet
            <4>3. Later(path, i)
                <5> SUFFICES ASSUME path # <<>> PROVE Last(path) < i
                    BY DEF Later
                <5>1. n \in 1..n /\ n \in 1..Len(g) /\ n < n + 1
                    <6>1. n # 0
                        BY <2>1
                    <6> HIDE DEF n
                    <6> QED
                        BY <2>1, <4>1, <6>1
                <5>2. Last(path) = path[n] /\ path[n] \in DOMAIN form
                    BY <2>1, <5>1 DEF Last
                <5>3. h[n] = form[path[n]]
                    BY <2>1, <5>1, SpelledOn
                <5>4. g[n] = h[n] /\ g[n] < g[n + 1]
                    <6>1. n \in 1..Len(h) /\ n \in DOMAIN g /\ n + 1 \in DOMAIN g
                        BY <2>1, <4>1, <5>1
                    <6> HIDE DEF h, n
                    <6> QED
                        BY <3>1, <4>1, <5>1, <6>1 DEF Starts, Ascends
                <5> HIDE DEF h, n
                <5> QED
                    BY <2>8, <4>2, <5>2, <5>3, <5>4
            <4>4. Starts(Append(h, form[i]), g)
                BY <2>4, <3>1, <4>2
            <4> QED
                BY <3>1, <4>3, <4>4
        <3>2. \A i \in DOMAIN form : \A g \in ends(i) :
                  g \in DOMAIN trie /\ Starts(h, g) /\ n < Len(g) /\ ToSet(g) \subseteq ToSet(form)
            <4> HIDE DEF h, n
            <4> QED
                BY <2>4
        <3> HIDE DEF ends, h, n
        <3> QED
            BY <3>1, <3>2
    <2> HIDE DEF s, ends
    <2>11. FlattenSeq(s) \in Seq(Groups) /\ ToSet(FlattenSeq(s)) = UNION {ToSet(s[i]) : i \in DOMAIN s}
        BY <2>6, Flattened
    <2>12. {ToSet(s[i]) : i \in DOMAIN s} = {ends(i) : i \in DOMAIN form}
        BY <2>5, <2>6
    <2>13. Distinct(FlattenSeq(s))
        <3>1. \A i \in DOMAIN s : Distinct(s[i])
            BY <2>5, <2>6
        <3>2. \A i, j \in DOMAIN s : i # j => ToSet(s[i]) \intersect ToSet(s[j]) = {}
            BY <2>5, <2>6, <2>9
        <3> QED
            BY <2>6, <3>1, <3>2, Flattened
    <2> QED
        BY <2>7, <2>10, <2>11, <2>12, <2>13
<1>11. T = Nat
    <2> HIDE DEF T
    <2>1. T \subseteq Nat
        BY DEF T
    <2> QED
        BY <1>9, <1>10, <2>1, SetInduction
<1>12. <<>> \in P /\ Spelled(form, <<>>) = <<>>
    BY DEF Spelled
<1>13. Right(<<>>)
    <2>1. Ahead(<<>>) /\ Len(<<>>) + MaxGroupSize >= MaxGroupSize
        BY <1>0, <1>12
    <2>2. MaxGroupSize \in T
        <3> HIDE DEF T
        <3> QED
            BY <1>0, <1>11
    <2> HIDE DEF Ahead, Right
    <2> QED
        BY <2>1, <2>2
<1>14. \A g \in DOMAIN trie : Starts(<<>>, g) /\ Len(<<>>) < Len(g)
    BY <1>3 DEF Starts
<1> QED
    BY <1>1, <1>12, <1>13, <1>14

-----------------------------------------------------------------------------
(* Sets of numbers and their ascending paths.                               *)

\* A path: numbers of the lottery in ascending order.
Path(g) == g \in Seq(1..MaxNumber) /\ Ascends(g)

\* A path has as many numbers as its set.
LEMMA SetOfPath ==
    ASSUME NEW g, Path(g)
    PROVE  ToSet(g) \subseteq 1..MaxNumber /\ Cardinality(ToSet(g)) = Len(g)
<1> DEFINE n == Len(g)
<1>1. g \in Seq(1..MaxNumber) /\ n \in Nat /\ DOMAIN g = 1..n /\ Ascends(g)
    <2>1. g \in Seq(1..MaxNumber) /\ Ascends(g)
        BY DEF Path
    <2> QED
        BY <2>1
<1>2. n \in Nat /\ \A k \in 1..n : g[k] \in 1..MaxNumber
    BY <1>1, ElementOfSeq
<1>3. ToSet(g) = {g[k] : k \in 1..n}
    BY <1>1 DEF ToSet
<1> HIDE DEF n
<1>4. \A j, k \in 1..n : g[j] = g[k] => j = k
    <2> SUFFICES ASSUME NEW j \in 1..n, NEW k \in 1..n, g[j] = g[k], j # k PROVE FALSE
        OBVIOUS
    <2>1. j < k \/ k < j
        BY <1>2
    <2>2. g[j] < g[k] \/ g[k] < g[j]
        BY <1>1, <2>1 DEF Ascends
    <2>3. g[j] \in 1..MaxNumber
        BY <1>2
    <2> QED
        BY <2>2, <2>3
<1>5. IsFiniteSet(1..n) /\ Cardinality(1..n) = n
    BY <1>2, FS_Interval
<1>6. [k \in 1..n |-> g[k]] \in Bijection(1..n, ToSet(g))
    BY <1>3, <1>4 DEF Bijection, Injection, Surjection, IsInjective
<1>7. Cardinality(1..n) = Cardinality(ToSet(g))
    <2>1. Bijection(1..n, ToSet(g)) # {}
        BY <1>6
    <2>2. ExistsBijection(1..n, ToSet(g))
        BY <2>1 DEF ExistsBijection
    <2> QED
        BY <1>5, <2>2, FS_Bijection
<1> QED
    BY <1>2, <1>3, <1>5, <1>7 DEF n

\* Where two ascending paths part, the lesser number is missing in the other one.
LEMMA LesserIsMissing ==
    ASSUME NEW g, Path(g), NEW h, Path(h), NEW k \in 1..Len(g), k <= Len(h),
           \A j \in 1..Len(g) : j < k => g[j] = h[j], ToSet(g) \subseteq ToSet(h)
    PROVE  ~(g[k] < h[k])
<1> SUFFICES ASSUME g[k] < h[k] PROVE FALSE
    OBVIOUS
<1>0. g \in Seq(1..MaxNumber) /\ Ascends(g) /\ h \in Seq(1..MaxNumber) /\ Ascends(h)
    BY DEF Path
<1>1. /\ DOMAIN g = 1..Len(g) /\ Ascends(g) /\ Len(g) \in Nat
      /\ DOMAIN h = 1..Len(h) /\ Ascends(h) /\ Len(h) \in Nat
    BY <1>0
<1>2. /\ \A j \in 1..Len(g) : g[j] \in Nat
      /\ \A j \in 1..Len(h) : h[j] \in Nat
    <2>1. /\ \A j \in 1..Len(g) : g[j] \in 1..MaxNumber
          /\ \A j \in 1..Len(h) : h[j] \in 1..MaxNumber
        BY <1>0, ElementOfSeq
    <2> QED
        BY <2>1
<1>3. PICK j \in 1..Len(h) : h[j] = g[k]
    <2>1. g[k] \in ToSet(g)
        BY <1>1 DEF ToSet
    <2>2. g[k] \in ToSet(h)
        BY <2>1
    <2> QED
        BY <1>1, <2>2 DEF ToSet
<1>4. k \in 1..Len(h)
    BY <1>1
<1>5. CASE j < k
    <2>1. j \in 1..Len(g) /\ g[j] = h[j]
        BY <1>1, <1>3, <1>5
    <2>2. g[j] < g[k]
        BY <1>1, <1>5, <2>1 DEF Ascends
    <2> QED
        BY <1>2, <1>3, <2>1, <2>2
<1>6. CASE j = k
    BY <1>2, <1>3, <1>4, <1>6
<1>7. CASE k < j
    <2>1. h[k] < h[j]
        BY <1>1, <1>3, <1>4, <1>7 DEF Ascends
    <2> QED
        BY <1>2, <1>3, <1>4, <2>1
<1> QED
    BY <1>3, <1>5, <1>6, <1>7

\* A set has one ascending path.
LEMMA OnePathOfSet ==
    ASSUME NEW g, Path(g), NEW h, Path(h), ToSet(g) = ToSet(h)
    PROVE  g = h
<1>1. Len(g) = Len(h)
    BY SetOfPath
<1>2. g \in Seq(1..MaxNumber) /\ h \in Seq(1..MaxNumber) /\ Len(g) \in Nat
    <2>1. g \in Seq(1..MaxNumber) /\ h \in Seq(1..MaxNumber)
        BY DEF Path
    <2> QED
        BY <2>1
<1> DEFINE apart == {k \in 1..Len(g) : g[k] # h[k]}
<1>3. apart = {}
    <2> SUFFICES ASSUME apart # {} PROVE FALSE
        OBVIOUS
    <2>1. apart \subseteq Nat
        BY <1>2
    <2>2. PICK k \in apart : \A j \in apart : ~(j < k)
        <3> HIDE DEF apart
        <3> QED
            BY <2>1, LeastNumber
    <2>3. k \in 1..Len(g) /\ g[k] # h[k] /\ \A j \in 1..Len(g) : j < k => g[j] = h[j]
        BY <2>2
    <2>4. g[k] \in 1..MaxNumber /\ h[k] \in 1..MaxNumber
        BY <1>1, <1>2, <2>3, ElementOfSeq
    <2>5. k <= Len(h) /\ k <= Len(g) /\ k \in 1..Len(h)
        BY <1>1, <1>2, <2>3
    <2>6. ~(g[k] < h[k])
        BY <2>3, <2>5, LesserIsMissing
    <2>7. ~(h[k] < g[k])
        <3>1. \A j \in 1..Len(h) : j < k => h[j] = g[j]
            BY <1>1, <2>3
        <3> QED
            BY <2>5, <3>1, LesserIsMissing
    <2> QED
        BY <2>3, <2>4, <2>6, <2>7
<1> QED
    BY <1>1, <1>2, <1>3, SeqEqual

\* Groups are paths.
LEMMA SetOfGroup ==
    ASSUME NEW g \in Groups
    PROVE  ToSet(g) \subseteq 1..MaxNumber /\ Cardinality(ToSet(g)) = Len(g)
BY GroupFacts, SetOfPath DEF Path

\* And as a set has one path it has one group.
LEMMA OneGroupOfSet ==
    ASSUME NEW g \in Groups, NEW h \in Groups, ToSet(g) = ToSet(h)
    PROVE  g = h
BY GroupFacts, OnePathOfSet DEF Path

\* A finite set of numbers up to a bound has a greatest one.
LEMMA GreatestNumber ==
    ASSUME NEW bound \in Nat, NEW S, S \subseteq 0..bound, S # {}
    PROVE  \E x \in S : \A y \in S : y <= x
<1> DEFINE T == {bound - x : x \in S}
<1>1. T \subseteq Nat /\ T # {}
    <2>1. \A x \in S : bound - x \in Nat
        OBVIOUS
    <2> QED
        BY <2>1
<1>2. PICK t \in T : \A y \in T : ~(y < t)
    <2> HIDE DEF T
    <2> QED
        BY <1>1, LeastNumber
<1>3. PICK x \in S : t = bound - x
    BY <1>2
<1>4. \A y \in S : ~(bound - y < bound - x)
    BY <1>2, <1>3
<1> QED
    BY <1>3, <1>4

\* A set of numbers has an ascending path.
LEMMA PathOfSet ==
    ASSUME NEW G, G \subseteq 1..MaxNumber
    PROVE  Cardinality(G) \in Nat /\ \E g \in [1..Cardinality(G) -> 1..MaxNumber] : Ascends(g) /\ ToSet(g) = G
<1>0. MaxNumber \in Nat
    BY NumbersAssumption
<1>1. \A H : H \subseteq 1..MaxNumber => IsFiniteSet(H) /\ Cardinality(H) \in Nat
    <2>1. IsFiniteSet(1..MaxNumber)
        BY <1>0, FS_Interval
    <2> QED
        BY <2>1, FS_Subset, FS_CardinalityType
<1> DEFINE Has(n, H) == \E g \in [1..n -> 1..MaxNumber] : Ascends(g) /\ ToSet(g) = H
           T == {n \in Nat : \A H \in SUBSET (1..MaxNumber) : Cardinality(H) = n => Has(n, H)}
<1>2. 0 \in T
    <2>1. \A H \in SUBSET (1..MaxNumber) : Cardinality(H) = 0 => H = {}
        BY <1>1, FS_EmptySet
    <2>2. Has(0, {})
        <3> DEFINE g == [k \in 1..0 |-> 1]
        <3>1. g \in [1..0 -> 1..MaxNumber] /\ DOMAIN g = {}
            OBVIOUS
        <3> HIDE DEF g
        <3>2. Ascends(g) /\ ToSet(g) = {}
            BY <3>1 DEF Ascends, ToSet
        <3> QED
            BY <3>1, <3>2
    <2> HIDE DEF Has
    <2> QED
        BY <2>1, <2>2
<1>3. ASSUME NEW n \in T
      PROVE  n + 1 \in T
    <2> SUFFICES ASSUME NEW H \in SUBSET (1..MaxNumber), Cardinality(H) = n + 1
                 PROVE  Has(n + 1, H)
        BY <1>3
    <2>1. n \in Nat /\ H # {}
        <3>1. n \in Nat
            BY <1>3
        <3>2. n + 1 # 0
            BY <3>1
        <3>3. Cardinality({}) = 0
            BY FS_EmptySet
        <3> HIDE DEF T
        <3>4. H # {}
            BY <3>2, <3>3
        <3> QED
            BY <3>1, <3>4
    <2>2. PICK x \in H : \A y \in H : y <= x
        <3>1. H \subseteq 0..MaxNumber
            BY <1>0
        <3> QED
            BY <1>0, <2>1, <3>1, GreatestNumber
    <2>3. Cardinality(H \ {x}) = n
        <3>1. Cardinality(H \ {x}) = Cardinality(H) - 1
            BY <1>1, <2>2, FS_RemoveElement
        <3> QED
            BY <2>1, <3>1
    <2>4. PICK g \in [1..n -> 1..MaxNumber] : Ascends(g) /\ ToSet(g) = H \ {x}
        BY <1>3, <2>3
    <2> DEFINE h == [k \in 1..n + 1 |-> IF k = n + 1 THEN x ELSE g[k]]
    <2>5. /\ DOMAIN g = 1..n /\ \A k \in 1..n : g[k] \in H /\ g[k] # x
          /\ \A y \in H : y # x => \E k \in 1..n : g[k] = y
        BY <2>4 DEF ToSet
    <2>6. \A k \in 1..n + 1 : k \in 1..n \/ k = n + 1
        BY <2>1
    <2>7. \A k \in 1..n : k \in 1..n + 1 /\ k # n + 1
        BY <2>1
    <2>8. /\ DOMAIN h = 1..n + 1 /\ h = [k \in 1..n + 1 |-> h[k]]
          /\ h[n + 1] = x /\ \A k \in 1..n : h[k] = g[k]
        BY <2>1, <2>7
    <2> HIDE DEF h
    <2>9. h \in [1..n + 1 -> 1..MaxNumber]
        BY <2>2, <2>5, <2>6, <2>8
    <2>10. Ascends(h)
        <3> SUFFICES ASSUME NEW j \in 1..n + 1, NEW k \in 1..n + 1, j < k PROVE h[j] < h[k]
            BY <2>8 DEF Ascends
        <3>1. j \in 1..n
            BY <2>1
        <3>2. CASE k \in 1..n
            BY <2>4, <2>5, <2>8, <3>1, <3>2 DEF Ascends
        <3>3. CASE k = n + 1
            <4>1. g[j] \in H /\ g[j] # x /\ g[j] <= x /\ x \in 1..MaxNumber /\ g[j] \in 1..MaxNumber
                BY <2>2, <2>5, <3>1
            <4>2. h[j] = g[j] /\ h[k] = x
                BY <2>8, <3>1, <3>3
            <4>3. g[j] < x
                BY <4>1
            <4> QED
                BY <4>2, <4>3
        <3> QED
            BY <2>6, <3>2, <3>3
    <2>11. ToSet(h) = H
        <3>1. \A y \in ToSet(h) : y \in H
            <4>1. \A k \in 1..n + 1 : h[k] \in H
                BY <2>2, <2>5, <2>6, <2>8
            <4> QED
                BY <2>8, <4>1 DEF ToSet
        <3>2. \A y \in H : \E k \in 1..n + 1 : h[k] = y
            <4>1. n + 1 \in 1..n + 1
                BY <2>1
            <4> QED
                BY <2>5, <2>7, <2>8, <4>1
        <3>3. \A y \in H : y \in ToSet(h)
            BY <2>8, <3>2 DEF ToSet
        <3> QED
            BY <3>1, <3>3
    <2> QED
        BY <2>9, <2>10, <2>11
<1>4. T = Nat
    <2> HIDE DEF T
    <2>1. T \subseteq Nat
        BY DEF T
    <2> QED
        BY <1>2, <1>3, <2>1, SetInduction
<1>5. Cardinality(G) \in T
    <2> HIDE DEF T
    <2> QED
        BY <1>1, <1>4
<1> QED
    BY <1>1, <1>5

\* So every set of a size that is counted is the set of a group.
LEMMA GroupOfSet ==
    ASSUME NEW G, G \subseteq 1..MaxNumber, Cardinality(G) \in 1..MaxGroupSize
    PROVE  \E g \in Groups : ToSet(g) = G /\ Len(g) = Cardinality(G)
<1> DEFINE n == Cardinality(G)
<1>1. PICK g \in [1..n -> 1..MaxNumber] : Ascends(g) /\ ToSet(g) = G
    BY PathOfSet
<1> HIDE DEF n
<1>2. n \in 1..MaxGroupSize
    BY DEF n
<1>3. g \in {f \in [1..n -> 1..MaxNumber] : Ascends(f)}
    BY <1>1
<1>4. g \in Groups
    BY <1>2, <1>3 DEF Groups
<1>5. Len(g) = n
    BY <1>1, <1>4, SetOfGroup DEF n
<1> QED
    BY <1>1, <1>4, <1>5 DEF n

\* A list of a set's elements that names none twice is as long as the set.
LEMMA ListedOnce ==
    ASSUME NEW X, NEW s \in Seq(X), Distinct(s)
    PROVE  IsFiniteSet(ToSet(s)) /\ Cardinality(ToSet(s)) = Len(s)
<1> DEFINE n == Len(s)
<1>1. n \in Nat /\ DOMAIN s = 1..n /\ ToSet(s) = {s[k] : k \in 1..n}
    BY DEF ToSet
<1> HIDE DEF n
<1>2. IsFiniteSet(1..n) /\ Cardinality(1..n) = n
    BY <1>1, FS_Interval
<1>3. [k \in 1..n |-> s[k]] \in Bijection(1..n, ToSet(s))
    BY <1>1 DEF Distinct, Bijection, Injection, Surjection, IsInjective
<1>4. ExistsBijection(1..n, ToSet(s))
    BY <1>3 DEF ExistsBijection
<1> QED
    BY <1>2, <1>4, FS_Bijection DEF n

\* The sets of a list of groups are as many as the groups.
LEMMA SetsListed ==
    ASSUME NEW s \in Seq(Groups), Distinct(s)
    PROVE  Cardinality({ToSet(s[k]) : k \in DOMAIN s}) = Len(s)
<1> DEFINE n == Len(s)
           t == [k \in 1..n |-> ToSet(s[k])]
<1>1. n \in Nat /\ DOMAIN s = 1..n /\ \A k \in 1..n : s[k] \in Groups
    OBVIOUS
<1> HIDE DEF n
<1>2. t \in Seq(SUBSET (1..MaxNumber)) /\ DOMAIN t = 1..n /\ Len(t) = n
    <2>1. \A k \in 1..n : ToSet(s[k]) \in SUBSET (1..MaxNumber)
        BY <1>1, SetOfGroup
    <2> DEFINE X == SUBSET (1..MaxNumber)
    <2>2. t \in [1..n -> X]
        BY <2>1
    <2>3. DOMAIN t = 1..n
        OBVIOUS
    <2> HIDE DEF X, t
    <2>4. t \in Seq(X) /\ Len(t) = n
        BY <1>1, <2>2
    <2> QED
        BY <2>3, <2>4 DEF X
<1>3. \A k \in 1..n : t[k] = ToSet(s[k])
    OBVIOUS
<1> HIDE DEF t
<1>4. Distinct(t)
    BY <1>1, <1>2, <1>3, OneGroupOfSet DEF Distinct
<1>5. ToSet(t) = {ToSet(s[k]) : k \in DOMAIN s}
    <2>1. ToSet(t) = {t[k] : k \in 1..n}
        BY <1>2 DEF ToSet
    <2>2. {t[k] : k \in 1..n} = {ToSet(s[k]) : k \in 1..n}
        BY <1>3
    <2> QED
        BY <1>1, <2>1, <2>2
<1>6. Cardinality(ToSet(t)) = Len(t)
    BY <1>2, <1>4, ListedOnce
<1> QED
    BY <1>2, <1>5, <1>6 DEF n

-----------------------------------------------------------------------------
(* What is read from a tree of counts.                                      *)

\* A tree of counts.
Counts(trie) == Rooted(trie) /\ \A g \in DOMAIN trie : trie[g] \in Nat

\* In the order of mode weak or of the other one.
InOrder(weak, a, b) == IF weak THEN a <= b ELSE a >= b

\* A list of elements of a set is a list over that set.
LEMMA WithinSet ==
    ASSUME NEW X, NEW Y, NEW s \in Seq(X), ToSet(s) \subseteq Y
    PROVE  s \in Seq(Y)
<1> DEFINE n == Len(s)
<1>1. n \in Nat /\ s \in [1..n -> X] /\ DOMAIN s = 1..n
    OBVIOUS
<1>2. \A k \in 1..n : s[k] \in Y
    BY <1>1 DEF ToSet
<1> HIDE DEF n
<1>3. s \in [1..n -> Y]
    BY <1>1, <1>2
<1> QED
    BY <1>1, <1>3

\* The groups of a size, sorted.
LEMMA CollectedInOrder ==
    ASSUME NEW trie, Counts(trie), NEW size \in Nat \ {0}, NEW weak \in BOOLEAN
    PROVE  LET groups == CollectNodes(trie, size, weak)
           IN  /\ groups \in Seq(DOMAIN trie) /\ groups \in Seq(Groups)
               /\ ToSet(groups) = {g \in DOMAIN trie : Len(g) = size}
               /\ Distinct(groups)
               /\ \A j, k \in DOMAIN groups : j < k => InOrder(weak, trie[groups[j]], trie[groups[k]])
<1> DEFINE found == collectNodes(trie, size)
           groups == SortByCount(trie, found, weak)
<1>1. /\ found \in Seq(Groups) /\ Distinct(found)
      /\ ToSet(found) = {g \in DOMAIN trie : Len(g) = size}
    BY Collected DEF Counts
<1>2. CollectNodes(trie, size, weak) = groups
    BY DEF CollectNodes
<1> HIDE DEF found
<1>3. found \in Seq(DOMAIN trie)
    BY <1>1, WithinSet
<1>4. \A g \in DOMAIN trie : trie[g] \in Nat
    BY DEF Counts
<1>5. groups \in Seq(DOMAIN trie) /\ ToSet(groups) = ToSet(found)
    BY <1>3, <1>4, SortedByCount
<1>6. Distinct(groups)
    BY <1>1, <1>3, <1>4, SortedByCount
<1>7. \A j, k \in DOMAIN groups : j < k => InOrder(weak, trie[groups[j]], trie[groups[k]])
    BY <1>3, <1>4, SortedByCount DEF InOrder
<1> HIDE DEF groups
<1>8. groups \in Seq(Groups)
    <2>1. DOMAIN trie \subseteq Groups
        BY DEF Counts, Rooted
    <2> QED
        BY <1>5, <2>1, SeqMonotonic
<1> QED
    BY <1>1, <1>2, <1>5, <1>6, <1>7, <1>8

\* The groups of an ascending form, per size and sorted.
LEMMA AnalyzedInOrder ==
    ASSUME NEW trie, Counts(trie), NEW form \in Seq(Int), Ascends(form), NEW size \in 1..MaxGroupSize
    PROVE  LET groups == AnalyzeArray(trie, form)[size]
           IN  /\ groups \in Seq(DOMAIN trie)
               /\ ToSet(groups) = {g \in DOMAIN trie : Len(g) = size /\ ToSet(g) \subseteq ToSet(form)}
               /\ Distinct(groups)
               /\ \A j, k \in DOMAIN groups : j < k => trie[groups[j]] >= trie[groups[k]]
<1> DEFINE entries == analyzeBuild(trie, form, MaxGroupSize)
           n == Len(entries)
           lists == [k \in DOMAIN entries |-> IF Len(entries[k]) = size THEN <<entries[k]>> ELSE <<>>]
           found == FlattenSeq(lists)
           groups == SortByCount(trie, found, FALSE)
<1>1. /\ entries \in Seq(Groups) /\ Distinct(entries)
      /\ ToSet(entries) = {g \in DOMAIN trie : ToSet(g) \subseteq ToSet(form)}
    BY Looked DEF Counts
<1>2. AnalyzeArray(trie, form)[size] = groups
    BY DEF AnalyzeArray
<1> HIDE DEF entries
<1>3. n \in Nat /\ DOMAIN entries = 1..n /\ entries \in Seq(DOMAIN trie)
    <2>1. entries \in Seq(DOMAIN trie)
        BY <1>1, WithinSet
    <2> QED
        BY <2>1
<1>4. \A k \in 1..n : entries[k] \in DOMAIN trie
    BY <1>3, ElementOfSeq
<1>5. DOMAIN lists = 1..n /\ \A k \in 1..n :
          lists[k] = IF Len(entries[k]) = size THEN <<entries[k]>> ELSE <<>>
    BY <1>3
<1> HIDE DEF lists
<1>6. \A k \in 1..n :
          /\ lists[k] \in Seq(DOMAIN trie) /\ Distinct(lists[k])
          /\ ToSet(lists[k]) = IF Len(entries[k]) = size THEN {entries[k]} ELSE {}
    <2> SUFFICES ASSUME NEW k \in 1..n
                 PROVE  /\ lists[k] \in Seq(DOMAIN trie) /\ Distinct(lists[k])
                        /\ ToSet(lists[k]) = IF Len(entries[k]) = size THEN {entries[k]} ELSE {}
        OBVIOUS
    <2>1. CASE Len(entries[k]) = size
        <3>1. lists[k] = <<entries[k]>> /\ entries[k] \in DOMAIN trie
            BY <1>4, <1>5, <2>1
        <3>2. lists[k] \in Seq(DOMAIN trie)
            BY <3>1
        <3> QED
            BY <2>1, <3>1, <3>2 DEF ToSet, Distinct
    <2>2. CASE Len(entries[k]) # size
        <3>1. lists[k] = <<>>
            BY <1>5, <2>2
        <3> QED
            BY <2>2, <3>1 DEF ToSet, Distinct
    <2> QED
        BY <2>1, <2>2
<1>7. lists \in Seq(Seq(DOMAIN trie))
    <2>1. lists = [k \in 1..n |-> lists[k]]
        <3>1. lists = [k \in DOMAIN lists |-> lists[k]]
            BY DEF lists
        <3> QED
            BY <1>5, <3>1
    <2>2. lists \in [1..n -> Seq(DOMAIN trie)]
        BY <1>6, <2>1
    <2> HIDE DEF n
    <2> QED
        BY <1>3, <2>2
<1>8. found \in Seq(DOMAIN trie) /\ ToSet(found) = UNION {ToSet(lists[k]) : k \in 1..n}
    BY <1>5, <1>7, Flattened
<1>9. Distinct(found)
    <2>1. \A j, k \in 1..n : j # k => entries[j] # entries[k]
        BY <1>1, <1>3 DEF Distinct
    <2>2. \A j, k \in 1..n : j # k => ToSet(lists[j]) \intersect ToSet(lists[k]) = {}
        BY <1>6, <2>1
    <2>3. \A k \in DOMAIN lists : Distinct(lists[k])
        BY <1>5, <1>6
    <2>4. \A j, k \in DOMAIN lists : j # k => ToSet(lists[j]) \intersect ToSet(lists[k]) = {}
        BY <1>5, <2>2
    <2> QED
        BY <1>7, <2>3, <2>4, Flattened
<1>10. ToSet(found) = {g \in DOMAIN trie : Len(g) = size /\ ToSet(g) \subseteq ToSet(form)}
    <2>1. ToSet(entries) = {entries[k] : k \in 1..n}
        BY <1>3 DEF ToSet
    <2>2. UNION {ToSet(lists[k]) : k \in 1..n} = {g \in ToSet(entries) : Len(g) = size}
        <3>1. \A g : (\E k \in 1..n : g \in ToSet(lists[k])) <=> g \in ToSet(entries) /\ Len(g) = size
            <4> HIDE DEF n
            <4> QED
                BY <1>6, <2>1
        <3> HIDE DEF n
        <3> QED
            BY <3>1
    <2> QED
        BY <1>1, <1>8, <2>2
<1> HIDE DEF found
<1>11. \A g \in DOMAIN trie : trie[g] \in Nat
    BY DEF Counts
<1>12. groups \in Seq(DOMAIN trie) /\ ToSet(groups) = ToSet(found)
    <2>1. ASSUME NEW weak \in BOOLEAN
          PROVE  LET sorted == SortByCount(trie, found, weak)
                 IN  sorted \in Seq(DOMAIN trie) /\ ToSet(sorted) = ToSet(found)
        BY <1>8, <1>11, SortedByCount
    <2> QED
        BY <2>1
<1>13. Distinct(groups)
    BY <1>8, <1>9, <1>11, SortedByCount
<1>14. \A j, k \in DOMAIN groups : j < k => trie[groups[j]] >= trie[groups[k]]
    BY <1>8, <1>11, SortedByCount
<1> HIDE DEF groups
<1> QED
    BY <1>2, <1>10, <1>12, <1>13, <1>14

\* The lesser of two numbers.
LEMMA Lesser ==
    ASSUME NEW a \in Nat, NEW b \in Nat
    PROVE  Min({a, b}) = IF a <= b THEN a ELSE b
<1>1. PICK x \in {a, b} : x = Min({a, b}) /\ \A y \in {a, b} : x <= y
    <2>1. \E x \in {a, b} : \A y \in {a, b} : x <= y
        OBVIOUS
    <2> QED
        BY <2>1 DEF Min
<1> QED
    BY <1>1

-----------------------------------------------------------------------------
(* The archive.                                                             *)

\* The draws counted and to be counted are sequences of draws of the table.
DrawsListed == arch.draws \in Seq(table) /\ todo \in Seq(table)

\* Another draw is one more draw for its own groups.
LEMMA ContainingGrows ==
    ASSUME NEW d, arch.draws \in Seq(table), arch'.draws = Append(arch.draws, d), NEW G
    PROVE  /\ IsFiniteSet(Containing(G)) /\ Cardinality(Containing(G)) \in Nat
           /\ Containing(G)' # {} <=> Containing(G) # {} \/ G \subseteq ToSet(d.numbers)
           /\ Cardinality(Containing(G)') =
                  Cardinality(Containing(G)) + (IF G \subseteq ToSet(d.numbers) THEN 1 ELSE 0)
<1> DEFINE n == Len(arch.draws)
<1>1. /\ n \in Nat /\ DOMAIN arch.draws = 1..n /\ DOMAIN arch'.draws = 1..n + 1
      /\ \A k \in 1..n : arch'.draws[k] = arch.draws[k]
      /\ arch'.draws[n + 1] = d
    OBVIOUS
<1>2. IsFiniteSet(Containing(G)) /\ Cardinality(Containing(G)) \in Nat
    <2>1. IsFiniteSet(1..n)
        BY <1>1, FS_Interval
    <2>2. Containing(G) \subseteq 1..n
        BY <1>1 DEF Containing
    <2> QED
        BY <2>1, <2>2, FS_Subset, FS_CardinalityType
<1>3. CASE G \subseteq ToSet(d.numbers)
    <2>1. Containing(G)' = Containing(G) \union {n + 1}
        BY <1>1, <1>3 DEF Containing
    <2>2. n + 1 \notin Containing(G)
        BY <1>1 DEF Containing
    <2> QED
        BY <1>2, <1>3, <2>1, <2>2, FS_AddElement
<1>4. CASE ~(G \subseteq ToSet(d.numbers))
    <2>1. Containing(G)' = Containing(G)
        BY <1>1, <1>4 DEF Containing
    <2> QED
        BY <1>2, <1>4, <2>1
<1> QED
    BY <1>2, <1>3, <1>4

\* And one more for its strong number.
LEMMA StrongTimesGrow ==
    ASSUME NEW d, arch.draws \in Seq(table), arch'.draws = Append(arch.draws, d), NEW n
    PROVE  StrongTimes(n)' = StrongTimes(n) + (IF d.strong = n THEN 1 ELSE 0)
<1> DEFINE m == Len(arch.draws)
           S == {k \in DOMAIN arch.draws : arch.draws[k].strong = n}
           T == {k \in DOMAIN arch'.draws : arch'.draws[k].strong = n}
<1>1. /\ m \in Nat /\ DOMAIN arch.draws = 1..m /\ DOMAIN arch'.draws = 1..m + 1
      /\ \A k \in 1..m : arch'.draws[k] = arch.draws[k]
      /\ arch'.draws[m + 1] = d
    OBVIOUS
<1>2. StrongTimes(n) = Cardinality(S) /\ StrongTimes(n)' = Cardinality(T)
    BY DEF StrongTimes
<1>3. IsFiniteSet(S) /\ Cardinality(S) \in Nat
    <2>1. IsFiniteSet(1..m)
        BY <1>1, FS_Interval
    <2>2. S \subseteq 1..m
        BY <1>1
    <2> HIDE DEF S, m
    <2> QED
        BY <2>1, <2>2, FS_Subset, FS_CardinalityType
<1>4. CASE d.strong = n
    <2>1. T = S \union {m + 1} /\ m + 1 \notin S
        BY <1>1, <1>4
    <2> HIDE DEF S, T, m
    <2> QED
        BY <1>2, <1>3, <1>4, <2>1, FS_AddElement DEF m
<1>5. CASE d.strong # n
    <2>1. T = S
        BY <1>1, <1>5
    <2> HIDE DEF S, T
    <2> QED
        BY <1>2, <1>3, <1>5, <2>1
<1> QED
    BY <1>4, <1>5

\* How often a strong number was drawn.
LEMMA StrongTimesType ==
    ASSUME arch.draws \in Seq(table), NEW n
    PROVE  StrongTimes(n) \in 0..Len(arch.draws)
<1> DEFINE m == Len(arch.draws)
           S == {k \in DOMAIN arch.draws : arch.draws[k].strong = n}
<1>1. m \in Nat /\ DOMAIN arch.draws = 1..m
    OBVIOUS
<1>2. IsFiniteSet(1..m) /\ Cardinality(1..m) = m
    BY <1>1, FS_Interval
<1>3. S \subseteq 1..m
    BY <1>1
<1> HIDE DEF S, m
<1>4. IsFiniteSet(S) /\ Cardinality(S) <= m
    BY <1>2, <1>3, FS_Subset
<1>5. Cardinality(S) \in Nat
    BY <1>4, FS_CardinalityType
<1> QED
    BY <1>1, <1>4, <1>5 DEF StrongTimes, S, m

\* GetByDateRange returns draws of the table.
LEMMA OrderedListed ==
    ASSUME table \subseteq AllDraws, NEW w, NEW s \in Ordered(Selected(w))
    PROVE  s \in Seq(table)
<1>1. Selected(w) \subseteq table
    BY DEF Selected
<1>2. Cardinality(Selected(w)) \in Nat
    BY <1>1, DrawsAssumption, FS_Subset, FS_CardinalityType
<1>3. s \in [1..Cardinality(Selected(w)) -> table]
    BY <1>1 DEF Ordered
<1> QED
    BY <1>2, <1>3

\* One round of the loop of NewLotteryArchive keeps the counts right.
LEMMA AddDrawCounts ==
    ASSUME GroupCounts, DrawsListed, AddDraw
    PROVE  GroupCounts' /\ DrawsListed'
<1> DEFINE d == Head(todo)
           trie == arch.trie
<1>1. /\ d \in table /\ Tail(todo) \in Seq(table) /\ arch.draws \in Seq(table)
      /\ todo' = Tail(todo) /\ UNCHANGED <<table, request, status, answer>>
    BY HeadTailProperties DEF AddDraw, DrawsListed
<1>2. /\ arch'.draws = Append(arch.draws, d)
      /\ arch'.trie = AddNumbers(trie, d.numbers)
      /\ arch'.strongs = AddStrong(arch.strongs, d.strong)
    BY DEF AddDraw
<1>3. d.numbers \in [1..DrawSize -> Nat] /\ Ascends(d.numbers) /\ d.strong \in Nat
    BY <1>1, DrawsAssumption DEF GroupCounts, TypeOK
<1>4. DrawsListed'
    BY <1>1, <1>2 DEF DrawsListed
<1>5. \A G : /\ IsFiniteSet(Containing(G)) /\ Cardinality(Containing(G)) \in Nat
             /\ Containing(G)' # {} <=> Containing(G) # {} \/ G \subseteq ToSet(d.numbers)
             /\ Cardinality(Containing(G)') =
                    Cardinality(Containing(G)) + (IF G \subseteq ToSet(d.numbers) THEN 1 ELSE 0)
    BY <1>1, <1>2, ContainingGrows
<1>6. trie = [g \in {g \in Groups : Containing(ToSet(g)) # {}} |-> Cardinality(Containing(ToSet(g)))]
    BY DEF GroupCounts
<1>7. /\ DOMAIN trie = {g \in Groups : Containing(ToSet(g)) # {}}
      /\ \A g \in DOMAIN trie : trie[g] = Cardinality(Containing(ToSet(g))) /\ trie[g] \in Nat
    BY <1>5, <1>6
<1> HIDE DEF d, trie
<1>8. arch'.trie = [g \in DOMAIN trie \union {g \in Groups : ToSet(g) \subseteq ToSet(d.numbers)} |->
                       (IF g \in DOMAIN trie THEN trie[g] ELSE 0)
                           + (IF ToSet(g) \subseteq ToSet(d.numbers) THEN 1 ELSE 0)]
    BY <1>2, <1>3, <1>7, AddNumbersCounts
<1> DEFINE drawn == {g \in Groups : Containing(ToSet(g))' # {}}
<1>9. DOMAIN trie \union {g \in Groups : ToSet(g) \subseteq ToSet(d.numbers)} = drawn
    BY <1>5, <1>7
<1>10. \A g \in drawn :
           (IF g \in DOMAIN trie THEN trie[g] ELSE 0)
               + (IF ToSet(g) \subseteq ToSet(d.numbers) THEN 1 ELSE 0) = Cardinality(Containing(ToSet(g))')
    <2> SUFFICES ASSUME NEW g \in drawn
                 PROVE  (IF g \in DOMAIN trie THEN trie[g] ELSE 0)
                            + (IF ToSet(g) \subseteq ToSet(d.numbers) THEN 1 ELSE 0)
                                = Cardinality(Containing(ToSet(g))')
        OBVIOUS
    <2>1. (IF g \in DOMAIN trie THEN trie[g] ELSE 0) = Cardinality(Containing(ToSet(g)))
        BY <1>7, FS_EmptySet
    <2> QED
        BY <1>5, <2>1
<1>11. arch'.trie = [g \in drawn |-> Cardinality(Containing(ToSet(g))')]
    <2> HIDE DEF drawn
    <2> QED
        BY <1>8, <1>9, <1>10
<1>12. \A g \in drawn : Len(g) \in 1..MaxGroupSize /\ Cardinality(Containing(ToSet(g))') > 0
    <2> SUFFICES ASSUME NEW g \in drawn
                 PROVE  Len(g) \in 1..MaxGroupSize /\ Cardinality(Containing(ToSet(g))') > 0
        OBVIOUS
    <2>1. PICK size \in 1..MaxGroupSize : g \in [1..size -> 1..MaxNumber]
        BY DEF Groups
    <2>2. Len(g) = size
        BY <2>1, NumbersAssumption
    <2>3. Containing(ToSet(g)) # {} => Cardinality(Containing(ToSet(g))) # 0
        BY <1>5, FS_EmptySet
    <2>4. Cardinality(Containing(ToSet(g))) \in Nat
        BY <1>5
    <2> QED
        BY <1>5, <2>1, <2>2, <2>3, <2>4
<1>13. ToSet(arch'.draws) \union ToSet(todo') \subseteq table
    <2>1. arch'.draws \in Seq(table) /\ todo' \in Seq(table)
        BY <1>1, <1>2
    <2> QED
        BY <2>1 DEF ToSet
<1>14. TypeOK'
    BY <1>1, <1>11, <1>12, <1>13 DEF GroupCounts, TypeOK
<1> DEFINE strongs == arch.strongs
           own == IF d.strong \in 1..MaxStrong + 2 THEN {<<d.strong>>} ELSE {}
           nodes == {<<n>> : n \in {n \in 1..MaxStrong + 2 : StrongTimes(n) > 0}}
           grown == {<<n>> : n \in {n \in 1..MaxStrong + 2 : StrongTimes(n)' > 0}}
<1>15. \A n : /\ StrongTimes(n) \in Nat
              /\ StrongTimes(n)' = StrongTimes(n) + (IF d.strong = n THEN 1 ELSE 0)
    <2> SUFFICES ASSUME NEW n
                 PROVE  /\ StrongTimes(n) \in Nat
                        /\ StrongTimes(n)' = StrongTimes(n) + (IF d.strong = n THEN 1 ELSE 0)
        OBVIOUS
    <2>1. StrongTimes(n)' = StrongTimes(n) + (IF d.strong = n THEN 1 ELSE 0)
        BY <1>1, <1>2, StrongTimesGrow
    <2>2. StrongTimes(n) \in 0..Len(arch.draws)
        BY <1>1, StrongTimesType
    <2> QED
        BY <2>1, <2>2
<1>16. /\ DOMAIN strongs = nodes
       /\ \A n \in 1..MaxStrong + 2 : <<n>> \in DOMAIN strongs => strongs[<<n>>] = StrongTimes(n)
    <2>1. strongs = [node \in nodes |-> StrongTimes(node[1])]
        BY DEF GroupCounts
    <2>2. \A n : <<n>>[1] = n
        OBVIOUS
    <2> HIDE DEF strongs, nodes
    <2> QED
        BY <2>1, <2>2
<1>17. \A node \in nodes : \E n \in 1..MaxStrong + 2 : node = <<n>>
    OBVIOUS
<1>18. \A n \in 1..MaxStrong + 2 : <<n>> \in nodes <=> StrongTimes(n) > 0
    OBVIOUS
<1>19. arch'.strongs = [node \in nodes \union own |->
                           (IF node \in nodes THEN strongs[node] ELSE 0)
                               + (IF d.strong \in 1..MaxStrong + 2 /\ node = <<d.strong>> THEN 1 ELSE 0)]
    <2>1. \A node \in DOMAIN strongs : strongs[node] \in Nat
        <3> HIDE DEF strongs, nodes
        <3> QED
            BY <1>15, <1>16, <1>17
    <2>2. arch'.strongs = AddStrong(strongs, d.strong)
        BY <1>2
    <2> HIDE DEF strongs, nodes
    <2>3. AddStrong(strongs, d.strong) =
              [node \in DOMAIN strongs \union own |->
                  (IF node \in DOMAIN strongs THEN strongs[node] ELSE 0)
                      + (IF d.strong \in 1..MaxStrong + 2 /\ node = <<d.strong>> THEN 1 ELSE 0)]
        BY <1>3, <2>1, AddStrongCounts
    <2> QED
        BY <1>16, <2>2, <2>3
<1>20. nodes \union own = grown
    <2>1. \A n \in 1..MaxStrong + 2 : StrongTimes(n)' > 0 <=> StrongTimes(n) > 0 \/ n = d.strong
        BY <1>15
    <2> QED
        BY <2>1
<1>21. \A node \in grown :
           (IF node \in nodes THEN strongs[node] ELSE 0)
               + (IF d.strong \in 1..MaxStrong + 2 /\ node = <<d.strong>> THEN 1 ELSE 0)
                   = StrongTimes(node[1])'
    <2> SUFFICES ASSUME NEW n \in 1..MaxStrong + 2, <<n>> \in grown
                 PROVE  (IF <<n>> \in nodes THEN strongs[<<n>>] ELSE 0)
                            + (IF d.strong \in 1..MaxStrong + 2 /\ <<n>> = <<d.strong>> THEN 1 ELSE 0)
                                = StrongTimes(<<n>>[1])'
        OBVIOUS
    <2>1. (IF <<n>> \in nodes THEN strongs[<<n>>] ELSE 0) = StrongTimes(n)
        <3> HIDE DEF nodes, strongs
        <3> QED
            BY <1>15, <1>16, <1>18
    <2>2. <<n>> = <<d.strong>> <=> d.strong = n
        OBVIOUS
    <2>3. <<n>>[1] = n
        OBVIOUS
    <2> HIDE DEF nodes, strongs
    <2> QED
        BY <1>15, <2>1, <2>2, <2>3
<1>22. arch'.strongs = [node \in grown |-> StrongTimes(node[1])']
    <2> HIDE DEF nodes, strongs, own, grown
    <2> QED
        BY <1>19, <1>20, <1>21
<1> QED
    BY <1>4, <1>11, <1>14, <1>22 DEF GroupCounts

\* The counts stay right as long as the archive does.
LEMMA SameArchive ==
    ASSUME GroupCounts, DrawsListed, UNCHANGED <<table, arch>>, todo' \in Seq(table),
           request' \in Requests \union {None}, status' \in {"idle", "build", "ok", "rejected"}
    PROVE  GroupCounts' /\ DrawsListed'
<1>1. \A G : Containing(G)' = Containing(G)
    BY DEF Containing
<1>2. arch'.trie = [g \in {g \in Groups : Containing(ToSet(g))' # {}} |-> Cardinality(Containing(ToSet(g))')]
    BY <1>1 DEF GroupCounts
<1>3. /\ \A n : StrongTimes(n)' = StrongTimes(n)
      /\ arch'.strongs = arch.strongs
    BY DEF StrongTimes
<1>4. arch'.strongs = [node \in {<<n>> : n \in {n \in 1..MaxStrong + 2 : StrongTimes(n)' > 0}} |->
                         StrongTimes(node[1])']
    BY <1>3 DEF GroupCounts
<1>5. ToSet(arch'.draws) \union ToSet(todo') \subseteq table
    BY DEF DrawsListed, ToSet
<1>6. \A node \in DOMAIN arch'.trie : Len(node) \in 1..MaxGroupSize /\ arch'.trie[node] > 0
    BY DEF GroupCounts, TypeOK
<1>7. TypeOK'
    BY <1>5, <1>6 DEF GroupCounts, TypeOK
<1>8. DrawsListed'
    BY DEF DrawsListed
<1> QED
    BY <1>2, <1>4, <1>7, <1>8 DEF GroupCounts

\* The counts are right while nothing was counted.
LEMMA CountsBegin ==
    ASSUME Init
    PROVE  GroupCounts /\ DrawsListed
<1>1. arch.draws = <<>> /\ arch.trie = <<>> /\ arch.strongs = <<>> /\ todo = <<>>
    BY DEF Init, EmptyArchive, EmptyTrie
<1>2. \A G : Containing(G) = {}
    BY <1>1 DEF Containing
<1>3. arch.trie = [g \in {g \in Groups : Containing(ToSet(g)) # {}} |-> Cardinality(Containing(ToSet(g)))]
    BY <1>1, <1>2
<1>4. ToSet(arch.draws) = {} /\ ToSet(todo) = {} /\ DOMAIN arch.trie = {}
    BY <1>1 DEF ToSet
<1>5. TypeOK
    BY <1>4 DEF Init, TypeOK
<1>6. \A n : StrongTimes(n) = 0
    BY <1>1, FS_EmptySet DEF StrongTimes
<1>7. arch.strongs = [node \in {<<n>> : n \in {n \in 1..MaxStrong + 2 : StrongTimes(n) > 0}} |->
                         StrongTimes(node[1])]
    BY <1>1, <1>6
<1> QED
    BY <1>1, <1>3, <1>5, <1>7 DEF GroupCounts, DrawsListed

\* And every step keeps them right.
LEMMA CountsKept ==
    ASSUME GroupCounts, DrawsListed, [Next]_vars
    PROVE  GroupCounts' /\ DrawsListed'
<1>1. ASSUME NEW r \in Requests, Ask(r)
      PROVE  GroupCounts' /\ DrawsListed'
    <2>1. UNCHANGED <<table, arch>> /\ request' = r /\ status' \in {"rejected", "build"}
        BY <1>1 DEF Ask
    <2>2. todo' \in Seq(table)
        BY <1>1, OrderedListed DEF Ask, GroupCounts, TypeOK, DrawsListed
    <2> QED
        BY <2>1, <2>2, SameArchive
<1>2. CASE AddDraw
    BY <1>2, AddDrawCounts
<1>3. ASSUME UNCHANGED <<table, arch, todo, request>>, status' \in {status, "ok", "rejected"}
      PROVE  GroupCounts' /\ DrawsListed'
    BY <1>3, SameArchive DEF GroupCounts, TypeOK, DrawsListed
<1> QED
    BY <1>1, <1>2, <1>3
    DEF Next, GetStatistics, GenerateForm, Analyze, Score, RunBacktest, Answer, Reject, Answered, vars

\* Each group that was drawn is in the tree, once, with the number of draws of the
\* archive that contain it, and nothing else is, and likewise for the strong
\* numbers: at every point of the build, for every size of the lottery, every
\* table and every window.
THEOREM TreeCountsGroups == Spec => []GroupCounts
<1>1. Init => GroupCounts /\ DrawsListed
    BY CountsBegin
<1>2. GroupCounts /\ DrawsListed /\ [Next]_vars => (GroupCounts /\ DrawsListed)'
    BY CountsKept
<1> QED
    BY <1>1, <1>2, PTL DEF Spec

-----------------------------------------------------------------------------
(* What is read from an archive.                                            *)

\* How often a set was drawn.
LEMMA TimesType ==
    ASSUME arch.draws \in Seq(table), NEW G
    PROVE  Times(G) \in Nat /\ (Times(G) > 0 <=> Containing(G) # {})
<1> DEFINE n == Len(arch.draws)
<1>1. n \in Nat /\ DOMAIN arch.draws = 1..n
    OBVIOUS
<1>2. Containing(G) \subseteq 1..n
    BY <1>1 DEF Containing
<1> HIDE DEF n
<1>3. IsFiniteSet(1..n)
    BY <1>1, FS_Interval
<1>4. IsFiniteSet(Containing(G)) /\ Cardinality(Containing(G)) \in Nat
    BY <1>2, <1>3, FS_Subset, FS_CardinalityType
<1>5. Cardinality(Containing(G)) = 0 <=> Containing(G) = {}
    BY <1>4, FS_EmptySet
<1> QED
    BY <1>4, <1>5 DEF Times

\* The tree of an archive is a tree of counts: its nodes stand for the sets that
\* were drawn.
LEMMA TreeOfDrawn ==
    ASSUME GroupCounts, DrawsListed
    PROVE  /\ Counts(arch.trie)
           /\ \A g \in DOMAIN arch.trie : g \in Groups /\ arch.trie[g] = Times(ToSet(g))
           /\ \A g \in Groups : g \in DOMAIN arch.trie <=> Times(ToSet(g)) > 0
           /\ \A g \in DOMAIN arch.trie : ToSet(g) \in Drawn /\ Cardinality(ToSet(g)) = Len(g)
           /\ \A G \in Drawn : \E g \in DOMAIN arch.trie : ToSet(g) = G /\ Len(g) = Cardinality(G)
<1> DEFINE trie == arch.trie
<1>1. trie = [g \in {g \in Groups : Containing(ToSet(g)) # {}} |-> Times(ToSet(g))]
    BY DEF GroupCounts, Times
<1> HIDE DEF trie
<1>2. /\ \A g \in DOMAIN trie : g \in Groups /\ Containing(ToSet(g)) # {} /\ trie[g] = Times(ToSet(g))
      /\ \A g \in Groups : Containing(ToSet(g)) # {} => g \in DOMAIN trie
    BY <1>1
<1>3. \A G : Times(G) \in Nat /\ (Times(G) > 0 <=> Containing(G) # {})
    BY TimesType DEF DrawsListed
<1>4. \A g \in Groups : ToSet(g) \subseteq 1..MaxNumber /\ Cardinality(ToSet(g)) = Len(g)
    BY SetOfGroup
<1>5. \A g \in DOMAIN trie : ToSet(g) \in Drawn
    <2>1. \A g \in Groups : Len(g) \in 1..MaxGroupSize
        BY GroupFacts
    <2> QED
        BY <1>2, <1>4, <2>1 DEF Drawn
<1>6. ASSUME NEW G \in Drawn
      PROVE  \E g \in DOMAIN trie : ToSet(g) = G /\ Len(g) = Cardinality(G)
    <2>1. G \subseteq 1..MaxNumber /\ Cardinality(G) \in 1..MaxGroupSize /\ Containing(G) # {}
        BY DEF Drawn
    <2>2. PICK g \in Groups : ToSet(g) = G /\ Len(g) = Cardinality(G)
        BY <2>1, GroupOfSet
    <2> QED
        BY <1>2, <2>1, <2>2
<1>7. ASSUME NEW g \in DOMAIN trie, NEW path \in Seq(1..MaxNumber), path # <<>>, Starts(path, g)
      PROVE  path \in DOMAIN trie
    <2> DEFINE n == Len(path)
    <2>1. g \in Groups /\ DOMAIN g = 1..Len(g) /\ Len(g) \in 1..MaxGroupSize /\ Ascends(g)
        BY <1>2, GroupFacts
    <2>2. n \in Nat /\ n # 0 /\ n <= Len(g) /\ DOMAIN path = 1..n /\ path \in [1..n -> 1..MaxNumber]
        <3>1. n \in Nat /\ DOMAIN path = 1..n /\ path \in [1..n -> 1..MaxNumber]
            BY LenProperties
        <3>2. n # 0
            BY <1>7
        <3>3. n <= Len(g)
            BY <1>7 DEF Starts
        <3> QED
            BY <3>1, <3>2, <3>3
    <2>3. n \in 1..MaxGroupSize /\ 1..n \subseteq 1..Len(g)
        <3> HIDE DEF n
        <3> QED
            BY <2>1, <2>2, NumbersAssumption
    <2>4. \A k \in 1..n : path[k] = g[k]
        BY <1>7 DEF Starts
    <2> HIDE DEF n
    <2>5. Ascends(path)
        BY <2>1, <2>2, <2>3, <2>4 DEF Ascends
    <2>6. path \in {f \in [1..n -> 1..MaxNumber] : Ascends(f)}
        BY <2>2, <2>5
    <2>7. path \in Groups
        BY <2>3, <2>6 DEF Groups
    <2>8. ToSet(path) \subseteq ToSet(g)
        BY <2>1, <2>2, <2>3, <2>4 DEF ToSet
    <2>9. Containing(ToSet(path)) # {}
        <3>1. Containing(ToSet(g)) # {}
            BY <1>2
        <3> QED
            BY <2>8, <3>1 DEF Containing
    <2> QED
        BY <1>2, <2>7, <2>9
<1>8. Counts(trie)
    BY <1>2, <1>3, <1>7 DEF Counts, Rooted
<1> QED
    BY <1>2, <1>3, <1>4, <1>5, <1>6, <1>8 DEF trie

-----------------------------------------------------------------------------
(* The answers.                                                             *)

\* The sets of a size that were drawn, and those a list of groups stands for.
DrawnOfSize(size) == {G \in Drawn : Cardinality(G) = size}
SetsOf(list) == {ToSet(list[k]) : k \in DOMAIN list}

\* What GetStatistics lists, of the sets of a size that were drawn.
LEMMA BestListed ==
    ASSUME GroupCounts, DrawsListed,
           NEW size \in Nat \ {0}, NEW howMany \in Nat, NEW weak \in BOOLEAN
    PROVE  LET list == TopGroups(arch.trie, howMany, size, weak)
           IN  /\ SetsOf(list) \subseteq DrawnOfSize(size)
               /\ Cardinality(SetsOf(list)) = Len(list)
               /\ Len(list) = Min({howMany, Cardinality(DrawnOfSize(size))})
               /\ \A G \in SetsOf(list), H \in DrawnOfSize(size) \ SetsOf(list) : InOrder(weak, Times(G), Times(H))
<1> DEFINE trie == arch.trie
           groups == CollectNodes(trie, size, weak)
           n == Len(groups)
           m == Min({howMany, n})
           list == SubSeq(groups, 1, m)
           all == {G \in Drawn : Cardinality(G) = size}
           listed == {ToSet(list[k]) : k \in DOMAIN list}
<1>1. TopGroups(trie, howMany, size, weak) = list
    BY DEF TopGroups
<1>2. /\ Counts(trie)
      /\ \A g \in DOMAIN trie : g \in Groups /\ trie[g] = Times(ToSet(g))
      /\ \A g \in DOMAIN trie : ToSet(g) \in Drawn /\ Cardinality(ToSet(g)) = Len(g)
      /\ \A G \in Drawn : \E g \in DOMAIN trie : ToSet(g) = G /\ Len(g) = Cardinality(G)
    BY TreeOfDrawn
<1> HIDE DEF trie
<1>3. /\ groups \in Seq(DOMAIN trie) /\ groups \in Seq(Groups) /\ Distinct(groups)
      /\ ToSet(groups) = {g \in DOMAIN trie : Len(g) = size}
      /\ \A j, k \in DOMAIN groups : j < k => InOrder(weak, trie[groups[j]], trie[groups[k]])
    BY <1>2, CollectedInOrder
<1> HIDE DEF groups
<1>4. n \in Nat /\ DOMAIN groups = 1..n /\ \A k \in 1..n : groups[k] \in DOMAIN trie /\ groups[k] \in Groups
    BY <1>3
<1>5. m \in 0..n /\ (m = howMany \/ m = n)
    <2>1. m = IF howMany <= n THEN howMany ELSE n
        BY <1>4, Lesser
    <2> HIDE DEF m
    <2> QED
        BY <1>4, <2>1
<1> HIDE DEF m
<1>6. DOMAIN list = 1..m /\ Len(list) = m /\ list \in Seq(Groups) /\ \A k \in 1..m : list[k] = groups[k]
    <2>1. \A k \in 1..m : groups[k] \in Groups
        <3> HIDE DEF n
        <3> QED
            BY <1>4, <1>5
    <2>2. /\ list \in Seq(Groups)
          /\ Len(list) = IF 1 <= m THEN m - 1 + 1 ELSE 0
          /\ \A k \in 1..m - 1 + 1 : list[k] = groups[1 + k - 1]
        BY <1>5, <2>1, SubSeqProperties
    <2> HIDE DEF list, n
    <2>3. Len(list) = m
        BY <1>4, <1>5, <2>2
    <2>4. \A k \in 1..m : k \in 1..m - 1 + 1 /\ 1 + k - 1 = k
        BY <1>4, <1>5
    <2>5. DOMAIN list = 1..m
        BY <2>2, <2>3
    <2> QED
        BY <2>2, <2>3, <2>4, <2>5
<1> HIDE DEF list
<1>7. {ToSet(groups[k]) : k \in 1..n} = all
    <2>1. \A k \in 1..n : ToSet(groups[k]) \in all
        <3>1. \A k \in 1..n : groups[k] \in ToSet(groups)
            BY <1>4 DEF ToSet
        <3>2. \A k \in 1..n : Len(groups[k]) = size
            BY <1>3, <3>1
        <3> HIDE DEF n
        <3> QED
            BY <1>2, <1>4, <3>2
    <2>2. ASSUME NEW G \in all
          PROVE  \E k \in 1..n : ToSet(groups[k]) = G
        <3>1. PICK g \in DOMAIN trie : ToSet(g) = G /\ Len(g) = size
            BY <1>2
        <3>2. g \in ToSet(groups)
            BY <1>3, <3>1
        <3>3. \E k \in 1..n : groups[k] = g
            BY <1>4, <3>2 DEF ToSet
        <3> QED
            BY <3>1, <3>3
    <2> HIDE DEF all, n
    <2> QED
        BY <2>1, <2>2
<1>8. \A k \in 1..n : trie[groups[k]] = Times(ToSet(groups[k]))
    BY <1>2, <1>4
<1>9. Cardinality(all) = n
    BY <1>3, <1>4, <1>7, SetsListed
<1>10. listed = {ToSet(groups[k]) : k \in 1..m}
    BY <1>6
<1>11. Cardinality(listed) = Len(list)
    <2>1. Distinct(list)
        BY <1>3, <1>4, <1>5, <1>6 DEF Distinct
    <2> QED
        BY <1>6, <2>1, SetsListed
<1>12. Len(list) = Min({howMany, Cardinality(all)})
    BY <1>6, <1>9 DEF m
<1>13. \A k \in 1..m : k \in 1..n
    BY <1>4, <1>5
<1>14. listed \subseteq all
    <2> HIDE DEF all, listed, n
    <2> QED
        BY <1>7, <1>10, <1>13
<1>15. ASSUME NEW G \in listed, NEW H \in all \ listed
       PROVE  InOrder(weak, Times(G), Times(H))
    <2> HIDE DEF all, listed, n
    <2>1. PICK j \in 1..m : ToSet(groups[j]) = G
        BY <1>10
    <2>2. PICK k \in 1..n : ToSet(groups[k]) = H
        BY <1>7
    <2>3. k \notin 1..m
        BY <1>10, <2>2
    <2>4. j < k /\ j \in 1..n
        BY <1>4, <1>5, <2>3
    <2>5. InOrder(weak, trie[groups[j]], trie[groups[k]])
        BY <1>3, <1>4, <2>4
    <2> QED
        BY <1>8, <2>1, <2>2, <2>4, <2>5
<1> HIDE DEF all, listed
<1> QED
    BY <1>1, <1>11, <1>12, <1>14, <1>15 DEF all, listed, trie, DrawnOfSize, SetsOf

\* The ranking of the numbers.
LEMMA BestRanked ==
    ASSUME GroupCounts, DrawsListed, NEW weak \in BOOLEAN
    PROVE  LET ranked == RankNumbers(arch.trie, Len(arch.draws), weak)
           IN  /\ \A j, k \in DOMAIN ranked : j < k => InOrder(weak, Times({ranked[j]}), Times({ranked[k]}))
               /\ \A n \in 1..MaxNumber : n \in ToSet(ranked) <=> arch.draws = <<>> \/ Times({n}) > 0
<1> DEFINE ranked == RankNumbers(arch.trie, Len(arch.draws), weak)
<1>0. \A G : Times(G) \in Nat
    BY TimesType DEF DrawsListed
<1>1. CASE arch.draws = <<>>
    <2>1. ranked = [n \in 1..MaxNumber |-> n]
        BY <1>1 DEF RankNumbers
    <2>2. \A G : Times(G) = 0
        <3>1. \A G : Containing(G) = {}
            BY <1>1 DEF Containing
        <3> QED
            BY <3>1, FS_EmptySet DEF Times
    <2>3. \A n \in 1..MaxNumber : n \in ToSet(ranked)
        <3> HIDE DEF ranked
        <3> QED
            BY <2>1 DEF ToSet
    <2> HIDE DEF ranked
    <2> QED
        BY <1>1, <2>2, <2>3 DEF InOrder, ranked
<1>2. CASE arch.draws # <<>>
    <2> DEFINE trie == arch.trie
               singles == CollectNodes(trie, 1, weak)
               m == Len(singles)
    <2>1. /\ Counts(trie)
          /\ \A g \in DOMAIN trie : g \in Groups /\ trie[g] = Times(ToSet(g))
          /\ \A g \in Groups : g \in DOMAIN trie <=> Times(ToSet(g)) > 0
        BY TreeOfDrawn
    <2>2. ranked = [k \in DOMAIN singles |-> singles[k][1]]
        <3>1. Len(arch.draws) # 0
            BY <1>2 DEF DrawsListed
        <3> QED
            BY <3>1 DEF RankNumbers
    <2> HIDE DEF trie
    <2>3. /\ singles \in Seq(DOMAIN trie)
          /\ ToSet(singles) = {g \in DOMAIN trie : Len(g) = 1}
          /\ \A j, k \in DOMAIN singles : j < k => InOrder(weak, trie[singles[j]], trie[singles[k]])
        <3>1. 1 \in Nat \ {0}
            OBVIOUS
        <3>2. singles \in Seq(DOMAIN trie) /\ ToSet(singles) = {g \in DOMAIN trie : Len(g) = 1}
            BY <2>1, <3>1, CollectedInOrder
        <3>3. \A j, k \in DOMAIN singles : j < k => InOrder(weak, trie[singles[j]], trie[singles[k]])
            BY <2>1, <3>1, CollectedInOrder
        <3> QED
            BY <3>2, <3>3
    <2> HIDE DEF singles, ranked
    <2>4. m \in Nat /\ DOMAIN singles = 1..m /\ DOMAIN ranked = 1..m /\ \A k \in 1..m : ranked[k] = singles[k][1]
        BY <2>2, <2>3
    <2>5. \A g \in DOMAIN trie : Len(g) = 1 => ToSet(g) = {g[1]} /\ g = <<g[1]>>
        <3> SUFFICES ASSUME NEW g \in DOMAIN trie, Len(g) = 1 PROVE ToSet(g) = {g[1]} /\ g = <<g[1]>>
            OBVIOUS
        <3>1. g \in Seq(1..MaxNumber)
            BY <2>1, GroupFacts
        <3>2. DOMAIN g = {1}
            BY <3>1, LenProperties
        <3>3. g = <<g[1]>>
            <4>1. <<g[1]>> \in Seq(1..MaxNumber) /\ Len(<<g[1]>>) = 1 /\ <<g[1]>>[1] = g[1]
                <5>1. 1 \in 1..Len(g)
                    OBVIOUS
                <5>2. g[1] \in 1..MaxNumber
                    BY <3>1, <5>1, ElementOfSeq
                <5> DEFINE X == 1..MaxNumber
                           x == g[1]
                <5> HIDE DEF X, x
                <5>3. <<x>> \in Seq(X) /\ Len(<<x>>) = 1 /\ <<x>>[1] = x
                    BY <5>2 DEF X, x
                <5> QED
                    BY <5>3 DEF X, x
            <4> QED
                BY <3>1, <4>1, SeqEqual
        <3> QED
            BY <3>2, <3>3 DEF ToSet
    <2>6. \A k \in 1..m : /\ singles[k] \in DOMAIN trie /\ Len(singles[k]) = 1
                          /\ trie[singles[k]] = Times({ranked[k]})
        <3>1. \A k \in 1..m : singles[k] \in ToSet(singles)
            BY <2>4 DEF ToSet
        <3>2. \A k \in 1..m : singles[k] \in DOMAIN trie /\ Len(singles[k]) = 1
            BY <2>3, <3>1
        <3> HIDE DEF m
        <3> QED
            BY <2>1, <2>4, <2>5, <3>2
    <2>7. \A j, k \in DOMAIN ranked : j < k => InOrder(weak, Times({ranked[j]}), Times({ranked[k]}))
        <3> HIDE DEF m
        <3> QED
            BY <2>3, <2>4, <2>6
    <2>8. ASSUME NEW n \in 1..MaxNumber
          PROVE  n \in ToSet(ranked) <=> Times({n}) > 0
        <3>1. <<n>> \in Groups /\ ToSet(<<n>>) = {n} /\ Len(<<n>>) = 1 /\ <<n>>[1] = n
            <4>1. <<n>> \in [1..1 -> 1..MaxNumber] /\ DOMAIN <<n>> = {1} /\ <<n>>[1] = n /\ Len(<<n>>) = 1
                OBVIOUS
            <4>2. Ascends(<<n>>)
                BY <4>1 DEF Ascends
            <4>3. <<n>> \in {g \in [1..1 -> 1..MaxNumber] : Ascends(g)}
                BY <4>1, <4>2
            <4>4. 1 \in 1..MaxGroupSize
                BY NumbersAssumption
            <4>5. <<n>> \in Groups
                BY <4>3, <4>4 DEF Groups
            <4> QED
                BY <4>1, <4>5 DEF ToSet
        <3>2. <<n>> \in ToSet(singles) <=> Times({n}) > 0
            BY <2>1, <2>3, <3>1
        <3>3. n \in ToSet(ranked) <=> <<n>> \in ToSet(singles)
            <4>1. \A k \in 1..m : ranked[k] = n <=> singles[k] = <<n>>
                <5>1. \A k \in 1..m : singles[k] = <<ranked[k]>>
                    <6> HIDE DEF m
                    <6> QED
                        BY <2>4, <2>5, <2>6
                <5> HIDE DEF m
                <5>2. \A x : <<x>> = <<n>> <=> x = n
                    BY <3>1
                <5> QED
                    BY <5>1, <5>2
            <4> HIDE DEF m
            <4> QED
                BY <2>4, <4>1 DEF ToSet
        <3> QED
            BY <3>2, <3>3
    <2> QED
        BY <1>2, <2>7, <2>8 DEF ranked
<1> QED
    BY <1>1, <1>2

\* The strong number the generator takes: one of the current game's, and none of
\* those is preferred to it.
LEMMA BestStrong ==
    ASSUME GroupCounts, DrawsListed, NEW weak \in BOOLEAN,
           NEW n \in 1..MaxStrong, StrongTimes(n) > 0
    PROVE  LET strong == TopStrong(arch.strongs, weak)
           IN  /\ strong \in 1..MaxStrong /\ StrongTimes(strong) > 0
               /\ InOrder(weak, StrongTimes(strong), StrongTimes(n))
<1> DEFINE strongs == arch.strongs
           bound == Len(arch.draws)
           valid == {x \in 1..MaxStrong : <<x>> \in DOMAIN strongs}
           beats(a, b) ==
               LET ca == strongs[<<a>>]
                   cb == strongs[<<b>>]
               IN  IF ca = cb THEN a <= b ELSE (ca < cb) = weak
<1>0. MaxStrong \in Nat /\ bound \in Nat
    BY NumbersAssumption DEF DrawsListed
<1>1. \A x : StrongTimes(x) \in 0..bound
    BY StrongTimesType DEF DrawsListed
<1>2. /\ \A x \in 1..MaxStrong : <<x>> \in DOMAIN strongs <=> StrongTimes(x) > 0
      /\ \A x \in 1..MaxStrong : <<x>> \in DOMAIN strongs => strongs[<<x>>] = StrongTimes(x)
    <2> DEFINE nodes == {<<x>> : x \in {x \in 1..MaxStrong + 2 : StrongTimes(x) > 0}}
    <2>1. strongs = [node \in nodes |-> StrongTimes(node[1])]
        BY DEF GroupCounts
    <2>2. \A x : <<x>>[1] = x
        OBVIOUS
    <2>3. \A x \in 1..MaxStrong : <<x>> \in nodes <=> StrongTimes(x) > 0
        BY <1>0
    <2> HIDE DEF strongs, nodes
    <2> QED
        BY <2>1, <2>2, <2>3
<1> HIDE DEF strongs, bound
<1>3. /\ valid \subseteq Nat /\ n \in valid
      /\ \A x \in valid : x \in 1..MaxStrong /\ strongs[<<x>>] = StrongTimes(x) /\ StrongTimes(x) > 0
    BY <1>0, <1>2
<1> HIDE DEF valid
<1>4. \E a \in valid : \A b \in valid : beats(a, b)
    <2>1. PICK c \in {StrongTimes(x) : x \in valid} :
              \A d \in {StrongTimes(x) : x \in valid} : InOrder(weak, c, d)
        <3> DEFINE C == {StrongTimes(x) : x \in valid}
        <3>1. C \subseteq 0..bound /\ C \subseteq Nat /\ C # {}
            BY <1>0, <1>1, <1>3
        <3> HIDE DEF C
        <3>2. CASE weak
            <4>1. PICK c \in C : \A d \in C : ~(d < c)
                BY <3>1, LeastNumber
            <4>2. \A d \in C : c <= d
                BY <3>1, <4>1
            <4> QED
                BY <3>2, <4>2 DEF InOrder, C
        <3>3. CASE ~weak
            <4>1. PICK c \in C : \A d \in C : d <= c
                BY <1>0, <3>1, GreatestNumber
            <4>2. \A d \in C : c >= d
                BY <3>1, <4>1
            <4> QED
                BY <3>3, <4>2 DEF InOrder, C
        <3> QED
            BY <3>2, <3>3
    <2> DEFINE T == {x \in valid : StrongTimes(x) = c}
    <2>2. T \subseteq Nat /\ T # {}
        BY <1>3, <2>1
    <2>3. PICK a \in T : \A b \in T : ~(b < a)
        <3> HIDE DEF T
        <3> QED
            BY <2>2, LeastNumber
    <2>4. ASSUME NEW b \in valid
          PROVE  beats(a, b)
        <3>1. /\ strongs[<<a>>] = c /\ strongs[<<b>>] = StrongTimes(b)
              /\ a \in Nat /\ b \in Nat /\ StrongTimes(b) \in 0..bound /\ c \in 0..bound
            BY <1>1, <1>3, <2>3
        <3>2. CASE StrongTimes(b) = c
            <4>1. ~(b < a)
                BY <2>3, <3>2
            <4>2. a <= b
                BY <3>1, <4>1
            <4> QED
                BY <3>1, <3>2, <4>2
        <3>3. CASE StrongTimes(b) # c
            <4>1. InOrder(weak, c, StrongTimes(b))
                BY <2>1
            <4>2. (c < StrongTimes(b)) = weak
                BY <3>1, <3>3, <4>1 DEF InOrder
            <4> QED
                BY <3>1, <3>3, <4>2
        <3> QED
            BY <3>2, <3>3
    <2>5. a \in valid
        BY <2>3
    <2> HIDE DEF beats
    <2> QED
        BY <2>4, <2>5
<1> DEFINE strong == CHOOSE a \in valid : \A b \in valid : beats(a, b)
<1>5. TopStrong(strongs, weak) = strong
    <2>1. {x \in 1..MaxStrong : <<x>> \in DOMAIN strongs} # {}
        BY <1>3 DEF valid
    <2> QED
        BY <2>1 DEF TopStrong, valid
<1>6. strong \in valid /\ beats(strong, n)
    <2>1. strong \in valid /\ \A b \in valid : beats(strong, b)
        <3> HIDE DEF beats
        <3> QED
            BY <1>4
    <2> HIDE DEF strong, beats
    <2> QED
        BY <1>3, <2>1
<1> HIDE DEF strong
<1>7. InOrder(weak, StrongTimes(strong), StrongTimes(n))
    <2>1. /\ strongs[<<strong>>] = StrongTimes(strong) /\ strongs[<<n>>] = StrongTimes(n)
          /\ StrongTimes(strong) \in 0..bound /\ StrongTimes(n) \in 0..bound
        BY <1>1, <1>3, <1>6
    <2> QED
        BY <1>0, <1>6, <2>1 DEF InOrder
<1>8. strong \in 1..MaxStrong /\ StrongTimes(strong) > 0
    BY <1>3, <1>6
<1> QED
    BY <1>5, <1>7, <1>8 DEF strongs

\* What Analyze reports of an ascending form, per size.
LEMMA AnalysisListed ==
    ASSUME GroupCounts, DrawsListed, NEW form \in Seq(Int), Ascends(form)
    PROVE  LET found == AnalyzeArray(arch.trie, form)
           IN  /\ \A G \in Drawn : G \subseteq ToSet(form) =>
                    \E k \in DOMAIN found[Cardinality(G)] : ToSet(found[Cardinality(G)][k]) = G
               /\ \A size \in 1..MaxGroupSize :
                    /\ \A k \in DOMAIN found[size] :
                        ToSet(found[size][k]) \in {G \in Drawn : G \subseteq ToSet(form)}
                    /\ \A j, k \in DOMAIN found[size] : j < k =>
                        /\ found[size][j] # found[size][k]
                        /\ arch.trie[found[size][j]] >= arch.trie[found[size][k]]
<1> DEFINE trie == arch.trie
           found == AnalyzeArray(trie, form)
<1>1. /\ Counts(trie)
      /\ \A g \in DOMAIN trie : ToSet(g) \in Drawn
      /\ \A G \in Drawn : \E g \in DOMAIN trie : ToSet(g) = G /\ Len(g) = Cardinality(G)
    BY TreeOfDrawn
<1> HIDE DEF trie
<1>2. ASSUME NEW size \in 1..MaxGroupSize
      PROVE  /\ found[size] \in Seq(DOMAIN trie)
             /\ ToSet(found[size]) = {g \in DOMAIN trie : Len(g) = size /\ ToSet(g) \subseteq ToSet(form)}
             /\ Distinct(found[size])
             /\ \A j, k \in DOMAIN found[size] : j < k => trie[found[size][j]] >= trie[found[size][k]]
    BY <1>1, AnalyzedInOrder
<1> HIDE DEF found
<1>3. ASSUME NEW G \in Drawn, G \subseteq ToSet(form)
      PROVE  \E k \in DOMAIN found[Cardinality(G)] : ToSet(found[Cardinality(G)][k]) = G
    <2>1. PICK g \in DOMAIN trie : ToSet(g) = G /\ Len(g) = Cardinality(G)
        BY <1>1
    <2>2. Cardinality(G) \in 1..MaxGroupSize
        BY DEF Drawn
    <2>3. g \in ToSet(found[Cardinality(G)])
        BY <1>2, <1>3, <2>1, <2>2
    <2> QED
        BY <2>1, <2>3 DEF ToSet
<1>4. ASSUME NEW size \in 1..MaxGroupSize
      PROVE  /\ \A k \in DOMAIN found[size] :
                  ToSet(found[size][k]) \in {G \in Drawn : G \subseteq ToSet(form)}
             /\ \A j, k \in DOMAIN found[size] : j < k =>
                  /\ found[size][j] # found[size][k]
                  /\ trie[found[size][j]] >= trie[found[size][k]]
    <2>1. \A k \in DOMAIN found[size] : found[size][k] \in ToSet(found[size])
        BY DEF ToSet
    <2>2. \A k \in DOMAIN found[size] : ToSet(found[size][k]) \in {G \in Drawn : G \subseteq ToSet(form)}
        BY <1>1, <1>2, <2>1
    <2>3. \A j, k \in DOMAIN found[size] : j < k => found[size][j] # found[size][k]
        <3>1. DOMAIN found[size] \subseteq Nat
            BY <1>2
        <3>2. \A j, k \in Nat : j < k => j # k
            OBVIOUS
        <3> QED
            BY <1>2, <3>1, <3>2 DEF Distinct
    <2> QED
        BY <1>2, <2>2, <2>3
<1> QED
    BY <1>3, <1>4 DEF found, trie

-----------------------------------------------------------------------------
(* Every answer is right.                                                   *)

\* The answers are read from the archive of a request that was sent.
Asked == status # "idle" => request \in Requests
AnswersInv == GroupCounts /\ DrawsListed /\ Asked /\ BestGroups /\ AnalysisExact

\* The sets that were drawn are those of the archive.
LEMMA SameDrawn ==
    ASSUME arch' = arch
    PROVE  /\ \A G : Times(G)' = Times(G)
           /\ Drawn' = Drawn
           /\ \A n : StrongTimes(n)' = StrongTimes(n)
<1>1. \A G : Containing(G)' = Containing(G)
    BY DEF Containing
<1>2. \A G : Times(G)' = Times(G)
    BY <1>1 DEF Times
<1>3. Drawn' = Drawn
    BY <1>1 DEF Drawn
<1>4. \A n : StrongTimes(n)' = StrongTimes(n)
    BY DEF StrongTimes
<1> QED
    BY <1>2, <1>3, <1>4

\* Nothing was answered yet.
LEMMA Unanswered ==
    ASSUME status' # "ok"
    PROVE  BestGroups' /\ AnalysisExact'
BY DEF BestGroups, AnalysisExact

\* An answer stays right as long as nothing changes.
LEMMA AnswerKept ==
    ASSUME BestGroups, AnalysisExact, UNCHANGED vars
    PROVE  BestGroups' /\ AnalysisExact'
<1>1. /\ arch' = arch /\ status' = status /\ request' = request /\ answer' = answer
    BY DEF vars
<1>2. /\ \A G : Times(G)' = Times(G)
      /\ Drawn' = Drawn
      /\ \A n : StrongTimes(n)' = StrongTimes(n)
    BY <1>1, SameDrawn
<1>3. \A a, b : RanksBefore(a, b)' <=> RanksBefore(a, b)
    BY <1>1 DEF RanksBefore
<1>4. BestGroups'
    BY <1>1, <1>2, <1>3 DEF BestGroups
<1>5. \A G : Reported(G)' <=> Reported(G)
    BY <1>1 DEF Reported
<1>6. AnalysisExact'
    BY <1>1, <1>2, <1>5 DEF AnalysisExact, EverySubsetReported
<1> QED
    BY <1>4, <1>6

\* GetStatistics answers with the best groups.
LEMMA StatisticsRight ==
    ASSUME AnswersInv, GetStatistics
    PROVE  BestGroups' /\ AnalysisExact'
<1> DEFINE size == IF request.size = 0 THEN 2 ELSE request.size
           howMany == IF request.howMany = 0 THEN 10 ELSE request.howMany
           list == TopGroups(arch.trie, howMany, size, request.weak)
<1>1. /\ request' = request /\ arch' = arch /\ answer' = list
      /\ request.op = "GetStatistics" /\ status = "build"
    BY DEF GetStatistics, Built, Answer
<1>2. size \in Nat \ {0} /\ howMany \in Nat /\ request.weak \in BOOLEAN
    <2>1. request \in [op : {"GetStatistics"}, window : Windows, size : 0..MaxGroupSize + 1,
                       howMany : 0..MaxHowMany, weak : BOOLEAN]
        BY <1>1 DEF AnswersInv, Asked, Requests
    <2> QED
        BY <2>1
<1> HIDE DEF size, howMany, list
<1>3. /\ SetsOf(list) \subseteq DrawnOfSize(size)
      /\ Cardinality(SetsOf(list)) = Len(list)
      /\ Len(list) = Min({howMany, Cardinality(DrawnOfSize(size))})
      /\ \A G \in SetsOf(list), H \in DrawnOfSize(size) \ SetsOf(list) :
            InOrder(request.weak, Times(G), Times(H))
    BY <1>2, BestListed DEF AnswersInv, list
<1>4. \A a, b : RanksBefore(a, b)' <=> InOrder(request.weak, a, b)
    BY <1>1 DEF RanksBefore, InOrder
<1>5. (\A G : Times(G)' = Times(G)) /\ Drawn' = Drawn
    BY <1>1, SameDrawn
<1>6. size = (IF request'.size = 0 THEN 2 ELSE request'.size)
      /\ howMany = (IF request'.howMany = 0 THEN 10 ELSE request'.howMany)
    BY <1>1 DEF size, howMany
<1>7. BestGroups'
    <2>1. DrawnOfSize(size) = {G \in Drawn' : Cardinality(G) = size}
        BY <1>5 DEF DrawnOfSize
    <2>2. SetsOf(list) = {ToSet(answer'[k]) : k \in DOMAIN answer'}
        BY <1>1 DEF SetsOf
    <2> QED
        BY <1>1, <1>3, <1>4, <1>5, <1>6, <2>1, <2>2 DEF BestGroups
<1>8. AnalysisExact'
    BY <1>1 DEF AnalysisExact
<1> QED
    BY <1>7, <1>8

\* GenerateForm takes the best numbers and the best strong number.
LEMMA GeneratedRight ==
    ASSUME AnswersInv, GenerateForm
    PROVE  BestGroups' /\ AnalysisExact'
<1> DEFINE ranked == RankNumbers(arch.trie, Len(arch.draws), request.weak)
           strong == TopStrong(arch.strongs, request.weak)
<1>1. /\ request' = request /\ arch' = arch /\ answer' = [ranked |-> ranked, strong |-> strong]
      /\ request.op = "GenerateForm" /\ status = "build"
    BY DEF GenerateForm, Built, Answer
<1>2. request.weak \in BOOLEAN
    <2>1. request \in [op : {"GenerateForm"}, window : Windows, weak : BOOLEAN]
        BY <1>1 DEF AnswersInv, Asked, Requests
    <2> QED
        BY <2>1
<1>3. /\ \A j, k \in DOMAIN ranked : j < k =>
            InOrder(request.weak, Times({ranked[j]}), Times({ranked[k]}))
      /\ \A n \in 1..MaxNumber : n \in ToSet(ranked) <=> arch.draws = <<>> \/ Times({n}) > 0
    BY <1>2, BestRanked DEF AnswersInv
<1>4. \A n \in 1..MaxStrong : StrongTimes(n) > 0 =>
          /\ strong \in 1..MaxStrong /\ StrongTimes(strong) > 0
          /\ InOrder(request.weak, StrongTimes(strong), StrongTimes(n))
    BY <1>2, BestStrong DEF AnswersInv
<1> HIDE DEF ranked, strong
<1>5. answer'.ranked = ranked /\ answer'.strong = strong
    BY <1>1
<1>6. \A a, b : RanksBefore(a, b)' <=> InOrder(request.weak, a, b)
    BY <1>1 DEF RanksBefore, InOrder
<1>7. (\A G : Times(G)' = Times(G)) /\ (\A n : StrongTimes(n)' = StrongTimes(n))
    BY <1>1, SameDrawn
<1>8. BestGroups'
    BY <1>1, <1>3, <1>4, <1>5, <1>6, <1>7 DEF BestGroups
<1>9. AnalysisExact'
    BY <1>1 DEF AnalysisExact
<1> QED
    BY <1>8, <1>9

\* Analyze reports what AnalysisListed says of its form.
LEMMA AnalysisRight ==
    ASSUME AnswersInv, Analyze
    PROVE  BestGroups' /\ AnalysisExact'
<1> DEFINE found == AnalyzeArray(arch.trie, request.form)
<1>1. /\ request' = request /\ arch' = arch /\ answer' = found
      /\ request.op = "Analyze" /\ status = "build"
    BY DEF Analyze, Built, Answer
<1>2. request.form \in Seq(Int)
    <2>1. request \in [op : {"Analyze", "ScoreForm"}, window : Windows, form : Forms]
        BY <1>1 DEF AnswersInv, Asked, Requests
    <2> QED
        BY <2>1, FormsAssumption
<1>3. Drawn' = Drawn
    BY <1>1, SameDrawn
<1>4. ASSUME Ascends(request.form)
      PROVE  AnalysisExact'
    <2>1. /\ \A G \in Drawn : G \subseteq ToSet(request.form) =>
                \E k \in DOMAIN found[Cardinality(G)] : ToSet(found[Cardinality(G)][k]) = G
          /\ \A size \in 1..MaxGroupSize :
                /\ \A k \in DOMAIN found[size] :
                    ToSet(found[size][k]) \in {G \in Drawn : G \subseteq ToSet(request.form)}
                /\ \A j, k \in DOMAIN found[size] : j < k =>
                    /\ found[size][j] # found[size][k]
                    /\ arch.trie[found[size][j]] >= arch.trie[found[size][k]]
        BY <1>2, <1>4, AnalysisListed DEF AnswersInv
    <2> HIDE DEF found
    <2>2. \A G \in Drawn' : G \subseteq ToSet(request.form) => Reported(G)'
        BY <1>1, <1>3, <2>1 DEF Reported
    <2>3. EverySubsetReported'
        BY <1>1, <2>2 DEF EverySubsetReported
    <2> QED
        BY <1>1, <1>3, <2>1, <2>3 DEF AnalysisExact
<1>5. ASSUME ~Ascends(request.form)
      PROVE  AnalysisExact'
    BY <1>1, <1>5 DEF AnalysisExact
<1>6. BestGroups'
    BY <1>1 DEF BestGroups
<1> QED
    BY <1>4, <1>5, <1>6

\* The invariant that carries every answer.
LEMMA AnswersInvHolds == Spec => []AnswersInv
<1>1. Init => AnswersInv
    <2> SUFFICES ASSUME Init PROVE AnswersInv
        OBVIOUS
    <2>1. GroupCounts /\ DrawsListed
        BY CountsBegin
    <2>2. status = "idle"
        BY DEF Init
    <2> QED
        BY <2>1, <2>2 DEF AnswersInv, Asked, BestGroups, AnalysisExact
<1>2. AnswersInv /\ [Next]_vars => AnswersInv'
    <2> SUFFICES ASSUME AnswersInv, [Next]_vars PROVE AnswersInv'
        OBVIOUS
    <2>1. GroupCounts' /\ DrawsListed'
        BY CountsKept DEF AnswersInv
    <2>2. ASSUME Asked', BestGroups', AnalysisExact'
          PROVE  AnswersInv'
        BY <2>1, <2>2 DEF AnswersInv
    <2>3. ASSUME NEW r \in Requests, Ask(r)
          PROVE  AnswersInv'
        <3>1. request' = r /\ status' # "ok"
            BY <2>3 DEF Ask
        <3>2. Asked'
            BY <3>1 DEF Asked
        <3> QED
            BY <2>2, <3>1, <3>2, Unanswered
    <2>4. ASSUME request' = request, status # "idle"
          PROVE  Asked'
        BY <2>4 DEF AnswersInv, Asked
    <2>5. CASE AddDraw
        <3>1. request' = request /\ status = "build" /\ status' = "build"
            BY <2>5 DEF AddDraw
        <3> QED
            BY <2>2, <2>4, <3>1, Unanswered
    <2>6. CASE GetStatistics
        <3>1. request' = request /\ status = "build"
            BY <2>6 DEF GetStatistics, Built, Answer
        <3> QED
            BY <2>2, <2>4, <2>6, <3>1, StatisticsRight
    <2>7. CASE GenerateForm
        <3>1. request' = request /\ status = "build"
            BY <2>7 DEF GenerateForm, Built, Answer
        <3> QED
            BY <2>2, <2>4, <2>7, <3>1, GeneratedRight
    <2>8. CASE Analyze
        <3>1. request' = request /\ status = "build"
            BY <2>8 DEF Analyze, Built, Answer
        <3> QED
            BY <2>2, <2>4, <2>8, <3>1, AnalysisRight
    <2>9. CASE Score \/ RunBacktest
        <3>1. /\ request' = request /\ status = "build"
              /\ status' = "rejected" \/ request.op \in {"ScoreForm", "Simulate"}
            BY <2>9 DEF Score, RunBacktest, Built, Answer, Reject
        <3>2. BestGroups' /\ AnalysisExact'
            BY <3>1 DEF BestGroups, AnalysisExact
        <3> QED
            BY <2>2, <2>4, <3>1, <3>2
    <2>10. CASE UNCHANGED vars
        <3>1. Asked'
            BY <2>10 DEF AnswersInv, Asked, vars
        <3>2. BestGroups' /\ AnalysisExact'
            BY <2>10, AnswerKept DEF AnswersInv
        <3> QED
            BY <2>2, <3>1, <3>2
    <2> QED
        BY <2>3, <2>5, <2>6, <2>7, <2>8, <2>9, <2>10 DEF Next, Answered
<1> QED
    BY <1>1, <1>2, PTL DEF Spec

\* Whatever is asked, in whatever window and of whatever table: the groups, the
\* ranking and the strong number that are answered are the most (or least)
\* frequent ones, and as many as there can be.
THEOREM BestAreAnswered == Spec => []BestGroups
<1>1. AnswersInv => BestGroups
    BY DEF AnswersInv
<1> QED
    BY <1>1, AnswersInvHolds, PTL

\* The analysis of an ascending form reports each of its subsets that were drawn,
\* once and no others, and the most frequent first.
THEOREM AnalysesAreExact == Spec => []AnalysisExact
<1>1. AnswersInv => AnalysisExact
    BY DEF AnswersInv
<1> QED
    BY <1>1, AnswersInvHolds, PTL

-----------------------------------------------------------------------------
(* Sums.                                                                    *)

\* A set of subsets that has the empty one, and another element with each, has all.
LEMMA SubsetInduction ==
    ASSUME NEW S, IsFiniteSet(S), NEW C, {} \in C,
           \A s \in SUBSET S, x \in S : s \in C /\ x \notin s => s \union {x} \in C
    PROVE  \A s \in SUBSET S : s \in C
<1> DEFINE T == {n \in Nat : \A s \in SUBSET S : Cardinality(s) = n => s \in C}
<1>1. \A s \in SUBSET S : IsFiniteSet(s) /\ Cardinality(s) \in Nat
    BY FS_Subset, FS_CardinalityType
<1>2. 0 \in T
    <2>1. \A s \in SUBSET S : Cardinality(s) = 0 => s = {}
        BY <1>1, FS_EmptySet
    <2> QED
        BY <2>1
<1>3. ASSUME NEW n \in T
      PROVE  n + 1 \in T
    <2>1. ASSUME NEW s \in SUBSET S, Cardinality(s) = n + 1
          PROVE  s \in C
        <3>1. n \in Nat /\ n + 1 # 0 /\ n + 1 - 1 = n
            BY <1>3
        <3>2. s # {}
            BY <1>1, <2>1, <3>1, FS_EmptySet
        <3>3. PICK x \in s : TRUE
            BY <3>2
        <3> DEFINE rest == s \ {x}
        <3>4. rest \in SUBSET S /\ x \in S /\ x \notin rest /\ s = rest \union {x}
            BY <3>3
        <3>5. Cardinality(rest) = n
            BY <1>1, <2>1, <3>1, <3>3, FS_RemoveElement
        <3> HIDE DEF rest
        <3>6. rest \in C
            BY <1>3, <3>4, <3>5
        <3> QED
            BY <3>4, <3>6
    <2> QED
        BY <1>3, <2>1
<1>4. T = Nat
    <2> HIDE DEF T
    <2>1. T \subseteq Nat
        BY DEF T
    <2> QED
        BY <1>2, <1>3, <2>1, SetInduction
<1> QED
    BY <1>1, <1>4

\* One round of the recursion of SumFunctionOnSet, and what solves it.
Pick(s) == CHOOSE x \in s : TRUE
Rest(h, g, s) == IF s = {} THEN 0 ELSE h[Pick(s)] + g[s \ {Pick(s)}]
Partial(h, S) == CHOOSE g : g = [s \in SUBSET S |-> Rest(h, g, s)]

\* The recursion has a solution.
LEMMA SumSolved ==
    ASSUME NEW S, IsFiniteSet(S), NEW h, \A x \in S : h[x] \in Int
    PROVE  /\ Partial(h, S) = [s \in SUBSET S |-> Rest(h, Partial(h, S), s)]
           /\ SumFunctionOnSet(h, S) = Partial(h, S)[S]
<1> DEFINE P == SUBSET S
           K == Cardinality(S)
           depth == [s \in P |-> K - Cardinality(s)]
           F == [g \in [P -> Int] |-> [s \in P |-> Rest(h, g, s)]]
           sum == CHOOSE g : g = [s \in SUBSET S |-> Rest(h, g, s)]
<1>1. K \in Nat /\ \A s \in P : IsFiniteSet(s) /\ Cardinality(s) \in Nat /\ Cardinality(s) <= K
    BY FS_Subset, FS_CardinalityType
<1>2. ASSUME NEW s \in P, s # {}
      PROVE  /\ Pick(s) \in s /\ s \ {Pick(s)} \in P
             /\ Cardinality(s \ {Pick(s)}) = Cardinality(s) - 1
    <2>1. Pick(s) \in s
        BY <1>2 DEF Pick
    <2> QED
        BY <1>1, <2>1, FS_RemoveElement
<1>3. Descends(P, Int, depth, K, F)
    <2>1. depth \in [P -> Nat]
        BY <1>1
    <2>2. F \in [[P -> Int] -> [P -> Int]]
        <3> SUFFICES ASSUME NEW g \in [P -> Int], NEW s \in P
                     PROVE  Rest(h, g, s) \in Int
            OBVIOUS
        <3>1. CASE s = {}
            BY <3>1 DEF Rest
        <3>2. CASE s # {}
            <4>1. h[Pick(s)] \in Int /\ g[s \ {Pick(s)}] \in Int
                BY <1>2, <3>2
            <4> QED
                BY <3>2, <4>1 DEF Rest
        <3> QED
            BY <3>1, <3>2
    <2>3. ASSUME NEW g \in [P -> Int], NEW k \in [P -> Int], NEW s \in P,
                 \A q \in P : depth[s] < depth[q] /\ depth[q] <= K => g[q] = k[q]
          PROVE  F[g][s] = F[k][s]
        <3>1. CASE s = {}
            BY <3>1 DEF Rest
        <3>2. CASE s # {}
            <4> DEFINE q == s \ {Pick(s)}
            <4>1. q \in P /\ Cardinality(q) = Cardinality(s) - 1
                BY <1>2, <3>2
            <4> HIDE DEF q
            <4>2. depth[s] < depth[q] /\ depth[q] <= K
                BY <1>1, <4>1
            <4>3. g[q] = k[q]
                BY <2>3, <4>1, <4>2
            <4>4. Rest(h, g, s) = Rest(h, k, s)
                BY <4>3 DEF Rest, q
            <4> QED
                BY <4>4
        <3> QED
            BY <3>1, <3>2
    <2> HIDE DEF P, depth, F, K
    <2>4. Int # {}
        OBVIOUS
    <2> QED
        BY <1>1, <2>1, <2>2, <2>3, <2>4 DEF Descends
<1>4. PICK g \in [P -> Int] : F[g] = g
    <2> HIDE DEF P, depth, F, K
    <2> QED
        BY <1>3, DescentSolved
<1>5. g = [s \in SUBSET S |-> Rest(h, g, s)]
    BY <1>4
<1>6. sum = [s \in SUBSET S |-> Rest(h, sum, s)]
    BY <1>5, Zenon
<1>7. SumFunctionOnSet(h, S) = sum[S]
    BY DEF SumFunctionOnSet, FoldFunctionOnSet, MapThenFoldSet, Rest, Pick
<1>8. sum = Partial(h, S)
    BY DEF Partial
<1> HIDE DEF sum
<1> QED
    BY <1>6, <1>7, <1>8

\* A sum over a set is that over the rest and the picked element's summand.
LEMMA SumUnfolds ==
    ASSUME NEW S, IsFiniteSet(S), NEW h, \A x \in S : h[x] \in Int
    PROVE  /\ SumFunctionOnSet(h, S) \in Int
           /\ SumFunctionOnSet(h, S) =
                IF S = {} THEN 0 ELSE h[Pick(S)] + SumFunctionOnSet(h, S \ {Pick(S)})
<1> DEFINE Sol(U) == Partial(h, U)
           T == {n \in Nat : \A U \in SUBSET S, s \in SUBSET S :
                     s \subseteq U /\ Cardinality(s) = n => Sol(U)[s] \in Int /\ Sol(U)[s] = Sol(S)[s]}
<1>1. ASSUME NEW U \in SUBSET S
      PROVE  /\ SumFunctionOnSet(h, U) = Sol(U)[U]
             /\ \A s \in SUBSET U : Sol(U)[s] = Rest(h, Sol(U), s)
    <2>1. IsFiniteSet(U) /\ \A x \in U : h[x] \in Int
        BY FS_Subset
    <2>2. Sol(U) = [s \in SUBSET U |-> Rest(h, Sol(U), s)]
        BY <2>1, SumSolved
    <2>3. SumFunctionOnSet(h, U) = Sol(U)[U]
        BY <2>1, SumSolved
    <2> HIDE DEF Sol
    <2>4. \A s \in SUBSET U : [r \in SUBSET U |-> Rest(h, Sol(U), r)][s] = Rest(h, Sol(U), s)
        OBVIOUS
    <2> QED
        BY <2>2, <2>3, <2>4
<1> HIDE DEF Sol
<1>2. \A s \in SUBSET S : IsFiniteSet(s) /\ Cardinality(s) \in Nat
    BY FS_Subset, FS_CardinalityType
<1>3. 0 \in T
    <2>1. ASSUME NEW U \in SUBSET S, NEW s \in SUBSET S, s \subseteq U, Cardinality(s) = 0
          PROVE  Sol(U)[s] \in Int /\ Sol(U)[s] = Sol(S)[s]
        <3>1. s = {}
            BY <1>2, <2>1, FS_EmptySet
        <3>2. Rest(h, Sol(U), s) = 0 /\ Rest(h, Sol(S), s) = 0
            BY <3>1 DEF Rest
        <3> QED
            BY <1>1, <2>1, <3>2
    <2> QED
        BY <2>1
<1>4. ASSUME NEW n \in T
      PROVE  n + 1 \in T
    <2>1. ASSUME NEW U \in SUBSET S, NEW s \in SUBSET S, s \subseteq U, Cardinality(s) = n + 1
          PROVE  Sol(U)[s] \in Int /\ Sol(U)[s] = Sol(S)[s]
        <3>1. n \in Nat /\ n + 1 # 0 /\ n + 1 - 1 = n
            BY <1>4
        <3>2. s # {}
            BY <1>2, <2>1, <3>1, FS_EmptySet
        <3> DEFINE q == s \ {Pick(s)}
        <3>3. Pick(s) \in s
            BY <3>2 DEF Pick
        <3>4. q \in SUBSET S /\ q \subseteq U /\ Cardinality(q) = n
            <4>1. IsFiniteSet(s)
                BY <1>2
            <4>2. Cardinality(s \ {Pick(s)}) = Cardinality(s) - 1
                BY <3>3, <4>1, FS_RemoveElement
            <4> QED
                BY <2>1, <3>1, <4>2
        <3> HIDE DEF q
        <3>5. Sol(U)[q] \in Int /\ Sol(U)[q] = Sol(S)[q]
            BY <1>4, <3>4
        <3>6. /\ Sol(U)[s] = h[Pick(s)] + Sol(U)[q]
              /\ Sol(S)[s] = h[Pick(s)] + Sol(S)[q]
            BY <1>1, <2>1, <3>2 DEF Rest, q
        <3>7. h[Pick(s)] \in Int
            BY <2>1, <3>3
        <3> QED
            BY <3>5, <3>6, <3>7
    <2>2. n + 1 \in Nat
        BY <1>4
    <2> QED
        BY <2>1, <2>2
<1>5. T = Nat
    <2> HIDE DEF T
    <2>1. T \subseteq Nat
        BY DEF T
    <2> QED
        BY <1>3, <1>4, <2>1, SetInduction
<1>6. \A U \in SUBSET S : SumFunctionOnSet(h, U) \in Int /\ SumFunctionOnSet(h, U) = Sol(S)[U]
    <2> TAKE U \in SUBSET S
    <2>1. Sol(U)[U] \in Int /\ Sol(U)[U] = Sol(S)[U]
        BY <1>2, <1>5
    <2> QED
        BY <1>1, <2>1
<1>7. S \in SUBSET S /\ S \ {Pick(S)} \in SUBSET S
    OBVIOUS
<1> QED
    BY <1>1, <1>6, <1>7 DEF Rest

\* One more element is one more summand, whichever it is.
LEMMA SumAdds ==
    ASSUME NEW S, IsFiniteSet(S), NEW x, x \notin S, NEW h, \A y \in S \union {x} : h[y] \in Int
    PROVE  SumFunctionOnSet(h, S \union {x}) = SumFunctionOnSet(h, S) + h[x]
<1> DEFINE Sum(s) == SumFunctionOnSet(h, s)
           A == S \union {x}
           T == {n \in Nat : \A s \in SUBSET A, y \in A :
                     Cardinality(s) = n /\ y \notin s => Sum(s \union {y}) = Sum(s) + h[y]}
<1>1. IsFiniteSet(A) /\ \A s \in SUBSET A : IsFiniteSet(s) /\ Cardinality(s) \in Nat
    BY FS_AddElement, FS_Subset, FS_CardinalityType
<1>2. ASSUME NEW s \in SUBSET A
      PROVE  Sum(s) \in Int /\ Sum(s) = IF s = {} THEN 0 ELSE h[Pick(s)] + Sum(s \ {Pick(s)})
    BY <1>1, SumUnfolds
<1> HIDE DEF Sum
<1>3. 0 \in T
    <2>1. ASSUME NEW s \in SUBSET A, NEW y \in A, Cardinality(s) = 0
          PROVE  Sum(s \union {y}) = Sum(s) + h[y]
        <3>1. s = {}
            BY <1>1, <2>1, FS_EmptySet
        <3>2. Pick({y}) = y /\ {y} # {} /\ {y} \in SUBSET A /\ {y} \ {y} = {}
            BY DEF Pick
        <3>3. Sum({y}) = h[y] + Sum({}) /\ Sum({}) = 0
            BY <1>2, <3>1, <3>2
        <3>4. h[y] \in Int /\ s \union {y} = {y}
            BY <3>1
        <3> QED
            BY <3>1, <3>3, <3>4
    <2> QED
        BY <2>1
<1>4. ASSUME NEW n \in T
      PROVE  n + 1 \in T
    <2>1. ASSUME NEW s \in SUBSET A, NEW y \in A, Cardinality(s) = n + 1, y \notin s
          PROVE  Sum(s \union {y}) = Sum(s) + h[y]
        <3> DEFINE u == s \union {y}
                   z == Pick(u)
        <3>1. z \in u /\ u \in SUBSET A /\ u # {}
            BY <2>1 DEF Pick
        <3>2. Sum(u) = h[z] + Sum(u \ {z}) /\ Sum(s) \in Int
            BY <1>2, <3>1
        <3>3. h[z] \in Int /\ h[y] \in Int
            BY <3>1
        <3> HIDE DEF z
        <3>4. CASE z = y
            <4>1. u \ {z} = s
                BY <2>1, <3>4
            <4> HIDE DEF u
            <4>2. Sum(u) = h[y] + Sum(s)
                BY <3>2, <3>4, <4>1, Zenon
            <4>3. Sum(u) = Sum(s) + h[y]
                BY <3>2, <3>3, <4>2
            <4> QED
                BY <4>3 DEF u
        <3>5. CASE z # y
            <4> DEFINE r == s \ {z}
            <4>1. z \in s /\ n \in Nat /\ n + 1 - 1 = n
                BY <1>4, <3>1, <3>5
            <4>2. r \in SUBSET A /\ y \notin r /\ z \notin r /\ z \in A
                BY <2>1, <3>1, <4>1
            <4>3. Cardinality(r) = n
                <5>1. IsFiniteSet(s)
                    BY <1>1
                <5>2. Cardinality(s \ {z}) = Cardinality(s) - 1
                    BY <4>1, <5>1, FS_RemoveElement
                <5> QED
                    BY <2>1, <4>1, <5>2
            <4>4. u \ {z} = r \union {y} /\ s = r \union {z}
                BY <2>1, <3>5, <4>1
            <4> HIDE DEF r, u
            <4>5. Sum(r \union {y}) = Sum(r) + h[y] /\ Sum(r \union {z}) = Sum(r) + h[z]
                BY <1>4, <4>2, <4>3
            <4>6. Sum(r) \in Int
                BY <1>2, <4>2
            <4>7. Sum(u) = h[z] + (Sum(r) + h[y]) /\ Sum(s) = Sum(r) + h[z]
                BY <3>2, <4>4, <4>5
            <4>8. Sum(u) = Sum(s) + h[y]
                BY <3>3, <4>6, <4>7
            <4> QED
                BY <4>8 DEF u
        <3> QED
            BY <3>4, <3>5
    <2>2. n + 1 \in Nat
        BY <1>4
    <2> HIDE DEF A
    <2> QED
        BY <2>1, <2>2
<1>5. T = Nat
    <2> HIDE DEF T
    <2>1. T \subseteq Nat
        BY DEF T
    <2> QED
        BY <1>3, <1>4, <2>1, SetInduction
<1>6. S \in SUBSET A /\ x \in A
    OBVIOUS
<1>7. Sum(S \union {x}) = Sum(S) + h[x]
    <2> HIDE DEF A
    <2> QED
        BY <1>1, <1>5, <1>6
<1> QED
    BY <1>7 DEF Sum

\* What every proof by adding elements needs of the sums involved.
LEMMA SumSteps ==
    ASSUME NEW S, IsFiniteSet(S), NEW h, \A x \in S : h[x] \in Int
    PROVE  /\ SumFunctionOnSet(h, {}) = 0
           /\ \A s \in SUBSET S : IsFiniteSet(s) /\ SumFunctionOnSet(h, s) \in Int
           /\ \A s \in SUBSET S, x \in S : x \notin s =>
                SumFunctionOnSet(h, s \union {x}) = SumFunctionOnSet(h, s) + h[x]
<1>1. SumFunctionOnSet(h, {}) = 0
    BY FS_EmptySet, SumUnfolds
<1>2. \A s \in SUBSET S : IsFiniteSet(s) /\ \A x \in s : h[x] \in Int
    BY FS_Subset
<1>3. \A s \in SUBSET S : SumFunctionOnSet(h, s) \in Int
    BY <1>2, SumUnfolds
<1>4. ASSUME NEW s \in SUBSET S, NEW x \in S, x \notin s
      PROVE  SumFunctionOnSet(h, s \union {x}) = SumFunctionOnSet(h, s) + h[x]
    <2>1. \A y \in s \union {x} : h[y] \in Int
        OBVIOUS
    <2> QED
        BY <1>2, <1>4, <2>1, SumAdds
<1> QED
    BY <1>1, <1>2, <1>3, <1>4

\* Summands add up, one by one.
LEMMA SumPlus ==
    ASSUME NEW S, IsFiniteSet(S), NEW f, NEW g, NEW h,
           \A x \in S : g[x] \in Int /\ h[x] \in Int /\ f[x] = g[x] + h[x]
    PROVE  SumFunctionOnSet(f, S) = SumFunctionOnSet(g, S) + SumFunctionOnSet(h, S)
<1> DEFINE A(s) == SumFunctionOnSet(f, s)
           B(s) == SumFunctionOnSet(g, s)
           D(s) == SumFunctionOnSet(h, s)
           C == {s \in SUBSET S : A(s) = B(s) + D(s)}
<1>1. \A x \in S : f[x] \in Int
    OBVIOUS
<1>2. A({}) = 0 /\ \A s \in SUBSET S, x \in S : x \notin s => A(s \union {x}) = A(s) + f[x]
    BY <1>1, SumSteps
<1>3. /\ B({}) = 0 /\ \A s \in SUBSET S : B(s) \in Int
      /\ \A s \in SUBSET S, x \in S : x \notin s => B(s \union {x}) = B(s) + g[x]
    BY SumSteps
<1>4. /\ D({}) = 0 /\ \A s \in SUBSET S : D(s) \in Int
      /\ \A s \in SUBSET S, x \in S : x \notin s => D(s \union {x}) = D(s) + h[x]
    BY SumSteps
<1> HIDE DEF A, B, D
<1>5. {} \in C
    BY <1>2, <1>3, <1>4
<1>6. ASSUME NEW s \in SUBSET S, NEW x \in S, s \in C, x \notin s
      PROVE  s \union {x} \in C
    <2>1. /\ A(s \union {x}) = A(s) + f[x] /\ B(s \union {x}) = B(s) + g[x]
          /\ D(s \union {x}) = D(s) + h[x] /\ A(s) = B(s) + D(s)
        BY <1>2, <1>3, <1>4, <1>6
    <2>2. B(s) \in Int /\ D(s) \in Int /\ g[x] \in Int /\ h[x] \in Int /\ f[x] = g[x] + h[x]
        BY <1>3, <1>4
    <2>3. A(s \union {x}) = B(s \union {x}) + D(s \union {x})
        BY <2>1, <2>2
    <2> QED
        BY <2>3
<1>7. S \in C
    <2> HIDE DEF C
    <2>1. \A s \in SUBSET S, x \in S : s \in C /\ x \notin s => s \union {x} \in C
        BY <1>6
    <2> QED
        BY <1>5, <2>1, SubsetInduction
<1> QED
    BY <1>7 DEF A, B, D

\* A common factor.
LEMMA SumTimes ==
    ASSUME NEW S, IsFiniteSet(S), NEW f, NEW h, NEW c \in Int,
           \A x \in S : h[x] \in Int /\ f[x] = c * h[x]
    PROVE  SumFunctionOnSet(f, S) = c * SumFunctionOnSet(h, S)
<1> DEFINE A(s) == SumFunctionOnSet(f, s)
           D(s) == SumFunctionOnSet(h, s)
           C == {s \in SUBSET S : A(s) = c * D(s)}
<1>1. \A x \in S : f[x] \in Int
    OBVIOUS
<1>2. A({}) = 0 /\ \A s \in SUBSET S, x \in S : x \notin s => A(s \union {x}) = A(s) + f[x]
    BY <1>1, SumSteps
<1>3. /\ D({}) = 0 /\ \A s \in SUBSET S : D(s) \in Int
      /\ \A s \in SUBSET S, x \in S : x \notin s => D(s \union {x}) = D(s) + h[x]
    BY SumSteps
<1> HIDE DEF A, D
<1>4. {} \in C
    BY <1>2, <1>3
<1>5. ASSUME NEW s \in SUBSET S, NEW x \in S, s \in C, x \notin s
      PROVE  s \union {x} \in C
    <2>1. /\ A(s \union {x}) = A(s) + f[x] /\ D(s \union {x}) = D(s) + h[x] /\ A(s) = c * D(s)
        BY <1>2, <1>3, <1>5
    <2>2. D(s) \in Int /\ h[x] \in Int /\ f[x] = c * h[x]
        BY <1>3
    <2>3. \A a, b \in Int : c * (a + b) = c * a + c * b
        OBVIOUS
    <2>4. A(s \union {x}) = c * D(s \union {x})
        BY <2>1, <2>2, <2>3
    <2> QED
        BY <2>4
<1>6. S \in C
    <2> HIDE DEF C
    <2>1. \A s \in SUBSET S, x \in S : s \in C /\ x \notin s => s \union {x} \in C
        BY <1>5
    <2> QED
        BY <1>4, <2>1, SubsetInduction
<1> QED
    BY <1>6 DEF A, D

\* The same summands have the same sum.
LEMMA SumSame ==
    ASSUME NEW S, IsFiniteSet(S), NEW f, NEW h, \A x \in S : h[x] \in Int /\ f[x] = h[x]
    PROVE  SumFunctionOnSet(f, S) = SumFunctionOnSet(h, S)
<1>1. \A x \in S : h[x] \in Int /\ f[x] = 1 * h[x]
    OBVIOUS
<1>2. SumFunctionOnSet(f, S) = 1 * SumFunctionOnSet(h, S)
    BY <1>1, SumTimes
<1>3. SumFunctionOnSet(h, S) \in Int
    BY SumUnfolds
<1> QED
    BY <1>2, <1>3

\* What is zero may be left out.
LEMMA SumWithin ==
    ASSUME NEW S, IsFiniteSet(S), NEW U \in SUBSET S,
           NEW h, \A x \in S : h[x] \in Int /\ (x \notin U => h[x] = 0)
    PROVE  SumFunctionOnSet(h, S) = SumFunctionOnSet(h, U)
<1> DEFINE A(s) == SumFunctionOnSet(h, s)
           C == {s \in SUBSET S : A(s) = A(s \intersect U)}
<1>1. /\ A({}) = 0 /\ \A s \in SUBSET S : A(s) \in Int
      /\ \A s \in SUBSET S, x \in S : x \notin s => A(s \union {x}) = A(s) + h[x]
    BY SumSteps
<1> HIDE DEF A
<1>2. {} \in C
    <2>1. {} \intersect U = {}
        OBVIOUS
    <2> QED
        BY <2>1
<1>3. ASSUME NEW s \in SUBSET S, NEW x \in S, s \in C, x \notin s
      PROVE  s \union {x} \in C
    <2> DEFINE u == s \intersect U
               v == (s \union {x}) \intersect U
    <2>1. A(s \union {x}) = A(s) + h[x] /\ A(s) = A(u) /\ A(s) \in Int
        BY <1>1, <1>3
    <2>2. CASE x \in U
        <3>1. v = u \union {x} /\ u \in SUBSET S /\ x \notin u
            BY <1>3, <2>2
        <3> HIDE DEF u, v
        <3>2. A(v) = A(s \union {x})
            BY <1>1, <2>1, <3>1
        <3> QED
            BY <3>2 DEF v
    <2>3. CASE x \notin U
        <3>1. v = u /\ h[x] = 0
            BY <2>3
        <3> HIDE DEF u, v
        <3>2. A(v) = A(s \union {x})
            BY <2>1, <3>1
        <3> QED
            BY <3>2 DEF v
    <2> QED
        BY <2>2, <2>3
<1>4. S \in C
    <2> HIDE DEF C
    <2>1. \A s \in SUBSET S, x \in S : s \in C /\ x \notin s => s \union {x} \in C
        BY <1>3
    <2> QED
        BY <1>2, <2>1, SubsetInduction
<1>5. S \intersect U = U
    OBVIOUS
<1> QED
    BY <1>4, <1>5 DEF A

\* A sum over the names of the elements.
LEMMA SumRenamed ==
    ASSUME NEW S, IsFiniteSet(S), NEW T, NEW b \in Bijection(S, T),
           NEW f, NEW h, \A x \in S : h[b[x]] \in Int /\ f[x] = h[b[x]]
    PROVE  IsFiniteSet(T) /\ SumFunctionOnSet(f, S) = SumFunctionOnSet(h, T)
<1>1. /\ b \in [S -> T] /\ \A x, y \in S : b[x] = b[y] => x = y
      /\ \A t \in T : \E x \in S : b[x] = t
    BY DEF Bijection, Injection, Surjection, IsInjective
<1>2. IsFiniteSet(T)
    BY FS_Bijection DEF ExistsBijection
<1> DEFINE A(s) == SumFunctionOnSet(f, s)
           D(s) == SumFunctionOnSet(h, s)
           image(s) == {b[x] : x \in s}
           C == {s \in SUBSET S : A(s) = D(image(s))}
<1>3. (\A x \in S : f[x] \in Int) /\ (\A t \in T : h[t] \in Int)
    BY <1>1
<1>4. A({}) = 0 /\ \A s \in SUBSET S, x \in S : x \notin s => A(s \union {x}) = A(s) + f[x]
    BY <1>3, SumSteps
<1>5. D({}) = 0 /\ \A s \in SUBSET T, x \in T : x \notin s => D(s \union {x}) = D(s) + h[x]
    BY <1>2, <1>3, SumSteps
<1> HIDE DEF A, D
<1>6. {} \in C
    <2>1. image({}) = {}
        OBVIOUS
    <2> HIDE DEF image
    <2> QED
        BY <1>4, <1>5, <2>1
<1>7. ASSUME NEW s \in SUBSET S, NEW x \in S, s \in C, x \notin s
      PROVE  s \union {x} \in C
    <2>1. /\ image(s) \in SUBSET T /\ b[x] \in T /\ b[x] \notin image(s)
          /\ image(s \union {x}) = image(s) \union {b[x]}
        BY <1>1, <1>7
    <2>2. A(s) = D(image(s))
        BY <1>7
    <2> HIDE DEF image
    <2>3. A(s \union {x}) = A(s) + f[x]
        BY <1>4, <1>7
    <2>4. D(image(s) \union {b[x]}) = D(image(s)) + h[b[x]]
        BY <1>5, <2>1
    <2>5. A(s \union {x}) = D(image(s \union {x}))
        BY <2>1, <2>2, <2>3, <2>4
    <2> QED
        BY <2>5
<1>8. S \in C
    <2> HIDE DEF C
    <2>1. \A s \in SUBSET S, x \in S : s \in C /\ x \notin s => s \union {x} \in C
        BY <1>7
    <2> QED
        BY <1>6, <2>1, SubsetInduction
<1>9. image(S) = T
    BY <1>1
<1> HIDE DEF image
<1> QED
    BY <1>2, <1>8, <1>9 DEF A, D

\* The sums of a table's rows and of its columns.
SumsOfRows(rows, a, S, T) == \A x \in S : rows[x] = SumFunctionOnSet(a[x], T)
SumsOfColumns(columns, a, S, T) ==
    \A y \in T : columns[y] = SumFunctionOnSet([x \in S |-> a[x][y]], S)

\* A sum of sums may be taken the other way round.
LEMMA SumSwaps ==
    ASSUME NEW S, IsFiniteSet(S), NEW T, IsFiniteSet(T), NEW a \in [S -> [T -> Int]],
           NEW rows, SumsOfRows(rows, a, S, T), NEW columns, SumsOfColumns(columns, a, S, T)
    PROVE  SumFunctionOnSet(rows, S) = SumFunctionOnSet(columns, T)
<1>0. /\ \A x \in S : rows[x] = SumFunctionOnSet(a[x], T)
      /\ \A y \in T : columns[y] = SumFunctionOnSet([x \in S |-> a[x][y]], S)
    BY DEF SumsOfRows, SumsOfColumns
<1> DEFINE col(y) == [x \in S |-> a[x][y]]
           part(s) == [y \in T |-> SumFunctionOnSet(col(y), s)]
           A(s) == SumFunctionOnSet(rows, s)
           D(s) == SumFunctionOnSet(part(s), T)
           C == {s \in SUBSET S : A(s) = D(s)}
<1>1. \A x \in S : \A y \in T : a[x][y] \in Int
    OBVIOUS
<1>2. ASSUME NEW y \in T
      PROVE  /\ SumFunctionOnSet(col(y), {}) = 0
             /\ \A s \in SUBSET S : SumFunctionOnSet(col(y), s) \in Int
             /\ \A s \in SUBSET S, x \in S : x \notin s =>
                  SumFunctionOnSet(col(y), s \union {x}) = SumFunctionOnSet(col(y), s) + a[x][y]
    <2>1. \A x \in S : col(y)[x] \in Int /\ col(y)[x] = a[x][y]
        BY <1>1
    <2> HIDE DEF col
    <2> QED
        BY <2>1, SumSteps
<1>3. \A x \in S : rows[x] \in Int
    BY <1>0, <1>1, SumUnfolds
<1>4. A({}) = 0 /\ \A s \in SUBSET S, x \in S : x \notin s => A(s \union {x}) = A(s) + rows[x]
    BY <1>3, SumSteps
<1> HIDE DEF A, col
<1>5. {} \in C
    <2> DEFINE zero == [y \in T |-> 0]
    <2>1. part({}) = zero
        BY <1>2
    <2>2. \A y \in T : zero[y] \in Int /\ (y \notin {} => zero[y] = 0)
        OBVIOUS
    <2> HIDE DEF zero
    <2>3. SumFunctionOnSet(zero, T) = SumFunctionOnSet(zero, {})
        BY <2>2, SumWithin
    <2>4. SumFunctionOnSet(zero, {}) = 0
        BY <2>2, SumSteps
    <2>5. A({}) = D({})
        BY <1>4, <2>1, <2>3, <2>4
    <2> HIDE DEF D
    <2> QED
        BY <2>5
<1>6. ASSUME NEW s \in SUBSET S, NEW x \in S, s \in C, x \notin s
      PROVE  s \union {x} \in C
    <2>1. A(s \union {x}) = A(s) + rows[x] /\ A(s) = D(s)
        BY <1>4, <1>6
    <2>2. \A y \in T : /\ part(s)[y] \in Int /\ a[x][y] \in Int
                       /\ part(s \union {x})[y] = part(s)[y] + a[x][y]
        BY <1>1, <1>2, <1>6
    <2> DEFINE p == part(s)
               q == part(s \union {x})
               r == a[x]
    <2>3. \A y \in T : p[y] \in Int /\ r[y] \in Int /\ q[y] = p[y] + r[y]
        BY <2>2
    <2> HIDE DEF p, q, r
    <2>4. SumFunctionOnSet(q, T) = SumFunctionOnSet(p, T) + SumFunctionOnSet(r, T)
        BY <2>3, SumPlus
    <2>5. SumFunctionOnSet(r, T) = rows[x]
        BY <1>0, <1>6 DEF r
    <2>6. A(s \union {x}) = SumFunctionOnSet(q, T)
        <3> HIDE DEF D
        <3>1. D(s) = SumFunctionOnSet(p, T)
            BY DEF D, p
        <3> QED
            BY <2>1, <2>4, <2>5, <3>1
    <2>7. A(s \union {x}) = D(s \union {x})
        BY <2>6 DEF q
    <2> HIDE DEF D
    <2> QED
        BY <2>7
<1>7. S \in C
    <2> HIDE DEF C
    <2>1. \A s \in SUBSET S, x \in S : s \in C /\ x \notin s => s \union {x} \in C
        BY <1>6
    <2> QED
        BY <1>5, <2>1, SubsetInduction
<1>8. \A y \in T : part(S)[y] \in Int /\ columns[y] = part(S)[y]
    BY <1>0, <1>2 DEF col
<1>9. SumFunctionOnSet(columns, T) = D(S)
    <2> HIDE DEF part
    <2> QED
        BY <1>8, SumSame
<1> QED
    BY <1>7, <1>9 DEF A

\* A sum of ones counts.
LEMMA SumOfOnes ==
    ASSUME NEW S, IsFiniteSet(S), NEW U \in SUBSET S,
           NEW h, \A x \in S : h[x] = IF x \in U THEN 1 ELSE 0
    PROVE  IsFiniteSet(U) /\ SumFunctionOnSet(h, S) = Cardinality(U)
<1> DEFINE A(s) == SumFunctionOnSet(h, s)
           C == {s \in SUBSET U : A(s) = Cardinality(s)}
<1>1. IsFiniteSet(U) /\ \A s \in SUBSET U : IsFiniteSet(s) /\ Cardinality(s) \in Nat
    BY FS_Subset, FS_CardinalityType
<1>2. A(S) = A(U)
    <2>1. \A x \in S : h[x] \in Int /\ (x \notin U => h[x] = 0)
        OBVIOUS
    <2> QED
        BY <2>1, SumWithin
<1>3. A({}) = 0 /\ \A s \in SUBSET U, x \in U : x \notin s => A(s \union {x}) = A(s) + h[x]
    <2>1. \A x \in U : h[x] \in Int
        OBVIOUS
    <2> QED
        BY <1>1, <2>1, SumSteps
<1> HIDE DEF A
<1>4. {} \in C
    BY <1>3, FS_EmptySet
<1>5. ASSUME NEW s \in SUBSET U, NEW x \in U, s \in C, x \notin s
      PROVE  s \union {x} \in C
    <2>1. A(s \union {x}) = A(s) + 1 /\ A(s) = Cardinality(s)
        BY <1>3, <1>5
    <2>2. Cardinality(s \union {x}) = Cardinality(s) + 1
        BY <1>1, <1>5, FS_AddElement
    <2> QED
        BY <2>1, <2>2
<1>6. U \in C
    <2> HIDE DEF C
    <2>1. \A s \in SUBSET U, x \in U : s \in C /\ x \notin s => s \union {x} \in C
        BY <1>5
    <2> QED
        BY <1>1, <1>4, <2>1, SubsetInduction
<1> QED
    BY <1>1, <1>2, <1>6 DEF A

\* A sum over a list that repeats nothing is one over its elements.
LEMMA SumListed ==
    ASSUME NEW X, NEW s \in Seq(X), Distinct(s), NEW h, \A x \in ToSet(s) : h[x] \in Int
    PROVE  /\ IsFiniteSet(ToSet(s))
           /\ SumFunction([k \in DOMAIN s |-> h[s[k]]]) = SumFunctionOnSet(h, ToSet(s))
<1> DEFINE n == Len(s)
           f == [k \in DOMAIN s |-> h[s[k]]]
<1>1. n \in Nat /\ DOMAIN s = 1..n /\ ToSet(s) = {s[k] : k \in 1..n}
    BY DEF ToSet
<1>2. IsFiniteSet(1..n)
    BY <1>1, FS_Interval
<1> DEFINE b == [k \in 1..n |-> s[k]]
<1>3. b \in Bijection(1..n, ToSet(s))
    BY <1>1 DEF Distinct, Bijection, Injection, Surjection, IsInjective
<1>4. \A k \in 1..n : h[b[k]] \in Int /\ f[k] = h[b[k]]
    BY <1>1
<1>5. SumFunction(f) = SumFunctionOnSet(f, 1..n)
    BY <1>1 DEF SumFunction
<1>6. IsFiniteSet(ToSet(s)) /\ SumFunctionOnSet(f, 1..n) = SumFunctionOnSet(h, ToSet(s))
    <2> DEFINE dom == 1..n
               set == ToSet(s)
    <2>1. IsFiniteSet(dom) /\ b \in Bijection(dom, set) /\ \A k \in dom : h[b[k]] \in Int /\ f[k] = h[b[k]]
        BY <1>2, <1>3, <1>4
    <2> HIDE DEF b, f, n, dom, set
    <2>2. IsFiniteSet(set) /\ SumFunctionOnSet(f, dom) = SumFunctionOnSet(h, set)
        BY <2>1, SumRenamed
    <2> QED
        BY <2>2 DEF dom, set
<1> QED
    BY <1>5, <1>6 DEF f

\* A sum of natural numbers is one.
LEMMA SumNatural ==
    ASSUME NEW S, IsFiniteSet(S), NEW h, \A x \in S : h[x] \in Nat
    PROVE  SumFunctionOnSet(h, S) \in Nat
<1> DEFINE A(s) == SumFunctionOnSet(h, s)
           C == {s \in SUBSET S : A(s) \in Nat}
<1>1. A({}) = 0 /\ \A s \in SUBSET S, x \in S : x \notin s => A(s \union {x}) = A(s) + h[x]
    <2>1. \A x \in S : h[x] \in Int
        OBVIOUS
    <2> QED
        BY <2>1, SumSteps
<1> HIDE DEF A
<1>2. {} \in C
    BY <1>1
<1>3. ASSUME NEW s \in SUBSET S, NEW x \in S, s \in C, x \notin s
      PROVE  s \union {x} \in C
    BY <1>1, <1>3
<1>4. S \in C
    <2> HIDE DEF C
    <2>1. \A s \in SUBSET S, x \in S : s \in C /\ x \notin s => s \union {x} \in C
        BY <1>3
    <2> QED
        BY <1>2, <2>1, SubsetInduction
<1> QED
    BY <1>4 DEF A

-----------------------------------------------------------------------------
(* Loops.                                                                   *)

\* A loop of n rounds: round k makes F[k][r] of the result r so far, v at first.
Loops(n, V, v, F) == n \in Nat /\ v \in V /\ \A k \in 1..n : \A r \in V : F[k][r] \in V
RunsAs(n, V, v, F, g) == g \in [0..n -> V] /\ g[0] = v /\ \A k \in 1..n : g[k] = F[k][g[k - 1]]

\* It has a run.
LEMMA LoopRuns ==
    ASSUME NEW n, NEW V, NEW v, NEW F, Loops(n, V, v, F)
    PROVE  \E g : RunsAs(n, V, v, F, g)
<1>0. n \in Nat /\ v \in V /\ \A k \in 1..n : \A r \in V : F[k][r] \in V
    BY DEF Loops
<1> DEFINE Runs(m) == \E g \in [0..m -> V] : g[0] = v /\ \A k \in 1..m : g[k] = F[k][g[k - 1]]
           T == {m \in Nat : m <= n => Runs(m)}
<1>1. 0 \in T
    <2> DEFINE g == [k \in 0..0 |-> v]
    <2>1. g \in [0..0 -> V] /\ g[0] = v
        BY <1>0
    <2> HIDE DEF g
    <2>2. Runs(0)
        BY <2>1
    <2> HIDE DEF Runs
    <2> QED
        BY <2>2
<1>2. ASSUME NEW m \in T
      PROVE  m + 1 \in T
    <2> SUFFICES ASSUME m + 1 <= n
                 PROVE  Runs(m + 1)
        BY <1>2
    <2>1. m \in Nat /\ m <= n /\ m + 1 \in 1..n
        BY <1>0, <1>2
    <2>2. PICK g \in [0..m -> V] : g[0] = v /\ \A k \in 1..m : g[k] = F[k][g[k - 1]]
        BY <1>2, <2>1
    <2> DEFINE x == F[m + 1][g[m]]
               h == [k \in 0..m + 1 |-> IF k = m + 1 THEN x ELSE g[k]]
    <2>3. x \in V
        <3>1. g[m] \in V
            BY <2>1, <2>2
        <3> QED
            BY <1>0, <2>1, <3>1
    <2> HIDE DEF x
    <2>4. h \in [0..m + 1 -> V] /\ h[m + 1] = x /\ \A k \in 0..m : h[k] = g[k]
        BY <2>1, <2>2, <2>3
    <2> HIDE DEF h
    <2>5. h[0] = v
        BY <2>1, <2>2, <2>4
    <2>6. \A k \in 1..m + 1 : h[k] = F[k][h[k - 1]]
        <3> TAKE k \in 1..m + 1
        <3>1. CASE k = m + 1
            <4>1. k - 1 = m /\ m \in 0..m
                BY <2>1, <3>1
            <4> QED
                BY <2>4, <3>1, <4>1 DEF x
        <3>2. CASE k # m + 1
            <4>1. k \in 1..m /\ k \in 0..m /\ k - 1 \in 0..m
                BY <2>1, <3>2
            <4> QED
                BY <2>2, <2>4, <4>1
        <3> QED
            BY <3>1, <3>2
    <2> QED
        BY <2>4, <2>5, <2>6
<1>3. T = Nat
    <2> HIDE DEF T
    <2>1. T \subseteq Nat
        BY DEF T
    <2> QED
        BY <1>1, <1>2, <2>1, SetInduction
<1>4. Runs(n)
    <2> HIDE DEF T
    <2>1. n \in T
        BY <1>0, <1>3
    <2> HIDE DEF Runs
    <2> QED
        BY <1>0, <2>1 DEF T
<1> QED
    BY <1>4 DEF RunsAs

\* What Passing keeps are the elements that pass, and none twice if none is listed twice.
LEMMA PassingKept ==
    ASSUME NEW X, NEW s \in Seq(X), NEW T
    PROVE  /\ Passing(s, T) \in Seq(X)
           /\ Distinct(s) => Distinct(Passing(s, T))
           /\ ToSet(Passing(s, T)) = ToSet(s) \intersect T
<1> DEFINE n == Len(s)
           Round(g) == [k \in 0..n |-> IF k = 0 THEN <<>>
                                       ELSE IF s[k] \in T THEN Append(g[k - 1], s[k]) ELSE g[k - 1]]
           kept == CHOOSE g : g = Round(g)
           F == [k \in 1..n |-> [r \in Seq(X) |-> IF s[k] \in T THEN Append(r, s[k]) ELSE r]]
<1>0. n \in Nat /\ DOMAIN s = 1..n /\ \A k \in 1..n : s[k] \in X
    OBVIOUS
<1>1. kept = Round(kept)
    <2>1. <<>> \in Seq(X)
        OBVIOUS
    <2>2. \A k \in 1..n : \A r \in Seq(X) : F[k][r] \in Seq(X)
        BY <1>0
    <2>3. PICK g : RunsAs(n, Seq(X), <<>>, F, g)
        <3>1. Loops(n, Seq(X), <<>>, F)
            BY <1>0, <2>1, <2>2 DEF Loops
        <3> QED
            BY <3>1, LoopRuns
    <2>4. g \in [0..n -> Seq(X)] /\ g[0] = <<>> /\ \A k \in 1..n : g[k] = F[k][g[k - 1]]
        BY <2>3 DEF RunsAs
    <2>5. g = Round(g)
        <3>1. g = [k \in 0..n |-> g[k]]
            BY <2>4
        <3>2. ASSUME NEW k \in 0..n
              PROVE  g[k] = IF k = 0 THEN <<>>
                            ELSE IF s[k] \in T THEN Append(g[k - 1], s[k]) ELSE g[k - 1]
            <4>1. CASE k = 0
                BY <2>4, <4>1
            <4>2. CASE k # 0
                <5>1. k \in 1..n /\ k - 1 \in 0..n
                    BY <1>0, <4>2
                <5>2. g[k - 1] \in Seq(X)
                    BY <2>4, <5>1
                <5> QED
                    BY <2>4, <4>2, <5>1, <5>2
            <4> QED
                BY <4>1, <4>2
        <3> QED
            BY <3>1, <3>2
    <2> HIDE DEF Round
    <2> QED
        BY <2>5
<1>2. Passing(s, T) = kept[n]
    BY DEF Passing
<1> HIDE DEF kept
<1>3. kept[0] = <<>>
    BY <1>0, <1>1
<1>4. ASSUME NEW k \in 1..n
      PROVE  kept[k] = IF s[k] \in T THEN Append(kept[k - 1], s[k]) ELSE kept[k - 1]
    <2>1. k \in 0..n /\ k # 0
        BY <1>0
    <2> QED
        BY <1>1, <2>1
<1> HIDE DEF Round
<1> DEFINE Good(k) == /\ kept[k] \in Seq(X) /\ (Distinct(s) => Distinct(kept[k]))
                      /\ ToSet(kept[k]) = {s[j] : j \in 1..k} \intersect T
           U == {k \in Nat : k <= n => Good(k)}
<1>5. U = Nat
    <2>1. 0 \in U
        <3>1. 1..0 = {} /\ ToSet(<<>>) = {} /\ Distinct(<<>>) /\ <<>> \in Seq(X)
            BY DEF ToSet, Distinct
        <3> QED
            BY <1>3, <3>1
    <2>2. ASSUME NEW k \in U
          PROVE  k + 1 \in U
        <3> SUFFICES ASSUME k + 1 <= n
                     PROVE  Good(k + 1)
            BY <2>2
        <3>1. k \in Nat /\ k + 1 \in 1..n /\ k + 1 - 1 = k /\ k <= n
            BY <1>0, <2>2
        <3>2. Good(k)
            BY <2>2, <3>1
        <3>3. 1..k + 1 = 1..k \union {k + 1} /\ 1..k \subseteq 1..n /\ k + 1 \notin 1..k
            BY <1>0, <3>1
        <3>4. CASE s[k + 1] \in T
            <4> DEFINE x == s[k + 1]
                       old == kept[k]
                       new == kept[k + 1]
                       one == <<x>>
            <4>1. new = Append(old, x)
                <5>1. kept[k + 1] = IF s[k + 1] \in T THEN Append(kept[k + 1 - 1], s[k + 1]) ELSE kept[k + 1 - 1]
                    BY <1>4, <3>1
                <5> QED
                    BY <3>1, <3>4, <5>1
            <4>2. x \in X /\ (Distinct(s) => x \notin ToSet(old))
                <5>1. Distinct(s) => \A j \in 1..k : s[j] # s[k + 1]
                    BY <1>0, <3>1, <3>3 DEF Distinct
                <5> QED
                    BY <1>0, <3>1, <3>2, <5>1
            <4>3. old \in Seq(X) /\ (Distinct(s) => Distinct(old))
                BY <3>2
            <4> HIDE DEF x, old, new
            <4>4. one \in Seq(X) /\ ToSet(one) = {x} /\ Distinct(one)
                BY <4>2 DEF ToSet, Distinct
            <4>5. new = old \o one
                BY <4>1, <4>2, <4>3
            <4>6. new \in Seq(X) /\ ToSet(new) = ToSet(old) \union {x}
                <5> HIDE DEF one
                <5>1. old \o one \in Seq(X) /\ ToSet(old \o one) = ToSet(old) \union ToSet(one)
                    BY <4>3, <4>4, Concatenated
                <5> QED
                    BY <4>4, <4>5, <5>1
            <4>7. ASSUME Distinct(s)
                  PROVE  Distinct(new)
                <5>1. ToSet(old) \intersect ToSet(one) = {} /\ Distinct(old)
                    BY <4>2, <4>3, <4>4, <4>7
                <5> HIDE DEF one
                <5>2. Distinct(old \o one)
                    BY <4>3, <4>4, <5>1, Concatenated
                <5> QED
                    BY <4>5, <5>2
            <4>8. ToSet(new) = ({s[j] : j \in 1..k} \intersect T) \union {s[k + 1]}
                BY <3>2, <4>6 DEF x, old
            <4>9. {s[j] : j \in 1..k + 1} = {s[j] : j \in 1..k} \union {s[k + 1]}
                BY <3>3
            <4> QED
                BY <3>4, <4>6, <4>7, <4>8, <4>9 DEF new
        <3>5. CASE s[k + 1] \notin T
            <4>1. kept[k + 1] = kept[k]
                BY <1>4, <3>1, <3>5
            <4>2. {s[j] : j \in 1..k + 1} = {s[j] : j \in 1..k} \union {s[k + 1]}
                BY <3>3
            <4> QED
                BY <3>2, <3>5, <4>1, <4>2
        <3> QED
            BY <3>4, <3>5
    <2> HIDE DEF U
    <2>3. U \subseteq Nat
        BY DEF U
    <2> QED
        BY <2>1, <2>2, <2>3, SetInduction
<1>6. Good(n)
    <2> HIDE DEF Good, U
    <2>1. n \in U
        BY <1>0, <1>5
    <2> QED
        BY <1>0, <2>1 DEF U
<1>7. {s[j] : j \in 1..n} = ToSet(s)
    BY <1>0 DEF ToSet
<1> QED
    BY <1>2, <1>6, <1>7

-----------------------------------------------------------------------------
(* Choosing.                                                                *)

\* b names each element of T by one of S.
Names(b, S, T) ==
    /\ b \in [S -> T] /\ \A x, y \in S : b[x] = b[y] => x = y
    /\ \A t \in T : \E x \in S : b[x] = t

\* So they are as many.
LEMMA SameCount ==
    ASSUME NEW S, IsFiniteSet(S), NEW T, NEW b, Names(b, S, T)
    PROVE  IsFiniteSet(T) /\ Cardinality(T) = Cardinality(S)
<1>1. b \in Bijection(S, T)
    BY DEF Names, Bijection, Injection, Surjection, IsInjective
<1>2. ExistsBijection(S, T)
    BY <1>1 DEF ExistsBijection
<1> QED
    BY <1>2, FS_Bijection

\* A finite set has finitely many subsets of a size, all of them finite.
LEMMA SubsetsFinite ==
    ASSUME NEW S, IsFiniteSet(S), NEW k
    PROVE  /\ IsFiniteSet(kSubset(k, S)) /\ Cardinality(kSubset(k, S)) \in Nat
           /\ \A s \in kSubset(k, S) : s \subseteq S /\ IsFiniteSet(s) /\ Cardinality(s) = k
<1>1. kSubset(k, S) \in SUBSET SUBSET S
    BY DEF kSubset
<1>2. IsFiniteSet(SUBSET S)
    BY FS_SUBSET
<1>3. IsFiniteSet(kSubset(k, S)) /\ Cardinality(kSubset(k, S)) \in Nat
    BY <1>1, <1>2, FS_Subset, FS_CardinalityType
<1>4. \A s \in kSubset(k, S) : s \in SUBSET S /\ Cardinality(s) = k
    BY DEF kSubset
<1> QED
    BY <1>3, <1>4, FS_Subset

\* Those of a set with one more element are with it or without it.
LEMMA SubsetsAdd ==
    ASSUME NEW S, IsFiniteSet(S), NEW x, x \notin S, NEW k \in Nat
    PROVE  Cardinality(kSubset(k + 1, S \union {x})) =
               Cardinality(kSubset(k + 1, S)) + Cardinality(kSubset(k, S))
<1> DEFINE A == kSubset(k + 1, S)
           B == kSubset(k, S)
           all == kSubset(k + 1, S \union {x})
           b == [s \in B |-> s \union {x}]
           W == {s \union {x} : s \in B}
<1>1. /\ IsFiniteSet(A) /\ IsFiniteSet(B)
      /\ \A s \in A : s \subseteq S
      /\ \A s \in B : s \subseteq S /\ IsFiniteSet(s) /\ Cardinality(s) = k
    BY SubsetsFinite
<1>2. Names(b, B, W)
    <2>1. \A s, t \in B : s \union {x} = t \union {x} => s = t
        <3> SUFFICES ASSUME NEW s \in B, NEW t \in B, s \union {x} = t \union {x}
                     PROVE  s = t
            OBVIOUS
        <3>1. x \notin s /\ x \notin t
            BY <1>1
        <3> HIDE DEF B
        <3> QED
            BY <3>1
    <2> HIDE DEF B
    <2> QED
        BY <2>1 DEF Names
<1>3. IsFiniteSet(W) /\ Cardinality(W) = Cardinality(B)
    <2> HIDE DEF B, b, W
    <2> QED
        BY <1>1, <1>2, SameCount
<1>4. A \intersect W = {}
    <2> HIDE DEF A, B
    <2> QED
        BY <1>1
<1>5. all = A \union W
    <2>1. ASSUME NEW s \in A
          PROVE  s \in all
        BY DEF kSubset
    <2>2. ASSUME NEW s \in W
          PROVE  s \in all
        <3>1. PICK t \in B : s = t \union {x}
            OBVIOUS
        <3>2. t \subseteq S /\ IsFiniteSet(t) /\ Cardinality(t) = k /\ x \notin t
            BY <1>1, <3>1
        <3>3. Cardinality(s) = k + 1
            BY <3>1, <3>2, FS_AddElement
        <3> QED
            BY <3>1, <3>2, <3>3 DEF kSubset
    <2>3. ASSUME NEW s \in all
          PROVE  s \in A \union W
        <3>1. s \subseteq S \union {x} /\ Cardinality(s) = k + 1
            BY DEF kSubset
        <3>2. CASE x \in s
            <4> DEFINE t == s \ {x}
            <4>1. IsFiniteSet(s)
                <5>1. IsFiniteSet(S \union {x})
                    BY FS_AddElement
                <5> QED
                    BY <3>1, <5>1, FS_Subset
            <4>2. Cardinality(t) = k
                <5>1. Cardinality(t) = Cardinality(s) - 1
                    BY <3>2, <4>1, FS_RemoveElement
                <5> QED
                    BY <3>1, <5>1
            <4>3. t \in B
                BY <3>1, <4>2 DEF kSubset
            <4>4. s = t \union {x}
                BY <3>2
            <4> HIDE DEF B, t
            <4> QED
                BY <4>3, <4>4
        <3>3. CASE x \notin s
            <4>1. s \in A
                BY <3>1, <3>3 DEF kSubset
            <4> QED
                BY <4>1
        <3> QED
            BY <3>2, <3>3
    <2> QED
        BY <2>1, <2>2, <2>3
<1>6. Cardinality(A \union W) = Cardinality(A) + Cardinality(W)
    <2>1. Cardinality(A) \in Nat /\ Cardinality(W) \in Nat
        BY <1>1, <1>3, FS_CardinalityType
    <2> HIDE DEF A, W
    <2>2. Cardinality(A \union W) = Cardinality(A) + Cardinality(W) - Cardinality(A \intersect W)
        BY <1>1, <1>3, FS_Union
    <2>3. Cardinality(A \intersect W) = 0
        BY <1>4, FS_EmptySet
    <2> QED
        BY <2>1, <2>2, <2>3
<1> QED
    BY <1>3, <1>5, <1>6

\* There is one without elements, and without elements only that one.
LEMMA SubsetsNone ==
    ASSUME NEW S, IsFiniteSet(S)
    PROVE  /\ Cardinality(kSubset(0, S)) = 1
           /\ \A k \in Nat : k > Cardinality(S) => Cardinality(kSubset(k, S)) = 0
<1>1. kSubset(0, S) = {{}}
    <2>1. \A s \in SUBSET S : IsFiniteSet(s) /\ (Cardinality(s) = 0 <=> s = {})
        BY FS_Subset, FS_EmptySet
    <2> QED
        BY <2>1 DEF kSubset
<1>2. ASSUME NEW k \in Nat, k > Cardinality(S)
      PROVE  Cardinality(kSubset(k, S)) = 0
    <2>1. \A s \in SUBSET S : Cardinality(s) <= Cardinality(S) /\ Cardinality(S) \in Nat
        BY FS_Subset, FS_CardinalityType
    <2>2. kSubset(k, S) = {}
        BY <1>2, <2>1 DEF kSubset
    <2> QED
        BY <2>2, FS_EmptySet
<1> QED
    BY <1>1, <1>2, FS_Singleton

\* How many they are depends on how many elements there are.
Ways(n, k) == Cardinality(kSubset(k, 1..n))

\* Pascal's triangle.
LEMMA WaysSum ==
    ASSUME NEW n \in Nat, NEW k \in Nat
    PROVE  /\ Ways(n, k) \in Nat /\ Ways(n, 0) = 1 /\ (k > n => Ways(n, k) = 0)
           /\ Ways(n + 1, k + 1) = Ways(n, k + 1) + Ways(n, k)
<1>1. IsFiniteSet(1..n) /\ Cardinality(1..n) = n
    BY FS_Interval
<1>2. 1..n + 1 = 1..n \union {n + 1} /\ n + 1 \notin 1..n
    OBVIOUS
<1>3. Ways(n + 1, k + 1) = Ways(n, k + 1) + Ways(n, k)
    <2> DEFINE S == 1..n
               x == n + 1
    <2>1. IsFiniteSet(S) /\ x \notin S /\ 1..n + 1 = S \union {x}
        BY <1>1, <1>2
    <2> HIDE DEF S, x
    <2>2. Cardinality(kSubset(k + 1, S \union {x})) = Cardinality(kSubset(k + 1, S)) + Cardinality(kSubset(k, S))
        BY <2>1, SubsetsAdd
    <2> QED
        BY <2>1, <2>2 DEF Ways, S
<1>4. Ways(n, k) \in Nat /\ Ways(n, 0) = 1 /\ (k > n => Ways(n, k) = 0)
    BY <1>1, SubsetsFinite, SubsetsNone DEF Ways
<1> QED
    BY <1>3, <1>4

\* Every set of a size has as many subsets as the first numbers have.
LEMMA WaysOfSize ==
    ASSUME NEW S, IsFiniteSet(S), NEW k \in Nat
    PROVE  Cardinality(kSubset(k, S)) = Ways(Cardinality(S), k)
<1> DEFINE Same(s) == \A j \in Nat : Cardinality(kSubset(j, s)) = Ways(Cardinality(s), j)
           C == {s \in SUBSET S : Same(s)}
<1>1. {} \in C
    <2>1. IsFiniteSet({}) /\ Cardinality({}) = 0 /\ 1..0 = {}
        BY FS_EmptySet
    <2> QED
        BY <2>1 DEF Ways
<1>2. ASSUME NEW s \in SUBSET S, NEW x \in S, s \in C, x \notin s
      PROVE  s \union {x} \in C
    <2> DEFINE n == Cardinality(s)
               t == s \union {x}
    <2>1. /\ IsFiniteSet(s) /\ n \in Nat /\ IsFiniteSet(t) /\ Cardinality(t) = n + 1
          /\ \A j \in Nat : Cardinality(kSubset(j, s)) = Ways(n, j)
        BY <1>2, FS_Subset, FS_CardinalityType, FS_AddElement
    <2>2. ASSUME NEW j \in Nat
          PROVE  Cardinality(kSubset(j, t)) = Ways(n + 1, j)
        <3>1. CASE j = 0
            <4>1. Cardinality(kSubset(0, t)) = 1
                BY <2>1, SubsetsNone
            <4>2. Ways(n + 1, 0) = 1
                <5>1. n + 1 \in Nat
                    BY <2>1
                <5> HIDE DEF n
                <5> QED
                    BY <5>1, WaysSum
            <4> QED
                BY <3>1, <4>1, <4>2
        <3>2. CASE j # 0
            <4>1. j - 1 \in Nat /\ j - 1 + 1 = j
                BY <3>2
            <4> DEFINE i == j - 1
            <4> HIDE DEF i, n
            <4>2. i \in Nat /\ j = i + 1
                BY <4>1 DEF i
            <4>3. Cardinality(kSubset(i + 1, t)) = Cardinality(kSubset(i + 1, s)) + Cardinality(kSubset(i, s))
                BY <1>2, <2>1, <4>2, SubsetsAdd
            <4>4. Cardinality(kSubset(i + 1, s)) = Ways(n, i + 1) /\ Cardinality(kSubset(i, s)) = Ways(n, i)
                BY <2>1, <4>2
            <4>5. Ways(n + 1, i + 1) = Ways(n, i + 1) + Ways(n, i)
                BY <2>1, <4>2, WaysSum
            <4> QED
                BY <4>2, <4>3, <4>4, <4>5
        <3> QED
            BY <3>1, <3>2
    <2>3. Same(t)
        BY <2>1, <2>2
    <2> HIDE DEF Same
    <2> QED
        BY <1>2, <2>3
<1>3. S \in C
    <2> HIDE DEF C
    <2>1. \A s \in SUBSET S, x \in S : s \in C /\ x \notin s => s \union {x} \in C
        BY <1>2
    <2> QED
        BY <1>1, <2>1, SubsetInduction
<1> QED
    BY <1>3

\* The factors of the loop of binomialCount.
LEMMA WaysTimes ==
    ASSUME NEW n \in Nat, NEW k \in Nat
    PROVE  /\ (k + 1) * Ways(n, k + 1) = (n - k) * Ways(n, k)
           /\ (k + 1) * Ways(n + 1, k + 1) = (n + 1) * Ways(n, k)
<1> DEFINE Next1(m) == \A j \in Nat : (j + 1) * Ways(m, j + 1) = (m - j) * Ways(m, j)
           T == {m \in Nat : Next1(m)}
<1>0. \A m, j \in Nat : Ways(m, j) \in Nat /\ Ways(m, 0) = 1 /\ (j > m => Ways(m, j) = 0)
    BY WaysSum
<1>1. ASSUME NEW m \in Nat, NEW j \in Nat, Next1(m)
      PROVE  (j + 1) * Ways(m + 1, j + 1) = (m + 1) * Ways(m, j)
    <2> DEFINE a == Ways(m, j)
               b == Ways(m, j + 1)
    <2>1. a \in Nat /\ b \in Nat /\ (j + 1) * b = (m - j) * a
        BY <1>0, <1>1
    <2>2. Ways(m + 1, j + 1) = b + a
        BY WaysSum
    <2> HIDE DEF a, b
    <2>3. (j + 1) * (b + a) = (j + 1) * b + (j + 1) * a
        BY <2>1
    <2>4. (m - j) * a + (j + 1) * a = (m + 1) * a
        BY <2>1
    <2> QED
        BY <2>1, <2>2, <2>3, <2>4 DEF a
<1>2. 0 \in T
    <2>1. ASSUME NEW j \in Nat
          PROVE  (j + 1) * Ways(0, j + 1) = (0 - j) * Ways(0, j)
        <3>1. Ways(0, j + 1) = 0 /\ (j > 0 => Ways(0, j) = 0) /\ Ways(0, 0) = 1
            BY <1>0
        <3>2. (j + 1) * Ways(0, j + 1) = 0
            BY <3>1
        <3>3. (0 - j) * Ways(0, j) = 0
            <4>1. CASE j = 0
                BY <3>1, <4>1
            <4>2. CASE j # 0
                BY <3>1, <4>2
            <4> QED
                BY <4>1, <4>2
        <3> QED
            BY <3>2, <3>3
    <2> QED
        BY <2>1
<1>3. ASSUME NEW m \in T
      PROVE  m + 1 \in T
    <2>1. m \in Nat /\ Next1(m)
        BY <1>3
    <2>2. ASSUME NEW j \in Nat
          PROVE  (j + 1) * Ways(m + 1, j + 1) = (m + 1 - j) * Ways(m + 1, j)
        <3>1. (j + 1) * Ways(m + 1, j + 1) = (m + 1) * Ways(m, j)
            <4> HIDE DEF Next1
            <4> QED
                BY <1>1, <2>1
        <3>2. CASE j = 0
            <4>1. Ways(m, 0) = 1 /\ Ways(m + 1, 0) = 1
                BY <1>0, <2>1
            <4> QED
                BY <2>1, <3>1, <3>2, <4>1
        <3>3. CASE j # 0
            <4> DEFINE i == j - 1
                       a == Ways(m, i)
                       b == Ways(m, i + 1)
            <4>1. i \in Nat /\ j = i + 1
                BY <3>3
            <4> HIDE DEF i
            <4>2. a \in Nat /\ b \in Nat /\ (i + 1) * b = (m - i) * a
                BY <1>0, <2>1, <4>1
            <4>3. Ways(m + 1, j) = b + a /\ Ways(m, j) = b
                BY <2>1, <4>1, WaysSum
            <4> HIDE DEF a, b
            <4>4. (m - i) * (b + a) = (m - i) * b + (m - i) * a
                BY <2>1, <4>1, <4>2
            <4>5. (m - i) * b + (i + 1) * b = (m + 1) * b
                BY <2>1, <4>1, <4>2
            <4>6. m + 1 - j = m - i
                BY <2>1, <4>1
            <4> QED
                BY <3>1, <4>2, <4>3, <4>4, <4>5, <4>6
        <3> QED
            BY <3>2, <3>3
    <2> QED
        BY <2>1, <2>2
<1>4. T = Nat
    <2> HIDE DEF T
    <2>1. T \subseteq Nat
        BY DEF T
    <2> QED
        BY <1>2, <1>3, <2>1, SetInduction
<1>5. Next1(n)
    <2> HIDE DEF Next1
    <2>1. n \in T
        BY <1>4
    <2> QED
        BY <2>1
<1> QED
    BY <1>1, <1>5

\* What is chosen leaves out the rest.
LEMMA WaysMirrored ==
    ASSUME NEW n \in Nat, NEW k \in 0..n
    PROVE  Ways(n, n - k) = Ways(n, k)
<1> DEFINE S == 1..n
           A == kSubset(k, S)
           B == kSubset(n - k, S)
           b == [s \in A |-> S \ s]
<1>1. IsFiniteSet(S) /\ Cardinality(S) = n
    BY FS_Interval
<1> HIDE DEF S
<1>2. ASSUME NEW s \in SUBSET S
      PROVE  Cardinality(S \ s) = n - Cardinality(s) /\ S \ (S \ s) = s /\ Cardinality(s) \in Nat
    <2>1. s \subseteq S /\ s \intersect (S \ s) = {} /\ s \union (S \ s) = S
        OBVIOUS
    <2>2. IsFiniteSet(s) /\ IsFiniteSet(S \ s) /\ Cardinality(s) \in Nat /\ Cardinality(S \ s) \in Nat
        BY <1>1, FS_Subset, FS_CardinalityType
    <2> DEFINE t == S \ s
    <2>3. IsFiniteSet(t) /\ s \intersect t = {} /\ s \union t = S /\ Cardinality(t) \in Nat
        BY <2>1, <2>2
    <2> HIDE DEF t
    <2>4. Cardinality(s \union t) = Cardinality(s) + Cardinality(t) - Cardinality(s \intersect t)
        BY <2>2, <2>3, FS_Union
    <2>5. Cardinality(s \intersect t) = 0
        BY <2>3, FS_EmptySet
    <2>6. Cardinality(t) = n - Cardinality(s)
        BY <1>1, <2>2, <2>3, <2>4, <2>5
    <2> QED
        BY <2>1, <2>2, <2>6 DEF t
<1>3. IsFiniteSet(A)
    BY <1>1, SubsetsFinite
<1>4. Names(b, A, B)
    <2>1. \A s \in A : s \in SUBSET S /\ Cardinality(s) = k
        BY DEF kSubset
    <2>2. \A s \in A : S \ s \in B
        BY <1>2, <2>1 DEF kSubset
    <2>3. \A s, t \in A : S \ s = S \ t => s = t
        BY <1>2, <2>1
    <2>4. \A t \in B : S \ t \in A /\ S \ (S \ t) = t
        <3>1. \A t \in B : t \in SUBSET S /\ Cardinality(t) = n - k
            BY DEF kSubset
        <3>2. n - (n - k) = k
            OBVIOUS
        <3> QED
            BY <1>2, <3>1, <3>2 DEF kSubset
    <2> HIDE DEF A, B
    <2> QED
        BY <2>2, <2>3, <2>4 DEF Names
<1>5. Cardinality(B) = Cardinality(A)
    <2> HIDE DEF A, B, b
    <2> QED
        BY <1>3, <1>4, SameCount
<1> QED
    BY <1>5 DEF Ways, S

\* The loop of binomialCount divides without a remainder and counts the subsets.
LEMMA BinomialCounts ==
    ASSUME NEW n \in Nat, NEW k \in Nat
    PROVE  binomialCount(n, k) = Ways(n, k)
<1> DEFINE Round(g) == [i \in 0..n |-> IF i = 0 THEN 1 ELSE (g[i - 1] * (n - i + 1)) \div i]
           result == CHOOSE g : g = Round(g)
           g == [i \in 0..n |-> Ways(n, i)]
<1>1. \A i \in Nat : Ways(n, i) \in Nat
    BY WaysSum
<1>2. ASSUME NEW i \in 1..n
      PROVE  (Ways(n, i - 1) * (n - i + 1)) \div i = Ways(n, i)
    <2> DEFINE j == i - 1
               q == Ways(n, j + 1)
               r == Ways(n, j)
    <2>1. j \in Nat /\ i = j + 1 /\ n - i + 1 = n - j /\ i \in Nat \ {0} /\ n - j \in Nat
        OBVIOUS
    <2> HIDE DEF j
    <2>2. q \in Nat /\ r \in Nat /\ (j + 1) * q = (n - j) * r
        BY <1>1, <2>1, WaysTimes
    <2> HIDE DEF q, r
    <2>3. r * (n - j) = i * q
        <3>1. \A x, y \in Nat : x * y = y * x
            OBVIOUS
        <3> QED
            BY <2>1, <2>2, <3>1
    <2>4. \A x \in Nat, c \in Nat \ {0} : (c * x) \div c = x
        OBVIOUS
    <2>5. (r * (n - j)) \div i = q
        BY <2>1, <2>2, <2>3, <2>4
    <2>6. Ways(n, i - 1) = r /\ Ways(n, i) = q
        BY <2>1 DEF q, r, j
    <2> QED
        BY <2>1, <2>5, <2>6
<1>3. g = Round(g)
    <2>1. Ways(n, 0) = 1
        BY WaysSum
    <2>2. \A i \in 0..n : i # 0 => i \in 1..n /\ i - 1 \in 0..n
        OBVIOUS
    <2>3. \A i \in 0..n : g[i] = IF i = 0 THEN 1 ELSE (g[i - 1] * (n - i + 1)) \div i
        BY <1>2, <2>1, <2>2
    <2>4. g = [i \in 0..n |-> g[i]]
        OBVIOUS
    <2> HIDE DEF g
    <2> QED
        BY <2>3, <2>4
<1>4. result = Round(result)
    <2> HIDE DEF Round, g
    <2> QED
        BY <1>3
<1> HIDE DEF result, g
<1> DEFINE T == {i \in Nat : i <= n => result[i] = Ways(n, i)}
<1>5. T = Nat
    <2>1. 0 \in T
        <3>1. 0 \in 0..n /\ Ways(n, 0) = 1
            BY WaysSum
        <3>2. result[0] = 1
            BY <1>4, <3>1
        <3> QED
            BY <3>1, <3>2
    <2>2. ASSUME NEW i \in T
          PROVE  i + 1 \in T
        <3> SUFFICES ASSUME i + 1 <= n
                     PROVE  result[i + 1] = Ways(n, i + 1)
            BY <2>2
        <3> DEFINE m == i + 1
        <3>1. i \in Nat /\ m \in 1..n /\ m \in 0..n /\ m # 0 /\ m - 1 = i /\ result[i] = Ways(n, i)
            BY <2>2
        <3> HIDE DEF m
        <3>2. result[m] = (result[m - 1] * (n - m + 1)) \div m
            BY <1>4, <3>1
        <3>3. result[m] = Ways(n, m)
            BY <1>2, <3>1, <3>2
        <3> QED
            BY <3>3 DEF m
    <2> HIDE DEF T
    <2>3. T \subseteq Nat
        BY DEF T
    <2> QED
        BY <2>1, <2>2, <2>3, SetInduction
<1>6. CASE k > n
    <2>1. k \notin 0..n
        BY <1>6
    <2> QED
        BY <1>6, <2>1, WaysSum DEF binomialCount
<1>7. CASE k <= n
    <2> DEFINE m == Min({k, n - k})
    <2>1. k \in 0..n /\ n - k \in 0..n
        BY <1>7
    <2>2. m \in 0..n /\ (m = k \/ m = n - k)
        <3>1. \E x \in {k, n - k} : \A y \in {k, n - k} : x <= y
            BY <2>1
        <3>2. m \in {k, n - k}
            BY <3>1 DEF Min
        <3> QED
            BY <2>1, <3>2
    <2> HIDE DEF m
    <2>3. result[m] = Ways(n, m)
        <3>1. m \in T /\ m <= n
            <4> HIDE DEF T
            <4> QED
                BY <1>5, <2>2
        <3> QED
            BY <3>1
    <2>4. Ways(n, m) = Ways(n, k)
        BY <2>1, <2>2, WaysMirrored
    <2>5. binomialCount(n, k) = result[m]
        BY <2>1 DEF binomialCount, result, m
    <2> QED
        BY <2>3, <2>4, <2>5
<1> QED
    BY <1>6, <1>7

-----------------------------------------------------------------------------
(* What a backtest counts.                                                  *)

\* The combinations of a form's numbers F that match m of a draw's.
Matched(size, F, N, m) == {c \in kSubset(size, F) : Cardinality(c \intersect N) = m}

\* The combinations of a form that match m numbers are a choice among the form's
\* numbers that were drawn, with one among those that were not.
LEMMA CombinationsMatching ==
    ASSUME NEW F, IsFiniteSet(F), NEW N, NEW size \in Nat, NEW m \in 0..size,
           NEW I, I = F \intersect N, NEW O, O = F \ N
    PROVE  Cardinality(Matched(size, F, N, m)) = Ways(Cardinality(I), m) * Ways(Cardinality(O), size - m)
<1> DEFINE A == kSubset(m, I)
           B == kSubset(size - m, O)
           C == {c \in kSubset(size, F) : Cardinality(c \intersect N) = m}
           b == [p \in A \X B |-> p[1] \union p[2]]
<1>1. I \subseteq F /\ O \subseteq F /\ I \intersect O = {} /\ I \union O = F
    OBVIOUS
<1>2. IsFiniteSet(I) /\ IsFiniteSet(O)
    BY FS_Subset
<1>3. /\ IsFiniteSet(A) /\ Cardinality(A) = Ways(Cardinality(I), m)
      /\ \A s \in A : s \subseteq I /\ IsFiniteSet(s) /\ Cardinality(s) = m
    <2>1. m \in Nat
        OBVIOUS
    <2> QED
        BY <1>2, <2>1, SubsetsFinite, WaysOfSize
<1>4. /\ IsFiniteSet(B) /\ Cardinality(B) = Ways(Cardinality(O), size - m)
      /\ \A s \in B : s \subseteq O /\ IsFiniteSet(s) /\ Cardinality(s) = size - m
    <2> DEFINE k == size - m
    <2>1. k \in Nat
        OBVIOUS
    <2> HIDE DEF k
    <2>2. /\ IsFiniteSet(kSubset(k, O)) /\ Cardinality(kSubset(k, O)) = Ways(Cardinality(O), k)
          /\ \A s \in kSubset(k, O) : s \subseteq O /\ IsFiniteSet(s) /\ Cardinality(s) = k
        BY <1>2, <2>1, SubsetsFinite, WaysOfSize
    <2> QED
        BY <2>2 DEF k
<1>5. ASSUME NEW s \in SUBSET I, NEW t \in SUBSET O, NEW u, u = s \union t
      PROVE  Cardinality(u) = Cardinality(s) + Cardinality(t) /\ Cardinality(t) \in Nat
    <2>1. s \intersect t = {}
        OBVIOUS
    <2>2. IsFiniteSet(s) /\ IsFiniteSet(t) /\ Cardinality(s) \in Nat /\ Cardinality(t) \in Nat
        BY <1>2, FS_Subset, FS_CardinalityType
    <2>3. Cardinality(s \union t) = Cardinality(s) + Cardinality(t) - Cardinality(s \intersect t)
        BY <2>2, FS_Union
    <2>4. Cardinality(s \intersect t) = 0
        BY <2>1, FS_EmptySet
    <2> QED
        BY <1>5, <2>2, <2>3, <2>4
<1>6. \A s \in A, t \in B : s \union t \in C
    <2> TAKE s \in A, t \in B
    <2>1. s \in SUBSET I /\ t \in SUBSET O /\ Cardinality(s) = m /\ Cardinality(t) = size - m
        BY <1>3, <1>4
    <2> HIDE DEF A, B
    <2> DEFINE u == s \union t
    <2>2. u \subseteq F /\ u \intersect N = s /\ u = s \union t
        BY <2>1
    <2> HIDE DEF u
    <2>3. Cardinality(u) = Cardinality(s) + Cardinality(t)
        BY <1>5, <2>1, <2>2
    <2>4. Cardinality(u) = size
        BY <2>1, <2>3
    <2>5. u \in C
        BY <2>1, <2>2, <2>4 DEF kSubset
    <2> HIDE DEF C
    <2> QED
        BY <2>5 DEF u
<1>7. \A c \in C : c \intersect N \in A /\ c \ N \in B /\ c = (c \intersect N) \union (c \ N)
    <2> TAKE c \in C
    <2> DEFINE s == c \intersect N
               t == c \ N
    <2>1. c \subseteq F /\ Cardinality(c) = size /\ Cardinality(s) = m /\ c = s \union t
        BY DEF kSubset
    <2>2. s \in SUBSET I /\ t \in SUBSET O
        BY <2>1
    <2> HIDE DEF s, t, C
    <2>3. Cardinality(t) = size - m
        <3>1. Cardinality(c) = Cardinality(s) + Cardinality(t) /\ Cardinality(t) \in Nat
            BY <1>5, <2>1, <2>2
        <3> QED
            BY <2>1, <3>1
    <2>4. s \in A /\ t \in B
        BY <2>1, <2>2, <2>3 DEF kSubset
    <2> HIDE DEF A, B
    <2> QED
        BY <2>1, <2>4 DEF s, t
<1>8. \A p \in A \X B : /\ b[p] = p[1] \union p[2] /\ p[1] \in A /\ p[2] \in B
                        /\ b[p] \intersect N = p[1] /\ b[p] \ N = p[2] /\ p = <<p[1], p[2]>>
    <2>1. \A s \in A, t \in B : (s \union t) \intersect N = s /\ (s \union t) \ N = t
        <3>1. \A s \in A, t \in B : s \subseteq F \intersect N /\ t \subseteq F \ N
            BY <1>3, <1>4
        <3> HIDE DEF A, B
        <3> QED
            BY <3>1
    <2> HIDE DEF A, B
    <2> QED
        BY <2>1
<1>9. Names(b, A \X B, C)
    <2>1. b \in [A \X B -> C]
        <3> HIDE DEF A, B, C
        <3> QED
            BY <1>6
    <2>2. \A c \in C : <<c \intersect N, c \ N>> \in A \X B /\ b[<<c \intersect N, c \ N>>] = c
        <3> HIDE DEF A, B, C
        <3> QED
            BY <1>7
    <2> HIDE DEF A, B, C, b
    <2>3. \A p, q \in A \X B : b[p] = b[q] => p = q
        <3>1. \A p \in A \X B : p = <<b[p] \intersect N, b[p] \ N>>
            BY <1>8
        <3> QED
            BY <3>1, Zenon
    <2> QED
        BY <2>1, <2>2, <2>3 DEF Names
<1>10. IsFiniteSet(A \X B) /\ Cardinality(A \X B) = Cardinality(A) * Cardinality(B)
    BY <1>3, <1>4, FS_Product
<1>11. Cardinality(C) = Cardinality(A \X B)
    <2> DEFINE P == A \X B
    <2>1. IsFiniteSet(P) /\ Names(b, P, C)
        BY <1>9, <1>10
    <2> HIDE DEF P, C, b
    <2>2. Cardinality(C) = Cardinality(P)
        BY <2>1, SameCount
    <2> QED
        BY <2>2 DEF P
<1> HIDE DEF C
<1>12. Cardinality(C) = Ways(Cardinality(I), m) * Ways(Cardinality(O), size - m)
    BY <1>3, <1>4, <1>10, <1>11
<1> QED
    BY <1>12 DEF C, Matched

\* A number is ranked behind those that are less.
Ranks(rank, S) ==
    S \subseteq Int /\ \A x \in S : rank[x] = 1 + Cardinality({y \in S : y < x})

\* Each place is one number's.
Numbered(rank, S) ==
    /\ Cardinality(S) \in Nat
    /\ \A x \in S : rank[x] \in 1..Cardinality(S)
    /\ \A x, y \in S : rank[x] = rank[y] => x = y
    /\ \A k \in 1..Cardinality(S) : \E x \in S : rank[x] = k

\* The numbers of a finite set are ranked from one on.
LEMMA NumbersRanked ==
    ASSUME NEW S, IsFiniteSet(S), NEW rank, Ranks(rank, S)
    PROVE  Numbered(rank, S)
<1> DEFINE n == Cardinality(S)
           Less(x) == {y \in S : y < x}
           f == [x \in S |-> rank[x]]
<1>0. /\ n \in Nat /\ S \subseteq Int
      /\ \A x \in S : rank[x] = 1 + Cardinality({y \in S : y < x})
    BY FS_CardinalityType DEF Ranks
<1>1. ASSUME NEW x \in S
      PROVE  Cardinality(Less(x)) \in Nat /\ Cardinality(Less(x)) < n /\ rank[x] = 1 + Cardinality(Less(x))
    <2>1. Less(x) \in SUBSET S /\ x \notin Less(x)
        BY <1>0
    <2>2. Less(x) # S
        BY <2>1
    <2>3. rank[x] = 1 + Cardinality(Less(x))
        BY <1>0
    <2> HIDE DEF Less
    <2>4. Cardinality(Less(x)) \in Nat /\ Cardinality(Less(x)) <= n /\ n # Cardinality(Less(x))
        BY <2>1, <2>2, FS_Subset, FS_CardinalityType
    <2> QED
        BY <1>0, <2>3, <2>4
<1>2. ASSUME NEW x \in S, NEW y \in S, x < y
      PROVE  Cardinality(Less(x)) < Cardinality(Less(y))
    <2>1. Less(x) \in SUBSET Less(y) /\ x \in Less(y) /\ x \notin Less(x) /\ Less(y) \in SUBSET S
        <3>1. \A z \in S : z < x => z < y
            BY <1>0, <1>2
        <3>2. \A z \in Less(x) : z \in S /\ z < x
            OBVIOUS
        <3>3. \A z \in S : z < y => z \in Less(y)
            OBVIOUS
        <3>4. x \in Less(y) /\ x \notin Less(x) /\ Less(y) \in SUBSET S
            BY <1>0, <1>2
        <3> HIDE DEF Less
        <3> QED
            BY <3>1, <3>2, <3>3, <3>4
    <2>2. Less(x) # Less(y)
        BY <2>1
    <2> HIDE DEF Less
    <2>3. IsFiniteSet(Less(y))
        BY <2>1, FS_Subset
    <2>4. Cardinality(Less(x)) <= Cardinality(Less(y)) /\ Cardinality(Less(y)) # Cardinality(Less(x))
        BY <2>1, <2>2, <2>3, FS_Subset
    <2> QED
        BY <1>1, <2>4
<1>3. \A x, y \in S : rank[x] = rank[y] => x = y
    <2> SUFFICES ASSUME NEW x \in S, NEW y \in S, rank[x] = rank[y], x # y
                 PROVE  FALSE
        OBVIOUS
    <2>1. x < y \/ y < x
        BY <1>0
    <2> HIDE DEF Less
    <2>2. Cardinality(Less(x)) < Cardinality(Less(y)) \/ Cardinality(Less(y)) < Cardinality(Less(x))
        BY <1>2, <2>1
    <2> QED
        BY <1>1, <2>2
<1>4. \A x \in S : rank[x] \in 1..n
    <2> HIDE DEF n, Less
    <2> QED
        BY <1>0, <1>1
<1>5. f \in Surjection(S, 1..n)
    <2>1. f \in [S -> 1..n] /\ \A x \in S : f[x] = rank[x]
        BY <1>4
    <2>2. IsFiniteSet(1..n) /\ Cardinality(1..n) = n
        BY <1>0, FS_Interval
    <2> DEFINE T == 1..n
    <2>3. IsFiniteSet(T) /\ Cardinality(S) = Cardinality(T)
        BY <2>2
    <2> HIDE DEF f, T
    <2>4. f \in Injection(S, T)
        BY <1>3, <2>1 DEF Injection, IsInjective, T
    <2>5. f \in Surjection(S, T)
        BY <2>3, <2>4, FS_Injection
    <2> QED
        BY <2>5 DEF T
<1>6. \A k \in 1..n : \E x \in S : rank[x] = k
    <2>1. \A k \in 1..n : \E x \in S : f[x] = k
        BY <1>5 DEF Surjection
    <2> QED
        BY <2>1
<1> QED
    BY <1>0, <1>3, <1>4, <1>6 DEF Numbered

\* A list has finitely many elements.
LEMMA ToSetFinite ==
    ASSUME NEW X, NEW s \in Seq(X)
    PROVE  IsFiniteSet(ToSet(s))
<1> DEFINE n == Len(s)
           b == [k \in 1..n |-> s[k]]
<1>1. n \in Nat /\ ToSet(s) = {s[k] : k \in 1..n}
    BY DEF ToSet
<1>2. IsFiniteSet(1..n)
    BY <1>1, FS_Interval
<1>3. b \in Surjection(1..n, ToSet(s))
    BY <1>1 DEF Surjection
<1> QED
    BY <1>2, <1>3, FS_Surjection

\* The numbers a backtest plays: of those that are positive, the least ones, and
\* no more than a systematic form has.
FormPlayed(form) ==
    LET sent == {n \in ToSet(form) : n > 0}
    IN  {n \in sent : Cardinality({j \in sent : j < n}) < MaxFormSize}

\* generateCombinations makes of a form all the combinations of those, once each.
LEMMA CombinationsPlayed ==
    ASSUME NEW form \in Seq(Int)
    PROVE  /\ generateCombinations(dedupAndSort(Counted(form))) = kSubset(DrawSize, FormPlayed(form))
           /\ IsFiniteSet(FormPlayed(form))
<1> DEFINE S == {n \in ToSet(form) : n > 0}
           counted == Counted(form)
           Less(x) == {j \in S : j < x}
           rank == [x \in S |-> 1 + Cardinality(Less(x))]
           n == Cardinality(S)
           sorted == dedupAndSort(counted)
           m == Min({MaxFormSize, Len(sorted)})
           F == {x \in S : Cardinality(Less(x)) < MaxFormSize}
<1>1. ToSet(counted) = S
    <2>1. counted = Passing(form, S)
        BY DEF Counted
    <2>2. ToSet(form) \intersect S = S
        OBVIOUS
    <2> HIDE DEF S
    <2> QED
        BY <2>1, <2>2, PassingKept
<1>2. S \subseteq Int /\ IsFiniteSet(S)
    <2>1. ToSet(form) \subseteq Int
        BY DEF ToSet
    <2>2. IsFiniteSet(ToSet(form))
        BY ToSetFinite
    <2>3. S \in SUBSET ToSet(form)
        OBVIOUS
    <2> HIDE DEF S
    <2> QED
        BY <2>1, <2>2, <2>3, FS_Subset
<1> HIDE DEF counted, S
<1>3. /\ n \in Nat
      /\ \A x \in S : rank[x] \in 1..n /\ rank[x] = 1 + Cardinality(Less(x))
      /\ \A x, y \in S : rank[x] = rank[y] => x = y
      /\ \A k \in 1..n : \E x \in S : rank[x] = k
    <2>1. Ranks(rank, S)
        BY <1>2 DEF Ranks
    <2>2. \A x \in S : rank[x] = 1 + Cardinality(Less(x))
        OBVIOUS
    <2> HIDE DEF rank, Less
    <2>3. Numbered(rank, S)
        BY <1>2, <2>1, NumbersRanked
    <2> QED
        BY <2>2, <2>3 DEF Numbered
<1>4. sorted = [k \in 1..n |-> CHOOSE x \in S : 1 + Cardinality(Less(x)) = k]
    BY <1>1 DEF dedupAndSort
<1>5. \A k \in 1..n : sorted[k] \in S /\ rank[sorted[k]] = k
    <2> TAKE k \in 1..n
    <2>1. \E x \in S : 1 + Cardinality(Less(x)) = k
        BY <1>3
    <2> HIDE DEF rank, Less
    <2>2. sorted[k] = CHOOSE x \in S : 1 + Cardinality(Less(x)) = k
        <3> HIDE DEF sorted, n
        <3> QED
            BY <1>4
    <2>3. sorted[k] \in S /\ 1 + Cardinality(Less(sorted[k])) = k
        BY <2>1, <2>2
    <2> HIDE DEF sorted
    <2> QED
        BY <1>3, <2>3
<1>6. sorted \in Seq(S) /\ Len(sorted) = n /\ DOMAIN sorted = 1..n
    <2>1. sorted \in [1..n -> S]
        <3>1. DOMAIN sorted = 1..n /\ sorted = [k \in 1..n |-> sorted[k]]
            BY <1>4, Zenon
        <3> HIDE DEF sorted, n
        <3> QED
            BY <1>5, <3>1
    <2> HIDE DEF sorted, n
    <2> QED
        BY <1>3, <2>1
<1> HIDE DEF sorted, n
<1>7. m \in Nat /\ m <= n /\ m <= MaxFormSize /\ (m = n \/ m = MaxFormSize)
    <2>1. MaxFormSize \in Nat
        BY SimulateSizesAssumption
    <2>2. \E x \in {MaxFormSize, n} : \A y \in {MaxFormSize, n} : x <= y
        BY <1>3, <2>1
    <2>3. m = CHOOSE x \in {MaxFormSize, n} : \A y \in {MaxFormSize, n} : x <= y
        BY <1>6 DEF Min
    <2>4. m \in {MaxFormSize, n} /\ \A y \in {MaxFormSize, n} : m <= y
        <3> HIDE DEF m
        <3> QED
            BY <2>2, <2>3
    <2> HIDE DEF m
    <2> QED
        BY <1>3, <2>1, <2>4
<1> HIDE DEF m
<1> DEFINE first == SubSeq(sorted, 1, m)
<1>8. DOMAIN first = 1..m /\ \A k \in 1..m : first[k] = sorted[k]
    BY <1>3, <1>6, <1>7
<1>9. ToSet(first) = F
    <2> HIDE DEF first, rank
    <2>1. ASSUME NEW k \in 1..m
          PROVE  first[k] \in F
        <3>1. k \in 1..n /\ k <= MaxFormSize /\ k \in Nat /\ MaxFormSize \in Nat
            BY <1>3, <1>7, SimulateSizesAssumption
        <3> DEFINE x == sorted[k]
        <3>2. x \in S /\ rank[x] = k /\ rank[x] = 1 + Cardinality(Less(x)) /\ IsFiniteSet(Less(x))
            <4>1. Less(x) \in SUBSET S
                OBVIOUS
            <4> QED
                BY <1>2, <1>3, <1>5, <3>1, <4>1, FS_Subset
        <3> HIDE DEF x, Less
        <3>3. Cardinality(Less(x)) \in Nat
            BY <3>2, FS_CardinalityType
        <3>4. Cardinality(Less(x)) < MaxFormSize
            BY <3>1, <3>2, <3>3
        <3>5. x \in F
            BY <3>2, <3>4
        <3> QED
            BY <1>8, <3>5 DEF x
    <2>2. ASSUME NEW x \in F
          PROVE  \E k \in 1..m : first[k] = x
        <3>1. x \in S /\ Cardinality(Less(x)) < MaxFormSize /\ IsFiniteSet(Less(x))
            <4>1. Less(x) \in SUBSET S
                OBVIOUS
            <4> QED
                BY <1>2, <4>1, FS_Subset
        <3> DEFINE k == rank[x]
        <3>2. k \in 1..n /\ k = 1 + Cardinality(Less(x)) /\ Cardinality(Less(x)) \in Nat /\ MaxFormSize \in Nat
            BY <1>3, <3>1, FS_CardinalityType, SimulateSizesAssumption
        <3> HIDE DEF k, Less
        <3>3. k \in 1..m
            BY <1>3, <1>7, <3>1, <3>2
        <3>4. sorted[k] = x
            BY <1>3, <1>5, <3>1, <3>2 DEF k
        <3> QED
            BY <1>8, <3>3, <3>4
    <2> HIDE DEF F
    <2> QED
        BY <1>8, <2>1, <2>2 DEF ToSet
<1>10. F = FormPlayed(form)
    BY DEF FormPlayed, S
<1>11. IsFiniteSet(F)
    <2>1. F \in SUBSET S
        OBVIOUS
    <2> HIDE DEF F
    <2> QED
        BY <1>2, <2>1, FS_Subset
<1>12. generateCombinations(sorted) = kSubset(DrawSize, F)
    BY <1>9 DEF generateCombinations, m
<1> QED
    BY <1>10, <1>11, <1>12 DEF sorted, counted

\* What counting finds in a tier: for a form's numbers F and a draw's N.
Matching(F, N, m) ==
    binomialCount(Cardinality(F \intersect N), m) * binomialCount(Cardinality(F \ N), DrawSize - m)

\* The combinations in a tier are those that counting finds, if the strong number
\* matches, or does not, as the tier asks.
LEMMA TierCounted ==
    ASSUME NEW F, IsFiniteSet(F), NEW N, NEW matched \in BOOLEAN, NEW m \in DrawSize - 3..DrawSize
    PROVE  LET hits(t) == Cardinality({c \in kSubset(DrawSize, F) :
                                         matchToTier(Cardinality(c \intersect N), matched) = t})
           IN  /\ hits(2 * (DrawSize - m) + 1) = IF matched THEN Matching(F, N, m) ELSE 0
               /\ hits(2 * (DrawSize - m) + 2) = IF matched THEN 0 ELSE Matching(F, N, m)
<1> DEFINE K == kSubset(DrawSize, F)
           matches(c) == Cardinality(c \intersect N)
           C == {c \in K : matches(c) = m}
           In(t) == {c \in K : matchToTier(matches(c), matched) = t}
<1>0. DrawSize \in Nat /\ m \in Int
    BY SimulateSizesAssumption
<1>1. \A c \in K : matches(c) \in 0..DrawSize
    <2> TAKE c \in K
    <2>1. c \in SUBSET F /\ IsFiniteSet(c) /\ Cardinality(c) = DrawSize /\ c \intersect N \in SUBSET c
        BY SubsetsFinite
    <2> QED
        BY <1>0, <2>1, FS_Subset, FS_CardinalityType
<1>2. \A x \in 0..DrawSize :
          /\ matchToTier(x, matched) = 2 * (DrawSize - m) + 1 <=> x = m /\ matched
          /\ matchToTier(x, matched) = 2 * (DrawSize - m) + 2 <=> x = m /\ ~matched
    <2> SUFFICES ASSUME NEW x \in 0..DrawSize
                 PROVE  /\ matchToTier(x, matched) = 2 * (DrawSize - m) + 1 <=> x = m /\ matched
                        /\ matchToTier(x, matched) = 2 * (DrawSize - m) + 2 <=> x = m /\ ~matched
        OBVIOUS
    <2>1. CASE matched
        BY <1>0, <2>1 DEF matchToTier
    <2>2. CASE ~matched
        BY <1>0, <2>2 DEF matchToTier
    <2> QED
        BY <2>1, <2>2
<1> HIDE DEF K, matches
<1>3. /\ In(2 * (DrawSize - m) + 1) = IF matched THEN C ELSE {}
      /\ In(2 * (DrawSize - m) + 2) = IF matched THEN {} ELSE C
    BY <1>1, <1>2
<1>4. Cardinality(C) = Matching(F, N, m)
    <2>1. Cardinality(F \intersect N) \in Nat /\ IsFiniteSet(F \ N) /\ Cardinality(F \ N) \in Nat
        BY FS_Subset, FS_CardinalityType
    <2>2. DrawSize - m \in Nat
        BY <1>0
    <2>3. binomialCount(Cardinality(F \ N), DrawSize - m) = Ways(Cardinality(F \ N), DrawSize - m)
          /\ Ways(Cardinality(F \ N), DrawSize - m) \in Nat
        BY <2>1, <2>2, BinomialCounts, WaysSum
    <2>4. CASE m < 0
        <3>1. C = {}
            BY <1>1, <2>4
        <3>2. binomialCount(Cardinality(F \intersect N), m) = 0
            <4>1. m \notin 0..Cardinality(F \intersect N)
                BY <2>1, <2>4
            <4> QED
                BY <4>1 DEF binomialCount
        <3>3. Matching(F, N, m) = 0
            BY <2>3, <3>2 DEF Matching
        <3> QED
            BY <3>1, <3>3, FS_EmptySet
    <2>5. CASE m >= 0
        <3>1. m \in Nat /\ m \in 0..DrawSize
            BY <1>0, <2>5
        <3>2. binomialCount(Cardinality(F \intersect N), m) = Ways(Cardinality(F \intersect N), m)
            BY <2>1, <3>1, BinomialCounts
        <3>3. Cardinality(Matched(DrawSize, F, N, m))
                = Ways(Cardinality(F \intersect N), m) * Ways(Cardinality(F \ N), DrawSize - m)
            <4> DEFINE I == F \intersect N
                       O == F \ N
            <4>1. I = F \intersect N /\ O = F \ N
                OBVIOUS
            <4> HIDE DEF I, O
            <4>2. Cardinality(Matched(DrawSize, F, N, m)) = Ways(Cardinality(I), m) * Ways(Cardinality(O), DrawSize - m)
                BY <1>0, <3>1, <4>1, CombinationsMatching
            <4> QED
                BY <4>2 DEF I, O
        <3> QED
            BY <2>3, <3>2, <3>3 DEF Matching, Matched, K, matches
    <2> QED
        BY <1>0, <2>4, <2>5
<1>5. /\ Cardinality(In(2 * (DrawSize - m) + 1)) = IF matched THEN Matching(F, N, m) ELSE 0
      /\ Cardinality(In(2 * (DrawSize - m) + 2)) = IF matched THEN 0 ELSE Matching(F, N, m)
    <2> HIDE DEF In, C
    <2> QED
        BY <1>3, <1>4, FS_EmptySet
<1> QED
    BY <1>5 DEF K, matches

\* What a form wins in a list of draws, draw by draw.
Hits(d, form, strong) ==
    LET matched == strong > 0 /\ strong = d.strong
    IN  [t \in Tiers |-> Cardinality({c \in kSubset(DrawSize, FormPlayed(form)) :
                             matchToTier(Cardinality(c \intersect ToSet(d.numbers)), matched) = t})]
Result(d, form, strong, overrides) ==
    [draw |-> d, hits |-> Hits(d, form, strong),
     won |-> SumFunction([t \in Tiers |-> Hits(d, form, strong)[t] * drawPrizes(d, overrides)[t]])]
Results(draws, form, strong, overrides) ==
    [k \in DOMAIN draws |-> Result(draws[k], form, strong, overrides)]

\* What a backtest plays of an archive.
Plays(archived, window) == IF window = None THEN archived ELSE filterDrawsByWindow(archived, window)

\* simulateDraw plays each of the combinations of the form against the draw.
LEMMA DrawSimulated ==
    ASSUME NEW d, NEW form \in Seq(Int), NEW strong, NEW overrides
    PROVE  simulateDraw(d, generateCombinations(dedupAndSort(Counted(form))), strong, overrides)
             = Result(d, form, strong, overrides)
<1>1. generateCombinations(dedupAndSort(Counted(form))) = kSubset(DrawSize, FormPlayed(form))
    BY CombinationsPlayed
<1>2. simulateDraw(d, kSubset(DrawSize, FormPlayed(form)), strong, overrides) = Result(d, form, strong, overrides)
    BY Zenon DEF simulateDraw, Result, Hits
<1> QED
    BY <1>1, <1>2

\* The parts of a backtest's summary b.
Summarises(b, draws, results, overrides) ==
    /\ b.played = Len(draws)
    /\ b.draws = Passing(results, {r \in ToSet(results) : r.won > 0})
    /\ b.won = SumFunction([k \in DOMAIN draws |-> results[k].won])
    /\ b.tierHits = [t \in Tiers |-> SumFunction([k \in DOMAIN draws |-> results[k].hits[t]])]
    /\ b.tierTotal = [t \in Tiers |-> SumFunction([k \in DOMAIN draws |->
           results[k].hits[t] * drawPrizes(results[k].draw, overrides)[t]])]

\* So Backtest summarises the results of the draws it plays.
LEMMA BacktestParts ==
    ASSUME NEW archived, NEW window, NEW form \in Seq(Int), NEW strong, NEW overrides, NEW cost
    PROVE  Summarises(Backtest(archived, window, form, strong, overrides, cost), Plays(archived, window),
                      Results(Plays(archived, window), form, strong, overrides), overrides)
<1> DEFINE draws == Plays(archived, window)
           combinations == generateCombinations(dedupAndSort(Counted(form)))
           results == Results(draws, form, strong, overrides)
           c == IF cost <= 0 THEN DefaultCost ELSE cost
<1>1. [k \in DOMAIN draws |-> simulateDraw(draws[k], combinations, strong, overrides)] = results
    <2>1. \A k \in DOMAIN draws : simulateDraw(draws[k], combinations, strong, overrides)
                                    = Result(draws[k], form, strong, overrides)
        BY DrawSimulated
    <2> HIDE DEF draws, combinations
    <2> QED
        BY <2>1 DEF Results
<1>2. Backtest(archived, window, form, strong, overrides, cost)
        = Summary([k \in DOMAIN draws |-> simulateDraw(draws[k], combinations, strong, overrides)],
                  draws, Cardinality(combinations), c, overrides)
    BY Zenon DEF Backtest, Plays
<1>3. DOMAIN results = DOMAIN draws
    BY DEF Results
<1> HIDE DEF draws, combinations, results
<1>4. Backtest(archived, window, form, strong, overrides, cost)
        = Summary(results, draws, Cardinality(combinations), c, overrides)
    BY <1>1, <1>2, Zenon
<1> HIDE DEF c
<1>5. ASSUME NEW n
      PROVE  Summarises(Summary(results, draws, n, c, overrides), draws, results, overrides)
    BY <1>3 DEF Summary, Summarises
<1> QED
    BY <1>4, <1>5 DEF draws, results

\* The draws that won nothing add nothing.
LEMMA WinningSummed ==
    ASSUME NEW X, NEW s \in Seq(X), Distinct(s), \A r \in X : r.won \in Nat
    PROVE  LET kept == Passing(s, {r \in ToSet(s) : r.won > 0})
           IN  SumFunction([k \in DOMAIN s |-> s[k].won]) = SumFunction([k \in DOMAIN kept |-> kept[k].won])
<1> DEFINE T == {r \in ToSet(s) : r.won > 0}
           kept == Passing(s, T)
           h == [r \in X |-> r.won]
<1>1. ToSet(s) \intersect T = T /\ T \subseteq ToSet(s) /\ ToSet(s) \subseteq X
    BY DEF ToSet
<1>2. \A r \in X : h[r] \in Int /\ h[r] = r.won
    OBVIOUS
<1>3. \A r \in ToSet(s) : h[r] \in Int /\ (r \notin T => h[r] = 0)
    BY <1>1
<1> HIDE DEF T, h
<1>4. kept \in Seq(X) /\ Distinct(kept) /\ ToSet(kept) = T
    BY <1>1, PassingKept
<1> HIDE DEF kept
<1>5. /\ IsFiniteSet(ToSet(s))
      /\ SumFunction([k \in DOMAIN s |-> h[s[k]]]) = SumFunctionOnSet(h, ToSet(s))
    BY <1>3, SumListed
<1>6. SumFunction([k \in DOMAIN kept |-> h[kept[k]]]) = SumFunctionOnSet(h, T)
    <2>1. \A r \in ToSet(kept) : h[r] \in Int
        BY <1>1, <1>3, <1>4
    <2>2. SumFunction([k \in DOMAIN kept |-> h[kept[k]]]) = SumFunctionOnSet(h, ToSet(kept))
        BY <1>4, <2>1, SumListed
    <2> QED
        BY <1>4, <2>2
<1>7. SumFunctionOnSet(h, ToSet(s)) = SumFunctionOnSet(h, T)
    <2> DEFINE S == ToSet(s)
    <2>1. IsFiniteSet(S) /\ T \in SUBSET S /\ \A r \in S : h[r] \in Int /\ (r \notin T => h[r] = 0)
        BY <1>1, <1>3, <1>5
    <2> HIDE DEF S
    <2>2. SumFunctionOnSet(h, S) = SumFunctionOnSet(h, T)
        BY <2>1, SumWithin
    <2> QED
        BY <2>2 DEF S
<1>8. [k \in DOMAIN s |-> s[k].won] = [k \in DOMAIN s |-> h[s[k]]]
    <2>1. \A k \in DOMAIN s : s[k] \in X
        OBVIOUS
    <2> QED
        BY <1>2, <2>1
<1>9. [k \in DOMAIN kept |-> kept[k].won] = [k \in DOMAIN kept |-> h[kept[k]]]
    <2>1. \A k \in DOMAIN kept : kept[k] \in X
        BY <1>4
    <2> QED
        BY <1>2, <2>1
<1>10. SumFunction([k \in DOMAIN s |-> s[k].won]) = SumFunction([k \in DOMAIN kept |-> kept[k].won])
    BY <1>5, <1>6, <1>7, <1>8, <1>9
<1> QED
    BY <1>10 DEF kept, T

\* There are eight tiers.
LEMMA TiersFinite == IsFiniteSet(Tiers)
<1>1. 1 \in Int /\ 8 \in Int
    OBVIOUS
<1>2. IsFiniteSet(1..8)
    BY <1>1, FS_Interval
<1> QED
    BY <1>2 DEF Tiers

\* What is played of a table, and for what prizes.
Playable(draws, overrides) ==
    /\ \E X : draws \in Seq(X)
    /\ Distinct(draws)
    /\ \A k \in DOMAIN draws : draws[k].prizes = None \/ draws[k].prizes \in [Tiers -> Nat]
    /\ overrides = None \/ overrides \in [Tiers -> Int]

\* The results of a backtest count and pay with natural numbers.
LEMMA ResultsType ==
    ASSUME NEW draws, NEW overrides, Playable(draws, overrides), NEW form \in Seq(Int), NEW strong,
           NEW k \in DOMAIN draws
    PROVE  /\ Hits(draws[k], form, strong) \in [Tiers -> Nat]
           /\ drawPrizes(draws[k], overrides) \in [Tiers -> Nat]
           /\ Result(draws[k], form, strong, overrides).won \in Nat
<1> DEFINE d == draws[k]
           hits == Hits(d, form, strong)
           prizes == drawPrizes(d, overrides)
<1>1. hits \in [Tiers -> Nat]
    <2> DEFINE K == kSubset(DrawSize, FormPlayed(form))
               matched == strong > 0 /\ strong = d.strong
               In(t) == {c \in K : matchToTier(Cardinality(c \intersect ToSet(d.numbers)), matched) = t}
    <2>1. IsFiniteSet(K)
        BY CombinationsPlayed, SubsetsFinite
    <2>2. \A t \in Tiers : Cardinality(In(t)) \in Nat
        <3>1. \A t \in Tiers : In(t) \in SUBSET K
            OBVIOUS
        <3> HIDE DEF In, K
        <3> QED
            BY <2>1, <3>1, FS_Subset, FS_CardinalityType
    <2>3. hits = [t \in Tiers |-> Cardinality(In(t))]
        BY DEF Hits
    <2> HIDE DEF In, K, hits
    <2> QED
        BY <2>2, <2>3
<1>2. prizes \in [Tiers -> Nat]
    <2>1. /\ d.prizes = None \/ d.prizes \in [Tiers -> Nat]
          /\ overrides = None \/ overrides \in [Tiers -> Int]
          /\ DefaultPrizes \in [Tiers -> Nat]
        BY PrizesAssumption DEF Playable
    <2> HIDE DEF d
    <2>2. prizes = [t \in Tiers |-> prizes[t]]
        BY DEF drawPrizes
    <2>3. \A t \in Tiers : prizes[t] \in Nat
        <3> TAKE t \in Tiers
        <3>1. prizes[t] = IF overrides # None /\ overrides[t] >= 0 THEN overrides[t]
                          ELSE IF d.prizes # None THEN d.prizes[t] ELSE DefaultPrizes[t]
            BY DEF drawPrizes
        <3>2. /\ d.prizes # None => d.prizes[t] \in Nat
              /\ overrides # None => overrides[t] \in Int
              /\ DefaultPrizes[t] \in Nat
            BY <2>1
        <3> HIDE DEF prizes
        <3> QED
            BY <3>1, <3>2
    <2> HIDE DEF prizes
    <2> QED
        BY <2>2, <2>3
<1>3. Result(d, form, strong, overrides).won \in Nat
    <2> DEFINE h == [t \in Tiers |-> hits[t] * prizes[t]]
    <2>1. \A t \in Tiers : h[t] \in Nat
        <3> HIDE DEF hits, prizes
        <3>1. \A x, y \in Nat : x * y \in Nat
            OBVIOUS
        <3> QED
            BY <1>1, <1>2, <3>1
    <2>2. IsFiniteSet(Tiers)
        BY TiersFinite
    <2>3. Result(d, form, strong, overrides).won = SumFunction(h)
        BY DEF Result
    <2>4. DOMAIN h = Tiers
        OBVIOUS
    <2> HIDE DEF h
    <2>5. SumFunction(h) = SumFunctionOnSet(h, Tiers)
        BY <2>4 DEF SumFunction
    <2> QED
        BY <2>1, <2>2, <2>3, <2>5, SumNatural
<1> QED
    BY <1>1, <1>2, <1>3

\* What draws and tiers won is the total.
LEMMA TotalsAgree ==
    ASSUME NEW archived, NEW window, NEW form \in Seq(Int), NEW strong, NEW overrides, NEW cost,
           Playable(Plays(archived, window), overrides)
    PROVE  LET b == Backtest(archived, window, form, strong, overrides, cost)
           IN  /\ b.won = SumFunction(b.tierTotal)
               /\ b.won = SumFunction([k \in DOMAIN b.draws |-> b.draws[k].won])
<1> DEFINE b == Backtest(archived, window, form, strong, overrides, cost)
           draws == Plays(archived, window)
           results == Results(draws, form, strong, overrides)
           S == DOMAIN draws
<1>1. /\ b.draws = Passing(results, {r \in ToSet(results) : r.won > 0})
      /\ b.won = SumFunction([k \in S |-> results[k].won])
      /\ b.tierTotal = [t \in Tiers |-> SumFunction([k \in S |->
             results[k].hits[t] * drawPrizes(results[k].draw, overrides)[t]])]
    <2>1. Summarises(b, draws, results, overrides)
        <3> HIDE DEF Summarises
        <3> QED
            BY BacktestParts
    <2> HIDE DEF b, draws, results
    <2> QED
        BY <2>1 DEF Summarises
<1>2. Playable(draws, overrides)
    OBVIOUS
<1> HIDE DEF b, draws
<1>3. IsFiniteSet(S) /\ S = 1..Len(draws) /\ Len(draws) \in Nat
    <2>1. PICK X : draws \in Seq(X)
        BY <1>2 DEF Playable
    <2>2. Len(draws) \in Nat /\ S = 1..Len(draws)
        BY <2>1
    <2> QED
        BY <2>2, FS_Interval
<1>4. \A k \in S : /\ results[k] = Result(draws[k], form, strong, overrides)
                   /\ results[k].draw = draws[k] /\ results[k].hits = Hits(draws[k], form, strong)
                   /\ results[k].hits \in [Tiers -> Nat] /\ results[k].won \in Nat
                   /\ drawPrizes(results[k].draw, overrides) \in [Tiers -> Nat]
                   /\ results[k].won = SumFunction([t \in Tiers |->
                          results[k].hits[t] * drawPrizes(results[k].draw, overrides)[t]])
    <2> TAKE k \in S
    <2>1. results[k] = Result(draws[k], form, strong, overrides)
        BY DEF Results
    <2>2. /\ results[k].draw = draws[k] /\ results[k].hits = Hits(draws[k], form, strong)
          /\ results[k].won = SumFunction([t \in Tiers |->
                 Hits(draws[k], form, strong)[t] * drawPrizes(draws[k], overrides)[t]])
        BY <2>1 DEF Result
    <2>3. /\ Hits(draws[k], form, strong) \in [Tiers -> Nat]
          /\ drawPrizes(draws[k], overrides) \in [Tiers -> Nat]
          /\ Result(draws[k], form, strong, overrides).won \in Nat
        BY <1>2, ResultsType
    <2> HIDE DEF results
    <2> QED
        BY <2>1, <2>2, <2>3
<1>5. DOMAIN results = S
    BY DEF Results
<1> HIDE DEF results, S
<1> DEFINE a == [k \in S |-> [t \in Tiers |-> results[k].hits[t] * drawPrizes(results[k].draw, overrides)[t]]]
           rows == [k \in S |-> results[k].won]
           columns == b.tierTotal
<1>6. b.won = SumFunction(columns)
    <2>1. a \in [S -> [Tiers -> Int]]
        <3>1. \A x, y \in Nat : x * y \in Int
            OBVIOUS
        <3> QED
            BY <1>4, <3>1
    <2>2. IsFiniteSet(Tiers)
        BY TiersFinite
    <2>3. \A k \in S : rows[k] = SumFunctionOnSet(a[k], Tiers)
        <3> TAKE k \in S
        <3>1. rows[k] = SumFunction(a[k]) /\ DOMAIN a[k] = Tiers
            BY <1>4
        <3> HIDE DEF a, rows
        <3> QED
            BY <3>1 DEF SumFunction
    <2>4. \A t \in Tiers : columns[t] = SumFunctionOnSet([k \in S |-> a[k][t]], S)
        <3> TAKE t \in Tiers
        <3> DEFINE f == [k \in S |-> a[k][t]]
        <3>1. f = [k \in S |-> results[k].hits[t] * drawPrizes(results[k].draw, overrides)[t]]
            OBVIOUS
        <3>2. columns[t] = SumFunction([k \in S |-> results[k].hits[t] * drawPrizes(results[k].draw, overrides)[t]])
            BY <1>1
        <3>3. DOMAIN f = S
            OBVIOUS
        <3> HIDE DEF f, a, columns
        <3>4. columns[t] = SumFunctionOnSet(f, S)
            BY <3>1, <3>2, <3>3 DEF SumFunction
        <3> QED
            BY <3>4 DEF f
    <2>5. SumFunction(rows) = b.won /\ SumFunction(rows) = SumFunctionOnSet(rows, S)
        BY <1>1 DEF SumFunction
    <2>6. SumFunction(columns) = SumFunctionOnSet(columns, Tiers)
        <3>1. DOMAIN columns = Tiers
            BY <1>1
        <3> HIDE DEF columns
        <3> QED
            BY <3>1 DEF SumFunction
    <2> HIDE DEF a, rows, columns
    <2>7. SumFunctionOnSet(rows, S) = SumFunctionOnSet(columns, Tiers)
        <3> DEFINE T == Tiers
        <3>1. /\ IsFiniteSet(S) /\ IsFiniteSet(T) /\ a \in [S -> [T -> Int]]
              /\ SumsOfRows(rows, a, S, T) /\ SumsOfColumns(columns, a, S, T)
            BY <1>3, <2>1, <2>2, <2>3, <2>4 DEF SumsOfRows, SumsOfColumns
        <3> HIDE DEF T
        <3>2. SumFunctionOnSet(rows, S) = SumFunctionOnSet(columns, T)
            BY <3>1, SumSwaps
        <3> QED
            BY <3>2 DEF T
    <2> QED
        BY <2>5, <2>6, <2>7
<1>7. b.won = SumFunction([k \in DOMAIN b.draws |-> b.draws[k].won])
    <2> DEFINE X == {results[k] : k \in S}
    <2>1. results \in Seq(X)
        <3>1. results \in [1..Len(draws) -> X]
            <4>1. results = [k \in S |-> results[k]]
                BY <1>5 DEF Results, results, S
            <4> QED
                BY <1>3, <4>1
        <3> HIDE DEF X
        <3> QED
            BY <1>3, <3>1
    <2>2. Distinct(results)
        BY <1>2, <1>4, <1>5 DEF Distinct, Playable, S
    <2>3. \A r \in X : r.won \in Nat
        BY <1>4
    <2> HIDE DEF X
    <2> DEFINE kept == Passing(results, {r \in ToSet(results) : r.won > 0})
    <2>4. SumFunction([k \in DOMAIN results |-> results[k].won]) = SumFunction([k \in DOMAIN kept |-> kept[k].won])
        BY <2>1, <2>2, <2>3, WinningSummed
    <2> HIDE DEF kept
    <2>5. b.draws = kept
        BY <1>1 DEF kept
    <2> QED
        BY <1>1, <1>5, <2>4, <2>5
<1> QED
    BY <1>6, <1>7 DEF b

\* What counting finds in a tier for a list of draws, and a summary that says so.
Expected(draws, form, strong, m, matched) ==
    SumFunction([k \in DOMAIN draws |->
        IF (strong > 0 /\ draws[k].strong = strong) = matched
        THEN Matching(FormPlayed(form), ToSet(draws[k].numbers), m) ELSE 0])
AddsUp(b, draws, form, strong) ==
    /\ \A m \in DrawSize - 3..DrawSize :
        /\ b.tierHits[2 * (DrawSize - m) + 1] = Expected(draws, form, strong, m, TRUE)
        /\ b.tierHits[2 * (DrawSize - m) + 2] = Expected(draws, form, strong, m, FALSE)
    /\ b.won = SumFunction(b.tierTotal)
    /\ b.won = SumFunction([k \in DOMAIN b.draws |-> b.draws[k].won])

\* Counting finds what Backtest answers.
LEMMA BacktestAddsUp ==
    ASSUME NEW archived, NEW window, NEW form \in Seq(Int), NEW strong, NEW overrides, NEW cost,
           Playable(Plays(archived, window), overrides)
    PROVE  AddsUp(Backtest(archived, window, form, strong, overrides, cost), Plays(archived, window),
                  form, strong)
<1> DEFINE b == Backtest(archived, window, form, strong, overrides, cost)
           draws == Plays(archived, window)
           results == Results(draws, form, strong, overrides)
           S == DOMAIN draws
           F == FormPlayed(form)
           N(k) == ToSet(draws[k].numbers)
           matched(k) == strong > 0 /\ draws[k].strong = strong
<1>1. /\ b.won = SumFunction(b.tierTotal)
      /\ b.won = SumFunction([k \in DOMAIN b.draws |-> b.draws[k].won])
    BY TotalsAgree
<1>2. Summarises(b, draws, results, overrides)
    <2> HIDE DEF Summarises
    <2> QED
        BY BacktestParts
<1> HIDE DEF b, draws
<1>3. \A k \in S : results[k].hits = Hits(draws[k], form, strong)
    <2>1. \A k \in S : results[k] = Result(draws[k], form, strong, overrides)
        BY DEF Results
    <2>2. \A k \in S : Result(draws[k], form, strong, overrides).hits = Hits(draws[k], form, strong)
        BY DEF Result
    <2> HIDE DEF results, S
    <2> QED
        BY <2>1, <2>2, Zenon
<1> HIDE DEF results, S
<1>4. b.tierHits = [t \in Tiers |-> SumFunction([k \in S |-> results[k].hits[t]])]
    BY <1>2 DEF Summarises, S
<1>5. ASSUME NEW m \in DrawSize - 3..DrawSize, NEW k \in S
      PROVE  /\ results[k].hits[2 * (DrawSize - m) + 1]
                  = IF matched(k) = TRUE THEN Matching(F, N(k), m) ELSE 0
             /\ results[k].hits[2 * (DrawSize - m) + 2]
                  = IF matched(k) = FALSE THEN Matching(F, N(k), m) ELSE 0
    <2> DEFINE hits(t) == Cardinality({c \in kSubset(DrawSize, F) :
                                          matchToTier(Cardinality(c \intersect N(k)), matched(k)) = t})
    <2>1. DrawSize \in Nat /\ m \in Int /\ DrawSize - m \in 0..3
        BY SimulateSizesAssumption
    <2>2. 2 * (DrawSize - m) + 1 \in Tiers /\ 2 * (DrawSize - m) + 2 \in Tiers
        BY <2>1 DEF Tiers
    <2>3. \A t \in Tiers : results[k].hits[t] = hits(t)
        <3>1. results[k].hits = Hits(draws[k], form, strong)
            BY <1>3
        <3>2. (strong > 0 /\ strong = draws[k].strong) = matched(k)
            OBVIOUS
        <3>3. Hits(draws[k], form, strong) = [t \in Tiers |-> hits(t)]
            BY <3>2 DEF Hits
        <3> HIDE DEF hits
        <3> QED
            BY <3>1, <3>3
    <2>4. /\ hits(2 * (DrawSize - m) + 1) = IF matched(k) THEN Matching(F, N(k), m) ELSE 0
          /\ hits(2 * (DrawSize - m) + 2) = IF matched(k) THEN 0 ELSE Matching(F, N(k), m)
        <3> DEFINE B == matched(k)
                   M == N(k)
        <3>1. IsFiniteSet(F) /\ B \in BOOLEAN
            BY CombinationsPlayed
        <3> HIDE DEF F, B, M
        <3>2. LET h(t) == Cardinality({c \in kSubset(DrawSize, F) : matchToTier(Cardinality(c \intersect M), B) = t})
              IN  /\ h(2 * (DrawSize - m) + 1) = IF B THEN Matching(F, M, m) ELSE 0
                  /\ h(2 * (DrawSize - m) + 2) = IF B THEN 0 ELSE Matching(F, M, m)
            BY <3>1, TierCounted
        <3> QED
            BY <3>2 DEF B, M
    <2> HIDE DEF hits, F, N, matched
    <2>5. matched(k) \in BOOLEAN
        BY DEF matched
    <2> QED
        BY <2>2, <2>3, <2>4, <2>5
<1>6. ASSUME NEW m \in DrawSize - 3..DrawSize
      PROVE  /\ b.tierHits[2 * (DrawSize - m) + 1] = Expected(draws, form, strong, m, TRUE)
             /\ b.tierHits[2 * (DrawSize - m) + 2] = Expected(draws, form, strong, m, FALSE)
    <2> DEFINE one == 2 * (DrawSize - m) + 1
               two == 2 * (DrawSize - m) + 2
    <2>1. one \in Tiers /\ two \in Tiers
        <3>1. DrawSize \in Nat /\ m \in Int /\ DrawSize - m \in 0..3
            BY SimulateSizesAssumption
        <3> QED
            BY <3>1 DEF Tiers
    <2>2. /\ [k \in S |-> results[k].hits[one]] = [k \in S |-> IF matched(k) = TRUE THEN Matching(F, N(k), m) ELSE 0]
          /\ [k \in S |-> results[k].hits[two]] = [k \in S |-> IF matched(k) = FALSE THEN Matching(F, N(k), m) ELSE 0]
        <3>1. \A k \in S : /\ results[k].hits[one] = IF matched(k) = TRUE THEN Matching(F, N(k), m) ELSE 0
                           /\ results[k].hits[two] = IF matched(k) = FALSE THEN Matching(F, N(k), m) ELSE 0
            BY <1>5
        <3> HIDE DEF one, two, F, N, matched
        <3> QED
            BY <3>1
    <2>3. /\ Expected(draws, form, strong, m, TRUE)
               = SumFunction([k \in S |-> IF matched(k) = TRUE THEN Matching(F, N(k), m) ELSE 0])
          /\ Expected(draws, form, strong, m, FALSE)
               = SumFunction([k \in S |-> IF matched(k) = FALSE THEN Matching(F, N(k), m) ELSE 0])
        BY Zenon DEF Expected, S
    <2> HIDE DEF one, two, F, N, matched
    <2>4. /\ b.tierHits[one] = SumFunction([k \in S |-> results[k].hits[one]])
          /\ b.tierHits[two] = SumFunction([k \in S |-> results[k].hits[two]])
        BY <1>4, <2>1
    <2>5. /\ b.tierHits[one] = Expected(draws, form, strong, m, TRUE)
          /\ b.tierHits[two] = Expected(draws, form, strong, m, FALSE)
        BY <2>2, <2>3, <2>4
    <2> QED
        BY <2>5 DEF one, two
<1> QED
    BY <1>1, <1>6 DEF AddsUp, b, draws

-----------------------------------------------------------------------------
(* What a backtest plays.                                                  *)

\* What filterDrawsByWindow keeps are the draws inside the window, and none twice.
LEMMA WindowKept ==
    ASSUME NEW X, NEW draws \in Seq(X), Distinct(draws), NEW w
    PROVE  /\ filterDrawsByWindow(draws, w) \in Seq(X)
           /\ Distinct(filterDrawsByWindow(draws, w))
           /\ ToSet(filterDrawsByWindow(draws, w)) = {d \in ToSet(draws) : InWindow(d.date, w)}
<1> DEFINE T == {d \in ToSet(draws) : InWindow(d.date, w)}
<1>1. filterDrawsByWindow(draws, w) = Passing(draws, T)
    BY DEF filterDrawsByWindow
<1>2. ToSet(draws) \intersect T = T
    OBVIOUS
<1> HIDE DEF T
<1> QED
    BY <1>1, <1>2, PassingKept DEF T

\* A query's rows are the selected draws, each once.
LEMMA RowsAreSelected ==
    ASSUME NEW D, IsFiniteSet(D), NEW s \in Ordered(D)
    PROVE  s \in Seq(D) /\ Distinct(s) /\ ToSet(s) = D
<1> DEFINE n == Cardinality(D)
<1>1. n \in Nat
    BY FS_CardinalityType
<1>2. s \in [1..n -> D] /\ \A j, k \in 1..n : j < k => s[j] # s[k]
    BY DEF Ordered
<1> HIDE DEF n
<1>3. s \in Seq(D) /\ Len(s) = n /\ DOMAIN s = 1..n
    BY <1>1, <1>2
<1>4. Distinct(s)
    <2> SUFFICES ASSUME NEW j \in 1..n, NEW k \in 1..n, j # k
                 PROVE  s[j] # s[k]
        BY <1>3 DEF Distinct
    <2>1. j < k \/ k < j
        BY <1>1
    <2> QED
        BY <1>2, <2>1
<1>5. ToSet(s) \in SUBSET D /\ Cardinality(ToSet(s)) = n
    BY <1>2, <1>3, <1>4, ListedOnce DEF ToSet
<1>6. ToSet(s) = D
    BY <1>5, FS_Subset DEF n
<1> QED
    BY <1>3, <1>4, <1>6

\* An archive begins at the default start if one of its windows is open.
OpenStart(a, b) ==
    \/ Open \in {windowFromProto(w).from : w \in {a, b} \ {None}}
    \/ a = None /\ b = None

\* What a backtest with the windows a and b plays.
ToPlay(a, b) ==
    {d \in table : /\ InWindow(d.date, windowFromProto(IF b = None THEN a ELSE b))
                   /\ OpenStart(a, b) => d.date >= DefaultStart}

\* While an archive is built, its draws and those to come are the rows of its window.
Selecting ==
    /\ status = "idle" => arch.draws = <<>>
    /\ status = "build" => arch.draws \o todo \in Ordered(Selected(ArchiveWindow(request)))

\* Of the archive of both windows, the second keeps what it would select alone,
\* the time before the default start excepted.
LEMMA DatePlayed ==
    ASSUME NEW a \in Windows, NEW b \in Windows, NEW t \in Nat \ {0}
    PROVE  InWindow(t, normalizeWindow(windowFromProto(unionWindows(a, b)))) /\ (b # None => InWindow(t, b))
               <=> /\ InWindow(t, windowFromProto(IF b = None THEN a ELSE b))
                   /\ OpenStart(a, b) => t >= DefaultStart
<1>1. DefaultStart \in Nat /\ DefaultStart # 0
    BY DefaultStartAssumption
<1>2. /\ a # None => a \in DateRange /\ a.from \in Nat /\ a.to \in Nat
      /\ b # None => b \in DateRange /\ b.from \in Nat /\ b.to \in Nat
    BY WindowsAssumption DEF DateRange
<1> USE DEF InWindow, normalizeWindow, windowFromProto, unionWindows, Open
<1>3. CASE b = None
    <2>1. CASE a = None
        <3>1. OpenStart(a, b)
            BY <1>3, <2>1 DEF OpenStart
        <3> QED
            BY <1>1, <1>3, <2>1, <3>1
    <2>2. CASE a # None
        <3>1. OpenStart(a, b) <=> a.from = 0
            BY <1>3, <2>2 DEF OpenStart
        <3> QED
            BY <1>1, <1>2, <1>3, <2>2, <3>1
    <2> QED
        BY <2>1, <2>2
<1>4. CASE b # None
    <2>1. CASE a = None
        <3>1. OpenStart(a, b) <=> b.from = 0
            BY <1>4, <2>1 DEF OpenStart
        <3> QED
            BY <1>1, <1>2, <1>4, <2>1, <3>1
    <2>2. CASE a # None
        <3>1. OpenStart(a, b) <=> a.from = 0 \/ b.from = 0
            BY <1>4, <2>2 DEF OpenStart
        <3> DEFINE u == unionWindows(a, b)
        <3>2. /\ u.from = IF b.from = 0 \/ (a.from # 0 /\ b.from < a.from) THEN b.from ELSE a.from
              /\ u.to = IF b.to = 0 \/ (a.to # 0 /\ b.to > a.to) THEN b.to ELSE a.to
            BY <1>4, <2>2
        <3>3. u # None => InWindow(t, normalizeWindow(windowFromProto(u))) <=>
                  /\ IF u.from = 0 THEN DefaultStart <= t ELSE u.from <= t
                  /\ u.to = 0 \/ t <= u.to
            BY <1>1
        <3>4. u # None
            <4>1. u.from \in Nat /\ u.to \in Nat /\ u = [from |-> u.from, to |-> u.to]
                BY <1>2, <1>4, <2>2
            <4> HIDE DEF u
            <4>2. u \in DateRange
                BY <4>1 DEF DateRange
            <4> QED
                BY <4>2, WindowsAssumption
        <3> HIDE DEF u
        <3>5. InWindow(t, normalizeWindow(windowFromProto(u))) <=>
                  /\ OpenStart(a, b) => DefaultStart <= t
                  /\ a.from # 0 /\ b.from # 0 => a.from <= t \/ b.from <= t
                  /\ a.to # 0 /\ b.to # 0 => t <= a.to \/ t <= b.to
            BY <1>1, <1>2, <1>4, <2>2, <3>1, <3>2, <3>3, <3>4
        <3> QED
            BY <1>1, <1>2, <1>4, <2>2, <3>1, <3>5 DEF u
    <2> QED
        BY <2>1, <2>2
<1> QED
    BY <1>3, <1>4

\* The draws a backtest of the archive plays: those of its window, each once.
LEMMA PlayedRows ==
    ASSUME AnswersInv, Selecting, status = "build", todo = <<>>, request.op = "Simulate"
    PROVE  LET draws == Plays(arch.draws, request.simulate)
           IN  /\ request.form \in Seq(Int)
               /\ draws \in Seq(table) /\ Playable(draws, request.overrides)
               /\ ToSet(draws) = ToPlay(request.window, request.simulate)
<1> DEFINE a == request.window
           b == request.simulate
           played == Plays(arch.draws, b)
<1>1. request \in [op : {"Simulate"}, window : Windows, simulate : Windows, form : PlayedForms,
                   strong : 0..1, overrides : Overrides, cost : Costs]
    BY DEF AnswersInv, Asked, Requests
<1>2. a \in Windows /\ b \in Windows
    BY <1>1
<1>3. request.form \in Seq(Int) /\ (request.overrides = None \/ request.overrides \in [Tiers -> Int])
    BY <1>1, FormsAssumption, OverridesAssumption
<1>4. /\ table \subseteq AllDraws /\ IsFiniteSet(table)
      /\ \A d \in table : d.date \in Nat \ {0} /\ (d.prizes = None \/ d.prizes \in [Tiers -> Nat])
    <2>1. /\ table \in SUBSET AllDraws /\ IsFiniteSet(AllDraws)
          /\ \A d \in AllDraws : d.date \in Nat \ {0} /\ (d.prizes = None \/ d.prizes \in [Tiers -> Nat])
        BY DrawsAssumption DEF AnswersInv, GroupCounts, TypeOK
    <2> QED
        BY <2>1, FS_Subset
<1> DEFINE w == normalizeWindow(windowFromProto(unionWindows(a, b)))
<1>5. arch.draws \in Ordered(Selected(w))
    <2>1. arch.draws \o todo \in Ordered(Selected(ArchiveWindow(request)))
        BY DEF Selecting
    <2>2. arch.draws \in Seq(table)
        BY DEF AnswersInv, DrawsListed
    <2>3. arch.draws \o <<>> = arch.draws
        BY <2>2
    <2>4. ArchiveWindow(request) = w
        BY DEF ArchiveWindow
    <2> QED
        BY <2>1, <2>3, <2>4
<1> HIDE DEF a, b, w
<1>6. Selected(w) \in SUBSET table /\ IsFiniteSet(Selected(w))
    <2>1. Selected(w) \in SUBSET table
        BY DEF Selected
    <2> QED
        BY <1>4, <2>1, FS_Subset
<1>7. arch.draws \in Seq(Selected(w)) /\ Distinct(arch.draws) /\ ToSet(arch.draws) = Selected(w)
    BY <1>5, <1>6, RowsAreSelected
<1>8. /\ played \in Seq(Selected(w)) /\ Distinct(played)
      /\ ToSet(played) = {d \in Selected(w) : b # None => InWindow(d.date, b)}
    <2>1. CASE b = None
        BY <1>7, <2>1 DEF Plays
    <2>2. CASE b # None
        <3>1. /\ filterDrawsByWindow(arch.draws, b) \in Seq(Selected(w))
              /\ Distinct(filterDrawsByWindow(arch.draws, b))
              /\ ToSet(filterDrawsByWindow(arch.draws, b)) = {d \in ToSet(arch.draws) : InWindow(d.date, b)}
            BY <1>7, WindowKept
        <3> QED
            BY <1>7, <2>2, <3>1 DEF Plays
    <2> QED
        BY <2>1, <2>2
<1>9. ToSet(played) = ToPlay(a, b)
    <2>1. \A d \in table :
              InWindow(d.date, w) /\ (b # None => InWindow(d.date, b))
                  <=> /\ InWindow(d.date, windowFromProto(IF b = None THEN a ELSE b))
                      /\ OpenStart(a, b) => d.date >= DefaultStart
        BY <1>2, <1>4, DatePlayed DEF w
    <2> HIDE DEF played
    <2> QED
        BY <1>8, <2>1 DEF ToPlay, Selected
<1> HIDE DEF played
<1>10. played \in Seq(table)
    BY <1>6, <1>8
<1>11. Playable(played, request.overrides)
    BY <1>3, <1>4, <1>8, <1>10 DEF Playable
<1> QED
    BY <1>3, <1>9, <1>10, <1>11 DEF a, b, played

\* So a backtest plays as many draws as it is to play.
LEMMA PlayedAll ==
    ASSUME AnswersInv, Selecting, RunBacktest
    PROVE  PlayedWindow'
<1> DEFINE draws == Plays(arch.draws, request.simulate)
<1>1. /\ request' = request /\ table' = table /\ status = "build" /\ todo = <<>>
      /\ request.op = "Simulate"
      /\ status' # "ok" \/ answer' = Backtest(arch.draws, request.simulate, request.form, request.strong,
                                               request.overrides, request.cost)
    BY DEF RunBacktest, Built, Answer, Reject
<1>2. /\ request.form \in Seq(Int)
      /\ draws \in Seq(table) /\ Playable(draws, request.overrides)
      /\ ToSet(draws) = ToPlay(request.window, request.simulate)
    BY <1>1, PlayedRows
<1>3. ASSUME status' = "ok"
      PROVE  answer'.played = Len(draws)
    <2>1. Summarises(answer', draws, Results(draws, request.form, request.strong, request.overrides),
                     request.overrides)
        BY <1>1, <1>2, <1>3, BacktestParts
    <2> HIDE DEF draws
    <2> QED
        BY <2>1 DEF Summarises
<1> HIDE DEF draws
<1>4. Len(draws) = Cardinality(ToPlay(request.window, request.simulate))
    BY <1>2, ListedOnce DEF Playable
<1>5. ASSUME status' = "ok"
      PROVE  answer'.played = Cardinality(ToPlay(request.window, request.simulate))
    BY <1>3, <1>4, <1>5
<1> QED
    BY <1>1, <1>5 DEF PlayedWindow, ToPlay, OpenStart

\* The property in these terms, of a state and of the next one.
LEMMA TiersAddUpIs ==
    /\ TiersAddUp <=> (status = "ok" /\ request.op = "Simulate" =>
          AddsUp(answer, Plays(arch.draws, request.simulate), request.form, request.strong))
    /\ TiersAddUp' <=> (status' = "ok" /\ request'.op = "Simulate" =>
          AddsUp(answer', Plays(arch'.draws, request'.simulate), request'.form, request'.strong))
BY Zenon DEF TiersAddUp, AddsUp, Expected, Matching, FormPlayed, Plays

\* And what it says they won adds up.
LEMMA PlayedAddsUp ==
    ASSUME AnswersInv, Selecting, RunBacktest
    PROVE  TiersAddUp'
<1> DEFINE draws == Plays(arch.draws, request.simulate)
<1>1. /\ request' = request /\ arch' = arch /\ status = "build" /\ todo = <<>>
      /\ request.op = "Simulate"
      /\ status' # "ok" \/ answer' = Backtest(arch.draws, request.simulate, request.form, request.strong,
                                               request.overrides, request.cost)
    BY DEF RunBacktest, Built, Answer, Reject
<1>2. request.form \in Seq(Int) /\ Playable(draws, request.overrides)
    BY <1>1, PlayedRows
<1>3. ASSUME status' = "ok"
      PROVE  AddsUp(answer', draws, request.form, request.strong)
    BY <1>1, <1>2, <1>3, BacktestAddsUp
<1> QED
    BY <1>1, <1>3, TiersAddUpIs

\* What the archive still has to count are the rest of its rows.
LEMMA SelectingKept ==
    ASSUME AnswersInv, Selecting, [Next]_vars
    PROVE  Selecting'
<1>1. arch.draws \in Seq(table) /\ todo \in Seq(table)
    BY DEF AnswersInv, DrawsListed
<1>2. ASSUME NEW r \in Requests, Ask(r)
      PROVE  Selecting'
    <2>1. /\ status = "idle" /\ arch' = arch /\ request' = r /\ table' = table /\ status' # "idle"
          /\ status' = "build" => todo' \in Ordered(Selected(ArchiveWindow(r)))
        BY <1>2 DEF Ask
    <2>2. arch.draws = <<>>
        BY <2>1 DEF Selecting
    <2>3. ASSUME status' = "build"
          PROVE  <<>> \o todo' = todo'
        <3>1. todo' \in Ordered(Selected(ArchiveWindow(r)))
            BY <2>1, <2>3
        <3>2. IsFiniteSet(Selected(ArchiveWindow(r)))
            <4>1. table \in SUBSET AllDraws /\ IsFiniteSet(AllDraws)
                BY DrawsAssumption DEF AnswersInv, GroupCounts, TypeOK
            <4>2. IsFiniteSet(table) /\ Selected(ArchiveWindow(r)) \in SUBSET table
                BY <4>1, FS_Subset DEF Selected
            <4> QED
                BY <4>2, FS_Subset
        <3>3. todo' \in Seq(Selected(ArchiveWindow(r)))
            BY <3>1, <3>2, RowsAreSelected
        <3> QED
            BY <3>3
    <2>4. ASSUME status' = "build"
          PROVE  arch'.draws \o todo' \in Ordered(Selected(ArchiveWindow(request)))'
        <3>1. Ordered(Selected(ArchiveWindow(request)))' = Ordered(Selected(ArchiveWindow(r)))
            BY <2>1 DEF Ordered, Selected, ArchiveWindow
        <3> QED
            BY <2>1, <2>2, <2>3, <2>4, <3>1
    <2> QED
        BY <2>1, <2>4 DEF Selecting
<1>3. CASE AddDraw
    <2>1. /\ status = "build" /\ status' = "build" /\ request' = request /\ table' = table
          /\ todo # <<>> /\ todo' = Tail(todo) /\ arch'.draws = Append(arch.draws, Head(todo))
        BY <1>3 DEF AddDraw
    <2>2. arch'.draws \o todo' = arch.draws \o todo
        <3>1. todo = <<Head(todo)>> \o Tail(todo) /\ Head(todo) \in table /\ Tail(todo) \in Seq(table)
            BY <1>1, <2>1
        <3>2. Append(arch.draws, Head(todo)) = arch.draws \o <<Head(todo)>>
            BY <1>1, <3>1
        <3> QED
            BY <1>1, <2>1, <3>1, <3>2
    <2>3. arch.draws \o todo \in Ordered(Selected(ArchiveWindow(request)))
        BY <2>1 DEF Selecting
    <2>4. Ordered(Selected(ArchiveWindow(request)))' = Ordered(Selected(ArchiveWindow(request)))
        BY <2>1 DEF Ordered, Selected, ArchiveWindow
    <2> QED
        BY <2>1, <2>2, <2>3, <2>4 DEF Selecting
<1>4. CASE GetStatistics \/ GenerateForm \/ Analyze \/ Score \/ RunBacktest
    <2>1. status' \in {"ok", "rejected"}
        BY <1>4 DEF GetStatistics, GenerateForm, Analyze, Score, RunBacktest, Answer, Reject
    <2> QED
        BY <2>1 DEF Selecting
<1>5. CASE UNCHANGED vars
    BY <1>5 DEF vars, Selecting, Ordered, Selected, ArchiveWindow
<1> QED
    BY <1>2, <1>3, <1>4, <1>5 DEF Next, Answered

\* A backtest plays each draw of the window that was asked for and no others, although
\* it selects them from an archive of two windows (the time before the default start
\* is left out when a window is open below); each tier has the combinations that
\* counting finds; and what the draws won is what the tiers won and the total.
\* For every lottery, table, form, window and override.
THEOREM BacktestsAreExact == Spec => []BacktestExact
<1>1. Init => Selecting /\ BacktestExact
    <2> SUFFICES ASSUME Init PROVE Selecting /\ BacktestExact
        OBVIOUS
    <2>1. status = "idle" /\ arch.draws = <<>>
        BY DEF Init, EmptyArchive
    <2>2. TiersAddUp
        BY <2>1, TiersAddUpIs
    <2> QED
        BY <2>1, <2>2 DEF Selecting, BacktestExact, PlayedWindow
<1>2. AnswersInv /\ Selecting /\ BacktestExact /\ [Next]_vars => Selecting' /\ BacktestExact'
    <2> SUFFICES ASSUME AnswersInv, Selecting, BacktestExact, [Next]_vars
                 PROVE  BacktestExact'
        BY SelectingKept
    <2>0. PlayedWindow /\ TiersAddUp
        BY DEF BacktestExact
    <2>1. ASSUME status' # "ok" \/ request'.op # "Simulate"
          PROVE  BacktestExact'
        <3>1. PlayedWindow'
            BY <2>1 DEF PlayedWindow
        <3>2. TiersAddUp'
            BY <2>1, TiersAddUpIs
        <3> QED
            BY <3>1, <3>2 DEF BacktestExact
    <2>2. ASSUME NEW r \in Requests, Ask(r)
          PROVE  BacktestExact'
        BY <2>1, <2>2 DEF Ask
    <2>3. CASE AddDraw
        BY <2>1, <2>3 DEF AddDraw
    <2>4. CASE GetStatistics \/ GenerateForm \/ Analyze \/ Score
        <3>1. request' = request /\ request.op # "Simulate"
            BY <2>4 DEF GetStatistics, GenerateForm, Analyze, Score, Built, Answer, Reject
        <3> QED
            BY <2>1, <3>1
    <2>5. CASE RunBacktest
        BY <2>5, PlayedAll, PlayedAddsUp DEF BacktestExact
    <2>6. CASE UNCHANGED vars
        <3>1. PlayedWindow'
            BY <2>0, <2>6 DEF vars, PlayedWindow
        <3>2. /\ status' = status /\ request' = request /\ arch' = arch /\ answer' = answer
            BY <2>6 DEF vars
        <3>3. TiersAddUp'
            BY <2>0, <3>2, TiersAddUpIs
        <3> QED
            BY <3>1, <3>3 DEF BacktestExact
    <2> QED
        BY <2>2, <2>3, <2>4, <2>5, <2>6 DEF Next, Answered
<1> QED
    BY <1>1, <1>2, AnswersInvHolds, PTL DEF Spec

-----------------------------------------------------------------------------
(* What heat is measured against.                                           *)

\* The pairs of the lottery, and its forms of n numbers.
Pairs == kSubset(2, 1..MaxNumber)
Lines(n) == {f \in [1..n -> 1..MaxNumber] : Ascends(f)}

\* As many forms of n numbers have a given pair.
LinesWith(n, P) == {f \in Lines(n) : P \subseteq ToSet(f)}
HowManyWith(n) == IF n < 2 THEN 0 ELSE Ways(MaxNumber - 2, n - 2)

\* The forms are the sets of that size, each in its ascending order.
LEMMA LinesAreSets ==
    ASSUME NEW n \in Nat
    PROVE  /\ IsFiniteSet(Lines(n)) /\ Cardinality(Lines(n)) = Ways(MaxNumber, n)
           /\ \A f \in Lines(n) : Path(f) /\ ToSet(f) \in kSubset(n, 1..MaxNumber)
           /\ \A F \in kSubset(n, 1..MaxNumber) : \E f \in Lines(n) : ToSet(f) = F
<1> DEFINE K == kSubset(n, 1..MaxNumber)
           b == [f \in Lines(n) |-> ToSet(f)]
<1>1. MaxNumber \in Nat /\ IsFiniteSet(1..MaxNumber) /\ Cardinality(1..MaxNumber) = MaxNumber
    <2>1. MaxNumber \in Nat
        BY NumbersAssumption
    <2> QED
        BY <2>1, FS_Interval
<1>2. \A f \in Lines(n) : Path(f) /\ Len(f) = n
    <2>1. ASSUME NEW U, NEW f \in [1..n -> U]
          PROVE  f \in Seq(U) /\ Len(f) = n
        OBVIOUS
    <2> QED
        BY <2>1 DEF Lines, Path
<1>3. \A f \in Lines(n) : ToSet(f) \in K
    BY <1>2, SetOfPath DEF kSubset
<1>4. ASSUME NEW F \in K
      PROVE  \E f \in Lines(n) : ToSet(f) = F
    <2>1. F \subseteq 1..MaxNumber /\ Cardinality(F) = n
        BY DEF kSubset
    <2>2. \E f \in [1..n -> 1..MaxNumber] : Ascends(f) /\ ToSet(f) = F
        BY <2>1, PathOfSet
    <2> QED
        BY <2>2 DEF Lines
<1>5. \A f, g \in Lines(n) : ToSet(f) = ToSet(g) => f = g
    BY <1>2, OnePathOfSet
<1>6. IsFiniteSet(K) /\ Cardinality(K) = Ways(MaxNumber, n)
    BY <1>1, SubsetsFinite, WaysOfSize
<1>7. Names(b, Lines(n), K)
    BY <1>3, <1>4, <1>5 DEF Names
<1> HIDE DEF b, K
<1>8. b \in Injection(Lines(n), K)
    BY <1>7 DEF Names, Injection, IsInjective
<1>9. IsFiniteSet(Lines(n))
    BY <1>6, <1>8, FS_Injection
<1>10. Cardinality(K) = Cardinality(Lines(n))
    BY <1>7, <1>9, SameCount
<1> QED
    BY <1>2, <1>3, <1>4, <1>6, <1>9, <1>10 DEF K

\* A form with a pair is that pair and two numbers less of the others.
LEMMA LinesWithPair ==
    ASSUME NEW n \in Nat, NEW P \in Pairs
    PROVE  IsFiniteSet(LinesWith(n, P)) /\ Cardinality(LinesWith(n, P)) = HowManyWith(n)
<1> DEFINE U == 1..MaxNumber
           S == LinesWith(n, P)
<1>1. MaxNumber \in Nat /\ IsFiniteSet(U) /\ Cardinality(U) = MaxNumber
    <2>1. MaxNumber \in Nat
        BY NumbersAssumption
    <2> QED
        BY <2>1, FS_Interval
<1>2. IsFiniteSet(P) /\ P \subseteq U /\ Cardinality(P) = 2
    <2>1. P \subseteq U /\ Cardinality(P) = 2
        BY DEF Pairs, kSubset
    <2> QED
        BY <1>1, <2>1, FS_Subset
<1>3. IsFiniteSet(S) /\ S \subseteq Lines(n)
    <2>1. S \subseteq Lines(n)
        BY DEF LinesWith
    <2> HIDE DEF S
    <2> QED
        BY <2>1, LinesAreSets, FS_Subset
<1>4. /\ \A f \in S : /\ Path(f) /\ ToSet(f) \subseteq U /\ IsFiniteSet(ToSet(f))
                      /\ Cardinality(ToSet(f)) = n /\ P \subseteq ToSet(f)
      /\ \A f \in S, g \in S : ToSet(f) = ToSet(g) => f = g
    <2>1. \A f \in S : f \in Lines(n) /\ P \subseteq ToSet(f)
        BY DEF LinesWith
    <2>2. \A f \in Lines(n) : Path(f) /\ ToSet(f) \subseteq U /\ Cardinality(ToSet(f)) = n
        BY LinesAreSets DEF kSubset
    <2> HIDE DEF S
    <2>3. \A f \in S : IsFiniteSet(ToSet(f))
        BY <1>1, <2>1, <2>2, FS_Subset
    <2> QED
        BY <2>1, <2>2, <2>3, OnePathOfSet
<1>5. CASE n < 2
    <2>1. S = {}
        <3> HIDE DEF S
        <3> SUFFICES ASSUME NEW f \in S PROVE FALSE
            OBVIOUS
        <3>1. Cardinality(P) <= Cardinality(ToSet(f))
            BY <1>4, FS_Subset
        <3> QED
            BY <1>2, <1>4, <1>5, <3>1
    <2> HIDE DEF S
    <2>2. Cardinality(S) = 0
        BY <2>1, FS_EmptySet
    <2> QED
        BY <1>3, <1>5, <2>2 DEF HowManyWith, S
<1>6. CASE ~(n < 2)
    <2> DEFINE R == U \ P
               K == kSubset(n - 2, R)
               b == [f \in S |-> ToSet(f) \ P]
    <2>1. IsFiniteSet(R) /\ Cardinality(R) = MaxNumber - 2 /\ MaxNumber - 2 \in Nat
        <3>1. U \intersect P = P
            BY <1>2
        <3>2. IsFiniteSet(U \ P) /\ Cardinality(U \ P) = Cardinality(U) - Cardinality(U \intersect P)
            BY <1>1, FS_Difference
        <3>3. Cardinality(U \ P) \in Nat
            BY <3>2, FS_CardinalityType
        <3> QED
            BY <1>1, <1>2, <3>1, <3>2, <3>3
    <2>2. n - 2 \in Nat
        BY <1>6
    <2>3. Cardinality(K) = Ways(MaxNumber - 2, n - 2)
        <3> HIDE DEF R
        <3> QED
            BY <2>1, <2>2, WaysOfSize
    <2>4. ASSUME NEW f \in S
          PROVE  ToSet(f) \ P \in K
        <3>1. ToSet(f) \intersect P = P
            BY <1>4
        <3>2. Cardinality(ToSet(f) \ P) = Cardinality(ToSet(f)) - Cardinality(ToSet(f) \intersect P)
            BY <1>4, FS_Difference
        <3>3. ToSet(f) \ P \in SUBSET R
            BY <1>4
        <3>4. Cardinality(ToSet(f) \ P) = n - 2
            BY <1>2, <1>4, <3>1, <3>2
        <3> QED
            BY <3>3, <3>4 DEF kSubset
    <2>5. \A f \in S, g \in S : ToSet(f) \ P = ToSet(g) \ P => f = g
        <3> SUFFICES ASSUME NEW f \in S, NEW g \in S, ToSet(f) \ P = ToSet(g) \ P
                     PROVE  f = g
            OBVIOUS
        <3>1. ToSet(f) = (ToSet(f) \ P) \union P /\ ToSet(g) = (ToSet(g) \ P) \union P
            BY <1>4
        <3>2. ToSet(f) = ToSet(g)
            BY <3>1
        <3> QED
            BY <1>4, <3>2
    <2>6. ASSUME NEW F \in K
          PROVE  \E f \in S : ToSet(f) \ P = F
        <3> DEFINE G == F \union P
        <3>1. F \subseteq R /\ Cardinality(F) = n - 2
            BY DEF kSubset
        <3>2. IsFiniteSet(F) /\ F \intersect P = {}
            BY <2>1, <3>1, FS_Subset
        <3>3. Cardinality(G) = Cardinality(F) + Cardinality(P) - Cardinality(F \intersect P)
            BY <1>2, <3>2, FS_Union
        <3>4. Cardinality(F \intersect P) = 0
            BY <3>2, FS_EmptySet
        <3>5. Cardinality(G) = n
            BY <1>2, <3>1, <3>3, <3>4
        <3>6. G \in SUBSET U /\ P \subseteq G /\ G \ P = F
            BY <1>2, <3>1
        <3> HIDE DEF G, U, S
        <3>7. G \in kSubset(n, U)
            BY <3>5, <3>6 DEF kSubset
        <3>8. \E f \in Lines(n) : ToSet(f) = G
            BY <3>7, LinesAreSets DEF U
        <3> QED
            BY <3>6, <3>8 DEF LinesWith, S
    <2>7. Names(b, S, K)
        <3> HIDE DEF S, K
        <3> QED
            BY <2>4, <2>5, <2>6 DEF Names
    <2>8. Cardinality(K) = Cardinality(S)
        <3> HIDE DEF b, S, K
        <3> QED
            BY <1>3, <2>7, SameCount
    <2> QED
        BY <1>3, <1>6, <2>3, <2>8 DEF HowManyWith
<1> QED
    BY <1>5, <1>6

\* A set of numbers has as many pairs as there are ways to choose two of it.
LEMMA PairsWithin ==
    ASSUME NEW F, F \subseteq 1..MaxNumber
    PROVE  /\ IsFiniteSet(Pairs)
           /\ Cardinality({P \in Pairs : P \subseteq F}) = Ways(Cardinality(F), 2)
<1>1. IsFiniteSet(1..MaxNumber) /\ IsFiniteSet(F)
    <2>1. IsFiniteSet(1..MaxNumber)
        BY FS_Interval, NumbersAssumption
    <2> QED
        BY <2>1, FS_Subset
<1>2. IsFiniteSet(Pairs)
    BY <1>1, SubsetsFinite DEF Pairs
<1>3. {P \in Pairs : P \subseteq F} = kSubset(2, F)
    BY DEF Pairs, kSubset
<1> QED
    BY <1>1, <1>2, <1>3, WaysOfSize

\* A sum of equal terms.
LEMMA SumConstant ==
    ASSUME NEW S, IsFiniteSet(S), NEW c \in Int, NEW h, \A x \in S : h[x] = c
    PROVE  SumFunctionOnSet(h, S) = c * Cardinality(S)
<1> DEFINE one == [x \in S |-> 1]
<1>1. \A x \in S : one[x] = IF x \in S THEN 1 ELSE 0
    OBVIOUS
<1>2. \A x \in S : one[x] \in Int /\ h[x] = c * one[x]
    OBVIOUS
<1> HIDE DEF one
<1>3. SumFunctionOnSet(one, S) = Cardinality(S)
    BY <1>1, SumOfOnes
<1>4. SumFunctionOnSet(h, S) = c * SumFunctionOnSet(one, S)
    BY <1>2, SumTimes
<1> QED
    BY <1>3, <1>4

\* What the pairs of a set weigh together.
Weighs(t, F) == SumFunctionOnSet([P \in Pairs |-> IF P \subseteq F THEN t[P] ELSE 0], Pairs)
Weighed(w, t, n) == \A f \in Lines(n) : w[f] = Weighs(t, ToSet(f))

\* Over all forms of n numbers each pair is weighed as often as any other.
LEMMA LinesWeighed ==
    ASSUME NEW n \in Nat, NEW t \in [Pairs -> Int], NEW w, Weighed(w, t, n)
    PROVE  SumFunctionOnSet(w, Lines(n)) = HowManyWith(n) * SumFunctionOnSet(t, Pairs)
<1> DEFINE S == Lines(n)
           c == HowManyWith(n)
           a == [f \in S |-> [P \in Pairs |-> IF P \subseteq ToSet(f) THEN t[P] ELSE 0]]
           columns == [P \in Pairs |-> c * t[P]]
<1>1. IsFiniteSet(S) /\ IsFiniteSet(Pairs)
    <2>1. IsFiniteSet(S)
        BY LinesAreSets
    <2>2. IsFiniteSet(Pairs)
        BY PairsWithin
    <2> QED
        BY <2>1, <2>2
<1>2. a \in [S -> [Pairs -> Int]]
    <2>1. ASSUME NEW f \in S
          PROVE  [P \in Pairs |-> IF P \subseteq ToSet(f) THEN t[P] ELSE 0] \in [Pairs -> Int]
        OBVIOUS
    <2> HIDE DEF S
    <2> QED
        BY <2>1
<1>3. SumsOfRows(w, a, S, Pairs)
    <2>1. \A f \in S : w[f] = SumFunctionOnSet([P \in Pairs |-> IF P \subseteq ToSet(f) THEN t[P] ELSE 0], Pairs)
        BY DEF Weighed, Weighs
    <2>2. \A f \in S : a[f] = [P \in Pairs |-> IF P \subseteq ToSet(f) THEN t[P] ELSE 0]
        OBVIOUS
    <2>3. \A f \in S : w[f] = SumFunctionOnSet(a[f], Pairs)
        <3> HIDE DEF a, S
        <3> QED
            BY Zenon, <2>1, <2>2
    <2> HIDE DEF a, S
    <2> QED
        BY <2>3 DEF SumsOfRows
<1>4. \A P \in Pairs : /\ c \in Nat /\ t[P] \in Int /\ LinesWith(n, P) \in SUBSET S
                       /\ Cardinality(LinesWith(n, P)) = c
    <2>1. ASSUME NEW P \in Pairs
          PROVE  IsFiniteSet(LinesWith(n, P)) /\ Cardinality(LinesWith(n, P)) = c
        BY LinesWithPair
    <2>2. ASSUME NEW P \in Pairs
          PROVE  LinesWith(n, P) \in SUBSET S /\ t[P] \in Int
        BY DEF LinesWith
    <2> HIDE DEF c, S
    <2> QED
        BY <2>1, <2>2, FS_CardinalityType
<1>5. SumsOfColumns(columns, a, S, Pairs)
    <2>1. ASSUME NEW P \in Pairs
          PROVE  columns[P] = SumFunctionOnSet([f \in S |-> a[f][P]], S)
        <3> DEFINE col == [f \in S |-> a[f][P]]
                   has == [f \in S |-> IF f \in LinesWith(n, P) THEN 1 ELSE 0]
                   p == t[P]
                   L == LinesWith(n, P)
        <3>1. \A f \in S : col[f] = IF f \in L THEN p ELSE 0
            BY DEF LinesWith
        <3>2. \A f \in S : has[f] = IF f \in L THEN 1 ELSE 0
            OBVIOUS
        <3>3. L \in SUBSET S /\ p \in Int /\ Cardinality(L) = c /\ c \in Nat
            BY <1>4
        <3>4. columns[P] = c * p
            OBVIOUS
        <3> HIDE DEF col, has, p, L, c, columns, S, a
        <3>5. SumFunctionOnSet(has, S) = c
            BY <1>1, <3>2, <3>3, SumOfOnes
        <3>6. \A f \in S : has[f] \in Int /\ col[f] = p * has[f]
            BY <3>1, <3>2, <3>3
        <3>7. SumFunctionOnSet(col, S) = p * SumFunctionOnSet(has, S)
            BY <1>1, <3>3, <3>6, SumTimes
        <3>8. SumFunctionOnSet(col, S) = c * p
            BY <3>3, <3>5, <3>7
        <3> QED
            BY <3>4, <3>8 DEF col
    <2> HIDE DEF columns, a, S
    <2> QED
        BY <2>1 DEF SumsOfColumns
<1>6. SumFunctionOnSet(w, S) = SumFunctionOnSet(columns, Pairs)
    <2> HIDE DEF columns, a, S
    <2> QED
        BY <1>1, <1>2, <1>3, <1>5, SumSwaps
<1>7. \A P \in Pairs : t[P] \in Int /\ columns[P] = c * t[P]
    OBVIOUS
<1>8. c \in Int
    <2>1. MaxNumber \in Nat
        BY NumbersAssumption
    <2>2. IsFiniteSet(Pairs)
        BY <1>1
    <2>3. CASE n < 2
        BY <2>3 DEF HowManyWith
    <2>4. CASE ~(n < 2)
        <3>1. c = Ways(MaxNumber - 2, n - 2)
            BY <2>4 DEF HowManyWith
        <3>2. IsFiniteSet(1..MaxNumber - 2)
            BY <2>1, FS_Interval
        <3>3. IsFiniteSet(kSubset(n - 2, 1..MaxNumber - 2)) /\ Cardinality(kSubset(n - 2, 1..MaxNumber - 2)) \in Nat
            BY <3>2, SubsetsFinite
        <3> QED
            BY <3>1, <3>3 DEF Ways
    <2> QED
        BY <2>3, <2>4
<1>9. SumFunctionOnSet(columns, Pairs) = c * SumFunctionOnSet(t, Pairs)
    <2> HIDE DEF columns, c
    <2> QED
        BY <1>1, <1>7, <1>8, SumTimes
<1> QED
    BY <1>6, <1>9

\* What a set weighs if each pair weighs one is how many pairs it has.
LEMMA PairsWeighed ==
    ASSUME NEW F, F \subseteq 1..MaxNumber, NEW one, one = [P \in Pairs |-> 1]
    PROVE  Weighs(one, F) = Ways(Cardinality(F), 2)
<1> DEFINE h == [P \in Pairs |-> IF P \subseteq F THEN one[P] ELSE 0]
           W == {P \in Pairs : P \subseteq F}
<1>1. W \in SUBSET Pairs /\ \A P \in Pairs : h[P] = IF P \in W THEN 1 ELSE 0
    OBVIOUS
<1>2. IsFiniteSet(Pairs) /\ Cardinality(W) = Ways(Cardinality(F), 2)
    BY PairsWithin
<1> HIDE DEF W
<1>3. Weighs(one, F) = SumFunctionOnSet(h, Pairs)
    BY DEF Weighs
<1> HIDE DEF h
<1>4. SumFunctionOnSet(h, Pairs) = Cardinality(W)
    BY <1>1, <1>2, SumOfOnes
<1> QED
    BY <1>2, <1>3, <1>4

\* So the pairs of all forms are the pairs of the lottery, that often.
LEMMA LinesAndPairs ==
    ASSUME NEW n \in Nat
    PROVE  Ways(n, 2) * Ways(MaxNumber, n) = HowManyWith(n) * Ways(MaxNumber, 2)
<1> DEFINE one == [P \in Pairs |-> 1]
           w == [f \in Lines(n) |-> Weighs(one, ToSet(f))]
           c == Ways(n, 2)
<1>1. MaxNumber \in Nat /\ IsFiniteSet(1..MaxNumber) /\ Cardinality(1..MaxNumber) = MaxNumber
    <2>1. MaxNumber \in Nat
        BY NumbersAssumption
    <2> QED
        BY <2>1, FS_Interval
<1>2. one \in [Pairs -> Int] /\ one = [P \in Pairs |-> 1] /\ \A P \in Pairs : one[P] = 1
    OBVIOUS
<1>3. Weighed(w, one, n)
    BY Zenon DEF Weighed
<1>4. IsFiniteSet(Lines(n)) /\ Cardinality(Lines(n)) = Ways(MaxNumber, n) /\ c \in Int
    BY LinesAreSets, WaysSum
<1>5. ASSUME NEW f \in Lines(n)
      PROVE  w[f] = c
    <2>1. ToSet(f) \subseteq 1..MaxNumber /\ Cardinality(ToSet(f)) = n
        BY LinesAreSets DEF kSubset
    <2>2. w[f] = Weighs(one, ToSet(f))
        BY Zenon
    <2> HIDE DEF one
    <2>3. Weighs(one, ToSet(f)) = Ways(Cardinality(ToSet(f)), 2)
        BY <1>2, <2>1, PairsWeighed
    <2> HIDE DEF w
    <2> QED
        BY <2>1, <2>2, <2>3
<1> HIDE DEF one, w, c
<1>6. SumFunctionOnSet(w, Lines(n)) = HowManyWith(n) * SumFunctionOnSet(one, Pairs)
    BY <1>2, <1>3, LinesWeighed
<1>7. SumFunctionOnSet(w, Lines(n)) = c * Ways(MaxNumber, n)
    BY <1>4, <1>5, SumConstant
<1>8. IsFiniteSet(Pairs) /\ Cardinality(Pairs) = Ways(MaxNumber, 2)
    BY <1>1, SubsetsFinite, WaysOfSize DEF Pairs
<1>9. SumFunctionOnSet(one, Pairs) = Ways(MaxNumber, 2)
    <2>1. Ways(MaxNumber, 2) \in Nat
        BY <1>1, WaysSum
    <2>2. SumFunctionOnSet(one, Pairs) = 1 * Cardinality(Pairs)
        BY <1>2, <1>8, SumConstant
    <2> QED
        BY <1>8, <2>1, <2>2
<1> QED
    BY <1>6, <1>7, <1>9 DEF c

\* How often each pair was drawn.
PairTimes == [P \in Pairs |-> Times(P)]

\* No draw has numbers beyond the lottery's.
OfTheLottery == \A k \in DOMAIN arch.draws : ToSet(arch.draws[k].numbers) \subseteq 1..MaxNumber

\* Every draw is drawn with the pairs of DrawSize numbers.
LEMMA PairsDrawn ==
    ASSUME GroupCounts, DrawsListed, OfTheLottery
    PROVE  /\ PairTimes \in [Pairs -> Int]
           /\ Len(arch.draws) \in Nat
           /\ SumFunctionOnSet(PairTimes, Pairs) = Len(arch.draws) * Ways(DrawSize, 2)
<1> DEFINE n == Len(arch.draws)
           D == 1..n
           drawn(k) == ToSet(arch.draws[k].numbers)
           a == [P \in Pairs |-> [k \in D |-> IF P \subseteq drawn(k) THEN 1 ELSE 0]]
           c == Ways(DrawSize, 2)
           columns == [k \in D |-> c]
<1>1. n \in Nat /\ DOMAIN arch.draws = D /\ IsFiniteSet(D) /\ Cardinality(D) = n
    <2>1. n \in Nat /\ DOMAIN arch.draws = D
        BY DEF DrawsListed
    <2> HIDE DEF n
    <2> QED
        BY <2>1, FS_Interval
<1>2. DrawSize \in Nat /\ c \in Int
    BY SimulateSizesAssumption, WaysSum
<1>3. IsFiniteSet(Pairs)
    <2>1. {} \subseteq 1..MaxNumber
        OBVIOUS
    <2> QED
        BY <2>1, PairsWithin
<1>4. PairTimes \in [Pairs -> Int]
    BY TimesType DEF DrawsListed, PairTimes
<1>5. ASSUME NEW k \in D
      PROVE  drawn(k) \subseteq 1..MaxNumber /\ Cardinality(drawn(k)) = DrawSize
    <2> DEFINE d == arch.draws[k]
    <2>1. d \in AllDraws
        <3>1. d \in table
            BY <1>1 DEF DrawsListed
        <3> QED
            BY <3>1 DEF GroupCounts, TypeOK
    <2>2. d.numbers \in [1..DrawSize -> Nat] /\ Ascends(d.numbers)
        BY <2>1, DrawsAssumption
    <2>3. ToSet(d.numbers) \subseteq 1..MaxNumber
        BY <1>1 DEF OfTheLottery
    <2> HIDE DEF d
    <2>4. d.numbers \in [1..DrawSize -> 1..MaxNumber]
        BY <2>2, <2>3 DEF ToSet
    <2> DEFINE U == 1..MaxNumber
               g == d.numbers
    <2> HIDE DEF U, g
    <2>5. g \in [1..DrawSize -> U]
        BY <2>4 DEF U, g
    <2>6. g \in Seq(U) /\ Len(g) = DrawSize
        BY <1>2, <2>5
    <2>7. Path(g)
        BY <2>2, <2>6 DEF Path, U, g
    <2>8. Cardinality(ToSet(g)) = DrawSize
        BY <2>6, <2>7, SetOfPath
    <2> QED
        BY <2>3, <2>8 DEF d, g
<1>6. a \in [Pairs -> [D -> Int]]
    <2>1. ASSUME NEW P \in Pairs
          PROVE  [k \in D |-> IF P \subseteq drawn(k) THEN 1 ELSE 0] \in [D -> Int]
        OBVIOUS
    <2> HIDE DEF D, drawn
    <2> QED
        BY <2>1
<1>7. SumsOfRows(PairTimes, a, Pairs, D)
    <2>1. ASSUME NEW P \in Pairs
          PROVE  PairTimes[P] = SumFunctionOnSet(a[P], D)
        <3> DEFINE row == a[P]
                   C == {k \in D : P \subseteq drawn(k)}
        <3>1. PairTimes[P] = Cardinality(C)
            BY <1>1 DEF PairTimes, Times, Containing
        <3>2. C \in SUBSET D /\ \A k \in D : row[k] = IF k \in C THEN 1 ELSE 0
            OBVIOUS
        <3> HIDE DEF row, C, D, a
        <3>3. SumFunctionOnSet(row, D) = Cardinality(C)
            BY <1>1, <3>2, SumOfOnes
        <3> QED
            BY <3>1, <3>3 DEF row
    <2> HIDE DEF a, D
    <2> QED
        BY <2>1 DEF SumsOfRows
<1>8. SumsOfColumns(columns, a, Pairs, D)
    <2>1. ASSUME NEW k \in D
          PROVE  columns[k] = SumFunctionOnSet([P \in Pairs |-> a[P][k]], Pairs)
        <3> DEFINE col == [P \in Pairs |-> a[P][k]]
                   F == drawn(k)
                   W == {P \in Pairs : P \subseteq F}
        <3>1. W \in SUBSET Pairs /\ \A P \in Pairs : col[P] = IF P \in W THEN 1 ELSE 0
            OBVIOUS
        <3>2. F \subseteq 1..MaxNumber /\ Cardinality(F) = DrawSize
            BY <1>5
        <3>3. columns[k] = c
            OBVIOUS
        <3> HIDE DEF F, col, columns, D, a
        <3>4. Cardinality(W) = c
            BY <3>2, PairsWithin
        <3> HIDE DEF W, c
        <3>5. SumFunctionOnSet(col, Pairs) = Cardinality(W)
            BY <1>3, <3>1, SumOfOnes
        <3> QED
            BY <3>3, <3>4, <3>5 DEF col
    <2> HIDE DEF columns, a, D
    <2> QED
        BY <2>1 DEF SumsOfColumns
<1>9. SumFunctionOnSet(PairTimes, Pairs) = SumFunctionOnSet(columns, D)
    <2> HIDE DEF columns, a, D
    <2> QED
        BY <1>1, <1>3, <1>6, <1>7, <1>8, SumSwaps
<1>10. \A k \in D : columns[k] = c
    OBVIOUS
<1>11. SumFunctionOnSet(columns, D) = c * n
    <2> HIDE DEF columns, D, c, n
    <2> QED
        BY <1>1, <1>2, <1>10, SumConstant
<1>12. c * n = n * c
    <2> HIDE DEF c, n
    <2> QED
        BY <1>1, <1>2
<1> QED
    BY <1>1, <1>4, <1>9, <1>11, <1>12

\* The pair hits of a form are what its set weighs.
LEMMA PairHits ==
    ASSUME GroupCounts, DrawsListed, NEW f, Path(f)
    PROVE  ScoreForm(arch.trie, Len(arch.draws), f).observed = Weighs(PairTimes, ToSet(f))
<1> DEFINE trie == arch.trie
           pairs == AnalyzeArray(trie, f)[2]
           F == ToSet(f)
           listed == {g \in DOMAIN trie : Len(g) = 2 /\ ToSet(g) \subseteq F}
           held == {P \in Pairs : P \subseteq F /\ Times(P) > 0}
           h == [P \in Pairs |-> IF P \subseteq F THEN PairTimes[P] ELSE 0]
           b == [g \in listed |-> ToSet(g)]
<1>1. f \in Seq(Int) /\ Ascends(f)
    <2>1. f \in Seq(1..MaxNumber) /\ Ascends(f)
        BY DEF Path
    <2>2. 1..MaxNumber \subseteq Int
        OBVIOUS
    <2> QED
        BY <2>1, <2>2, SeqMonotonic
<1>2. /\ Counts(trie)
      /\ \A g \in DOMAIN trie : /\ g \in Groups /\ trie[g] = Times(ToSet(g)) /\ Times(ToSet(g)) > 0
                                /\ ToSet(g) \in Drawn /\ Cardinality(ToSet(g)) = Len(g)
      /\ \A g \in Groups : Times(ToSet(g)) > 0 => g \in DOMAIN trie
    BY TreeOfDrawn
<1>3. 2 \in 1..MaxGroupSize
    BY PairsAssumption, NumbersAssumption
<1>4. pairs \in Seq(DOMAIN trie) /\ ToSet(pairs) = listed /\ Distinct(pairs)
    <2>1. ASSUME NEW size \in 1..MaxGroupSize
          PROVE  /\ AnalyzeArray(trie, f)[size] \in Seq(DOMAIN trie)
                 /\ ToSet(AnalyzeArray(trie, f)[size]) = {g \in DOMAIN trie : Len(g) = size /\ ToSet(g) \subseteq F}
                 /\ Distinct(AnalyzeArray(trie, f)[size])
        <3>1. Counts(trie)
            BY <1>2
        <3> HIDE DEF trie
        <3> QED
            BY <1>1, <3>1, AnalyzedInOrder
    <2> HIDE DEF trie, F
    <2> QED
        BY <1>3, <2>1
<1>5. ScoreForm(arch.trie, Len(arch.draws), f).observed = SumFunction([k \in DOMAIN pairs |-> trie[pairs[k]]])
    BY DEF ScoreForm
<1>6. IsFiniteSet(Pairs) /\ \A P \in Pairs : Times(P) \in Nat /\ PairTimes[P] = Times(P)
    <2>1. {} \subseteq 1..MaxNumber
        OBVIOUS
    <2> QED
        BY <2>1, PairsWithin, TimesType DEF DrawsListed, PairTimes
<1>7. \A P \in Pairs : h[P] = IF P \subseteq F THEN Times(P) ELSE 0
    BY <1>6
<1>8. Weighs(PairTimes, F) = SumFunctionOnSet(h, Pairs)
    BY DEF Weighs
<1>9. SumFunctionOnSet(h, Pairs) = SumFunctionOnSet(h, held)
    <2>1. held \in SUBSET Pairs
        OBVIOUS
    <2>2. \A P \in Pairs : h[P] \in Int /\ (P \notin held => h[P] = 0)
        <3> HIDE DEF h, F
        <3> QED
            BY <1>6, <1>7
    <2> HIDE DEF h, held
    <2> QED
        BY <1>6, <2>1, <2>2, SumWithin
<1>10. \A g \in listed : /\ ToSet(g) \in held /\ trie[g] \in Int /\ h[ToSet(g)] \in Int
                         /\ trie[g] = h[ToSet(g)] /\ g \in Groups
    <2> SUFFICES ASSUME NEW g \in listed
                 PROVE  /\ ToSet(g) \in held /\ trie[g] \in Int /\ h[ToSet(g)] \in Int
                        /\ trie[g] = h[ToSet(g)] /\ g \in Groups
        OBVIOUS
    <2>1. /\ g \in Groups /\ trie[g] = Times(ToSet(g)) /\ Times(ToSet(g)) > 0
          /\ Cardinality(ToSet(g)) = 2 /\ ToSet(g) \subseteq F
        BY <1>2
    <2>2. ToSet(g) \subseteq 1..MaxNumber
        BY <2>1, SetOfGroup
    <2>3. ToSet(g) \in Pairs
        BY <2>1, <2>2 DEF Pairs, kSubset
    <2> HIDE DEF h, trie, listed, F
    <2> QED
        BY <1>6, <1>7, <2>1, <2>3
<1>11. \A P \in held : \E g \in listed : ToSet(g) = P
    <2> SUFFICES ASSUME NEW P \in held PROVE \E g \in listed : ToSet(g) = P
        OBVIOUS
    <2>1. P \subseteq 1..MaxNumber /\ Cardinality(P) = 2 /\ P \subseteq F /\ Times(P) > 0
        BY DEF Pairs, kSubset
    <2>2. PICK g \in Groups : ToSet(g) = P /\ Len(g) = Cardinality(P)
        BY <1>3, <2>1, GroupOfSet
    <2>3. g \in DOMAIN trie /\ Len(g) = 2 /\ ToSet(g) \subseteq F
        BY <1>2, <2>1, <2>2
    <2> QED
        BY <2>2, <2>3
<1>12. b \in Bijection(listed, held)
    <2>1. b \in [listed -> held]
        <3> HIDE DEF listed, held
        <3> QED
            BY <1>10
    <2>2. \A g \in listed, j \in listed : b[g] = b[j] => g = j
        BY <1>10, OneGroupOfSet
    <2>3. \A P \in held : \E g \in listed : b[g] = P
        BY <1>11
    <2> HIDE DEF b, listed, held
    <2> QED
        BY <2>1, <2>2, <2>3 DEF Bijection, Injection, Surjection, IsInjective
<1>13. \A g \in listed : trie[g] \in Int /\ h[b[g]] \in Int /\ trie[g] = h[b[g]]
    <2>1. \A g \in listed : b[g] = ToSet(g)
        OBVIOUS
    <2> HIDE DEF b, listed, h, trie
    <2> QED
        BY <1>10, <2>1
<1> HIDE DEF b, listed, held, h, trie, pairs
<1>14. /\ IsFiniteSet(listed)
       /\ SumFunction([k \in DOMAIN pairs |-> trie[pairs[k]]]) = SumFunctionOnSet(trie, listed)
    BY <1>4, <1>13, SumListed
<1>15. SumFunctionOnSet(trie, listed) = SumFunctionOnSet(h, held)
    BY <1>12, <1>13, <1>14, SumRenamed
<1> QED
    BY <1>5, <1>8, <1>9, <1>14, <1>15

\* What the forms of n numbers score, all together.
ScoresAddUp(n) ==
    LET score(f) == ScoreForm(arch.trie, Len(arch.draws), f)
    IN  SumFunction([f \in Lines(n) |-> score(f).observed * score(f).per])
          = SumFunction([f \in Lines(n) |-> score(f).expected])

\* They are hit as often as is expected.
LEMMA LinesScored ==
    ASSUME GroupCounts, DrawsListed, OfTheLottery, NEW n \in Nat
    PROVE  ScoresAddUp(n)
<1> DEFINE S == Lines(n)
           D == Len(arch.draws)
           score(f) == ScoreForm(arch.trie, Len(arch.draws), f)
           per == Ways(MaxNumber, 2)
           all == D * Ways(DrawSize, 2)
           each == D * Ways(n, 2) * Ways(DrawSize, 2)
           w == [f \in S |-> Weighs(PairTimes, ToSet(f))]
           hits == [f \in S |-> score(f).observed * score(f).per]
           due == [f \in S |-> score(f).expected]
<1>1. /\ IsFiniteSet(S) /\ Cardinality(S) = Ways(MaxNumber, n)
      /\ \A f \in S : Path(f) /\ Len(f) = n
    <2>1. \A f \in S : Path(f) /\ Cardinality(ToSet(f)) = n
        BY LinesAreSets DEF kSubset
    <2>2. \A f \in S : Len(f) = n
        <3> HIDE DEF S
        <3> QED
            BY <2>1, SetOfPath
    <2> QED
        BY <2>1, <2>2, LinesAreSets
<1>2. /\ PairTimes \in [Pairs -> Int] /\ D \in Nat
      /\ SumFunctionOnSet(PairTimes, Pairs) = all
    BY PairsDrawn
<1>3. /\ MaxNumber \in Nat /\ DrawSize \in Nat /\ MaxGroupSize = DrawSize
      /\ per \in Nat /\ Ways(n, 2) \in Nat /\ Ways(DrawSize, 2) \in Nat
      /\ Ways(MaxNumber, n) \in Nat
    <2>1. MaxNumber \in Nat /\ DrawSize \in Nat /\ MaxGroupSize = DrawSize
        BY NumbersAssumption, SimulateSizesAssumption, SameSizeAssumption
    <2> QED
        BY <2>1, WaysSum
<1>4. /\ binomialCount(n, 2) = Ways(n, 2) /\ binomialCount(MaxGroupSize, 2) = Ways(DrawSize, 2)
      /\ binomialCount(MaxNumber, 2) = per
    BY <1>3, BinomialCounts
<1>5. ASSUME NEW f \in S
      PROVE  score(f).observed = w[f] /\ score(f).per = per /\ score(f).expected = each
    <2>1. Path(f) /\ Len(f) = n
        BY <1>1
    <2>2. score(f).observed = Weighs(PairTimes, ToSet(f))
        BY <2>1, PairHits
    <2>3. score(f).per = binomialCount(MaxNumber, 2)
        BY DEF ScoreForm
    <2>4. score(f).expected = D * binomialCount(Len(f), 2) * binomialCount(MaxGroupSize, 2)
        BY DEF ScoreForm
    <2>5. w[f] = Weighs(PairTimes, ToSet(f))
        BY Zenon
    <2> HIDE DEF score, w, per, D
    <2> QED
        BY <1>4, <2>1, <2>2, <2>3, <2>4, <2>5
<1>6. Weighed(w, PairTimes, n)
    BY Zenon DEF Weighed
<1>7. \A f \in S : w[f] \in Int
    <2>1. ASSUME NEW f \in S
          PROVE  Weighs(PairTimes, ToSet(f)) \in Int
        <3> DEFINE h == [P \in Pairs |-> IF P \subseteq ToSet(f) THEN PairTimes[P] ELSE 0]
        <3>1. \A P \in Pairs : h[P] \in Int
            BY <1>2
        <3>2. IsFiniteSet(Pairs)
            <4>1. {} \subseteq 1..MaxNumber
                OBVIOUS
            <4> QED
                BY <4>1, PairsWithin
        <3>3. Weighs(PairTimes, ToSet(f)) = SumFunctionOnSet(h, Pairs)
            BY DEF Weighs
        <3> HIDE DEF h
        <3>4. SumFunctionOnSet(h, Pairs) \in Int
            BY <3>1, <3>2, SumUnfolds
        <3> QED
            BY <3>3, <3>4
    <2> HIDE DEF S
    <2> QED
        BY <2>1
<1>8. \A f \in S : hits[f] = per * w[f] /\ due[f] = each
    <2>1. ASSUME NEW f \in S
          PROVE  hits[f] = per * w[f] /\ due[f] = each
        <3>1. hits[f] = score(f).observed * score(f).per /\ due[f] = score(f).expected
            BY Zenon
        <3>2. w[f] \in Int
            BY <1>7
        <3> HIDE DEF hits, due, score, w, per, each
        <3>3. hits[f] = w[f] * per /\ due[f] = each
            BY <1>5, <3>1
        <3> QED
            BY <1>3, <3>2, <3>3
    <2> HIDE DEF hits, due, score, w, per, each
    <2> QED
        BY <2>1
<1>9. each \in Int
    <2> HIDE DEF D
    <2> QED
        BY <1>2, <1>3
<1>10. SumFunction(hits) = SumFunctionOnSet(hits, S) /\ SumFunction(due) = SumFunctionOnSet(due, S)
    <2>1. DOMAIN hits = S /\ DOMAIN due = S
        BY Zenon
    <2> HIDE DEF hits, due, S
    <2> QED
        BY <2>1 DEF SumFunction
<1>11. ScoresAddUp(n) <=> SumFunction(hits) = SumFunction(due)
    BY Zenon DEF ScoresAddUp
<1> HIDE DEF S, score, per, all, each, w, hits, due
<1>12. SumFunctionOnSet(hits, S) = per * SumFunctionOnSet(w, S)
    <2>1. IsFiniteSet(S) /\ per \in Int /\ \A f \in S : w[f] \in Int /\ hits[f] = per * w[f]
        BY <1>1, <1>3, <1>7, <1>8
    <2> QED
        BY <2>1, SumTimes
<1>13. SumFunctionOnSet(due, S) = each * Ways(MaxNumber, n)
    BY <1>1, <1>8, <1>9, SumConstant
<1>14. SumFunctionOnSet(w, S) = HowManyWith(n) * all
    BY <1>2, <1>6, LinesWeighed DEF S
<1>15. per * (HowManyWith(n) * all) = each * Ways(MaxNumber, n)
    <2> DEFINE x == HowManyWith(n)
               l == Ways(n, 2)
               t == Ways(DrawSize, 2)
               m == Ways(MaxNumber, n)
    <2>1. l * m = x * per
        BY LinesAndPairs DEF per
    <2>2. x \in Nat
        <3>1. CASE n < 2
            BY <3>1 DEF HowManyWith
        <3>2. CASE ~(n < 2)
            <4>1. IsFiniteSet(1..MaxNumber - 2)
                BY <1>3, FS_Interval
            <4>2. Cardinality(kSubset(n - 2, 1..MaxNumber - 2)) \in Nat
                BY <4>1, SubsetsFinite
            <4> QED
                BY <3>2, <4>2 DEF HowManyWith, Ways
        <3> QED
            BY <3>1, <3>2
    <2>3. all = D * t /\ each = D * l * t
        BY DEF all, each
    <2>4. l \in Nat /\ t \in Nat /\ m \in Nat /\ D \in Nat /\ per \in Nat
        BY <1>2, <1>3
    <2> HIDE DEF x, l, t, m, D
    <2>5. per * (x * (D * t)) = (x * per) * (D * t)
        BY <2>2, <2>4
    <2>6. (l * m) * (D * t) = D * l * t * m
        BY <2>2, <2>4
    <2> QED
        BY <2>1, <2>3, <2>5, <2>6 DEF x, m
<1> QED
    BY <1>10, <1>11, <1>12, <1>13, <1>14, <1>15

\* A heat of 100 is exactly average: over the forms of any length, the pair hits
\* that ScoreForm observes and those it expects add up to the same, for every
\* lottery and every table whose draws it can have drawn.
THEOREM HeatIsAverage == Spec => []HeatAverages
<1>1. AnswersInv => HeatAverages
    <2> SUFFICES ASSUME AnswersInv, status = "ok", request.op = "ScoreForm", OfTheLottery
                 PROVE  ScoresAddUp(Len(request.form))
        BY Zenon DEF HeatAverages, ScoresAddUp, Lines, OfTheLottery
    <2>1. request \in Requests
        BY DEF AnswersInv, Asked
    <2>2. request.form \in Forms
        BY <2>1 DEF Requests
    <2>3. request.form \in Seq(Int)
        BY <2>2, FormsAssumption
    <2>4. Len(request.form) \in Nat
        BY <2>3
    <2> QED
        BY <2>4, LinesScored DEF AnswersInv
<1> QED
    BY <1>1, AnswersInvHolds, PTL
=============================================================================
