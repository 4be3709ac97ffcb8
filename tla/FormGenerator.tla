---------------------------- MODULE FormGenerator ----------------------------
(***************************************************************************)
(* GenerateForm (internal/lottery-tree/form_generator.go): the backtracking *)
(* search that looks for forms which have never won, over the frequency     *)
(* ranking of an archive.                                                   *)
(*                                                                          *)
(* The search permutes one candidate list in place, flips a branching flag  *)
(* that lives across its calls and returns on the first hit, so its call    *)
(* stack is part of the state and one step is one call or one return.  The  *)
(* strong number, the same for every form of a request, is left out.        *)
(***************************************************************************)
EXTENDS Naturals, Sequences, FiniteSetsExt

CONSTANTS
    MaxNumber,     \* the numbers are 1..MaxNumber
    MinFormSize,   \* minFormSize, how many numbers a draw has
    FormTypes,     \* form sizes that are asked for
    MaxWanted,     \* longest list of requested numbers (bound)
    HowMany        \* forms asked for

ASSUME SizesAssumption ==
    /\ MaxNumber \in Nat /\ MinFormSize \in Nat \ {0}
    /\ MaxWanted \in Nat /\ HowMany \in Nat \ {0}
ASSUME FormTypesAssumption == \A n \in FormTypes : n \in Nat /\ n >= MinFormSize

Numbers == 1..MaxNumber

\* GenerateCombinations: what can be played with these numbers.
GenerateCombinations(form) == kSubset(MinFormSize, form)
Combos == GenerateCombinations(Numbers)

VARIABLES
    won,        \* archive.WinningCombos
    ranked,     \* archive.RankNumbers(mode)
    formType,
    willBe,     \* requested numbers, as the client sent them
    tries,      \* the candidate list
    skip,       \* how many leading entries are pinned
    todo,       \* requested numbers that regroup has yet to place
    caseL,
    stack,      \* calls of search that have not returned, innermost last
    phase,      \* idle, form, regroup, search, return, done; panic: index out of range
    found,      \* what the last call of search returned
    results,    \* forms handed out so far, as sets
    first,      \* history: the candidate the last search began with
    stuck       \* history: forms added although the search had failed

request == <<won, ranked, formType, willBe>>
vars == <<request, tries, skip, todo, caseL, stack, phase, found, first, results, stuck>>

-----------------------------------------------------------------------------
(* The archive.                                                             *)

Frequency(D, n) == Cardinality({c \in D : n \in c})

\* RankNumbers: the numbers that were ever drawn, each once, most frequent first
\* ("strong") or least frequent first ("weak"), equal counts in ascending order.
\* An archive without draws ranks every number.
Rankings(D, weak) ==
    LET before(x, y) ==
            LET fx == Frequency(D, x)
                fy == Frequency(D, y)
            IN  IF fx = fy THEN x < y ELSE (fx < fy) = weak
        drawn == {n \in Numbers : D = {} \/ Frequency(D, n) > 0}
    IN  {s \in [1..Cardinality(drawn) -> drawn] :
            \A j, k \in DOMAIN s : j < k => before(s[j], s[k])}

-----------------------------------------------------------------------------
(* The candidate list; index k of the code is k + 1 here.                   *)

Swap(s, j, k) == [s EXCEPT ![j] = s[k], ![k] = s[j]]

leading(s) == {s[k] : k \in 1..formType}

notInResults == \A k \in 1..Len(results) : results[k] # leading(tries)

allFormsCheck == GenerateCombinations(leading(tries)) \intersect won = {}

-----------------------------------------------------------------------------
\* A number outside 1..MaxNumber is treated as one that was never drawn.
Wanted == UNION {[1..n -> Numbers] : n \in 0..MaxWanted}

\* A generator on an archive, before its request: its mode is not needed past
\* the ranking.
Init ==
    /\ won \in SUBSET Combos
    /\ \E weak \in BOOLEAN : ranked \in Rankings(won, weak)
    /\ formType = MinFormSize /\ willBe = <<>>
    /\ tries = ranked /\ skip = 0 /\ caseL = 0
    /\ stack = <<>> /\ found = FALSE
    /\ phase = "idle"
    /\ todo = <<>> /\ first = {} /\ results = <<>> /\ stuck = {}

\* The head of Generate: nothing when fewer numbers are ranked than a form takes.
Generate(size, want) ==
    /\ phase = "idle"
    /\ formType' = size /\ willBe' = want
    /\ phase' = IF Len(ranked) < size THEN "done" ELSE "form"
    /\ UNCHANGED <<won, ranked, tries, skip, todo, caseL, stack, found, first, results, stuck>>

Top == stack[Len(stack)]
Pop == SubSeq(stack, 1, Len(stack) - 1)
Call(s, start, check) == Append(s, [start |-> start, check |-> check, branch |-> 0])

\* The loop of Generate: restore the ranking, then pin and search.
NextForm ==
    /\ phase = "form"
    /\ IF Len(results) = HowMany
       THEN phase' = "done" /\ UNCHANGED <<tries, skip, todo>>
       ELSE phase' = "regroup" /\ tries' = ranked /\ skip' = 0 /\ todo' = willBe
    /\ UNCHANGED <<request, caseL, stack, found, first, results, stuck>>

Positions(n) == {j \in skip + 1..Len(tries) : tries[j] = n}

\* Mutant: a requested number takes position skip without leaving its own.
regroupOverwrite ==
    /\ phase = "regroup" /\ todo # <<>>
    /\ todo' = Tail(todo)
    /\ IF Positions(Head(todo)) = {}
       THEN UNCHANGED <<tries, skip>>
       ELSE tries' = [tries EXCEPT ![skip + 1] = Head(todo)] /\ skip' = skip + 1
    /\ UNCHANGED <<request, caseL, stack, phase, found, first, results, stuck>>

\* One round of regroup: a requested number that is still to the right of the
\* pinned ones is swapped to their end.
regroup ==
    /\ phase = "regroup" /\ todo # <<>>
    /\ todo' = Tail(todo)
    /\ IF Positions(Head(todo)) = {}
       THEN UNCHANGED <<tries, skip>>
       ELSE /\ tries' = Swap(tries, skip + 1, Min(Positions(Head(todo))))
            /\ skip' = skip + 1
    /\ UNCHANGED <<request, caseL, stack, phase, found, first, results, stuck>>

StartSearch ==
    /\ phase = "regroup" /\ todo = <<>>
    /\ phase' = "search"
    /\ stack' = Call(<<>>, skip, formType)
    /\ first' = leading(tries)
    /\ UNCHANGED <<request, tries, skip, todo, caseL, found, results, stuck>>

Return(value) ==
    /\ phase' = "return"
    /\ found' = value
    /\ stack' = Pop

\* A call of search: test the leading numbers, give up at the end of the list,
\* or swap a candidate in and make the first recursive call.
Search ==
    LET start == Top.start
        check == Top.check
        flipped == (caseL + 1) % 2
    IN  /\ phase = "search"
        /\ caseL' = flipped
        /\ IF notInResults /\ allFormsCheck THEN Return(TRUE) /\ UNCHANGED tries
           ELSE IF start = formType \/ check = Len(tries) THEN Return(FALSE) /\ UNCHANGED tries
           ELSE IF start >= Len(tries)
           THEN phase' = "panic" /\ UNCHANGED <<tries, stack, found>>
           ELSE /\ tries' = Swap(tries, start + 1, check + 1)
                /\ stack' = Call([stack EXCEPT ![Len(stack)].branch = 1],
                                 start + ((flipped + 1) % 2), check + flipped)
                /\ UNCHANGED <<phase, found>>
        /\ UNCHANGED <<request, skip, todo, first, results, stuck>>

\* The first recursive call failed: make the second, with the flag as it is now.
SecondBranch ==
    /\ phase = "return" /\ stack # <<>> /\ ~found
    /\ Top.branch = 1
    /\ phase' = "search"
    /\ stack' = Call([stack EXCEPT ![Len(stack)].branch = 2],
                     Top.start + caseL, Top.check + ((caseL + 1) % 2))
    /\ UNCHANGED <<request, tries, skip, todo, caseL, found, first, results, stuck>>

\* Mutant: the candidate stays swapped in after both calls failed.
UnswapForgotten ==
    /\ phase = "return" /\ stack # <<>> /\ ~found
    /\ Top.branch = 2
    /\ Return(FALSE)
    /\ UNCHANGED <<request, tries, skip, todo, caseL, first, results, stuck>>

\* Both failed: take the candidate out again.
Unswap ==
    /\ phase = "return" /\ stack # <<>> /\ ~found
    /\ Top.branch = 2
    /\ tries' = Swap(tries, Top.start + 1, Top.check + 1)
    /\ Return(FALSE)
    /\ UNCHANGED <<request, skip, todo, caseL, first, results, stuck>>

\* A hit goes up through every caller.
PassUp ==
    /\ phase = "return" /\ stack # <<>> /\ found
    /\ Return(TRUE)
    /\ UNCHANGED <<request, tries, skip, todo, caseL, first, results, stuck>>

\* Mutant: a form is not compared with those already handed out.
addResultAnyway ==
    /\ phase = "return" /\ stack = <<>>
    /\ phase' = "form"
    /\ results' = Append(results, leading(tries))
    /\ stuck' = stuck \union (IF found THEN {} ELSE {Len(results) + 1})
    /\ UNCHANGED <<request, tries, skip, todo, caseL, stack, found, first>>

\* Mutant: a candidate that is not new is searched for again.
addResultRetry ==
    /\ phase = "return" /\ stack = <<>>
    /\ phase' = "form"
    /\ IF notInResults
       THEN /\ results' = Append(results, leading(tries))
            /\ stuck' = stuck \union (IF found THEN {} ELSE {Len(results) + 1})
       ELSE UNCHANGED <<results, stuck>>
    /\ UNCHANGED <<request, tries, skip, todo, caseL, stack, found, first>>

\* The search's own verdict is not looked at: a candidate that is new is handed
\* out, one that is not ends the loop.
addResult ==
    /\ phase = "return" /\ stack = <<>>
    /\ IF notInResults
       THEN /\ phase' = "form"
            /\ results' = Append(results, leading(tries))
            /\ stuck' = stuck \union (IF found THEN {} ELSE {Len(results) + 1})
       ELSE phase' = "done" /\ UNCHANGED <<results, stuck>>
    /\ UNCHANGED <<request, tries, skip, todo, caseL, stack, found, first>>

Finished == phase \in {"done", "panic"} /\ UNCHANGED vars

Next ==
    \/ \E size \in FormTypes, want \in Wanted : Generate(size, want)
    \/ NextForm \/ regroup \/ StartSearch \/ Search \/ SecondBranch \/ Unswap \/ PassUp \/ addResult
    \/ Finished

Spec == Init /\ [][Next]_vars /\ WF_vars(Next)

-----------------------------------------------------------------------------
(* Properties.                                                              *)

\* What is true of the list throughout: it stays a permutation of the ranking,
\* and the search only ever looks beyond the form.
TypeOK ==
    /\ Len(tries) = Len(ranked) /\ todo \in Wanted
    /\ {tries[k] : k \in 1..Len(tries)} = {ranked[k] : k \in 1..Len(ranked)}
    /\ skip \in 0..Len(ranked) /\ caseL \in {0, 1} /\ found \in BOOLEAN
    /\ phase \in {"idle", "form", "regroup", "search", "return", "done", "panic"}
    /\ \A k \in 1..Len(stack) : stack[k].check \in formType..Len(tries)
    /\ Len(results) <= HowMany /\ stuck \subseteq 1..Len(results)

\* No form is handed out twice and each has formType numbers.
DistinctForms ==
    /\ \A j, k \in 1..Len(results) : results[j] = results[k] => j = k
    /\ \A k \in 1..Len(results) : Cardinality(results[k]) = formType

\* As long as they fit into a form, the requested numbers that the archive
\* ranks are in every form, whatever the search swaps, and it stays within the
\* list (with more of them it can index past the end).
Pinned == {willBe[k] : k \in DOMAIN willBe} \intersect {ranked[k] : k \in 1..Len(ranked)}
Fits == Cardinality(Pinned) <= formType
WillBeInEveryForm ==
    Fits => phase # "panic" /\ \A k \in 1..Len(results) : Pinned \subseteq results[k]

\* A form that holds a winning combination can only be the one candidate that
\* the ranking puts first, handed out when the search found nothing: a failed
\* search leaves the list as it was, and no other form is let through.
HasWon(form) == GenerateCombinations(form) \intersect won # {}
OnlyFirstChoiceHasWon ==
    \A k \in 1..Len(results) :
        HasWon(results[k]) => k \in stuck /\ results[k] = first

\* A request whose numbers fit is answered: the alternating recursion does not
\* run for ever, nor does the loop retry a form it cannot improve.
Terminates == (phase # "idle" /\ Fits) ~> (phase = "done")
=============================================================================
