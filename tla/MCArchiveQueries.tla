-------------------------- MODULE MCArchiveQueries --------------------------
(***************************************************************************)
(* Small instances of ArchiveQueries: draws of four numbers out of five,    *)
(* the oldest before the default start and with a sixth, two strong numbers *)
(* and two beyond them.                                                     *)
(***************************************************************************)
EXTENDS ArchiveQueries

\* Amounts that tell the tiers and their origins apart.
MCDefaultPrizes == [t \in Tiers |-> 10 * (9 - t)]
MCPaid == [t \in Tiers |-> 9 - t]

MCDraws == {
    [date |-> 1, numbers |-> <<1, 2, 3, 6>>, strong |-> 3, prizes |-> None],
    [date |-> 2, numbers |-> <<1, 2, 3, 4>>, strong |-> 1, prizes |-> MCPaid],
    [date |-> 3, numbers |-> <<1, 2, 4, 5>>, strong |-> 2, prizes |-> None],
    [date |-> 4, numbers |-> <<2, 3, 4, 5>>, strong |-> 1, prizes |-> MCPaid]}

MCWindows == {None} \union
    {[from |-> f, to |-> t] : <<f, t>> \in {<<0, 0>>, <<1, 2>>, <<1, 3>>, <<3, 0>>, <<0, 3>>}}

\* Every list of up to three numbers, and longer ones.
MCForms == BoundedSeq(1..4, 3) \union {<<1, 2, 3, 4, 5>>, <<2, 3, 4, 6>>, <<5, 4, 2, 1>>}

\* In any order, with duplicates, with zeros, systematic, too long, and with
\* numbers that were never drawn.
MCPlayedForms == {<<1, 2, 3>>, <<4, 2, 1, 5>>, <<1, 1, 2, 3>>, <<0, 1, 2, 3>>,
                  <<0, 1, 2, 3, 4>>, <<9, 8, 7, 2, 1>>, <<1, 2, 3, 4, 5, 6>>}

\* Nothing, and amounts for some tiers: one pays nothing, one is left alone.
MCOverrides == {None, [t \in Tiers |-> IF t = 1 THEN 0 ELSE IF t = 2 THEN -1 ELSE t]}
=============================================================================
