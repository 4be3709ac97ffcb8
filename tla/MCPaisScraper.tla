--------------------------- MODULE MCPaisScraper ---------------------------
(***************************************************************************)
(* The pages and files TLC parses: a page of a regular and the head of a    *)
(* double-lotto table with up to MaxDefects labels lost, repeated or added, *)
(* and every file of up to MaxLines records.                                *)
(***************************************************************************)
EXTENDS PaisScraper, SequencesExt

CONSTANTS MaxDefects, MaxLines, DoubleTiers

Other == [kind |-> "other"]

\* Label number k of a table whose amounts start after base.
TableLabel(base, unwon, k) ==
    LET t == k \div 3
    IN  CASE k % 3 = 0 -> [kind |-> "tier", num |-> 6 - t \div 2, strong |-> t % 2 = 0]
          [] k % 3 = 1 -> [kind |-> "winners", value |-> IF t \in unwon THEN 0 ELSE 1]
          [] OTHER -> [kind |-> "amount", value |-> IF t \in unwon THEN 0 ELSE base + t]

Table(base, unwon, tiers) == [k \in 1..3 * tiers |-> TableLabel(base, unwon, k - 1)]

WholePages ==
    {Table(10, unwon, 8) \o Table(20, {}, double) : unwon \in {{}, {0, 1}}, double \in {0, DoubleTiers}}

Damage(p) ==
    {RemoveAt(p, k) : k \in DOMAIN p}
    \cup {InsertAt(p, k, p[k]) : k \in DOMAIN p}
    \cup {InsertAt(p, k, Other) : k \in DOMAIN p}

MCPages ==
    LET Damaged[n \in 0..MaxDefects] ==
            IF n = 0 THEN WholePages
            ELSE Damaged[n - 1] \cup UNION {Damage(p) : p \in Damaged[n - 1]}
    IN  Damaged[MaxDefects]

MCAdverts == {<<0, 0>>, <<30, 31>>}
MCFiles == UNION {[1..n -> Records] : n \in 0..MaxLines}
MCWidths == 7..10

=============================================================================
