---------------------------- MODULE ArchiveReads ----------------------------
(***************************************************************************)
(* What LotteryManager promises the RPC handlers, without cache, locks or   *)
(* loads.  Writes raise the table; an announcement (an invalidation that    *)
(* has returned) raises what every later call must see.  A call ends in a   *)
(* refusal or in an archive read from the table after the call's floor was  *)
(* taken: never older than what was announced before the call, never ahead  *)
(* of the table, for every draw of the archive's window.                    *)
(***************************************************************************)
EXTENDS Naturals

CONSTANTS Clients, Draws, None

VARIABLES
    db,      \* level of each draw
    pub,     \* level announced for each draw
    at,      \* per client: idle, asked, served or refused
    floor,   \* what had been announced when the client's call began
    answer   \* the archive it was served

vars == <<db, pub, at, floor, answer>>

Levels == 0..2
Rows == [Draws -> Levels]
Zero == [d \in Draws |-> 0]
\* covers is the set of draws in the archive's window; an archive that is not
\* whole lost rows on the way.
Archives == [rows : Rows, whole : BOOLEAN, covers : SUBSET Draws]

AtMost(r, s) == \A d \in Draws : r[d] <= s[d]

Init ==
    /\ db \in Rows
    /\ pub = Zero
    /\ at = [c \in Clients |-> "idle"]
    /\ floor = [c \in Clients |-> Zero]
    /\ answer = [c \in Clients |-> None]

Write ==
    /\ db' # db
    /\ db' \in Rows /\ AtMost(db, db')
    /\ UNCHANGED <<pub, at, floor, answer>>

Announce ==
    /\ pub' # pub
    /\ pub' \in Rows /\ AtMost(pub, pub') /\ AtMost(pub', db)
    /\ UNCHANGED <<db, at, floor, answer>>

Ask(c) ==
    /\ at[c] = "idle"
    /\ at' = [at EXCEPT ![c] = "asked"]
    /\ floor' = [floor EXCEPT ![c] = pub]
    /\ UNCHANGED <<db, pub, answer>>

\* An archive that is not whole is only bounded from above.
Answer(c) ==
    /\ at[c] = "asked"
    /\ at' = [at EXCEPT ![c] = "served"]
    /\ \E a \in Archives :
        /\ answer' = [answer EXCEPT ![c] = a]
        /\ \A d \in Draws :
            /\ a.rows[d] <= IF d \in a.covers THEN db[d] ELSE 0
            /\ a.whole /\ d \in a.covers => floor[c][d] <= a.rows[d]
    /\ UNCHANGED <<db, pub, floor>>

Refuse(c) ==
    /\ at[c] = "asked"
    /\ at' = [at EXCEPT ![c] = "refused"]
    /\ UNCHANGED <<db, pub, floor, answer>>

Close(c) ==
    /\ at[c] \in {"served", "refused"}
    /\ at' = [at EXCEPT ![c] = "idle"]
    /\ floor' = [floor EXCEPT ![c] = Zero]
    /\ answer' = [answer EXCEPT ![c] = None]
    /\ UNCHANGED <<db, pub>>

Next ==
    \/ Write
    \/ Announce
    \/ \E c \in Clients : Ask(c) \/ Answer(c) \/ Refuse(c) \/ Close(c)

Spec == Init /\ [][Next]_vars
=============================================================================
