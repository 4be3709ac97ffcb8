-------------------------- MODULE MCLotteryManager --------------------------
(***************************************************************************)
(* Small instances of LotteryManager.  Days have two instants; the draw     *)
(* falls on the second instant of day 1.                                    *)
(***************************************************************************)
EXTENDS LotteryManager, TLC

MCDrawDate == [d \in Draws |-> 2]

\* The default window, open at both ends as requested, and the first day.
MCTwoWindows == {[from |-> 0, to |-> 0], [from |-> 1, to |-> 2]}

MCSymmetry == Permutations(Clients) \union Permutations(Entries)
=============================================================================
