-------------------------- MODULE MCArchiveService --------------------------
(***************************************************************************)
(* A small instance of ArchiveService.  Days have two instants; the draw    *)
(* falls on the second instant of day 2.                                    *)
(***************************************************************************)
EXTENDS ArchiveService, TLC

MCDrawDate == [d \in Draws |-> 4]

\* Open at both ends, and from day 1 to an instant of day 1, 2 or 3: the windows
\* up to day 2 and up to day 3 share a key each, and disagree on day 2 only.
MCWindows ==
    {[from |-> 0, to |-> 0]} \cup {[from |-> 1, to |-> t] : t \in {2, 3, 4, 5, 6}}

MCSymmetry == Permutations(Clients) \union Permutations(Entries)
=============================================================================
