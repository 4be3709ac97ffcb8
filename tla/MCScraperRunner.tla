--------------------------- MODULE MCScraperRunner ---------------------------
(***************************************************************************)
(* Small instances of ScraperRunner: draws are numbered by their dates.     *)
(***************************************************************************)
EXTENDS ScraperRunner

MCDrawDate == [d \in Draws |-> d]
=============================================================================
