---------------------------- MODULE DateWindows ----------------------------
(***************************************************************************)
(* The date arithmetic of the archive cache: how a requested window is      *)
(* normalised, which cache key it gets, which draws a query for it selects  *)
(* and which windows a changed range touches.                               *)
(*                                                                          *)
(* An instant is a natural number of ticks and Open (0) is Go's zero        *)
(* time.Time.  A calendar day holds TicksPerDay consecutive instants.       *)
(***************************************************************************)
EXTENDS Naturals

CONSTANTS
    TicksPerDay,    \* instants in one calendar day
    DefaultStart    \* defaultArchiveFrom, 2004-02-12

ASSUME TicksPerDayAssumption == TicksPerDay \in Nat \ {0}
ASSUME DefaultStartAssumption == DefaultStart \in Nat \ {0}

Open == 0

\* A range of instants; either bound may be open.
DateRange == [from : Nat, to : Nat]

\* Format("2006-01-02"): only the calendar day survives; 0 is the key's "open".
Day(t) == (t + TicksPerDay - 1) \div TicksPerDay

normalizeWindow(w) ==
    [from |-> IF w.from = Open THEN DefaultStart ELSE w.from, to |-> w.to]

\* Mutant: windows that begin on the same day share an entry.
windowKeyFrom(w) == <<Day(w.from), 0>>

windowKey(w) == <<Day(w.from), Day(w.to)>>

\* Mutant: a window that ends exactly where the affected range starts is kept.
rangesOverlapStrict(a, b) ==
    /\ a.to = Open \/ b.from = Open \/ b.from < a.to
    /\ b.to = Open \/ a.from = Open \/ a.from < b.to

rangesOverlap(a, b) ==
    /\ a.to = Open \/ b.from = Open \/ b.from <= a.to
    /\ b.to = Open \/ a.from = Open \/ a.from <= b.to

\* The WHERE clause of GetByDateRange.
InWindow(t, w) ==
    /\ w.from = Open \/ w.from <= t
    /\ w.to = Open \/ t <= w.to
=============================================================================
