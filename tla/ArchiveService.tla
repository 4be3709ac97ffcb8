--------------------------- MODULE ArchiveService ---------------------------
(***************************************************************************)
(* The archive cache as an RPC sees it (internal/services/lottery_service.go *)
(* and Simulate): every handler resolves one window into one archive, and    *)
(* never learns for which window that archive was built.  LotteryManager     *)
(* with the window each caller asked for, which the manager forgets as soon  *)
(* as it has made a key of it.                                               *)
(***************************************************************************)
EXTENDS LotteryManager

VARIABLES
    asked,        \* the window of the call a client is in
    overlapped    \* history: a load began while another one was in flight

serviceVars == <<vars, asked, overlapped>>

ServiceInit ==
    /\ Init
    /\ asked = [c \in Clients |-> Nil]
    /\ overlapped = FALSE

\* s.archive(ctx, req.GetWindow()).
archive(c, w) ==
    /\ ArchiveHit(c, w) \/ ArchiveMiss(c, w)
    /\ asked' = [asked EXCEPT ![c] = w]
    /\ overlapped' = (overlapped \/ (pc'[c] = "build" /\ \E e \in Cached : InFlight(e)))

\* The rest of the call.
Continue(c) ==
    /\ pc[c] # "idle"
    /\ Caller(c)
    /\ asked' = [asked EXCEPT ![c] = IF pc'[c] = "idle" THEN Nil ELSE @]
    /\ UNCHANGED overlapped

ServiceNext ==
    \/ (Writer \/ Quiet) /\ UNCHANGED <<asked, overlapped>>
    \/ \E c \in Clients : Continue(c) \/ \E w \in Windows : archive(c, w)

ServiceSpec == ServiceInit /\ [][ServiceNext]_serviceVars

-----------------------------------------------------------------------------

\* A draw on the first or the last calendar day of a window.
OnEdge(d, w) == Day(DrawDate[d]) \in {Day(w.from), Day(w.to)}

\* What a handler gets fits the window it asked for, although windows are keyed
\* by calendar day and the archive was built (and is invalidated) for the window
\* of whoever came first: no draw from outside, and every draw inside at least
\* as it was announced before the call.  The days at the edges are the exception.
AnswersWhatWasAsked ==
    \A c \in Clients :
        LET w == normalizeWindow(asked[c])
            answered == arch[ent[c]]
        IN  pc[c] = "served" /\ answered # Nil =>
            \A d \in {x \in Draws : ~OnEdge(x, w)} :
                IF InWindow(DrawDate[d], w)
                THEN answered.whole => floor[c][d] <= answered.rows[d]
                ELSE answered.rows[d] = Absent

\* The cache keeps to maxCacheEntries as long as no two loads have overlapped and
\* the list is not torn: eviction happens once per miss, takes the tail, and
\* passes over a tail that is being loaded.
CapUnlessOverlapped ==
    ~torn /\ ~overlapped => Cardinality(Cached) <= MaxCacheEntries

=============================================================================
