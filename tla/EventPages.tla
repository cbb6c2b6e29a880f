----------------------------- MODULE EventPages -----------------------------
(***************************************************************************)
(* GET /api/v1/events page by page, while events are recorded.  Each page  *)
(* is a query of its own: ORDER BY ts DESC with LIMIT and OFFSET.          *)
(*                                                                         *)
(* Events of equal ts are in no order, and need not be in the same one for *)
(* two queries.  The filters are fixed over a walk, and only on columns    *)
(* that do not change (see README for the status).                         *)
(***************************************************************************)
EXTENDS Integers, FiniteSets

CONSTANTS Event,    \* the events there may be, records with a ts
          Size      \* the size parameter

ASSUME PagesAssumption == /\ IsFiniteSet(Event)
                          /\ \A e \in Event : e.ts \in Int
                          /\ Size \in Nat \ {0}

VARIABLES stored,   \* the event table
          before,   \* ghost: the events that were there when the walk began
          page,     \* the page parameter of the next request
          listed,   \* what the client has been shown
          repeated, \* what it has been shown on two pages
          complete  \* the client has got a page that was not full

pageVars == <<stored, before, page, listed, repeated, complete>>

\* Pages counted from zero.
OffsetFromZero(p, size) == p * size

Offset(p, size) == (p - 1) * size

\* No page, or one before the first, is the first.
Effective(p) == IF p < 1 THEN 1 ELSE p

\* What ORDER BY ts DESC LIMIT n may keep.
Heads(events, n) ==
    {S \in SUBSET events : /\ Cardinality(S) <= n
                           /\ S # events => Cardinality(S) = n
                           /\ \A e \in S, f \in events \ S : e.ts >= f.ts}

\* queryEvents: what OFFSET skips is such a head, too.
PagesOf(events, p, size) ==
    UNION {Heads(events \ skipped, size) :
               skipped \in Heads(events, Offset(Effective(p), size))}

PagesInit == /\ stored \in SUBSET Event
             /\ before = stored
             /\ page \in {0, 1}
             /\ listed = {}
             /\ repeated = {}
             /\ complete = FALSE

ReadPage == /\ ~complete
            /\ \E items \in PagesOf(stored, page, Size) :
                 /\ listed' = listed \union items
                 /\ repeated' = repeated \union (listed \intersect items)
                 /\ complete' = (Cardinality(items) < Size)
            /\ page' = Effective(page) + 1
            /\ UNCHANGED <<stored, before>>

Record(e) == /\ e \notin stored
             /\ stored' = stored \union {e}
             /\ UNCHANGED <<before, page, listed, repeated, complete>>

PagesNext == ReadPage \/ \E e \in Event : Record(e)

PagesSpec == PagesInit /\ [][PagesNext]_pageVars

\* A walk from the first page to one that is not full may miss an event that
\* was there when it began, as PostgreSQL is free to put events of equal ts in
\* another order for each page.  But then it has shown an event of that ts
\* twice: so a walk can tell, and one over events of different ts misses none,
\* whatever is recorded meanwhile, older or younger.
MissesShowAsRepeats ==
    complete => \A e \in before \ listed : \E f \in repeated : f.ts = e.ts
=============================================================================
