------------------------------- MODULE TowerData -------------------------------
\* The filter every view shares, and the summary and destinations fetched for it
\* (web/src/app.tsx, toolbar.tsx, api.ts).
\*
\* A request carries the filter it was made with, and is made again while others are
\* in flight; its answer lands at any later time, in any order.
EXTENDS Naturals, FiniteSets

CONSTANTS
    Ranges,      \* the relative ranges of the toolbar
    MaxFlights   \* refreshes in flight at once

TowerAssumption ==
    /\ IsFiniteSet(Ranges) /\ Ranges # {} /\ "none" \notin Ranges
    /\ MaxFlights \in Nat \ {0}

\* Narrowed by an application, a country, a search; scrubbed to an explicit window,
\* which overrides the range.
Filters == [range : Ranges, narrow : BOOLEAN, scrubbed : BOOLEAN]
NoFilter == [range |-> "none"]

\* Two filters with one query string are one request.
FilterQuery(f) == [f EXCEPT !.range = IF f.scrubbed THEN CHOOSE r \in Ranges : TRUE ELSE @]
FilterIsActive(f) == f.narrow

VARIABLE tower   \* visible, the filter, refreshes in flight, what is shown

TypeOK ==
    tower \in [visible : BOOLEAN, filter : Filters, flights : SUBSET Filters,
               shown : Filters \cup {NoFilter}]

Init ==
    \E f \in Filters :
        /\ ~f.narrow /\ ~f.scrubbed
        /\ tower = [visible |-> TRUE, filter |-> f, flights |-> {f}, shown |-> NoFilter]

-------------------------------------------------------------------------------
\* What a reader can make of a filter.

SetRange(f) == {[f EXCEPT !.range = r, !.scrubbed = FALSE] : r \in Ranges}
SetPatch(f) == {[f EXCEPT !.narrow = n] : n \in BOOLEAN}
Scrub(f) == {[f EXCEPT !.scrubbed = TRUE]}
BackToLive(f) == {[f EXCEPT !.scrubbed = FALSE]}
\* From the note that nothing was found, which is not there before the first answer.
MayShowEmptyNote == tower.shown # NoFilter
ClearedOnMap(f) ==
    IF MayShowEmptyNote /\ FilterIsActive(f) THEN {[f EXCEPT !.narrow = FALSE, !.scrubbed = FALSE]} ELSE {}

Patches(f) == SetRange(f) \cup SetPatch(f) \cup Scrub(f) \cup BackToLive(f) \cup ClearedOnMap(f)

\* Historical windows do not move, so only live data is polled.
\* Slip: narrowing stops the poll as well.
IsPolled_Slip(f) == ~f.scrubbed /\ ~f.narrow
IsPolled(f) == ~f.scrubbed

Refreshed(flights, f) == flights \cup {FilterQuery(f)}

FilterChanges ==
    \E f \in Patches(tower.filter) \ {tower.filter} :
        /\ Cardinality(tower.flights) < MaxFlights
        /\ tower' = [tower EXCEPT !.filter = f, !.flights = Refreshed(@, f)]

\* The interval, coming back to the tab, or a wipe in Settings.
Refresh ==
    /\ Cardinality(tower.flights) < MaxFlights
    /\ tower' = [tower EXCEPT !.flights = Refreshed(@, tower.filter)]

Poll == tower.visible /\ IsPolled(tower.filter) /\ Refresh
Wiped == Refresh

\* Nothing compares the answer with the filter as it is by now.
Arrives(f) ==
    /\ f \in tower.flights
    /\ tower' = [tower EXCEPT !.flights = @ \ {f}, !.shown = f]

Fails(f) ==
    /\ f \in tower.flights
    /\ tower' = [tower EXCEPT !.flights = @ \ {f}]

VisibilityChanges ==
    tower' = [tower EXCEPT !.visible = ~@,
                           !.flights = IF ~tower.visible /\ IsPolled(tower.filter)
                                       THEN Refreshed(@, tower.filter) ELSE @]

Next ==
    \/ FilterChanges \/ Poll \/ Wiped \/ VisibilityChanges
    \/ \E f \in Filters : Arrives(f) \/ Fails(f)

-------------------------------------------------------------------------------
\* What the reader chose reaches the screen: once a live filter is left alone by a
\* reader who looks, and the service answers again and again, the screen comes to
\* show what the filter selects and stays with it, whatever earlier requests still
\* answer (app.tsx:399; toolbar.tsx:15 "Narrowing here narrows everywhere"). A
\* scrubbed window has no such promise: an answer to an earlier filter that lands
\* last stays.
LiveScreenFollowsFilter ==
    \A f \in Filters :
        ~f.scrubbed /\ <>[](tower.visible /\ tower.filter = f) => <>[](tower.shown = f)
=============================================================================
