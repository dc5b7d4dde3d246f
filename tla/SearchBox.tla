------------------------------- MODULE SearchBox -------------------------------
\* The search of the toolbar (web/src/toolbar.tsx): a term is looked up once it has been
\* left alone for a moment, and picking a result, or Enter, narrows the filter.
\*
\* An answer is of the term and the layer it was asked with, and lands whenever it
\* lands: nothing compares it with what stands in the field by then.
EXTENDS Naturals, FiniteSets

CONSTANTS
    Terms,       \* long enough to be looked up
    Layers,      \* whose traffic is searched
    MaxFlights,  \* searches in flight at once
    None

SearchAssumption ==
    /\ IsFiniteSet(Terms) /\ IsFiniteSet(Layers) /\ {"", "short", None} \cap Terms = {}
    /\ MaxFlights \in Nat \ {0}

Fields == {"", "short"} \cup Terms
Searches == [term : Terms, layer : Layers]
NoSearch == [term |-> None]

\* The field; the layer; timers; searches in flight; the results, and whether they are
\* open; what the filter holds.
VARIABLE search

TypeOK ==
    search \in [term : Fields, layer : Layers, timers : SUBSET Searches, flights : SUBSET Searches,
                results : Searches \cup {NoSearch}, open : BOOLEAN, q : Fields \cup {None}]

Empty(layer, q) ==
    [term |-> "", layer |-> layer, timers |-> {}, flights |-> {}, results |-> NoSearch, open |-> FALSE, q |-> q]

Init == \E l \in Layers : search = Empty(l, None)

\* The effect on the term: its last timer is cleared, and what is too short has no
\* results.
WithTerm(s, x) ==
    IF x = s.term THEN s
    ELSE [s EXCEPT !.term = x,
                   !.timers = IF x \in Terms THEN {[term |-> x, layer |-> s.layer]} ELSE {},
                   !.results = IF x \in Terms THEN @ ELSE NoSearch]

Types == \E x \in Fields : search' = WithTerm(search, x)

TimerFires(s) ==
    /\ s \in search.timers /\ Cardinality(search.flights) < MaxFlights
    /\ search' = [search EXCEPT !.timers = @ \ {s}, !.flights = @ \cup {s}]

ResultsArrive(s) ==
    /\ s \in search.flights
    /\ search' = [search EXCEPT !.flights = @ \ {s}, !.results = s, !.open = TRUE]

SearchFails(s) ==
    /\ s \in search.flights
    /\ search' = [search EXCEPT !.flights = @ \ {s}, !.results = NoSearch]

ResultsShown == search.open /\ search.results # NoSearch

\* A press anywhere else closes the list; coming back to the field opens it.
PressesOutside == search.open /\ search' = [search EXCEPT !.open = FALSE]
Focuses == search.results # NoSearch /\ search' = [search EXCEPT !.open = TRUE]

\* A result sets one part of the filter, and the field is emptied.
Picks ==
    /\ ResultsShown
    /\ search' = [WithTerm(search, "") EXCEPT !.q = search.results.term, !.results = NoSearch, !.open = FALSE]

EscapePressed == search' = [WithTerm(search, "") EXCEPT !.open = FALSE]

EnterPressed ==
    /\ search.term # ""
    /\ search' = [WithTerm(search, "") EXCEPT !.q = search.term, !.open = FALSE]

\* A chip takes its part of the filter away.
ChipPressed == search.q # None /\ search' = [search EXCEPT !.q = None]

\* The layer is another one: nothing is searched again.
LayerChanges == \E l \in Layers \ {search.layer} : search' = [search EXCEPT !.layer = l]

\* A view without a toolbar, and back. What is in flight lands nowhere.
Remounts == search' = Empty(search.layer, search.q)

Next ==
    \/ Types \/ PressesOutside \/ Focuses \/ Picks \/ EscapePressed \/ EnterPressed \/ ChipPressed
    \/ LayerChanges \/ Remounts
    \/ \E s \in Searches : TimerFires(s) \/ ResultsArrive(s) \/ SearchFails(s)

\* A search is about to be made only of what stands in the field: typing on, picking,
\* Escape and Enter all take the timer of an earlier term with them, so that no search
\* is made that nobody waits for any more (toolbar.tsx:118, "a query per keystroke would
\* hammer the database for nothing").
OnlyTheTermIsSought == \A s \in search.timers : s.term = search.term
=============================================================================
