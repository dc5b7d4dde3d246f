-------------------------------- MODULE Readouts --------------------------------
\* What the page says unasked: the sidebar (web/src/widgets.tsx), the banner of failed
\* writes (health.tsx) and the line on what is shared (PrivacyLine of app.tsx). Each asks
\* when it is mounted and on an interval of its own, and they share nothing: this is
\* any one of them, and a fact of the service that it reports.
EXTENDS Naturals, FiniteSets

CONSTANT Facts   \* how writes are going, what is paired, the glance and its findings

ReadoutAssumption == IsFiniteSet(Facts) /\ "unknown" \notin Facts

\* The fact; the tab; asks in flight, and with which answer; what is said; whether a
\* widget is open, and is to be at the next visit.
VARIABLE readout

TypeOK ==
    readout \in [fact : Facts, visible : BOOLEAN, flights : SUBSET Facts, shown : Facts \cup {"unknown"},
                 open : BOOLEAN, stored : BOOLEAN]

\* Read by the service when asked, delivered later.
Ask(r) == [r EXCEPT !.flights = @ \cup {r.fact}]

Mounted(fact, stored) ==
    Ask([fact |-> fact, visible |-> TRUE, flights |-> {}, shown |-> "unknown", open |-> stored, stored |-> stored])

Init == \E f \in Facts : readout = Mounted(f, TRUE)

IsAsked(r) == r.visible

Poll == IsAsked(readout) /\ readout' = Ask(readout)

VisibilityChanges ==
    readout' = (LET r == [readout EXCEPT !.visible = ~@] IN IF r.visible THEN Ask(r) ELSE r)

Arrives(f) ==
    /\ f \in readout.flights
    /\ readout' = [readout EXCEPT !.flights = @ \ {f}, !.shown = f]

\* Nothing is changed on screen: an unreachable service is said elsewhere.
Fails(f) ==
    /\ f \in readout.flights
    /\ readout' = [readout EXCEPT !.flights = @ \ {f}]

WidgetToggles == readout' = [readout EXCEPT !.open = ~@, !.stored = ~readout.open]

\* What was in flight is cancelled.
Remounts == readout' = Mounted(readout.fact, readout.stored)

FactChanges == \E f \in Facts \ {readout.fact} : readout' = [readout EXCEPT !.fact = f]

Next ==
    \/ Poll \/ VisibilityChanges \/ WidgetToggles \/ Remounts \/ FactChanges
    \/ \E f \in readout.flights : Arrives(f) \/ Fails(f)

\* A statement about where data goes, or that it is being lost, catches up with the fact
\* on a page that is looked at, whatever earlier answers land late (app.tsx:149 "Polled,
\* because this can now change while the page is open"): it is made, again after every
\* sign-in, and in the end nothing else is said.
ReadoutComesTrue ==
    \A f \in Facts :
        <>[](readout.visible /\ readout.fact = f) =>
            <>[](readout.shown \in {f, "unknown"}) /\ []<>(readout.shown = f)
=============================================================================
