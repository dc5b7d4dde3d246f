------------------------------ MODULE RadioChatter ------------------------------
\* Radio Chatter (web/src/chatter.tsx): a live feed and two lists of domains, fetched
\* for the filter and the tab.
EXTENDS Naturals, FiniteSets

CONSTANTS Filters, MaxFlights

ChatterAssumption == IsFiniteSet(Filters) /\ MaxFlights \in Nat \ {0}

Tabs == {"feed", "top", "new"}
Queries == [filter : Filters, tab : Tabs, flagged : BOOLEAN]
NoQuery == [tab |-> "none"]

\* The reader's choices, the loads in flight, and the load each list is from. A load
\* fetches the summary, then the list of its tab.
VARIABLE chatter

TypeOK ==
    chatter \in [visible : BOOLEAN, filter : Filters, scrubbed : BOOLEAN, tab : Tabs, flagged : BOOLEAN,
                 loads : SUBSET [query : Queries, summed : BOOLEAN], capable : {"unknown", "yes", "no"},
                 events : Queries \cup {NoQuery}, domains : Queries \cup {NoQuery}]

Query(c) == [filter |-> c.filter, tab |-> c.tab, flagged |-> c.flagged]
Load(c) == [query |-> Query(c), summed |-> FALSE]

Init ==
    \E f \in Filters, s \in BOOLEAN :
        LET c == [visible |-> TRUE, filter |-> f, scrubbed |-> s, tab |-> "feed", flagged |-> FALSE,
                  loads |-> {}, capable |-> "unknown", events |-> NoQuery, domains |-> NoQuery]
        IN  chatter = [c EXCEPT !.loads = {Load(c)}]

\* A choice makes load anew, and the effect calls it.
Chosen(c) ==
    /\ c # chatter
    /\ Cardinality(chatter.loads) < MaxFlights
    /\ chatter' = [c EXCEPT !.loads = @ \cup {Load(c)}]

PicksTab == \E tb \in Tabs : Chosen([chatter EXCEPT !.tab = tb])
TogglesFlagged == chatter.tab = "feed" /\ Chosen([chatter EXCEPT !.flagged = ~@])
FilterChanges == \E f \in Filters, s \in BOOLEAN : Chosen([chatter EXCEPT !.filter = f, !.scrubbed = s])

\* Only the feed is live.
Poll ==
    /\ chatter.visible /\ chatter.tab = "feed" /\ ~chatter.scrubbed
    /\ Cardinality(chatter.loads) < MaxFlights
    /\ chatter' = [chatter EXCEPT !.loads = @ \cup {Load(chatter)}]

VisibilityChanges ==
    chatter' = [chatter EXCEPT !.visible = ~@,
                               !.loads = IF ~chatter.visible /\ chatter.tab = "feed" /\ ~chatter.scrubbed
                                         THEN @ \cup {Load(chatter)} ELSE @]

SummaryArrives(l) ==
    /\ l \in chatter.loads /\ ~l.summed
    /\ \E able \in {"yes", "no"} :
         chatter' = [chatter EXCEPT !.capable = able, !.loads = (@ \ {l}) \cup {[l EXCEPT !.summed = TRUE]}]

\* The answer goes where the tab says that the load was made for; the two lists of
\* domains share their state.
IsFeed(q) == q.tab = "feed"

ListArrives(l) ==
    /\ l \in chatter.loads /\ l.summed
    /\ chatter' = [chatter EXCEPT !.loads = @ \ {l},
                                  !.events = IF IsFeed(l.query) THEN l.query ELSE @,
                                  !.domains = IF IsFeed(l.query) THEN @ ELSE l.query]

Fails(l) == l \in chatter.loads /\ chatter' = [chatter EXCEPT !.loads = @ \ {l}]

Next ==
    \/ PicksTab \/ TogglesFlagged \/ FilterChanges \/ Poll \/ VisibilityChanges
    \/ \E l \in chatter.loads : SummaryArrives(l) \/ ListArrives(l) \/ Fails(l)

\* Nothing is shown before it is known whether lookups can be seen.
Shown == IF chatter.capable # "yes" THEN NoQuery
         ELSE IF chatter.tab = "feed" THEN chatter.events ELSE chatter.domains

\* A row of lookups is never drawn as a row of domains, nor the other way round,
\* although the reader moves between the tabs while loads are under way
\* (chatter.tsx:63). The two lists of domains do show each other's rows.
ListsKeepTheirKind ==
    Shown # NoQuery => (IsFeed(Shown) <=> chatter.tab = "feed")
=============================================================================
