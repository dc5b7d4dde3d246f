-------------------------------- MODULE Timeline --------------------------------
\* The scrub control (web/src/timeline.tsx): a bar for every hour of the range, drawn
\* from a request that is made anew when the range changes.
EXTENDS Naturals, FiniteSets

CONSTANTS Ranges, Hours   \* an hour of each range is clicked

TimelineAssumption == IsFiniteSet(Ranges) /\ IsFiniteSet(Hours) /\ {"none"} \cap (Ranges \cup Hours) = {}

\* The view, the filter's range and pinned hour, loads in flight, and the range the
\* bars are of.
VARIABLE line

Loads == [range : Ranges, cancelled : BOOLEAN]

TypeOK ==
    line \in [visible : BOOLEAN, mounted : BOOLEAN, range : Ranges, from : Hours \cup {"none"},
              loads : SUBSET Loads, points : Ranges \cup {"none"}]

Load(r) == [range |-> r, cancelled |-> FALSE]
Cancelled == {[l EXCEPT !.cancelled = TRUE] : l \in line.loads}

Init ==
    \E r \in Ranges :
        line = [visible |-> TRUE, mounted |-> TRUE, range |-> r, from |-> "none",
                loads |-> {Load(r)}, points |-> "none"]

\* The effect on the range and the window: what is in flight is cancelled, and the
\* range as it now is asked for, whatever hour is pinned.
FilterBecomes(r, h) ==
    line' = [line EXCEPT !.range = r, !.from = h,
                         !.loads = IF line.mounted THEN Cancelled \cup {Load(r)} ELSE @]

PicksRange == \E r \in Ranges : (r # line.range \/ line.from # "none") /\ FilterBecomes(r, "none")

\* A click on a bar, when there are bars.
PinsHour ==
    /\ line.mounted /\ line.points # "none"
    /\ \E h \in Hours \ {line.from} : FilterBecomes(line.range, h)

BackToLive == line.from # "none" /\ FilterBecomes(line.range, "none")

Poll ==
    /\ line.mounted /\ line.visible /\ line.from = "none"
    /\ line' = [line EXCEPT !.loads = @ \cup {Load(line.range)}]

\* Slip: the answer is drawn whether its effect is over or not.
IsDrawn_Slip(l) == TRUE
IsDrawn(l) == ~l.cancelled

\* A load that fails draws nothing at all.
Arrives(l) ==
    /\ l \in line.loads
    /\ \E p \in {l.range, "none"} :
         line' = [line EXCEPT !.loads = @ \ {l}, !.points = IF IsDrawn(l) THEN p ELSE @]

\* Another view takes the Watchtower's place.
Navigates ==
    line' = [line EXCEPT !.mounted = ~@, !.points = "none",
                         !.loads = IF line.mounted THEN Cancelled ELSE Cancelled \cup {Load(line.range)}]

VisibilityChanges ==
    line' = [line EXCEPT !.visible = ~@,
                         !.loads = IF ~line.visible /\ line.mounted /\ line.from = "none"
                                   THEN @ \cup {Load(line.range)} ELSE @]

Next ==
    \/ PicksRange \/ PinsHour \/ BackToLive \/ Poll \/ Navigates \/ VisibilityChanges
    \/ \E l \in line.loads : Arrives(l)

\* The bars a reader clicks on are hours of the range chosen, or its load is still to
\* come: an answer for another range that lands late draws nothing (timeline.tsx:24).
TimelineIsOfItsRange ==
    line.points \in {"none", line.range} \/ Load(line.range) \in line.loads
=============================================================================
