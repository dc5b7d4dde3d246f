------------------------------ MODULE PeerDevices ------------------------------
\* The devices of paired machines below the Roster (web/src/roster.tsx): loaded for a
\* layer whenever the layer changes, and never on this machine's own.
\*
\* A load that is overtaken is cancelled, and its answer comes all the same.
EXTENDS FiniteSets

CONSTANTS
    Layers,   \* beyond this machine's own: everything, or one peer
    None

PeerDevicesAssumption == IsFiniteSet(Layers) /\ {None, "mine"} \cap Layers = {}

Loads == [layer : Layers, cancelled : BOOLEAN]

VARIABLE kin   \* the layer, the loads under way, and the layer the devices shown are of

TypeOK == kin \in [layer : Layers \cup {"mine"}, loads : SUBSET Loads, shown : Layers \cup {None}]

\* The effect on the layer, and what it cleans up.
Cancelled(loads) == {[l EXCEPT !.cancelled = TRUE] : l \in loads}

Loading(k) ==
    IF k.layer = "mine" THEN [k EXCEPT !.shown = None]
    ELSE [k EXCEPT !.loads = @ \cup {[layer |-> k.layer, cancelled |-> FALSE]}]

Mounted(layer, loads) == Loading([layer |-> layer, loads |-> Cancelled(loads), shown |-> None])

Init == \E layer \in Layers \cup {"mine"} : kin = Mounted(layer, {})

LayerChanges ==
    \E layer \in (Layers \cup {"mine"}) \ {kin.layer} :
        kin' = Loading([kin EXCEPT !.layer = layer, !.loads = Cancelled(@)])

\* The Roster is left and opened again, on whatever layer was chosen meanwhile.
Remounts == \E layer \in Layers \cup {"mine"} : kin' = Mounted(layer, kin.loads)

Arrives(l) ==
    /\ l \in kin.loads
    /\ kin' = [kin EXCEPT !.loads = @ \ {l}, !.shown = IF l.cancelled THEN @ ELSE l.layer]

Fails(l) ==
    /\ l \in kin.loads
    /\ kin' = [kin EXCEPT !.loads = @ \ {l}, !.shown = IF l.cancelled THEN @ ELSE None]

Next == LayerChanges \/ Remounts \/ \E l \in kin.loads : Arrives(l) \/ Fails(l)

\* The devices below this machine's are those of the layer, or its load is under way and
\* will say: no answer to an earlier choice brings another machine's back, and this
\* machine's own layer shows nobody else's (roster.tsx:61-66).
DevicesAreOfTheLayer ==
    /\ kin.shown \in {None, kin.layer} \/ [layer |-> kin.layer, cancelled |-> FALSE] \in kin.loads
    /\ \A l \in kin.loads : ~l.cancelled => l.layer = kin.layer
=============================================================================
