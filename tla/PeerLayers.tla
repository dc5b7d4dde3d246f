------------------------------- MODULE PeerLayers -------------------------------
\* Whose traffic the Watchtower shows, and what is selected in it (web/src/app.tsx,
\* layerbar.tsx): this machine's, one peer's, or everything.
\*
\* The peers the bar offers and the destinations they reported come from requests
\* whose answers are fixed when they are made and land at any later time. An effect
\* of the framework runs after the change that calls for it.
EXTENDS Naturals, FiniteSets

CONSTANTS
    Peers,       \* machines that may be paired with this one
    Endpoints,   \* destinations of this machine
    None         \* nothing selected

LayerAssumption ==
    /\ IsFiniteSet(Peers) /\ IsFiniteSet(Endpoints)
    /\ None \notin Endpoints \cup Peers /\ {"mine", "all"} \cap Peers = {}

Loads == [cancelled : BOOLEAN, peers : SUBSET Peers]

\* paired: the peers the service has; mounted: the Watchtower is the view; offered:
\* the peers of the bar; asked: answers of /api/dispatch in flight; loads: those of
\* /api/dispatch/destinations; dests: the peers whose destinations are held; address
\* and row: what is selected of this machine's and of the peers'.
VARIABLE layers

TypeOK ==
    layers \in [paired : SUBSET Peers, visible : BOOLEAN, mounted : BOOLEAN,
                offered : SUBSET Peers, asked : SUBSET SUBSET Peers, layer : {"mine", "all"} \cup Peers,
                loads : SUBSET Loads, dests : SUBSET Peers,
                address : Endpoints \cup {None}, row : Peers \cup {None}]

Init ==
    \E ps \in SUBSET Peers, m \in BOOLEAN :
        layers = [paired |-> ps, visible |-> TRUE, mounted |-> m, offered |-> {}, asked |-> {ps},
                  layer |-> "mine", loads |-> {}, dests |-> {}, address |-> None, row |-> None]

-------------------------------------------------------------------------------
\* What is on screen.

ShownPeers ==
    CASE layers.layer = "mine" -> {}
      [] layers.layer = "all" -> layers.dests
      [] OTHER -> layers.dests \cap {layers.layer}

ShownEndpoints == IF layers.layer \in {"mine", "all"} THEN Endpoints ELSE {}

LayerBarShown == layers.offered # {}

\* The sheets look their subject up in what is held, the first whatever the layer.
RapSheetShown == layers.mounted /\ layers.address # None
PeerSheetShown == layers.mounted /\ layers.row \in ShownPeers

-------------------------------------------------------------------------------
\* Peers and layers.

\* Every twenty seconds, on screen or not.
AskPeers == layers' = [layers EXCEPT !.asked = @ \cup {layers.paired}]

\* Switched off and failed both count as no peers.
PeersArrive(answer) ==
    /\ answer \in layers.asked
    /\ \E ps \in {answer, {}} : layers' = [layers EXCEPT !.asked = @ \ {answer}, !.offered = ps]

Load == [cancelled |-> FALSE, peers |-> layers.paired]
Cancelled == {[l EXCEPT !.cancelled = TRUE] : l \in layers.loads}

\* The effect on the layer: cancel what is in flight; load, or hold nothing.
LayerBecomes(new) ==
    layers' = [layers EXCEPT !.layer = new,
                             !.dests = IF new = "mine" THEN {} ELSE @,
                             !.loads = IF layers.mounted /\ new # "mine"
                                       THEN Cancelled \cup {Load} ELSE Cancelled]

PicksLayer ==
    /\ LayerBarShown
    /\ \E new \in ({"mine", "all"} \cup layers.offered) \ {layers.layer} : LayerBecomes(new)

\* A peer that goes away takes its layer with it.
LayerIsLost == layers.layer \in Peers \ layers.offered

LayerLost == LayerIsLost /\ LayerBecomes("mine")

\* Slip: everything is fetched once.
IsPolled_Slip(layer) == layer \in Peers
IsPolled(layer) == layer # "mine"

PollDestinations ==
    /\ layers.visible /\ layers.mounted /\ IsPolled(layers.layer)
    /\ layers' = [layers EXCEPT !.loads = @ \cup {Load}]

IsTaken(l) == ~l.cancelled

DestinationsArrive(l) ==
    /\ l \in layers.loads
    /\ layers' = [layers EXCEPT !.loads = @ \ {l}, !.dests = IF IsTaken(l) THEN l.peers ELSE @]

DestinationsFail(l) ==
    /\ l \in layers.loads
    /\ layers' = [layers EXCEPT !.loads = @ \ {l}]

-------------------------------------------------------------------------------
\* Selecting. A row is clicked once more to deselect it.

Toggled(old, new) == IF old = new THEN None ELSE new

SelectPeer(p) ==
    /\ layers.mounted /\ p \in ShownPeers
    /\ LET new == Toggled(layers.row, p)
       IN  layers' = [layers EXCEPT !.row = new, !.address = IF new = None THEN @ ELSE None]

SelectEndpoint(e) ==
    /\ layers.mounted /\ e \in ShownEndpoints
    /\ layers' = [layers EXCEPT !.row = None, !.address = Toggled(@, e)]

\* The map was given onSelect itself: a click on a point, or beside every point.
SelectOnMap ==
    /\ layers.mounted
    /\ \E e \in ShownEndpoints \cup {None} : layers' = [layers EXCEPT !.address = e]

CloseSheet ==
    \/ RapSheetShown /\ layers' = [layers EXCEPT !.address = None]
    \/ PeerSheetShown /\ layers' = [layers EXCEPT !.row = None]

-------------------------------------------------------------------------------
\* The page and the world.

\* WatchtowerView goes with its state, and comes back without.
Navigates ==
    layers' = [layers EXCEPT !.mounted = ~@, !.dests = {}, !.row = None,
                             !.loads = IF ~layers.mounted /\ layers.layer # "mine"
                                       THEN Cancelled \cup {Load} ELSE Cancelled]

VisibilityChanges ==
    layers' = [layers EXCEPT !.visible = ~@,
                             !.loads = IF ~layers.visible /\ layers.mounted /\ IsPolled(layers.layer)
                                       THEN @ \cup {Load} ELSE @]

PairingChanges ==
    \E p \in Peers :
        layers' = [layers EXCEPT !.paired = IF p \in @ THEN @ \ {p} ELSE @ \cup {p}]

Next ==
    \/ AskPeers \/ PicksLayer \/ LayerLost \/ PollDestinations
    \/ \E answer \in layers.asked : PeersArrive(answer)
    \/ \E l \in layers.loads : DestinationsArrive(l) \/ DestinationsFail(l)
    \/ \E p \in Peers : SelectPeer(p)
    \/ \E e \in Endpoints : SelectEndpoint(e)
    \/ SelectOnMap \/ CloseSheet \/ Navigates \/ VisibilityChanges \/ PairingChanges

Spec == Init /\ [][Next]_layers

-------------------------------------------------------------------------------
\* The rows of a machine that was unpaired leave the screen of a reader who looks,
\* on every layer, although answers from before land later and requests fail
\* (app.tsx:391 "A peer that goes away takes its layer with it"; app.tsx:711).
UnpairedLeavesTheScreen ==
    \A p \in Peers : <>[](layers.visible /\ p \notin layers.paired) => <>[](p \notin ShownPeers)
=============================================================================
