------------------------------ MODULE PrecinctMap ------------------------------
\* The Precinct Map (web/src/precinct.tsx with usePolling of freshness.tsx): the network
\* as a diagram, laid out by a simulation that runs hot once, is nudged when a node
\* comes or goes, and is otherwise left alone.
EXTENDS Naturals, FiniteSets

CONSTANTS
    Devices, Orgs,   \* what may stand on the diagram
    Layers,          \* whose traffic
    Crowded(_, _),   \* the names of two nodes cannot both be written
    None

PrecinctAssumption ==
    /\ IsFiniteSet(Devices) /\ IsFiniteSet(Orgs) /\ Devices \cap Orgs = {}
    /\ None \notin Devices \cup Orgs \cup Layers

Nodes == Devices \cup Orgs
Edges == Devices \X Orgs
Graphs == [nodes : SUBSET Nodes, edges : SUBSET Edges]
NoGraph == [nodes |-> {}, edges |-> {<<None, None>>}]
Sizes == {"narrow", "wide"}

\* visible; the layer; load in flight and its layer; the answer held; the size of the
\* panel; the nodes and links laid out and for which size; the simulation; whether the
\* last run of the effect left something to clean up; the node under the pointer.
VARIABLE precinct

TypeOK ==
    precinct \in [visible : BOOLEAN, layer : Layers, asked : Layers \cup {None},
                  topo : Graphs \cup {NoGraph}, dims : Sizes \cup {None},
                  nodes : SUBSET Nodes, links : SUBSET Edges, laid : Sizes \cup {None},
                  sim : {"none", "running", "still"}, cleanup : BOOLEAN, hover : Nodes \cup {None}]

Init ==
    \E l \in Layers :
        precinct = [visible |-> TRUE, layer |-> l, asked |-> l, topo |-> NoGraph, dims |-> None,
                    nodes |-> {}, links |-> {}, laid |-> None,
                    sim |-> "none", cleanup |-> FALSE, hover |-> None]

-------------------------------------------------------------------------------
\* The layout.

\* Anything that requires a new one: a node arriving or leaving, or a new size.
StructureChanged(p) ==
    \/ p.laid # p.dims
    \/ Cardinality(p.nodes) # Cardinality(p.topo.nodes)
    \/ ~(p.topo.nodes \subseteq p.nodes)

MembershipChanged(previous, next) ==
    Cardinality(previous) # Cardinality(next) \/ ~(next \subseteq previous)

\* The effect on the answer and the size. It first cleans up after its last run,
\* which stops a simulation. What is laid out again keeps its place by identity.
LayOut(p) ==
    LET q == [p EXCEPT !.sim = IF p.cleanup /\ p.sim = "running" THEN "still" ELSE @,
                       !.cleanup = FALSE]
        present == {e \in p.topo.edges : {e[1], e[2]} \subseteq p.topo.nodes}
    IN  IF p.topo = NoGraph \/ p.dims = None THEN q
        ELSE IF p.sim # "none" /\ ~StructureChanged(p) THEN q
        ELSE [q EXCEPT !.nodes = p.topo.nodes, !.links = present, !.laid = p.dims, !.cleanup = TRUE,
                       !.sim = IF p.nodes = {} \/ MembershipChanged(p.nodes, p.topo.nodes)
                               THEN "running" ELSE "still"]

SimulationCools ==
    /\ precinct.sim = "running"
    /\ precinct' = [precinct EXCEPT !.sim = "still"]

\* The first size, and then only meaningful changes.
Resized ==
    \E d \in Sizes \ {precinct.dims} : precinct' = LayOut([precinct EXCEPT !.dims = d])

-------------------------------------------------------------------------------
\* Polling. A request under way holds every other back.

Asking(p) == IF p.asked = None THEN [p EXCEPT !.asked = p.layer] ELSE p

Poll ==
    /\ precinct.visible /\ precinct.asked = None
    /\ precinct' = Asking(precinct)

RefreshPressed ==
    /\ precinct.topo # NoGraph /\ precinct.asked = None
    /\ precinct' = Asking(precinct)

VisibilityChanges ==
    precinct' = (LET p == [precinct EXCEPT !.visible = ~@] IN IF p.visible THEN Asking(p) ELSE p)

\* The effect on the layer refreshes.
LayerChanges ==
    \E l \in Layers \ {precinct.layer} : precinct' = Asking([precinct EXCEPT !.layer = l])

TopologyArrives ==
    /\ precinct.asked # None
    /\ \E g \in Graphs : precinct' = LayOut([precinct EXCEPT !.asked = None, !.topo = g])

TopologyFails ==
    /\ precinct.asked # None
    /\ precinct' = [precinct EXCEPT !.asked = None]

-------------------------------------------------------------------------------
\* Painting and pointing. The paint loop draws what is laid out, on every frame.

\* Devices before organizations; the larger is known by the relation only.
WrittenBefore(n, m) == n = precinct.hover \/ (n \in Devices /\ m \in Orgs)

\* A name is left out when one written before is in its way, the hovered node's never.
Labelled ==
    {n \in precinct.nodes :
        n = precinct.hover \/ ~\E m \in precinct.nodes \ {n} : WrittenBefore(m, n) /\ Crowded(m, n)}

TouchedLinks == {l \in precinct.links : precinct.hover \in {l[1], l[2]}}

Move ==
    \E n \in (precinct.nodes \cup {None}) \ {precinct.hover} :
        precinct' = [precinct EXCEPT !.hover = n]

EmptyNoteShown == precinct.topo # NoGraph /\ precinct.topo.nodes = {}
TipShown == precinct.hover # None

Next ==
    \/ SimulationCools \/ Resized \/ Poll \/ RefreshPressed \/ VisibilityChanges \/ LayerChanges
    \/ TopologyArrives \/ TopologyFails \/ Move

Spec == Init /\ [][Next]_precinct

-------------------------------------------------------------------------------
\* The diagram shows the devices and destinations of the last answer, in a layout for
\* the panel as it is, although most answers are only written over the nodes in place
\* and sizes and answers come in any order (precinct.tsx:75 "Build or update the
\* simulation when the graph changes").
DiagramShowsTheGraph ==
    precinct.topo # NoGraph /\ precinct.dims # None =>
        /\ precinct.nodes = precinct.topo.nodes /\ precinct.laid = precinct.dims
        /\ EmptyNoteShown => Labelled = {}

\* What is drawn hangs together, although most answers leave the links alone and a node
\* may go while the pointer is on it: no link leads to a node that is not there, a node
\* that has gone lights none, and the one pointed at has its name (precinct.tsx:353, 429).
DrawingHangsTogether ==
    /\ \A l \in precinct.links : {l[1], l[2]} \subseteq precinct.nodes
    /\ precinct.hover \notin precinct.nodes => TouchedLinks = {}
    /\ TipShown /\ precinct.hover \in precinct.nodes => precinct.hover \in Labelled
=============================================================================
