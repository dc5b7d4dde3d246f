----------------------------- MODULE WatchtowerMap -----------------------------
\* The map of the Watchtower (web/src/map.ts, and its canvas and buttons in app.tsx):
\* a view that is zoomed and dragged, and a canvas that is redrawn only when there is
\* something to redraw.
\*
\* One axis of the projection stands for both, its offsets in half pixels. A picture
\* is not kept but whether what it was drawn from still holds.
EXTENDS Integers

CONSTANTS
    Frames,     \* sizes of the canvas, each with the land's bounds fitted into it
    MaxZoom,
    Wants,      \* offsets a zoom may ask for, about wherever the pointer is
    Steps,      \* distances of one drag event
    Keys,       \* destinations that can be drawn
    None

\* fitExtent centres the land in the frame.
ASSUME MapAssumption ==
    /\ \A f \in Frames : f \in [lo : Int, hi : Int, base : Int, extent : Int]
    /\ \A f \in Frames : f.lo + f.hi = f.extent /\ f.lo >= 0 /\ f.lo <= f.hi
    /\ MaxZoom \in Nat \ {0, 1} /\ Wants \subseteq Int /\ Steps \subseteq Int
    /\ None \notin Keys

\* A canvas that was not measured yet.
Unsized == [lo |-> 0, hi |-> 0, base |-> 0, extent |-> 0]
Sizes == Frames \cup {Unsized}
Zooms == 1..MaxZoom

VARIABLES
    view,    \* the frame, the zoom and the offset of the projection
    limits,  \* the buttons' copy of whether the zoom is at its ends
    mouse,   \* the button is held after a press on the map; it moved; what is under it
    map      \* the map's data, caches and canvas

mapVars == <<view, limits, mouse, map>>

MapTypeOK ==
    /\ view \in [frame : Sizes, k : Zooms, t : Int]
    /\ limits \in [min : BOOLEAN, max : BOOLEAN]
    /\ mouse \in [dragging : BOOLEAN, moved : BOOLEAN, clicks : BOOLEAN]
    /\ map \in [arcs : SUBSET Keys, active : SUBSET Keys, selected : Keys \cup {None}, hover : Keys \cup {None},
                wanted : BOOLEAN, countries : BOOLEAN, borders : BOOLEAN, loading : BOOLEAN,
                projected : BOOLEAN, basemap : {"none", "current", "old"}, settled : BOOLEAN,
                drawn : BOOLEAN, tip : Keys \cup {None}]

-------------------------------------------------------------------------------
\* The view.

\* Keeps the world covering the frame: narrower than it, centred.
\* Slip: only the fitted view is centred.
Clamp_Slip(f, k, want) ==
    LET Least(x, y) == IF x <= y THEN x ELSE y
        Most(x, y) == IF x >= y THEN x ELSE y
    IN  IF k = 1 THEN 2 * f.base
        ELSE Least(2 * k * (f.base - f.lo), Most(2 * f.extent - 2 * k * (f.hi - f.base), want))
Clamp(f, k, want) ==
    LET a == 2 * k * (f.lo - f.base)
        b == 2 * k * (f.hi - f.base)
        Least(x, y) == IF x <= y THEN x ELSE y
        Most(x, y) == IF x >= y THEN x ELSE y
    IN  IF b - a <= 2 * f.extent THEN f.extent - k * (f.lo + f.hi - 2 * f.base)
        ELSE Least(0 - a, Most(2 * f.extent - b, want))

View(f, k, want) == [frame |-> f, k |-> k, t |-> Clamp(f, k, want)]

\* The zoom is kept across a resize, about the middle of the frame.
Resized(f) == View(f, view.k, f.extent - view.k * (f.extent - 2 * f.base))

-------------------------------------------------------------------------------
\* What is drawn.

\* Something the picture shows has changed: what was drawn from it is old.
Outdated(m) ==
    [m EXCEPT !.basemap = IF @ = "none" THEN "none" ELSE "old", !.drawn = FALSE]
Invalidated(m) == [Outdated(m) EXCEPT !.basemap = "none", !.settled = FALSE]

Moving(m) == m.active # {}

\* baseLayer: the copy, drawn first if there is none. It has the arcs that stand still.
BaseLayer(m) ==
    IF m.basemap # "none" THEN m.basemap
    ELSE IF m.projected THEN "current" ELSE "old"

\* draw: the base, the arcs that move and the selected one over it, then the tooltip.
Draw(m) ==
    IF view.frame.extent = 0 THEN m
    ELSE [m EXCEPT !.basemap = BaseLayer(m), !.drawn = BaseLayer(m) = "current" /\ m.projected,
                   !.tip = m.hover]

\* A loop that skips the frames in which nothing has changed.
Frame(m) ==
    IF Moving(m) THEN [Draw(m) EXCEPT !.settled = FALSE]
    ELSE IF ~m.settled THEN [Draw(m) EXCEPT !.settled = TRUE]
    ELSE m

\* Every arc is projected again when the data or the projection changes.
Projected(m) == [m EXCEPT !.projected = TRUE]

\* Slip: the arc stays in the cache when it is selected.
WithSelected_Slip(m, x) == [Outdated(m) EXCEPT !.settled = FALSE, !.selected = x]
WithSelected(m, x) == [Invalidated(m) EXCEPT !.selected = x]

WithData(m, keys, act) == Projected([Invalidated(m) EXCEPT !.arcs = keys, !.active = act])

\* Borders are on the base layer. The file with them is fetched the first time.
WithCountries(m, on) ==
    IF on /\ ~m.borders THEN [m EXCEPT !.countries = TRUE, !.loading = TRUE]
    ELSE [Invalidated(m) EXCEPT !.countries = on]

-------------------------------------------------------------------------------
\* A new Watchtower, with the zoom all the way out.

Fresh(keys, act, sel, on) ==
    [arcs |-> keys, active |-> act, selected |-> sel, hover |-> None, wanted |-> on, countries |-> on,
     borders |-> FALSE, loading |-> on, projected |-> TRUE, basemap |-> "none", settled |-> FALSE,
     drawn |-> FALSE, tip |-> None]

MapInit ==
    /\ view = [frame |-> Unsized, k |-> 1, t |-> 0]
    /\ limits = [min |-> TRUE, max |-> FALSE]
    /\ mouse = [dragging |-> FALSE, moved |-> FALSE, clicks |-> FALSE]
    /\ \E on \in BOOLEAN : map = Fresh({}, {}, None, on)

\* Another view takes the Watchtower's place, and it comes back.
Remounts ==
    /\ view' = [frame |-> Unsized, k |-> 1, t |-> 0]
    /\ limits' = [min |-> TRUE, max |-> FALSE]
    /\ mouse' = [dragging |-> FALSE, moved |-> FALSE, clicks |-> FALSE]
    /\ map' = Fresh(map.arcs, map.active, map.selected, map.wanted)

-------------------------------------------------------------------------------
\* applyView drops both caches and reports to the buttons.
Applied(v) ==
    /\ view' = v
    /\ map' = Projected(Invalidated(map))
    /\ limits' = [min |-> v.k <= 1, max |-> v.k >= MaxZoom]

Resize == \E f \in Frames : Applied(Resized(f)) /\ UNCHANGED mouse

\* The wheel, about the pointer; the buttons, about this network. Nothing happens at
\* an end.
ZoomsTo(k) ==
    /\ k # view.k
    /\ \E want \in Wants : Applied(View(view.frame, k, want))
    /\ UNCHANGED mouse

Wheel == \E k \in Zooms : ZoomsTo(k)
ZoomIn == ~limits.max /\ \E k \in Zooms : k > view.k /\ ZoomsTo(k)
ZoomOut == ~limits.min /\ \E k \in Zooms : k < view.k /\ ZoomsTo(k)

\* Nothing to pan when the whole world is in the frame.
Press ==
    /\ view.k > 1 /\ ~mouse.dragging
    /\ mouse' = [dragging |-> TRUE, moved |-> FALSE, clicks |-> FALSE]
    /\ UNCHANGED <<view, limits, map>>

Drag ==
    /\ mouse.dragging
    /\ \E d \in Steps : Applied(View(view.frame, view.k, view.t + 2 * d))
    /\ \E far \in BOOLEAN : mouse' = [mouse EXCEPT !.moved = @ \/ far]

\* Released over the map, a click follows; released elsewhere, none does.
Release ==
    /\ mouse.dragging
    /\ \E over \in BOOLEAN : mouse' = [mouse EXCEPT !.dragging = FALSE, !.clicks = over]
    /\ UNCHANGED <<view, limits, map>>

\* The end of a drag is no click. Where nothing can be panned the press is not noted.
Click ==
    /\ ~mouse.dragging /\ (mouse.clicks \/ view.k = 1)
    /\ mouse' = [mouse EXCEPT !.moved = FALSE, !.clicks = FALSE]
    /\ IF mouse.moved THEN UNCHANGED map
       ELSE \E x \in map.arcs \cup {None} :
              map' = IF x = map.selected THEN map ELSE WithSelected(map, x)
    /\ UNCHANGED <<view, limits>>

\* The arc under the pointer; none when the pointer leaves.
Hover ==
    /\ \E x \in IF mouse.dragging THEN {None} ELSE map.arcs \cup {None} : map' = [map EXCEPT !.hover = x]
    /\ UNCHANGED <<view, limits, mouse>>

-------------------------------------------------------------------------------
\* What the page hands over, and the loop.

SetData ==
    /\ \E keys \in SUBSET Keys : \E act \in SUBSET keys : map' = WithData(map, keys, act)
    /\ UNCHANGED <<view, limits, mouse>>

SetSelected ==
    /\ \E x \in (Keys \cup {None}) \ {map.selected} : map' = WithSelected(map, x)
    /\ UNCHANGED <<view, limits, mouse>>

\* The observer of the attribute, and later the effect: drawn at once.
RefreshTheme ==
    /\ map' = Draw(Invalidated(map))
    /\ UNCHANGED <<view, limits, mouse>>

SetCountries ==
    /\ LET on == ~map.wanted
           m == WithCountries(map, on)
           later == on /\ ~map.borders
       IN  map' = [IF later THEN m ELSE Draw(m) EXCEPT !.wanted = on]
    /\ UNCHANGED <<view, limits, mouse>>

BordersArrive ==
    /\ map.loading
    /\ \E ok \in BOOLEAN :
         map' = Draw(Invalidated([map EXCEPT !.loading = FALSE, !.borders = ok, !.countries = @ /\ ok]))
    /\ UNCHANGED <<view, limits, mouse>>

Tick ==
    /\ map' = Frame(map)
    /\ UNCHANGED <<view, limits, mouse>>

MapNext ==
    \/ Remounts \/ Resize \/ Wheel \/ ZoomIn \/ ZoomOut \/ Press \/ Drag \/ Release \/ Click \/ Hover
    \/ SetData \/ SetSelected \/ RefreshTheme \/ SetCountries \/ BordersArrive \/ Tick

MapSpec == MapInit /\ [][MapNext]_mapVars

-------------------------------------------------------------------------------
\* A loop that has stopped drawing leaves the current picture on the canvas: of this
\* data, selection, theme, size and zoom, whatever order they changed in, and however
\* the borders' file came in between (map.ts:203).
CanvasIsCurrent ==
    map.settled /\ view.frame.extent # 0 => map.drawn

\* The world covers the frame, or lies in it with equal margins where it is narrower, at
\* every zoom and after any run of zooms, drags and resizes; all the way out is the
\* fitted view, exactly; and the buttons know the ends (map.ts:304-310, 369, 385).
FrameIsCovered ==
    LET a == 2 * view.k * (view.frame.lo - view.frame.base)
        b == 2 * view.k * (view.frame.hi - view.frame.base)
    IN  /\ view.k = 1 => view.t = 2 * view.frame.base
        /\ b - a > 2 * view.frame.extent => view.t + a <= 0 /\ view.t + b >= 2 * view.frame.extent
        /\ b - a <= 2 * view.frame.extent => view.t + a = 2 * view.frame.extent - (view.t + b)
        /\ limits = [min |-> view.k = 1, max |-> view.k = MaxZoom]
=============================================================================
