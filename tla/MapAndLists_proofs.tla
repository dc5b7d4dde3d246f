--------------------------- MODULE MapAndLists_proofs ---------------------------
\* Four views of the dashboard, for any sizes and any numbers of destinations, devices,
\* findings, requests and ids: what the map's view covers and what is drawn on it, what
\* is typed into the Roster, what a poll brings to the Wanted List, and what is announced
\* by the alert. They share nothing, and each has an argument of its own.
EXTENDS WatchtowerMap, RosterView, WantedList, Notices, TLAPS, FiniteSetTheorems

-------------------------------------------------------------------------------
\* The map. What its view keeps for every size of frame, every zoom and every offset a
\* zoom or a drag may ask for, and that a still canvas is current.

\* A view that was clamped.
Clamped(v) == v \in [frame : Sizes, k : Zooms, t : Int] /\ \E want \in Int : v = View(v.frame, v.k, want)

LimitsOf(v) == [min |-> v.k <= 1, max |-> v.k >= MaxZoom]

ViewInv == Clamped(view) /\ limits = LimitsOf(view)

-------------------------------------------------------------------------------
LEMMA SizesType ==
    ASSUME NEW f \in Sizes
    PROVE  /\ f.lo \in Int /\ f.hi \in Int /\ f.base \in Int /\ f.extent \in Int
           /\ f.lo + f.hi = f.extent /\ f.lo >= 0 /\ f.lo <= f.hi
BY MapAssumption DEF Sizes, Unsized

\* The clamp with its products already taken: a and b are the ends of the drawn land.
LEMMA ClampArithmetic ==
    ASSUME NEW a \in Int, NEW b \in Int, NEW e \in Int, NEW want \in Int, b - a > 2 * e,
           NEW t \in Int, NEW m \in Int,
           m = IF 2 * e - b >= want THEN 2 * e - b ELSE want,
           t = IF 0 - a <= m THEN 0 - a ELSE m
    PROVE  t + a <= 0 /\ t + b >= 2 * e
OBVIOUS

LEMMA ClampType ==
    ASSUME NEW f \in Sizes, NEW k \in Zooms, NEW want \in Int
    PROVE  Clamp(f, k, want) \in Int
<1>1. /\ f.lo \in Int /\ f.hi \in Int /\ f.base \in Int /\ f.extent \in Int /\ k \in Int
  BY SizesType DEF Zooms
<1>2. PICK a \in Int : a = 2 * k * (f.lo - f.base) BY <1>1
<1>3. PICK b \in Int : b = 2 * k * (f.hi - f.base) BY <1>1
<1>4. PICK c \in Int : c = k * (f.lo + f.hi - 2 * f.base) BY <1>1
<1> QED BY <1>1, <1>2, <1>3, <1>4 DEF Clamp

LEMMA ClampCovers ==
    ASSUME NEW f \in Sizes, NEW k \in Zooms, NEW want \in Int,
           NEW a \in Int, a = 2 * k * (f.lo - f.base),
           NEW b \in Int, b = 2 * k * (f.hi - f.base),
           b - a > 2 * f.extent
    PROVE  Clamp(f, k, want) + a <= 0 /\ Clamp(f, k, want) + b >= 2 * f.extent
<1>1. f.extent \in Int BY SizesType
<1>2. PICK m \in Int : m = IF 2 * f.extent - b >= want THEN 2 * f.extent - b ELSE want BY <1>1
<1>3. PICK t \in Int : t = IF 0 - a <= m THEN 0 - a ELSE m BY <1>1
<1>4. Clamp(f, k, want) = t BY <1>1, <1>2, <1>3 DEF Clamp
<1> QED BY <1>1, <1>2, <1>3, <1>4, ClampArithmetic

LEMMA Distributes ==
    ASSUME NEW k \in Int, NEW u \in Int, NEW v \in Int
    PROVE  2 * k * u + 2 * k * v = 2 * (k * (u + v))
<1>1. k * u + k * v = k * (u + v) OBVIOUS
<1>2. 2 * k * u = 2 * (k * u) /\ 2 * k * v = 2 * (k * v) OBVIOUS
<1>3. PICK p \in Int, q \in Int : p = k * u /\ q = k * v OBVIOUS
<1> QED BY <1>1, <1>2, <1>3

LEMMA EqualMargins ==
    ASSUME NEW a \in Int, NEW b \in Int, NEW c \in Int, NEW e \in Int, NEW t \in Int,
           a + b = 2 * c, t = e - c
    PROVE  t + a = 2 * e - (t + b)
OBVIOUS

LEMMA ClampCentres ==
    ASSUME NEW f \in Sizes, NEW k \in Zooms, NEW want \in Int,
           NEW a \in Int, a = 2 * k * (f.lo - f.base),
           NEW b \in Int, b = 2 * k * (f.hi - f.base),
           b - a <= 2 * f.extent
    PROVE  Clamp(f, k, want) + a = 2 * f.extent - (Clamp(f, k, want) + b)
<1>1. /\ f.lo \in Int /\ f.hi \in Int /\ f.base \in Int /\ f.extent \in Int /\ k \in Int
  BY SizesType DEF Zooms
<1>2. PICK c \in Int : c = k * (f.lo + f.hi - 2 * f.base) BY <1>1
<1>3. a + b = 2 * c
  <2>1. PICK u \in Int, v \in Int : u = f.lo - f.base /\ v = f.hi - f.base BY <1>1
  <2>2. u + v = f.lo + f.hi - 2 * f.base BY <1>1, <2>1
  <2>3. a = 2 * k * u /\ b = 2 * k * v /\ c = k * (u + v) BY <1>2, <2>1, <2>2
  <2>4. 2 * k * u + 2 * k * v = 2 * (k * (u + v)) BY <1>1, <2>1, Distributes
  <2> QED BY <2>3, <2>4
<1>4. Clamp(f, k, want) = f.extent - c BY <1>2 DEF Clamp
<1>5. PICK e \in Int : e = f.extent BY <1>1
<1>6. PICK t \in Int : t = e - c OBVIOUS
<1>7. t + a = 2 * e - (t + b) BY <1>3, <1>6, EqualMargins
<1> QED BY <1>4, <1>5, <1>6, <1>7

LEMMA ClampFitted ==
    ASSUME NEW f \in Sizes, NEW want \in Int
    PROVE  Clamp(f, 1, want) = 2 * f.base
BY SizesType DEF Clamp

LEMMA ViewIsClamped ==
    ASSUME NEW f \in Sizes, NEW k \in Zooms, NEW want \in Int
    PROVE  Clamped(View(f, k, want))
<1>1. Clamp(f, k, want) \in Int BY ClampType
<1>2. View(f, k, want) = [frame |-> f, k |-> k, t |-> Clamp(f, k, want)] BY DEF View
<1> QED BY <1>1, <1>2 DEF Clamped

-------------------------------------------------------------------------------
LEMMA LimitsAtFirst == LimitsOf(View(Unsized, 1, 0)) = [min |-> TRUE, max |-> FALSE]
<1>1. View(Unsized, 1, 0).k = 1 BY DEF View
<1>2. (1 <= 1) = TRUE OBVIOUS
<1>3. (1 >= MaxZoom) = FALSE BY MapAssumption
<1> QED BY <1>1, <1>2, <1>3, Zenon DEF LimitsOf

LEMMA ViewInit == MapInit => ViewInv
<1> SUFFICES ASSUME MapInit PROVE ViewInv
  OBVIOUS
<1>1. Unsized \in Sizes /\ 1 \in Zooms BY MapAssumption DEF Sizes, Zooms
<1>2. Clamp(Unsized, 1, 0) = 0 BY <1>1, ClampFitted DEF Unsized
<1>3. view = View(Unsized, 1, 0) BY <1>2 DEF MapInit, View
<1>4. Clamped(view) BY <1>1, <1>3, ViewIsClamped
<1>5. limits = LimitsOf(view) BY <1>3, LimitsAtFirst DEF MapInit
<1> QED BY <1>4, <1>5 DEF ViewInv

LEMMA ViewStep == ViewInv /\ [MapNext]_mapVars => ViewInv'
<1> SUFFICES ASSUME ViewInv, [MapNext]_mapVars PROVE ViewInv'
  OBVIOUS
<1>1. view.frame \in Sizes /\ view.k \in Zooms /\ view.t \in Int BY DEF ViewInv, Clamped
<1>2. ASSUME NEW f \in Sizes, NEW k \in Zooms, NEW want \in Int, Applied(View(f, k, want))
      PROVE  ViewInv'
  <2>1. Clamped(View(f, k, want)) BY ViewIsClamped
  <2>2. view' = View(f, k, want) /\ limits' = LimitsOf(View(f, k, want)) BY <1>2 DEF Applied, LimitsOf
  <2> QED BY <2>1, <2>2 DEF ViewInv, Clamped, LimitsOf, View
<1>3. ASSUME UNCHANGED <<view, limits>> PROVE ViewInv'
  BY <1>3 DEF ViewInv, Clamped, LimitsOf, View
<1>4. CASE Remounts
  <2>1. Unsized \in Sizes /\ 1 \in Zooms BY MapAssumption DEF Sizes, Zooms
  <2>2. Clamp(Unsized, 1, 0) = 0 BY <2>1, ClampFitted DEF Unsized
  <2>3. view' = View(Unsized, 1, 0) BY <1>4, <2>2 DEF Remounts, View
  <2>4. Clamped(View(Unsized, 1, 0)) BY <2>1, ViewIsClamped
  <2>5. limits' = LimitsOf(View(Unsized, 1, 0)) BY <1>4, LimitsAtFirst DEF Remounts
  <2> QED BY <2>3, <2>4, <2>5 DEF ViewInv, Clamped, LimitsOf, View
<1>5. CASE Resize
  <2>1. PICK f \in Frames : Applied(Resized(f)) BY <1>5 DEF Resize
  <2>2. f \in Sizes BY <2>1 DEF Sizes
  <2>3. f.extent \in Int /\ f.base \in Int /\ view.k \in Int BY <2>2, <1>1, SizesType DEF Zooms
  <2>4. f.extent - view.k * (f.extent - 2 * f.base) \in Int BY <2>3
  <2>5. Applied(View(f, view.k, f.extent - view.k * (f.extent - 2 * f.base))) BY <2>1 DEF Resized
  <2> QED BY <1>1, <1>2, <2>2, <2>4, <2>5
<1>6. ASSUME NEW k \in Zooms, ZoomsTo(k) PROVE ViewInv'
  <2>1. PICK want \in Wants : Applied(View(view.frame, k, want)) BY <1>6 DEF ZoomsTo
  <2>2. want \in Int BY <2>1, MapAssumption
  <2> QED BY <1>1, <1>2, <2>1, <2>2
<1>7. CASE Wheel BY <1>6, <1>7 DEF Wheel
<1>8. CASE ZoomIn BY <1>6, <1>8 DEF ZoomIn
<1>9. CASE ZoomOut BY <1>6, <1>9 DEF ZoomOut
<1>10. CASE Drag
  <2>1. PICK d \in Steps : Applied(View(view.frame, view.k, view.t + 2 * d)) BY <1>10 DEF Drag
  <2>2. view.t + 2 * d \in Int BY <1>1, <2>1, MapAssumption
  <2> QED BY <1>1, <1>2, <2>1, <2>2
<1>11. CASE Press \/ Release \/ Click \/ Hover
  BY <1>3, <1>11 DEF Press, Release, Click, Hover
<1>12. CASE SetData \/ SetSelected \/ RefreshTheme \/ SetCountries \/ BordersArrive \/ Tick
  BY <1>3, <1>12 DEF SetData, SetSelected, RefreshTheme, SetCountries, BordersArrive, Tick
<1>13. CASE UNCHANGED mapVars BY <1>3, <1>13 DEF mapVars
<1> QED BY <1>4, <1>5, <1>7, <1>8, <1>9, <1>10, <1>11, <1>12, <1>13 DEF MapNext

LEMMA ViewCovers == ViewInv => FrameIsCovered
<1> SUFFICES ASSUME ViewInv PROVE FrameIsCovered
  OBVIOUS
<1>1. view.frame \in Sizes /\ view.k \in Zooms /\ view.k \in Int BY DEF ViewInv, Clamped, Zooms
<1>2. PICK want \in Int : view = View(view.frame, view.k, want) BY DEF ViewInv, Clamped
<1>3. view.t = Clamp(view.frame, view.k, want) BY <1>2 DEF View
<1>4. view.frame.lo \in Int /\ view.frame.hi \in Int /\ view.frame.base \in Int /\ view.frame.extent \in Int
  BY <1>1, SizesType
<1>5. PICK a \in Int : a = 2 * view.k * (view.frame.lo - view.frame.base) BY <1>1, <1>4
<1>6. PICK b \in Int : b = 2 * view.k * (view.frame.hi - view.frame.base) BY <1>1, <1>4
<1>7. b - a > 2 * view.frame.extent => view.t + a <= 0 /\ view.t + b >= 2 * view.frame.extent
  BY <1>1, <1>3, <1>5, <1>6, ClampCovers
<1>8. view.k = 1 => view.t = 2 * view.frame.base BY <1>1, <1>3, ClampFitted
<1>9. limits = [min |-> view.k = 1, max |-> view.k = MaxZoom]
  <2>1. view.k <= 1 <=> view.k = 1 BY <1>1 DEF Zooms
  <2>2. view.k >= MaxZoom <=> view.k = MaxZoom BY <1>1, MapAssumption DEF Zooms
  <2>3. limits = [min |-> view.k <= 1, max |-> view.k >= MaxZoom] BY DEF ViewInv, LimitsOf
  <2> QED BY <2>1, <2>2, <2>3
<1>10. b - a <= 2 * view.frame.extent => view.t + a = 2 * view.frame.extent - (view.t + b)
  BY <1>1, <1>3, <1>5, <1>6, ClampCentres
<1> QED BY <1>5, <1>6, <1>7, <1>8, <1>9, <1>10 DEF FrameIsCovered

\* The world covers the frame, or is centred in it, after any run of zooms, drags, resizes
\* and remounts, for every set of sizes whose land is fitted in the middle
\* (Watchtower.clamp, applyView, resize of map.ts).
THEOREM ViewIsCovered == MapSpec => []FrameIsCovered
<1>1. MapInit => ViewInv BY ViewInit
<1>2. ViewInv /\ [MapNext]_mapVars => ViewInv' BY ViewStep
<1>3. ViewInv => FrameIsCovered BY ViewCovers
<1> QED BY <1>1, <1>2, <1>3, PTL DEF MapSpec

-------------------------------------------------------------------------------
\* What holds of the map between two steps, for canvases of which some are not measured
\* yet: everything is projected, the copy is of what is shown, and a loop that has
\* settled has drawn.
Maps ==
    [arcs : SUBSET Keys, active : SUBSET Keys, selected : Keys \cup {None}, hover : Keys \cup {None},
     wanted : BOOLEAN, countries : BOOLEAN, borders : BOOLEAN, loading : BOOLEAN,
     projected : {TRUE}, basemap : {"none", "current"}, settled : BOOLEAN,
     drawn : BOOLEAN, tip : Keys \cup {None}]

CanvasInv == map \in Maps /\ CanvasIsCurrent

LEMMA FreshMap ==
    ASSUME NEW keys \in SUBSET Keys, NEW act \in SUBSET Keys, NEW sel \in Keys \cup {None}, NEW on \in BOOLEAN
    PROVE  Fresh(keys, act, sel, on) \in Maps /\ ~Fresh(keys, act, sel, on).settled
BY DEF Fresh, Maps

LEMMA InvalidatedMap ==
    ASSUME NEW m \in Maps
    PROVE  Invalidated(m) \in Maps /\ ~Invalidated(m).settled
BY DEF Invalidated, Outdated, Maps

\* A map drawn on a measured canvas is current on it.
LEMMA DrawnMap ==
    ASSUME NEW m \in Maps
    PROVE  /\ Draw(m) \in Maps
           /\ Draw(m).settled = m.settled
           /\ view.frame.extent # 0 => Draw(m).drawn
<1>1. BaseLayer(m) = "current"
    BY DEF BaseLayer, Maps
<1>2. CASE view.frame.extent = 0
    BY <1>2 DEF Draw
<1>3. CASE view.frame.extent # 0
  <2>1. (BaseLayer(m) = "current" /\ m.projected) = TRUE
      BY <1>1 DEF Maps
  <2>2. Draw(m) = [m EXCEPT !.basemap = BaseLayer(m), !.drawn = BaseLayer(m) = "current" /\ m.projected,
                            !.tip = m.hover]
      BY <1>3, Zenon DEF Draw
  <2>3. Draw(m) = [m EXCEPT !.basemap = "current", !.drawn = TRUE, !.tip = m.hover]
      BY <1>1, <2>1, <2>2, Zenon
  <2>. QED  BY <2>3 DEF Maps
<1>. QED  BY <1>2, <1>3

LEMMA CanvasStep == CanvasInv /\ [MapNext]_mapVars => CanvasInv'
<1> SUFFICES ASSUME CanvasInv, [MapNext]_mapVars PROVE CanvasInv'
  OBVIOUS
<1>1. map \in Maps BY DEF CanvasInv
<1>2. ASSUME map' \in Maps, ~map'.settled PROVE CanvasInv'
  BY <1>2 DEF CanvasInv, CanvasIsCurrent
<1>3. ASSUME NEW m \in Maps, map' = Draw(m), UNCHANGED view PROVE CanvasInv'
  <2>1. map' \in Maps /\ (view.frame.extent # 0 => map'.drawn) BY <1>3, DrawnMap
  <2> QED BY <1>3, <2>1 DEF CanvasInv, CanvasIsCurrent
<1>4. ASSUME NEW v, Applied(v) PROVE CanvasInv'
  <2>1. Invalidated(map) \in Maps /\ ~Invalidated(map).settled BY <1>1, InvalidatedMap
  <2>2. map' = [Invalidated(map) EXCEPT !.projected = TRUE] BY <1>4 DEF Applied, Projected
  <2>3. map' \in Maps /\ ~map'.settled BY <2>1, <2>2 DEF Maps
  <2> QED BY <1>2, <2>3
<1>5. ASSUME NEW x \in Keys \cup {None}, map' = WithSelected(map, x) PROVE CanvasInv'
  <2>1. Invalidated(map) \in Maps /\ ~Invalidated(map).settled BY <1>1, InvalidatedMap
  <2>2. map' \in Maps /\ ~map'.settled BY <1>5, <2>1 DEF WithSelected, Maps
  <2> QED BY <1>2, <2>2
<1>6. ASSUME UNCHANGED <<view, map>> PROVE CanvasInv'
  BY <1>6 DEF CanvasInv, CanvasIsCurrent, Maps
<1>7. CASE Remounts
  <2>1. map' = Fresh(map.arcs, map.active, map.selected, map.wanted) BY <1>7 DEF Remounts
  <2>2. map.arcs \in SUBSET Keys /\ map.active \in SUBSET Keys /\ map.selected \in Keys \cup {None}
        /\ map.wanted \in BOOLEAN
    BY <1>1 DEF Maps
  <2>3. map' \in Maps /\ ~map'.settled BY <2>1, <2>2, FreshMap
  <2> QED BY <1>2, <2>3
<1>8. CASE Resize BY <1>4, <1>8 DEF Resize
<1>9. CASE Wheel \/ ZoomIn \/ ZoomOut BY <1>4, <1>9 DEF Wheel, ZoomIn, ZoomOut, ZoomsTo
<1>10. CASE Drag BY <1>4, <1>10 DEF Drag
<1>11. CASE Press \/ Release BY <1>6, <1>11 DEF Press, Release
<1>12. CASE Click
  <2>1. map.arcs \subseteq Keys BY <1>1 DEF Maps
  <2>2. CASE UNCHANGED map BY <1>6, <1>12, <2>2 DEF Click
  <2>3. CASE \E x \in map.arcs \cup {None} : map' = WithSelected(map, x) BY <1>5, <2>1, <2>3
  <2> QED BY <1>12, <2>2, <2>3 DEF Click
<1>13. CASE Hover
  <2>1. map.arcs \subseteq Keys BY <1>1 DEF Maps
  <2>2. PICK x \in Keys \cup {None} : map' = [map EXCEPT !.hover = x]
    <3>1. CASE mouse.dragging BY <1>13, <3>1 DEF Hover
    <3>2. CASE ~mouse.dragging BY <1>13, <2>1, <3>2 DEF Hover
    <3> QED BY <3>1, <3>2
  <2>3. map' \in Maps /\ map'.settled = map.settled /\ map'.drawn = map.drawn BY <1>1, <2>2 DEF Maps
  <2> QED BY <1>13, <2>3 DEF Hover, CanvasInv, CanvasIsCurrent
<1>14. CASE SetData
  <2>1. PICK keys \in SUBSET Keys, act \in SUBSET Keys : map' = WithData(map, keys, act) BY <1>14 DEF SetData
  <2>2. Invalidated(map) \in Maps /\ ~Invalidated(map).settled BY <1>1, InvalidatedMap
  <2>3. map' = [[Invalidated(map) EXCEPT !.arcs = keys, !.active = act] EXCEPT !.projected = TRUE]
    BY <2>1 DEF WithData, Projected
  <2>4. map' \in Maps /\ ~map'.settled BY <2>1, <2>2, <2>3 DEF Maps
  <2> QED BY <1>2, <2>4
<1>15. CASE SetSelected BY <1>5, <1>15 DEF SetSelected
<1>16. CASE RefreshTheme
  <2>1. Invalidated(map) \in Maps BY <1>1, InvalidatedMap
  <2> QED BY <1>3, <1>16, <2>1 DEF RefreshTheme
<1>17. CASE SetCountries
  <2>1. PICK on \in BOOLEAN : on = ~map.wanted BY <1>1 DEF Maps
  <2>2. PICK m : m = WithCountries(map, on) OBVIOUS
  <2>3. CASE on /\ ~map.borders
    <3>1. m = [map EXCEPT !.countries = TRUE, !.loading = TRUE] BY <2>2, <2>3 DEF WithCountries
    <3>2. map' = [m EXCEPT !.wanted = on] BY <1>17, <2>1, <2>2, <2>3 DEF SetCountries
    <3>3. map' \in Maps /\ map'.settled = map.settled /\ map'.drawn = map.drawn
      BY <1>1, <2>1, <3>1, <3>2 DEF Maps
    <3> QED BY <1>17, <3>3 DEF SetCountries, CanvasInv, CanvasIsCurrent
  <2>4. CASE ~(on /\ ~map.borders)
    <3>1. Invalidated(map) \in Maps BY <1>1, InvalidatedMap
    <3>2. m = [Invalidated(map) EXCEPT !.countries = on] BY <2>2, <2>4 DEF WithCountries
    <3>3. m \in Maps BY <2>1, <3>1, <3>2 DEF Maps
    <3>4. map' = [Draw(m) EXCEPT !.wanted = on] BY <1>17, <2>1, <2>2, <2>4 DEF SetCountries
    <3>5. Draw(m) \in Maps /\ (view.frame.extent # 0 => Draw(m).drawn) BY <3>3, DrawnMap
    <3>6. map' \in Maps /\ (view.frame.extent # 0 => map'.drawn) BY <2>1, <3>4, <3>5 DEF Maps
    <3> QED BY <1>17, <3>6 DEF SetCountries, CanvasInv, CanvasIsCurrent
  <2> QED BY <2>3, <2>4
<1>18. CASE BordersArrive
  <2>1. PICK ok \in BOOLEAN :
          map' = Draw(Invalidated([map EXCEPT !.loading = FALSE, !.borders = ok, !.countries = @ /\ ok]))
    BY <1>18 DEF BordersArrive
  <2>2. PICK shown \in BOOLEAN : shown = (map.countries /\ ok) BY <1>1, <2>1
  <2>3. PICK m : m = [map EXCEPT !.loading = FALSE, !.borders = ok, !.countries = shown] OBVIOUS
  <2>4. m \in Maps BY <1>1, <2>3 DEF Maps
  <2>5. Invalidated(m) \in Maps BY <2>4, InvalidatedMap
  <2>6. map' = Draw(Invalidated(m)) BY <2>1, <2>2, <2>3
  <2> QED BY <1>3, <1>18, <2>5, <2>6 DEF BordersArrive
<1>19. CASE Tick
  <2>1. map' = Frame(map) /\ UNCHANGED view BY <1>19 DEF Tick
  <2>2. Draw(map) \in Maps /\ (view.frame.extent # 0 => Draw(map).drawn) BY <1>1, DrawnMap
  <2>3. CASE Moving(map)
    <3>1. map' = [Draw(map) EXCEPT !.settled = FALSE] BY <2>1, <2>3 DEF Frame
    <3> QED BY <1>2, <2>2, <3>1 DEF Maps
  <2>4. CASE ~Moving(map) /\ ~map.settled
    <3>1. map' = [Draw(map) EXCEPT !.settled = TRUE] BY <2>1, <2>4 DEF Frame
    <3>2. map' \in Maps /\ (view.frame.extent # 0 => map'.drawn) BY <2>2, <3>1 DEF Maps
    <3> QED BY <2>1, <3>2 DEF CanvasInv, CanvasIsCurrent
  <2>5. CASE ~Moving(map) /\ map.settled BY <1>6, <2>1, <2>5 DEF Frame
  <2> QED BY <2>3, <2>4, <2>5
<1>20. CASE UNCHANGED mapVars BY <1>6, <1>20 DEF mapVars
<1> QED BY <1>7, <1>8, <1>9, <1>10, <1>11, <1>12, <1>13, <1>14, <1>15, <1>16, <1>17, <1>18, <1>19, <1>20 DEF MapNext

\* A canvas the loop has left alone shows the current data, selection, theme, borders,
\* size and zoom, for every set of destinations and sizes (WatchtowerMap.tick, draw,
\* baseLayer, invalidate of map.ts).
THEOREM StillCanvasIsCurrent == MapSpec => []CanvasIsCurrent
<1>1. MapInit => CanvasInv
  <2> SUFFICES ASSUME MapInit PROVE CanvasInv
    OBVIOUS
  <2>1. PICK on \in BOOLEAN : map = Fresh({}, {}, None, on) BY DEF MapInit
  <2>2. map \in Maps /\ ~map.settled BY <2>1, FreshMap
  <2> QED BY <2>2 DEF CanvasInv, CanvasIsCurrent
<1>2. CanvasInv /\ [MapNext]_mapVars => CanvasInv' BY CanvasStep
<1>3. CanvasInv => CanvasIsCurrent BY DEF CanvasInv
<1> QED BY <1>1, <1>2, <1>3, PTL DEF MapSpec

-------------------------------------------------------------------------------
\* The Roster. The argument: the copies of the detail pane are taken anew whenever the
\* device it shows changes, so that they are that device's at every blur.

\* What is being typed is a label, and for a device.
TypingIsOfADevice == roster.focused => roster.of # Nobody /\ roster.typed # Nobody

RosterInv == RosterTypeOK /\ TypingIsNotFought /\ TypingIsOfADevice

RosterRecords ==
    [shown : BOOLEAN, offered : Devices \cup {Nobody}, list : Lists, poll : [stage : {"idle", "sent", "served"}, list : Lists],
     matches : SUBSET Devices, selected : Devices \cup {Nobody}, draft : Labels \cup {Nobody},
     of : Devices \cup {Nobody}, typed : Labels \cup {Nobody}, focused : BOOLEAN, edits : SUBSET Edits]

\* What the invariant says of a record, which a handler makes in several strokes.
Fair(r) ==
    /\ r \in RosterRecords
    /\ r.of = Chosen(r)
    /\ r.focused => r.draft = r.typed /\ r.of # Nobody /\ r.typed # Nobody
    /\ \A e \in r.edits : e.typed = e.device

LEMMA RosterInvIsFair == RosterInv <=> net \in Lists /\ Fair(roster)
BY DEF RosterInv, RosterTypeOK, TypingIsNotFought, TypingIsOfADevice, Fair, RosterRecords

LEMMA NoListType == NoList \in Lists /\ Listed(NoList) = {}
BY DEF NoList, Lists, Listed

LEMMA ChosenType ==
    ASSUME NEW r \in RosterRecords
    PROVE  /\ Chosen(r) \in Devices \cup {Nobody}
           /\ Chosen(r) # Nobody => Chosen(r) \in Devices /\ r.list[Chosen(r)] \in Labels
BY DEF Chosen, RosterRecords, Listed, Lists

\* Leaving the field: what is sent was typed for the device it is sent for.
LEMMA BlurredIsFair ==
    ASSUME NEW r, Fair(r)
    PROVE  /\ Fair(Blurred(r)) /\ ~Blurred(r).focused
           /\ Chosen(Blurred(r)) = Chosen(r) /\ Blurred(r).of = r.of
<1>. DEFINE left == [r EXCEPT !.focused = FALSE, !.typed = Nobody]
            e == [device |-> Chosen(r), label |-> r.draft, typed |-> r.of, saved |-> FALSE]
            more == [left EXCEPT !.edits = @ \cup {e}]
<1>1. r \in RosterRecords
    BY DEF Fair
<1>2. Fair(left) /\ ~left.focused /\ Chosen(left) = Chosen(r) /\ left.of = r.of
    BY <1>1 DEF Fair, Chosen, RosterRecords
<1>3. ASSUME r.focused PROVE Fair(more) /\ ~more.focused /\ Chosen(more) = Chosen(r) /\ more.of = r.of
  <2>1. e \in Edits /\ e.typed = e.device
      BY <1>1, <1>3, ChosenType DEF Fair, RosterRecords, Edits
  <2>. HIDE DEF e
  <2>2. more \in RosterRecords /\ more.edits = r.edits \cup {e}
      BY <1>1, <2>1 DEF RosterRecords
  <2>3. ~more.focused /\ Chosen(more) = Chosen(r) /\ more.of = r.of
      BY <1>1 DEF Chosen, RosterRecords
  <2>. QED  BY <2>1, <2>2, <2>3 DEF Fair
<1>. QED  BY <1>2, <1>3 DEF Blurred

\* A change of what the pane may show, followed by its being drawn.
LEMMA RenderedIsFair ==
    ASSUME Fair(roster), NEW r \in RosterRecords, r.of = roster.of,
           r.focused => r.draft = r.typed /\ r.of # Nobody /\ r.typed # Nobody,
           \A e \in r.edits : e.typed = e.device
    PROVE  Fair(Rendered(r))
<1>1. roster \in RosterRecords /\ roster.of = Chosen(roster)
    BY DEF Fair
<1>2. CASE Chosen(roster) = Chosen(r)
    BY <1>1, <1>2 DEF Rendered, IsKept, Fair
<1>3. CASE Chosen(roster) # Chosen(r)
  <2>. DEFINE new == Chosen(r)
              draft == IF new = Nobody THEN Nobody ELSE r.list[new]
              s == [r EXCEPT !.draft = draft, !.of = new, !.typed = Nobody, !.focused = FALSE]
  <2>1. new \in Devices \cup {Nobody} /\ draft \in Labels \cup {Nobody}
      BY ChosenType
  <2>2. Rendered(r) = s
      BY <1>3 DEF Rendered, IsKept
  <2>3. Chosen(s) = new
      BY DEF Chosen, RosterRecords
  <2>. HIDE DEF new, draft
  <2>4. s \in RosterRecords /\ s.of = new /\ ~s.focused /\ s.edits = r.edits
      BY <2>1 DEF RosterRecords
  <2>. QED  BY <2>2, <2>3, <2>4 DEF Fair
<1>. QED  BY <1>2, <1>3

\* Asking for the list again.
LEMMA RunIsFair ==
    ASSUME NEW r, Fair(r) PROVE Fair(Run(r))
<1>1. r \in RosterRecords
    BY DEF Fair
<1>2. CASE Run(r) = [r EXCEPT !.poll.stage = "sent"]
  <2>1. [r.poll EXCEPT !.stage = "sent"] \in [stage : {"idle", "sent", "served"}, list : Lists]
      BY <1>1 DEF RosterRecords
  <2>2. Run(r) = [r EXCEPT !.poll = [r.poll EXCEPT !.stage = "sent"]]
      BY <1>1, <1>2 DEF RosterRecords
  <2>. QED  BY <1>1, <2>1, <2>2 DEF Fair, Chosen, RosterRecords
<1>. QED  BY <1>2 DEF Run

LEMMA MountedIsFair ==
    ASSUME Fair(roster), NEW offered \in Devices \cup {Nobody}
    PROVE  Fair(Mounted(offered))
<1>. DEFINE r == [Blank EXCEPT !.shown = TRUE, !.offered = offered, !.selected = offered, !.edits = roster.edits]
<1>1. roster \in RosterRecords
    BY DEF Fair
<1>2. r \in RosterRecords
    BY <1>1, NoListType DEF RosterRecords, Blank, NoPoll
<1>3. Chosen(r) = Nobody
    BY NoListType DEF Chosen, Blank
<1>4. r.of = Nobody /\ ~r.focused /\ r.edits = roster.edits
    BY DEF Blank
<1>. HIDE DEF r
<1>5. Fair(r)
    BY <1>2, <1>3, <1>4 DEF Fair
<1>. QED  BY <1>5, RunIsFair DEF Mounted, r

\* What is drawn after the field was left, for another choice of device or of rows.
LEMMA ChoiceIsFair ==
    ASSUME Fair(roster), NEW b, b = Blurred(roster),
           NEW offered \in Devices \cup {Nobody}, NEW selected \in Devices \cup {Nobody}, NEW ds \in SUBSET Devices
    PROVE  Fair(Rendered([b EXCEPT !.offered = offered, !.selected = selected, !.matches = ds]))
<1>. DEFINE r == [b EXCEPT !.offered = offered, !.selected = selected, !.matches = ds]
<1>1. b \in RosterRecords /\ ~b.focused /\ b.of = roster.of /\ \A e \in b.edits : e.typed = e.device
    BY BlurredIsFair DEF Fair
<1>2. r \in RosterRecords /\ ~r.focused /\ r.of = roster.of /\ r.edits = b.edits
    BY <1>1 DEF RosterRecords
<1>. HIDE DEF r
<1>3. Fair(Rendered(r))
    BY <1>1, <1>2, RenderedIsFair
<1>. QED  BY <1>3 DEF r

LEMMA RosterInitInv == RosterInit => RosterInv
<1>. SUFFICES ASSUME RosterInit PROVE net \in Lists /\ Fair(roster)
    BY RosterInvIsFair
<1>1. Blank \in RosterRecords
    BY NoListType DEF Blank, RosterRecords, NoPoll
<1>2. Chosen(Blank) = Nobody
    BY NoListType DEF Chosen, Blank
<1>3. Fair(Blank)
    BY <1>1, <1>2 DEF Fair, Blank
<1>. QED  BY <1>3 DEF RosterInit

\* The poll of the list, and its answer, which may be another device's turn.
LEMMA RosterPolls ==
    ASSUME net \in Lists, Fair(roster), Poll \/ ServePoll \/ PollArrives \/ PollFails
    PROVE  net' \in Lists /\ Fair(roster')
<1>1. roster \in RosterRecords
    BY DEF Fair
<1>2. NoPoll \in [stage : {"idle", "sent", "served"}, list : Lists]
    BY NoListType DEF NoPoll
<1>3. ASSUME NEW p \in [stage : {"idle", "sent", "served"}, list : Lists],
             roster' = [roster EXCEPT !.poll = p]
      PROVE  Fair(roster')
    BY <1>1, <1>3 DEF Fair, Chosen, RosterRecords
<1>4. CASE Poll
    BY <1>4, RunIsFair DEF Poll
<1>5. CASE ServePoll
    BY <1>3, <1>5 DEF ServePoll
<1>6. CASE PollFails
    BY <1>2, <1>3, <1>6 DEF PollFails
<1>7. CASE PollArrives
  <2>. DEFINE r == [roster EXCEPT !.list = roster.poll.list, !.poll = NoPoll]
  <2>1. /\ r \in RosterRecords /\ r.of = roster.of /\ r.focused = roster.focused
        /\ r.draft = roster.draft /\ r.typed = roster.typed /\ r.edits = roster.edits
      BY <1>1, <1>2 DEF RosterRecords
  <2>. HIDE DEF r
  <2>2. Fair(Rendered(r))
      BY <2>1, RenderedIsFair DEF Fair
  <2>. QED  BY <1>7, <2>2 DEF PollArrives, r
<1>. QED  BY <1>4, <1>5, <1>6, <1>7 DEF Poll, ServePoll, PollArrives, PollFails

\* Coming, going, choosing a device and narrowing the rows.
LEMMA RosterChoices ==
    ASSUME net \in Lists, Fair(roster),
           NavigatesHere \/ NavigatesAway \/ CloseDetail \/ Narrows \/ \E d \in Devices : OfferDevice(d) \/ SelectRow(d)
    PROVE  net' \in Lists /\ Fair(roster')
<1>. DEFINE b == Blurred(roster)
<1>1. roster \in RosterRecords /\ b \in RosterRecords
    BY BlurredIsFair DEF Fair
<1>2. net' \in Lists
    BY DEF NavigatesHere, NavigatesAway, CloseDetail, Narrows, OfferDevice, SelectRow
<1>3. CASE NavigatesHere
    BY <1>1, <1>3, MountedIsFair DEF NavigatesHere, RosterRecords
<1>4. CASE NavigatesAway
  <2>. DEFINE r == [Blank EXCEPT !.edits = roster.edits]
  <2>1. r \in RosterRecords
      BY <1>1, NoListType DEF RosterRecords, Blank, NoPoll
  <2>2. Chosen(r) = Nobody
      BY NoListType DEF Chosen, Blank
  <2>3. r.of = Nobody /\ ~r.focused /\ r.edits = roster.edits
      BY DEF Blank
  <2>4. roster' = r
      BY <1>4 DEF NavigatesAway
  <2>. HIDE DEF r
  <2>. QED  BY <1>2, <2>1, <2>2, <2>3, <2>4 DEF Fair
<1>5. CASE CloseDetail
  <2>1. [b EXCEPT !.selected = Nobody] = [b EXCEPT !.offered = b.offered, !.selected = Nobody, !.matches = b.matches]
      BY <1>1 DEF RosterRecords
  <2>2. roster' = Rendered([b EXCEPT !.selected = Nobody])
      BY <1>5 DEF CloseDetail
  <2>3. b.offered \in Devices \cup {Nobody} /\ b.matches \in SUBSET Devices
      BY <1>1 DEF RosterRecords
  <2>. HIDE DEF b
  <2>4. Fair(Rendered([b EXCEPT !.offered = b.offered, !.selected = Nobody, !.matches = b.matches]))
      BY <2>3, ChoiceIsFair DEF b
  <2>. QED  BY <1>2, <2>1, <2>2, <2>4
<1>6. CASE Narrows
  <2>1. PICK ds \in SUBSET Devices : roster' = Rendered([b EXCEPT !.matches = ds])
      BY <1>6 DEF Narrows
  <2>2. [b EXCEPT !.matches = ds] = [b EXCEPT !.offered = b.offered, !.selected = b.selected, !.matches = ds]
      BY <1>1 DEF RosterRecords
  <2>3. b.offered \in Devices \cup {Nobody} /\ b.selected \in Devices \cup {Nobody}
      BY <1>1 DEF RosterRecords
  <2>. HIDE DEF b
  <2>4. Fair(Rendered([b EXCEPT !.offered = b.offered, !.selected = b.selected, !.matches = ds]))
      BY <2>3, ChoiceIsFair DEF b
  <2>. QED  BY <1>2, <2>1, <2>2, <2>4
<1>7. ASSUME NEW d \in Devices, OfferDevice(d) PROVE Fair(roster')
  <2>1. CASE ~roster.shown
      BY <1>7, <2>1, MountedIsFair DEF OfferDevice
  <2>2. CASE roster.shown /\ roster.offered = d
      BY <1>7, <2>2, BlurredIsFair DEF OfferDevice
  <2>3. CASE roster.shown /\ roster.offered # d
    <3>1. [b EXCEPT !.offered = d, !.selected = d] = [b EXCEPT !.offered = d, !.selected = d, !.matches = b.matches]
        BY <1>1 DEF RosterRecords
    <3>2. roster' = Rendered([b EXCEPT !.offered = d, !.selected = d])
        BY <1>7, <2>3 DEF OfferDevice
    <3>3. b.matches \in SUBSET Devices
        BY <1>1 DEF RosterRecords
    <3>. HIDE DEF b
    <3>4. Fair(Rendered([b EXCEPT !.offered = d, !.selected = d, !.matches = b.matches]))
        BY <3>3, ChoiceIsFair DEF b
    <3>. QED  BY <3>1, <3>2, <3>4
  <2>. QED  BY <1>1, <2>1, <2>2, <2>3
<1>8. ASSUME NEW d \in Devices, SelectRow(d) PROVE Fair(roster')
  <2>1. PICK x \in Devices \cup {Nobody} : roster' = Rendered([b EXCEPT !.selected = x])
    <3>1. CASE b.selected = d
        BY <1>1, <1>8, <3>1 DEF SelectRow, RosterRecords
    <3>2. CASE b.selected # d
        BY <1>1, <1>8, <3>2 DEF SelectRow, RosterRecords
    <3>. QED  BY <3>1, <3>2
  <2>2. [b EXCEPT !.selected = x] = [b EXCEPT !.offered = b.offered, !.selected = x, !.matches = b.matches]
      BY <1>1 DEF RosterRecords
  <2>3. b.offered \in Devices \cup {Nobody} /\ b.matches \in SUBSET Devices
      BY <1>1 DEF RosterRecords
  <2>. HIDE DEF b
  <2>4. Fair(Rendered([b EXCEPT !.offered = b.offered, !.selected = x, !.matches = b.matches]))
      BY <2>3, ChoiceIsFair DEF b
  <2>. QED  BY <2>1, <2>2, <2>4
<1>. QED  BY <1>2, <1>3, <1>4, <1>5, <1>6, <1>7, <1>8

\* Typing, leaving the field, and acting on the device.
LEMMA RosterTypes ==
    ASSUME net \in Lists, Fair(roster), Types \/ Leaves \/ ActsOnDevice
    PROVE  net' \in Lists /\ Fair(roster')
<1>1. roster \in RosterRecords
    BY DEF Fair
<1>2. CASE Types
  <2>1. PICK x \in Labels :
          roster' = [roster EXCEPT !.draft = x, !.of = Chosen(roster), !.typed = x, !.focused = TRUE]
      BY <1>2 DEF Types
  <2>2. Chosen(roster) \in Devices /\ Chosen(roster) # Nobody
      BY <1>1, <1>2, ChosenType DEF Types
  <2>3. roster' \in RosterRecords /\ Chosen(roster') = Chosen(roster)
      BY <1>1, <2>1, <2>2 DEF RosterRecords, Chosen
  <2>4. /\ roster'.of = Chosen(roster) /\ roster'.draft = x /\ roster'.typed = x
        /\ roster'.edits = roster.edits
      BY <1>1, <2>1 DEF RosterRecords
  <2>5. x # Nobody
      BY RosterAssumption
  <2>. QED  BY <1>2, <2>2, <2>3, <2>4, <2>5 DEF Types, Fair
<1>3. CASE Leaves
    BY <1>3, BlurredIsFair DEF Leaves
<1>4. CASE ActsOnDevice
    BY <1>4, BlurredIsFair, RunIsFair DEF ActsOnDevice
<1>. QED  BY <1>2, <1>3, <1>4

\* The edits under way: each was typed for the device it is about when it was sent.
LEMMA RosterEdits ==
    ASSUME net \in Lists, Fair(roster), NEW e \in roster.edits, ServeEdit(e) \/ EditArrives(e) \/ EditFails(e)
    PROVE  net' \in Lists /\ Fair(roster')
<1>1. roster \in RosterRecords /\ e \in Edits /\ e.typed = e.device
    BY DEF Fair, RosterRecords
<1>2. ASSUME NEW es \in SUBSET Edits, \A x \in es : x.typed = x.device
      PROVE  Fair([roster EXCEPT !.edits = es])
    BY <1>1, <1>2 DEF Fair, Chosen, RosterRecords
<1>3. roster.edits \in SUBSET Edits /\ \A x \in roster.edits : x.typed = x.device
    BY <1>1 DEF Fair, RosterRecords
<1>4. Fair([roster EXCEPT !.edits = @ \ {e}])
  <2>1. Fair([roster EXCEPT !.edits = roster.edits \ {e}])
      BY <1>2, <1>3
  <2>. QED  BY <2>1
<1>5. CASE ServeEdit(e)
  <2>1. net' \in Lists
      BY <1>1, <1>5 DEF ServeEdit, Lists, Edits
  <2>2. [e EXCEPT !.saved = TRUE] \in Edits
        /\ [e EXCEPT !.saved = TRUE].typed = [e EXCEPT !.saved = TRUE].device
      BY <1>1 DEF Edits
  <2>3. Fair([roster EXCEPT !.edits = (roster.edits \ {e}) \cup {[e EXCEPT !.saved = TRUE]}])
      BY <1>2, <1>3, <2>2
  <2>. QED  BY <1>5, <2>1, <2>3 DEF ServeEdit
<1>6. CASE EditArrives(e)
    BY <1>4, <1>6, RunIsFair DEF EditArrives
<1>7. CASE EditFails(e)
    BY <1>4, <1>7 DEF EditFails
<1>. QED  BY <1>5, <1>6, <1>7

LEMMA RosterStep == RosterInv /\ [RosterNext]_rosterVars => RosterInv'
<1>. SUFFICES ASSUME RosterInv, [RosterNext]_rosterVars PROVE net' \in Lists /\ Fair(roster')
    BY RosterInvIsFair DEF RosterInv, RosterTypeOK, TypingIsNotFought, TypingIsOfADevice, Fair, RosterRecords
<1>1. net \in Lists /\ Fair(roster)
    BY RosterInvIsFair
<1>2. CASE NetChanges
    BY <1>1, <1>2 DEF NetChanges
<1>3. CASE UNCHANGED rosterVars
    BY <1>1, <1>3 DEF rosterVars
<1>. QED  BY <1>1, <1>2, <1>3, RosterPolls, RosterChoices, RosterTypes, RosterEdits DEF RosterNext

THEOREM RosterInvHolds == RosterSpec => []RosterInv
BY RosterInitInv, RosterStep, PTL DEF RosterSpec

\* The types of the Roster's list, requests, detail pane and edits.
THEOREM RosterTypeCorrect == RosterSpec => []RosterTypeOK
<1>1. RosterInv => RosterTypeOK
    BY DEF RosterInv
<1>. QED  BY <1>1, RosterInvHolds, PTL

\* A label is saved for the device it was typed for, and no poll puts anything else where
\* the reader types (roster.tsx:289-314), for any number of devices, labels and edits.
THEOREM TypingIsNeverFought == RosterSpec => []TypingIsNotFought
<1>1. RosterInv => TypingIsNotFought
    BY DEF RosterInv
<1>. QED  BY <1>1, RosterInvHolds, PTL

-------------------------------------------------------------------------------
\* The Wanted List. The argument: at most one load is in flight, as usePolling sees to it,
\* and what it was answered was no older than what is held.

Held == Answers \cup {NoAnswer}

BoardRecords ==
    [visible : BOOLEAN, running : BOOLEAN, loads : SUBSET Loads, updated : BOOLEAN, wanted : Held, findings : Held,
     open : Subjects \cup {Nothing},
     act : [finding : Findings \cup {Nothing}, step : {"none", "deputize", "status", "done"}]]

\* A load under way, next to what is held: neither answer is older.
IsNoOlder(l, b) ==
    /\ l.wanted # NoAnswer => l.wanted.at >= b.wanted.at
    /\ l.findings # NoAnswer => l.findings.at >= b.findings.at

\* What holds of the page, with so many changes made to the findings.
Sound(b, changes) ==
    /\ b \in BoardRecords
    /\ \A l, m \in b.loads : l = m
    /\ b.loads # {} => b.running
    /\ \A l \in b.loads : IsNoOlder(l, b) /\ l.wanted.at <= changes /\ l.findings.at <= changes
    /\ b.wanted.at <= changes /\ b.findings.at <= changes
    /\ b.act.step # "none" => b.act.finding \in Findings

RecordTypes == [changes : 0..MaxChanges, found : SUBSET Findings, trusted : SUBSET Subjects]

BoardInv == record \in RecordTypes /\ Sound(board, record.changes)

LEMMA HeldType ==
    /\ \A a \in Held : a.at \in Nat
    /\ \A r \in RecordTypes : r.changes \in Nat
    /\ NoAnswer \in Held /\ NoAnswer.at = 0 /\ Asking \in Loads
    /\ \A l \in Loads : l.wanted \in Held /\ l.findings \in Held
<1>1. 0..MaxChanges \subseteq Nat
    BY WantedAssumption
<1>. QED  BY <1>1 DEF Held, Answers, NoAnswer, RecordTypes, Asking, Loads

\* A load is begun when there is none.
LEMMA BoardRunIsSound ==
    ASSUME NEW b, NEW changes \in Nat, Sound(b, changes)
    PROVE  Sound(BoardRun(b), changes) /\ BoardRun(b).wanted = b.wanted /\ BoardRun(b).findings = b.findings
<1>. DEFINE more == [b EXCEPT !.running = TRUE, !.loads = @ \cup {Asking}]
<1>1. b \in BoardRecords
    BY DEF Sound
<1>2. CASE b.running
    BY <1>2 DEF BoardRun, IsHeldBack
<1>3. CASE ~b.running
  <2>1. b.loads = {}
      BY <1>3 DEF Sound
  <2>2. more \in BoardRecords
      BY <1>1, HeldType DEF BoardRecords
  <2>3. more.loads = {Asking} /\ more.running /\ more.act = b.act /\ more.wanted = b.wanted /\ more.findings = b.findings
      BY <1>1, <2>1 DEF BoardRecords
  <2>4. IsNoOlder(Asking, more) /\ Asking.wanted.at = 0 /\ Asking.findings.at = 0
      BY DEF IsNoOlder, Asking, NoAnswer
  <2>. HIDE DEF more
  <2>5. Sound(more, changes)
      BY <2>2, <2>3, <2>4 DEF Sound
  <2>. QED  BY <2>3, <2>5 DEF BoardRun, more
<1>. QED  BY <1>2, <1>3

\* A stroke that leaves alone what is loading and what is held.
LEMMA LoadsLeftAlone ==
    ASSUME NEW b, NEW changes \in Nat, Sound(b, changes), NEW c \in BoardRecords,
           c.loads = b.loads, c.running = b.running, c.wanted = b.wanted, c.findings = b.findings,
           c.act = b.act \/ c.act = Idle \/ c.act.finding \in Findings
    PROVE  Sound(c, changes)
BY DEF Sound, IsNoOlder, Idle

\* More changes are made to the findings.
LEMMA ChangesGrow ==
    ASSUME NEW b, NEW m \in Nat, NEW n \in Nat, m <= n, Sound(b, m)
    PROVE  Sound(b, n)
<1>1. b.wanted.at \in Nat /\ b.findings.at \in Nat
    BY HeldType DEF Sound, BoardRecords
<1>2. \A l \in b.loads : l.wanted.at \in Nat /\ l.findings.at \in Nat
    BY HeldType DEF Sound, BoardRecords
<1>. QED  BY <1>1, <1>2 DEF Sound

LEMMA BoardInitInv == BoardInit => BoardInv
<1>. SUFFICES ASSUME BoardInit PROVE BoardInv
    OBVIOUS
<1>1. record \in RecordTypes /\ record.changes = 0
    BY WantedAssumption DEF BoardInit, RecordTypes
<1>2. board \in BoardRecords
    BY HeldType DEF BoardInit, BoardRecords, Idle
<1>3. /\ board.loads = {Asking} /\ board.running /\ board.wanted = NoAnswer /\ board.findings = NoAnswer
      /\ board.act.step = "none"
    BY DEF BoardInit, Idle
<1>4. IsNoOlder(Asking, board) /\ Asking.wanted.at = 0 /\ Asking.findings.at = 0
    BY DEF IsNoOlder, Asking, NoAnswer
<1>. QED  BY <1>1, <1>2, <1>3, <1>4, HeldType DEF BoardInv, Sound

\* The step keeps the invariant, and brings nothing older.
NothingOlder == board'.wanted.at >= board.wanted.at /\ board'.findings.at >= board.findings.at

\* What leaves both lists as they are brings nothing older.
LEMMA SameIsNotOlder ==
    ASSUME board \in BoardRecords, board'.wanted = board.wanted, board'.findings = board.findings
    PROVE  NothingOlder
<1>1. board.wanted.at \in Nat /\ board.findings.at \in Nat
    BY HeldType DEF BoardRecords
<1>. QED  BY <1>1 DEF NothingOlder

\* The loader is called: on the interval, by the button, on coming back, after an act.
LEMMA BoardAsks ==
    ASSUME BoardInv, BoardPoll \/ RefreshPressed \/ BoardVisibilityChanges \/ ActRefreshes
    PROVE  BoardInv' /\ NothingOlder
<1>1. board \in BoardRecords /\ record.changes \in Nat /\ UNCHANGED record
    BY HeldType DEF BoardInv, Sound, BoardPoll, RefreshPressed, BoardVisibilityChanges, ActRefreshes
<1>2. PICK b \in BoardRecords :
        /\ b.loads = board.loads /\ b.running = board.running
        /\ b.wanted = board.wanted /\ b.findings = board.findings
        /\ b.act = board.act \/ b.act = Idle
        /\ board' = b \/ board' = BoardRun(b)
  <2>1. CASE BoardPoll \/ RefreshPressed
      BY <1>1, <2>1 DEF BoardPoll, RefreshPressed
  <2>2. CASE BoardVisibilityChanges
    <3>. DEFINE b == [board EXCEPT !.visible = ~@]
    <3>1. b \in BoardRecords
        BY <1>1 DEF BoardRecords
    <3>2. /\ b.loads = board.loads /\ b.running = board.running
          /\ b.wanted = board.wanted /\ b.findings = board.findings
          /\ b.act = board.act \/ b.act = Idle
        BY <1>1 DEF BoardRecords
    <3>3. board' = b \/ board' = BoardRun(b)
        BY <2>2 DEF BoardVisibilityChanges
    <3>. HIDE DEF b
    <3>. QED  BY <3>1, <3>2, <3>3
  <2>3. CASE ActRefreshes
    <3>. DEFINE b == [board EXCEPT !.act = Idle]
    <3>1. b \in BoardRecords
        BY <1>1 DEF BoardRecords, Idle
    <3>2. /\ b.loads = board.loads /\ b.running = board.running
          /\ b.wanted = board.wanted /\ b.findings = board.findings
          /\ b.act = board.act \/ b.act = Idle
        BY <1>1 DEF BoardRecords
    <3>3. board' = BoardRun(b)
        BY <2>3 DEF ActRefreshes
    <3>. HIDE DEF b
    <3>. QED  BY <3>1, <3>2, <3>3
  <2>. QED  BY <2>1, <2>2, <2>3
<1>3. Sound(b, record.changes)
    BY <1>1, <1>2, LoadsLeftAlone DEF BoardInv
<1>4. Sound(board', record.changes) /\ board'.wanted = b.wanted /\ board'.findings = b.findings
    BY <1>1, <1>2, <1>3, BoardRunIsSound
<1>5. NothingOlder
    BY <1>1, <1>2, <1>4, SameIsNotOlder
<1>. QED  BY <1>1, <1>4, <1>5 DEF BoardInv

\* A half of the load is answered with things as they are.
LEMMA BoardServes ==
    ASSUME BoardInv, NEW l \in board.loads, ServeWanted(l) \/ ServeFindings(l)
    PROVE  BoardInv' /\ NothingOlder
<1>1. /\ board \in BoardRecords /\ record \in RecordTypes /\ UNCHANGED record
      /\ record.changes \in Nat /\ l \in Loads
    BY HeldType DEF BoardInv, Sound, BoardRecords, ServeWanted, ServeFindings
<1>2. Now \in Answers /\ Now.at = record.changes
    BY <1>1 DEF Now, Answers, RecordTypes
<1>3. PICK m \in Loads : /\ board' = [board EXCEPT !.loads = (board.loads \ {l}) \cup {m}]
                         /\ m.wanted \in {l.wanted, Now} /\ m.findings \in {l.findings, Now}
  <2>1. CASE ServeWanted(l)
    <3>1. [l EXCEPT !.wanted = Now] \in Loads
        BY <1>1, <1>2 DEF Loads
    <3>2. [l EXCEPT !.wanted = Now].wanted = Now /\ [l EXCEPT !.wanted = Now].findings = l.findings
        BY <1>1 DEF Loads
    <3>. QED  BY <2>1, <3>1, <3>2 DEF ServeWanted
  <2>2. CASE ServeFindings(l)
    <3>1. [l EXCEPT !.findings = Now] \in Loads
        BY <1>1, <1>2 DEF Loads
    <3>2. [l EXCEPT !.findings = Now].findings = Now /\ [l EXCEPT !.findings = Now].wanted = l.wanted
        BY <1>1 DEF Loads
    <3>. QED  BY <2>2, <3>1, <3>2 DEF ServeFindings
  <2>. QED  BY <2>1, <2>2
<1>4. board.loads = {l} /\ board.running /\ IsNoOlder(l, board)
    BY DEF BoardInv, Sound
<1>5. /\ board' \in BoardRecords /\ board'.loads = {m} /\ board'.running /\ board'.act = board.act
      /\ board'.wanted = board.wanted /\ board'.findings = board.findings
    BY <1>1, <1>3, <1>4 DEF BoardRecords
<1>6. IsNoOlder(m, board') /\ m.wanted.at <= record.changes /\ m.findings.at <= record.changes
    BY <1>1, <1>2, <1>3, <1>4, <1>5 DEF IsNoOlder, BoardInv, Sound
<1>7. Sound(board', record.changes)
    BY <1>5, <1>6 DEF BoardInv, Sound
<1>. QED  BY <1>1, <1>5, <1>7, SameIsNotOlder DEF BoardInv

\* Both halves are there, or one has failed: nothing is loading any more.
LEMMA BoardLoads ==
    ASSUME BoardInv, NEW l \in board.loads, Loaded(l) \/ LoadFails(l)
    PROVE  BoardInv' /\ NothingOlder
<1>1. /\ board \in BoardRecords /\ record \in RecordTypes /\ UNCHANGED record
      /\ record.changes \in Nat /\ l \in Loads
    BY HeldType DEF BoardInv, Sound, BoardRecords, Loaded, LoadFails
<1>2. board.loads = {l} /\ IsNoOlder(l, board)
    BY DEF BoardInv, Sound
<1>3. CASE LoadFails(l)
  <2>1. /\ board' \in BoardRecords /\ board'.loads = {} /\ board'.act = board.act
        /\ board'.wanted = board.wanted /\ board'.findings = board.findings
      BY <1>1, <1>2, <1>3 DEF LoadFails, BoardRecords
  <2>2. Sound(board', record.changes)
      BY <2>1 DEF BoardInv, Sound
  <2>. QED  BY <1>1, <2>1, <2>2, SameIsNotOlder DEF BoardInv
<1>4. CASE Loaded(l)
  <2>1. l.wanted # NoAnswer /\ l.findings # NoAnswer /\ l.wanted \in Answers /\ l.findings \in Answers
      BY <1>1, <1>4 DEF Loaded, Loads
  <2>2. PICK worst \in IF l.wanted.found = {} THEN {Nothing} ELSE SubjectsOf(l.wanted.found) :
          board' = [board EXCEPT !.loads = @ \ {l}, !.running = FALSE, !.updated = TRUE,
                                 !.wanted = l.wanted, !.findings = l.findings,
                                 !.open = IF @ = Nothing THEN worst ELSE @]
      BY <1>4 DEF Loaded
  <2>3. worst \in Subjects \cup {Nothing}
      BY <2>1, <2>2 DEF SubjectsOf, Subjects, Answers
  <2>4. board' \in BoardRecords
      BY <1>1, <2>1, <2>2, <2>3 DEF BoardRecords, Held
  <2>5. board'.loads = {} /\ board'.act = board.act /\ board'.wanted = l.wanted /\ board'.findings = l.findings
      BY <1>1, <1>2, <2>2 DEF BoardRecords
  <2>6. NothingOlder
      BY <1>2, <2>1, <2>5 DEF NothingOlder, IsNoOlder
  <2>7. l.wanted.at <= record.changes /\ l.findings.at <= record.changes
      BY DEF BoardInv, Sound
  <2>8. Sound(board', record.changes)
      BY <2>4, <2>5, <2>7 DEF BoardInv, Sound
  <2>. QED  BY <1>1, <2>6, <2>8 DEF BoardInv
<1>. QED  BY <1>3, <1>4

\* What is done in the list leaves the loads alone, and what it holds.
LEMMA BoardActs ==
    ASSUME BoardInv,
           \/ ActServed \/ ActFails
           \/ \E f \in Findings : Clear(f) \/ Trust(f)
           \/ \E s \in Subjects : ToggleRow(s)
    PROVE  BoardInv' /\ NothingOlder
<1>1. board \in BoardRecords /\ record \in RecordTypes /\ record.changes \in Nat
    BY HeldType DEF BoardInv, Sound
<1>2. /\ board' \in BoardRecords /\ board'.loads = board.loads /\ board'.running = board.running
      /\ board'.wanted = board.wanted /\ board'.findings = board.findings
      /\ board'.act = Idle \/ board'.act.finding \in Findings \/ board'.act = board.act
  <2>1. CASE ActServed
      BY <1>1, <2>1 DEF ActServed, BoardRecords, BoardInv, Sound
  <2>2. CASE ActFails
      BY <1>1, <2>2 DEF ActFails, BoardRecords, Idle
  <2>3. ASSUME NEW f \in Findings, Clear(f) \/ Trust(f)
        PROVE  /\ board' \in BoardRecords /\ board'.loads = board.loads /\ board'.running = board.running
               /\ board'.wanted = board.wanted /\ board'.findings = board.findings
               /\ board'.act = Idle \/ board'.act.finding \in Findings \/ board'.act = board.act
      BY <1>1, <2>3 DEF Clear, Trust, BoardRecords
  <2>4. ASSUME NEW s \in Subjects, ToggleRow(s)
        PROVE  /\ board' \in BoardRecords /\ board'.loads = board.loads /\ board'.running = board.running
               /\ board'.wanted = board.wanted /\ board'.findings = board.findings
               /\ board'.act = Idle \/ board'.act.finding \in Findings \/ board'.act = board.act
      BY <1>1, <2>4 DEF ToggleRow, BoardRecords
  <2>. QED  BY <2>1, <2>2, <2>3, <2>4
<1>3. record' \in RecordTypes /\ record.changes <= record'.changes
  <2>1. CASE ActServed
    <3>1. CASE board.act.step = "deputize"
      <4>1. board.act.finding \in Findings
          BY <3>1 DEF BoardInv, Sound
      <4>2. record' = [record EXCEPT !.trusted = @ \cup {SubjectOf(board.act.finding)}]
          BY <2>1, <3>1 DEF ActServed
      <4>. QED  BY <1>1, <4>1, <4>2 DEF RecordTypes, Subjects
    <3>2. CASE board.act.step = "status"
      <4>1. record.changes + 1 \in 0..MaxChanges
          BY <1>1, <2>1, <3>2, WantedAssumption DEF ActServed, RecordTypes
      <4>2. record' = [record EXCEPT !.found = @ \ {board.act.finding}, !.changes = @ + 1]
          BY <2>1, <3>2 DEF ActServed
      <4>3. record.found \ {board.act.finding} \in SUBSET Findings
          BY <1>1 DEF RecordTypes
      <4>4. record' \in RecordTypes /\ record'.changes = record.changes + 1
          BY <1>1, <4>1, <4>2, <4>3 DEF RecordTypes
      <4>. QED  BY <1>1, <4>4
    <3>. QED  BY <2>1, <3>1, <3>2 DEF ActServed
  <2>2. CASE UNCHANGED record
      BY <1>1, <2>2
  <2>. QED  BY <2>1, <2>2 DEF ActFails, Clear, Trust, ToggleRow
<1>4. record'.changes \in Nat
    BY <1>3, HeldType
<1>5. Sound(board', record.changes)
    BY <1>1, <1>2, LoadsLeftAlone DEF BoardInv
<1>6. Sound(board', record'.changes)
    BY <1>1, <1>3, <1>4, <1>5, ChangesGrow
<1>. QED  BY <1>1, <1>2, <1>3, <1>6, SameIsNotOlder DEF BoardInv

\* The rules find something.
LEMMA BoardRaised ==
    ASSUME BoardInv, NEW f \in Findings, Raised(f)
    PROVE  BoardInv' /\ NothingOlder
<1>1. board \in BoardRecords /\ record \in RecordTypes /\ record.changes \in Nat /\ UNCHANGED board
    BY HeldType DEF BoardInv, Sound, Raised
<1>2. record.changes + 1 \in 0..MaxChanges
    BY <1>1, WantedAssumption DEF Raised, RecordTypes
<1>3. record' \in RecordTypes /\ record'.changes = record.changes + 1
    BY <1>1, <1>2 DEF Raised, RecordTypes
<1>4. Sound(board', record'.changes)
    BY <1>1, <1>3, ChangesGrow DEF BoardInv
<1>. QED  BY <1>1, <1>3, <1>4, SameIsNotOlder DEF BoardInv

LEMMA BoardStep == BoardInv /\ [BoardNext]_boardVars => BoardInv' /\ NothingOlder
<1>. SUFFICES ASSUME BoardInv, [BoardNext]_boardVars PROVE BoardInv' /\ NothingOlder
    OBVIOUS
<1>1. CASE UNCHANGED boardVars
  <2>1. BoardInv'
      BY <1>1 DEF BoardInv, boardVars
  <2>. QED  BY <1>1, <2>1, SameIsNotOlder DEF BoardInv, Sound, boardVars
<1>2. CASE \E l \in board.loads : ServeWanted(l) \/ ServeFindings(l) \/ Loaded(l) \/ LoadFails(l)
    BY <1>2, BoardServes, BoardLoads
<1>3. CASE \E f \in Findings : Clear(f) \/ Trust(f) \/ Raised(f)
    BY <1>3, BoardActs, BoardRaised
<1>. QED  BY <1>1, <1>2, <1>3, BoardAsks, BoardActs DEF BoardNext

THEOREM BoardInvHolds == BoardSpec => []BoardInv
<1>1. BoardInv /\ [BoardNext]_boardVars => BoardInv'
    BY BoardStep
<1>. QED  BY <1>1, BoardInitInv, PTL DEF BoardSpec

\* The types of the findings of the service and of what the Wanted List holds of them.
THEOREM BoardTypeCorrect == BoardSpec => []BoardTypeOK
<1>1. BoardInv => BoardTypeOK
    BY DEF BoardInv, Sound, BoardTypeOK, BoardRecords, RecordTypes, Held
<1>. QED  BY <1>1, BoardInvHolds, PTL

\* What a poll brings is never older than what it replaces (freshness.tsx:148-185), for
\* any number of findings, changes and requests.
THEOREM PollsNeverBringBack == BoardSpec => PollsNeverGoBack
<1>1. BoardInv /\ [BoardNext]_boardVars
      => [board'.wanted.at >= board.wanted.at /\ board'.findings.at >= board.findings.at]_boardVars
    BY BoardStep DEF NothingOlder
<1>. QED  BY <1>1, BoardInvHolds, PTL DEF BoardSpec, PollsNeverGoBack

-------------------------------------------------------------------------------
\* The alert. The argument: what was announced is among the ids seen, and among those the
\* browser keeps for the next page, unless so many greater ones were heard of that it is
\* forgotten; and what is seen is not announced.

NoticesRecords ==
    [life : 0..MaxWipes, rows : SUBSET FindingRows, open : SUBSET FindingRows,
     visible : BOOLEAN, suppressed : BOOLEAN,
     seen : SUBSET Ids, primed : BOOLEAN, stored : SUBSET Ids,
     flights : SUBSET SUBSET FindingRows, queue : SUBSET FindingRows,
     told : [FindingRows -> 0..2], stood : SUBSET FindingRows, met : SUBSET FindingRows]

\* What was announced is among these ids, but for what is forgotten.
Remembers(n, ids) == \A f \in FindingRows : n.told[f] > 0 => f.id \in ids \/ IsForgotten(n, f)

NotTwice(n) == \A f \in FindingRows : n.told[f] <= 1 \/ IsForgotten(n, f)

Discreet(n) ==
    /\ n \in NoticesRecords
    /\ n.seen \subseteq HeardOf(n) /\ n.stored \subseteq HeardOf(n)
    /\ Remembers(n, n.seen) /\ Remembers(n, n.stored)
    /\ NotTwice(n)

NoticesInv == Discreet(notices)

LEMMA RowTypes ==
    /\ Ids \subseteq Nat
    /\ \A f \in FindingRows : f.id \in Ids
    /\ \A n \in NoticesRecords : HeardOf(n) \subseteq Ids
    /\ \A n \in NoticesRecords, f \in FindingRows : n.told[f] \in 0..2
    /\ \A fs \in SUBSET FindingRows : IdsOf(fs) \subseteq Ids
<1>1. Ids \subseteq Nat /\ \A f \in FindingRows : f.id \in Ids
    BY NoticesAssumption DEF Ids, FindingRows
<1>. QED  BY <1>1 DEF HeardOf, IdsOf, NoticesRecords

\* Sets of ids are finite, and a set of them counts no more than what holds it.
LEMMA IdsCount ==
    ASSUME NEW S \in SUBSET Ids, NEW T \in SUBSET S
    PROVE  Cardinality(S) \in Nat /\ Cardinality(T) \in Nat /\ Cardinality(T) <= Cardinality(S)
<1>1. MaxId \in Int /\ 1 \in Int
    BY NoticesAssumption
<1>2. IsFiniteSet(Ids)
    BY <1>1, FS_Interval DEF Ids
<1>3. IsFiniteSet(S)
    BY <1>2, FS_Subset
<1>4. IsFiniteSet(T) /\ Cardinality(T) <= Cardinality(S)
    BY <1>3, FS_Subset
<1>. QED  BY <1>3, <1>4, FS_CardinalityType

\* What is forgotten stays so while more is heard of.
LEMMA ForgottenStays ==
    ASSUME NEW n \in NoticesRecords, NEW m \in NoticesRecords, HeardOf(n) \subseteq HeardOf(m),
           NEW f \in FindingRows, IsForgotten(n, f)
    PROVE  IsForgotten(m, f)
<1>. DEFINE S == {i \in HeardOf(n) : i > f.id}
            T == {i \in HeardOf(m) : i > f.id}
<1>1. T \in SUBSET Ids /\ S \in SUBSET T
    BY RowTypes
<1>2. Cardinality(S) >= MaxSeen
    BY DEF IsForgotten
<1>3. MaxSeen \in Nat
    BY NoticesAssumption
<1>. HIDE DEF S, T
<1>4. Cardinality(T) >= MaxSeen
    BY <1>1, <1>2, <1>3, IdsCount
<1>. QED  BY <1>4 DEF IsForgotten, T

\* A stroke that announces nothing and marks nothing; a page that is loaded again has
\* seen what was stored.
LEMMA NothingAnnounced ==
    ASSUME NEW n, Discreet(n), NEW m \in NoticesRecords,
           m.seen = n.seen \/ m.seen = n.stored, m.stored = n.stored, m.told = n.told,
           HeardOf(n) \subseteq HeardOf(m)
    PROVE  Discreet(m)
<1>1. n \in NoticesRecords
    BY DEF Discreet
<1>2. Remembers(m, m.seen) /\ Remembers(m, m.stored)
    BY <1>1, ForgottenStays DEF Remembers, Discreet
<1>3. NotTwice(m)
    BY <1>1, ForgottenStays DEF NotTwice, Discreet
<1>. QED  BY <1>2, <1>3 DEF Discreet

\* The greatest of what is seen.
Kept(seen) == {i \in seen : Cardinality({j \in seen : j > i}) < MaxSeen}

\* Some are marked, and those of them that were not seen may be announced.
LEMMA Marks ==
    ASSUME NEW n, Discreet(n), NEW m \in NoticesRecords, NEW ids \in SUBSET Ids,
           m.seen = n.seen \cup ids, m.stored = Kept(m.seen),
           HeardOf(n) \cup ids \subseteq HeardOf(m),
           \A f \in FindingRows : m.told[f] = n.told[f] \/ (f.id \in ids /\ (n.told[f] = 0 => m.told[f] <= 1)),
           \A f \in FindingRows : f.id \in n.seen => m.told[f] = n.told[f]
    PROVE  Discreet(m)
<1>1. n \in NoticesRecords /\ m.seen \in SUBSET Ids
    BY DEF Discreet, NoticesRecords
<1>2. m.seen \subseteq HeardOf(m) /\ m.stored \subseteq HeardOf(m)
    BY DEF Discreet, Kept
<1>3. Remembers(m, m.seen)
    BY <1>1, ForgottenStays DEF Remembers, Discreet
<1>4. ASSUME NEW f \in FindingRows, f.id \in m.seen \ m.stored PROVE IsForgotten(m, f)
  <2>. DEFINE S == {j \in m.seen : j > f.id}
              T == {j \in HeardOf(m) : j > f.id}
  <2>1. S \in SUBSET T /\ T \in SUBSET Ids
      BY <1>2, RowTypes
  <2>2. ~(Cardinality(S) < MaxSeen)
      BY <1>4 DEF Kept
  <2>3. MaxSeen \in Nat
      BY NoticesAssumption
  <2>. HIDE DEF S, T
  <2>4. Cardinality(T) >= MaxSeen
      BY <2>1, <2>2, <2>3, IdsCount
  <2>. QED  BY <2>4 DEF IsForgotten, T
<1>5. Remembers(m, m.stored)
    BY <1>3, <1>4 DEF Remembers
<1>6. NotTwice(m)
  <2>. SUFFICES ASSUME NEW f \in FindingRows, ~(m.told[f] <= 1) PROVE IsForgotten(m, f)
      BY DEF NotTwice
  <2>1. n.told[f] \in 0..2 /\ m.told[f] \in 0..2
      BY <1>1, RowTypes
  <2>2. CASE m.told[f] = n.told[f]
      BY <1>1, <2>2, ForgottenStays DEF Discreet, NotTwice
  <2>3. CASE m.told[f] # n.told[f]
    <3>1. n.told[f] > 0 /\ f.id \notin n.seen
        BY <2>1, <2>3
    <3>2. IsForgotten(n, f)
        BY <3>1 DEF Discreet, Remembers
    <3>. QED  BY <1>1, <3>2, ForgottenStays
  <2>. QED  BY <2>2, <2>3
<1>. QED  BY <1>2, <1>3, <1>5, <1>6 DEF Discreet

\* Numbers up to a bound have a greatest one. (The intervals from each of them to the
\* bound are finite sets, of which one has no other within it.)
LEMMA GreatestExists ==
    ASSUME NEW bound \in Nat, NEW S, S # {}, S \subseteq 0..bound
    PROVE  Max(S) \in S /\ \A x \in S : Max(S) >= x
<1>. DEFINE After == {x..bound : x \in S}
<1>1. After # {}
    OBVIOUS
<1>2. After \subseteq FiniteSubsetsOf(Nat)
  <2>. SUFFICES ASSUME NEW x \in S PROVE x..bound \in FiniteSubsetsOf(Nat)
      OBVIOUS
  <2>1. IsFiniteSet(x..bound) /\ x..bound \subseteq Nat
      BY FS_Interval
  <2>. QED  BY <2>1 DEF FiniteSubsetsOf
<1>3. PICK A \in After : \A B \in After : ~(<<B, A>> \in StrictSubsetOrdering(Nat))
    BY <1>1, <1>2, FS_StrictSubsetOrderingWellFounded, WFMin
<1>4. PICK x \in S : A = x..bound
    OBVIOUS
<1>5. ASSUME NEW y \in S, x < y PROVE FALSE
  <2>1. y..bound \in After /\ y..bound \subseteq Nat /\ x..bound \subseteq Nat
      OBVIOUS
  <2>2. y..bound \subseteq x..bound /\ x \in x..bound /\ x \notin y..bound
      BY <1>5
  <2>3. <<y..bound, A>> \in StrictSubsetOrdering(Nat)
      BY <2>1, <2>2, <1>4 DEF StrictSubsetOrdering
  <2>. QED  BY <2>1, <2>3, <1>3
<1>6. \E m \in S : \A y \in S : m >= y
    BY <1>5
<1>. QED  BY <1>6 DEF Max

\* A row that is added is numbered from 1.
LEMMA NextIdType ==
    ASSUME NEW rows \in SUBSET FindingRows PROVE NextId(rows) \in Nat \ {0}
<1>. DEFINE S == {0} \cup IdsOf(rows)
<1>1. MaxId \in Nat /\ IdsOf(rows) \subseteq Ids
    BY NoticesAssumption, RowTypes
<1>2. S # {} /\ S \subseteq 0..MaxId
    BY <1>1 DEF Ids
<1>. HIDE DEF S
<1>3. Max(S) \in 0..MaxId
    BY <1>1, <1>2, GreatestExists
<1>4. NextId(rows) = 1 + Max(S)
    BY DEF NextId, S
<1>. QED  BY <1>1, <1>3, <1>4

\* A check is answered with findings there are.
LEMMA CheckIsDiscreet ==
    ASSUME NEW n, Discreet(n) PROVE Discreet(Check(n))
<1>1. n \in NoticesRecords
    BY DEF Discreet
<1>2. Answer(n) \in SUBSET FindingRows
    BY <1>1 DEF Answer, Newest, NoticesRecords
<1>. HIDE DEF Discreet
<1>3. Check(n) \in NoticesRecords
    BY <1>1, <1>2 DEF Check, NoticesRecords
<1>4. /\ Check(n).seen = n.seen /\ Check(n).stored = n.stored /\ Check(n).told = n.told
      /\ Check(n).met = n.met /\ Check(n).stood = n.stood
    BY <1>1 DEF Check, NoticesRecords
<1>. QED  BY <1>3, <1>4, NothingAnnounced DEF HeardOf

LEMMA NoticesInitInv == NoticesInit => NoticesInv
<1>. DEFINE n == [life |-> 0, rows |-> {}, open |-> {}, visible |-> TRUE, suppressed |-> FALSE,
                  seen |-> {}, primed |-> FALSE, stored |-> {}, flights |-> {}, queue |-> {},
                  told |-> [f \in FindingRows |-> 0], stood |-> {}, met |-> {}]
<1>1. n \in NoticesRecords
  <2>1. 0 \in 0..MaxWipes
      BY NoticesAssumption
  <2>. QED  BY <2>1 DEF NoticesRecords
<1>2. n.seen = {} /\ n.stored = {} /\ \A f \in FindingRows : n.told[f] = 0
    OBVIOUS
<1>3. NoticesInit <=> notices = Check(n)
    BY DEF NoticesInit
<1>. HIDE DEF n
<1>4. Discreet(n)
    BY <1>1, <1>2 DEF Discreet, Remembers, NotTwice
<1>. QED  BY <1>3, <1>4, CheckIsDiscreet DEF NoticesInv

\* What the service does, and what the reader does, announces nothing.
LEMMA NoticesQuiet ==
    ASSUME Discreet(notices),
           \/ FindingRaised \/ FindingClosed \/ Wipe \/ Viewed \/ Dismissed \/ Navigates
           \/ \E answer \in notices.flights : CheckFails(answer)
    PROVE  Discreet(notices')
<1>1. notices \in NoticesRecords
    BY DEF Discreet
<1>2. /\ notices' \in NoticesRecords
      /\ notices'.seen = notices.seen /\ notices'.stored = notices.stored /\ notices'.told = notices.told
      /\ notices'.met = notices.met /\ notices'.stood = notices.stood
  <2>1. CASE FindingRaised
    <3>. DEFINE f == [id |-> NextId(notices.rows), life |-> notices.life]
    <3>1. f \in FindingRows
      <4>1. notices.rows \in SUBSET FindingRows /\ notices.life \in 0..MaxWipes
          BY <1>1 DEF NoticesRecords
      <4>2. NextId(notices.rows) \in Ids
          BY <2>1, <4>1, NextIdType, NoticesAssumption DEF FindingRaised, Ids
      <4>. QED  BY <4>1, <4>2 DEF FindingRows
    <3>2. notices' = [notices EXCEPT !.rows = @ \cup {f}, !.open = @ \cup {f}]
        BY <2>1 DEF FindingRaised
    <3>. HIDE DEF f
    <3>. QED  BY <1>1, <3>1, <3>2 DEF NoticesRecords
  <2>2. CASE FindingClosed
      BY <1>1, <2>2 DEF FindingClosed, NoticesRecords
  <2>3. CASE Wipe
    <3>1. notices.life + 1 \in 0..MaxWipes
        BY <1>1, <2>3, NoticesAssumption DEF Wipe, NoticesRecords
    <3>. QED  BY <1>1, <2>3, <3>1 DEF Wipe, NoticesRecords
  <2>4. CASE Viewed \/ Dismissed \/ Navigates
    <3>1. PICK q \in SUBSET FindingRows, b \in BOOLEAN : notices' = [notices EXCEPT !.queue = q, !.suppressed = b]
      <4>1. CASE Viewed
          BY <1>1, <4>1 DEF Viewed, NoticesRecords
      <4>2. CASE Dismissed
          BY <1>1, <4>2 DEF Dismissed, NoticesRecords
      <4>3. CASE Navigates
          BY <1>1, <4>3 DEF Navigates, NoticesRecords
      <4>. QED  BY <2>4, <4>1, <4>2, <4>3
    <3>. QED  BY <1>1, <3>1 DEF NoticesRecords
  <2>5. CASE \E answer \in notices.flights : CheckFails(answer)
      BY <1>1, <2>5 DEF CheckFails, NoticesRecords
  <2>. QED  BY <2>1, <2>2, <2>3, <2>4, <2>5
<1>. QED  BY <1>1, <1>2, NothingAnnounced DEF HeardOf

\* The page asks: on its interval, on being looked at again, and when it is loaded.
LEMMA NoticesAsks ==
    ASSUME Discreet(notices), NoticesPoll \/ NoticesVisibilityChanges \/ Reloads
    PROVE  Discreet(notices')
<1>1. notices \in NoticesRecords
    BY DEF Discreet
<1>2. CASE NoticesPoll
    BY <1>2, CheckIsDiscreet DEF NoticesPoll
<1>3. CASE NoticesVisibilityChanges
  <2>. DEFINE n == [notices EXCEPT !.visible = ~@]
  <2>1. /\ n \in NoticesRecords /\ n.seen = notices.seen /\ n.stored = notices.stored
        /\ n.told = notices.told /\ n.met = notices.met /\ n.stood = notices.stood
      BY <1>1 DEF NoticesRecords
  <2>2. notices' = Check(n) \/ notices' = n
      BY <1>3 DEF NoticesVisibilityChanges
  <2>. HIDE DEF n
  <2>3. Discreet(n)
      BY <1>1, <2>1, NothingAnnounced DEF HeardOf
  <2>. QED  BY <2>2, <2>3, CheckIsDiscreet
<1>4. CASE Reloads
  <2>. DEFINE n == [notices EXCEPT !.seen = notices.stored, !.primed = FALSE, !.queue = {},
                                   !.flights = {}, !.visible = TRUE, !.suppressed = FALSE]
  <2>1. /\ n \in NoticesRecords /\ n.seen = notices.stored /\ n.stored = notices.stored
        /\ n.told = notices.told /\ n.met = notices.met /\ n.stood = notices.stood
      BY <1>1 DEF NoticesRecords
  <2>2. notices' = Check(n)
      BY <1>4 DEF Reloads
  <2>. HIDE DEF n
  <2>3. Discreet(n)
      BY <1>1, <2>1, NothingAnnounced DEF HeardOf
  <2>. QED  BY <2>2, <2>3, CheckIsDiscreet
<1>. QED  BY <1>2, <1>3, <1>4

\* The first answer: what stands is marked, and none of it announced.
LEMMA NoticesFirst ==
    ASSUME Discreet(notices), NEW answer \in notices.flights, FirstAnswer(answer)
    PROVE  Discreet(notices')
<1>1. notices \in NoticesRecords /\ answer \in SUBSET FindingRows
    BY DEF Discreet, NoticesRecords
<1>2. IdsOf(answer) \in SUBSET Ids
    BY <1>1, RowTypes
<1>3. /\ notices'.seen = notices.seen \cup IdsOf(answer)
      /\ notices'.stored = Kept(notices.seen \cup IdsOf(answer))
      /\ notices'.told = notices.told
      /\ notices'.met = notices.met /\ notices'.stood = notices.stood \cup answer
    BY <1>1 DEF FirstAnswer, MarkSeen, Kept, NoticesRecords
<1>4. notices' \in NoticesRecords
  <2>1. Kept(notices.seen \cup IdsOf(answer)) \in SUBSET Ids /\ notices.seen \cup IdsOf(answer) \in SUBSET Ids
      BY <1>1, <1>2 DEF Kept, NoticesRecords
  <2>. QED  BY <1>1, <2>1 DEF FirstAnswer, MarkSeen, Kept, NoticesRecords
<1>5. HeardOf(notices) \cup IdsOf(answer) \subseteq HeardOf(notices')
    BY <1>3 DEF HeardOf, IdsOf
<1>. QED  BY <1>2, <1>3, <1>4, <1>5, Marks

\* How often a finding was announced, counted no further than two.
LEMMA ToldTwice ==
    ASSUME NEW k \in 0..2
    PROVE  Min({2, k + 1}) \in 0..2 /\ (k = 0 => Min({2, k + 1}) = 1)
<1>. DEFINE S == {2, k + 1}
<1>1. \E x \in S : \A y \in S : x <= y
    OBVIOUS
<1>2. Min(S) \in S /\ \A y \in S : Min(S) <= y
    BY <1>1 DEF Min
<1>. QED  BY <1>2

\* A later answer: what was not seen is announced, and marked.
LEMMA NoticesLater ==
    ASSUME Discreet(notices), NEW answer \in notices.flights, LaterAnswer(answer)
    PROVE  Discreet(notices')
<1>. DEFINE fresh == {f \in answer : f.id \notin notices.seen}
            n == [notices EXCEPT !.flights = @ \ {answer}, !.met = @ \cup answer]
            told == [f \in FindingRows |-> IF f \in fresh THEN Min({2, notices.told[f] + 1}) ELSE notices.told[f]]
<1>1. notices \in NoticesRecords /\ answer \in SUBSET FindingRows /\ fresh \in SUBSET FindingRows
    BY DEF Discreet, NoticesRecords
<1>2. /\ n \in NoticesRecords /\ n.seen = notices.seen /\ n.stored = notices.stored /\ n.told = notices.told
      /\ n.stood = notices.stood /\ n.met = notices.met \cup answer /\ n.queue = notices.queue
    BY <1>1 DEF NoticesRecords
<1>3. HeardOf(notices) \cup IdsOf(answer) \subseteq HeardOf(n)
    BY <1>2 DEF HeardOf, IdsOf
<1>4. Discreet(n)
    BY <1>1, <1>2, <1>3, NothingAnnounced
<1>5. told \in [FindingRows -> 0..2]
    BY <1>1, RowTypes, ToldTwice
<1>6. fresh = {} => notices' = n
    BY DEF LaterAnswer
<1>7. ASSUME fresh # {}
      PROVE  \E q \in SUBSET FindingRows : notices' = [MarkSeen(n, IdsOf(fresh)) EXCEPT !.queue = q, !.told = told]
  <2>1. PICK q \in SUBSET (fresh \cup n.queue) :
          notices' = [MarkSeen(n, IdsOf(fresh)) EXCEPT
                        !.queue = q,
                        !.told = [f \in FindingRows |-> IF f \in fresh THEN Min({2, @[f] + 1}) ELSE @[f]]]
      BY <1>7 DEF LaterAnswer
  <2>2. MarkSeen(n, IdsOf(fresh)).told = notices.told
      BY <1>2 DEF MarkSeen, NoticesRecords
  <2>3. q \in SUBSET FindingRows
      BY <1>1, <1>2 DEF NoticesRecords
  <2>. QED  BY <2>1, <2>2, <2>3
<1>8. CASE fresh # {}
  <2>1. IdsOf(fresh) \in SUBSET Ids /\ IdsOf(fresh) \subseteq IdsOf(answer)
      BY <1>1, RowTypes DEF IdsOf
  <2>2. \A f \in FindingRows : told[f] = n.told[f]
                               \/ (f.id \in IdsOf(fresh) /\ (n.told[f] = 0 => told[f] <= 1))
    <3>. SUFFICES ASSUME NEW f \in FindingRows, f \in fresh
                  PROVE  f.id \in IdsOf(fresh) /\ (n.told[f] = 0 => told[f] <= 1)
        BY <1>2
    <3>1. f.id \in IdsOf(fresh)
        BY DEF IdsOf
    <3>2. notices.told[f] \in 0..2 /\ told[f] = Min({2, notices.told[f] + 1}) /\ n.told = notices.told
        BY <1>1, <1>2, RowTypes
    <3>. HIDE DEF fresh, n, told
    <3>3. notices.told[f] = 0 => told[f] = 1
        BY <3>2, ToldTwice
    <3>. QED  BY <3>1, <3>2, <3>3
  <2>3. \A f \in FindingRows : f.id \in n.seen => told[f] = n.told[f]
      BY <1>2
  <2>. HIDE DEF fresh, n, told
  <2>4. PICK q \in SUBSET FindingRows : notices' = [MarkSeen(n, IdsOf(fresh)) EXCEPT !.queue = q, !.told = told]
      BY <1>7, <1>8
  <2>5. /\ notices'.seen = n.seen \cup IdsOf(fresh) /\ notices'.stored = Kept(n.seen \cup IdsOf(fresh))
        /\ notices'.told = told /\ notices'.met = n.met /\ notices'.stood = n.stood
      BY <1>2, <2>4 DEF MarkSeen, Kept, NoticesRecords
  <2>6. notices' \in NoticesRecords
    <3>1. Kept(n.seen \cup IdsOf(fresh)) \in SUBSET Ids /\ n.seen \cup IdsOf(fresh) \in SUBSET Ids
        BY <1>2, <2>1 DEF Kept, NoticesRecords
    <3>. QED  BY <1>2, <1>5, <2>4, <3>1 DEF MarkSeen, Kept, NoticesRecords
  <2>7. HeardOf(n) \cup IdsOf(fresh) \subseteq HeardOf(notices')
    <3>1. HeardOf(notices') = HeardOf(n)
        BY <2>5 DEF HeardOf
    <3>. QED  BY <1>3, <2>1, <3>1
  <2>. QED  BY <1>4, <2>1, <2>2, <2>3, <2>5, <2>6, <2>7, Marks
<1>. QED  BY <1>4, <1>6, <1>8

LEMMA NoticesStep == NoticesInv /\ [NoticesNext]_notices => NoticesInv'
<1>. SUFFICES ASSUME Discreet(notices), [NoticesNext]_notices PROVE Discreet(notices')
    BY DEF NoticesInv, Discreet, Remembers, NotTwice, HeardOf, IsForgotten
<1>1. CASE UNCHANGED notices
    BY <1>1
<1>. QED  BY <1>1, NoticesQuiet, NoticesAsks, NoticesFirst, NoticesLater DEF NoticesNext

THEOREM NoticesInvHolds == NoticesSpec => []NoticesInv
BY NoticesInitInv, NoticesStep, PTL DEF NoticesSpec

\* The types of the findings of the service, of the tab and of what its browser keeps.
THEOREM NoticesTypeCorrect == NoticesSpec => []NoticesTypeOK
<1>1. NoticesInv => NoticesTypeOK
    BY DEF NoticesInv, Discreet, NoticesRecords, NoticesTypeOK
<1>. QED  BY <1>1, NoticesInvHolds, PTL

\* Nothing is announced twice (bolo.tsx:16) but what the browser has forgotten
\* (bolo.tsx:96-122), for any number of findings, wipes, answers in flight and ids kept.
THEOREM NeverAnnouncedTwice == NoticesSpec => []NothingAnnouncedTwice
<1>1. NoticesInv => NothingAnnouncedTwice
    BY DEF NoticesInv, Discreet, NotTwice, NothingAnnouncedTwice
<1>. QED  BY <1>1, NoticesInvHolds, PTL
=============================================================================
