------------------------- MODULE FlowHistory_proofs -------------------------
(***************************************************************************)
(* For any flows, hours and retentions: the rollups invent nothing and     *)
(* lose nothing they have passed, and the pruner takes no endpoint that a  *)
(* flow within retention leads to.                                         *)
(*                                                                         *)
(* The argument: the roller works below the current hour and above its     *)
(* cursor, a flow's row lies between its start and the clock, and a flow   *)
(* whose row was deleted ahead of the cursor is excused. An hour is passed *)
(* when it was aggregated, before the cursor says so, which makes the      *)
(* crash between the two harmless. Between the two transactions of a flush *)
(* an endpoint is as young as what leads to it: the pruner may take it     *)
(* only when the flow that is about to be written is as old.               *)
(***************************************************************************)
EXTENDS FlowHistory, TLAPS, FiniteSetTheorems, WellFoundedInduction

\* The start of a flow, its latest sighting and what is staged or written of it are
\* in the order they happened.
InOrder ==
  /\ \A f \in Flows : start[f] <= now
  /\ \A f \in Flows : staged[f] # None =>
       start[f] # None /\ start[f] <= staged[f] /\ staged[f] <= now
  /\ \A f \in Flows : tsLast[f] # None =>
       start[f] # None /\ start[f] <= tsLast[f] /\ tsLast[f] <= now
  /\ \A f \in Flows : row[f] # None => start[f] # None /\ start[f] <= row[f] /\ row[f] <= now
  /\ pruner.began <= now

\* The rollups work on hours that are over and not yet behind the cursor.
RollerInBounds ==
  /\ cursor < Hour(now)
  /\ roller.at # "idle" => cursor < roller.next /\ roller.upTo <= Hour(now)

\* The home of a flow that is held is the hour of its row.
HomeOfRow == \A f \in Flows : row[f] # None => home[f] = Hour(row[f])

\* A flow deleted ahead of the cursor is excused.
DeletedAheadIsExcused ==
  \A f \in Flows : row[f] = None /\ cursor < home[f] => f \in excused

\* An hour that the rollups have been through, its cursor written or not.
Through(h) ==
  \/ h <= cursor
  \/ roller.at # "idle" /\ h < roller.next
  \/ roller.at = "advance" /\ h = roller.next

ThroughIsWhole ==
  \A f \in Flows :
    home[f] # None /\ Through(home[f]) /\ f \notin excused => rollups[home[f]][f] = 1

\* Between the transactions of a flush, the endpoint is as young as what is staged,
\* or what is staged is past its retention already.
StagedHasEndpoint ==
  engine = "flows" =>
    \A f \in Staged :
      Dst[f] \in untouched \/ staged[f] <= endpoint[Dst[f]] \/ staged[f] + Raw < now

\* The inductive invariant.
IInv ==
  /\ TypeOK /\ InOrder /\ RollerInBounds
  /\ HomeOfRow /\ DeletedAheadIsExcused /\ ThroughIsWhole
  /\ NothingInvented
  /\ StagedHasEndpoint /\ RecentFlowHasEndpoint
----------------------------------------------------------------------------
(***************************************************************************)
(* Hours, and the latest of some sightings.                                *)
(***************************************************************************)

\* The quotient is one, as far as order goes.
LEMMA HourBounds ==
  ASSUME NEW t \in Nat
  PROVE  Hour(t) \in Nat /\ Hour(t) * HourLen <= t /\ t < Hour(t) * HourLen + HourLen
BY HistoryAssumption DEF Hour

LEMMA HourMonotone ==
  ASSUME NEW t \in Nat, NEW u \in Nat, t <= u
  PROVE  Hour(t) <= Hour(u)
<1>1. PICK a \in Nat : a = Hour(t)
  BY HourBounds
<1>2. PICK b \in Nat : b = Hour(u)
  BY HourBounds
<1>3. PICK p \in Nat : p = a * HourLen
  BY HistoryAssumption
<1>4. PICK q \in Nat : q = b * HourLen
  BY HistoryAssumption
<1>5. p <= t /\ u < q + HourLen
  BY HourBounds, <1>1, <1>2, <1>3, <1>4
<1>6. b < a => q + HourLen <= p
  BY <1>3, <1>4, HistoryAssumption
<1>. QED  BY <1>1, <1>2, <1>5, <1>6, HistoryAssumption

\* What the proofs use of the clock: every tick is in an hour, which is not hour 0.
LEMMA HoursOfTicks ==
  /\ Hours \subseteq Nat /\ None \in Hours /\ Hour(None) = 0
  /\ \A h \in Nat, k \in Hours : h <= k => h \in Hours
  /\ Ticks \subseteq Nat \ {None} /\ HourLen \in Ticks
  /\ \A t \in Ticks : Hour(t) \in Hours \ {None}
  /\ \A t, u \in Ticks : t <= u => Hour(t) <= Hour(u)
<1>1. {HourLen, MaxNow} \subseteq Nat \ {0} /\ HourLen <= MaxNow
  BY HistoryAssumption
<1>2. /\ Ticks \subseteq Nat \ {None} /\ HourLen \in Ticks /\ MaxNow \in Nat
      /\ \A t \in Ticks : HourLen <= t /\ t <= MaxNow
  BY <1>1 DEF Ticks, None
<1>3. Hour(0) = 0 /\ Hour(HourLen) = 1
  BY <1>1 DEF Hour
<1>4. ASSUME NEW t \in Ticks PROVE Hour(t) \in Hours \ {None}
  <2>1. 1 <= Hour(t) /\ Hour(t) <= Hour(MaxNow) /\ Hour(t) \in Nat /\ Hour(MaxNow) \in Nat
    BY <1>2, <1>3, HourMonotone, HourBounds
  <2>. QED  BY <2>1 DEF Hours, None
<1>5. Hours \subseteq Nat /\ None \in Hours /\ \A h \in Nat, k \in Hours : h <= k => h \in Hours
  BY <1>2, HourBounds DEF Hours, None
<1>6. \A t, u \in Ticks : t <= u => Hour(t) <= Hour(u)
  BY <1>2, HourMonotone
<1>. QED  BY <1>2, <1>3, <1>4, <1>5, <1>6 DEF None

\* Instants up to a bound have a latest one. (The intervals from each of them to the
\* bound are finite sets, of which one has no other within it.)
LEMMA LatestExists ==
  ASSUME NEW bound \in Nat, NEW S, S # {}, S \subseteq 0 .. bound
  PROVE  \E x \in S : \A y \in S : y <= x
<1>. DEFINE After == {x .. bound : x \in S}
<1>1. After # {}
  OBVIOUS
<1>2. After \subseteq FiniteSubsetsOf(Nat)
  <2>. SUFFICES ASSUME NEW x \in S PROVE x .. bound \in FiniteSubsetsOf(Nat)
    OBVIOUS
  <2>1. IsFiniteSet(x .. bound) /\ x .. bound \subseteq Nat
    BY FS_Interval
  <2>. QED  BY <2>1 DEF FiniteSubsetsOf
<1>3. PICK A \in After : \A B \in After : ~(<<B, A>> \in StrictSubsetOrdering(Nat))
  BY <1>1, <1>2, FS_StrictSubsetOrderingWellFounded, WFMin
<1>4. PICK x \in S : A = x .. bound
  OBVIOUS
<1>5. ASSUME NEW y \in S, x < y PROVE FALSE
  <2>1. y .. bound \in After /\ y .. bound \subseteq Nat /\ x .. bound \subseteq Nat
    OBVIOUS
  <2>2. y .. bound \subseteq x .. bound /\ x \in x .. bound /\ x \notin y .. bound
    BY <1>5
  <2>3. <<y .. bound, A>> \in StrictSubsetOrdering(Nat)
    BY <2>1, <2>2, <1>4 DEF StrictSubsetOrdering
  <2>. QED  BY <2>1, <2>3, <1>3
<1>. QED  BY <1>5

\* LatestOf is the latest that is staged for an endpoint, if anything is.
LEMMA LatestOfIsLatest ==
  ASSUME TypeOK, NEW g \in Staged
  PROVE  /\ LatestOf(Dst[g]) \in Ticks
         /\ \A f \in Staged : Dst[f] = Dst[g] => staged[f] <= LatestOf(Dst[g])
<1>. DEFINE times == {staged[f] : f \in {x \in Staged : Dst[x] = Dst[g]}}
<1>1. \A f \in Staged : f \in Flows /\ staged[f] \in Ticks
  BY DEF TypeOK, Staged
<1>2. times # {} /\ times \subseteq Ticks
  BY <1>1
<1>3. times \subseteq 0 .. MaxNow /\ MaxNow \in Nat
  BY <1>2, HoursOfTicks, HistoryAssumption DEF Ticks
<1>4. PICK t \in times : \A u \in times : u <= t
  BY <1>2, <1>3, LatestExists
<1>5. \A f \in Staged : Dst[f] = Dst[g] => staged[f] \in times
  OBVIOUS
<1>6. \E u \in times : \A f \in Staged : Dst[f] = Dst[g] => staged[f] <= u
  BY <1>4, <1>5
<1>7. /\ LatestOf(Dst[g]) \in times
      /\ \A f \in Staged : Dst[f] = Dst[g] => staged[f] <= LatestOf(Dst[g])
  BY <1>6 DEF LatestOf
<1>. QED  BY <1>2, <1>7

----------------------------------------------------------------------------
(***************************************************************************)
(* The inductive invariant.                                                *)
(***************************************************************************)

LEMMA InitIInv == Init => IInv
<1>. SUFFICES ASSUME Init PROVE IInv
  OBVIOUS
<1>1. TypeOK
  BY HoursOfTicks DEF Init, TypeOK, Resting, Off, NoHour
<1>2. InOrder
  BY HoursOfTicks DEF Init, InOrder, Resting, Off, None
<1>3. RollerInBounds
  <2>1. Hour(HourLen) \in Nat \ {None}
    BY HoursOfTicks
  <2>. QED  BY <2>1 DEF Init, RollerInBounds, Resting, None
<1>4. HomeOfRow /\ DeletedAheadIsExcused /\ ThroughIsWhole
  BY DEF Init, HomeOfRow, DeletedAheadIsExcused, ThroughIsWhole, None
<1>5. NothingInvented
  BY DEF Init, NothingInvented, NoHour
<1>6. StagedHasEndpoint /\ RecentFlowHasEndpoint
  BY DEF Init, StagedHasEndpoint, RecentFlowHasEndpoint, Rows
<1>. QED  BY <1>1, <1>2, <1>3, <1>4, <1>5, <1>6 DEF IInv

\* The types, as numbers.
LEMMA InNumbers ==
  ASSUME TypeOK
  PROVE  /\ now \in Nat /\ cursor \in Nat
         /\ roller.next \in Nat /\ roller.upTo \in Nat /\ pruner.began \in Nat
         /\ \A f \in Flows : start[f] \in Nat /\ staged[f] \in Nat /\ row[f] \in Nat /\ home[f] \in Nat
         /\ \A f \in Flows : tsLast[f] \in Nat
         /\ \A d \in Dests : endpoint[d] \in Nat
<1>1. now \in Nat /\ cursor \in Nat
  BY HoursOfTicks DEF TypeOK
<1>2. roller.next \in Hours /\ roller.upTo \in Hours
  BY DEF TypeOK
<1>3. pruner.began \in {None} \union Ticks
  BY DEF TypeOK
<1>4. \A f \in Flows : start[f] \in Nat /\ staged[f] \in Nat /\ row[f] \in Nat /\ home[f] \in Nat
  BY HoursOfTicks DEF TypeOK, None
<1>5. \A d \in Dests : endpoint[d] \in Nat
  BY HoursOfTicks DEF TypeOK, None
<1>6. \A f \in Flows : tsLast[f] \in Nat
  BY HoursOfTicks DEF TypeOK, None
<1>. QED  BY <1>1, <1>2, <1>3, <1>4, <1>5, <1>6, HoursOfTicks DEF None

LEMMA DeleteTypes ==
  ASSUME TypeOK, NEW fs \in SUBSET Flows, Delete(fs)
  PROVE  row' \in [Flows -> {None} \union Ticks] /\ excused' \subseteq Flows
BY DEF Delete, TypeOK

\* Every step keeps the types.
LEMMA TypeStep == IInv /\ [Next]_vars => TypeOK'
<1>. SUFFICES ASSUME IInv, [Next]_vars PROVE TypeOK'
  OBVIOUS
<1>1. TypeOK /\ InOrder /\ RollerInBounds
  BY DEF IInv
<1>. USE <1>1
<1>2. CASE Tick
  <2>1. now' \in Ticks
    BY <1>2, InNumbers, HistoryAssumption DEF Tick, TypeOK, Ticks
  <2>. QED  BY <1>2, <2>1 DEF Tick, TypeOK, capture, history
<1>3. ASSUME NEW f \in Flows, See(f) \/ Close(f) PROVE TypeOK'
  <2>1. /\ start' \in [Flows -> {None} \union Ticks]
        /\ tsLast' \in [Flows -> {None} \union Ticks]
        /\ staged' \in [Flows -> {None} \union Ticks]
    <3>1. now \in Ticks /\ tsLast[f] \in {None} \union Ticks
      BY DEF TypeOK
    <3>2. CASE See(f)
      BY <3>1, <3>2 DEF See, TypeOK
    <3>3. CASE Close(f)
      BY <3>1, <3>3 DEF Close, TypeOK
    <3>. QED  BY <1>3, <3>2, <3>3
  <2>. QED  BY <1>3, <2>1 DEF See, Close, TypeOK, history
<1>4. ASSUME NEW ok \in BOOLEAN, FlushEndpoints(ok) PROVE TypeOK'
  <2>1. \A f \in Staged : Dst[f] \in Dests /\ LatestOf(Dst[f]) \in Ticks
    BY LatestOfIsLatest DEF Dests, Staged
  <2>2. \A d \in Dests : d \in {Dst[f] : f \in Staged} => Touched(d) \in {None} \union Ticks
    BY <2>1 DEF Touched, TypeOK
  <2>3. endpoint' \in [Dests -> {None} \union Ticks] /\ untouched' \subseteq Dests
    <3>1. CASE ok
      <4>1. /\ endpoint' = [d \in Dests |-> IF d \in {Dst[f] : f \in Staged} THEN Touched(d) ELSE endpoint[d]]
            /\ untouched' \subseteq untouched
        BY <1>4, <3>1 DEF FlushEndpoints
      <4>2. endpoint \in [Dests -> {None} \union Ticks] /\ untouched \subseteq Dests
        BY DEF TypeOK
      <4>. QED  BY <2>2, <4>1, <4>2
    <3>2. CASE ~ok
      BY <1>4, <2>1, <3>2 DEF FlushEndpoints, TypeOK
    <3>. QED  BY <3>1, <3>2
  <2>. QED  BY <1>4, <2>3 DEF FlushEndpoints, TypeOK, history
<1>5. ASSUME NEW ok \in BOOLEAN, FlushFlows(ok) PROVE TypeOK'
  <2>1. \A f \in Staged : Hour(staged[f]) \in Hours /\ staged[f] \in Ticks
    BY HoursOfTicks DEF Staged, TypeOK
  <2>2. /\ row' \in [Flows -> {None} \union Ticks] /\ home' \in [Flows -> Hours]
        /\ excused' \subseteq Flows
    BY <1>5, <2>1 DEF FlushFlows, TypeOK, history, Staged, Moved
  <2>. QED  BY <1>5, <2>2 DEF FlushFlows, TypeOK
<1>6. CASE RollStart
  <2>1. PICK h \in RollFrom : h < RollUpTo /\ roller' = [at |-> "aggregate", next |-> h, upTo |-> RollUpTo]
    BY <1>6 DEF RollStart
  <2>2. RollUpTo \in Hours
    BY HoursOfTicks DEF RollUpTo, TypeOK
  <2>3. cursor \in Nat /\ \A f \in Flows : start[f] \in {None} \union Ticks
    BY InNumbers DEF TypeOK
  <2>4. h \in Nat
    <3>1. CASE cursor # None
      BY <2>1, <2>3, <3>1 DEF RollFrom
    <3>2. CASE cursor = None
      <4>1. PICK f \in Rows : h = Hour(start[f])
        BY <2>1, <3>2 DEF RollFrom
      <4>. QED  BY <4>1, <2>3, HoursOfTicks DEF Rows, None
    <3>. QED  BY <3>1, <3>2
  <2>5. h \in Hours
    BY <2>1, <2>2, <2>4, HoursOfTicks
  <2>. QED  BY <1>6, <2>1, <2>2, <2>5 DEF RollStart, TypeOK, capture, history
<1>7. CASE RollBucket
  BY <1>7 DEF RollBucket, Aggregate, TypeOK, capture, history
<1>8. CASE RollAdvance
  <2>1. roller.next + 1 \in Nat /\ roller.upTo \in Nat
    BY InNumbers
  <2>2. roller.upTo \in Hours /\ roller.next \in Hours
    BY DEF TypeOK
  <2>3. roller.next + 1 < roller.upTo => roller.next + 1 \in Hours
    BY <2>1, <2>2, HoursOfTicks
  <2>. QED  BY <1>8, <2>1, <2>2, <2>3, HoursOfTicks DEF RollAdvance, Resting, TypeOK, capture, history
<1>9. CASE RollStop
  BY <1>9, HoursOfTicks DEF RollStop, Resting, TypeOK, capture, history
<1>10. CASE PruneFlows
  BY <1>10, DeleteTypes DEF PruneFlows, Rows, TypeOK, capture
<1>11. CASE PruneRollups
  BY <1>11 DEF PruneRollups, NoHour, TypeOK, capture
<1>12. CASE PruneEndpoints
  BY <1>12 DEF PruneEndpoints, TypeOK, capture, history
<1>13. CASE PruneOldest
  BY <1>13, DeleteTypes DEF PruneOldest, Rows, TypeOK, capture
<1>14. CASE PruneStop
  BY <1>14 DEF PruneStop, Off, TypeOK, capture, history
<1>15. CASE Wipe
  BY <1>15, HoursOfTicks DEF Wipe, WipeFlows, WipeEndpoints, WipeRollups, WipeCursor, WipeFails, NoHour, TypeOK, capture, history
<1>16. CASE Restart
  BY <1>16, HoursOfTicks DEF Restart, Resting, Off, TypeOK, history
<1>17. CASE UNCHANGED vars
  BY <1>17 DEF vars, capture, history, TypeOK
<1>. QED
  BY <1>2, <1>3, <1>4, <1>5, <1>6, <1>7, <1>8, <1>9, <1>10, <1>11, <1>12, <1>13, <1>14, <1>15, <1>16, <1>17
  DEF Next, Engine, Rollup, Prune

\* Deleting flows adds none.
LEMMA DeleteRows ==
  ASSUME TypeOK, NEW fs \in SUBSET Flows, Delete(fs), NEW f \in Flows
  PROVE  row'[f] = (IF f \in fs THEN None ELSE row[f])
BY DEF Delete, TypeOK

LEMMA OrderStep == IInv /\ [Next]_vars => InOrder'
<1>. SUFFICES ASSUME IInv, [Next]_vars PROVE InOrder'
  OBVIOUS
<1>1. TypeOK /\ InOrder
  BY DEF IInv
<1>. USE <1>1
<1>2. CASE Tick
  <2>1. now' = now + 1 /\ UNCHANGED <<start, tsLast, staged, row, pruner>>
    BY <1>2 DEF Tick, capture
  <2>. QED  BY <2>1, InNumbers DEF InOrder
<1>3. ASSUME NEW f \in Flows, See(f) PROVE InOrder'
  <2>1. /\ UNCHANGED <<now, row, pruner>>
        /\ \A g \in Flows : start'[g] = IF g = f /\ start[g] = None THEN now ELSE start[g]
        /\ \A g \in Flows : staged'[g] = IF g = f THEN now ELSE staged[g]
        /\ \A g \in Flows : tsLast'[g] = IF g = f THEN now ELSE tsLast[g]
    BY <1>3 DEF See, TypeOK
  <2>2. now # None
    BY HoursOfTicks DEF TypeOK
  <2>. QED  BY <2>1, <2>2, InNumbers DEF InOrder
<1>4. ASSUME NEW ok \in BOOLEAN, FlushFlows(ok) PROVE InOrder'
  <2>1. /\ UNCHANGED <<now, start, tsLast, pruner>>
        /\ \A g \in Flows : staged'[g] = None
        /\ \A g \in Flows : row'[g] = row[g] \/ (g \in Staged /\ row'[g] = staged[g])
    BY <1>4 DEF FlushFlows, TypeOK
  <2>. QED  BY <2>1, InNumbers DEF InOrder, Staged
<1>5. ASSUME NEW fs \in SUBSET Flows, Delete(fs), UNCHANGED <<now, start, tsLast, staged>>,
             pruner'.began <= now
      PROVE  InOrder'
  BY <1>5, DeleteRows, InNumbers DEF InOrder
<1>6. CASE PruneFlows
  <2>1. {f \in Rows : row[f] + Raw < now} \in SUBSET Flows /\ pruner'.began = now
    BY <1>6 DEF PruneFlows, Rows
  <2>. QED  BY <1>5, <1>6, <2>1, InNumbers DEF PruneFlows, capture
<1>7. CASE PruneOldest
  BY <1>5, <1>7 DEF PruneOldest, Rows, InOrder, capture
<1>8. CASE PruneRollups \/ PruneEndpoints \/ PruneStop
  <2>1. UNCHANGED <<now, start, tsLast, staged, row>> /\ pruner'.began \in {None, pruner.began}
    BY <1>8 DEF PruneRollups, PruneEndpoints, PruneStop, Off, TypeOK, capture
  <2>. QED  BY <2>1, InNumbers DEF InOrder, None
<1>9. CASE Wipe
  <2>1. UNCHANGED <<now, start, tsLast, staged, pruner>> /\ \A f \in Flows : row'[f] \in {None, row[f]}
    BY <1>9 DEF Wipe, WipeFlows, WipeEndpoints, WipeRollups, WipeCursor, WipeFails, TypeOK, capture
  <2>. QED  BY <2>1 DEF InOrder
<1>10. CASE Restart
  <2>1. /\ UNCHANGED <<now, start, row>> /\ pruner'.began = None
        /\ \A f \in Flows : staged'[f] = None /\ tsLast'[f] = None
    BY <1>10 DEF Restart, Off, TypeOK
  <2>. QED  BY <2>1, InNumbers DEF InOrder, None
<1>11. CASE Rollup
  BY <1>11 DEF Rollup, RollStart, RollBucket, RollAdvance, RollStop, InOrder, capture
<1>12. ASSUME NEW ok \in BOOLEAN, FlushEndpoints(ok) PROVE InOrder'
  BY <1>12 DEF FlushEndpoints, InOrder
<1>13. ASSUME NEW f \in Flows, Close(f) PROVE InOrder'
  <2>1. /\ UNCHANGED <<now, start, row, pruner>> /\ tsLast[f] # None
        /\ \A g \in Flows : staged'[g] = IF g = f THEN tsLast[f] ELSE staged[g]
        /\ \A g \in Flows : tsLast'[g] = IF g = f THEN None ELSE tsLast[g]
    BY <1>13 DEF Close, TypeOK
  <2>. QED  BY <2>1, InNumbers DEF InOrder
<1>14. CASE UNCHANGED vars
  BY <1>14 DEF vars, capture, InOrder
<1>. QED
  BY <1>2, <1>3, <1>4, <1>6, <1>7, <1>8, <1>9, <1>10, <1>11, <1>12, <1>13, <1>14 DEF Next, Engine, Prune

\* Where a rollup starts, it starts above the cursor.
LEMMA RollFromIsAhead ==
  ASSUME TypeOK, InOrder, NEW h \in RollFrom
  PROVE  h \in Nat /\ cursor < h
<1>1. CASE cursor # None
  BY <1>1, InNumbers DEF RollFrom
<1>2. CASE cursor = None
  <2>1. PICK f \in Rows : h = Hour(start[f])
    BY <1>2 DEF RollFrom
  <2>2. start[f] \in Ticks
    BY DEF Rows, InOrder, TypeOK
  <2>3. Hour(start[f]) \in Nat /\ Hour(start[f]) # None
    BY <2>2, HoursOfTicks
  <2>. QED  BY <1>2, <2>1, <2>3 DEF None
<1>. QED  BY <1>1, <1>2

LEMMA RollerStep == IInv /\ [Next]_vars => RollerInBounds'
<1>. SUFFICES ASSUME IInv, [Next]_vars PROVE RollerInBounds'
  OBVIOUS
<1>1. TypeOK /\ TypeOK' /\ InOrder /\ RollerInBounds
  BY TypeStep DEF IInv
<1>. USE <1>1
<1>2. Hour(now) \in Nat /\ Hour(now') \in Nat /\ Hour(now) # None
  BY HoursOfTicks DEF TypeOK
<1>3. CASE Tick
  <2>1. now' = now + 1 /\ UNCHANGED <<cursor, roller>>
    BY <1>3 DEF Tick
  <2>2. Hour(now) <= Hour(now')
    BY <2>1, InNumbers, HoursOfTicks DEF TypeOK
  <2>. QED  BY <2>1, <2>2, <1>2, InNumbers DEF RollerInBounds
<1>4. CASE RollStart
  <2>1. PICK h \in RollFrom : h < RollUpTo /\ roller' = [at |-> "aggregate", next |-> h, upTo |-> RollUpTo]
    BY <1>4 DEF RollStart
  <2>. QED  BY <1>2, <1>4, <2>1, RollFromIsAhead DEF RollStart, RollUpTo, RollerInBounds
<1>5. CASE RollBucket
  <2>1. UNCHANGED <<cursor, now>> /\ roller.at # "idle" /\ UNCHANGED <<roller.next, roller.upTo>>
    BY <1>5 DEF RollBucket, TypeOK
  <2>. QED  BY <2>1 DEF RollerInBounds
<1>6. CASE RollAdvance
  <2>1. /\ roller.at # "idle" /\ cursor' = roller.next /\ now' = now
        /\ roller'.at # "idle" => roller'.next = roller.next + 1 /\ roller'.upTo = roller.upTo
    BY <1>6 DEF RollAdvance, Resting, TypeOK
  <2>2. roller.next < roller.upTo /\ roller.upTo <= Hour(now)
    BY <2>1 DEF RollerInBounds, TypeOK
  <2>. QED  BY <1>2, <2>1, <2>2, InNumbers DEF RollerInBounds
<1>7. CASE RollStop \/ Restart
  BY <1>7 DEF RollStop, Restart, Resting, RollerInBounds
<1>8. CASE Prune
  BY <1>8 DEF Prune, PruneFlows, PruneRollups, PruneEndpoints, PruneOldest, PruneStop, RollerInBounds
<1>9. CASE Wipe
  <2>1. UNCHANGED <<roller, now>> /\ cursor' \in {None, cursor}
    BY <1>9 DEF Wipe, WipeFlows, WipeEndpoints, WipeRollups, WipeCursor, WipeFails
  <2>2. roller.at # "idle" => None < roller.next
    BY InNumbers DEF RollerInBounds, None
  <2>. QED  BY <1>2, <2>1, <2>2 DEF RollerInBounds, None
<1>10. CASE Engine
  BY <1>10 DEF Engine, See, Close, FlushEndpoints, FlushFlows, RollerInBounds
<1>11. CASE UNCHANGED vars
  BY <1>11 DEF vars, RollerInBounds
<1>. QED
  BY <1>3, <1>4, <1>5, <1>6, <1>7, <1>8, <1>9, <1>10, <1>11 DEF Next, Rollup

LEMMA HomeStep == IInv /\ [Next]_vars => HomeOfRow' /\ DeletedAheadIsExcused'
<1>. SUFFICES ASSUME IInv, [Next]_vars PROVE HomeOfRow' /\ DeletedAheadIsExcused'
  OBVIOUS
<1>1. TypeOK /\ InOrder /\ RollerInBounds /\ HomeOfRow /\ DeletedAheadIsExcused
  BY DEF IInv
<1>. USE <1>1
<1>. USE DEF HomeOfRow, DeletedAheadIsExcused
<1>2. ASSUME NEW ok \in BOOLEAN, FlushFlows(ok) PROVE HomeOfRow' /\ DeletedAheadIsExcused'
  <2>1. CASE ~ok
    BY <1>2, <2>1 DEF FlushFlows, history
  <2>2. CASE ok
    <3>1. cursor' = cursor /\ excused \ Staged \subseteq excused'
      BY <1>2, <2>2 DEF FlushFlows, Moved
    <3>2. \A f \in Staged : row'[f] = staged[f] /\ home'[f] = Hour(staged[f]) /\ row'[f] # None
      BY <1>2, <2>2 DEF FlushFlows, TypeOK, Staged
    <3>3. \A f \in Flows \ Staged : row'[f] = row[f] /\ home'[f] = home[f]
      BY <1>2, <2>2 DEF FlushFlows, TypeOK
    <3>. QED  BY <3>1, <3>2, <3>3
  <2>. QED  BY <2>1, <2>2
<1>3. ASSUME NEW fs \in SUBSET Flows, Delete(fs), UNCHANGED <<home, cursor>>
      PROVE  HomeOfRow' /\ DeletedAheadIsExcused'
  <2>1. excused' = excused \union {f \in fs : home[f] > cursor}
    BY <1>3 DEF Delete
  <2>. QED  BY <1>3, <2>1, DeleteRows, InNumbers
<1>4. CASE PruneFlows
  <2>1. {f \in Rows : row[f] + Raw < now} \in SUBSET Flows
    BY DEF Rows
  <2>. QED  BY <1>3, <1>4, <2>1 DEF PruneFlows
<1>5. CASE PruneOldest
  BY <1>3, <1>5 DEF PruneOldest, Rows
<1>6. CASE PruneRollups
  BY <1>6 DEF PruneRollups
<1>7. CASE PruneEndpoints \/ PruneStop
  BY <1>7 DEF PruneEndpoints, PruneStop, history
<1>8. CASE WipeFlows
  BY <1>8, InNumbers DEF WipeFlows, None
<1>9. CASE WipeCursor
  BY <1>9 DEF WipeCursor, Rows
<1>10. CASE WipeEndpoints \/ WipeFails
  BY <1>10 DEF WipeEndpoints, WipeFails, history
<1>11. CASE WipeRollups
  BY <1>11 DEF WipeRollups
<1>12. CASE RollAdvance
  <2>1. roller.at # "idle" /\ cursor' = roller.next /\ UNCHANGED <<row, home, excused>>
    BY <1>12 DEF RollAdvance, history
  <2>2. cursor < cursor'
    BY <2>1 DEF RollerInBounds
  <2>. QED  BY <2>1, <2>2, InNumbers
<1>13. CASE RollStart \/ RollBucket \/ RollStop \/ Restart
  BY <1>13 DEF RollStart, RollBucket, RollStop, Restart, history
<1>14. CASE Tick
  BY <1>14 DEF Tick, history
<1>15. ASSUME NEW f \in Flows, NEW ok \in BOOLEAN, See(f) \/ Close(f) \/ FlushEndpoints(ok)
       PROVE  HomeOfRow' /\ DeletedAheadIsExcused'
  BY <1>15 DEF See, Close, FlushEndpoints, history
<1>16. CASE UNCHANGED vars
  BY <1>16 DEF vars, history
<1>. QED
  BY <1>2, <1>4, <1>5, <1>6, <1>7, <1>8, <1>9, <1>10, <1>11, <1>12, <1>13, <1>14, <1>15, <1>16
  DEF Next, Engine, Rollup, Prune, Wipe

\* An hour the rollups have been through is over.
LEMMA ThroughIsPassed ==
  ASSUME TypeOK, RollerInBounds, NEW h \in Nat, Through(h)
  PROVE  Passed(h)
<1>1. Hour(now) \in Nat /\ (roller.at # "idle" => roller.next < roller.upTo)
  BY HoursOfTicks DEF TypeOK
<1>. QED  BY <1>1, InNumbers DEF Through, Passed, RollerInBounds

LEMMA ThroughStep == IInv /\ [Next]_vars => ThroughIsWhole'
<1>. SUFFICES ASSUME IInv, [Next]_vars PROVE ThroughIsWhole'
  OBVIOUS
<1>1. /\ TypeOK /\ InOrder /\ RollerInBounds /\ HomeOfRow
      /\ DeletedAheadIsExcused /\ ThroughIsWhole
  BY DEF IInv
<1>. USE <1>1
\* A flow that is neither excused nor behind the cursor is held.
<1>2. ASSUME NEW f \in Flows, f \notin excused, cursor < home[f]
      PROVE  f \in Rows /\ home[f] = Hour(row[f])
  BY <1>2 DEF DeletedAheadIsExcused, HomeOfRow, Rows
<1>3. CASE RollStart
  <2>1. PICK h \in RollFrom : roller' = [at |-> "aggregate", next |-> h, upTo |-> RollUpTo]
    BY <1>3 DEF RollStart
  <2>2. h \in Nat /\ cursor < h
    BY <2>1, RollFromIsAhead
  <2>3. UNCHANGED <<cursor, rollups, home, excused>> /\ roller.at = "idle"
    BY <1>3 DEF RollStart, history
  <2>4. ASSUME NEW f \in Flows, f \notin excused, cursor < home[f], home[f] < h PROVE FALSE
    <3>1. f \in Rows /\ home[f] = Hour(row[f])
      BY <1>2, <2>4
    <3>2. CASE cursor # None
      BY <2>1, <2>4, <3>2, InNumbers DEF RollFrom
    <3>3. CASE cursor = None
      <4>1. PICK g \in Rows : h = Hour(start[g]) /\ start[g] <= start[f]
        BY <2>1, <3>1, <3>3 DEF RollFrom
      <4>2. {start[g], start[f], row[f]} \subseteq Ticks /\ start[f] <= row[f]
        BY <3>1 DEF Rows, InOrder, TypeOK
      <4>3. start[g] \in Ticks /\ row[f] \in Ticks /\ start[g] <= row[f]
        BY <3>1, <4>1, <4>2, InNumbers DEF Rows
      <4>4. Hour(start[g]) <= Hour(row[f]) /\ Hour(start[g]) \in Nat /\ Hour(row[f]) \in Nat
        BY <4>3, HoursOfTicks
      <4>. QED  BY <2>4, <3>1, <4>1, <4>4
    <3>. QED  BY <3>2, <3>3
  <2>5. ASSUME NEW f \in Flows, f \notin excused, Through(home[f])' PROVE home[f] <= cursor
    BY <2>1, <2>2, <2>3, <2>4, <2>5, InNumbers DEF Through
  <2>. QED  BY <2>3, <2>5 DEF ThroughIsWhole, Through
<1>4. CASE RollBucket
  <2>1. /\ UNCHANGED <<cursor, home, excused>> /\ roller'.next = roller.next
        /\ roller.at = "aggregate" /\ roller'.at = "advance"
        /\ roller.next \in Hours /\ cursor < roller.next
    BY <1>4 DEF RollBucket, history, TypeOK, RollerInBounds
  <2>2. \A h \in Hours : rollups'[h] = IF h = roller.next THEN Aggregate(h) ELSE rollups[h]
    BY <1>4 DEF RollBucket, TypeOK
  <2>3. ASSUME NEW f \in Flows, home[f] # None, f \notin excused, Through(home[f])'
        PROVE  rollups'[home[f]][f] = 1
    <3>1. home[f] \in Hours
      BY DEF TypeOK
    <3>2. CASE home[f] = roller.next
      <4>1. f \in RowsIn(roller.next)
        BY <1>2, <2>1, <2>3, <3>2 DEF RowsIn
      <4>. QED  BY <2>2, <3>1, <3>2, <4>1 DEF Aggregate
    <3>3. CASE home[f] # roller.next
      <4>1. Through(home[f])
        BY <2>1, <2>3, <3>3 DEF Through
      <4>. QED  BY <2>2, <2>3, <3>1, <3>3, <4>1 DEF ThroughIsWhole
    <3>. QED  BY <3>2, <3>3
  <2>. QED  BY <2>1, <2>3 DEF ThroughIsWhole
<1>5. CASE RollAdvance
  <2>1. UNCHANGED <<rollups, home, excused>> /\ cursor' = roller.next /\ roller.at = "advance"
    BY <1>5 DEF RollAdvance, history
  <2>2. roller'.at # "idle" => roller'.at = "aggregate" /\ roller'.next = roller.next + 1
    BY <1>5 DEF RollAdvance, Resting, TypeOK
  <2>3. \A f \in Flows : Through(home[f])' => Through(home[f])
    BY <2>1, <2>2, InNumbers DEF Through
  <2>. QED  BY <2>1, <2>3 DEF ThroughIsWhole
<1>6. CASE RollStop \/ Restart
  <2>1. UNCHANGED <<rollups, cursor, home, excused>> /\ roller'.at = "idle"
    BY <1>6 DEF RollStop, Restart, Resting, history
  <2>. QED  BY <2>1 DEF ThroughIsWhole, Through
<1>7. ASSUME NEW ok \in BOOLEAN, FlushFlows(ok) PROVE ThroughIsWhole'
  <2>1. UNCHANGED <<rollups, cursor, roller>>
    BY <1>7 DEF FlushFlows
  <2>2. CASE ~ok
    BY <1>7, <2>1, <2>2 DEF FlushFlows, history, ThroughIsWhole, Through
  <2>3. CASE ok
    <3>1. /\ \A f \in Moved : home'[f] = Hour(staged[f])
          /\ excused' = (excused \ Moved) \union {f \in Moved : Passed(Hour(staged[f]))}
      BY <1>7, <2>3 DEF FlushFlows, TypeOK, Staged, Moved
    <3>2. ASSUME NEW f \in Flows \ Moved PROVE home'[f] = home[f]
      BY <1>7, <2>3 DEF FlushFlows, TypeOK, Staged, Moved, HomeOfRow
    <3>3. ASSUME NEW f \in Moved, Through(home[f])' PROVE f \in excused'
      <4>1. staged[f] \in Ticks
        BY DEF Moved, Staged, TypeOK
      <4>2. Hour(staged[f]) \in Nat /\ Through(Hour(staged[f]))
        BY <2>1, <3>1, <3>3, <4>1, HoursOfTicks DEF Through
      <4>. QED  BY <3>1, <4>2, ThroughIsPassed
    <3>4. ASSUME NEW f \in Flows \ Moved
          PROVE  home'[f] = home[f] /\ (Through(home[f])' <=> Through(home[f]))
      BY <2>1, <3>2 DEF Through
    <3>. QED  BY <2>1, <3>1, <3>3, <3>4 DEF ThroughIsWhole
  <2>. QED  BY <2>2, <2>3
<1>8. CASE PruneFlows \/ PruneOldest
  <2>1. UNCHANGED <<rollups, cursor, roller, home>> /\ excused \subseteq excused'
    BY <1>8 DEF PruneFlows, PruneOldest, Delete
  <2>. QED  BY <2>1 DEF ThroughIsWhole, Through
<1>9. CASE PruneRollups
  <2>1. UNCHANGED <<cursor, roller, home>> /\ excused \subseteq excused'
    BY <1>9 DEF PruneRollups
  <2>2. \A f \in Flows : f \notin excused' => rollups'[home[f]] = rollups[home[f]]
    BY <1>9 DEF PruneRollups, TypeOK
  <2>. QED  BY <2>1, <2>2 DEF ThroughIsWhole, Through
<1>10. CASE PruneEndpoints \/ PruneStop \/ WipeEndpoints \/ WipeFails
  BY <1>10 DEF PruneEndpoints, PruneStop, WipeEndpoints, WipeFails, history, ThroughIsWhole, Through
<1>11. CASE WipeFlows
  BY <1>11 DEF WipeFlows, ThroughIsWhole
<1>12. CASE WipeRollups
  BY <1>12 DEF WipeRollups, ThroughIsWhole
<1>13. CASE WipeCursor
  <2>1. /\ UNCHANGED <<rollups, roller, home>> /\ excused \subseteq excused' /\ cursor' = None
    BY <1>13 DEF WipeCursor
  <2>2. \A f \in Flows : Through(home[f])' => Through(home[f])
    BY <2>1, InNumbers DEF Through, None
  <2>. QED  BY <2>1, <2>2 DEF ThroughIsWhole
<1>14. CASE Tick
  BY <1>14 DEF Tick, history, ThroughIsWhole, Through
<1>15. ASSUME NEW f \in Flows, NEW ok \in BOOLEAN, See(f) \/ Close(f) \/ FlushEndpoints(ok)
       PROVE  ThroughIsWhole'
  BY <1>15 DEF See, Close, FlushEndpoints, history, ThroughIsWhole, Through
<1>16. CASE UNCHANGED vars
  BY <1>16 DEF vars, history, ThroughIsWhole, Through
<1>. QED
  BY <1>3, <1>4, <1>5, <1>6, <1>7, <1>8, <1>9, <1>10, <1>11, <1>12, <1>13, <1>14, <1>15, <1>16
  DEF Next, Engine, Rollup, Prune, Wipe

LEMMA NothingInventedStep == IInv /\ [Next]_vars => NothingInvented'
<1>. SUFFICES ASSUME IInv, [Next]_vars PROVE NothingInvented'
  OBVIOUS
<1>1. TypeOK /\ TypeOK' /\ InOrder /\ RollerInBounds /\ NothingInvented
  BY TypeStep DEF IInv
<1>. USE <1>1
<1>2. CASE Tick
  <2>1. now' = now + 1 /\ UNCHANGED <<start, rollups>>
    BY <1>2 DEF Tick, capture
  <2>2. {now, now'} \subseteq Ticks /\ now <= now'
    BY <2>1, InNumbers DEF TypeOK
  <2>3. Hour(now) <= Hour(now') /\ Hour(now) \in Nat /\ Hour(now') \in Nat /\ Hours \subseteq Nat
    BY <2>2, HoursOfTicks
  <2>4. ASSUME NEW h \in Hours, NEW f \in Flows, rollups'[h][f] # 0
        PROVE  /\ rollups'[h][f] = 1 /\ h < Hour(now')
               /\ start'[f] # None /\ Hour(start'[f]) <= h
    <3>1. rollups[h][f] # 0
      BY <2>1, <2>4
    <3>2. /\ rollups[h][f] = 1 /\ h < Hour(now)
          /\ start[f] # None /\ Hour(start[f]) <= h
      BY <3>1 DEF NothingInvented
    <3>. QED  BY <2>1, <2>3, <3>2
  <2>. QED  BY <2>4 DEF NothingInvented
<1>3. ASSUME NEW f \in Flows, See(f) \/ Close(f) PROVE NothingInvented'
  <2>1. /\ UNCHANGED <<now, rollups>>
        /\ \A g \in Flows : start[g] # None => start'[g] = start[g]
    BY <1>3 DEF See, Close, TypeOK
  <2>. QED  BY <2>1 DEF NothingInvented
<1>4. CASE RollBucket
  <2>1. /\ UNCHANGED <<now, start>>
        /\ \A h \in Hours : rollups'[h] = IF h = roller.next THEN Aggregate(h) ELSE rollups[h]
    BY <1>4 DEF RollBucket, capture, TypeOK
  <2>2. roller.next < Hour(now)
    <3>1. roller.next < roller.upTo /\ roller.upTo <= Hour(now)
      BY <1>4 DEF RollBucket, RollerInBounds, TypeOK
    <3>2. Hour(now) \in Nat
      BY HoursOfTicks DEF TypeOK
    <3>. QED  BY <3>1, <3>2, InNumbers
  <2>3. ASSUME NEW f \in RowsIn(roller.next)
        PROVE  start[f] # None /\ Hour(start[f]) <= roller.next
    <3>1. {start[f], row[f]} \subseteq Ticks /\ start[f] <= row[f] /\ Hour(row[f]) = roller.next
      BY DEF RowsIn, Rows, InOrder, TypeOK
    <3>. QED  BY <3>1, HoursOfTicks
  <2>4. ASSUME NEW f \in Flows, Aggregate(roller.next)[f] # 0
        PROVE  f \in RowsIn(roller.next) /\ Aggregate(roller.next)[f] = 1
    BY <2>4 DEF Aggregate
  <2>. QED  BY <2>1, <2>2, <2>3, <2>4 DEF NothingInvented
<1>5. CASE PruneRollups \/ WipeRollups
  <2>1. /\ UNCHANGED <<now, start>>
        /\ \A h \in Hours, f \in Flows : rollups'[h][f] \in {0, rollups[h][f]}
    BY <1>5 DEF PruneRollups, WipeRollups, capture, NoHour, TypeOK
  <2>. QED  BY <2>1 DEF NothingInvented
<1>6. CASE PruneFlows \/ PruneOldest \/ PruneEndpoints \/ PruneStop
  BY <1>6 DEF PruneFlows, PruneOldest, PruneEndpoints, PruneStop, capture, NothingInvented
<1>7. CASE WipeFlows \/ WipeEndpoints \/ WipeCursor \/ WipeFails \/ Restart
  BY <1>7 DEF WipeFlows, WipeEndpoints, WipeCursor, WipeFails, Restart, capture, NothingInvented
<1>8. CASE RollStart \/ RollAdvance \/ RollStop
  BY <1>8 DEF RollStart, RollAdvance, RollStop, capture, NothingInvented
<1>9. ASSUME NEW ok \in BOOLEAN, FlushEndpoints(ok) \/ FlushFlows(ok) PROVE NothingInvented'
  BY <1>9 DEF FlushEndpoints, FlushFlows, NothingInvented
<1>10. CASE UNCHANGED vars
  BY <1>10 DEF vars, capture, NothingInvented
<1>. QED
  BY <1>2, <1>3, <1>4, <1>5, <1>6, <1>7, <1>8, <1>9, <1>10
  DEF Next, Engine, Rollup, Prune, Wipe

LEMMA EndpointStep == IInv /\ [Next]_vars => StagedHasEndpoint' /\ RecentFlowHasEndpoint'
<1>. SUFFICES ASSUME IInv, [Next]_vars PROVE StagedHasEndpoint' /\ RecentFlowHasEndpoint'
  OBVIOUS
<1>1. TypeOK /\ InOrder /\ StagedHasEndpoint /\ RecentFlowHasEndpoint
  BY DEF IInv
<1>. USE <1>1
<1>2. \A f \in Flows : Dst[f] \in Dests
  BY DEF Dests
<1>3. ASSUME NEW ok \in BOOLEAN, FlushEndpoints(ok) PROVE StagedHasEndpoint' /\ RecentFlowHasEndpoint'
  <2>1. UNCHANGED <<now, staged, row>>
    BY <1>3 DEF FlushEndpoints
  <2>2. CASE ~ok
    <3>1. endpoint' = endpoint /\ untouched' = untouched \union {Dst[f] : f \in Staged}
      BY <1>3, <2>2 DEF FlushEndpoints
    <3>. QED  BY <2>1, <3>1 DEF StagedHasEndpoint, RecentFlowHasEndpoint, Staged, Rows
  <2>3. CASE ok
    <3>. DEFINE hit == {Dst[f] : f \in Staged}
    <3>1. /\ untouched' = untouched \ hit
          /\ \A d \in Dests : endpoint'[d] = IF d \in hit THEN Touched(d) ELSE endpoint[d]
      BY <1>3, <2>3 DEF FlushEndpoints
    <3>2. ASSUME NEW f \in Staged
          PROVE  staged[f] <= endpoint'[Dst[f]] /\ endpoint'[Dst[f]] # None
      <4>1. endpoint'[Dst[f]] = Touched(Dst[f]) /\ Dst[f] \in Dests /\ f \in Flows
        BY <1>2, <3>1 DEF Staged
      <4>2. LatestOf(Dst[f]) \in Nat \ {None} /\ staged[f] <= LatestOf(Dst[f])
        BY LatestOfIsLatest, HoursOfTicks
      <4>. QED  BY <4>1, <4>2, InNumbers DEF Touched, None
    <3>3. StagedHasEndpoint'
      BY <2>1, <3>2 DEF StagedHasEndpoint, Staged
    <3>4. RecentFlowHasEndpoint'
      <4>. SUFFICES ASSUME NEW f \in Rows, row[f] + Raw >= now
                    PROVE  endpoint'[Dst[f]] # None \/ Dst[f] \in untouched'
        BY <2>1 DEF RecentFlowHasEndpoint, Rows
      <4>1. CASE Dst[f] \in hit
        BY <3>2, <4>1
      <4>2. CASE Dst[f] \notin hit
        BY <1>2, <3>1, <4>2 DEF RecentFlowHasEndpoint, Rows
      <4>. QED  BY <4>1, <4>2
    <3>. QED  BY <3>3, <3>4
  <2>. QED  BY <2>2, <2>3
<1>4. ASSUME NEW ok \in BOOLEAN, FlushFlows(ok) PROVE StagedHasEndpoint' /\ RecentFlowHasEndpoint'
  <2>1. UNCHANGED <<now, endpoint, untouched>> /\ engine = "flows" /\ engine' # "flows"
    BY <1>4 DEF FlushFlows
  <2>2. \A f \in Flows : row'[f] = row[f] \/ (f \in Staged /\ row'[f] = staged[f])
    BY <1>4 DEF FlushFlows, TypeOK
  <2>3. \A f \in Staged : staged[f] + Raw >= now => Dst[f] \in untouched \/ endpoint[Dst[f]] # None
    BY <1>2, <2>1, InNumbers, HistoryAssumption DEF StagedHasEndpoint, Staged, None
  <2>. QED  BY <2>1, <2>2, <2>3 DEF StagedHasEndpoint, RecentFlowHasEndpoint, Rows
<1>5. CASE PruneEndpoints
  <2>1. /\ UNCHANGED <<now, staged, row, engine, untouched>>
        /\ \A d \in Dests :
             endpoint'[d] = IF endpoint[d] + Raw < pruner.began /\ \A f \in Rows : Dst[f] # d
                              THEN None ELSE endpoint[d]
    BY <1>5 DEF PruneEndpoints, capture
  <2>2. ASSUME NEW f \in Staged, staged[f] <= endpoint[Dst[f]]
        PROVE  endpoint'[Dst[f]] = endpoint[Dst[f]] \/ staged[f] + Raw < now
    <3>1. f \in Flows /\ pruner.began <= now /\ Raw \in Nat
      BY HistoryAssumption DEF InOrder, Staged
    <3>2. endpoint[Dst[f]] + Raw < pruner.began => staged[f] + Raw < now
      BY <1>2, <2>2, <3>1, InNumbers
    <3>. QED  BY <1>2, <2>1, <3>1, <3>2
  <2>3. StagedHasEndpoint'
    BY <2>1, <2>2 DEF StagedHasEndpoint, Staged
  <2>4. RecentFlowHasEndpoint'
    BY <1>2, <2>1 DEF RecentFlowHasEndpoint, Rows
  <2>. QED  BY <2>3, <2>4
<1>6. CASE PruneFlows \/ PruneOldest
  <2>1. UNCHANGED <<now, staged, engine, endpoint, untouched>>
    BY <1>6 DEF PruneFlows, PruneOldest, capture
  <2>2. \A f \in Flows : row'[f] \in {None, row[f]}
    BY <1>6 DEF PruneFlows, PruneOldest, Delete, TypeOK
  <2>. QED  BY <2>1, <2>2 DEF StagedHasEndpoint, RecentFlowHasEndpoint, Staged, Rows
<1>7. CASE PruneRollups \/ PruneStop
  BY <1>7 DEF PruneRollups, PruneStop, capture, history, StagedHasEndpoint, RecentFlowHasEndpoint, Staged, Rows
<1>8. CASE Rollup
  BY <1>8 DEF Rollup, RollStart, RollBucket, RollAdvance, RollStop, capture,
              StagedHasEndpoint, RecentFlowHasEndpoint, Staged, Rows
<1>9. CASE WipeFlows
  BY <1>9 DEF WipeFlows, capture, StagedHasEndpoint, RecentFlowHasEndpoint, Staged, Rows
<1>10. CASE WipeEndpoints
  BY <1>2, <1>10 DEF WipeEndpoints, capture, StagedHasEndpoint, RecentFlowHasEndpoint, Staged, Rows
<1>11. CASE WipeRollups \/ WipeCursor \/ WipeFails
  BY <1>11 DEF WipeRollups, WipeCursor, WipeFails, capture, history,
               StagedHasEndpoint, RecentFlowHasEndpoint, Staged, Rows
<1>12. CASE Tick
  <2>1. now' = now + 1 /\ UNCHANGED <<staged, row, engine, endpoint, untouched>>
    BY <1>12 DEF Tick, capture
  <2>2. ASSUME engine = "flows", NEW f \in Staged
        PROVE  Dst[f] \in untouched \/ staged[f] <= endpoint[Dst[f]] \/ staged[f] + Raw < now'
    BY <2>1, <2>2, InNumbers, HistoryAssumption DEF StagedHasEndpoint, Staged
  <2>3. ASSUME NEW f \in Rows, row[f] + Raw >= now'
        PROVE  endpoint[Dst[f]] # None \/ Dst[f] \in untouched
    BY <2>1, <2>3, InNumbers, HistoryAssumption DEF RecentFlowHasEndpoint, Rows
  <2>. QED  BY <2>1, <2>2, <2>3 DEF StagedHasEndpoint, RecentFlowHasEndpoint, Staged, Rows
<1>13. ASSUME NEW f \in Flows, See(f) \/ Close(f) PROVE StagedHasEndpoint' /\ RecentFlowHasEndpoint'
  BY <1>13 DEF See, Close, StagedHasEndpoint, RecentFlowHasEndpoint, Rows
<1>14. CASE Restart
  BY <1>14 DEF Restart, StagedHasEndpoint, RecentFlowHasEndpoint, Rows
<1>15. CASE UNCHANGED vars
  BY <1>15 DEF vars, capture, StagedHasEndpoint, RecentFlowHasEndpoint, Staged, Rows
<1>. QED
  BY <1>3, <1>4, <1>5, <1>6, <1>7, <1>8, <1>9, <1>10, <1>11, <1>12, <1>13, <1>14, <1>15
  DEF Next, Engine, Prune, Wipe

LEMMA IInvStep == IInv /\ [Next]_vars => IInv'
BY TypeStep, OrderStep, RollerStep, HomeStep, ThroughStep, NothingInventedStep, EndpointStep
DEF IInv

LEMMA IInvHolds == Spec => []IInv
BY InitIInv, IInvStep, PTL DEF Spec

----------------------------------------------------------------------------
(***************************************************************************)
(* The theorems.                                                           *)
(***************************************************************************)

\* The database and its four users stay within their types; the hour that a
\* rollup is about to do lies below its upper end.
THEOREM TypeCorrect == Spec => []TypeOK
<1>1. IInv => TypeOK
  BY DEF IInv
<1>. QED  BY <1>1, IInvHolds, PTL

\* rollup.go: whatever the crashes, the failed statements and the wipes, an hour
\* that is counted is over, and counts a flow once, in no hour before its start.
THEOREM RollupsInventNothing == Spec => []NothingInvented
<1>1. IInv => NothingInvented
  BY DEF IInv
<1>. QED  BY <1>1, IInvHolds, PTL

\* rollup.go and prune.go: an hour behind the cursor counts every flow last seen
\* in it, but for those written late, deleted early, or wiped.
THEOREM RollupsLoseNothing == Spec => []RollupsAreWhole
<1>1. IInv => RollupsAreWhole
  <2>1. SUFFICES ASSUME ThroughIsWhole PROVE RollupsAreWhole
    BY DEF IInv
  <2>. QED  BY <2>1 DEF ThroughIsWhole, RollupsAreWhole, Through
<1>. QED  BY <1>1, IInvHolds, PTL

\* prune.go against engine.go: no statement of the pruner, between any two of a
\* flush and however long ago what it writes was seen, takes the endpoint of a flow
\* that retention still holds.
THEOREM RecentFlowsKeepTheirEndpoint == Spec => []RecentFlowHasEndpoint
<1>1. IInv => RecentFlowHasEndpoint
  BY DEF IInv
<1>. QED  BY <1>1, IInvHolds, PTL
=============================================================================
