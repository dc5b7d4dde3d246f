----------------------------- MODULE FlowHistory -----------------------------
(***************************************************************************)
(* What becomes of a flow once it is in the database: internal/store,      *)
(* rollup.go, prune.go and Wipe, against the flushes of internal/pipeline. *)
(*                                                                         *)
(* Four goroutines share the tables: the engine's flush (endpoints, then   *)
(* flows, each a transaction), the rollups (an hour in one transaction,    *)
(* the cursor in another), the pruner and the wipe (a statement at a time).*)
(* Any of them may fail at any statement, and the process may end.         *)
(*                                                                         *)
(* Time is counted in ticks, HourLen of them to the hour.  A row of flows  *)
(* is its ts_last; of a rollup, the flows that its count is made of are    *)
(* remembered, how often each, and conns is their sum.  The rollups by     *)
(* organisation, country, device and process, which have the same life,    *)
(* bytes, DNS events, findings and devices are left out.                   *)
(***************************************************************************)
EXTENDS Naturals, FiniteSets

CONSTANTS
  Flows,     \* the flows there may be: values of flow_hash
  Dst,       \* the remote address of each flow
  HourLen,   \* ticks in an hour
  Raw,       \* Retention.Raw, in ticks
  Keep,      \* Retention.Rollup, in ticks
  MaxNow     \* bound: the last tick

ASSUME HistoryAssumption ==
  /\ {HourLen, Raw, Keep, MaxNow} \subseteq Nat \ {0}
  /\ HourLen <= MaxNow

\* Tick 0 and hour 0 stand for the zero time: no row, no cursor.
None == 0
Ticks == HourLen .. MaxNow
Hour(t) == t \div HourLen
Hours == 0 .. Hour(MaxNow)
Dests == {Dst[f] : f \in Flows}

VARIABLES
  now,        \* the clock
  start,      \* TSStart of each flow the engine has seen
  tsLast,     \* TSLast of the flows that the engine of this process tracks
  staged,     \* what waits for the flush: the TSLast of its latest event
  engine,     \* "idle", or "flows": the flush is between its transactions
  row,        \* flows.ts_last
  endpoint,   \* endpoints.last_seen
  rollups,    \* how often an hour counts a flow
  cursor,     \* rollup.cursor, in hours
  roller,     \* where Rollup is, with its next hour and the current one
  pruner,     \* where Prune is, and the instant it began
  wiper,      \* where Wipe is
  home,       \* history: the hour the row of f is in, or was in when deleted
  excused,    \* history: flows written, or deleted, at the wrong side of a rollup
  untouched   \* history: endpoints not touched since a failure or a wipe

capture == <<start, tsLast, staged, engine>>
history == <<home, excused>>
vars == <<now, capture, row, endpoint, rollups, cursor, roller, pruner, wiper,
          history, untouched>>

NoHour == [f \in Flows |-> 0]
Resting == [at |-> "idle", next |-> None, upTo |-> None]
Off == [at |-> "idle", began |-> None]

\* The types; a rollup at work has an hour to do before its upper end.
TypeOK ==
  /\ now \in Ticks
  /\ start \in [Flows -> {None} \union Ticks]
  /\ tsLast \in [Flows -> {None} \union Ticks]
  /\ staged \in [Flows -> {None} \union Ticks]
  /\ engine \in {"idle", "flows"}
  /\ row \in [Flows -> {None} \union Ticks]
  /\ endpoint \in [Dests -> {None} \union Ticks]
  /\ rollups \in [Hours -> [Flows -> Nat]]
  /\ cursor \in Hours
  /\ roller \in [at: {"idle", "aggregate", "advance"}, next: Hours, upTo: Hours]
  /\ roller.at # "idle" => roller.next < roller.upTo
  /\ pruner \in [at: {"idle", "rollups", "endpoints", "size"}, began: {None} \union Ticks]
  /\ wiper \in {"idle", "endpoints", "rollups", "cursor"}
  /\ home \in [Flows -> Hours]
  /\ excused \subseteq Flows
  /\ untouched \subseteq Dests

Init ==
  /\ now = HourLen
  /\ start = [f \in Flows |-> None] /\ tsLast = [f \in Flows |-> None]
  /\ staged = [f \in Flows |-> None]
  /\ engine = "idle"
  /\ row = [f \in Flows |-> None]
  /\ endpoint = [d \in Dests |-> None]
  /\ rollups = [h \in Hours |-> NoHour]
  /\ cursor = None
  /\ roller = Resting /\ pruner = Off /\ wiper = "idle"
  /\ home = [f \in Flows |-> None]
  /\ excused = {} /\ untouched = {}

----------------------------------------------------------------------------
(***************************************************************************)
(* The engine: events are staged and flushed, endpoints before flows.      *)
(***************************************************************************)

Staged == {f \in Flows : staged[f] # None}

\* Time passes at any point: a machine may sleep between two statements.
Tick ==
  /\ now < MaxNow
  /\ now' = now + 1
  /\ UNCHANGED <<capture, row, endpoint, rollups, cursor, roller, pruner, wiper, history, untouched>>

\* A flow is seen, for the first time or again after any silence.
See(f) ==
  /\ engine = "idle"
  /\ start[f] = None \/ tsLast[f] # None
  /\ start' = [start EXCEPT ![f] = IF @ = None THEN now ELSE @]
  /\ tsLast' = [tsLast EXCEPT ![f] = now]
  /\ staged' = [staged EXCEPT ![f] = now]
  /\ UNCHANGED <<now, engine, row, endpoint, rollups, cursor, roller, pruner, wiper, history, untouched>>

\* A flow is missed often enough to be closed, with the TSLast of its last sighting,
\* however old.  One that is seen after that has another start, and another hash.
Close(f) ==
  /\ engine = "idle"
  /\ tsLast[f] # None
  /\ staged' = [staged EXCEPT ![f] = tsLast[f]]
  /\ tsLast' = [tsLast EXCEPT ![f] = None]
  /\ UNCHANGED <<now, start, engine, row, endpoint, rollups, cursor, roller, pruner, wiper, history, untouched>>

LatestOf(d) == CHOOSE t \in {staged[f] : f \in {g \in Staged : Dst[g] = d}} :
                 \A f \in Staged : Dst[f] = d => staged[f] <= t

\* Slip: an endpoint that has a row keeps its last_seen.
Touched_Once(d) == IF endpoint[d] = None THEN LatestOf(d) ELSE endpoint[d]

Touched(d) == IF endpoint[d] < LatestOf(d) THEN LatestOf(d) ELSE endpoint[d]

\* flush, first half: TouchEndpoints.  A failure is logged, and the flows follow.
FlushEndpoints(ok) ==
  /\ engine = "idle"
  /\ Staged # {}
  /\ LET hit == {Dst[f] : f \in Staged} IN
       IF ok THEN /\ endpoint' = [d \in Dests |-> IF d \in hit THEN Touched(d) ELSE endpoint[d]]
                  /\ untouched' = untouched \ hit
             ELSE /\ endpoint' = endpoint
                  /\ untouched' = untouched \union hit
  /\ engine' = "flows"
  /\ UNCHANGED <<now, start, tsLast, staged, row, rollups, cursor, roller, pruner, wiper, history>>

\* An hour that is over and that the rollups have been through.
Passed(h) ==
  /\ h < Hour(now)
  /\ \/ h <= cursor
     \/ roller.at # "idle" /\ h < roller.next
     \/ roller.at = "advance" /\ h = roller.next

\* Flows whose row the flush inserts, or moves to another instant.
Moved == {f \in Staged : row[f] # staged[f]}

\* flush, second half: WriteFlows moves each row to the TSLast of its flow.
FlushFlows(ok) ==
  /\ engine = "flows"
  /\ IF ok THEN /\ row' = [f \in Flows |-> IF f \in Staged THEN staged[f] ELSE row[f]]
                /\ home' = [f \in Flows |-> IF f \in Staged THEN Hour(staged[f]) ELSE home[f]]
                /\ excused' = (excused \ Moved) \union {f \in Moved : Passed(Hour(staged[f]))}
           ELSE UNCHANGED <<row, history>>
  /\ staged' = [f \in Flows |-> None]
  /\ engine' = "idle"
  /\ UNCHANGED <<now, start, tsLast, endpoint, rollups, cursor, roller, pruner, wiper, untouched>>

----------------------------------------------------------------------------
(***************************************************************************)
(* Rollups of complete hours.                                              *)
(***************************************************************************)

Rows == {f \in Flows : row[f] # None}
RowsIn(h) == {f \in Rows : Hour(row[f]) = h}

\* The first run starts from the oldest flow that is held.
RollFrom ==
  IF cursor # None THEN {cursor + 1}
  ELSE {Hour(start[f]) : f \in {g \in Rows : \A x \in Rows : start[g] <= start[x]}}

\* Slip: the hour that is not over is aggregated too.
RollUpTo_Current == Hour(now) + 1

RollUpTo == Hour(now)

RollStart ==
  /\ roller.at = "idle"
  /\ \E h \in RollFrom :
       /\ h < RollUpTo
       /\ roller' = [at |-> "aggregate", next |-> h, upTo |-> RollUpTo]
  /\ UNCHANGED <<now, capture, row, endpoint, rollups, cursor, pruner, wiper, history, untouched>>

\* Slip: a flow counts in the hour it began.
Aggregate_Started(h) ==
  [f \in Flows |-> IF f \in Rows /\ Hour(start[f]) = h THEN 1 ELSE 0]

\* Slip: an hour aggregated twice is added up.
Aggregate_Adds(h) ==
  [f \in Flows |-> IF f \in RowsIn(h) THEN rollups[h][f] + 1 ELSE rollups[h][f]]

Aggregate(h) == [f \in Flows |-> IF f \in RowsIn(h) THEN 1 ELSE 0]

\* rollupBucket: the hour's rows are replaced, in one transaction.
RollBucket ==
  /\ roller.at = "aggregate"
  /\ rollups' = [rollups EXCEPT ![roller.next] = Aggregate(roller.next)]
  /\ roller' = [roller EXCEPT !.at = "advance"]
  /\ UNCHANGED <<now, capture, row, endpoint, cursor, pruner, wiper, history, untouched>>

\* The cursor follows in a statement of its own.
RollAdvance ==
  /\ roller.at = "advance"
  /\ cursor' = roller.next
  /\ roller' = IF roller.next + 1 < roller.upTo
                 THEN [roller EXCEPT !.at = "aggregate", !.next = @ + 1]
                 ELSE Resting
  /\ UNCHANGED <<now, capture, row, endpoint, rollups, pruner, wiper, history, untouched>>

\* A statement fails, or the pass has done its share of hours.
RollStop ==
  /\ roller.at # "idle"
  /\ roller' = Resting
  /\ UNCHANGED <<now, capture, row, endpoint, rollups, cursor, pruner, wiper, history, untouched>>

----------------------------------------------------------------------------
(***************************************************************************)
(* Retention.                                                              *)
(***************************************************************************)

\* Flows whose hour is not behind the cursor yet leave it without a count.
Delete(fs) ==
  /\ row' = [f \in Flows |-> IF f \in fs THEN None ELSE row[f]]
  /\ excused' = excused \union {f \in fs : home[f] > cursor}

PruneFlows ==
  /\ pruner.at = "idle"
  /\ Delete({f \in Rows : row[f] + Raw < now})
  /\ pruner' = [at |-> "rollups", began |-> now]
  /\ UNCHANGED <<now, capture, endpoint, rollups, cursor, roller, wiper, home, untouched>>

PruneRollups ==
  /\ pruner.at = "rollups"
  /\ LET old == {h \in Hours : h * HourLen + Keep < pruner.began} IN
       /\ rollups' = [h \in Hours |-> IF h \in old THEN NoHour ELSE rollups[h]]
       /\ excused' = excused \union {f \in Flows : home[f] \in old}
  /\ pruner' = [pruner EXCEPT !.at = "endpoints"]
  /\ UNCHANGED <<now, capture, row, endpoint, cursor, roller, wiper, home, untouched>>

\* An endpoint goes when it is old and no flow leads to it.
PruneEndpoints ==
  /\ pruner.at = "endpoints"
  /\ endpoint' = [d \in Dests |->
       IF endpoint[d] + Raw < pruner.began /\ \A f \in Rows : Dst[f] # d
         THEN None ELSE endpoint[d]]
  /\ pruner' = [pruner EXCEPT !.at = "size"]
  /\ UNCHANGED <<now, capture, row, rollups, cursor, roller, wiper, history, untouched>>

\* While the file is over its cap, the flows seen longest ago go.
PruneOldest ==
  /\ pruner.at = "size"
  /\ \E f \in Rows :
       /\ \A g \in Rows : row[f] <= row[g]
       /\ Delete({f})
  /\ UNCHANGED <<now, capture, endpoint, rollups, cursor, roller, pruner, wiper, home, untouched>>

\* The pass is over, or a statement of it failed.
PruneStop ==
  /\ pruner.at # "idle"
  /\ pruner' = Off
  /\ UNCHANGED <<now, capture, row, endpoint, rollups, cursor, roller, wiper, history, untouched>>

----------------------------------------------------------------------------
(***************************************************************************)
(* The wipe, statement by statement, and the end of the process.           *)
(***************************************************************************)

WipeFlows ==
  /\ wiper = "idle"
  /\ wiper' = "endpoints"
  /\ row' = [f \in Flows |-> None]
  /\ home' = [f \in Flows |-> None]
  /\ UNCHANGED <<now, capture, endpoint, rollups, cursor, roller, pruner, excused, untouched>>

WipeEndpoints ==
  /\ wiper = "endpoints"
  /\ wiper' = "rollups"
  /\ endpoint' = [d \in Dests |-> None]
  /\ untouched' = Dests
  /\ UNCHANGED <<now, capture, row, rollups, cursor, roller, pruner, history>>

WipeRollups ==
  /\ wiper = "rollups"
  /\ wiper' = "cursor"
  /\ rollups' = [h \in Hours |-> NoHour]
  /\ excused' = Flows
  /\ UNCHANGED <<now, capture, row, endpoint, cursor, roller, pruner, home, untouched>>

WipeCursor ==
  /\ wiper = "cursor"
  /\ wiper' = "idle"
  /\ cursor' = None
  /\ excused' = excused \union (Flows \ Rows)
  /\ UNCHANGED <<now, capture, row, endpoint, rollups, roller, pruner, home, untouched>>

\* A statement fails, and what was not deleted stays.
WipeFails ==
  /\ wiper # "idle"
  /\ wiper' = "idle"
  /\ UNCHANGED <<now, capture, row, endpoint, rollups, cursor, roller, pruner, history, untouched>>

\* The process ends and starts again over the same database.
Restart ==
  /\ tsLast' = [f \in Flows |-> None]
  /\ staged' = [f \in Flows |-> None]
  /\ engine' = "idle"
  /\ roller' = Resting /\ pruner' = Off /\ wiper' = "idle"
  /\ UNCHANGED <<now, start, row, endpoint, rollups, cursor, history, untouched>>

Engine == \E f \in Flows, ok \in BOOLEAN :
            See(f) \/ Close(f) \/ FlushEndpoints(ok) \/ FlushFlows(ok)
Rollup == RollStart \/ RollBucket \/ RollAdvance \/ RollStop
Prune == PruneFlows \/ PruneRollups \/ PruneEndpoints \/ PruneOldest \/ PruneStop
Wipe == WipeFlows \/ WipeEndpoints \/ WipeRollups \/ WipeCursor \/ WipeFails

Next == Tick \/ Engine \/ Rollup \/ Prune \/ Wipe \/ Restart

Spec == Init /\ [][Next]_vars

----------------------------------------------------------------------------
(***************************************************************************)
(* Properties.                                                             *)
(***************************************************************************)

\* An hour that is counted is over, and no flow counts in it before its start,
\* or twice: not by a crash between a count and its cursor, not by a wipe under
\* the feet of the rollup.
NothingInvented ==
  \A h \in Hours, f \in Flows : rollups[h][f] # 0 =>
    /\ rollups[h][f] = 1
    /\ h < Hour(now)
    /\ start[f] # None /\ Hour(start[f]) <= h

\* An hour the cursor has passed counts every flow last seen in it, held or
\* pruned since, but for those written after their hour was aggregated, deleted
\* before it was, or caught in a wipe: detail is lost before the long trend.
RollupsAreWhole ==
  \A f \in Flows :
    home[f] # None /\ home[f] <= cursor /\ f \notin excused => rollups[home[f]][f] = 1

\* engine.go:233: endpoints are written before flows so that a join "never sees a
\* flow whose destination row does not exist yet". It does where what is flushed has
\* waited longer than the raw retention: the pruner comes between the two writes.
FlowHasEndpoint ==
  \A f \in Rows : endpoint[Dst[f]] # None \/ Dst[f] \in untouched

\* So it is for a flow that retention still holds: the pruner, between any two
\* statements of a flush, takes no endpoint that such a flow leads to.
RecentFlowHasEndpoint ==
  \A f \in Rows :
    row[f] + Raw >= now => endpoint[Dst[f]] # None \/ Dst[f] \in untouched

\* What the timeline shows of an hour: raw flows where there are any, as "exact".
Shown(h, f) == IF RowsIn(h) # {} THEN f \in RowsIn(h) ELSE rollups[h][f] = 1

\* What the timeline shows of an hour as exact is no less than what the rollup
\* of the hour holds of it.
TimelineIsWhole ==
  \A h \in Hours, f \in Flows : h <= cursor /\ rollups[h][f] = 1 /\ home[f] = h => Shown(h, f)
=============================================================================
