---------------------------- MODULE FlowPipeline ----------------------------
(***************************************************************************)
(* How an observation becomes a row of the flows table: the two capture    *)
(* sources (internal/capture/deputy, internal/capture/patrol), the channel *)
(* they share, the normalizer and the staging of internal/pipeline, and    *)
(* the upsert of internal/store, beside the discovery that learns whose    *)
(* address a flow came from.                                               *)
(*                                                                         *)
(* One run of Engine.Run.  A connection is a directed 5-tuple.  Deputy     *)
(* Mode reports all of this machine's own at every poll; Patrol Mode       *)
(* reports conversations one by one, this machine's and others'.  What a   *)
(* source sees is arbitrary: between two polls a socket can do anything.   *)
(* Process names, bytes, directions, DNS lookups, endpoint sightings, the  *)
(* live feed and the health counters are left out.                         *)
(***************************************************************************)
EXTENDS Integers, Sequences, FiniteSets

CONSTANTS
  Own,          \* 5-tuples opened by this machine
  Lan,          \* 5-tuples opened by other machines of the network
  Wire,         \* 5-tuples on the interface that Patrol captures
  GraceRounds,  \* Normalizer.GraceRounds
  ChanCap,      \* room in Engine.events
  MaxRounds,    \* bound: polls of the socket table, which are the clock
  MaxLost       \* bound: no write fails while more lost flows than this remain

Conns == Own \union Lan

ASSUME FlowAssumption ==
  /\ Own \intersect Lan = {}
  /\ Wire \subseteq Conns
  /\ {GraceRounds, ChanCap, MaxRounds} \subseteq Nat \ {0}
  /\ MaxLost \in Nat

Deputy == "deputy"
Patrol == "patrol"
Sources == {Deputy, Patrol}

VARIABLES
  up,        \* the sources whose goroutine runs
  outbox,    \* what each source has observed and not yet put on the channel
  queue,     \* Engine.events
  tracked,   \* Normalizer.tracked
  pending,   \* Engine.pending
  rows,      \* the flows table, by flow_hash
  known,     \* flows of Lan whose address discovery has tied to a device
  ctxDone,   \* the context of the run is cancelled
  pc,        \* Engine.Run: "running", "stopping", "returned"
  now,       \* the clock, in polls
  absent,    \* history: polls in a row, as handled, that lacked a connection
  lost       \* history: flows whose staged change a failed write threw away

sources == <<up, outbox>>
history == <<absent, lost>>
vars == <<sources, queue, tracked, pending, rows, known, ctxDone, pc, now, history>>

\* A map after the entries of another were written into it.
Overlay(new, old) ==
  [x \in DOMAIN new \union DOMAIN old |-> IF x \in DOMAIN new THEN new[x] ELSE old[x]]

\* What a source saw: each connection it reports, and whether its state is
\* past the handshake.  A snapshot has all there are, a delta just one.
Sights == UNION {[S -> BOOLEAN] : S \in SUBSET Conns}

Tracks == [start: 0 .. MaxRounds, missed: 0 .. GraceRounds - 1, est: BOOLEAN]
Flows == [src: Sources, conn: Conns, start: 0 .. MaxRounds, est: BOOLEAN, active: BOOLEAN]

\* Slip: without the start, a flow reopened before the flush hides a close.
StoreKey_Tuple(f) == <<f.src, f.conn>>

\* storeKey: the 5-tuple and the instant the flow was first seen, an instant
\* that tells two sources apart as well.
StoreKey(f) == <<f.src, f.conn, f.start>>

\* The types; a flow that missed GraceRounds polls is no longer tracked.
TypeOK ==
  /\ up \subseteq Sources
  /\ outbox \in [Sources -> SUBSET Sights]
  /\ queue \in Seq([src: Sources, ts: 0 .. MaxRounds, sight: Sights])
  /\ Len(queue) <= ChanCap
  /\ DOMAIN tracked \subseteq Sources \X Conns
  /\ \A k \in DOMAIN tracked : tracked[k] \in Tracks
  /\ \A k \in DOMAIN pending : pending[k] \in Flows
  /\ \A r \in DOMAIN rows : rows[r] \in [device: {"self", "placeholder", "roster"},
                                         active: BOOLEAN, est: BOOLEAN]
  /\ known \subseteq Lan
  /\ ctxDone \in BOOLEAN
  /\ pc \in {"running", "stopping", "returned"}
  /\ now \in 0 .. MaxRounds
  /\ absent \in [Own -> 0 .. GraceRounds]
  /\ lost \subseteq Sources \X Conns \X (0 .. MaxRounds)

Init ==
  /\ up \in SUBSET Sources
  /\ outbox = [s \in Sources |-> {}]
  /\ queue = << >>
  /\ tracked = << >> /\ pending = << >> /\ rows = << >>
  /\ known \in SUBSET Lan
  /\ ctxDone = FALSE
  /\ pc = "running"
  /\ now = 0
  /\ absent = [c \in Own |-> 0]
  /\ lost = {}

----------------------------------------------------------------------------
(***************************************************************************)
(* The sources.  Each is one goroutine, which observes nothing while it    *)
(* waits to hand over what it observed.                                    *)
(***************************************************************************)

Idle(s) == s \in up /\ outbox[s] = {}

Observe(s, sight) == outbox' = [outbox EXCEPT ![s] = {sight}]

\* Deputy reads the whole socket table.
Sample ==
  /\ Idle(Deputy)
  /\ now < MaxRounds
  /\ now' = now + 1
  /\ \E present \in SUBSET Own : \E sight \in [present -> BOOLEAN] : Observe(Deputy, sight)
  /\ UNCHANGED <<up, queue, tracked, pending, rows, known, ctxDone, pc, history>>

\* Patrol's assembler reports a conversation: new, under way, over, or, once
\* the context is cancelled, left in its table.
Report(c, est) ==
  /\ Idle(Patrol)
  /\ Observe(Patrol, [x \in {c} |-> est])
  /\ UNCHANGED <<up, queue, tracked, pending, rows, known, ctxDone, pc, now, history>>

\* An observation waits for room and is stamped as it goes.
Send(s) ==
  /\ Len(queue) < ChanCap
  /\ \E sight \in outbox[s] : queue' = Append(queue, [src |-> s, ts |-> now, sight |-> sight])
  /\ outbox' = [outbox EXCEPT ![s] = {}]
  /\ UNCHANGED <<up, tracked, pending, rows, known, ctxDone, pc, now, history>>

\* The select on the send has the cancelled context ready as well.
GiveUp(s) ==
  /\ ctxDone
  /\ outbox[s] # {}
  /\ outbox' = [outbox EXCEPT ![s] = {}]
  /\ UNCHANGED <<up, queue, tracked, pending, rows, known, ctxDone, pc, now, history>>

Quit(s) ==
  /\ ctxDone
  /\ Idle(s)
  /\ up' = up \ {s}
  /\ UNCHANGED <<outbox, queue, tracked, pending, rows, known, ctxDone, pc, now, history>>

----------------------------------------------------------------------------
(***************************************************************************)
(* The normalizer: Apply on the event at the head of the channel, and      *)
(* record on what it makes of it.                                          *)
(***************************************************************************)

\* Slip: the misses of a flow that came back are not cleared.
Observed_KeepsMisses(k, e) ==
  IF k \in DOMAIN tracked THEN tracked[k]
  ELSE [start |-> e.ts, missed |-> 0, est |-> e.sight[k[2]]]

\* observe: a flow is opened, or seen again.
Observed(k, e) ==
  IF k \in DOMAIN tracked THEN [tracked[k] EXCEPT !.missed = 0]
  ELSE [start |-> e.ts, missed |-> 0, est |-> e.sight[k[2]]]

\* What a snapshot of the same source no longer has.
Missing(e) ==
  IF e.src = Deputy
    THEN {k \in DOMAIN tracked : k[1] = e.src /\ k[2] \notin DOMAIN e.sight}
    ELSE {}

\* Slip: the grace is compared before the miss is counted.
Closing_Late(e) == {k \in Missing(e) : tracked[k].missed >= GraceRounds}

Closing(e) == {k \in Missing(e) : tracked[k].missed + 1 >= GraceRounds}

FlowOf(k, t, active) ==
  [src |-> k[1], conn |-> k[2], start |-> t.start, est |-> t.est, active |-> active]

Seen(e) == {<<e.src, c>> : c \in DOMAIN e.sight}

TrackedAfter(e) ==
  [k \in (DOMAIN tracked \ Closing(e)) \union Seen(e) |->
     IF k \in Seen(e) THEN Observed(k, e)
     ELSE IF k \in Missing(e) THEN [tracked[k] EXCEPT !.missed = @ + 1]
     ELSE tracked[k]]

EventsOf(e) ==
  {FlowOf(k, Observed(k, e), TRUE) : k \in Seen(e)} \union
  {FlowOf(k, tracked[k], FALSE) : k \in Closing(e)}

Handle ==
  /\ pc = "running"
  /\ queue # << >>
  /\ queue' = Tail(queue)
  /\ LET e == Head(queue)
         events == EventsOf(e)
     IN /\ tracked' = TrackedAfter(e)
        /\ pending' = Overlay([k \in {StoreKey(f) : f \in events} |->
                                CHOOSE f \in events : StoreKey(f) = k], pending)
        /\ lost' = lost \ {<<f.src, f.conn, f.start>> : f \in events}
        /\ absent' = IF e.src = Patrol THEN absent
                     ELSE [c \in Own |-> IF c \in DOMAIN e.sight THEN 0
                                         ELSE IF absent[c] < GraceRounds THEN absent[c] + 1
                                         ELSE absent[c]]
  /\ UNCHANGED <<sources, rows, known, ctxDone, pc, now>>

----------------------------------------------------------------------------
(***************************************************************************)
(* The store.  A flow of another machine carries a placeholder identity,   *)
(* which resolvePlaceholders replaces when discovery knows the address.    *)
(***************************************************************************)

DeviceOf(c) == IF c \in Own THEN "self" ELSE IF c \in known THEN "roster" ELSE "placeholder"

\* flowHash: the device as resolved, the 5-tuple, and the second of the start.
FlowHash(f) == <<DeviceOf(f.conn), f.conn, f.start>>

\* The upsert of a batch; of two flows with one hash, either may come last.
\* The device of a row that exists is not written again.
Upserted(batch) ==
  LET hit == {FlowHash(f) : f \in batch}
      Of(r) == {f \in batch : FlowHash(f) = r}
      Est(r) == \E f \in Of(r) : f.est
  IN {Overlay([r \in hit |-> [device |-> IF r \in DOMAIN rows THEN rows[r].device ELSE r[1],
                              active |-> final[r].active,
                              est    |-> Est(r) \/ (r \in DOMAIN rows /\ rows[r].est)]], rows) :
        final \in {g \in [hit -> batch] : \A r \in hit : g[r] \in Of(r)}}

Staged == {pending[k] : k \in DOMAIN pending}

\* A write that fails has thrown away what was staged, and so has one whose
\* context was cancelled under it.
Write(ok) ==
  IF ok
    THEN rows' \in Upserted(Staged) /\ lost' = lost
    ELSE /\ Cardinality(lost) <= MaxLost
         /\ rows' = rows
         /\ lost' = lost \union {<<f.src, f.conn, f.start>> : f \in Staged}

\* flush: what is staged is taken first, and is gone whether the write works.
Flush(ok) ==
  /\ pc = "running"
  /\ pending # << >>
  /\ Write(ok)
  /\ pending' = << >>
  /\ UNCHANGED <<sources, queue, tracked, known, ctxDone, pc, now, absent>>

\* ObserveDevice ties an address to a device and hands it the rows written
\* under the placeholder, whose flow_hash stays what it was.
Discover(c) ==
  /\ c \notin known
  /\ known' = known \union {c}
  /\ rows' = [r \in DOMAIN rows |->
                IF r[2] = c /\ rows[r].device = "placeholder"
                  THEN [rows[r] EXCEPT !.device = "roster"] ELSE rows[r]]
  /\ UNCHANGED <<sources, queue, tracked, pending, ctxDone, pc, now, history>>

----------------------------------------------------------------------------
(***************************************************************************)
(* The end of a run.                                                       *)
(***************************************************************************)

Cancel ==
  /\ ~ctxDone
  /\ ctxDone' = TRUE
  /\ UNCHANGED <<sources, queue, tracked, pending, rows, known, pc, now, history>>

\* Slip: the sources are stopped and nothing is flushed.
FinalFlush_None(ok) ==
  /\ pc = "running" /\ ctxDone
  /\ pc' = "stopping"
  /\ UNCHANGED <<sources, queue, tracked, pending, rows, known, ctxDone, now, history>>

FinalFlush(ok) ==
  /\ pc = "running" /\ ctxDone
  /\ Write(ok)
  /\ pending' = << >>
  /\ pc' = "stopping"
  /\ UNCHANGED <<sources, queue, tracked, known, ctxDone, now, absent>>

\* Stop of each source: Deputy's waits for its goroutine, Patrol's gives up.
Return ==
  /\ pc = "stopping"
  /\ Deputy \notin up
  /\ pc' = "returned"
  /\ UNCHANGED <<sources, queue, tracked, pending, rows, known, ctxDone, now, history>>

\* Nothing is left to happen: Run has returned and no source is running.  Any
\* other state without a step would be a shutdown that hangs.
Over ==
  /\ pc = "returned" /\ up = {}
  /\ UNCHANGED vars

Next ==
  \/ Sample
  \/ \E c \in Wire, est \in BOOLEAN : Report(c, est)
  \/ \E s \in Sources : Send(s) \/ GiveUp(s) \/ Quit(s)
  \/ Handle
  \/ \E ok \in BOOLEAN : Flush(ok) \/ FinalFlush(ok)
  \/ \E c \in Lan : Discover(c)
  \/ Cancel \/ Return \/ Over

Spec == Init /\ [][Next]_vars

----------------------------------------------------------------------------
(***************************************************************************)
(* Properties.                                                             *)
(***************************************************************************)

\* A flow is closed only by polls of its own source, and only when the
\* connection was missing from GraceRounds of them in a row, however it
\* flickered before and whatever the other source saw meanwhile.
ClosedOnlyAfterGrace ==
  [][\A k \in DOMAIN tracked \ DOMAIN tracked' :
       k[1] = Deputy /\ absent'[k[2]] = GraceRounds]_vars

\* A row is marked active only while some source still tracks the flow, or its
\* close is staged for a flush to come, or the close went down with a write that
\* failed: closing and opening again within one flush loses neither.
NoRowIsLeftActive ==
  \A r \in DOMAIN rows : rows[r].active =>
    \E s \in Sources :
      LET i == <<s, r[2], r[3]>> IN
      \/ i \in lost
      \/ <<s, r[2]>> \in DOMAIN tracked /\ tracked[<<s, r[2]>>].start = r[3]
      \/ /\ pc = "running"
         /\ \E k \in DOMAIN pending : /\ <<pending[k].src, pending[k].conn, pending[k].start>> = i
                                     /\ ~pending[k].active

\* And the other way round: a flow the normalizer tracks is staged for a flush to
\* come, or on a row that has all it says of it, or went down with a write that
\* failed; so too when the run ends.  (Two
\* sources that saw a connection start in one second share its row, which says
\* open or closed as the later of them has it.)
TrackedReachesTheRecord ==
  \A k \in DOMAIN tracked :
    LET i == <<k[1], k[2], tracked[k].start>> IN
    \/ i \in lost
    \/ /\ pc = "running"
       /\ \E p \in DOMAIN pending : <<pending[p].src, pending[p].conn, pending[p].start>> = i
    \/ \E r \in DOMAIN rows :
         /\ r[2] = k[2] /\ r[3] = tracked[k].start
         /\ tracked[k].est => rows[r].est
         /\ k[2] \in Lan => rows[r].active

\* A flow that keeps being observed is one row, updated: what FlushInterval and
\* the tests of the store say.  Discovery changes the identity in its hash.
OneRowPerFlow ==
  \A r, s \in DOMAIN rows : r[2] = s[2] /\ r[3] = s[3] => r = s
=============================================================================
