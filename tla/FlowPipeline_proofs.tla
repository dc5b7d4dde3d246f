------------------------ MODULE FlowPipeline_proofs ------------------------
(***************************************************************************)
(* For any connections, grace, channel and number of polls: a flow closes  *)
(* only after its grace, no row of the flows table stays active behind a   *)
(* close, and what is tracked reaches the record.                          *)
(*                                                                         *)
(* The argument: what is staged is staged under its own key, so that a     *)
(* close and the reopening of one connection are two entries; a staged     *)
(* flow that is open is tracked; and only Deputy Mode closes flows, whose  *)
(* connections are all of this machine, so that the close has the hash of  *)
(* the row it closes whatever discovery learns in between.                 *)
(***************************************************************************)
EXTENDS FlowPipeline, TLAPS

\* The device, connection and instant in the hash of a row.
Hashes == {"self", "placeholder", "roster"} \X Conns \X (0 .. MaxRounds)

\* Deputy Mode sees the sockets of this machine, which only it can close.
DeputySeesOwn ==
  /\ \A sight \in outbox[Deputy] : DOMAIN sight \subseteq Own
  /\ \A i \in DOMAIN queue : queue[i].src = Deputy => DOMAIN queue[i].sight \subseteq Own
  /\ \A k \in DOMAIN tracked : k[1] = Deputy => k[2] \in Own

\* The misses that the normalizer counts are the polls that lacked the flow.
MissesAreAbsences ==
  \A c \in Own : <<Deputy, c>> \in DOMAIN tracked => tracked[<<Deputy, c>>].missed = absent[c]

\* The flow is tracked, and not as one that was opened since.
IsTracked(f) ==
  /\ <<f.src, f.conn>> \in DOMAIN tracked
  /\ tracked[<<f.src, f.conn>>].start = f.start

\* What is staged: under its key, tracked if it is open, and a flow of Deputy
\* Mode if it is not.
StagedFlows ==
  \A p \in DOMAIN pending :
    LET f == pending[p] IN
    /\ p = StoreKey(f)
    /\ f.active => IsTracked(f)
    /\ ~f.active => f.src = Deputy /\ f.conn \in Own
    /\ IsTracked(f) => f.est = tracked[<<f.src, f.conn>>].est

\* The rows of this machine's own flows have its identity in their hash.
HashOfRow == DOMAIN rows \subseteq Hashes /\ \A r \in DOMAIN rows : r[2] \in Own => r[1] = "self"

\* The inductive invariant.
IInv ==
  /\ TypeOK /\ DeputySeesOwn /\ MissesAreAbsences
  /\ StagedFlows /\ HashOfRow
  /\ NoRowIsLeftActive /\ TrackedReachesTheRecord

----------------------------------------------------------------------------
(***************************************************************************)
(* What one event does to the normalizer and to what is staged.            *)
(***************************************************************************)

Event == [src: Sources, ts: 0 .. MaxRounds, sight: Sights]

LEMMA SightTypes ==
  ASSUME NEW sight \in Sights
  PROVE  DOMAIN sight \subseteq Conns /\ \A c \in DOMAIN sight : sight[c] \in BOOLEAN
BY DEF Sights

\* The queue loses its head, which is an event.
LEMMA QueueAfter ==
  ASSUME TypeOK, queue # << >>
  PROVE  /\ Head(queue) = queue[1] /\ 1 \in DOMAIN queue /\ Head(queue) \in Event
         /\ Tail(queue) \in Seq(Event) /\ Len(Tail(queue)) <= ChanCap
         /\ \A i \in DOMAIN Tail(queue) : i + 1 \in DOMAIN queue /\ Tail(queue)[i] = queue[i + 1]
<1>1. queue \in Seq(Event) /\ Len(queue) <= ChanCap
  BY DEF TypeOK, Event
<1>2. Len(queue) \in Nat \ {0} /\ DOMAIN queue = 1 .. Len(queue) /\ Head(queue) = queue[1]
  BY <1>1
<1>3. /\ Tail(queue) \in Seq(Event) /\ Len(Tail(queue)) = Len(queue) - 1
      /\ \A i \in 1 .. Len(queue) - 1 : Tail(queue)[i] = queue[i + 1]
  BY <1>1
<1>4. DOMAIN Tail(queue) = 1 .. Len(queue) - 1
  BY <1>2, <1>3
<1>5. Head(queue) \in Event
  BY <1>1
<1>. QED  BY <1>1, <1>2, <1>3, <1>4, <1>5, FlowAssumption

\* A tracked flow that is seen is as it was, and has missed nothing.
LEMMA ObservedIs ==
  ASSUME TypeOK, NEW e \in Event, NEW k \in Seen(e)
  PROVE  /\ k \in Sources \X Conns /\ k[1] = e.src /\ k[2] \in DOMAIN e.sight
         /\ Observed(k, e) \in Tracks /\ Observed(k, e).missed = 0
         /\ k \in DOMAIN tracked => /\ Observed(k, e).start = tracked[k].start
                                    /\ Observed(k, e).est = tracked[k].est
<1>1. PICK c \in DOMAIN e.sight : k = <<e.src, c>>
  BY DEF Seen
<1>2. e.src \in Sources /\ c \in Conns /\ e.sight[c] \in BOOLEAN /\ e.ts \in 0 .. MaxRounds
  BY SightTypes DEF Event
<1>3. 0 \in 0 .. GraceRounds - 1
  BY FlowAssumption
<1>4. CASE k \in DOMAIN tracked
  <2>1. tracked[k] \in Tracks
    BY <1>4 DEF TypeOK
  <2>. QED  BY <1>1, <1>2, <1>3, <1>4, <2>1 DEF Observed, Tracks
<1>5. CASE k \notin DOMAIN tracked
  BY <1>1, <1>2, <1>3, <1>5 DEF Observed, Tracks
<1>. QED  BY <1>4, <1>5

\* The flows that close are missing from the event, and of Deputy Mode.
LEMMA ClosingIs ==
  ASSUME TypeOK, NEW e \in Event
  PROVE  /\ Closing(e) \subseteq Missing(e) /\ Missing(e) \subseteq DOMAIN tracked
         /\ Missing(e) \intersect Seen(e) = {}
         /\ \A k \in Missing(e) : e.src = Deputy /\ k[1] = Deputy /\ k[2] \notin DOMAIN e.sight
         /\ \A k \in Missing(e) :
              k \in Closing(e) <=> tracked[k].missed + 1 = GraceRounds
<1>1. \A k \in DOMAIN tracked : k \in Missing(e) =>
        e.src = Deputy /\ k[1] = Deputy /\ k[2] \notin DOMAIN e.sight
  BY DEF Missing
<1>2. Closing(e) \subseteq Missing(e) /\ Missing(e) \subseteq DOMAIN tracked
  BY DEF Closing, Missing
<1>3. \A k \in DOMAIN tracked : tracked[k].missed \in 0 .. GraceRounds - 1
  BY DEF TypeOK, Tracks
<1>4. \A k \in Missing(e) : k \in Closing(e) <=> tracked[k].missed + 1 = GraceRounds
  BY <1>2, <1>3, FlowAssumption DEF Closing
<1>5. \A k \in Seen(e) : k[2] \in DOMAIN e.sight
  BY DEF Seen
<1>. QED  BY <1>1, <1>2, <1>4, <1>5

LEMMA TrackedAfterIs ==
  ASSUME TypeOK, NEW e \in Event
  PROVE  /\ DOMAIN TrackedAfter(e) = (DOMAIN tracked \ Closing(e)) \union Seen(e)
         /\ \A k \in Seen(e) : TrackedAfter(e)[k] = Observed(k, e)
         /\ \A k \in DOMAIN TrackedAfter(e) \ Seen(e) :
              /\ k \in DOMAIN tracked \ Closing(e)
              /\ TrackedAfter(e)[k].start = tracked[k].start
              /\ TrackedAfter(e)[k].est = tracked[k].est
              /\ TrackedAfter(e)[k].missed =
                   IF k \in Missing(e) THEN tracked[k].missed + 1 ELSE tracked[k].missed
         /\ \A k \in DOMAIN TrackedAfter(e) : TrackedAfter(e)[k] \in Tracks
<1>1. \A k \in DOMAIN TrackedAfter(e) :
        TrackedAfter(e)[k] = IF k \in Seen(e) THEN Observed(k, e)
                             ELSE IF k \in Missing(e) THEN [tracked[k] EXCEPT !.missed = @ + 1]
                             ELSE tracked[k]
  BY DEF TrackedAfter
<1>2. DOMAIN TrackedAfter(e) = (DOMAIN tracked \ Closing(e)) \union Seen(e)
  BY DEF TrackedAfter
<1>3. \A k \in DOMAIN tracked : tracked[k] \in [start: 0 .. MaxRounds, missed: 0 .. GraceRounds - 1, est: BOOLEAN]
  BY DEF TypeOK, Tracks
<1>4. ASSUME NEW k \in DOMAIN tracked \ Closing(e), k \notin Seen(e)
      PROVE  /\ TrackedAfter(e)[k].start = tracked[k].start
             /\ TrackedAfter(e)[k].est = tracked[k].est
             /\ TrackedAfter(e)[k].missed =
                  IF k \in Missing(e) THEN tracked[k].missed + 1 ELSE tracked[k].missed
             /\ TrackedAfter(e)[k] \in Tracks
  <2>1. CASE k \in Missing(e)
    <3>1. TrackedAfter(e)[k] = [tracked[k] EXCEPT !.missed = tracked[k].missed + 1]
      BY <1>1, <1>2, <1>4, <2>1
    <3>2. tracked[k].missed + 1 \in 0 .. GraceRounds - 1
      BY <1>3, <1>4, <2>1, ClosingIs, FlowAssumption
    <3>. QED  BY <1>3, <2>1, <3>1, <3>2 DEF Tracks
  <2>2. CASE k \notin Missing(e)
    BY <1>1, <1>2, <1>3, <1>4, <2>2 DEF Tracks
  <2>. QED  BY <2>1, <2>2
<1>5. \A k \in Seen(e) : TrackedAfter(e)[k] = Observed(k, e) /\ Observed(k, e) \in Tracks
  BY <1>1, <1>2, ObservedIs
<1>. QED  BY <1>2, <1>4, <1>5

\* An event reports each flow it has seen as open, and each that closes as closed,
\* under a key of its own.
LEMMA EventsAre ==
  ASSUME TypeOK, NEW e \in Event, NEW f \in EventsOf(e)
  PROVE  LET k == <<f.src, f.conn>> IN
         /\ f \in Flows
         /\ f.active => /\ k \in Seen(e)
                        /\ f.start = Observed(k, e).start /\ f.est = Observed(k, e).est
         /\ ~f.active => k \in Closing(e) /\ k \in DOMAIN tracked /\ f.start = tracked[k].start
<1>1. CASE \E k \in Seen(e) : f = FlowOf(k, Observed(k, e), TRUE)
  <2>1. PICK k \in Seen(e) : f = FlowOf(k, Observed(k, e), TRUE)
    BY <1>1
  <2>2. k \in Sources \X Conns /\ Observed(k, e) \in Tracks
    BY ObservedIs
  <2>3. k = <<f.src, f.conn>> /\ f.active /\ f.start = Observed(k, e).start /\ f.est = Observed(k, e).est
    BY <2>1, <2>2 DEF FlowOf
  <2>4. f \in Flows
    BY <2>1, <2>2 DEF FlowOf, Flows, Tracks
  <2>. QED  BY <2>3, <2>4
<1>2. CASE \E k \in Closing(e) : f = FlowOf(k, tracked[k], FALSE)
  <2>1. PICK k \in Closing(e) : f = FlowOf(k, tracked[k], FALSE)
    BY <1>2
  <2>2. k \in DOMAIN tracked /\ k \in Sources \X Conns /\ tracked[k] \in Tracks
    BY ClosingIs DEF TypeOK
  <2>3. k = <<f.src, f.conn>> /\ ~f.active /\ f.start = tracked[k].start
    BY <2>1, <2>2 DEF FlowOf
  <2>4. f \in Flows
    BY <2>1, <2>2 DEF FlowOf, Flows, Tracks
  <2>. QED  BY <2>2, <2>3, <2>4
<1>. QED  BY <1>1, <1>2 DEF EventsOf

LEMMA EventsExist ==
  ASSUME TypeOK, NEW e \in Event, NEW k \in Seen(e) \union Closing(e)
  PROVE  \E f \in EventsOf(e) :
           /\ <<f.src, f.conn>> = k
           /\ f.start = IF k \in Seen(e) THEN Observed(k, e).start ELSE tracked[k].start
<1>1. CASE k \in Seen(e)
  <2>1. FlowOf(k, Observed(k, e), TRUE) \in EventsOf(e)
    BY <1>1 DEF EventsOf
  <2>2. k \in Sources \X Conns
    BY <1>1, ObservedIs
  <2>. QED  BY <1>1, <2>1, <2>2 DEF FlowOf
<1>2. CASE k \notin Seen(e)
  <2>1. FlowOf(k, tracked[k], FALSE) \in EventsOf(e)
    BY <1>2 DEF EventsOf
  <2>2. k \in Sources \X Conns
    BY <1>2, ClosingIs DEF TypeOK
  <2>. QED  BY <1>2, <2>1, <2>2 DEF FlowOf
<1>. QED  BY <1>1, <1>2

LEMMA EventsAreKeyed ==
  ASSUME TypeOK, NEW e \in Event, NEW f \in EventsOf(e), NEW g \in EventsOf(e),
         StoreKey(f) = StoreKey(g)
  PROVE  f = g
<1>1. f.src = g.src /\ f.conn = g.conn /\ f.start = g.start
  BY DEF StoreKey
<1>2. PICK k \in Seen(e) \union Closing(e) :
        f = IF k \in Seen(e) THEN FlowOf(k, Observed(k, e), TRUE) ELSE FlowOf(k, tracked[k], FALSE)
  BY ClosingIs DEF EventsOf
<1>3. PICK l \in Seen(e) \union Closing(e) :
        g = IF l \in Seen(e) THEN FlowOf(l, Observed(l, e), TRUE) ELSE FlowOf(l, tracked[l], FALSE)
  BY ClosingIs DEF EventsOf
<1>4. k \in Sources \X Conns /\ l \in Sources \X Conns
  BY ObservedIs, ClosingIs DEF TypeOK
<1>5. k = l
  BY <1>1, <1>2, <1>3, <1>4 DEF FlowOf
<1>. QED  BY <1>2, <1>3, <1>5

\* What is staged after an event: its flows, over what was staged under other keys.
LEMMA PendingAfter ==
  ASSUME TypeOK, Handle, NEW e, e = Head(queue)
  PROVE  /\ e \in Event /\ queue # << >> /\ pc = "running" /\ pc' = pc
         /\ tracked' = TrackedAfter(e)
         /\ DOMAIN pending \subseteq DOMAIN pending'
         /\ \A f \in EventsOf(e) : StoreKey(f) \in DOMAIN pending' /\ pending'[StoreKey(f)] = f
         /\ \A p \in DOMAIN pending' :
              \/ \E f \in EventsOf(e) : p = StoreKey(f) /\ pending'[p] = f
              \/ /\ p \in DOMAIN pending /\ pending'[p] = pending[p]
                 /\ \A f \in EventsOf(e) : StoreKey(f) # p
<1>. DEFINE keys == {StoreKey(f) : f \in EventsOf(e)}
            staged == [k \in keys |-> CHOOSE f \in EventsOf(e) : StoreKey(f) = k]
<1>1. queue # << >> /\ pc = "running" /\ pc' = pc /\ tracked' = TrackedAfter(e) /\ pending' = Overlay(staged, pending)
  BY DEF Handle
<1>2. e \in Event
  BY <1>1, QueueAfter
<1>3. ASSUME NEW f \in EventsOf(e) PROVE StoreKey(f) \in keys /\ staged[StoreKey(f)] = f
  <2>1. StoreKey(f) \in keys
    OBVIOUS
  <2>2. staged[StoreKey(f)] \in EventsOf(e) /\ StoreKey(staged[StoreKey(f)]) = StoreKey(f)
    BY <2>1
  <2>. QED  BY <1>2, <2>1, <2>2, EventsAreKeyed
<1>4. /\ DOMAIN pending' = keys \union DOMAIN pending
      /\ \A p \in DOMAIN pending' : pending'[p] = IF p \in keys THEN staged[p] ELSE pending[p]
  <2>1. DOMAIN staged = keys
    OBVIOUS
  <2>. QED  BY <1>1, <2>1 DEF Overlay
<1>5. ASSUME NEW p \in DOMAIN pending'
      PROVE  \/ \E f \in EventsOf(e) : p = StoreKey(f) /\ pending'[p] = f
             \/ /\ p \in DOMAIN pending /\ pending'[p] = pending[p]
                /\ \A f \in EventsOf(e) : StoreKey(f) # p
  <2>1. CASE p \in keys
    <3>1. PICK f \in EventsOf(e) : p = StoreKey(f)
      BY <2>1
    <3>. QED  BY <1>3, <1>4, <3>1
  <2>2. CASE p \notin keys
    BY <1>4, <1>5, <2>2
  <2>. QED  BY <2>1, <2>2
<1>. QED  BY <1>1, <1>2, <1>3, <1>4, <1>5

----------------------------------------------------------------------------
(***************************************************************************)
(* What a write does to the rows.                                          *)
(***************************************************************************)

Row == [device: {"self", "placeholder", "roster"}, active: BOOLEAN, est: BOOLEAN]

LEMMA HashTypes ==
  ASSUME NEW f \in Flows
  PROVE  /\ FlowHash(f) \in Hashes
         /\ FlowHash(f)[2] = f.conn /\ FlowHash(f)[3] = f.start
         /\ f.conn \in Own => FlowHash(f) = <<"self", f.conn, f.start>>
BY DEF FlowHash, DeviceOf, Flows, Hashes

\* Rows that the batch does not hit stay; one that it hits is as active as a flow
\* of the batch with its hash, and established if any of them, or it, was.
LEMMA RowsAfterWrite ==
  ASSUME TypeOK, NEW batch \in SUBSET Flows, rows' \in Upserted(batch)
  PROVE  LET hit == {FlowHash(f) : f \in batch} IN
         /\ DOMAIN rows' = hit \union DOMAIN rows
         /\ \A r \in DOMAIN rows' : rows'[r] \in Row
         /\ \A r \in DOMAIN rows \ hit : rows'[r] = rows[r]
         /\ \A r \in hit : \E f \in batch : FlowHash(f) = r /\ (rows'[r].active <=> f.active)
         /\ \A f \in batch : f.est => rows'[FlowHash(f)].est
         /\ \A r \in DOMAIN rows : rows[r].est => rows'[r].est
<1>. DEFINE hit == {FlowHash(f) : f \in batch}
            Of(r) == {f \in batch : FlowHash(f) = r}
            Est(r) == \E f \in Of(r) : f.est
            New(final) == [r \in hit |->
              [device |-> IF r \in DOMAIN rows THEN rows[r].device ELSE r[1],
               active |-> final[r].active,
               est    |-> Est(r) \/ (r \in DOMAIN rows /\ rows[r].est)]]
<1>1. PICK final \in [hit -> batch] :
        (\A r \in hit : final[r] \in Of(r)) /\ rows' = Overlay(New(final), rows)
  BY DEF Upserted
<1>2. /\ DOMAIN rows' = hit \union DOMAIN rows
      /\ \A r \in DOMAIN rows' : rows'[r] = IF r \in hit THEN New(final)[r] ELSE rows[r]
  <2>1. DOMAIN New(final) = hit
    OBVIOUS
  <2>. QED  BY <1>1, <2>1 DEF Overlay
<1>3. \A r \in DOMAIN rows : rows[r] \in Row
  BY DEF TypeOK, Row
<1>4. ASSUME NEW r \in hit
      PROVE  /\ final[r] \in batch /\ FlowHash(final[r]) = r
             /\ rows'[r] \in Row
             /\ rows'[r].active <=> final[r].active
             /\ rows'[r].est <=> Est(r) \/ (r \in DOMAIN rows /\ rows[r].est)
  <2>1. final[r] \in batch /\ FlowHash(final[r]) = r /\ final[r].active \in BOOLEAN
    BY <1>1 DEF Flows
  <2>2. rows'[r] = [device |-> IF r \in DOMAIN rows THEN rows[r].device ELSE r[1],
                    active |-> final[r].active,
                    est    |-> Est(r) \/ (r \in DOMAIN rows /\ rows[r].est)]
    BY <1>2
  <2>3. r[1] \in {"self", "placeholder", "roster"}
    BY HashTypes DEF Hashes
  <2>4. r \in DOMAIN rows => rows[r].device \in {"self", "placeholder", "roster"}
    BY <1>3 DEF Row
  <2>5. rows'[r] \in Row
    BY <2>1, <2>2, <2>3, <2>4 DEF Row
  <2>6. rows'[r].est = (Est(r) \/ (r \in DOMAIN rows /\ rows[r].est)) /\ rows'[r].active = final[r].active
    <3>. HIDE DEF Est
    <3>. QED  BY <2>2, SMT
  <2>. QED  BY <2>1, <2>5, <2>6
<1>5. \A f \in batch : f.est => Est(FlowHash(f)) /\ FlowHash(f) \in hit
  OBVIOUS
<1>6. \A r \in DOMAIN rows \ hit : rows'[r] = rows[r] /\ rows'[r] \in Row
  BY <1>2, <1>3
<1>. QED  BY <1>2, <1>4, <1>5, <1>6

LEMMA StagedTypes ==
  ASSUME TypeOK
  PROVE  Staged \subseteq Flows /\ (\A p \in DOMAIN pending : pending[p] \in Staged)
BY DEF TypeOK, Staged

----------------------------------------------------------------------------
(***************************************************************************)
(* The inductive invariant.                                                *)
(***************************************************************************)

LEMMA InitIInv == Init => IInv
<1>. SUFFICES ASSUME Init PROVE IInv
  OBVIOUS
<1>1. DOMAIN tracked = {} /\ DOMAIN pending = {} /\ DOMAIN rows = {} /\ DOMAIN queue = {}
  BY DEF Init
<1>2. TypeOK
  <2>1. queue \in Seq([src: Sources, ts: 0 .. MaxRounds, sight: Sights]) /\ Len(queue) = 0
    BY DEF Init
  <2>2. 0 \in 0 .. MaxRounds /\ 0 \in 0 .. GraceRounds /\ 0 <= ChanCap
    BY FlowAssumption
  <2>. QED  BY <1>1, <2>1, <2>2 DEF Init, TypeOK
<1>. QED
  BY <1>1, <1>2 DEF Init, IInv, DeputySeesOwn, MissesAreAbsences, StagedFlows, HashOfRow,
                    NoRowIsLeftActive, TrackedReachesTheRecord, Sources

\* What a write, and the end of what was staged, do to the invariant's types.
LEMMA WriteTypes ==
  ASSUME TypeOK, HashOfRow, NEW ok \in BOOLEAN, Write(ok)
  PROVE  /\ \A r \in DOMAIN rows' : rows'[r] \in Row
         /\ lost' \subseteq Sources \X Conns \X (0 .. MaxRounds)
         /\ HashOfRow'
<1>1. CASE ok
  <2>1. rows' \in Upserted(Staged) /\ lost' = lost
    BY <1>1 DEF Write
  <2>2. /\ DOMAIN rows' = {FlowHash(f) : f \in Staged} \union DOMAIN rows
        /\ \A r \in DOMAIN rows' : rows'[r] \in Row
    BY <2>1, RowsAfterWrite, StagedTypes
  <2>3. \A f \in Staged : /\ FlowHash(f) \in Hashes
                          /\ FlowHash(f)[2] \in Own => FlowHash(f)[1] = "self"
    BY HashTypes, StagedTypes
  <2>. QED  BY <2>1, <2>2, <2>3 DEF HashOfRow, TypeOK
<1>2. CASE ~ok
  <2>1. rows' = rows /\ lost' = lost \union {<<f.src, f.conn, f.start>> : f \in Staged}
    BY <1>2 DEF Write
  <2>. QED  BY <2>1, StagedTypes DEF HashOfRow, TypeOK, Row, Flows
<1>. QED  BY <1>1, <1>2

\* A poll sees sockets of this machine.
LEMMA SampleSees ==
  ASSUME Sample
  PROVE  \E sight \in Sights : DOMAIN sight \subseteq Own /\ Observe(Deputy, sight)
<1>1. PICK present \in SUBSET Own : \E sight \in [present -> BOOLEAN] : Observe(Deputy, sight)
  BY DEF Sample
<1>2. PICK sight \in [present -> BOOLEAN] : Observe(Deputy, sight)
  BY <1>1
<1>3. sight \in Sights /\ DOMAIN sight \subseteq Own
  BY DEF Sights, Conns
<1>. QED  BY <1>2, <1>3

\* Every step keeps the types.
LEMMA TypeStep == IInv /\ [Next]_vars => TypeOK'
<1>. SUFFICES ASSUME IInv, [Next]_vars PROVE TypeOK'
  OBVIOUS
<1>1. TypeOK /\ HashOfRow
  BY DEF IInv
<1>. USE <1>1
<1>2. CASE Sample
  <2>1. PICK sight \in Sights : Observe(Deputy, sight)
    BY <1>2, SampleSees
  <2>2. outbox' \in [Sources -> SUBSET Sights]
    BY <2>1 DEF Observe, TypeOK
  <2>3. now' \in 0 .. MaxRounds
    BY <1>2, FlowAssumption DEF Sample, TypeOK
  <2>. QED  BY <1>2, <2>2, <2>3 DEF Sample, TypeOK, history
<1>3. ASSUME NEW c \in Wire, NEW est \in BOOLEAN, Report(c, est) PROVE TypeOK'
  <2>1. [x \in {c} |-> est] \in [{c} -> BOOLEAN] /\ {c} \in SUBSET Conns
    BY FlowAssumption
  <2>2. [x \in {c} |-> est] \in Sights
    BY <2>1 DEF Sights
  <2>3. outbox' \in [Sources -> SUBSET Sights]
    BY <1>3, <2>2 DEF Report, Observe, TypeOK
  <2>. QED  BY <1>3, <2>3 DEF Report, TypeOK, history
<1>4. ASSUME NEW s \in Sources, Send(s) PROVE TypeOK'
  <2>1. PICK sight \in outbox[s] : queue' = Append(queue, [src |-> s, ts |-> now, sight |-> sight])
    BY <1>4 DEF Send
  <2>2. [src |-> s, ts |-> now, sight |-> sight] \in Event
    BY DEF TypeOK, Event
  <2>3. queue \in Seq(Event) /\ Len(queue) < ChanCap /\ ChanCap \in Nat
    BY <1>4, FlowAssumption DEF Send, TypeOK, Event
  <2>4. queue' \in Seq(Event) /\ Len(queue') = Len(queue) + 1 /\ Len(queue) \in Nat
    BY <2>1, <2>2, <2>3
  <2>5. outbox' \in [Sources -> SUBSET Sights]
    BY <1>4 DEF Send, TypeOK
  <2>. QED  BY <1>4, <2>3, <2>4, <2>5 DEF Send, TypeOK, Event, history
<1>5. ASSUME NEW s \in Sources, GiveUp(s) \/ Quit(s) PROVE TypeOK'
  BY <1>5 DEF GiveUp, Quit, TypeOK, history
<1>6. CASE Handle
  <2>. DEFINE e == Head(queue)
  <2>1. /\ e \in Event /\ queue # << >> /\ tracked' = TrackedAfter(e)
        /\ \A p \in DOMAIN pending' :
             \/ \E f \in EventsOf(e) : p = StoreKey(f) /\ pending'[p] = f
             \/ /\ p \in DOMAIN pending /\ pending'[p] = pending[p]
    BY <1>6, PendingAfter
  <2>2. queue' \in Seq(Event) /\ Len(queue') <= ChanCap
    BY <1>6, <2>1, QueueAfter DEF Handle
  <2>3. DOMAIN tracked' \subseteq Sources \X Conns /\ \A k \in DOMAIN tracked' : tracked'[k] \in Tracks
    BY <2>1, TrackedAfterIs, ObservedIs DEF TypeOK
  <2>4. \A p \in DOMAIN pending' : pending'[p] \in Flows
    BY <2>1, EventsAre DEF TypeOK
  <2>5. absent' \in [Own -> 0 .. GraceRounds]
    <3>1. CASE e.src = Patrol
      BY <1>6, <3>1 DEF Handle, TypeOK
    <3>2. CASE e.src # Patrol
      <4>1. absent' = [c \in Own |-> IF c \in DOMAIN e.sight THEN 0
                                     ELSE IF absent[c] < GraceRounds THEN absent[c] + 1
                                     ELSE absent[c]]
        BY <1>6, <3>2 DEF Handle
      <4>. QED  BY <4>1, FlowAssumption DEF TypeOK
    <3>. QED  BY <3>1, <3>2
  <2>6. lost' \subseteq lost
    BY <1>6 DEF Handle
  <2>. QED  BY <1>6, <2>2, <2>3, <2>4, <2>5, <2>6 DEF Handle, TypeOK, sources, Event
<1>7. ASSUME NEW ok \in BOOLEAN, Flush(ok) \/ FinalFlush(ok) PROVE TypeOK'
  <2>1. Write(ok) /\ DOMAIN pending' = {} /\ pc' \in {pc, "stopping"}
    BY <1>7 DEF Flush, FinalFlush
  <2>2. /\ \A r \in DOMAIN rows' : rows'[r] \in Row
        /\ lost' \subseteq Sources \X Conns \X (0 .. MaxRounds)
    BY <2>1, WriteTypes
  <2>. QED  BY <1>7, <2>1, <2>2 DEF Flush, FinalFlush, TypeOK, sources, Row
<1>8. ASSUME NEW c \in Lan, Discover(c) PROVE TypeOK'
  <2>1. \A r \in DOMAIN rows' : rows'[r] \in Row
    BY <1>8 DEF Discover, TypeOK, Row
  <2>. QED  BY <1>8, <2>1 DEF Discover, TypeOK, sources, history, Row
<1>9. CASE Cancel \/ Return \/ Over \/ UNCHANGED vars
  BY <1>9 DEF Cancel, Return, Over, vars, TypeOK, sources, history
<1>. QED
  BY <1>2, <1>3, <1>4, <1>5, <1>6, <1>7, <1>8, <1>9 DEF Next

LEMMA DeputyStep == IInv /\ [Next]_vars => DeputySeesOwn' /\ MissesAreAbsences'
<1>. SUFFICES ASSUME IInv, [Next]_vars PROVE DeputySeesOwn' /\ MissesAreAbsences'
  OBVIOUS
<1>1. TypeOK /\ DeputySeesOwn /\ MissesAreAbsences
  BY DEF IInv
<1>. USE <1>1
<1>2. CASE Sample
  <2>1. PICK sight \in Sights : DOMAIN sight \subseteq Own /\ Observe(Deputy, sight)
    BY <1>2, SampleSees
  <2>2. outbox'[Deputy] = {sight} /\ DOMAIN sight \subseteq Own
    BY <2>1 DEF Observe, TypeOK, Sources
  <2>. QED  BY <1>2, <2>2 DEF Sample, history, DeputySeesOwn, MissesAreAbsences
<1>3. ASSUME NEW c \in Wire, NEW est \in BOOLEAN, Report(c, est)
      PROVE  DeputySeesOwn' /\ MissesAreAbsences'
  <2>1. outbox'[Deputy] = outbox[Deputy]
    BY <1>3 DEF Report, Observe, TypeOK, Sources, Patrol, Deputy
  <2>. QED  BY <1>3, <2>1 DEF Report, history, DeputySeesOwn, MissesAreAbsences
<1>4. ASSUME NEW s \in Sources, Send(s) PROVE DeputySeesOwn' /\ MissesAreAbsences'
  <2>1. PICK sight \in outbox[s] : queue' = Append(queue, [src |-> s, ts |-> now, sight |-> sight])
    BY <1>4 DEF Send
  <2>2. /\ queue \in Seq(Event) /\ [src |-> s, ts |-> now, sight |-> sight] \in Event
    BY DEF TypeOK, Event
  <2>3. /\ DOMAIN queue = 1 .. Len(queue) /\ DOMAIN queue' = 1 .. Len(queue) + 1 /\ Len(queue) \in Nat
        /\ \A i \in 1 .. Len(queue) : queue'[i] = queue[i]
        /\ queue'[Len(queue) + 1] = [src |-> s, ts |-> now, sight |-> sight]
    BY <2>1, <2>2
  <2>4. \A i \in DOMAIN queue' : queue'[i].src = Deputy => DOMAIN queue'[i].sight \subseteq Own
    <3>. SUFFICES ASSUME NEW i \in DOMAIN queue', queue'[i].src = Deputy
                  PROVE  DOMAIN queue'[i].sight \subseteq Own
      OBVIOUS
    <3>1. CASE i \in DOMAIN queue
      BY <2>3, <3>1 DEF DeputySeesOwn
    <3>2. CASE i \notin DOMAIN queue
      <4>1. queue'[i] = [src |-> s, ts |-> now, sight |-> sight]
        BY <2>3, <3>2
      <4>. QED  BY <4>1 DEF DeputySeesOwn
    <3>. QED  BY <3>1, <3>2
  <2>5. \A x \in outbox'[Deputy] : x \in outbox[Deputy]
    BY <1>4 DEF Send, TypeOK, Sources
  <2>. QED  BY <1>4, <2>4, <2>5 DEF Send, history, DeputySeesOwn, MissesAreAbsences
<1>5. ASSUME NEW s \in Sources, GiveUp(s) \/ Quit(s) PROVE DeputySeesOwn' /\ MissesAreAbsences'
  <2>1. \A x \in outbox'[Deputy] : x \in outbox[Deputy]
    BY <1>5 DEF GiveUp, Quit, TypeOK, Sources
  <2>. QED  BY <1>5, <2>1 DEF GiveUp, Quit, history, DeputySeesOwn, MissesAreAbsences
<1>6. CASE Handle
  <2>. DEFINE e == Head(queue)
  <2>1. e \in Event /\ queue # << >> /\ tracked' = TrackedAfter(e)
    BY <1>6, PendingAfter
  <2>2. queue' = Tail(queue) /\ UNCHANGED outbox
    BY <1>6 DEF Handle, sources
  <2>3. e.src = Deputy => DOMAIN e.sight \subseteq Own
    BY <2>1, QueueAfter DEF DeputySeesOwn
  <2>4. \A i \in DOMAIN queue' : queue'[i].src = Deputy => DOMAIN queue'[i].sight \subseteq Own
    BY <2>1, <2>2, QueueAfter DEF DeputySeesOwn
  <2>5. ASSUME NEW k \in DOMAIN tracked', k[1] = Deputy PROVE k[2] \in Own
    <3>1. CASE k \in Seen(e)
      BY <2>1, <2>3, <2>5, <3>1, ObservedIs
    <3>2. CASE k \notin Seen(e)
      BY <2>1, <2>5, <3>2, TrackedAfterIs DEF DeputySeesOwn
    <3>. QED  BY <3>1, <3>2
  <2>6. ASSUME NEW c \in Own, <<Deputy, c>> \in DOMAIN tracked'
        PROVE  tracked'[<<Deputy, c>>].missed = absent'[c]
    <3>. DEFINE k == <<Deputy, c>>
    <3>1. e.src # Patrol => absent'[c] = IF c \in DOMAIN e.sight THEN 0
                                         ELSE IF absent[c] < GraceRounds THEN absent[c] + 1
                                         ELSE absent[c]
      BY <1>6 DEF Handle
    <3>2. e.src = Patrol => absent' = absent
      BY <1>6 DEF Handle
    <3>3. CASE k \in Seen(e)
      <4>1. e.src = Deputy /\ c \in DOMAIN e.sight /\ Observed(k, e).missed = 0
        BY <2>1, <3>3, ObservedIs
      <4>. QED  BY <2>1, <3>1, <3>3, <4>1, TrackedAfterIs DEF Deputy, Patrol
    <3>4. CASE k \notin Seen(e)
      <4>1. /\ k \in DOMAIN tracked
            /\ tracked'[k].missed = IF k \in Missing(e) THEN tracked[k].missed + 1 ELSE tracked[k].missed
        BY <2>1, <2>6, <3>4, TrackedAfterIs
      <4>2. tracked[k].missed = absent[c] /\ tracked[k].missed < GraceRounds
        BY <4>1, FlowAssumption DEF MissesAreAbsences, TypeOK, Tracks
      <4>3. CASE e.src = Deputy
        <5>1. c \notin DOMAIN e.sight
          BY <3>4, <4>3 DEF Seen
        <5>2. k \in Missing(e)
          BY <4>1, <4>3, <5>1 DEF Missing
        <5>. QED  BY <3>1, <4>1, <4>2, <4>3, <5>1, <5>2 DEF Deputy, Patrol
      <4>4. CASE e.src # Deputy
        <5>1. e.src = Patrol
          BY <2>1, <4>4 DEF Event, Sources
        <5>2. k \notin Missing(e)
          BY <2>1, <4>4, ClosingIs
        <5>. QED  BY <3>2, <4>1, <4>2, <5>1, <5>2
      <4>. QED  BY <4>3, <4>4
    <3>. QED  BY <3>3, <3>4
  <2>. QED  BY <2>2, <2>4, <2>5, <2>6 DEF DeputySeesOwn, MissesAreAbsences
<1>7. ASSUME NEW c \in Lan, Discover(c)
      PROVE  DeputySeesOwn' /\ MissesAreAbsences'
  BY <1>7 DEF Discover, sources, history, DeputySeesOwn, MissesAreAbsences
<1>8. ASSUME NEW ok \in BOOLEAN, Flush(ok) \/ FinalFlush(ok) PROVE DeputySeesOwn' /\ MissesAreAbsences'
  BY <1>8 DEF Flush, FinalFlush, sources, DeputySeesOwn, MissesAreAbsences
<1>9. CASE Cancel \/ Return \/ Over \/ UNCHANGED vars
  BY <1>9 DEF Cancel, Return, Over, vars, sources, history, DeputySeesOwn, MissesAreAbsences
<1>. QED
  BY <1>2, <1>3, <1>4, <1>5, <1>6, <1>7, <1>8, <1>9 DEF Next

\* A flow that was tracked is reported by the event under its key, or stays as it is.
LEMMA ReportedOrKept ==
  ASSUME TypeOK, Handle, NEW e, e = Head(queue), NEW k \in DOMAIN tracked
  PROVE  \/ \E f \in EventsOf(e) : StoreKey(f) = <<k[1], k[2], tracked[k].start>>
         \/ /\ k \in DOMAIN tracked' /\ tracked'[k].start = tracked[k].start
            /\ tracked'[k].est = tracked[k].est
<1>1. e \in Event /\ tracked' = TrackedAfter(e)
  BY PendingAfter
<1>2. k \in Sources \X Conns
  BY DEF TypeOK
<1>3. CASE k \in Seen(e) \union Closing(e)
  <2>1. PICK f \in EventsOf(e) :
          /\ <<f.src, f.conn>> = k
          /\ f.start = IF k \in Seen(e) THEN Observed(k, e).start ELSE tracked[k].start
    BY <1>1, <1>3, EventsExist
  <2>2. f.start = tracked[k].start
    BY <1>1, <2>1, ObservedIs
  <2>. QED  BY <1>2, <2>1, <2>2 DEF StoreKey
<1>4. CASE k \notin Seen(e) \union Closing(e)
  BY <1>1, <1>4, TrackedAfterIs
<1>. QED  BY <1>3, <1>4

\* A flow that is tracked now is reported as it is, or was tracked as it is.
LEMMA TrackedNow ==
  ASSUME TypeOK, Handle, NEW e, e = Head(queue), NEW k \in DOMAIN tracked'
  PROVE  \/ \E f \in EventsOf(e) : /\ StoreKey(f) = <<k[1], k[2], tracked'[k].start>>
                                   /\ f.est = tracked'[k].est
         \/ /\ k \in DOMAIN tracked /\ tracked'[k].start = tracked[k].start
            /\ tracked'[k].est = tracked[k].est
<1>1. e \in Event /\ tracked' = TrackedAfter(e)
  BY PendingAfter
<1>2. CASE k \in Seen(e)
  <2>1. FlowOf(k, Observed(k, e), TRUE) \in EventsOf(e)
    BY <1>2 DEF EventsOf
  <2>2. tracked'[k] = Observed(k, e)
    BY <1>1, <1>2, TrackedAfterIs
  <2>. QED  BY <2>1, <2>2 DEF FlowOf, StoreKey
<1>3. CASE k \notin Seen(e)
  BY <1>1, <1>3, TrackedAfterIs
<1>. QED  BY <1>2, <1>3

\* A flow that the event reports is tracked from here, or staged as closed.
LEMMA ReportedIs ==
  ASSUME TypeOK, DeputySeesOwn, Handle, NEW e, e = Head(queue), NEW f \in EventsOf(e)
  PROVE  LET k == <<f.src, f.conn>> IN
         /\ StoreKey(f) \in DOMAIN pending' /\ pending'[StoreKey(f)] = f
         /\ StoreKey(f) = <<f.src, f.conn, f.start>> /\ f \in Flows
         /\ f.active => k \in DOMAIN tracked' /\ tracked'[k].start = f.start /\ tracked'[k].est = f.est
         /\ ~f.active => k \notin DOMAIN tracked' /\ f.src = Deputy /\ f.conn \in Own
<1>1. e \in Event /\ tracked' = TrackedAfter(e)
      /\ StoreKey(f) \in DOMAIN pending' /\ pending'[StoreKey(f)] = f
  BY PendingAfter
<1>2. CASE f.active
  <2>1. /\ f \in Flows /\ <<f.src, f.conn>> \in Seen(e) /\ f.start = Observed(<<f.src, f.conn>>, e).start
        /\ f.est = Observed(<<f.src, f.conn>>, e).est
    BY <1>1, <1>2, EventsAre
  <2>. QED  BY <1>1, <1>2, <2>1, TrackedAfterIs DEF StoreKey
<1>3. CASE ~f.active
  <2>1. f \in Flows /\ <<f.src, f.conn>> \in Closing(e) /\ <<f.src, f.conn>> \in DOMAIN tracked
    BY <1>1, <1>3, EventsAre
  <2>2. <<f.src, f.conn>> \in Missing(e) /\ f.src = Deputy
    BY <1>1, <2>1, ClosingIs
  <2>3. f.conn \in Own
    BY <2>1, <2>2 DEF DeputySeesOwn
  <2>4. <<f.src, f.conn>> \notin Seen(e)
    BY <1>1, <2>2, ClosingIs
  <2>. QED  BY <1>1, <1>3, <2>1, <2>2, <2>3, <2>4, TrackedAfterIs DEF StoreKey
<1>. QED  BY <1>2, <1>3

LEMMA StagedStep == IInv /\ [Next]_vars => StagedFlows' /\ HashOfRow'
<1>. SUFFICES ASSUME IInv, [Next]_vars PROVE StagedFlows' /\ HashOfRow'
  OBVIOUS
<1>1. TypeOK /\ DeputySeesOwn /\ StagedFlows /\ HashOfRow
  BY DEF IInv
<1>. USE <1>1
<1>2. CASE Handle
  <2>. DEFINE e == Head(queue)
              Now(f) == <<f.src, f.conn>> \in DOMAIN tracked' /\ tracked'[<<f.src, f.conn>>].start = f.start
  <2>1. ASSUME NEW f \in EventsOf(e)
        PROVE  /\ pending'[StoreKey(f)] = f
               /\ f.active => Now(f)
               /\ ~f.active => f.src = Deputy /\ f.conn \in Own
               /\ Now(f) => f.est = tracked'[<<f.src, f.conn>>].est
    BY <1>2, ReportedIs
  <2>2. ASSUME NEW p \in DOMAIN pending, \A f \in EventsOf(e) : StoreKey(f) # p,
               NEW g, g = pending[p]
        PROVE  /\ p = StoreKey(g)
               /\ g.active => Now(g)
               /\ ~g.active => g.src = Deputy /\ g.conn \in Own
               /\ Now(g) => g.est = tracked'[<<g.src, g.conn>>].est
    <3>. DEFINE k == <<g.src, g.conn>>
    <3>1. /\ p = StoreKey(g) /\ p = <<k[1], k[2], g.start>>
          /\ ~g.active => g.src = Deputy /\ g.conn \in Own
      BY <2>2 DEF StagedFlows, StoreKey
    <3>2. g.active => Now(g)
      <4>1. g.active => k \in DOMAIN tracked /\ tracked[k].start = g.start
        BY <2>2 DEF StagedFlows, IsTracked
      <4>. QED  BY <1>2, <2>2, <3>1, <4>1, ReportedOrKept
    <3>3. Now(g) => g.est = tracked'[k].est
      <4>1. Now(g) => /\ k \in DOMAIN tracked /\ tracked[k].start = g.start
                      /\ tracked'[k].est = tracked[k].est
        BY <1>2, <2>2, <3>1, TrackedNow
      <4>. QED  BY <2>2, <4>1 DEF StagedFlows, IsTracked
    <3>. QED  BY <3>1, <3>2, <3>3
  <2>3. ASSUME NEW p \in DOMAIN pending'
        PROVE  LET f == pending'[p] IN
               /\ p = StoreKey(f)
               /\ f.active => Now(f)
               /\ ~f.active => f.src = Deputy /\ f.conn \in Own
               /\ Now(f) => f.est = tracked'[<<f.src, f.conn>>].est
    <3>. HIDE DEF Now
    <3>. QED  BY <1>2, <2>1, <2>2, PendingAfter
  <2>4. UNCHANGED rows
    BY <1>2 DEF Handle
  <2>5. StagedFlows'
    BY <2>3 DEF StagedFlows, IsTracked, StoreKey
  <2>. QED  BY <2>4, <2>5 DEF HashOfRow
<1>3. ASSUME NEW ok \in BOOLEAN, Flush(ok) \/ FinalFlush(ok) PROVE StagedFlows' /\ HashOfRow'
  <2>1. Write(ok) /\ DOMAIN pending' = {}
    BY <1>3 DEF Flush, FinalFlush
  <2>. QED  BY <2>1, WriteTypes DEF StagedFlows
<1>4. ASSUME NEW c \in Lan, Discover(c) PROVE StagedFlows' /\ HashOfRow'
  <2>1. UNCHANGED <<pending, tracked>> /\ DOMAIN rows' = DOMAIN rows
    BY <1>4 DEF Discover
  <2>. QED  BY <2>1 DEF StagedFlows, IsTracked, HashOfRow
<1>5. CASE Sample \/ Cancel \/ Return \/ Over \/ UNCHANGED vars
  BY <1>5 DEF Sample, Cancel, Return, Over, vars, StagedFlows, IsTracked, HashOfRow
<1>6. ASSUME NEW s \in Sources, Send(s) \/ GiveUp(s) \/ Quit(s) PROVE StagedFlows' /\ HashOfRow'
  BY <1>6 DEF Send, GiveUp, Quit, StagedFlows, IsTracked, HashOfRow
<1>7. ASSUME NEW c \in Wire, NEW est \in BOOLEAN, Report(c, est) PROVE StagedFlows' /\ HashOfRow'
  BY <1>7 DEF Report, StagedFlows, IsTracked, HashOfRow
<1>. QED  BY <1>2, <1>3, <1>4, <1>5, <1>6, <1>7 DEF Next

\* What makes it right that a row is active: the flow is lost, tracked, or about
\* to be closed.
Excused(i) ==
  \/ i \in lost
  \/ <<i[1], i[2]>> \in DOMAIN tracked /\ tracked[<<i[1], i[2]>>].start = i[3]
  \/ /\ pc = "running"
     /\ \E p \in DOMAIN pending : StoreKey(pending[p]) = i /\ ~pending[p].active

\* NoRowIsLeftActive in those terms.
LEMMA RightlyActive ==
  NoRowIsLeftActive <=>
    \A r \in DOMAIN rows : rows[r].active => \E s \in Sources : Excused(<<s, r[2], r[3]>>)
BY DEF NoRowIsLeftActive, Excused, StoreKey

LEMMA RightlyActiveNext ==
  (\A r \in DOMAIN rows' : rows'[r].active => \E s \in Sources : Excused(<<s, r[2], r[3]>>)')
    => NoRowIsLeftActive'
BY DEF NoRowIsLeftActive, Excused, StoreKey

\* The event loses no reason.
LEMMA ExcusedAfterEvent ==
  ASSUME TypeOK, DeputySeesOwn, StagedFlows, Handle,
         NEW i \in Sources \X Conns \X (0 .. MaxRounds), Excused(i)
  PROVE  Excused(i)'
<1>. DEFINE e == Head(queue)
<1>1. /\ pc = "running" /\ pc' = pc
      /\ lost' = lost \ {<<f.src, f.conn, f.start>> : f \in EventsOf(e)}
  BY DEF Handle
<1>2. ASSUME NEW f \in EventsOf(e), StoreKey(f) = i PROVE Excused(i)'
  <2>1. /\ i \in DOMAIN pending' /\ pending'[i] = f
        /\ f.active => <<i[1], i[2]>> \in DOMAIN tracked' /\ tracked'[<<i[1], i[2]>>].start = i[3]
    BY <1>2, ReportedIs DEF StoreKey
  <2>2. StoreKey(f) = i /\ i[1] = f.src
    BY <1>2 DEF StoreKey
  <2>. QED  BY <1>1, <2>1, <2>2 DEF Excused, StoreKey
<1>3. CASE i \in lost
  BY <1>1, <1>2, <1>3 DEF Excused, StoreKey
<1>4. CASE <<i[1], i[2]>> \in DOMAIN tracked /\ tracked[<<i[1], i[2]>>].start = i[3]
  <2>1. i = <<i[1], i[2], i[3]>>
    OBVIOUS
  <2>2. \/ \E f \in EventsOf(e) : StoreKey(f) = i
        \/ <<i[1], i[2]>> \in DOMAIN tracked' /\ tracked'[<<i[1], i[2]>>].start = i[3]
    BY <1>4, <2>1, ReportedOrKept
  <2>. QED  BY <1>2, <2>2 DEF Excused
<1>5. CASE \E p \in DOMAIN pending : StoreKey(pending[p]) = i /\ ~pending[p].active
  <2>1. PICK p \in DOMAIN pending : StoreKey(pending[p]) = i /\ ~pending[p].active
    BY <1>5
  <2>2. p = i /\ p \in DOMAIN pending'
    BY <2>1, PendingAfter DEF StagedFlows
  <2>3. (\E f \in EventsOf(e) : StoreKey(f) = i) \/ pending'[p] = pending[p]
    BY <2>2, PendingAfter
  <2>. QED  BY <1>1, <1>2, <2>1, <2>2, <2>3 DEF Excused, StoreKey
<1>. QED  BY <1>3, <1>4, <1>5 DEF Excused

LEMMA ActiveStep == IInv /\ [Next]_vars => NoRowIsLeftActive'
<1>. SUFFICES ASSUME IInv, [Next]_vars PROVE NoRowIsLeftActive'
  OBVIOUS
<1>1. /\ TypeOK /\ DeputySeesOwn /\ StagedFlows /\ HashOfRow /\ NoRowIsLeftActive
      /\ \A r \in DOMAIN rows : rows[r].active => \E s \in Sources : Excused(<<s, r[2], r[3]>>)
  BY RightlyActive DEF IInv
<1>. USE <1>1
<1>2. CASE Handle
  <2>1. \A r \in DOMAIN rows : r[2] \in Conns /\ r[3] \in 0 .. MaxRounds
    BY DEF HashOfRow, Hashes
  <2>2. UNCHANGED rows
    BY <1>2 DEF Handle
  <2>3. ASSUME NEW r \in DOMAIN rows, rows[r].active
        PROVE  \E s \in Sources : Excused(<<s, r[2], r[3]>>)'
    <3>1. PICK s \in Sources : Excused(<<s, r[2], r[3]>>)
      BY <2>3
    <3>2. Excused(<<s, r[2], r[3]>>)'
      BY <1>2, <2>1, <3>1, ExcusedAfterEvent
    <3>. QED  BY <3>2
  <2>. QED  BY <2>2, <2>3, RightlyActiveNext
<1>3. ASSUME NEW ok \in BOOLEAN, Flush(ok) \/ FinalFlush(ok) PROVE NoRowIsLeftActive'
  <2>1. Write(ok) /\ tracked' = tracked
    BY <1>3 DEF Flush, FinalFlush
  <2>2. CASE ~ok
    <3>1. rows' = rows /\ lost' = lost \union {<<f.src, f.conn, f.start>> : f \in Staged}
      BY <2>1, <2>2 DEF Write
    <3>2. ASSUME NEW i, Excused(i) PROVE Excused(i)'
      BY <2>1, <3>1, <3>2, StagedTypes DEF Excused, StoreKey
    <3>. QED  BY <3>1, <3>2, RightlyActiveNext
  <2>3. CASE ok
    <3>. DEFINE hit == {FlowHash(f) : f \in Staged}
    <3>1. rows' \in Upserted(Staged) /\ lost' = lost
      BY <2>1, <2>3 DEF Write
    <3>2. /\ DOMAIN rows' = hit \union DOMAIN rows
          /\ \A r \in DOMAIN rows \ hit : rows'[r] = rows[r]
          /\ \A r \in hit : \E f \in Staged : FlowHash(f) = r /\ (rows'[r].active <=> f.active)
      BY <3>1, RowsAfterWrite, StagedTypes
    <3>3. ASSUME NEW r \in hit, rows'[r].active PROVE \E s \in Sources : Excused(<<s, r[2], r[3]>>)'
      <4>1. PICK f \in Staged : FlowHash(f) = r /\ f.active
        BY <3>2, <3>3
      <4>2. f \in Flows /\ \E p \in DOMAIN pending : f = pending[p]
        BY StagedTypes DEF Staged
      <4>3. IsTracked(f)
        BY <4>1, <4>2 DEF StagedFlows
      <4>4. r[2] = f.conn /\ r[3] = f.start /\ f.src \in Sources
        BY <4>1, <4>2, HashTypes DEF Flows
      <4>5. Excused(<<f.src, r[2], r[3]>>)'
        BY <2>1, <4>3, <4>4 DEF IsTracked, Excused
      <4>. QED  BY <4>4, <4>5
    <3>4. ASSUME NEW r \in DOMAIN rows \ hit, rows[r].active
          PROVE  \E s \in Sources : Excused(<<s, r[2], r[3]>>)'
      <4>1. PICK s \in Sources : Excused(<<s, r[2], r[3]>>)
        BY <3>4
      <4>2. ASSUME NEW p \in DOMAIN pending, StoreKey(pending[p]) = <<s, r[2], r[3]>>, ~pending[p].active
            PROVE  FALSE
        <5>. DEFINE f == pending[p]
        <5>1. f \in Staged /\ f \in Flows /\ f.conn = r[2] /\ f.start = r[3] /\ f.conn \in Own
          BY <4>2, StagedTypes DEF StagedFlows, StoreKey
        <5>2. r = <<"self", r[2], r[3]>>
          BY <5>1 DEF HashOfRow, Hashes
        <5>3. FlowHash(f) = r
          BY <5>1, <5>2, HashTypes
        <5>. QED  BY <3>4, <5>1, <5>3
      <4>3. Excused(<<s, r[2], r[3]>>)'
        BY <2>1, <3>1, <4>1, <4>2 DEF Excused
      <4>. QED  BY <4>3
    <3>. QED  BY <3>2, <3>3, <3>4, RightlyActiveNext
  <2>. QED  BY <2>2, <2>3
<1>4. ASSUME NEW c \in Lan, Discover(c) PROVE NoRowIsLeftActive'
  <2>1. /\ UNCHANGED <<lost, tracked, pc, pending>> /\ DOMAIN rows' = DOMAIN rows
        /\ \A r \in DOMAIN rows : rows'[r].active = rows[r].active
    BY <1>4 DEF Discover, history, TypeOK
  <2>. QED  BY <2>1, RightlyActiveNext DEF Excused
<1>5. CASE Return
  BY <1>5 DEF Return, history, NoRowIsLeftActive
<1>6. CASE Sample \/ Cancel \/ Over \/ UNCHANGED vars
  BY <1>6 DEF Sample, Cancel, Over, vars, history, NoRowIsLeftActive
<1>7. ASSUME NEW s \in Sources, Send(s) \/ GiveUp(s) \/ Quit(s) PROVE NoRowIsLeftActive'
  <2>1. UNCHANGED <<tracked, pending, rows, pc, lost>>
    BY <1>7 DEF Send, GiveUp, Quit, history
  <2>. QED  BY <2>1 DEF NoRowIsLeftActive
<1>8. ASSUME NEW c \in Wire, NEW est \in BOOLEAN, Report(c, est) PROVE NoRowIsLeftActive'
  BY <1>8 DEF Report, history, NoRowIsLeftActive
<1>. QED  BY <1>2, <1>3, <1>4, <1>5, <1>6, <1>7, <1>8 DEF Next

\* The record has all that is said of a flow.
OnRecord(k, t) ==
  \E r \in DOMAIN rows :
    /\ r[2] = k[2] /\ r[3] = t.start
    /\ t.est => rows[r].est
    /\ k[2] \in Lan => rows[r].active

\* The flow under the key i is staged for a flush to come.
IsStaged(i) == pc = "running" /\ \E p \in DOMAIN pending : StoreKey(pending[p]) = i

\* What TrackedReachesTheRecord says of a flow.
Reached(k) ==
  LET i == <<k[1], k[2], tracked[k].start>> IN
  i \in lost \/ IsStaged(i) \/ OnRecord(k, tracked[k])

LEMMA Reaches == TrackedReachesTheRecord <=> \A k \in DOMAIN tracked : Reached(k)
BY DEF TrackedReachesTheRecord, Reached, OnRecord, IsStaged, StoreKey

LEMMA ReachesNext == TrackedReachesTheRecord' <=> (\A k \in DOMAIN tracked : Reached(k))'
BY Reaches, PTL

LEMMA ReachStep == IInv /\ [Next]_vars => TrackedReachesTheRecord'
<1>. SUFFICES ASSUME IInv, [Next]_vars PROVE TrackedReachesTheRecord'
  OBVIOUS
<1>1. /\ TypeOK /\ DeputySeesOwn /\ StagedFlows /\ HashOfRow /\ TrackedReachesTheRecord
      /\ \A k \in DOMAIN tracked : Reached(k)
  BY Reaches DEF IInv
<1>. USE <1>1
<1>2. CASE Handle
  <2>. DEFINE e == Head(queue)
  <2>1. /\ pc = "running" /\ pc' = pc /\ rows' = rows
        /\ lost' = lost \ {<<f.src, f.conn, f.start>> : f \in EventsOf(e)}
    BY <1>2 DEF Handle
  <2>2. ASSUME NEW f \in EventsOf(e) PROVE IsStaged(StoreKey(f))'
    <3>1. StoreKey(f) \in DOMAIN pending' /\ pending'[StoreKey(f)] = f
      BY <1>2, PendingAfter
    <3>. QED  BY <2>1, <3>1 DEF IsStaged, StoreKey
  <2>3. ASSUME NEW k \in DOMAIN tracked', NEW i, i = <<k[1], k[2], tracked'[k].start>>
        PROVE  i \in lost' \/ IsStaged(i)' \/ OnRecord(k, tracked[k])'
    <3>1. CASE \E f \in EventsOf(e) : StoreKey(f) = i
      BY <2>2, <3>1
    <3>2. CASE ~(\E f \in EventsOf(e) : StoreKey(f) = i)
      <4>1. /\ k \in DOMAIN tracked /\ tracked'[k].start = tracked[k].start
            /\ tracked'[k].est = tracked[k].est
        BY <1>2, <2>3, <3>2, TrackedNow
      <4>2. i \in lost \/ IsStaged(i) \/ OnRecord(k, tracked[k])
        BY <2>3, <4>1 DEF Reached
      <4>3. CASE i \in lost
        BY <2>1, <3>2, <4>3 DEF StoreKey
      <4>4. CASE IsStaged(i)
        <5>1. PICK p \in DOMAIN pending : StoreKey(pending[p]) = i
          BY <4>4 DEF IsStaged
        <5>2. p = i /\ p \in DOMAIN pending'
          BY <1>2, <5>1, PendingAfter DEF StagedFlows
        <5>3. pending'[p] = pending[p]
          BY <1>2, <3>2, <5>2, PendingAfter
        <5>. QED  BY <2>1, <5>1, <5>2, <5>3 DEF IsStaged, StoreKey
      <4>5. CASE OnRecord(k, tracked[k])
        BY <2>1, <4>1, <4>5 DEF OnRecord
      <4>. QED  BY <4>2, <4>3, <4>4, <4>5
    <3>. QED  BY <3>1, <3>2
  <2>4. \A k \in DOMAIN tracked' : Reached(k)'
    BY <2>3 DEF Reached, IsStaged
  <2>. QED  BY <2>4, ReachesNext
<1>3. ASSUME NEW ok \in BOOLEAN, Flush(ok) \/ FinalFlush(ok) PROVE TrackedReachesTheRecord'
  <2>1. Write(ok) /\ tracked' = tracked
    BY <1>3 DEF Flush, FinalFlush
  <2>2. CASE ~ok
    <3>1. rows' = rows /\ lost' = lost \union {<<f.src, f.conn, f.start>> : f \in Staged}
      BY <2>1, <2>2 DEF Write
    <3>2. ASSUME NEW i, IsStaged(i) PROVE i \in lost'
      BY <3>1, <3>2, StagedTypes DEF IsStaged, StoreKey
    <3>. QED  BY <2>1, <3>1, <3>2, ReachesNext DEF Reached, OnRecord
  <2>3. CASE ok
    <3>. DEFINE hit == {FlowHash(f) : f \in Staged}
    <3>1. rows' \in Upserted(Staged) /\ lost' = lost
      BY <2>1, <2>3 DEF Write
    <3>2. /\ DOMAIN rows' = hit \union DOMAIN rows
          /\ \A r \in DOMAIN rows \ hit : rows'[r] = rows[r]
          /\ \A r \in hit : \E f \in Staged : FlowHash(f) = r /\ (rows'[r].active <=> f.active)
          /\ \A f \in Staged : f.est => rows'[FlowHash(f)].est
          /\ \A r \in DOMAIN rows : rows[r].est => rows'[r].est
      BY <3>1, RowsAfterWrite, StagedTypes
    \* A row of another machine's flow that the batch hits is active.
    <3>3. ASSUME NEW r \in hit, r[2] \in Lan PROVE rows'[r].active
      <4>1. PICK f \in Staged : FlowHash(f) = r /\ (rows'[r].active <=> f.active)
        BY <3>2
      <4>2. f \in Flows /\ f.conn \in Lan /\ \E p \in DOMAIN pending : f = pending[p]
        BY <3>3, <4>1, StagedTypes, HashTypes DEF Staged
      <4>3. f.active
        BY <4>2, FlowAssumption DEF StagedFlows
      <4>. QED  BY <4>1, <4>3
    <3>4. ASSUME NEW k \in DOMAIN tracked, IsStaged(<<k[1], k[2], tracked[k].start>>)
          PROVE  OnRecord(k, tracked[k])'
      <4>1. PICK p \in DOMAIN pending : StoreKey(pending[p]) = <<k[1], k[2], tracked[k].start>>
        BY <3>4 DEF IsStaged
      <4>. DEFINE f == pending[p]
      <4>2. f \in Staged /\ f \in Flows /\ f.src = k[1] /\ f.conn = k[2] /\ f.start = tracked[k].start
        BY <4>1, StagedTypes DEF StoreKey
      <4>3. f.est = tracked[k].est
        <5>1. k = <<f.src, f.conn>>
          BY <4>2 DEF TypeOK
        <5>. QED  BY <4>2, <5>1 DEF StagedFlows, IsTracked
      <4>4. FlowHash(f) \in hit /\ FlowHash(f)[2] = k[2] /\ FlowHash(f)[3] = tracked[k].start
        BY <4>2, HashTypes
      <4>. QED  BY <2>1, <3>2, <3>3, <4>2, <4>3, <4>4 DEF OnRecord
    <3>5. ASSUME NEW k \in DOMAIN tracked, OnRecord(k, tracked[k])
          PROVE  OnRecord(k, tracked[k])'
      <4>1. PICK r \in DOMAIN rows : /\ r[2] = k[2] /\ r[3] = tracked[k].start
                                     /\ tracked[k].est => rows[r].est
                                     /\ k[2] \in Lan => rows[r].active
        BY <3>5 DEF OnRecord
      <4>2. r \in DOMAIN rows' /\ (tracked[k].est => rows'[r].est)
        BY <3>2, <4>1
      <4>3. k[2] \in Lan => rows'[r].active
        BY <3>2, <3>3, <4>1
      <4>. QED  BY <2>1, <4>1, <4>2, <4>3 DEF OnRecord
    <3>6. ASSUME NEW k \in DOMAIN tracked
          PROVE  Reached(k)'
      BY <2>1, <3>1, <3>4, <3>5 DEF Reached
    <3>. QED  BY <2>1, <3>6, ReachesNext
  <2>. QED  BY <2>2, <2>3
<1>4. ASSUME NEW c \in Lan, Discover(c) PROVE TrackedReachesTheRecord'
  <2>1. /\ UNCHANGED <<lost, tracked, pc, pending>> /\ DOMAIN rows' = DOMAIN rows
        /\ \A r \in DOMAIN rows : rows'[r].active = rows[r].active /\ rows'[r].est = rows[r].est
    BY <1>4 DEF Discover, history, TypeOK
  <2>. QED  BY <2>1, ReachesNext DEF Reached, IsStaged, OnRecord
<1>5. CASE Return
  BY <1>5 DEF Return, history, TrackedReachesTheRecord
<1>6. CASE Sample \/ Cancel \/ Over \/ UNCHANGED vars
  BY <1>6 DEF Sample, Cancel, Over, vars, history, TrackedReachesTheRecord
<1>7. ASSUME NEW s \in Sources, Send(s) \/ GiveUp(s) \/ Quit(s) PROVE TrackedReachesTheRecord'
  BY <1>7 DEF Send, GiveUp, Quit, history, TrackedReachesTheRecord
<1>8. ASSUME NEW c \in Wire, NEW est \in BOOLEAN, Report(c, est) PROVE TrackedReachesTheRecord'
  BY <1>8 DEF Report, history, TrackedReachesTheRecord
<1>. QED  BY <1>2, <1>3, <1>4, <1>5, <1>6, <1>7, <1>8 DEF Next

LEMMA IInvStep == IInv /\ [Next]_vars => IInv'
BY TypeStep, DeputyStep, StagedStep, ActiveStep, ReachStep DEF IInv

LEMMA IInvHolds == Spec => []IInv
BY InitIInv, IInvStep, PTL DEF Spec

----------------------------------------------------------------------------
(***************************************************************************)
(* The theorems.                                                           *)
(***************************************************************************)

\* The sources, the channel, the normalizer and the table stay within their
\* types: no flow is tracked past its grace, and the channel within its room.
THEOREM TypeCorrect == Spec => []TypeOK
<1>1. IInv => TypeOK
  BY DEF IInv
<1>. QED  BY <1>1, IInvHolds, PTL

\* engine.go and store.go: no row stays active behind a close that was written,
\* whatever flickers, reopens, and is discovered between two flushes.
THEOREM NoRowStaysActive == Spec => []NoRowIsLeftActive
<1>1. IInv => NoRowIsLeftActive
  BY DEF IInv
<1>. QED  BY <1>1, IInvHolds, PTL

\* engine.go: what the normalizer tracks is staged, written, or lost with a write
\* that failed, and the final flush leaves nothing staged.
THEOREM TrackedIsRecorded == Spec => []TrackedReachesTheRecord
<1>1. IInv => TrackedReachesTheRecord
  BY DEF IInv
<1>. QED  BY <1>1, IInvHolds, PTL

\* normalizer.go: a flow closes only in Deputy Mode, at the GraceRounds-th poll in a
\* row that lacks it.
THEOREM CloseWaitsForGrace == Spec => ClosedOnlyAfterGrace
<1>1. IInv /\ [Next]_vars =>
        [\A k \in DOMAIN tracked \ DOMAIN tracked' : k[1] = Deputy /\ absent'[k[2]] = GraceRounds]_vars
  <2>. SUFFICES ASSUME IInv, [Next]_vars, NEW k \in DOMAIN tracked \ DOMAIN tracked'
                PROVE  k[1] = Deputy /\ absent'[k[2]] = GraceRounds
    OBVIOUS
  <2>1. Handle
    BY DEF Next, Sample, Report, Send, GiveUp, Quit, Flush, FinalFlush, Discover, Cancel, Return, Over, vars
  <2>. DEFINE e == Head(queue)
  <2>2. TypeOK /\ DeputySeesOwn /\ MissesAreAbsences /\ e \in Event /\ tracked' = TrackedAfter(e)
    BY <2>1, PendingAfter DEF IInv
  <2>3. k \in Closing(e)
    BY <2>2, TrackedAfterIs
  <2>4. /\ e.src = Deputy /\ k[1] = Deputy /\ k[2] \notin DOMAIN e.sight
        /\ tracked[k].missed + 1 = GraceRounds
    BY <2>2, <2>3, ClosingIs
  <2>5. k[2] \in Own /\ k = <<Deputy, k[2]>>
    BY <2>2, <2>4 DEF DeputySeesOwn, TypeOK
  <2>6. absent[k[2]] + 1 = GraceRounds /\ absent[k[2]] \in Nat
    BY <2>2, <2>4, <2>5, FlowAssumption DEF MissesAreAbsences, TypeOK
  <2>7. absent' = [c \in Own |-> IF c \in DOMAIN e.sight THEN 0
                                 ELSE IF absent[c] < GraceRounds THEN absent[c] + 1
                                 ELSE absent[c]]
    BY <2>1, <2>4 DEF Handle, Deputy, Patrol
  <2>. QED  BY <2>4, <2>5, <2>6, <2>7, FlowAssumption
<1>. QED  BY <1>1, IInvHolds, PTL DEF Spec, ClosedOnlyAfterGrace
=============================================================================
