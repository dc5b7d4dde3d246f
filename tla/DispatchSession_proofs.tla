---------------------- MODULE DispatchSession_proofs ----------------------
(***************************************************************************)
(* The safety of the session service for every set of peers, every number  *)
(* of goroutines and every MaxPeers.                                       *)
(*                                                                         *)
(* The argument: a goroutine that may register holds a key that was paired *)
(* when it connected (ServedKeysKnown); the live table and the registered  *)
(* goroutines point at each other, as long as the goroutine's transport is *)
(* open (LiveIsAuthenticated, SessionIsListed); the table grows only in    *)
(* register, which counts it first; and a helper that outlives its         *)
(* goroutine finds the transport closed (EndingIsClosed), so that Stop,    *)
(* which waits for the goroutines, leaves no open connection behind.       *)
(***************************************************************************)
EXTENDS DispatchSession, FiniteSetTheorems, TLAPS

\* The type of a goroutine's state.
ConnStates == [phase : Phases, peer : Peers \cup {NoPeer}, known : BOOLEAN,
               first : Openings, closed : BOOLEAN]

\* A handle in use belongs to a peer.
PeerOfUsedHandle == \A c \in Conns : conn[c].phase # "free" => conn[c].peer \in Peers

\* Past the opening message, only connections with a paired key are left.
ServedKeysKnown ==
  \A c \in Conns :
    At(c, {"dialling", "ready", "greeting", "serving", "merging"}) => conn[c].known

\* What is left of a session once its goroutine is gone cannot be spoken on.
EndingIsClosed == \A c \in Conns : At(c, {"ending"}) => conn[c].closed

\* Stop waits for every goroutine that serves a connection.
StoppedIsIdle == svc = "stopped" => AllReturned

\* The inductive invariant.
IInv ==
  /\ TypeOK
  /\ PeerOfUsedHandle
  /\ ServedKeysKnown
  /\ LiveIsAuthenticated
  /\ SessionIsListed
  /\ EndingIsClosed
  /\ StoppedIsIdle
  /\ Capacity

\* The live table has finitely many entries, so its size is a number.
LEMMA LiveFinite ==
  ASSUME TypeOK
  PROVE  IsFiniteSet(LivePeers) /\ Cardinality(LivePeers) \in Nat
BY SessionAssumption, FS_Subset, FS_CardinalityType DEF LivePeers

\* Losing entries keeps the live table within its limit.
LEMMA FewerLive ==
  ASSUME TypeOK, Capacity, TypeOK', LivePeers' \subseteq LivePeers
  PROVE  Capacity'
<1>1. IsFiniteSet(LivePeers) /\ Cardinality(LivePeers) \in Nat
  BY LiveFinite
<1>2. IsFiniteSet(LivePeers') /\ Cardinality(LivePeers') \in Nat
  BY SessionAssumption, FS_Subset, FS_CardinalityType DEF LivePeers
<1>3. Cardinality(LivePeers') <= Cardinality(LivePeers)
  BY <1>1, FS_Subset
<1>. QED  BY <1>1, <1>2, <1>3, SessionAssumption DEF Capacity

\* The invariant holds of a service that has not started.
LEMMA InitIInv == Init => IInv
<1>. SUFFICES ASSUME Init PROVE IInv
  OBVIOUS
<1>1. TypeOK
  BY SessionAssumption DEF Init, TypeOK, Lifecycle, Phases, Openings, Idle
<1>2. LivePeers = {}
  BY DEF Init, LivePeers
<1>3. Capacity
  BY <1>2, FS_EmptySet, SessionAssumption DEF Capacity
<1>4. /\ PeerOfUsedHandle /\ ServedKeysKnown /\ SessionIsListed
      /\ EndingIsClosed /\ StoppedIsIdle
  BY DEF Init, PeerOfUsedHandle, ServedKeysKnown, SessionIsListed,
         EndingIsClosed, StoppedIsIdle, Registered, At, Idle, AllReturned
<1>5. LiveIsAuthenticated
  BY <1>2 DEF LiveIsAuthenticated
<1>. QED  BY <1>1, <1>3, <1>4, <1>5 DEF IInv

\* unregister under the lock keeps the variables in their types.
LEMMA LeaveType == ASSUME TypeOK, NEW c \in Conns, Leave(c) PROVE TypeOK'
<1>1. [conn[c] EXCEPT !.phase = IF At(c, {"greeting"}) THEN "failing" ELSE "leaving"]
        \in ConnStates
  BY DEF TypeOK, ConnStates, Phases
<1>2. conn' \in [Conns -> ConnStates]
  BY <1>1 DEF TypeOK, Leave, Move, ConnStates
<1>3. live' \in [Peers -> Conns \cup {NoConn}]
  BY DEF TypeOK, Leave, LiveWithout
<1>. QED  BY <1>2, <1>3 DEF TypeOK, Leave, ConnStates

\* Every step keeps the variables in their types.
LEMMA StepType == IInv /\ [Next]_vars => TypeOK'
<1>. SUFFICES ASSUME IInv, [Next]_vars PROVE TypeOK'
  OBVIOUS
<1>. USE SessionAssumption DEF TypeOK, Lifecycle, Phases, Openings, Idle,
         Serves, Move, Release, At, PairRequests
<1>0. TypeOK /\ PeerOfUsedHandle
  BY DEF IInv
<1>1. ASSUME NEW c \in Conns, Proceed(c) PROVE TypeOK'
  <2>1. CASE HandshakeIn(c)
    BY <1>0, <2>1 DEF HandshakeIn
  <2>2. CASE HandshakeOut(c)
    BY <1>0, <2>2 DEF HandshakeOut
  <2>3. CASE Abandon(c)
    BY <1>0, <2>3 DEF Abandon
  <2>4. CASE \E m \in Openings \ {"none"} : ReadOpening(c, m)
    <3>1. PICK m \in Openings \ {"none"} : ReadOpening(c, m)
      BY <2>4
    <3>2. PhaseAfterOpening(c, m) \in Phases
      BY DEF PhaseAfterOpening
    <3>. DEFINE next == PhaseAfterOpening(c, m)
                kept == IF next = "claiming" THEN m ELSE "none"
    <3>3. /\ Serves(c, next, conn[c].peer, conn[c].known, kept)
          /\ UNCHANGED <<svc, pairing, live, trust, rows>>
      BY <3>1 DEF ReadOpening
    <3>4. next \in Phases /\ kept \in Openings
      BY <3>2
    <3>. HIDE DEF next, kept
    <3>. QED  BY <1>0, <3>3, <3>4
  <2>5. CASE Claim(c)
    <3>1. CASE Move(c, "recording")
      BY <1>0, <2>5, <3>1 DEF Claim
    <3>2. CASE Release(c)
      BY <1>0, <2>5, <3>2 DEF Claim
    <3>. QED  BY <2>5, <3>1, <3>2 DEF Claim
  <2>6. CASE RecordPairing(c)
    BY <1>0, <2>6 DEF RecordPairing, TrustAfterAdd
  <2>7. CASE RecordFail(c)
    BY <1>0, <2>7 DEF RecordFail
  <2>8. CASE Register(c)
    <3>1. live' \in [Peers -> Conns \cup {NoConn}]
      BY <1>0, <2>8 DEF Register
    <3>2. [conn[c] EXCEPT !.phase = "greeting"] \in ConnStates
      BY <1>0 DEF ConnStates
    <3>3. conn' \in [Conns -> ConnStates]
      BY <1>0, <2>8, <3>2 DEF Register, ConnStates
    <3>. QED  BY <1>0, <2>8, <3>1, <3>3 DEF Register, ConnStates
  <2>9. CASE Refuse(c)
    BY <1>0, <2>9 DEF Refuse
  <2>10. CASE Greet(c)
    BY <1>0, <2>10 DEF Greet
  <2>11. CASE MergeWrite(c)
    BY <1>0, <2>11 DEF MergeWrite, PeerOfUsedHandle
  <2>12. CASE MergeFail(c)
    BY <1>0, <2>12 DEF MergeFail
  <2>13. CASE EndSession(c)
    BY <1>0, <2>13, LeaveType DEF EndSession
  <2>14. CASE HangUp(c)
    <3>1. CASE conn[c].phase = "failing"
      <4>1. conn' = [conn EXCEPT ![c] = Idle]
        BY <2>14, <3>1 DEF HangUp
      <4>2. UNCHANGED <<svc, pairing, live, trust, rows>>
        BY <2>14 DEF HangUp
      <4>. QED  BY <1>0, <4>1, <4>2
    <3>2. CASE conn[c].phase # "failing"
      <4>1. [conn[c] EXCEPT !.phase = "ending", !.closed = TRUE] \in ConnStates
        BY <1>0 DEF ConnStates
      <4>2. conn' = [conn EXCEPT ![c] = [conn[c] EXCEPT !.phase = "ending", !.closed = TRUE]]
        BY <1>0, <2>14, <3>2 DEF HangUp
      <4>. QED  BY <1>0, <2>14, <4>1, <4>2 DEF HangUp, ConnStates
    <3>. QED  BY <3>1, <3>2
  <2>15. CASE HelpersReturn(c)
    BY <1>0, <2>15 DEF HelpersReturn
  <2>. QED  BY <1>1, <2>1, <2>2, <2>3, <2>4, <2>5, <2>6, <2>7, <2>8, <2>9,
               <2>10, <2>11, <2>12, <2>13, <2>14, <2>15 DEF Proceed
<1>2. ASSUME NEW c \in Conns, Remote(c) PROVE TypeOK'
  <2>1. CASE \E p \in Peers : Accept(c, p)
    BY <1>0, <2>1 DEF Accept
  <2>2. CASE MergeCheck(c)
    BY <1>0, <2>2 DEF MergeCheck
  <2>3. CASE Vanish(c)
    <3>1. [conn[c] EXCEPT !.closed = TRUE] \in ConnStates
      <4>1. conn[c] \in ConnStates
        BY <1>0 DEF ConnStates
      <4>. QED  BY <4>1 DEF ConnStates
    <3>2. conn' = [conn EXCEPT ![c] = [conn[c] EXCEPT !.closed = TRUE]]
      BY <1>0, <2>3 DEF Vanish
    <3>. QED  BY <1>0, <2>3, <3>1, <3>2 DEF Vanish, ConnStates
  <2>4. CASE CutOff(c)
    BY <1>0, <2>4, LeaveType DEF CutOff
  <2>. QED  BY <1>2, <2>1, <2>2, <2>3, <2>4 DEF Remote
<1>3. CASE Periodic
  <2>1. CASE \E c \in Conns, p \in Peers : Dial(c, p)
    BY <1>0, <2>1 DEF Dial
  <2>3. CASE (\E p \in Peers : ExpireRows(p)) \/ ExpirePairing
    BY <1>0, <2>3 DEF ExpireRows, ExpirePairing
  <2>. QED  BY <1>3, <2>1, <2>3 DEF Periodic
<1>4. CASE Operator
  <2>1. CASE StartPairing \/ CancelPairing \/ Start \/ Cancel
    BY <1>0, <2>1 DEF StartPairing, CancelPairing, Start, Cancel
  <2>2. CASE \E p \in Peers : Join(p) \/ RemovePeer(p)
    BY <1>0, <2>2 DEF Join, TrustAfterAdd, RemovePeer
  <2>3. CASE \E p \in Peers, t \in {"trusted", "suspended"} : SetPeerTrust(p, t)
    BY <1>0, <2>3 DEF SetPeerTrust
  <2>. QED  BY <1>4, <2>1, <2>2, <2>3 DEF Operator
<1>5. CASE Stopping
  <2>1. CASE Sweep
    <3>1. ASSUME NEW c \in Conns PROVE [conn[c] EXCEPT !.closed = TRUE] \in ConnStates
      <4>1. conn[c] \in ConnStates
        BY <1>0 DEF ConnStates
      <4>. QED  BY <4>1 DEF ConnStates
    <3>. QED  BY <1>0, <2>1, <3>1 DEF Sweep, NoneLive, ConnStates
  <2>2. CASE Stopped
    BY <1>0, <2>2 DEF Stopped, NoneLive
  <2>. QED  BY <1>5, <2>1, <2>2 DEF Stopping
<1>6. CASE Crash
  BY <1>0, <1>6 DEF Crash, NoneLive
<1>7. CASE UNCHANGED vars
  BY <1>0, <1>7 DEF vars
<1>. QED  BY <1>1, <1>2, <1>3, <1>4, <1>5, <1>6, <1>7 DEF Next

-----------------------------------------------------------------------------
\* The parts of the invariant that relate goroutines and the live table.
Links ==
  /\ PeerOfUsedHandle
  /\ ServedKeysKnown
  /\ LiveIsAuthenticated
  /\ SessionIsListed
  /\ EndingIsClosed
  /\ StoppedIsIdle

\* A step that leaves the live table and the lifecycle alone, and takes one
\* handle c to a state that is no registered session or keeps its links, keeps
\* the links of all.
LEMMA OneHandleStep ==
  ASSUME TypeOK, TypeOK', Links, NEW c \in Conns,
         UNCHANGED <<live, svc>>,
         svc = "stopped" => conn'[c].phase \in {"free", "ending"},
         conn'[c].phase = "ending" => conn'[c].closed,
         \A d \in Conns \ {c} : conn'[d] = conn[d],
         conn'[c].phase # "free" => conn'[c].peer \in Peers,
         conn'[c].phase \in {"dialling", "ready", "greeting", "serving", "merging"}
           => conn'[c].known,
         \/ ~Registered(c) /\ ~Registered(c)'
         \/ /\ Registered(c) /\ Registered(c)'
            /\ conn'[c].peer = conn[c].peer
            /\ conn[c].closed => conn'[c].closed
  PROVE  Links'
<1>1. PeerOfUsedHandle' /\ ServedKeysKnown'
  BY DEF Links, PeerOfUsedHandle, ServedKeysKnown, At
<1>2. LiveIsAuthenticated'
  <2>. SUFFICES ASSUME NEW p \in Peers, live[p] # NoConn
                PROVE  Registered(live[p])' /\ conn'[live[p]].peer = p /\ conn'[live[p]].known
    BY DEF LiveIsAuthenticated, LivePeers
  <2>1. live[p] \in Conns
    BY DEF TypeOK
  <2>2. Registered(live[p]) /\ conn[live[p]].peer = p /\ conn[live[p]].known
    BY DEF Links, LiveIsAuthenticated, LivePeers
  <2>. QED  BY <2>1, <2>2, <1>1 DEF Registered, At, ServedKeysKnown
<1>3. SessionIsListed'
  BY DEF Links, SessionIsListed, Registered, At
<1>4. EndingIsClosed' /\ StoppedIsIdle'
  BY DEF Links, EndingIsClosed, StoppedIsIdle, AllReturned, At
<1>. QED  BY <1>1, <1>2, <1>3, <1>4 DEF Links

\* register keeps the links: the new entry's peer had none.
LEMMA RegisterLinks ==
  ASSUME TypeOK, Links, NEW c \in Conns, Register(c)
  PROVE  Links'
<1>. USE DEF TypeOK, Register, MayRegister, Move, Registered, At
<1>1. conn[c].peer \in Peers /\ conn[c].known
  BY DEF Links, PeerOfUsedHandle, ServedKeysKnown
<1>2. /\ conn'[c].phase = "greeting" /\ conn'[c].peer = conn[c].peer
      /\ conn'[c].known
      /\ \A d \in Conns \ {c} : conn'[d] = conn[d]
  BY <1>1
<1>3. live'[conn[c].peer] = c /\ \A p \in Peers \ {conn[c].peer} : live'[p] = live[p]
  BY <1>1
<1>4. PeerOfUsedHandle' /\ ServedKeysKnown'
  BY <1>1, <1>2 DEF Links, PeerOfUsedHandle, ServedKeysKnown
<1>5. LiveIsAuthenticated'
  BY <1>1, <1>2, <1>3 DEF Links, LiveIsAuthenticated, LivePeers
<1>6. SessionIsListed'
  BY <1>1, <1>2, <1>3, SessionAssumption DEF Links, SessionIsListed, PeerOfUsedHandle
<1>7. EndingIsClosed' /\ StoppedIsIdle'
  BY <1>2 DEF Links, EndingIsClosed, StoppedIsIdle, AllReturned
<1>. QED  BY <1>4, <1>5, <1>6, <1>7 DEF Links

\* unregister keeps the links: it strikes off its own entry or none.
LEMMA LeaveLinks ==
  ASSUME TypeOK, Links, NEW c \in Conns, Leave(c)
  PROVE  Links'
<1>. USE DEF TypeOK, Leave, LiveWithout, Move, Registered, At
<1>1. conn[c].peer \in Peers /\ svc # "stopped"
  BY DEF Links, PeerOfUsedHandle, StoppedIsIdle, AllReturned
<1>2. /\ conn'[c].phase \in {"failing", "leaving"}
      /\ conn'[c].peer = conn[c].peer
      /\ \A d \in Conns \ {c} : conn'[d] = conn[d]
  OBVIOUS
<1>3. \A p \in Peers : live'[p] \in {live[p], NoConn} /\ live'[p] # c
  BY <1>1, SessionAssumption DEF Links, LiveIsAuthenticated, LivePeers
<1>4. \A p \in Peers : live[p] # c => live'[p] = live[p]
  BY <1>1
<1>5. PeerOfUsedHandle' /\ ServedKeysKnown'
  BY <1>1, <1>2 DEF Links, PeerOfUsedHandle, ServedKeysKnown
<1>6. LiveIsAuthenticated'
  BY <1>2, <1>3 DEF Links, LiveIsAuthenticated, LivePeers
<1>7. SessionIsListed'
  BY <1>2, <1>4 DEF Links, SessionIsListed, PeerOfUsedHandle
<1>8. EndingIsClosed' /\ StoppedIsIdle'
  BY <1>1, <1>2 DEF Links, EndingIsClosed, StoppedIsIdle
<1>. QED  BY <1>5, <1>6, <1>7, <1>8 DEF Links

\* The lifecycle steps keep the links: Sweep closes every connection it takes
\* out of the table, Stopped and Crash leave no goroutine.
LEMMA LifecycleLinks ==
  ASSUME TypeOK, Links, Stopping \/ Crash \/ Start \/ Cancel
  PROVE  Links'
<1>. USE DEF TypeOK, Registered, At, NoneLive
<1>1. CASE Sweep
  <2>1. \A d \in Conns : /\ conn'[d].phase = conn[d].phase
                         /\ conn'[d].peer = conn[d].peer
                         /\ conn'[d].known = conn[d].known
    BY <1>1 DEF Sweep
  <2>2. \A d \in Conns : Registered(d) => conn'[d].closed
    BY <1>1 DEF Sweep, Links, SessionIsListed, PeerOfUsedHandle
  <2>3. PeerOfUsedHandle' /\ ServedKeysKnown' /\ SessionIsListed'
    BY <2>1, <2>2 DEF Links, PeerOfUsedHandle, ServedKeysKnown, SessionIsListed
  <2>4. LiveIsAuthenticated' /\ StoppedIsIdle'
    BY <1>1 DEF Sweep, LiveIsAuthenticated, LivePeers, StoppedIsIdle
  <2>5. EndingIsClosed'
    BY <1>1, <2>1 DEF Sweep, Links, EndingIsClosed
  <2>. QED  BY <2>3, <2>4, <2>5 DEF Links
<1>2. CASE Stopped
  BY <1>2 DEF Stopped, AllReturned, Links, PeerOfUsedHandle, ServedKeysKnown,
              LiveIsAuthenticated, LivePeers, SessionIsListed, EndingIsClosed,
              StoppedIsIdle
<1>3. CASE Crash
  BY <1>3 DEF Crash, Idle, AllReturned, Links, PeerOfUsedHandle, ServedKeysKnown,
              LiveIsAuthenticated, LivePeers, SessionIsListed, EndingIsClosed,
              StoppedIsIdle
<1>4. CASE Start \/ Cancel
  BY <1>4 DEF Start, Cancel, AllReturned, Links, PeerOfUsedHandle, ServedKeysKnown,
              LiveIsAuthenticated, LivePeers, SessionIsListed, EndingIsClosed,
              StoppedIsIdle
<1>. QED  BY <1>1, <1>2, <1>3, <1>4 DEF Stopping

\* Every step keeps the links.
LEMMA StepLinks == IInv /\ [Next]_vars => Links'
<1>. SUFFICES ASSUME IInv, [Next]_vars PROVE Links'
  OBVIOUS
<1>0. TypeOK /\ TypeOK' /\ Links
  BY StepType DEF IInv, Links
<1>1. ASSUME NEW c \in Conns, Proceed(c) PROVE Links'
  <2>. USE DEF TypeOK, Move, Release, Serves, At, Registered, Idle
  <2>0. conn[c].phase # "free" => conn[c].peer \in Peers
    BY <1>0 DEF Links, PeerOfUsedHandle
  <2>9. ~At(c, {"free", "ending"}) => svc # "stopped"
    BY <1>0 DEF Links, StoppedIsIdle, AllReturned
  <2>1. CASE HandshakeIn(c) \/ Abandon(c)
    BY <1>0, <2>0, <2>9, <2>1, OneHandleStep DEF HandshakeIn, Abandon
  <2>2. CASE HandshakeOut(c)
    BY <1>0, <2>0, <2>9, <2>2, OneHandleStep DEF HandshakeOut, Links, ServedKeysKnown
  <2>3. ASSUME NEW m \in Openings \ {"none"}, ReadOpening(c, m) PROVE Links'
    BY <1>0, <2>0, <2>9, <2>3, OneHandleStep DEF ReadOpening, PhaseAfterOpening
  <2>4. CASE Claim(c)
    BY <1>0, <2>0, <2>9, <2>4, OneHandleStep DEF Claim
  <2>5. CASE RecordPairing(c) \/ RecordFail(c) \/ Refuse(c)
    BY <1>0, <2>0, <2>9, <2>5, OneHandleStep DEF RecordPairing, RecordFail, Refuse
  <2>6. CASE Register(c)
    BY <1>0, <2>6, RegisterLinks
  <2>7. CASE Greet(c) \/ MergeWrite(c) \/ MergeFail(c)
    BY <1>0, <2>0, <2>9, <2>7, OneHandleStep
       DEF Greet, MergeWrite, MergeFail, Links, ServedKeysKnown
  <2>8. CASE EndSession(c)
    BY <1>0, <2>8, LeaveLinks DEF EndSession
  <2>10. CASE HangUp(c) \/ HelpersReturn(c)
    BY <1>0, <2>0, <2>9, <2>10, OneHandleStep DEF HangUp, HelpersReturn
  <2>. QED  BY <1>1, <2>1, <2>2, <2>3, <2>4, <2>5, <2>6, <2>7, <2>8, <2>10 DEF Proceed
<1>2. ASSUME NEW c \in Conns, Remote(c) PROVE Links'
  <2>. USE DEF TypeOK, Move, Serves, At, Registered
  <2>0. conn[c].phase # "free" => conn[c].peer \in Peers
    BY <1>0 DEF Links, PeerOfUsedHandle
  <2>9. ~At(c, {"free", "ending"}) => svc # "stopped"
    BY <1>0 DEF Links, StoppedIsIdle, AllReturned
  <2>1. ASSUME NEW p \in Peers, Accept(c, p) PROVE Links'
    BY <1>0, <2>1, OneHandleStep DEF Accept, Running
  <2>2. CASE MergeCheck(c) \/ Vanish(c)
    BY <1>0, <2>0, <2>9, <2>2, OneHandleStep DEF MergeCheck, Vanish, Links, ServedKeysKnown
  <2>3. CASE CutOff(c)
    BY <1>0, <2>3, LeaveLinks DEF CutOff
  <2>. QED  BY <1>2, <2>1, <2>2, <2>3 DEF Remote
<1>3. ASSUME NEW c \in Conns, NEW p \in Peers, Dial(c, p) PROVE Links'
  BY <1>0, <1>3, OneHandleStep DEF Dial, Running, TypeOK, Serves, At, Registered
<1>4. CASE UNCHANGED <<live, conn, svc>>
  BY <1>0, <1>4 DEF Links, PeerOfUsedHandle, ServedKeysKnown, At, LiveIsAuthenticated,
     LivePeers, SessionIsListed, Registered, EndingIsClosed, StoppedIsIdle, AllReturned
<1>5. CASE Stopping \/ Crash \/ Start \/ Cancel
  BY <1>0, <1>5, LifecycleLinks
<1>6. ASSUME NEW p \in Peers, \/ ExpireRows(p) \/ Join(p) \/ RemovePeer(p)
                              \/ \E t \in {"trusted", "suspended"} : SetPeerTrust(p, t)
      PROVE  UNCHANGED <<live, conn, svc>>
  BY <1>6 DEF ExpireRows, Join, RemovePeer, SetPeerTrust
<1>8. CASE ExpirePairing \/ StartPairing \/ CancelPairing \/ UNCHANGED vars
  BY <1>4, <1>8 DEF ExpirePairing, StartPairing, CancelPairing, vars
<1>9. CASE Periodic
  BY <1>3, <1>4, <1>6, <1>8, <1>9 DEF Periodic
<1>10. CASE Operator
  BY <1>4, <1>5, <1>6, <1>8, <1>10 DEF Operator
<1>. QED  BY <1>1, <1>2, <1>5, <1>8, <1>9, <1>10 DEF Next

-----------------------------------------------------------------------------
\* The live table grows in register only, and register counts it first.
LEMMA RegisterCapacity ==
  ASSUME TypeOK, Capacity, PeerOfUsedHandle, NEW c \in Conns, Register(c)
  PROVE  Capacity'
<1>1. conn[c].peer \in Peers
  BY DEF PeerOfUsedHandle, Register, At
<1>2. LivePeers' = LivePeers \cup {conn[c].peer}
  BY <1>1, SessionAssumption DEF TypeOK, Register, LivePeers
<1>3. conn[c].peer \notin LivePeers
  BY DEF Register, MayRegister, LivePeers
<1>4. IsFiniteSet(LivePeers) /\ Cardinality(LivePeers) \in Nat
  BY LiveFinite
<1>5. Cardinality(LivePeers') = Cardinality(LivePeers) + 1
  BY <1>2, <1>3, <1>4, FS_AddElement
<1>6. Cardinality(LivePeers) < MaxPeers
  BY DEF Register, MayRegister
<1>. QED  BY <1>4, <1>5, <1>6, SessionAssumption DEF Capacity

\* Every step keeps the live table within its limit.
LEMMA StepCapacity == IInv /\ [Next]_vars => Capacity'
<1>. SUFFICES ASSUME IInv, [Next]_vars PROVE Capacity'
  OBVIOUS
<1>0. TypeOK /\ TypeOK' /\ Capacity /\ PeerOfUsedHandle
  BY StepType DEF IInv
<1>1. CASE UNCHANGED live
  BY <1>0, <1>1 DEF Capacity, LivePeers
<1>2. CASE LivePeers' \subseteq LivePeers
  BY <1>0, <1>2, FewerLive
<1>8. ASSUME NEW c \in Conns, Leave(c) PROVE LivePeers' \subseteq LivePeers
  BY <1>0, <1>8 DEF Leave, LiveWithout, LivePeers, TypeOK
<1>3. ASSUME NEW c \in Conns, Proceed(c) PROVE Capacity'
  <2>1. CASE Register(c)
    BY <1>0, <2>1, RegisterCapacity
  <2>2. CASE EndSession(c)
    BY <1>2, <2>2, <1>8 DEF EndSession
  <2>3. CASE ~Register(c) /\ ~EndSession(c)
    BY <1>1, <1>3, <2>3 DEF Proceed, HandshakeIn, HandshakeOut, Abandon, ReadOpening,
       Claim, RecordPairing, RecordFail, Refuse, Greet, MergeWrite, MergeFail, HangUp,
       HelpersReturn
  <2>. QED  BY <2>1, <2>2, <2>3
<1>4. ASSUME NEW c \in Conns, Remote(c) PROVE Capacity'
  <2>1. CASE CutOff(c)
    BY <1>2, <2>1, <1>8 DEF CutOff
  <2>2. CASE ~CutOff(c)
    BY <1>1, <1>4, <2>2 DEF Remote, Accept, MergeCheck, Vanish
  <2>. QED  BY <2>1, <2>2
<1>5. CASE Periodic
  BY <1>1, <1>5 DEF Periodic, Dial, ExpireRows, ExpirePairing
<1>6. CASE Operator
  BY <1>1, <1>6 DEF Operator, StartPairing, CancelPairing, Join, SetPeerTrust,
     RemovePeer, Start, Cancel
<1>7. CASE Stopping \/ Crash
  BY <1>2, <1>7 DEF Stopping, Sweep, Stopped, Crash, NoneLive, LivePeers
<1>. QED  BY <1>1, <1>3, <1>4, <1>5, <1>6, <1>7 DEF Next, vars

\* IInv holds in every state a run of the service reaches.
THEOREM Invariant == Spec => []IInv
<1>1. IInv /\ [Next]_vars => IInv'
  BY StepType, StepLinks, StepCapacity DEF IInv, Links
<1>. QED  BY InitIInv, <1>1, PTL DEF Spec

\* Type correctness, for every set of peers and handles.
THEOREM TypeCorrect == Spec => []TypeOK
BY Invariant, PTL DEF IInv

\* The service never holds more than MaxPeers sessions (register, service.go).
THEOREM NeverOverCapacity == Spec => []Capacity
BY Invariant, PTL DEF IInv

\* A peer in the live table is served by a connection that authenticated as
\* that peer with a paired key, whatever a pairing window admitted.
THEOREM LiveSessionsAuthenticated == Spec => []LiveIsAuthenticated
BY Invariant, PTL DEF IInv

\* An open session is the one the live table names for its peer, so that
\* unregister of an older goroutine never strikes it off.
THEOREM OpenSessionsListed == Spec => []SessionIsListed
BY Invariant, PTL DEF IInv

\* Once Stop has returned, no connection it leaves behind is open, whoever
\* registered while it ran and whichever helper it did not wait for.
THEOREM SilentOnceStopped == Spec => []StoppedIsSilent
<1>1. IInv => StoppedIsSilent
  BY DEF IInv, StoppedIsIdle, AllReturned, EndingIsClosed, StoppedIsSilent, At
<1>. QED  BY Invariant, <1>1, PTL

\* No peer has two open sessions, although it may connect while it is dialled:
\* each of them would be the one the live table names.
THEOREM NoSecondSession == Spec => []OneSessionPerPeer
<1>1. IInv => OneSessionPerPeer
  BY DEF IInv, SessionIsListed, OneSessionPerPeer
<1>. QED  BY Invariant, <1>1, PTL

\* No step of a connection, a second pairing included, turns a suspended peer
\* into a trusted one.
THEOREM SuspensionOutlivesPairing == Spec => OnlyOperatorRestores
<1>. DEFINE Restored == \A p \in Peers :
       trust[p] = "suspended" /\ trust'[p] = "trusted" => UNCHANGED <<conn, pairing>>
<1>1. IInv /\ [Next]_vars => [Restored]_vars
  <2>. SUFFICES ASSUME IInv, [Next]_vars, NEW p \in Peers,
                       trust[p] = "suspended", trust'[p] = "trusted"
                PROVE  UNCHANGED <<conn, pairing>>
    OBVIOUS
  <2>0. TypeOK /\ PeerOfUsedHandle
    BY DEF IInv
  <2>1. ASSUME NEW c \in Conns, Proceed(c) PROVE FALSE
    <3>1. CASE RecordPairing(c)
      BY <2>0, <3>1 DEF TypeOK, RecordPairing, TrustAfterAdd
    <3>2. CASE ~RecordPairing(c)
      BY <2>1, <3>2 DEF Proceed, HandshakeIn, HandshakeOut, Abandon, ReadOpening, Claim,
         RecordFail, Register, Refuse, Greet, MergeWrite, MergeFail, EndSession, Leave,
         HangUp, HelpersReturn
    <3>. QED  BY <3>1, <3>2
  <2>2. ASSUME NEW c \in Conns, Remote(c) PROVE FALSE
    BY <2>2 DEF Remote, Accept, MergeCheck, Vanish, CutOff, Leave
  <2>3. CASE Periodic
    BY <2>3 DEF Periodic, Dial, ExpireRows, ExpirePairing
  <2>4. CASE Operator
    BY <2>4 DEF Operator, StartPairing, CancelPairing, Join, SetPeerTrust,
       RemovePeer, Start, Cancel
  <2>5. CASE Stopping \/ Crash
    BY <2>5 DEF Stopping, Sweep, Stopped, Crash
  <2>. QED  BY <2>1, <2>2, <2>3, <2>4, <2>5 DEF Next, vars
<1>. QED  BY Invariant, <1>1, PTL DEF Spec, OnlyOperatorRestores, Restored
=============================================================================
