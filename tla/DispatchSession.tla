-------------------------- MODULE DispatchSession --------------------------
(***************************************************************************)
(* The session service of one LAN Sheriff instance: internal/dispatch,     *)
(* service.go, over the peer tables of internal/store/peers.go.            *)
(*                                                                         *)
(* One goroutine serves each connection, accepted or dialled.  The         *)
(* goroutines, the pairing window, the operator's calls (pair, unpair,     *)
(* suspend, start, stop) and the other machines interleave freely; a step  *)
(* of this module is what the code does under one lock, in one SQL         *)
(* statement or transaction, or between two points where it blocks.        *)
(*                                                                         *)
(* The other machines are open: a peer may say anything the protocol has   *)
(* a message for, and its end of a connection may vanish at any moment.    *)
(*                                                                         *)
(* A definition named Op_Slip, just before Op, is Op with a plausible slip *)
(* in it.  Nothing here uses it: the seeded faults of the README put it in *)
(* the place of Op to see that a property notices.                         *)
(***************************************************************************)
EXTENDS Naturals, FiniteSets

CONSTANTS
  Peers,      \* the other machines; a peer ID is a function of the key
  Conns,      \* handles of connections, reused once the goroutine returns
  DialTo,     \* the peers with a peer ID above ours: shouldDial
  MaxPeers,   \* sessions held at once
  NoPeer,     \* the peer of an unused handle
  NoConn      \* no entry in the live table

ASSUME SessionAssumption ==
  /\ IsFiniteSet(Peers)
  /\ DialTo \subseteq Peers
  /\ NoPeer \notin Peers
  /\ NoConn \notin Conns
  /\ MaxPeers \in Nat

VARIABLES
  svc,        \* the lifecycle of the Service value
  pairing,    \* the pairing window: s.pairing
  live,       \* s.live, from peer to the connection that speaks for it
  conn,       \* the goroutine that serves each handle
  trust,      \* the peers table: absent, trusted or suspended
  rows        \* the peers that own rows of peer_summaries

vars == <<svc, pairing, live, conn, trust, rows>>

\* After "serving" come "leaving", the session struck off and its transport not
\* yet closed, and "ending", its goroutine gone and its helpers not yet; a
\* session whose hello could not be sent has no helpers and is "failing".
Phases == {"free", "accepted", "opening", "claiming", "recording", "dialling", "ready",
           "greeting", "serving", "merging", "failing", "leaving", "ending"}

\* Service.Stop passes through "cancelled" (context cancelled, listener
\* closed) and "swept" (live connections closed, waiting for goroutines).
Lifecycle == {"stopped", "up", "cancelled", "swept"}

\* What a connection opens with: a pair request whose proof verifies, one
\* whose proof does not, a hello, or nothing read yet.
Openings == {"none", "hello", "goodproof", "badproof"}

PairRequests == {"goodproof", "badproof"}

Idle == [phase |-> "free", peer |-> NoPeer, known |-> FALSE,
         first |-> "none", closed |-> FALSE]

\* The types.
TypeOK ==
  /\ svc \in Lifecycle
  /\ pairing \in {"none", "open", "expired"}
  /\ live \in [Peers -> Conns \cup {NoConn}]
  /\ conn \in [Conns -> [phase : Phases, peer : Peers \cup {NoPeer},
                         known : BOOLEAN, first : Openings, closed : BOOLEAN]]
  /\ trust \in [Peers -> {"absent", "trusted", "suspended"}]
  /\ rows \subseteq Peers

Init ==
  /\ svc = "stopped"
  /\ pairing = "none"
  /\ live = [p \in Peers |-> NoConn]
  /\ conn = [c \in Conns |-> Idle]
  /\ trust \in [Peers -> {"absent", "trusted"}]
  /\ rows = {}

-----------------------------------------------------------------------------
\* Connections and the live table

At(c, phases) == conn[c].phase \in phases

Move(c, phase) == conn' = [conn EXCEPT ![c].phase = phase]

\* The goroutine of handle c has an open connection with p, and holds m back.
Serves(c, phase, p, pinned, m) ==
  conn' = [conn EXCEPT ![c] = [phase |-> phase, peer |-> p, known |-> pinned,
                               first |-> m, closed |-> FALSE]]

Release(c) == conn' = [conn EXCEPT ![c] = Idle]

\* The phases between register and unregister.
Registered(c) == At(c, {"greeting", "serving", "merging"})

Pinned == {p \in Peers : trust[p] # "absent"}

LivePeers == {p \in Peers : live[p] # NoConn}

HasPairingSession == pairing = "open"

\* The listener is open and the service's context not cancelled.
Running_UntilStopped == svc # "stopped"
Running == svc = "up"

\* Accept a TCP connection and read the pairings its verifier will pin.
Accept(c, p) ==
  /\ Running
  /\ At(c, {"free"})
  /\ Serves(c, "accepted", p, p \in Pinned, "none")
  /\ UNCHANGED <<svc, pairing, live, trust, rows>>

\* pairingVerifier: any key while a code is showing, paired keys otherwise.
Admits(c) == HasPairingSession \/ conn[c].known

HandshakeIn(c) ==
  /\ Running
  /\ At(c, {"accepted"})
  /\ Admits(c)
  /\ Move(c, "opening")
  /\ UNCHANGED <<svc, pairing, live, trust, rows>>

\* A pair request is honoured while a code is showing; an unknown key is only
\* ever taken for pairing; everything else is a session.
PhaseAfterOpening_KeyIgnored(c, m) ==
  IF m \in PairRequests /\ HasPairingSession THEN "claiming" ELSE "ready"

PhaseAfterOpening(c, m) ==
  IF (m \in PairRequests /\ HasPairingSession) \/ ~conn[c].known
  THEN "claiming" ELSE "ready"

\* The first message decides who takes the connection.  It is put back: the
\* pairing exchange reads it again, and so does the session, to which it is a
\* message like any other.
ReadOpening(c, m) ==
  /\ At(c, {"opening"})
  /\ Serves(c, PhaseAfterOpening(c, m), conn[c].peer, conn[c].known,
            IF PhaseAfterOpening(c, m) = "claiming" THEN m ELSE "none")
  /\ UNCHANGED <<svc, pairing, live, trust, rows>>

\* A handshake that is refused, times out or is cancelled; an opening message
\* that never comes; a dial that reaches nobody.
Abandon(c) ==
  /\ At(c, {"accepted", "opening", "dialling"})
  /\ Release(c)
  /\ UNCHANGED <<svc, pairing, live, trust, rows>>

\* register: one entry per peer, MaxPeers in all.
MayRegister_AnyNumber(c) == live[conn[c].peer] = NoConn
MayRegister_Again(c) == Cardinality(LivePeers \ {conn[c].peer}) < MaxPeers
MayRegister(c) ==
  /\ Cardinality(LivePeers) < MaxPeers
  /\ live[conn[c].peer] = NoConn

Register(c) ==
  /\ At(c, {"ready"})
  /\ MayRegister(c)
  /\ live' = [live EXCEPT ![conn[c].peer] = c]
  /\ Move(c, "greeting")
  /\ UNCHANGED <<svc, pairing, trust, rows>>

\* "already connected": say goodbye and return without an entry.
Refuse(c) ==
  /\ At(c, {"ready"})
  /\ ~MayRegister(c)
  /\ Release(c)
  /\ UNCHANGED <<svc, pairing, live, trust, rows>>

\* Our hello goes out, and the session serves what comes in.
Greet(c) ==
  /\ At(c, {"greeting"})
  /\ ~conn[c].closed
  /\ Move(c, "serving")
  /\ UNCHANGED <<svc, pairing, live, trust, rows>>

\* The transport ends: the peer closes it, or says goodbye or something that
\* handle refuses, which we answer by closing it.
Vanish(c) ==
  /\ At(c, {"ready", "greeting", "serving", "merging"})
  /\ ~conn[c].closed
  /\ conn' = [conn EXCEPT ![c].closed = TRUE]
  /\ UNCHANGED <<svc, pairing, live, trust, rows>>

\* unregister: drop the entry only while it is this connection's.
LiveWithout_Kept(c) == live
LiveWithout_Unconditional(c) == [live EXCEPT ![conn[c].peer] = NoConn]
LiveWithout(c) ==
  IF live[conn[c].peer] = c THEN [live EXCEPT ![conn[c].peer] = NoConn] ELSE live

\* run returns: unregister strikes the session off under the lock.
Leave(c) ==
  /\ At(c, {"greeting", "serving"})
  /\ live' = LiveWithout(c)
  /\ Move(c, IF At(c, {"greeting"}) THEN "failing" ELSE "leaving")
  /\ UNCHANGED <<svc, pairing, trust, rows>>

EndSession(c) == conn[c].closed /\ Leave(c)

\* We end a session whose transport still stands: its hello could not be sent
\* in time, or the peer was silent, too loud or not understood.
CutOff(c) == ~conn[c].closed /\ Leave(c)

\* unregister, after the lock: the transport is closed.  The helpers of run,
\* keepAlive and sendSummaries, have been told to stop and nobody waits for them.
HangUp_Open(c) ==
  /\ At(c, {"failing", "leaving"})
  /\ IF At(c, {"failing"}) THEN Release(c) ELSE Move(c, "ending")
  /\ UNCHANGED <<svc, pairing, live, trust, rows>>

HangUp(c) ==
  /\ At(c, {"failing", "leaving"})
  /\ IF At(c, {"failing"}) THEN Release(c)
     ELSE conn' = [conn EXCEPT ![c].phase = "ending", ![c].closed = TRUE]
  /\ UNCHANGED <<svc, pairing, live, trust, rows>>

\* The helpers come out of their ticker, their query or their send.
HelpersReturn(c) ==
  /\ At(c, {"ending"})
  /\ Release(c)
  /\ UNCHANGED <<svc, pairing, live, trust, rows>>

-----------------------------------------------------------------------------
\* What a session does

\* MergePeerSummaries reads the peer's trust, then opens its transaction.  An
\* unknown or suspended peer's summary is dropped and the connection kept.
MergeCheck(c) ==
  /\ At(c, {"serving"})
  /\ ~conn[c].closed
  /\ trust[conn[c].peer] = "trusted"
  /\ Move(c, "merging")
  /\ UNCHANGED <<svc, pairing, live, trust, rows>>

MergeWrite(c) ==
  /\ Running
  /\ At(c, {"merging"})
  /\ rows' = rows \cup {conn[c].peer}
  /\ Move(c, "serving")
  /\ UNCHANGED <<svc, pairing, live, trust>>

\* The disk is full, the database busy, or the context cancelled: the session
\* goes on without the rows.
MergeFail(c) ==
  /\ At(c, {"merging"})
  /\ Move(c, "serving")
  /\ UNCHANGED <<svc, pairing, live, trust, rows>>

\* expireLoop: a peer's rows that were not refreshed for PeerDataTTL.
ExpireRows(p) ==
  /\ Running
  /\ rows' = rows \ {p}
  /\ UNCHANGED <<svc, pairing, live, conn, trust>>

-----------------------------------------------------------------------------
\* Dialling

\* One tick of dialLoop for one peer.  The address and the backoff decide when
\* this happens, never whether the peer qualifies.
Dial(c, p) ==
  /\ Running
  /\ At(c, {"free"})
  /\ p \in DialTo
  /\ trust[p] = "trusted"
  /\ live[p] = NoConn
  /\ Serves(c, "dialling", p, TRUE, "none")
  /\ UNCHANGED <<svc, pairing, live, trust, rows>>

HandshakeOut(c) ==
  /\ Running
  /\ At(c, {"dialling"})
  /\ Move(c, "ready")
  /\ UNCHANGED <<svc, pairing, live, trust, rows>>

-----------------------------------------------------------------------------
\* Pairing, on the displaying side

StartPairing ==
  /\ svc # "stopped"
  /\ ~HasPairingSession
  /\ pairing' = "open"
  /\ UNCHANGED <<svc, live, conn, trust, rows>>

CancelPairing ==
  /\ svc # "stopped"
  /\ pairing' = "none"
  /\ UNCHANGED <<svc, live, conn, trust, rows>>

\* PairingWindow passes with the session still in s.pairing.
ExpirePairing ==
  /\ HasPairingSession
  /\ pairing' = "expired"
  /\ UNCHANGED <<svc, live, conn, trust, rows>>

\* takePairing and claim: whoever comes first consumes the session, and only
\* then is its message read.
Claim(c) ==
  /\ At(c, {"claiming"})
  /\ pairing' = "none"
  /\ IF HasPairingSession /\ conn[c].first = "goodproof"
     THEN Move(c, "recording")
     ELSE Release(c)
  /\ UNCHANGED <<svc, live, trust, rows>>

\* AddPeer: a new row is trusted, an existing one keeps its trust.
TrustAfterAdd_Overwrites(p) == [trust EXCEPT ![p] = "trusted"]
TrustAfterAdd(p) == [trust EXCEPT ![p] = IF @ = "absent" THEN "trusted" ELSE @]

RecordPairing(c) ==
  /\ Running
  /\ At(c, {"recording"})
  /\ trust' = TrustAfterAdd(conn[c].peer)
  /\ Release(c)
  /\ UNCHANGED <<svc, pairing, live, rows>>

\* The response could not be sent, or the ledger or the peer not written.
RecordFail(c) ==
  /\ At(c, {"recording"})
  /\ Release(c)
  /\ UNCHANGED <<svc, pairing, live, trust, rows>>

-----------------------------------------------------------------------------
\* The operator

\* JoinWithCode ran the other half of an exchange on a connection of its own.
Join(p) ==
  /\ svc # "stopped"
  /\ trust' = TrustAfterAdd(p)
  /\ UNCHANGED <<svc, pairing, live, conn, rows>>

SetPeerTrust(p, t) ==
  /\ svc # "stopped"
  /\ trust[p] # "absent"
  /\ trust' = [trust EXCEPT ![p] = t]
  /\ UNCHANGED <<svc, pairing, live, conn, rows>>

\* RemovePeer: the peer and its rows, in one transaction.
RemovePeer(p) ==
  /\ svc # "stopped"
  /\ trust' = [trust EXCEPT ![p] = "absent"]
  /\ rows' = rows \ {p}
  /\ UNCHANGED <<svc, pairing, live, conn>>

-----------------------------------------------------------------------------
\* Lifecycle

\* nil where an empty map is meant: the next register would panic.
NoneLive_Nil == [p \in {} |-> NoConn]
NoneLive == [p \in Peers |-> NoConn]

Start ==
  /\ svc = "stopped"
  /\ svc' = "up"
  /\ UNCHANGED <<pairing, live, conn, trust, rows>>

\* Stop, first half: cancel the context and close the listener.
Cancel ==
  /\ svc = "up"
  /\ svc' = "cancelled"
  /\ UNCHANGED <<pairing, live, conn, trust, rows>>

\* Stop, under the lock: close every live connection, forget them all.
Sweep ==
  /\ svc = "cancelled"
  /\ svc' = "swept"
  /\ conn' = [c \in Conns |->
       IF \E p \in Peers : live[p] = c THEN [conn[c] EXCEPT !.closed = TRUE]
       ELSE conn[c]]
  /\ live' = NoneLive
  /\ UNCHANGED <<pairing, trust, rows>>

\* s.wg.Wait: every goroutine serving a connection has returned.  The helpers of
\* a session are not in the wait group.
AllReturned == \A c \in Conns : At(c, {"free", "ending"})

\* Stop returns, and the Service value is dropped with its pairing window.
Stopped ==
  /\ svc = "swept"
  /\ AllReturned
  /\ svc' = "stopped"
  /\ pairing' = "none"
  /\ live' = NoneLive
  /\ UNCHANGED <<conn, trust, rows>>

\* The process dies: only the database survives.
Crash ==
  /\ svc # "stopped"
  /\ svc' = "stopped"
  /\ pairing' = "none"
  /\ live' = NoneLive
  /\ conn' = [c \in Conns |-> Idle]
  /\ UNCHANGED <<trust, rows>>

-----------------------------------------------------------------------------

\* What the goroutine of a connection does by itself.
Proceed(c) ==
  \/ HandshakeIn(c)
  \/ HandshakeOut(c)
  \/ Abandon(c)
  \/ \E m \in Openings \ {"none"} : ReadOpening(c, m)
  \/ Claim(c)
  \/ RecordPairing(c)
  \/ RecordFail(c)
  \/ Register(c)
  \/ Refuse(c)
  \/ Greet(c)
  \/ MergeWrite(c)
  \/ MergeFail(c)
  \/ EndSession(c)
  \/ HangUp(c)
  \/ HelpersReturn(c)

Remote(c) ==
  \/ \E p \in Peers : Accept(c, p)
  \/ MergeCheck(c)
  \/ Vanish(c)
  \/ CutOff(c)

Periodic ==
  \/ \E c \in Conns, p \in Peers : Dial(c, p)
  \/ \E p \in Peers : ExpireRows(p)
  \/ ExpirePairing

Operator ==
  \/ StartPairing
  \/ CancelPairing
  \/ \E p \in Peers :
       \/ Join(p)
       \/ \E t \in {"trusted", "suspended"} : SetPeerTrust(p, t)
       \/ RemovePeer(p)
  \/ Start
  \/ Cancel

Stopping == Sweep \/ Stopped

Next ==
  \/ \E c \in Conns : Proceed(c) \/ Remote(c)
  \/ Periodic
  \/ Operator
  \/ Stopping
  \/ Crash

Spec == Init /\ [][Next]_vars

\* Every goroutine goes on: handshakes, first messages and sends have a
\* deadline, locks are held briefly.  Stop runs to its end once called.
LocalFairness ==
  /\ \A c \in Conns : WF_vars(Proceed(c))
  /\ WF_vars(Stopping)

\* A peer's end of a session comes to an end sooner or later.
PeersLeave == \A c \in Conns : WF_vars(Vanish(c))

\* A dial finds a free goroutine, and the peer is there to answer it, again
\* and again.
PeersReachable ==
  \A p \in DialTo :
    /\ SF_vars(\E c \in Conns : Dial(c, p))
    /\ SF_vars(\E c \in Conns : conn[c].peer = p /\ HandshakeOut(c))

FairSpec == Spec /\ LocalFairness

-----------------------------------------------------------------------------
\* Properties

\* Sessions never exceed MaxPeers, however many goroutines register at once:
\* the check and the insert of register are under one lock.
Capacity == Cardinality(LivePeers) <= MaxPeers

\* At most one open session per peer, although a peer may connect while we
\* dial it, several dials to it may be under way, and Stop empties the live
\* table under the goroutines.
OneSessionPerPeer ==
  \A c, d \in Conns :
    /\ Registered(c) /\ ~conn[c].closed
    /\ Registered(d) /\ ~conn[d].closed
    /\ conn[c].peer = conn[d].peer
    => c = d

\* An open session is the one the live table names for its peer: the end of an
\* older goroutine never strikes a newer session off (unregister compares).
SessionIsListed ==
  \A c \in Conns :
    Registered(c) /\ ~conn[c].closed => live[conn[c].peer] = c

\* A peer in the live table is served by a connection that authenticated as
\* that peer with a key that was paired when it connected, whatever the
\* pairing window admitted in the meantime.
LiveIsAuthenticated ==
  \A p \in LivePeers :
    /\ Registered(live[p])
    /\ conn[live[p]].peer = p
    /\ conn[live[p]].known

\* Once Stop has returned, no connection the service served is open, those that
\* registered after it emptied the live table included.  A helper that Stop does
\* not wait for may still run, but what it sends reaches nobody.
StoppedIsSilent ==
  svc = "stopped" => \A c \in Conns : At(c, {"free"}) \/ conn[c].closed

\* Pairing again does not lift a suspension: only the operator's own calls turn
\* a suspended peer into a trusted one, no step of a connection does.
OnlyOperatorRestores ==
  [][\A p \in Peers :
       trust[p] = "suspended" /\ trust'[p] = "trusted"
         => UNCHANGED <<conn, pairing>>]_vars

\* Stop returns.  service.go says of it that it "must be sufficient on its own".
StopReturns == svc = "cancelled" ~> svc = "stopped"

\* Stop returns if the peers' ends of the sessions come to an end: nothing but a
\* peer can keep it waiting.
StopReturnsIfPeersLeave == PeersLeave => StopReturns

\* A trusted peer we dial, reachable again and again while the service is up,
\* gets a session again and again, whatever sessions died before: no entry a
\* dead session leaves behind keeps the dial loop from trying.
ReconnectsIfReachable ==
  PeersReachable =>
    \A p \in DialTo :
      <>[](svc = "up" /\ trust[p] = "trusted")
        => []<>(\E c \in Conns : Registered(c) /\ conn[c].peer = p)

\* A code showing is consumed by an attempt to pair with it, or withdrawn by
\* its own instance; a peer that only says hello leaves it valid.
CodeConsumedByAttempt ==
  [][pairing = "open" /\ pairing' = "none" /\ conn' # conn /\ svc' # "stopped"
       => \E c \in Conns : /\ conn'[c] # conn[c]
                           /\ conn[c].first \in PairRequests]_vars

\* Unpairing deletes everything the peer reported: an unpaired peer has no rows.
UnpairedHasNoRows == \A p \in rows : p \in Pinned
=============================================================================
