--------------------------- MODULE PairingExchange ---------------------------
(***************************************************************************)
(* Two LAN Sheriff instances pairing: JoinWithCode on the joining side,    *)
(* serveInbound, completePairing and AcceptPairing on the displaying side  *)
(* (internal/dispatch, service.go and pairing.go), AddPeer of either store.*)
(*                                                                         *)
(* Both sides of an exchange run by themselves.  The connection may break  *)
(* between any two steps, either store may fail, either machine may crash, *)
(* and several machines may try the same code.                             *)
(*                                                                         *)
(* A proof is an HMAC over the secret of the code, the TLS session and the *)
(* prover's key.  Here it is the code that was typed: it verifies when it  *)
(* is the code of the session it is checked against.                       *)
(***************************************************************************)
EXTENDS Naturals, FiniteSets

CONSTANTS
  Machines,
  Displays,   \* the machines whose operator may ask for a code
  Exchanges,  \* handles of connections made to pair, reused once both sides end
  MaxCodes,   \* codes displayed per machine: a bound of the model
  Nobody      \* the machines of an unused handle

ASSUME ExchangeAssumption ==
  Displays \subseteq Machines /\ MaxCodes \in Nat /\ Nobody \notin Machines

\* The n-th code a machine displays.  Its key tag names the machine.
Codes == Displays \X (1 .. MaxCodes)
By(c) == c[1]

VARIABLES
  minted,    \* the codes each machine has displayed so far
  window,    \* s.pairing: the number of the code on display, 0 for none
  exch,      \* the exchange on each handle, both sides of it
  pairs,     \* the peers tables: <<a, b>>, a has pinned b
  accepted   \* history: the proofs that verified

vars == <<minted, window, exch, pairs, accepted>>

\* Where the joining side is: JoinWithCode.
JoinSteps == {"none", "dialling", "asked", "pinning"}

\* Where the displaying side is: serveInbound and completePairing.
ShowSteps == {"none", "handshake", "reading", "claiming", "responding", "pinning"}

NoCode == <<Nobody, 0>>

Unused == [from |-> Nobody, to |-> Nobody, code |-> NoCode, known |-> FALSE,
           join |-> "none", show |-> "none", wire |-> "broken"]

\* The types.
TypeOK ==
  /\ minted \in [Machines -> 0 .. MaxCodes]
  /\ window \in [Machines -> 0 .. MaxCodes]
  /\ exch \in [Exchanges ->
       [from : Machines \cup {Nobody}, to : Machines \cup {Nobody},
        code : Codes \cup {NoCode}, known : BOOLEAN,
        join : JoinSteps, show : ShowSteps,
        wire : {"broken", "open", "request", "response", "hello"}]]
  /\ pairs \subseteq Machines \X Machines
  /\ accepted \subseteq Machines \X Codes

Init ==
  /\ minted = [m \in Machines |-> 0]
  /\ window = [m \in Machines |-> 0]
  /\ exch = [x \in Exchanges |-> Unused]
  /\ pairs = {}
  /\ accepted = {}

-----------------------------------------------------------------------------
Joiner(x) == exch[x].from
Shower(x) == exch[x].to

Free(x) == exch[x].join = "none" /\ exch[x].show = "none"

\* The handle is free again when both sides have returned.
Settled(e) == IF e.join = "none" /\ e.show = "none" THEN Unused ELSE e

\* A side of x goes on to a step, and leaves the wire so.
JoinSide(x, step, wire) ==
  exch' = [exch EXCEPT ![x] = Settled([@ EXCEPT !.join = step, !.wire = wire])]

ShowSide(x, step, wire) ==
  exch' = [exch EXCEPT ![x] = Settled([@ EXCEPT !.show = step, !.wire = wire])]

Showing(m) == window[m] # 0

\* StartPairing, unless a code is showing already.
Show(m) ==
  /\ ~Showing(m)
  /\ minted[m] < MaxCodes
  /\ minted' = [minted EXCEPT ![m] = @ + 1]
  /\ window' = [window EXCEPT ![m] = minted[m] + 1]
  /\ UNCHANGED <<exch, pairs, accepted>>

\* CancelPairing, or PairingWindow has passed.
Hide(m) ==
  /\ Showing(m)
  /\ window' = [window EXCEPT ![m] = 0]
  /\ UNCHANGED <<minted, exch, pairs, accepted>>

-----------------------------------------------------------------------------
\* The joining side

\* The operator types a code that some machine has displayed, and an address:
\* it need not be the address of that machine, nor the code still be good.  The
\* machine at that address accepts, and reads its pairings.
Join(x, j, d, c) ==
  /\ Free(x)
  /\ j # d
  /\ c[2] <= minted[By(c)]
  /\ exch' = [exch EXCEPT ![x] =
       [from |-> j, to |-> d, code |-> c, known |-> <<d, j>> \in pairs,
        join |-> "dialling", show |-> "handshake", wire |-> "open"]]
  /\ UNCHANGED <<minted, window, pairs, accepted>>

\* The two verifiers of the handshake: the joiner's compares the key tag, the
\* displayer's admits any key while a code is showing, paired keys otherwise.
TagMatches(x) == By(exch[x].code) = Shower(x)
Admitted(x) == Showing(Shower(x)) \/ exch[x].known

\* The handshake completes, and the joiner sends its proof.
Ask(x) ==
  /\ exch[x].join = "dialling" /\ exch[x].show = "handshake"
  /\ exch[x].wire = "open"
  /\ TagMatches(x) /\ Admitted(x)
  /\ exch' = [exch EXCEPT ![x].join = "asked", ![x].show = "reading",
                          ![x].wire = "request"]
  /\ UNCHANGED <<minted, window, pairs, accepted>>

\* The answer arrives: a counter-proof, checked against the code that was typed.
Confirm(x) ==
  /\ exch[x].join = "asked"
  /\ exch[x].wire = "response"
  /\ JoinSide(x, "pinning", "open")
  /\ UNCHANGED <<minted, window, pairs, accepted>>

\* Something else arrives, or nothing: JoinWithCode returns an error.
JoinFails(x) ==
  /\ \/ exch[x].join \in {"dialling", "asked"}
        /\ exch[x].wire \in {"broken", "hello"}
     \/ exch[x].join = "dialling" /\ ~(TagMatches(x) /\ Admitted(x))
     \/ exch[x].join = "pinning"
  /\ JoinSide(x, "none", "broken")
  /\ UNCHANGED <<minted, window, pairs, accepted>>

PinShower(x) ==
  /\ exch[x].join = "pinning"
  /\ pairs' = pairs \cup {<<Joiner(x), Shower(x)>>}
  /\ JoinSide(x, "none", "broken")
  /\ UNCHANGED <<minted, window, accepted>>

-----------------------------------------------------------------------------
\* The displaying side

\* serveInbound reads the request.  With a code showing, or from a machine that
\* was not paired, it is a pairing; the session of a paired machine says hello.
Route(x) ==
  /\ exch[x].show = "reading"
  /\ exch[x].wire = "request"
  /\ IF Showing(Shower(x)) \/ ~exch[x].known
     THEN ShowSide(x, "claiming", "request")
     ELSE ShowSide(x, "none", "hello")
  /\ UNCHANGED <<minted, window, pairs, accepted>>

\* The window after an attempt: takePairing and claim consume the session
\* before the proof is looked at.
AfterAttempt_Kept(m) == window
AfterAttempt(m) == [window EXCEPT ![m] = 0]

ProofVerifies_Any(x) == Showing(Shower(x))
ProofVerifies(x) == Showing(Shower(x)) /\ exch[x].code = <<Shower(x), window[Shower(x)]>>

\* completePairing closes the connection whatever comes of the attempt.
WireAfterRefusal_Open(x) == exch[x].wire
WireAfterRefusal_Answered(x) == IF exch[x].wire = "request" THEN "response" ELSE "broken"
WireAfterRefusal(x) == "broken"

Claim(x) ==
  /\ exch[x].show = "claiming"
  /\ window' = AfterAttempt(Shower(x))
  /\ IF ProofVerifies(x)
     THEN /\ ShowSide(x, "responding", exch[x].wire)
          /\ accepted' = accepted \cup {<<Joiner(x), exch[x].code>>}
     ELSE /\ ShowSide(x, "none", WireAfterRefusal(x))
          /\ UNCHANGED accepted
  /\ UNCHANGED <<minted, pairs>>

\* The counter-proof goes out before anything is written down.
Respond(x) ==
  /\ exch[x].show = "responding"
  /\ ShowSide(x, "pinning", IF exch[x].wire = "request" THEN "response" ELSE "broken")
  /\ UNCHANGED <<minted, window, pairs, accepted>>

PinJoiner(x) ==
  /\ exch[x].show = "pinning"
  /\ pairs' = pairs \cup {<<Shower(x), Joiner(x)>>}
  /\ ShowSide(x, "none", exch[x].wire)
  /\ UNCHANGED <<minted, window, accepted>>

\* A handshake refused, a message that does not come or go, a store that fails.
ShowFails(x) ==
  /\ exch[x].show \in {"handshake", "reading", "responding", "pinning"}
  /\ exch[x].show \in {"handshake", "reading"} =>
       exch[x].wire = "broken" \/ exch[x].join = "none"
  /\ ShowSide(x, "none",
          IF exch[x].show = "pinning" THEN exch[x].wire ELSE "broken")
  /\ UNCHANGED <<minted, window, pairs, accepted>>

-----------------------------------------------------------------------------
\* The connection of an exchange breaks; what it carried is lost.
Break(x) ==
  /\ ~Free(x)
  /\ exch' = [exch EXCEPT ![x].wire = "broken"]
  /\ UNCHANGED <<minted, window, pairs, accepted>>

\* RemovePeer: local to the machine that does it.
RemovePeer(a, b) ==
  /\ <<a, b>> \in pairs
  /\ pairs' = pairs \ {<<a, b>>}
  /\ UNCHANGED <<minted, window, exch, accepted>>

\* A machine's process dies, with its window and its sides of exchanges.
Crash(m) ==
  /\ window' = [window EXCEPT ![m] = 0]
  /\ exch' = [x \in Exchanges |->
       IF m \notin {Joiner(x), Shower(x)} THEN exch[x]
       ELSE Settled([exch[x] EXCEPT !.join = IF Joiner(x) = m THEN "none" ELSE @,
                                    !.show = IF Shower(x) = m THEN "none" ELSE @,
                                    !.wire = "broken"])]
  /\ UNCHANGED <<minted, pairs, accepted>>

Progress(x) ==
  \/ Ask(x)
  \/ Confirm(x)
  \/ JoinFails(x)
  \/ PinShower(x)
  \/ Route(x)
  \/ Claim(x)
  \/ Respond(x)
  \/ PinJoiner(x)
  \/ ShowFails(x)

Operators ==
  \/ \E m \in Displays : Show(m) \/ Hide(m)
  \/ \E x \in Exchanges, j, d \in Machines, c \in Codes : Join(x, j, d, c)

Next ==
  \/ Operators
  \/ \E x \in Exchanges : Progress(x) \/ Break(x)
  \/ \E a, b \in Machines : RemovePeer(a, b)
  \/ \E m \in Machines : Crash(m)

Spec == Init /\ [][Next]_vars

\* Nobody unpairs and nothing crashes: what is left is the exchange itself.
ExchangeOnly == Operators \/ \E x \in Exchanges : Progress(x) \/ Break(x)
ExchangeSpec == Init /\ [][ExchangeOnly]_vars

\* Both sides go on, as long as the other does not keep them waiting.
FairSpec == Spec /\ \A x \in Exchanges : WF_vars(Progress(x))

-----------------------------------------------------------------------------
\* Properties

\* What pairing promises: see PairingConsent.
Consent == INSTANCE PairingConsent WITH
  Displayer <- [c \in Codes |-> By(c)],
  offers <- {c \in Codes : window[By(c)] = c[2]},
  entered <- {<<exch[x].from, exch[x].code>> : x \in {y \in Exchanges : ~Free(y)}}

\* The exchange keeps the promise: nothing is pinned by a handshake, a wrong
\* code, an expired or a used one, and every pin follows an acceptance.
KeepsPromise == Consent!AbstractSpec

\* A handle in use has two machines and the code that was typed, one nobody uses
\* has none.  And nobody gets near a pin unearned: whoever answers a proof, has
\* an answer on its way, or is about to write the other machine down does so
\* after that code was accepted from that joiner, by the machine that showed it,
\* through breaks, crashes and windows replaced in between.
HandleOK(e, acc) ==
  /\ \/ e = Unused
     \/ /\ e.from \in Machines /\ e.to \in Machines /\ e.code \in Codes
        /\ ~(e.join = "none" /\ e.show = "none")
  /\ e.join = "asked" => By(e.code) = e.to
  /\ \/ e.show \in {"responding", "pinning"}
     \/ e.join = "pinning"
     \/ e.wire = "response"
     => <<e.from, e.code>> \in acc /\ By(e.code) = e.to

HandlesOK == \A x \in Exchanges : HandleOK(exch[x], accepted)

\* A code is single-use: it pairs one machine, however many enter it at once.
CodePairsOne ==
  \A a, b \in accepted : a[2] = b[2] => a = b

\* Whoever typed the code gets an answer, whatever became of the other side:
\* every refusal closes the connection, nobody waits for the idle timeout.
JoinAnswered ==
  \A x \in Exchanges : exch[x].join # "none" ~> exch[x].join = "none"
=============================================================================
