----------------------- MODULE PairingExchange_proofs -----------------------
(***************************************************************************)
(* The exchange implements PairingConsent, for any number of machines,     *)
(* codes and exchanges at once, whatever breaks, fails or crashes.         *)
(*                                                                         *)
(* The argument: a proof that verifies names the code on display, which    *)
(* the attempt takes down and no later window shows again; and each side   *)
(* pins only in steps that such a verification led to.                     *)
(***************************************************************************)
EXTENDS PairingExchange, TLAPS

\* A window shows the last code minted, and an accepted code has been minted and
\* is not on display.
Spent ==
  /\ \A m \in Machines : window[m] <= minted[m]
  /\ \A a \in accepted :
       a[2][2] <= minted[By(a[2])] /\ window[By(a[2])] # a[2][2]

\* The inductive invariant.
IInv ==
  /\ TypeOK
  /\ HandlesOK
  /\ Spent

\* The invariant holds before anything is displayed.
LEMMA InitIInv == Init => IInv
<1>. SUFFICES ASSUME Init PROVE IInv
  OBVIOUS
<1>1. TypeOK
  BY ExchangeAssumption DEF Init, TypeOK, Unused, JoinSteps, ShowSteps, NoCode
<1>2. HandlesOK
  BY DEF Init, HandlesOK, HandleOK, Unused
<1>3. Spent
  BY DEF Init, Spent
<1>. QED  BY <1>1, <1>2, <1>3 DEF IInv

-----------------------------------------------------------------------------
\* What a step on one handle keeps

\* The record that TypeOK gives every handle.
Handle ==
  [from : Machines \cup {Nobody}, to : Machines \cup {Nobody},
   code : Codes \cup {NoCode}, known : BOOLEAN,
   join : JoinSteps, show : ShowSteps,
   wire : {"broken", "open", "request", "response", "hello"}]

\* A step on the handle x alone that leaves codes and windows alone keeps the
\* invariant, if the handle's new state has the right type and is as it should.
LEMMA OneHandleStep ==
  ASSUME IInv, NEW x \in Exchanges, NEW e,
         exch' = [exch EXCEPT ![x] = e], e \in Handle, HandleOK(e, accepted),
         UNCHANGED <<minted, window, accepted>>,
         pairs' \subseteq Machines \X Machines
  PROVE  IInv'
<1>1. TypeOK'
  BY DEF IInv, TypeOK, Handle
<1>2. HandlesOK'
  BY DEF IInv, TypeOK, HandlesOK
<1>3. Spent'
  BY DEF IInv, Spent
<1>. QED  BY <1>1, <1>2, <1>3 DEF IInv

\* An unused handle is of the type of a handle.
LEMMA UnusedHandle == Unused \in Handle
BY DEF Unused, Handle, JoinSteps, ShowSteps

\* A side that goes on keeps machines and code, and leaves a handle as it should
\* be unless it is about to pin.
LEMMA SideStep ==
  ASSUME IInv, NEW x \in Exchanges, ~Free(x),
         NEW j \in JoinSteps, NEW s \in ShowSteps,
         NEW w \in {"broken", "open", "request", "response", "hello"},
         j = "asked" => By(exch[x].code) = Shower(x),
         s \in {"responding", "pinning"} \/ j = "pinning" \/ w = "response"
           => <<Joiner(x), exch[x].code>> \in accepted /\ By(exch[x].code) = Shower(x),
         exch' = [exch EXCEPT ![x] =
                    Settled([@ EXCEPT !.join = j, !.show = s, !.wire = w])],
         UNCHANGED <<minted, window, accepted>>,
         pairs' \subseteq Machines \X Machines
  PROVE  IInv'
<1>. DEFINE e == [exch[x] EXCEPT !.join = j, !.show = s, !.wire = w]
<1>1. exch[x] \in Handle /\ HandleOK(exch[x], accepted)
  BY DEF IInv, TypeOK, Handle, HandlesOK
<1>2. exch[x].from \in Machines /\ exch[x].to \in Machines /\ exch[x].code \in Codes
  BY <1>1 DEF HandleOK, Free, Unused
<1>3. /\ e \in Handle /\ e.from = exch[x].from /\ e.to = exch[x].to
      /\ e.code = exch[x].code /\ e.join = j /\ e.show = s /\ e.wire = w
  BY <1>1 DEF Handle
<1>4. exch' = [exch EXCEPT ![x] = Settled(e)]
  BY DEF IInv, TypeOK
<1>. HIDE DEF e
<1>5. CASE j = "none" /\ s = "none"
  <2>1. Settled(e) = Unused
    BY <1>3, <1>5 DEF Settled
  <2>2. HandleOK(Unused, accepted)
    BY DEF HandleOK, Unused
  <2>. QED  BY <1>4, <2>1, <2>2, UnusedHandle, OneHandleStep
<1>6. CASE ~(j = "none" /\ s = "none")
  <2>1. Settled(e) = e
    BY <1>3, <1>6 DEF Settled
  <2>2. HandleOK(e, accepted)
    BY <1>2, <1>3, <1>6 DEF HandleOK, Joiner, Shower
  <2>. QED  BY <1>3, <1>4, <2>1, <2>2, OneHandleStep
<1>. QED  BY <1>5, <1>6

\* JoinSide and ShowSide are such steps, taken by one side.
LEMMA JoinSideStep ==
  ASSUME IInv, NEW x \in Exchanges, ~Free(x),
         NEW j \in JoinSteps, NEW w \in {"broken", "open"}, j # "asked",
         j = "pinning" => exch[x].wire = "response",
         JoinSide(x, j, w), UNCHANGED <<minted, window, accepted>>,
         pairs' \subseteq Machines \X Machines
  PROVE  IInv'
<1>1. exch[x] \in Handle /\ HandleOK(exch[x], accepted)
  BY DEF IInv, TypeOK, Handle, HandlesOK
<1>2. [exch[x] EXCEPT !.join = j, !.wire = w]
        = [exch[x] EXCEPT !.join = j, !.show = exch[x].show, !.wire = w]
  BY <1>1 DEF Handle
<1>3. exch' = [exch EXCEPT ![x] =
                 Settled([@ EXCEPT !.join = j, !.show = exch[x].show, !.wire = w])]
  BY <1>2 DEF JoinSide, IInv, TypeOK
<1>4. exch[x].show \in ShowSteps
  BY <1>1 DEF Handle
<1>5. exch[x].show \in {"responding", "pinning"} \/ j = "pinning"
        => <<Joiner(x), exch[x].code>> \in accepted /\ By(exch[x].code) = Shower(x)
  BY <1>1 DEF HandleOK, Joiner, Shower
<1>. QED  BY <1>3, <1>4, <1>5, SideStep

LEMMA ShowSideStep ==
  ASSUME IInv, NEW x \in Exchanges, ~Free(x),
         NEW s \in ShowSteps, NEW w \in {"broken", "open", "request", "response", "hello"},
         s # "responding",
         s = "pinning" => exch[x].show = "responding",
         w = "response" => exch[x].show \in {"responding", "pinning"} \/ exch[x].wire = "response",
         ShowSide(x, s, w), UNCHANGED <<minted, window, accepted>>,
         pairs' \subseteq Machines \X Machines
  PROVE  IInv'
<1>1. exch[x] \in Handle /\ HandleOK(exch[x], accepted)
  BY DEF IInv, TypeOK, Handle, HandlesOK
<1>2. [exch[x] EXCEPT !.show = s, !.wire = w]
        = [exch[x] EXCEPT !.join = exch[x].join, !.show = s, !.wire = w]
  BY <1>1 DEF Handle
<1>3. exch' = [exch EXCEPT ![x] =
                 Settled([@ EXCEPT !.join = exch[x].join, !.show = s, !.wire = w])]
  BY <1>2 DEF ShowSide, IInv, TypeOK
<1>4. exch[x].join \in JoinSteps
  BY <1>1 DEF Handle
<1>5. s = "pinning" \/ exch[x].join = "pinning" \/ w = "response"
        => <<Joiner(x), exch[x].code>> \in accepted /\ By(exch[x].code) = Shower(x)
  BY <1>1 DEF HandleOK, Joiner, Shower
<1>6. exch[x].join = "asked" => By(exch[x].code) = Shower(x)
  BY <1>1 DEF HandleOK, Shower
<1>. QED  BY <1>3, <1>4, <1>5, <1>6, SideStep

-----------------------------------------------------------------------------
\* An attempt to claim keeps the invariant: the code it accepts is the one on
\* display, and it takes the display down.
LEMMA ClaimStep ==
  ASSUME IInv, NEW x \in Exchanges, Claim(x)
  PROVE  IInv'
<1>. DEFINE e == exch[x]
<1>1. e \in Handle /\ HandleOK(e, accepted) /\ e.show = "claiming"
  BY DEF IInv, TypeOK, Handle, HandlesOK, Claim
<1>2. e.from \in Machines /\ e.to \in Machines /\ e.code \in Codes
  BY <1>1 DEF HandleOK, Unused
<1>3. window' = [window EXCEPT ![e.to] = 0] /\ UNCHANGED <<minted, pairs>>
  BY DEF Claim, AfterAttempt, Shower
<1>4. window' \in [Machines -> 0 .. MaxCodes]
  BY <1>2, <1>3, ExchangeAssumption DEF IInv, TypeOK
<1>5. CASE ProofVerifies(x)
  <2>1. /\ accepted' = accepted \cup {<<e.from, e.code>>}
        /\ exch' = [exch EXCEPT ![x] = Settled([e EXCEPT !.show = "responding", !.wire = e.wire])]
    BY <1>5 DEF Claim, ShowSide, Joiner, IInv, TypeOK
  <2>2. e.code = <<e.to, window[e.to]>> /\ window[e.to] # 0
    BY <1>5 DEF ProofVerifies, Showing, Shower
  <2>3. exch' = [exch EXCEPT ![x] = [e EXCEPT !.show = "responding"]]
    BY <1>1, <2>1 DEF Settled, Handle
  <2>. DEFINE f == [e EXCEPT !.show = "responding"]
  <2>4. /\ f \in Handle /\ f.from = e.from /\ f.to = e.to /\ f.code = e.code
        /\ f.join = e.join /\ f.show = "responding"
    BY <1>1 DEF Handle, ShowSteps
  <2>. HIDE DEF f
  <2>5. HandleOK(f, accepted')
    BY <1>2, <2>1, <2>2, <2>4 DEF HandleOK, By
  <2>6. TypeOK'
    BY <1>2, <1>3, <1>4, <2>1, <2>3, <2>4 DEF IInv, TypeOK, Handle, f
  <2>7. HandlesOK'
    <3>1. ASSUME NEW y \in Exchanges, y # x PROVE HandleOK(exch'[y], accepted')
      <4>1. exch'[y] = exch[y] /\ HandleOK(exch[y], accepted)
        BY <2>3, <3>1 DEF IInv, TypeOK, HandlesOK
      <4>. QED  BY <2>1, <4>1 DEF HandleOK
    <3>2. exch'[x] = f
      BY <2>3 DEF IInv, TypeOK, f
    <3>. QED  BY <2>5, <3>1, <3>2 DEF HandlesOK
  <2>8. Spent'
    <3>1. \A m \in Machines : window'[m] <= minted'[m]
      BY <1>2, <1>3, ExchangeAssumption DEF IInv, TypeOK, Spent
    <3>2. ASSUME NEW a \in accepted'
          PROVE  a[2][2] <= minted'[By(a[2])] /\ window'[By(a[2])] # a[2][2]
      <4>1. CASE a \in accepted
        <5>1. a[2] \in Codes /\ a[2][2] <= minted[By(a[2])] /\ window[By(a[2])] # a[2][2]
          BY <4>1 DEF IInv, TypeOK, Spent
        <5>2. By(a[2]) \in Machines /\ a[2][2] # 0
          BY <5>1, ExchangeAssumption DEF Codes, By
        <5>. QED  BY <1>2, <1>3, <5>1, <5>2 DEF IInv, TypeOK
      <4>2. CASE a = <<e.from, e.code>>
        BY <1>2, <1>3, <2>2, <4>2 DEF By, IInv, TypeOK, Spent
      <4>. QED  BY <2>1, <4>1, <4>2
    <3>. QED  BY <3>1, <3>2 DEF Spent
  <2>. QED  BY <2>6, <2>7, <2>8 DEF IInv
<1>6. CASE ~ProofVerifies(x)
  <2>1. /\ accepted' = accepted
        /\ exch' = [exch EXCEPT ![x] = Settled([e EXCEPT !.show = "none", !.wire = "broken"])]
    BY <1>6 DEF Claim, ShowSide, WireAfterRefusal, IInv, TypeOK
  <2>. DEFINE f == [e EXCEPT !.show = "none", !.wire = "broken"]
  <2>2. /\ f \in Handle /\ f.from = e.from /\ f.to = e.to /\ f.code = e.code
        /\ f.join = e.join /\ f.show = "none" /\ f.wire = "broken"
    BY <1>1 DEF Handle, ShowSteps
  <2>. HIDE DEF f
  <2>3. exch' = [exch EXCEPT ![x] = Settled(f)]
    BY <2>1 DEF f
  <2>4. Settled(f) \in Handle /\ HandleOK(Settled(f), accepted)
    BY <1>1, <1>2, <2>2, UnusedHandle DEF Settled, HandleOK, Unused
  <2>5. TypeOK'
    BY <1>3, <1>4, <2>1, <2>3, <2>4 DEF IInv, TypeOK, Handle
  <2>6. HandlesOK'
    BY <2>1, <2>3, <2>4 DEF IInv, TypeOK, HandlesOK
  <2>7. Spent'
    <3>1. \A m \in Machines : window'[m] <= minted'[m]
      BY <1>2, <1>3, ExchangeAssumption DEF IInv, TypeOK, Spent
    <3>2. ASSUME NEW a \in accepted
          PROVE  a[2][2] <= minted'[By(a[2])] /\ window'[By(a[2])] # a[2][2]
      <4>1. a[2] \in Codes /\ a[2][2] <= minted[By(a[2])] /\ window[By(a[2])] # a[2][2]
        BY DEF IInv, TypeOK, Spent
      <4>2. By(a[2]) \in Machines /\ a[2][2] # 0
        BY <4>1, ExchangeAssumption DEF Codes, By
      <4>. QED  BY <1>2, <1>3, <4>1, <4>2 DEF IInv, TypeOK
    <3>. QED  BY <2>1, <3>1, <3>2 DEF Spent
  <2>. QED  BY <2>5, <2>6, <2>7 DEF IInv
<1>. QED  BY <1>5, <1>6

\* Windows taken down keep the codes spent.
LEMMA SpentStep ==
  ASSUME TypeOK, TypeOK', Spent, UNCHANGED accepted,
         \A m \in Machines :
           /\ minted'[m] >= minted[m]
           /\ window'[m] \in {0, window[m]} \/ window'[m] = minted[m] + 1
           /\ window'[m] <= minted'[m]
  PROVE  Spent'
<1>1. ASSUME NEW a \in accepted
      PROVE  a[2][2] <= minted'[By(a[2])] /\ window'[By(a[2])] # a[2][2]
  <2>1. a[2] \in Codes /\ a[2][2] <= minted[By(a[2])] /\ window[By(a[2])] # a[2][2]
    BY DEF TypeOK, Spent
  <2>2. By(a[2]) \in Machines /\ a[2][2] \in Nat /\ a[2][2] # 0
    BY <2>1, ExchangeAssumption DEF Codes, By
  <2>. QED  BY <2>1, <2>2, ExchangeAssumption DEF TypeOK
<1>. QED  BY <1>1 DEF Spent

\* Every step keeps the invariant.
LEMMA StepIInv == IInv /\ [Next]_vars => IInv'
<1>. SUFFICES ASSUME IInv, [Next]_vars PROVE IInv'
  OBVIOUS
<1>0. TypeOK /\ HandlesOK /\ Spent
  BY DEF IInv
<1>1. ASSUME NEW m \in Displays, Show(m) \/ Hide(m) PROVE IInv'
  <2>1. TypeOK'
    BY <1>0, <1>1, ExchangeAssumption DEF TypeOK, Show, Hide
  <2>2. HandlesOK'
    BY <1>0, <1>1 DEF HandlesOK, Show, Hide
  <2>3. Spent'
    <3>1. \A n \in Machines : minted[n] \in Nat /\ window[n] <= minted[n]
      BY <1>0, ExchangeAssumption DEF TypeOK, Spent
    <3>2. CASE Show(m)
      <4>1. /\ minted' = [minted EXCEPT ![m] = minted[m] + 1]
            /\ window' = [window EXCEPT ![m] = minted[m] + 1]
            /\ UNCHANGED accepted
        BY <1>0, <3>2 DEF Show, TypeOK
      <4>. QED  BY <1>0, <2>1, <3>1, <4>1, SpentStep, ExchangeAssumption DEF TypeOK
    <3>3. CASE Hide(m)
      <4>1. UNCHANGED <<minted, accepted>> /\ window' = [window EXCEPT ![m] = 0]
        BY <3>3 DEF Hide
      <4>. QED  BY <1>0, <2>1, <3>1, <4>1, SpentStep, ExchangeAssumption DEF TypeOK
    <3>. QED  BY <1>1, <3>2, <3>3
  <2>. QED  BY <2>1, <2>2, <2>3 DEF IInv
<1>2. ASSUME NEW x \in Exchanges, NEW j \in Machines, NEW d \in Machines, NEW c \in Codes,
             Join(x, j, d, c)
      PROVE  IInv'
  <2>. DEFINE e == [from |-> j, to |-> d, code |-> c, known |-> <<d, j>> \in pairs,
                    join |-> "dialling", show |-> "handshake", wire |-> "open"]
  <2>1. e \in Handle /\ HandleOK(e, accepted)
    BY DEF Handle, HandleOK, JoinSteps, ShowSteps
  <2>2. exch' = [exch EXCEPT ![x] = e] /\ UNCHANGED <<minted, window, accepted, pairs>>
    BY <1>2 DEF Join
  <2>. QED  BY <1>0, <2>1, <2>2, OneHandleStep DEF TypeOK
<1>3. ASSUME NEW x \in Exchanges, Progress(x) \/ Break(x) PROVE IInv'
  <2>1. CASE Ask(x)
    <3>1. /\ exch' = [exch EXCEPT ![x] =
                        Settled([@ EXCEPT !.join = "asked", !.show = "reading", !.wire = "request"])]
          /\ UNCHANGED <<minted, window, accepted, pairs>>
      BY <1>0, <2>1 DEF Ask, Settled, TypeOK
    <3>2. By(exch[x].code) = Shower(x) /\ ~Free(x)
      BY <2>1 DEF Ask, TagMatches, Free
    <3>. QED  BY <1>0, <3>1, <3>2, SideStep DEF JoinSteps, ShowSteps, TypeOK
  <2>2. CASE Confirm(x) \/ JoinFails(x)
    BY <1>0, <2>2, JoinSideStep DEF Confirm, JoinFails, Free, JoinSteps, TypeOK
  <2>3. CASE PinShower(x)
    <3>1. Joiner(x) \in Machines /\ Shower(x) \in Machines
      <4>1. HandleOK(exch[x], accepted) /\ exch[x].join = "pinning"
        BY <1>0, <2>3 DEF PinShower, HandlesOK
      <4>. QED  BY <4>1 DEF HandleOK, Unused, Joiner, Shower
    <3>. QED  BY <1>0, <2>3, <3>1, JoinSideStep DEF PinShower, Free, JoinSteps, TypeOK
  <2>4. CASE Route(x) \/ Respond(x) \/ ShowFails(x)
    <3>1. exch[x].wire \in {"broken", "open", "request", "response", "hello"}
      BY <1>0 DEF TypeOK
    <3>. QED  BY <1>0, <2>4, <3>1, ShowSideStep DEF Route, Respond, ShowFails, Free, ShowSteps, TypeOK
  <2>5. CASE PinJoiner(x)
    <3>1. Joiner(x) \in Machines /\ Shower(x) \in Machines
      <4>1. HandleOK(exch[x], accepted) /\ exch[x].show = "pinning"
        BY <1>0, <2>5 DEF PinJoiner, HandlesOK
      <4>. QED  BY <4>1 DEF HandleOK, Unused, Joiner, Shower
    <3>2. exch[x].wire \in {"broken", "open", "request", "response", "hello"}
      BY <1>0 DEF TypeOK
    <3>. QED  BY <1>0, <2>5, <3>1, <3>2, ShowSideStep DEF PinJoiner, Free, ShowSteps, TypeOK
  <2>6. CASE Claim(x)
    BY <2>6, ClaimStep
  <2>7. CASE Break(x)
    <3>. DEFINE e == [exch[x] EXCEPT !.wire = "broken"]
    <3>1. exch[x] \in Handle /\ HandleOK(exch[x], accepted) /\ exch[x] # Unused
      BY <1>0, <2>7 DEF TypeOK, Handle, HandlesOK, Break, Free, Unused
    <3>2. e \in Handle /\ HandleOK(e, accepted)
      BY <3>1 DEF Handle, HandleOK
    <3>3. exch' = [exch EXCEPT ![x] = e] /\ UNCHANGED <<minted, window, accepted, pairs>>
      BY <1>0, <2>7 DEF Break, TypeOK
    <3>. QED  BY <1>0, <3>2, <3>3, OneHandleStep DEF TypeOK
  <2>. QED  BY <1>3, <2>1, <2>2, <2>3, <2>4, <2>5, <2>6, <2>7 DEF Progress
<1>4. ASSUME NEW a \in Machines, NEW b \in Machines, RemovePeer(a, b) PROVE IInv'
  BY <1>0, <1>4 DEF RemovePeer, IInv, TypeOK, HandlesOK, Spent
<1>5. ASSUME NEW m \in Machines, Crash(m) PROVE IInv'
  <2>1. ASSUME NEW x \in Exchanges PROVE exch'[x] \in Handle /\ HandleOK(exch'[x], accepted)
    <3>. DEFINE e == [exch[x] EXCEPT !.join = IF Joiner(x) = m THEN "none" ELSE @,
                                     !.show = IF Shower(x) = m THEN "none" ELSE @,
                                     !.wire = "broken"]
    <3>1. exch[x] \in Handle /\ HandleOK(exch[x], accepted)
      BY <1>0 DEF TypeOK, Handle, HandlesOK
    <3>2. exch'[x] = IF m \notin {Joiner(x), Shower(x)} THEN exch[x] ELSE Settled(e)
      BY <1>5 DEF Crash
    <3>3. /\ e \in Handle /\ e.from = exch[x].from /\ e.to = exch[x].to /\ e.code = exch[x].code
          /\ e.join \in {"none", exch[x].join} /\ e.show \in {"none", exch[x].show}
          /\ e.wire = "broken"
      BY <3>1 DEF Handle, JoinSteps, ShowSteps
    <3>. HIDE DEF e
    <3>4. CASE m \in {Joiner(x), Shower(x)}
      <4>1. exch[x] # Unused
        BY <3>4, ExchangeAssumption DEF Unused, Joiner, Shower
      <4>. QED  BY <3>1, <3>2, <3>3, <3>4, <4>1, UnusedHandle DEF Settled, HandleOK, Unused
    <3>. QED  BY <3>1, <3>2, <3>4
  <2>2. TypeOK'
    <3>1. exch' \in [Exchanges -> Handle]
      BY <1>5, <2>1 DEF Crash
    <3>2. window' \in [Machines -> 0 .. MaxCodes]
      <4>1. window' = [window EXCEPT ![m] = 0]
        BY <1>5 DEF Crash
      <4>. QED  BY <1>0, <4>1, ExchangeAssumption DEF TypeOK
    <3>. QED  BY <1>0, <1>5, <3>1, <3>2 DEF TypeOK, Handle, Crash
  <2>3. HandlesOK'
    BY <1>5, <2>1 DEF HandlesOK, Crash
  <2>4. Spent'
    <3>1. UNCHANGED <<minted, accepted>> /\ window' = [window EXCEPT ![m] = 0]
      BY <1>5 DEF Crash
    <3>2. \A n \in Machines : /\ minted[n] \in Nat /\ window'[n] \in {0, window[n]}
                             /\ window'[n] <= minted'[n]
      BY <1>0, <3>1, ExchangeAssumption DEF TypeOK, Spent
    <3>. QED  BY <1>0, <2>2, <3>1, <3>2, SpentStep
  <2>. QED  BY <2>2, <2>3, <2>4 DEF IInv
<1>6. CASE UNCHANGED vars
  BY <1>0, <1>6 DEF vars, IInv, TypeOK, HandlesOK, Spent
<1>. QED  BY <1>1, <1>2, <1>3, <1>4, <1>5, <1>6 DEF Next, Operators

\* IInv holds in every state of an exchange.
THEOREM Invariant == Spec => []IInv
BY InitIInv, StepIInv, PTL DEF Spec

-----------------------------------------------------------------------------
\* The refinement

\* What PairingConsent calls offers and entered, of this module's state.
Offers == {c \in Codes : window[By(c)] = c[2]}
Entered == {<<exch[x].from, exch[x].code>> : x \in {y \in Exchanges : ~Free(y)}}

\* Codes and attempts that end are withdrawn.
LEMMA WithdrawStep ==
  ASSUME Offers' \subseteq Offers, Entered' \subseteq Entered,
         UNCHANGED <<accepted, pairs>>
  PROVE  Consent!AbstractNext
<1>1. PICK cs : cs = Offers \ Offers'
  OBVIOUS
<1>2. PICK tries : tries = Entered \ Entered'
  OBVIOUS
<1>0. cs \in SUBSET Codes /\ tries \in SUBSET Entered
  BY <1>1, <1>2 DEF Offers
<1>3. Consent!Withdraw(cs, tries)
  BY <1>1, <1>2 DEF Consent!Withdraw, Offers, Entered, Free
<1>. QED  BY <1>0, <1>3 DEF Consent!AbstractNext, Entered, Free

\* One of two machines pins the other after an acceptance.
LEMMA PinStep ==
  ASSUME NEW j \in Machines, NEW c \in Codes, <<j, c>> \in accepted,
         \/ pairs' = pairs \cup {<<By(c), j>>}
         \/ pairs' = pairs \cup {<<j, By(c)>>},
         Offers' = Offers, Entered' \subseteq Entered, UNCHANGED accepted
  PROVE  Consent!AbstractNext
<1>1. PICK tries : tries = Entered \ Entered'
  OBVIOUS
<1>0. tries \in SUBSET Entered
  BY <1>1
<1>2. Consent!Pin(j, c, tries)
  BY <1>1 DEF Consent!Pin, Offers, Entered, Free
<1>. QED  BY <1>0, <1>2 DEF Consent!AbstractNext, Entered, Free

\* A window taken down takes the codes of its machine off display.
LEMMA OffersShrink ==
  ASSUME TypeOK, NEW m, window' = [window EXCEPT ![m] = 0]
  PROVE  Offers' \subseteq Offers
<1>1. ASSUME NEW c \in Codes, window'[By(c)] = c[2] PROVE window[By(c)] = c[2]
  <2>1. By(c) \in Machines /\ c[2] # 0
    BY ExchangeAssumption DEF Codes, By
  <2>. QED  BY <1>1, <2>1 DEF TypeOK
<1>. QED  BY <1>1 DEF Offers

\* The sides of exchanges that end enter nothing new.
LEMMA EnteredShrinks ==
  ASSUME \A x \in Exchanges :
           \/ exch'[x] = Unused
           \/ /\ exch'[x].from = exch[x].from /\ exch'[x].code = exch[x].code
              /\ ~Free(x)
           \/ exch'[x] = exch[x]
  PROVE  Entered' \subseteq Entered
<1>1. ASSUME NEW x \in Exchanges, ~(exch'[x].join = "none" /\ exch'[x].show = "none")
      PROVE  ~Free(x) /\ exch'[x].from = exch[x].from /\ exch'[x].code = exch[x].code
  BY <1>1 DEF Free, Unused
<1>. QED  BY <1>1 DEF Entered, Free

\* A step of one side of x, whatever it sends, enters nothing new.
LEMMA SideShrinks ==
  ASSUME IInv, NEW x \in Exchanges, ~Free(x),
         \/ \E j, w : JoinSide(x, j, w)
         \/ \E s, w : ShowSide(x, s, w)
  PROVE  Entered' \subseteq Entered
<1>1. exch \in [Exchanges -> Handle]
  BY DEF IInv, TypeOK, Handle
<1>2. PICK e : /\ e.from = exch[x].from /\ e.code = exch[x].code
               /\ exch' = [exch EXCEPT ![x] = Settled(e)]
  <2>1. ASSUME NEW j, NEW w, JoinSide(x, j, w)
        PROVE  \E e : /\ e.from = exch[x].from /\ e.code = exch[x].code
                      /\ exch' = [exch EXCEPT ![x] = Settled(e)]
    <3>1. [exch[x] EXCEPT !.join = j, !.wire = w].from = exch[x].from
      BY <1>1 DEF Handle
    <3>2. [exch[x] EXCEPT !.join = j, !.wire = w].code = exch[x].code
      BY <1>1 DEF Handle
    <3>3. exch' = [exch EXCEPT ![x] = Settled([exch[x] EXCEPT !.join = j, !.wire = w])]
      BY <1>1, <2>1 DEF JoinSide
    <3>. QED  BY <3>1, <3>2, <3>3
  <2>2. ASSUME NEW s, NEW w, ShowSide(x, s, w)
        PROVE  \E e : /\ e.from = exch[x].from /\ e.code = exch[x].code
                      /\ exch' = [exch EXCEPT ![x] = Settled(e)]
    <3>1. [exch[x] EXCEPT !.show = s, !.wire = w].from = exch[x].from
      BY <1>1 DEF Handle
    <3>2. [exch[x] EXCEPT !.show = s, !.wire = w].code = exch[x].code
      BY <1>1 DEF Handle
    <3>3. exch' = [exch EXCEPT ![x] = Settled([exch[x] EXCEPT !.show = s, !.wire = w])]
      BY <1>1, <2>2 DEF ShowSide
    <3>. QED  BY <3>1, <3>2, <3>3
  <2>. QED  BY <2>1, <2>2
<1>3. Settled(e) = Unused \/ Settled(e) = e
  BY DEF Settled
<1>4. exch'[x] = Settled(e) /\ \A y \in Exchanges \ {x} : exch'[y] = exch[y]
  BY <1>1, <1>2
<1>. QED  BY <1>2, <1>3, <1>4, EnteredShrinks

\* A side that is about to pin has a machine to pin, and the acceptance for it.
LEMMA PinAccepted ==
  ASSUME IInv, NEW x \in Exchanges, exch[x].show = "pinning" \/ exch[x].join = "pinning"
  PROVE  /\ Joiner(x) \in Machines /\ exch[x].code \in Codes
         /\ <<Joiner(x), exch[x].code>> \in accepted /\ By(exch[x].code) = Shower(x)
<1>1. HandleOK(exch[x], accepted)
  BY DEF IInv, HandlesOK
<1>. QED  BY <1>1 DEF HandleOK, Unused, Joiner, Shower

\* Every step of the exchange is a step of PairingConsent, or changes nothing it
\* can see.
LEMMA StepRefines ==
  IInv /\ IInv' /\ [Next]_vars => [Consent!AbstractNext]_(Consent!abstractVars)
<1>. SUFFICES ASSUME IInv, IInv', [Next]_vars
              PROVE  Consent!AbstractNext \/ UNCHANGED <<Offers, Entered, accepted, pairs>>
  BY DEF Consent!abstractVars, Offers, Entered, Free
<1>0. TypeOK /\ TypeOK' /\ Spent
  BY DEF IInv
<1>1. ASSUME NEW m \in Displays, Show(m) PROVE Consent!AbstractNext
  <2>0. PICK c : c = <<m, minted[m] + 1>>
    OBVIOUS
  <2>1. /\ window' = [window EXCEPT ![m] = minted[m] + 1] /\ window[m] = 0
        /\ minted[m] + 1 \in 1 .. MaxCodes /\ UNCHANGED <<exch, pairs, accepted>>
    BY <1>0, <1>1, ExchangeAssumption DEF Show, Showing, TypeOK
  <2>2. c \in Codes
    BY <2>0, <2>1 DEF Codes
  <2>3. ASSUME NEW d \in Codes PROVE d \in Offers' <=> d \in Offers \/ d = c
    <3>1. d = <<d[1], d[2]>> /\ d[1] \in Machines /\ d[2] # 0 /\ By(d) = d[1]
      BY ExchangeAssumption DEF Codes, By
    <3>2. d \in Offers' <=> window'[d[1]] = d[2]
      BY <3>1 DEF Offers
    <3>3. d \in Offers <=> window[d[1]] = d[2]
      BY <3>1 DEF Offers
    <3>. QED  BY <1>0, <2>0, <2>1, <3>1, <3>2, <3>3, ExchangeAssumption DEF TypeOK
  <2>4. Offers' = Offers \cup {c}
    BY <2>2, <2>3 DEF Offers
  <2>5. \A j \in Machines : <<j, c>> \notin accepted
    <3>1. By(c) = m /\ c[2] = minted[m] + 1 /\ minted[m] \in Nat
      BY <1>0, <2>0, <2>1, ExchangeAssumption DEF By, TypeOK
    <3>2. ASSUME NEW j \in Machines, <<j, c>> \in accepted PROVE FALSE
      <4>1. c[2] <= minted[By(c)]
        BY <1>0, <3>2 DEF Spent
      <4>. QED  BY <3>1, <4>1
    <3>. QED  BY <3>2
  <2>6. Entered' = Entered
    BY <2>1 DEF Entered, Free
  <2>7. Consent!Display(c)
    BY <2>1, <2>4, <2>5, <2>6 DEF Consent!Display, Offers, Entered, Free
  <2>. QED  BY <2>2, <2>7 DEF Consent!AbstractNext
<1>2. ASSUME NEW m \in Displays, Hide(m) PROVE Consent!AbstractNext
  <2>1. window' = [window EXCEPT ![m] = 0] /\ UNCHANGED <<exch, pairs, accepted>>
    BY <1>2 DEF Hide
  <2>2. Offers' \subseteq Offers
    BY <1>0, <2>1, OffersShrink, ExchangeAssumption
  <2>3. Entered' = Entered
    BY <2>1 DEF Entered, Free
  <2>. QED  BY <2>1, <2>2, <2>3, WithdrawStep
<1>3. ASSUME NEW x \in Exchanges, NEW j \in Machines, NEW d \in Machines, NEW c \in Codes,
             Join(x, j, d, c)
      PROVE  Consent!AbstractNext
  <2>1. /\ \A y \in Exchanges \ {x} : exch'[y] = exch[y]
        /\ exch'[x].from = j /\ exch'[x].code = c /\ exch'[x].join = "dialling" /\ Free(x)
        /\ UNCHANGED <<minted, window, pairs, accepted>>
    BY <1>0, <1>3 DEF Join, TypeOK
  <2>2. Entered' = Entered \cup {<<j, c>>}
    <3>1. Entered \subseteq Entered' /\ <<j, c>> \in Entered'
      BY <2>1 DEF Entered, Free
    <3>2. Entered' \subseteq Entered \cup {<<j, c>>}
      BY <2>1 DEF Entered, Free
    <3>. QED  BY <3>1, <3>2
  <2>3. Offers' = Offers
    BY <2>1 DEF Offers
  <2>4. Consent!Enter(j, c)
    BY <2>1, <2>2, <2>3 DEF Consent!Enter, Offers, Entered, Free
  <2>. QED  BY <2>4 DEF Consent!AbstractNext
<1>4. ASSUME NEW x \in Exchanges, Progress(x) \/ Break(x) PROVE Consent!AbstractNext
  <2>1. CASE Ask(x) \/ Break(x)
    <3>1. /\ \A y \in Exchanges : exch'[y].from = exch[y].from /\ exch'[y].code = exch[y].code
          /\ \A y \in Exchanges \ {x} : exch'[y] = exch[y]
          /\ ~Free(x)
          /\ UNCHANGED <<window, pairs, accepted>>
      <4>1. CASE Ask(x)
        BY <1>0, <4>1 DEF Ask, TypeOK, Free
      <4>2. CASE Break(x)
        BY <1>0, <4>2 DEF Break, TypeOK
      <4>. QED  BY <2>1, <4>1, <4>2
    <3>2. Entered' \subseteq Entered
      BY <3>1, EnteredShrinks
    <3>3. Offers' = Offers
      BY <3>1 DEF Offers
    <3>. QED  BY <3>1, <3>2, <3>3, WithdrawStep
  <2>2. CASE Confirm(x) \/ JoinFails(x) \/ Route(x) \/ Respond(x) \/ ShowFails(x)
    <3>1. /\ ~Free(x) /\ UNCHANGED <<window, pairs, accepted>>
          /\ \/ \E j, w : JoinSide(x, j, w)
             \/ \E s, w : ShowSide(x, s, w)
      BY <2>2 DEF Confirm, JoinFails, Route, Respond, ShowFails, Free
    <3>2. Offers' = Offers
      BY <3>1 DEF Offers
    <3>. QED  BY <3>1, <3>2, SideShrinks, WithdrawStep
  <2>3. CASE PinShower(x) \/ PinJoiner(x)
    <3>1. /\ ~Free(x) /\ UNCHANGED <<window, accepted>>
          /\ exch[x].show = "pinning" \/ exch[x].join = "pinning"
          /\ \/ pairs' = pairs \cup {<<Joiner(x), Shower(x)>>}
             \/ pairs' = pairs \cup {<<Shower(x), Joiner(x)>>}
          /\ \/ \E j, w : JoinSide(x, j, w)
             \/ \E s, w : ShowSide(x, s, w)
      BY <2>3 DEF PinShower, PinJoiner, Free
    <3>2. Offers' = Offers
      BY <3>1 DEF Offers
    <3>. QED  BY <3>1, <3>2, SideShrinks, PinAccepted, PinStep
  <2>4. CASE Claim(x) /\ ~ProofVerifies(x)
    <3>1. /\ ~Free(x) /\ UNCHANGED <<pairs, accepted>>
          /\ \E s, w : ShowSide(x, s, w)
          /\ window' = [window EXCEPT ![Shower(x)] = 0]
      BY <2>4 DEF Claim, AfterAttempt, Free
    <3>2. Offers' \subseteq Offers
      BY <1>0, <3>1, OffersShrink
    <3>. QED  BY <3>1, <3>2, SideShrinks, WithdrawStep
  <2>5. CASE Claim(x) /\ ProofVerifies(x)
    <3>0. PICK j, c : j = Joiner(x) /\ c = exch[x].code
      OBVIOUS
    <3>1. HandleOK(exch[x], accepted) /\ exch[x].show = "claiming"
      BY <2>5 DEF IInv, HandlesOK, Claim
    <3>2. j \in Machines /\ c \in Codes /\ Shower(x) \in Machines
      BY <3>0, <3>1 DEF HandleOK, Unused, Joiner, Shower
    <3>3. /\ window' = [window EXCEPT ![Shower(x)] = 0]
          /\ c = <<Shower(x), window[Shower(x)]>>
          /\ accepted' = accepted \cup {<<j, c>>} /\ UNCHANGED pairs
          /\ ShowSide(x, "responding", exch[x].wire)
      BY <2>5, <3>0 DEF Claim, AfterAttempt, ProofVerifies
    <3>4. ~Free(x) /\ <<j, c>> \in Entered
      BY <3>0, <3>1 DEF Free, Entered, Joiner
    <3>5. Entered' = Entered
      <4>1. /\ exch'[x].from = exch[x].from /\ exch'[x].code = exch[x].code
            /\ exch'[x].show = "responding"
            /\ \A y \in Exchanges \ {x} : exch'[y] = exch[y]
        BY <1>0, <3>3 DEF ShowSide, Settled, TypeOK
      <4>2. \A y \in Exchanges :
              /\ exch'[y].from = exch[y].from /\ exch'[y].code = exch[y].code
              /\ (exch'[y].join = "none" /\ exch'[y].show = "none")
                   = (exch[y].join = "none" /\ exch[y].show = "none")
        BY <3>4, <4>1 DEF Free
      <4>. QED  BY <4>2 DEF Entered, Free
    <3>6. Offers' = Offers \ {c}
      <4>1. ASSUME NEW d \in Codes PROVE d \in Offers' <=> d \in Offers /\ d # c
        <5>1. d = <<d[1], d[2]>> /\ d[1] \in Machines /\ d[2] # 0 /\ By(d) = d[1]
          BY ExchangeAssumption DEF Codes, By
        <5>2. (d \in Offers' <=> window'[d[1]] = d[2]) /\ (d \in Offers <=> window[d[1]] = d[2])
          BY <5>1 DEF Offers
        <5>. QED  BY <1>0, <3>2, <3>3, <5>1, <5>2 DEF TypeOK
      <4>. QED  BY <4>1 DEF Offers
    <3>7. c \in Offers
      BY <3>2, <3>3 DEF Offers, By
    <3>8. Consent!Accept(j, c)
      BY <3>3, <3>4, <3>5, <3>6, <3>7 DEF Consent!Accept, Offers, Entered, Free
    <3>. QED  BY <3>2, <3>8 DEF Consent!AbstractNext
  <2>. QED  BY <1>4, <2>1, <2>2, <2>3, <2>4, <2>5 DEF Progress
<1>5. ASSUME NEW a \in Machines, NEW b \in Machines, RemovePeer(a, b) PROVE Consent!AbstractNext
  <2>1. Consent!Unpair(a, b)
    BY <1>5 DEF RemovePeer, Consent!Unpair, Free, Joiner
  <2>. QED  BY <2>1 DEF Consent!AbstractNext
<1>6. ASSUME NEW m \in Machines, Crash(m) PROVE Consent!AbstractNext
  <2>1. window' = [window EXCEPT ![m] = 0] /\ UNCHANGED <<pairs, accepted>>
    BY <1>6 DEF Crash
  <2>2. Offers' \subseteq Offers
    BY <1>0, <2>1, OffersShrink
  <2>3. Entered' \subseteq Entered
    <3>1. ASSUME NEW x \in Exchanges
          PROVE  \/ exch'[x] = Unused
                 \/ exch'[x].from = exch[x].from /\ exch'[x].code = exch[x].code /\ ~Free(x)
                 \/ exch'[x] = exch[x]
      <4>. DEFINE e == [exch[x] EXCEPT !.join = IF Joiner(x) = m THEN "none" ELSE @,
                                       !.show = IF Shower(x) = m THEN "none" ELSE @,
                                       !.wire = "broken"]
      <4>1. exch[x] \in Handle /\ HandleOK(exch[x], accepted)
        BY <1>0 DEF IInv, HandlesOK, TypeOK, Handle
      <4>2. exch'[x] = IF m \notin {Joiner(x), Shower(x)} THEN exch[x] ELSE Settled(e)
        BY <1>6 DEF Crash
      <4>3. e.from = exch[x].from /\ e.code = exch[x].code
        BY <4>1 DEF Handle
      <4>. HIDE DEF e
      <4>4. m \in {Joiner(x), Shower(x)} => ~Free(x)
        BY <4>1, ExchangeAssumption DEF HandleOK, Unused, Joiner, Shower, Free
      <4>. QED  BY <4>2, <4>3, <4>4 DEF Settled
    <3>. QED  BY <3>1, EnteredShrinks
  <2>. QED  BY <2>1, <2>2, <2>3, WithdrawStep
<1>7. CASE UNCHANGED vars
  BY <1>7 DEF vars, Offers, Entered, Free, Joiner
<1>. QED  BY <1>1, <1>2, <1>3, <1>4, <1>5, <1>6, <1>7 DEF Next, Operators

\* Nothing is pinned by a handshake, a wrong code, an expired or a used one: the
\* exchange implements PairingConsent.
THEOREM ExchangeKeepsPromise == Spec => KeepsPromise
<1>1. Init => Consent!AbstractInit
  <2>. SUFFICES ASSUME Init PROVE Consent!AbstractInit
    OBVIOUS
  <2>1. Offers = {}
    <3>1. \A c \in Codes : By(c) \in Machines /\ c[2] # 0
      BY ExchangeAssumption DEF Codes, By
    <3>. QED  BY <3>1 DEF Init, Offers
  <2>2. Entered = {}
    BY DEF Init, Entered, Free, Unused
  <2>. QED  BY <2>1, <2>2 DEF Init, Consent!AbstractInit, Offers, Entered, Free
<1>. QED  BY <1>1, Invariant, StepRefines, PTL DEF Spec, KeepsPromise, Consent!AbstractSpec

\* A code is single-use: it pairs one machine, however many enter it at once.
THEOREM CodeIsSingleUse == Spec => []CodePairsOne
<1>1. Init => CodePairsOne
  BY DEF Init, CodePairsOne
<1>2. ASSUME IInv, CodePairsOne, [Next]_vars PROVE CodePairsOne'
  <2>1. CASE UNCHANGED accepted
    BY <1>2, <2>1 DEF CodePairsOne
  <2>2. ASSUME NEW x \in Exchanges, Claim(x), ProofVerifies(x) PROVE CodePairsOne'
    <3>1. /\ accepted' = accepted \cup {<<Joiner(x), exch[x].code>>}
          /\ exch[x].code = <<Shower(x), window[Shower(x)]>>
      BY <2>2 DEF Claim, ProofVerifies
    <3>2. \A a \in accepted : a[2] # exch[x].code
      BY <1>2, <3>1 DEF IInv, Spent, By
    <3>. QED  BY <1>2, <3>1, <3>2 DEF CodePairsOne
  <2>3. UNCHANGED accepted \/ \E x \in Exchanges : Claim(x) /\ ProofVerifies(x)
    BY <1>2 DEF Next, vars, Operators, Progress, Show, Hide, Join, Ask, Confirm,
       JoinFails, PinShower, Route, Claim, Respond, PinJoiner, ShowFails, Break,
       RemovePeer, Crash
  <2>. QED  BY <2>1, <2>2, <2>3
<1>. QED  BY <1>1, <1>2, Invariant, PTL DEF Spec

\* Every handle is as it should be, whatever breaks, fails or crashes: unused, or
\* between two machines with a code, and near a pin only after that code was
\* accepted from that joiner by the machine that showed it.
THEOREM HandlesCorrect == Spec => [](TypeOK /\ HandlesOK)
BY Invariant, PTL DEF IInv
=============================================================================
