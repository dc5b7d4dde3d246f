------------------------ MODULE PeeringToggle_proofs ------------------------
(***************************************************************************)
(* For any number of concurrent requests: what shares is reported or in a  *)
(* handler's hands, and at most one service shares.                        *)
(*                                                                         *)
(* The argument: a service shares only while it listens, and one at a time *)
(* can listen.  A service of the process is the only one that shares, and  *)
(* every handler that holds a service holds that one; a service started by *)
(* a request dies with the request, which holds it until then.             *)
(***************************************************************************)
EXTENDS PeeringToggle, TLAPS

\* What shares listens, and has not begun to stop.
SharingListens ==
  \A s \in Svcs : service[s].sharing => service[s].listening /\ service[s].stop = "not"

OneListener ==
  \A s, t \in Svcs : service[s].listening /\ service[t].listening => s = t

\* A handler holds a service from the moment it starts or finds one.
Holding ==
  \A r \in Reqs :
    /\ req[r].pc \in {"idle", "starting"} => req[r].held = NoSvc
    /\ req[r].pc \in {"started", "installed", "clearing", "stopping", "closing",
                      "waiting", "stopped"} => req[r].held \in Svcs

\* The service whose stop a handler is in the middle of has begun to stop.
StopUnderWay ==
  \A r \in Reqs :
    req[r].pc \in {"closing", "waiting"} => service[req[r].held].stop # "not"

\* A service that a request started is held by that request while it shares.
RequestOwns ==
  \A s \in Svcs :
    service[s].sharing /\ service[s].ctx # Process =>
      req[service[s].ctx].pc # "idle" /\ req[service[s].ctx].held = s

\* While a service of the process shares, every pointer leads to it.
ProcessOwns ==
  \A s \in Svcs :
    service[s].sharing /\ service[s].ctx = Process =>
      /\ \A r \in Reqs : req[r].held \in {NoSvc, s}
      /\ peering \in {NoSvc, s}
      /\ \/ peering = s
         \/ \E r \in Reqs : req[r].pc = "stopping" /\ req[r].held = s

\* Nothing is left of a process that is down.
DownIsEmpty ==
  proc = "down" =>
    /\ peering = NoSvc
    /\ service = [s \in Svcs |-> Unused]
    /\ req = [r \in Reqs |-> Resting]

\* The inductive invariant.
IInv ==
  /\ TypeOK
  /\ SharingListens
  /\ OneListener
  /\ Holding
  /\ StopUnderWay
  /\ RequestOwns
  /\ ProcessOwns
  /\ DownIsEmpty

\* The invariant holds before the first start.
LEMMA InitIInv == Init => IInv
<1>. SUFFICES ASSUME Init PROVE IInv
  OBVIOUS
<1>1. TypeOK
  BY DEF Init, TypeOK, Unused, Resting, Steps
<1>2. /\ SharingListens /\ OneListener /\ Holding
      /\ StopUnderWay /\ RequestOwns /\ ProcessOwns
  BY DEF Init, SharingListens, OneListener, Holding, StopUnderWay, RequestOwns,
         ProcessOwns, Unused, Resting
<1>3. DownIsEmpty
  BY DEF Init, DownIsEmpty
<1>. QED  BY <1>1, <1>2, <1>3 DEF IInv

\* Every step keeps the variables in their types.
LEMMA StepType == IInv /\ [Next]_vars => TypeOK'
<1>. SUFFICES ASSUME IInv, [Next]_vars PROVE TypeOK'
  OBVIOUS
<1>. USE ToggleAssumption DEF TypeOK, Steps, At, Go, GoWith
<1>0. TypeOK /\ Holding
  BY DEF IInv
<1>1. ASSUME NEW r \in Reqs, Handle(r) PROVE TypeOK'
  <2>1. CASE On(r) \/ StartFails(r) \/ Install(r) \/ Off(r) \/ Clear(r)
    BY <1>0, <2>1 DEF On, StartFails, Install, Off, Clear, Holding
  <2>2. ASSUME NEW s \in Svcs, StartPeering(r, s) PROVE TypeOK'
    BY <1>0, <2>2 DEF StartPeering, Started, ServiceContext
  <2>3. CASE StopBegins(r) \/ StopReturns(r) \/ StopAgain(r)
    <3>1. req[r].held \in Svcs
      BY <1>0, <2>3 DEF StopBegins, StopReturns, StopAgain, Holding
    <3>2. CASE StopBegins(r)
      BY <1>0, <3>1, <3>2 DEF StopBegins, FirstOfStop
    <3>3. CASE StopReturns(r)
      BY <1>0, <3>1, <3>3 DEF StopReturns
    <3>. QED  BY <1>0, <2>3, <3>2, <3>3 DEF StopAgain
  <2>4. CASE StopCloses(r)
    <3>1. req[r].held \in Svcs
      BY <1>0, <2>4 DEF StopCloses, Holding
    <3>2. PICK closed : closed = [service[req[r].held] EXCEPT !.listening = FALSE, !.sharing = FALSE]
      OBVIOUS
    <3>. DEFINE Kind == [listening : BOOLEAN, sharing : BOOLEAN, ctx : Reqs \cup {Process},
                        stop : {"not", "running", "done"}]
    <3>3. closed \in Kind
      <4>1. service[req[r].held] \in Kind
        BY <1>0, <3>1
      <4>. QED  BY <3>2, <4>1
    <3>4. service' = [service EXCEPT ![req[r].held] = closed]
      BY <2>4, <3>2 DEF StopCloses
    <3>5. service' \in [Svcs -> Kind]
      <4>1. service \in [Svcs -> Kind]
        BY <1>0
      <4>. HIDE DEF Kind
      <4>. QED  BY <3>1, <3>3, <3>4, <4>1
    <3>. QED  BY <1>0, <2>4, <3>5 DEF StopCloses
  <2>5. CASE Remember(r) \/ RememberFails(r)
    <3>1. remembered' \in BOOLEAN
      BY <1>0, <2>5 DEF Remember, RememberFails
    <3>2. UNCHANGED <<proc, peering, service>>
      BY <2>5 DEF Remember, RememberFails
    <3>3. PICK pc \in Steps : Go(r, pc)
      BY <2>5 DEF Remember, RememberFails
    <3>. QED  BY <1>0, <3>1, <3>2, <3>3
  <2>6. CASE Answer(r)
    BY <1>0, <2>6 DEF Answer, Cancelled, Resting
  <2>7. CASE ClientGone(r)
    BY <1>0, <2>7 DEF ClientGone, Cancelled
  <2>. QED  BY <1>1, <2>1, <2>2, <2>3, <2>4, <2>5, <2>6, <2>7 DEF Handle
<1>2. ASSUME NEW forced \in BOOLEAN, NEW s \in Svcs, Boot(forced, s) PROVE TypeOK'
  <2>1. CASE Started(s, Process) /\ peering' = s
    BY <1>0, <1>2, <2>1 DEF Boot, Started
  <2>2. CASE UNCHANGED <<service, peering>>
    BY <1>0, <1>2, <2>2 DEF Boot
  <2>. QED  BY <1>2, <2>1, <2>2 DEF Boot
<1>3. CASE ProcessEnds
  BY <1>0, <1>3 DEF ProcessEnds, Unused, Resting
<1>4. CASE UNCHANGED vars
  BY <1>0, <1>4 DEF vars
<1>. QED  BY <1>1, <1>2, <1>3, <1>4 DEF Next

\* The parts of the invariant that relate services, handlers and the pointer.
Links ==
  /\ SharingListens
  /\ OneListener
  /\ Holding
  /\ StopUnderWay
  /\ RequestOwns
  /\ ProcessOwns
  /\ DownIsEmpty

\* Each step of Stop keeps the links: the service it works on stops sharing, and
\* nothing else changes but the handler's own place.
LEMMA StopStep ==
  ASSUME TypeOK, Links, NEW r \in Reqs, NEW h \in Svcs, NEW step \in Steps,
         req[r].held = h, proc = "up", UNCHANGED <<proc, peering>>,
         Go(r, step), step \in {"closing", "waiting", "stopped"},
         req[r].pc = "stopping" => step = "closing",
         req[r].pc \in {"stopping", "closing", "waiting"},
         \A s \in Svcs \ {h} : service'[s] = service[s],
         service'[h].listening => service[h].listening,
         ~service'[h].sharing, service'[h].stop # "not"
  PROVE  Links'
<1>. USE DEF TypeOK, Links
<1>1. /\ req'[r].pc = step /\ req'[r].held = h
      /\ \A q \in Reqs \ {r} : req'[q] = req[q]
  BY DEF Go
<1>2. \A s \in Svcs :
        /\ service'[s].sharing => s # h /\ service'[s] = service[s]
        /\ service'[s].listening => service[s].listening
  OBVIOUS
<1>3. SharingListens' /\ OneListener' /\ DownIsEmpty'
  BY <1>2 DEF SharingListens, OneListener, DownIsEmpty
<1>4. Holding'
  BY <1>1 DEF Holding
<1>5. StopUnderWay'
  <2>1. ASSUME NEW q \in Reqs \ {r}, req'[q].pc \in {"closing", "waiting"}
        PROVE  service'[req'[q].held].stop # "not"
    BY <1>1, <2>1 DEF StopUnderWay, Holding
  <2>. QED  BY <1>1, <2>1 DEF StopUnderWay
<1>6. RequestOwns'
  BY <1>1, <1>2, ToggleAssumption DEF RequestOwns
<1>7. ProcessOwns'
  <2>. SUFFICES ASSUME NEW s \in Svcs, service'[s].sharing, service'[s].ctx = Process
                PROVE  FALSE
    BY DEF ProcessOwns
  <2>1. service[s].sharing /\ service[s].ctx = Process /\ s # h
    BY <1>2
  <2>. QED  BY <2>1, ToggleAssumption DEF ProcessOwns
<1>. QED  BY <1>3, <1>4, <1>5, <1>6, <1>7

\* The three steps of Stop are such steps.
LEMMA StopLinks ==
  ASSUME TypeOK, Links, NEW r \in Reqs,
         StopBegins(r) \/ StopCloses(r) \/ StopReturns(r)
  PROVE  Links'
<1>. DEFINE h == req[r].held
<1>1. h \in Svcs
  BY DEF StopBegins, StopCloses, StopReturns, At, Links, Holding
<1>2. service \in [Svcs ->
                           [listening : BOOLEAN, sharing : BOOLEAN,
                            ctx : Reqs \cup {Process},
                            stop : {"not", "running", "done"}]]
  BY <1>1 DEF TypeOK
<1>3. CASE StopBegins(r)
  <2>1. /\ \A s \in Svcs \ {h} : service'[s] = service[s]
        /\ service'[h].listening = service[h].listening
        /\ ~service'[h].sharing /\ service'[h].stop # "not"
    BY <1>1, <1>2, <1>3 DEF StopBegins, FirstOfStop
  <2>2. /\ Go(r, "closing") /\ UNCHANGED <<proc, peering>> /\ proc = "up"
        /\ req[r].pc = "stopping"
    BY <1>3 DEF StopBegins, At
  <2>. QED  BY <1>1, <2>1, <2>2, StopStep DEF Steps
<1>4. CASE StopCloses(r)
  <2>1. /\ \A s \in Svcs \ {h} : service'[s] = service[s]
        /\ ~service'[h].listening
        /\ ~service'[h].sharing /\ service'[h].stop = service[h].stop
    BY <1>1, <1>2, <1>4 DEF StopCloses
  <2>2. /\ Go(r, "waiting") /\ UNCHANGED <<proc, peering>> /\ proc = "up"
        /\ req[r].pc = "closing"
    BY <1>4 DEF StopCloses, At
  <2>3. service[h].stop # "not"
    BY <2>2 DEF Links, StopUnderWay
  <2>. QED  BY <1>1, <2>1, <2>2, <2>3, StopStep DEF Steps
<1>5. CASE StopReturns(r)
  <2>1. /\ \A s \in Svcs \ {h} : service'[s] = service[s]
        /\ service'[h].listening = service[h].listening
        /\ service'[h].sharing = service[h].sharing /\ service'[h].stop = "done"
    BY <1>1, <1>2, <1>5 DEF StopReturns
  <2>2. /\ Go(r, "stopped") /\ UNCHANGED <<proc, peering>> /\ proc = "up"
        /\ req[r].pc = "waiting"
    BY <1>5 DEF StopReturns, At
  <2>3. ~service[h].sharing
    BY <1>1, <2>2 DEF Links, StopUnderWay, SharingListens
  <2>. QED  BY <1>1, <2>1, <2>2, <2>3, StopStep DEF Steps
<1>. QED  BY <1>3, <1>4, <1>5

\* Every step keeps the links.
LEMMA StepLinks == IInv /\ [Next]_vars => Links'
<1>. SUFFICES ASSUME IInv, [Next]_vars PROVE Links'
  OBVIOUS
<1>. USE ToggleAssumption DEF TypeOK, Links, SharingListens, OneListener, Holding,
         StopUnderWay, RequestOwns, ProcessOwns, DownIsEmpty, At, Go, GoWith
<1>0. TypeOK /\ TypeOK' /\ Links
  BY StepType DEF IInv
<1>1. ASSUME NEW r \in Reqs, Handle(r) PROVE Links'
  <2>1. CASE On(r)
    BY <1>0, <2>1 DEF On
  <2>2. ASSUME NEW s \in Svcs, StartPeering(r, s) PROVE Links'
    BY <1>0, <2>2 DEF StartPeering, Started, ServiceContext, PortFree, Forgotten
  <2>3. CASE StartFails(r)
    BY <1>0, <2>3 DEF StartFails
  <2>4. CASE Install(r)
    BY <1>0, <2>4 DEF Install
  <2>5. CASE Off(r)
    BY <1>0, <2>5 DEF Off
  <2>6. CASE Clear(r)
    BY <1>0, <2>6 DEF Clear
  <2>7. CASE StopBegins(r) \/ StopCloses(r) \/ StopReturns(r)
    BY <1>0, <2>7, StopLinks
  <2>10. CASE StopAgain(r)
    BY <1>0, <2>10 DEF StopAgain
  <2>11. CASE Remember(r) \/ RememberFails(r)
    <3>1. Go(r, "answering") /\ UNCHANGED <<proc, peering, service>>
      BY <2>11 DEF Remember, RememberFails
    <3>2. proc = "up" /\ req[r].pc \in {"installed", "stopped"}
      BY <2>11 DEF Remember, RememberFails
    <3>. QED  BY <1>0, <3>1, <3>2
  <2>12. CASE Answer(r)
    BY <1>0, <2>12 DEF Answer, Cancelled, Resting
  <2>13. CASE ClientGone(r)
    BY <1>0, <2>13 DEF ClientGone, Cancelled
  <2>. QED  BY <1>1, <2>1, <2>2, <2>3, <2>4, <2>5, <2>6, <2>7, <2>10,
               <2>11, <2>12, <2>13 DEF Handle
<1>2. ASSUME NEW forced \in BOOLEAN, NEW s \in Svcs, Boot(forced, s) PROVE Links'
  BY <1>0, <1>2 DEF Boot, Started, Unused, Resting
<1>3. CASE ProcessEnds
  BY <1>0, <1>3 DEF ProcessEnds, Unused, Resting
<1>4. CASE UNCHANGED vars
  BY <1>0, <1>4 DEF vars
<1>. QED  BY <1>1, <1>2, <1>3, <1>4 DEF Next

\* IInv holds in every state the process reaches.
THEOREM Invariant == Spec => []IInv
<1>1. IInv /\ [Next]_vars => IInv'
  BY StepType, StepLinks DEF IInv, Links
<1>. QED  BY InitIInv, <1>1, PTL DEF Spec

\* Whatever handlers run at once, a service that shares is the one the dashboard
\* reports or is in the hands of a handler: never on behind a dashboard that
\* says sharing is off.
THEOREM NeverSharesInSecret == Spec => []SharingIsReported
<1>1. IInv => SharingIsReported
  BY DEF IInv, TypeOK, SharingIsReported, RequestOwns, ProcessOwns
<1>. QED  BY Invariant, <1>1, PTL

\* Two services of the process never share at once.
THEOREM AtMostOneShares == Spec => []OneServiceShares
<1>1. IInv => OneServiceShares
  BY DEF IInv, OneServiceShares, SharingListens, OneListener
<1>. QED  BY Invariant, <1>1, PTL

\* The types of the toggle's state, for any number of requests and services.
THEOREM TypeCorrect == Spec => []TypeOK
<1>1. IInv => TypeOK
  BY DEF IInv
<1>. QED  BY Invariant, <1>1, PTL
=============================================================================
