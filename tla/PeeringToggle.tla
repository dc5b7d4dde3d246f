---------------------------- MODULE PeeringToggle ----------------------------
(***************************************************************************)
(* Peer sharing switched on and off while LAN Sheriff runs: the handlers   *)
(* of internal/api/dispatch.go, the service pointer of internal/api/api.go *)
(* and the start-up of internal/cli/serve.go.                              *)
(*                                                                         *)
(* HTTP handlers run concurrently.  The pointer has a lock of its own, and *)
(* nothing holds it from a handler's first look at the pointer to its last *)
(* write.  What a service does between its start and its stop is the       *)
(* module DispatchSession.                                                 *)
(***************************************************************************)
EXTENDS Naturals, FiniteSets

CONSTANTS
  Reqs,     \* HTTP requests in flight at once
  Svcs,     \* handles of dispatch.Service values, reused once forgotten
  Process,  \* the context of the process, as opposed to a request's
  NoSvc     \* the nil pointer

ASSUME ToggleAssumption == Process \notin Reqs /\ NoSvc \notin Svcs

VARIABLES
  proc,        \* "down" or "up"
  peering,     \* s.peering: the service the dashboard reports, or none
  service,     \* the state of every service
  req,         \* what each handler is about to do, and the service it holds
  remembered   \* the setting dispatch_enabled is "on" in the database

vars == <<proc, peering, service, req, remembered>>

\* ctx is what the service's context derives from; sharing says that it is not
\* cancelled, so that the service accepts, dials, merges and offers.
Unused == [listening |-> FALSE, sharing |-> FALSE, ctx |-> Process, stop |-> "not"]

Resting == [pc |-> "idle", held |-> NoSvc]

Steps == {"idle", "starting", "started", "installed", "clearing", "stopping",
          "closing", "waiting", "stopped", "answering"}

\* The types; the values dispatch_enabled may have are on and off.
TypeOK ==
  /\ proc \in {"down", "up"}
  /\ peering \in Svcs \cup {NoSvc}
  /\ service \in [Svcs -> [listening : BOOLEAN, sharing : BOOLEAN,
                           ctx : Reqs \cup {Process},
                           stop : {"not", "running", "done"}]]
  /\ req \in [Reqs -> [pc : Steps, held : Svcs \cup {NoSvc}]]
  /\ remembered \in BOOLEAN

Init ==
  /\ proc = "down"
  /\ peering = NoSvc
  /\ service = [s \in Svcs |-> Unused]
  /\ req = [r \in Reqs |-> Resting]
  /\ remembered = FALSE

-----------------------------------------------------------------------------
At(r, step) == proc = "up" /\ req[r].pc = step

Go(r, step) == req' = [req EXCEPT ![r].pc = step]

GoWith(r, step, s) == req' = [req EXCEPT ![r] = [pc |-> step, held |-> s]]

\* The listening address is fixed: one listener at a time can have it.
PortFree == \A s \in Svcs : ~service[s].listening

\* No pointer leads to the service any more.
Forgotten(s) ==
  /\ ~service[s].listening /\ ~service[s].sharing
  /\ peering # s
  /\ \A r \in Reqs : req[r].held # s

\* Start: bind, then derive the service's context from the one it was given.
Started(s, ctx) ==
  service' = [service EXCEPT ![s] =
    [listening |-> TRUE, sharing |-> TRUE, ctx |-> ctx, stop |-> "not"]]

\* The services whose context derives from r's request die with the request;
\* their listeners stay open.
Cancelled(r) ==
  [s \in Svcs |-> IF service[s].ctx = r THEN [service[s] EXCEPT !.sharing = FALSE]
                  ELSE service[s]]

-----------------------------------------------------------------------------
\* POST /api/dispatch/enabled {"enabled": true}

\* s.Peering() == nil.
On(r) ==
  /\ At(r, "idle")
  /\ peering = NoSvc
  /\ Go(r, "starting")
  /\ UNCHANGED <<proc, peering, service, remembered>>

\* The context the handler hands to StartPeering.
ServiceContext_Process(r) == Process
ServiceContext_Nil(r) == NoSvc
ServiceContext(r) == r

StartPeering(r, s) ==
  /\ At(r, "starting")
  /\ PortFree
  /\ Forgotten(s)
  /\ Started(s, ServiceContext(r))
  /\ GoWith(r, "started", s)
  /\ UNCHANGED <<proc, peering, remembered>>

\* The address is taken, or the identity cannot be read: status 500.
StartFails(r) ==
  /\ At(r, "starting")
  /\ Go(r, "answering")
  /\ UNCHANGED <<proc, peering, service, remembered>>

Install(r) ==
  /\ At(r, "started")
  /\ peering' = req[r].held
  /\ Go(r, "installed")
  /\ UNCHANGED <<proc, service, remembered>>

-----------------------------------------------------------------------------
\* POST /api/dispatch/enabled {"enabled": false}

\* d := s.Peering(); d != nil.
Off(r) ==
  /\ At(r, "idle")
  /\ peering # NoSvc
  /\ GoWith(r, "clearing", peering)
  /\ UNCHANGED <<proc, peering, service, remembered>>

Clear(r) ==
  /\ At(r, "clearing")
  /\ peering' = NoSvc
  /\ Go(r, "stopping")
  /\ UNCHANGED <<proc, service, remembered>>

\* Stop, once: cancel the service's context, then close its listener.
FirstOfStop_Close(s) == [service EXCEPT ![s].listening = FALSE, ![s].stop = "running"]
FirstOfStop(s) == [service EXCEPT ![s].sharing = FALSE, ![s].stop = "running"]

StopBegins(r) ==
  /\ At(r, "stopping")
  /\ service[req[r].held].stop = "not"
  /\ service' = FirstOfStop(req[r].held)
  /\ Go(r, "closing")
  /\ UNCHANGED <<proc, peering, remembered>>

StopCloses(r) ==
  /\ At(r, "closing")
  /\ service' = [service EXCEPT ![req[r].held] =
       [@ EXCEPT !.listening = FALSE, !.sharing = FALSE]]
  /\ Go(r, "waiting")
  /\ UNCHANGED <<proc, peering, remembered>>

\* The goroutines of the service have returned.
StopReturns(r) ==
  /\ At(r, "waiting")
  /\ service' = [service EXCEPT ![req[r].held].stop = "done"]
  /\ Go(r, "stopped")
  /\ UNCHANGED <<proc, peering, remembered>>

\* sync.Once: a second caller waits for the first and does nothing.
StopAgain(r) ==
  /\ At(r, "stopping")
  /\ service[req[r].held].stop = "done"
  /\ Go(r, "stopped")
  /\ UNCHANGED <<proc, peering, service, remembered>>

-----------------------------------------------------------------------------
\* recordPeeringChange: remember the choice.
Remember(r) ==
  /\ At(r, "installed") \/ At(r, "stopped")
  /\ remembered' = At(r, "installed")
  /\ Go(r, "answering")
  /\ UNCHANGED <<proc, peering, service>>

\* A write that fails is logged, and the switch stands.
RememberFails(r) ==
  /\ At(r, "installed") \/ At(r, "stopped")
  /\ Go(r, "answering")
  /\ UNCHANGED <<proc, peering, service, remembered>>

\* The handler returns, and net/http cancels the request's context.
Answer(r) ==
  /\ At(r, "answering")
  /\ service' = Cancelled(r)
  /\ req' = [req EXCEPT ![r] = Resting]
  /\ UNCHANGED <<proc, peering, remembered>>

\* The client closes its connection while the handler works.
ClientGone(r) ==
  /\ proc = "up" /\ req[r].pc # "idle"
  /\ service' = Cancelled(r)
  /\ UNCHANGED <<proc, peering, req, remembered>>

-----------------------------------------------------------------------------
\* serve: the flag or the remembered choice starts a service of the process.
Boot(forced, s) ==
  /\ proc = "down"
  /\ proc' = "up"
  /\ IF forced \/ remembered
     THEN Started(s, Process) /\ peering' = s
     ELSE UNCHANGED <<service, peering>>
  /\ UNCHANGED <<req, remembered>>

\* A shutdown, a crash: only the database survives.
ProcessEnds ==
  /\ proc = "up"
  /\ proc' = "down"
  /\ peering' = NoSvc
  /\ service' = [s \in Svcs |-> Unused]
  /\ req' = [r \in Reqs |-> Resting]
  /\ UNCHANGED remembered

Handle(r) ==
  \/ On(r)
  \/ \E s \in Svcs : StartPeering(r, s)
  \/ StartFails(r)
  \/ Install(r)
  \/ Off(r)
  \/ Clear(r)
  \/ StopBegins(r)
  \/ StopCloses(r)
  \/ StopReturns(r)
  \/ StopAgain(r)
  \/ Remember(r)
  \/ RememberFails(r)
  \/ Answer(r)
  \/ ClientGone(r)

Next ==
  \/ \E r \in Reqs : Handle(r)
  \/ \E forced \in BOOLEAN, s \in Svcs : Boot(forced, s)
  \/ ProcessEnds

Spec == Init /\ [][Next]_vars

-----------------------------------------------------------------------------
\* Properties

Quiet == \A r \in Reqs : req[r].pc = "idle"

\* A service that shares is the one the dashboard reports, or a handler that
\* is about to report it or to stop it holds it: sharing is never on in secret
\* behind the privacy statement of a dashboard that says it is off.
SharingIsReported ==
  \A s \in Svcs : service[s].sharing =>
    \/ peering = s
    \/ \E r \in Reqs : req[r].pc # "idle" /\ req[r].held = s

\* No two services share at once: they have one key, one set of pairings and
\* one set of peer rows between them.  A stop cancels before it gives the
\* address back, and a start takes the address before it does anything else.
OneServiceShares ==
  \A s, t \in Svcs : service[s].sharing /\ service[t].sharing => s = t

\* What the dashboard reports as running runs, once no handler is under way.
ReportedIsSharing ==
  Quiet /\ peering # NoSvc => service[peering].sharing
=============================================================================
