# LAN Sheriff in TLA+

Specifications of LAN Sheriff, a program that watches what a machine, or with
Patrol Mode a network, is talking to, keeps it in a SQLite database, serves a
dashboard, and can share hourly summaries with paired instances ("the
Dispatch"). Paths below are relative to `src/`.

The models are translated from the Go and TypeScript sources. What the sources do
not decide (the order of goroutines and of answers, what a socket table holds, what a peer says, whether a
write works) is left open and TLC, or a proof, covers every choice.

## 1. The system

### 1.1 Components

| component | sources (`internal/`) | state | operations |
|---|---|---|---|
| Capture, Deputy Mode | `capture/deputy` | none between polls | poll the socket table, put a snapshot on the engine's channel |
| Capture, Patrol Mode | `capture/patrol` | table of conversations | read packets, report conversations, expire or evict them, flush at shutdown |
| Pipeline | `pipeline/engine.go`, `normalizer.go` | channel, tracked flows, staged rows | diff snapshots, merge deltas, stage by key, flush every second, final flush |
| Live feed | `pipeline/bus.go`, `api/stream.go` | subscribers' queues | publish, dropping the oldest; subscribe, cancel |
| Store: flows | `store/store.go` | `flows`, `endpoints`, `dns_events` | upsert by hash, resolve placeholder devices, queries, wipe |
| Store: history | `store/rollup.go`, `prune.go` | `rollups`, the cursor | roll complete hours up, prune by age and size, timeline |
| Store: devices | `store/observe.go`, `identity.go` | `devices`, addresses, services | record a sighting, resolve or merge identities, presence, type inference, edits |
| Discovery | `discover` | timers | neighbour table, mDNS, SSDP, sweeps: each find is a sighting |
| Findings | `store/findings.go`, `store/suspicion.go`, `suspicion` | `findings` | raise, refresh, clear, trust, expire, announce |
| Notifier | `notify` | last message, messages in the hour | send, or drop above the rate |
| Enrichment | `enrich` | caches | names, places and owners of addresses |
| Dispatch: sessions | `dispatch/service.go`, `conn.go` | live table, pairing window, lifecycle | accept, dial, register, merge, ping, Start, Stop |
| Dispatch: pairing | `dispatch/pairing.go`, `joincode.go` | one window, its code | show a code, join with it, accept, pin |
| Dispatch: addresses | `dispatch/beacon.go` | a peer's last address | beacon, relocate |
| Peers | `store/peers.go` | `peers`, `peer_summaries` | add, suspend, remove, merge summaries, expire them |
| Toggle | `api/dispatch.go`, `api/api.go`, `cli/serve.go` | pointer to the service, the setting | switch sharing on and off, start at boot |
| Authentication | `auth`, `api/auth.go` | hash, sessions, attempts | first password, log in and out, lock out |
| API, install, packaging | `api`, `cli`, `packaging` | none of their own | views, settings, service control |

The dashboard is one page of Preact (`web/src/`):

| component | sources | state | operations |
|---|---|---|---|
| Session and feed | `app.tsx`, `gate.tsx`, `api.ts` | what the page knows of its session, its retry timer, the event stream | check, sign in, a 401 of any request, reconnect, becoming visible |
| Frame | `app.tsx`, `help.tsx` | view and URL, theme, banner, what Help knows of the machine | navigate, go back, offer a device |
| Filter and search | `app.tsx`, `toolbar.tsx`, `api.ts` | the shared filter; the field, its results | narrow, scrub, refresh, search, pick |
| Peer layers | `app.tsx`, `layerbar.tsx` | peers offered, layer chosen, its rows, the selection | poll, choose, select |
| Watchtower map | `map.ts` | zoom, offset, projected points, base layer, canvas | resize, zoom, drag, set data, draw what changed |
| Timeline, chatter, Precinct Map | `timeline.tsx`, `chatter.tsx`, `precinct.tsx` | what each was last answered | poll, choose, lay out |
| Wanted List, polling | `wanted.tsx`, `freshness.tsx`, `visibility.ts` | rows, the load that runs | poll, clear, trust |
| Roster | `roster.tsx` | devices, the one open, the draft of its label, peers' devices | poll, open, type, save on leaving, load a layer |
| Alerts | `bolo.tsx` | the queue; what was announced, in the browser | poll, announce, dismiss |
| Readouts | `widgets.tsx`, `health.tsx`, `app.tsx` | a statement each, the worst findings | poll, rank |
| Language | `i18n/index.tsx`, `langpicker.tsx` | language, texts held | choose, load |
| Settings, pairing screens | `settings.tsx`, `dispatch.tsx`, `clip.tsx` | panel, code on display, code being typed | poll, pair, renew, cancel, join |

### 1.2 How they interact

* The capture sources, each a goroutine, send on one bounded channel. The engine
  is its only reader and keeps the normalizer and the staged rows to itself.
* Engine, discovery, rollups, pruning, presence, suspicion, the Dispatch and the
  HTTP handlers all write one database. A statement or transaction is atomic; a
  handler that reads in one and writes in the next is not.
* The dashboard's handlers run concurrently, share the service pointer under a
  lock of its own, and live in a context that ends with the request.
* The Dispatch runs one goroutine per connection (plus a ticker for pings and one
  for summaries), an accept loop and a dial loop; `s.mu` protects the live table
  and the pairing window, nothing protects the peers table between two queries.
* Two instances interact through one TLS connection with pinned keys.
* The page asks the service over HTTP. Nothing orders two requests, and an answer
  is applied to the page as it is by then; a view is told that it was left only
  where its effect returns a cleanup. What the views share is the filter, the
  layer, the selection and the address; the rest is their own.

### 1.3 What is hard, and what makes each part correct

* **Sessions**: dial against accept, unregister against register, `Stop` against
  handshakes, unpairing against merges. Correct: one session per peer, at most
  `MaxPeers`, only authenticated peers in the live table, `Stop` returns and leaves
  no connection open, a reachable peer is served again, nothing but the operator
  restores a suspended peer.
* **Pairing**: each side stores by itself, either may fail, a code may be used at
  once from two machines. Correct: nobody is pinned without a code one of the two
  showed and the other entered, a code is good once, whoever entered one gets an
  answer.
* **Toggle**: concurrent switches, a request's context, a stop that takes time.
  Correct: what shares is reported, one service shares, what is reported runs.
* **Pipeline**: flicker, close and reopening within one flush, failing writes,
  identities learnt late, a shutdown at any point. Correct: closes wait for the
  grace, the table and the normalizer agree up to what is staged or lost, one
  flow is one row, shutdown ends.
* **History**: late flows, a cursor that lags, pruning underneath. Correct: an
  hour's totals survive the raw rows they came from.
* **Devices and findings**: check and write in different statements; announcement
  against commit; clearing against recurrence.
* **Page**: a session that ends under it, a service that comes back, feeds replaced
  while they dial. Correct: no screen outlives its session or stays blank, one
  dashboard listens to one feed.
* **Views**: answers that overtake one another, fields typed in while polls replace
  what is around them, caches that must be dropped. Correct: what is shown belongs
  to what was asked, comes to be what the service has, and what was typed is saved
  for what it was typed for.

`PROJECT.json` lists the hazards one by one, at their lines, with the properties
that cover them.

## 2. The modules

| module | models |
|---|---|
| `DispatchSession` | the session service of one instance, against open peers |
| `DispatchSession_proofs` | its theorems |
| `PairingConsent` | what pairing promises, without messages (abstract) |
| `PairingExchange` | pairing between machines, message by message |
| `PairingExchange_proofs` | that it implements `PairingConsent`, and more |
| `PeeringToggle` | peer sharing switched on and off |
| `PeeringToggle_proofs` | its theorems |
| `FlowPipeline` | from an observation to a row of `flows` |
| `FlowPipeline_proofs` | its theorems |
| `FlowHistory` | from a row of `flows` to the rollups, until it is pruned or wiped |
| `FlowHistory_proofs` | its theorems |
| `PageSession` | the page against a service that stops and forgets |
| `Shell` | view, address, theme, what stands around a view, Help's facts and installs |
| `TowerData`, `SearchBox` | the filter with its refreshes; the search |
| `PeerLayers` | whose traffic is shown and what is selected |
| `WatchtowerMap` | zoom, caches and canvas of the map |
| `Timeline`, `RadioChatter`, `PrecinctMap` | the views of those names |
| `WantedList` | the Wanted List and `usePolling` |
| `RosterView` | the roster and a label being typed |
| `PeerDevices` | the devices of peers below it |
| `Notices` | findings and their alerts |
| `MapAndLists_proofs` | theorems of `WatchtowerMap`, `RosterView`, `WantedList` and `Notices` |
| `Readouts` | anything that polls one fact and states it |
| `MostWanted` | the ranking of the findings in the sidebar |
| `Languages` | the language of the page |
| `DispatchScreen` | Settings, peers, and the screen that shows a code |
| `JoinDialog` | the field a code is typed in |
| `Page` | `PageSession` with the filter, layers, readouts, language and pairing screen |
| `Page_proofs` | theorems of `PageSession` and of `Page` |
| `Dashboard` | the views of the dashboard side by side |
| `Dashboard_proofs` | theorems of `Dashboard` and lemmas about its other views |
| `MC...` | the other instances for TLC, with the symmetries |

A definition named `Op_` and a word (`Op_Slip`, `MayRegister_Again`), just before
`Op`, is `Op` with a mistake a programmer could make. No specification uses it;
put in the place of `Op` it must make a property fail, which shows that the
property says something about the code.

### 2.1 DispatchSession

`svc` is the lifecycle of the `Service` value, `live` is `s.live`, `pairing` the
window `s.pairing`, `trust` and `rows` the tables `peers` and `peer_summaries`.
`conn` has one record per goroutine serving a connection: its `phase` is where
the goroutine is (`serveInbound`: accepted, opening, claiming, recording; `dial`:
dialling; `run`: ready, greeting, serving, merging), `known` what the snapshot of
keys said, `first` the opening message, `closed` whether our side closed the
connection. A step is what happens under one lock, in one statement or
transaction, or between two points where the goroutine blocks. `MergeCheck` and
`MergeWrite` are therefore two steps (`store/peers.go:272` and the transaction),
as are `Cancel`, `Sweep` and `Stopped` for `Stop`.

`unregister` is two steps, `Leave` (the entry is struck off under the lock) and
`HangUp` (the transport is closed), with the phases `leaving`, or `failing` when the
hello could not be sent, between them. The phase `ending` is of the two helpers of a
session, `keepAlive` and `sendSummaries`: `run` starts them by a plain `go`, so `Stop`
does not wait for them, and one may still be in a query when it has returned. That is
why `StoppedIsSilent` says that no connection is open, and not that nothing runs.
`CutOff` is a session that this side ends while its transport stands.

A peer is open: it may open with any message, vanish, or stay for ever. A crash
leaves only the tables. Left out: addresses, the rate limit, message contents and
the summaries sent out, which change no state here.

### 2.2 PairingExchange and PairingConsent

`exch` holds both sides of every exchange: where the joining side
(`JoinWithCode`) and the displaying side (`serveInbound`, `completePairing`,
`AcceptPairing`) are, and what is on the wire between them. A proof is the code it
was made from, because an HMAC over the TLS binding verifies for nothing else; the
key tag of a code is the machine that shows it. Connections break between any two
steps, stores fail, machines crash. `minted` bounds the codes shown.

`PairingConsent` has only the codes on display, the codes entered, the codes
accepted and the pins. A pin follows an acceptance, an acceptance consumes the
code and needs somebody who entered it. `KeepsPromise` is that specification
under the mapping of `Consent`.

### 2.3 PeeringToggle

A handler's steps are its reads and writes of the pointer, the start of a service,
the parts of `Stop` and the write of the setting. A service's `sharing` is the
life of its context, which derives from the request's (`api/dispatch.go:89`) or
from the process's (`cli/serve.go`). Services and requests are handles that are
used again.

### 2.4 FlowPipeline

A source observes (`Sample`, `Report`), holds what it observed until the channel
has room (`Send`), and at shutdown gives it up (`GiveUp`) and ends (`Quit`).
`Handle` is one iteration of the engine's loop with everything it calls: the
diff with its misses and closes, the staging by `StoreKey`. `Flush` takes what is
staged and writes it, or loses it. The upsert works by `FlowHash`, which contains
the device as the store resolves it at that moment; `Discover` is a sighting that
ties an address to a device and adopts the rows under the placeholder, which keep
their hash. What a source sees is arbitrary, so Patrol's assembler and the
operating system are covered whatever they do.

The clock counts polls (`now`): two flows of one connection have different starts
unless they are of the same poll. `absent` and `lost` are history variables: how
long a connection has been missing, in polls as handled, and the flows whose
staged change went down with a failed write. Two sources that see a connection
start at one instant share a row, and the later of them decides whether it is
open; the properties say so.

### 2.5 FlowHistory

Four goroutines work on the same tables: the engine's flush in two transactions
(`FlushEndpoints`, `FlushFlows`), the rollup (`RollStart` reads the cursor and the
clock, `RollBucket` is the transaction of `rollupBucket`, `RollAdvance` the write
of the cursor), the pruner (one step per statement; the size cap repeats
`PruneOldest`) and the wipe (one step per table). `RollStop`, `PruneStop`,
`WipeFails` and the argument of the flush are failures, `Restart` is the end of
the process anywhere. A row is its `ts_last`, which every further sighting moves;
a rollup remembers which flows its count is made of, so that counting twice, or
counting what was never there, can be seen.

`home` is the hour a flow's row is in, or was in when it was deleted. `excused`
names the flows the code knowingly does not count: written after their hour was
aggregated (a flush at the turn of the hour), deleted before it was, caught in a
wipe. Time may pass between any two steps, as it does for a machine that sleeps, and a
`Close` stages a flow with the time of its last sighting, so that what is flushed may be
older than the raw retention. `RecentFlowHasEndpoint` is therefore about rows within
retention; of the others, which the pruner is about to take, it is false
(`FlowHasEndpoint`, among the findings of section 3).

### 2.6 The page

A request is three things at three times: it is sent, the service reads what it
answers with, and the answer is applied. `PageSession`, `WantedList`, `RosterView`
and `DispatchScreen` keep the three apart; where only the last matters to the view
(`TowerData`, `Timeline`, `RadioChatter`, `SearchBox`, `PeerLayers`, `Readouts`) an
answer is what it was asked for, and sets of them land in any order, which is all
HTTP promises. The framework renders after a handler has run, so a handler and the
state it sets are one action, and the effects that its change calls for run with it.

`PageSession`: `auth` is what `checkAuth` last set, `check` the check in flight
(`checking` drops another), `retry` the timer, `post` the sign-in or setup, `poll` any
one request of the dashboard, `stream` one record per event stream, `live` the
indicator. The service stops, starts, and forgets its sessions; somebody may sign in
elsewhere. Waits are not measured: a timer that is set may fire.

`Shell` has the browser's history with the `hashchange` event as a step of its own,
because a click may come before it. `TowerData` identifies a request with its query
string, as the effect does. In `DispatchScreen` the pairing completes at the service,
which only the poll's count of peers can tell, and Settings may close with a call in
flight. A renewal is two calls, one that closes the old window and one that opens the
next, whatever came of the first, and it takes for its baseline the count of the render
its button was pressed in. Any request or answer may be lost; a toggle that failed asks
nothing anew. `JoinDialog` is typed in character by character at any place: `Edited` is what
the browser does, `FormatJoinCode` and `CaretAfterFormat` are the code; `behind`, a
history variable, is what the reader has typed before the caret. `Notices` tells
findings of one row id apart by `life`, which the program cannot.

`WatchtowerMap` has one axis for both, in half pixels so that centring stays in the
integers, and for every picture (projected points, base layer, canvas) whether what it
was made from still holds. `PrecinctMap` does the same with its layout. `MostWanted` is
the pure ranking of one answer, over every answer of up to four findings, three
scores and two times; that answers are late is in `Readouts`. `PeerDevices` keeps the
cancelled loads, whose answers come all the same. In the map
the pointer may ask for any offset in `Wants`, more than a pointer could.

The parts share so little that their product would only multiply: `Page` and
`Dashboard` choose one part, `focus`, in the first state and let that one move.
What they do share is in the parts themselves (the filter in each view that has it,
the visibility of the page, navigation, which ends a view).
`Page` extends `PageSession`, and `Dashboard` the map, `WantedList`, `RosterView` and
`Notices` (a part that is not there is in a state in which their theorems hold). The
other parts are instances, and both modules state the assumptions of those about their
constants as one of their own, `PartsAssumption`, which TLC evaluates and the proofs
use. The values TLC takes for the operators and records among the constants are in
`MCDashboard`, so that the theorems are of the very definitions TLC checks.

## 3. What TLC checks

| run | bounds | shows |
|---|---|---|
| `session_safety` | 2 peers, 2 connections, 1 place, one peer dialled | the live table, the goroutines and the trust column stay consistent |
| `session_live` | 1 peer, 2 connections | `Stop` returns if peers leave; a reachable peer is served again and again |
| `session_stop_hangs` | 1 peer, 2 connections | finding: `Stop` can wait for ever |
| `toggle_safety` | 3 requests, 3 services | what shares is reported or in hand; one service shares |
| `toggle_dead` | 3 requests, 3 services | finding: a service dies with the request that started it |
| `pairing_promise` | 2 machines, 2 exchanges, 2 codes | pairing implements `PairingConsent`; whoever joins is answered; what a handle holds fits where its two sides are |
| `flow_safety` | 1 own connection, 1 of another machine, grace 2, channel of 1, 4 polls, 1 lost flow before a write must work | closes wait for the grace, table and normalizer agree, shutdown never hangs |
| `flow_two_rows` | 1 connection of another machine, 2 polls | finding: one flow, two rows |
| `history_safety` | 1 flow, hours of 2 ticks, raw retention 2 ticks, rollups 3, 6 ticks | rollups count what was there, once; the pruner takes no endpoint from a row within retention |
| `page` | 2 streams, 3 counted failures, one peer, 2 codes, 2 polls in flight | what a page left alone comes to, whatever landed late |
| `dashboard` | 2 devices, findings, layers, ranges, or loads as each view needs; 3 machines; 4 findings of 3 scores; codes of 5 characters in groups of 2; 2 frames, zoom 3 | what is shown belongs to what was asked; caches, caret, drafts |
| `bolo_after_wipe` | ids up to 2, one wipe | finding: after a wipe new findings are not announced |

Why the bounds are enough to be interesting: two connections are what a race for
one peer needs, two peers and one place what the limit needs, and a handle is used
again as soon as its goroutine ends, so histories are unbounded. Three requests
let two switch on while a third switches off. Two exchanges and two codes let a
code be entered twice and be replaced. With grace 2, four polls hold an
appearance, a flicker, a close and a reopening; a channel of one makes both
sources block. Handles are symmetric in the runs without liveness. Bounds of the
models themselves, named in the modules: `MaxCodes`, `MaxRounds`, `MaxLost`,
`MaxNow`. In `history_safety` the one flow is seen again at any time, so it
moves from hour to hour, is pruned and comes back; ticks 2 to 6 are two hours that
can be complete and the current one, which is room for an hour rolled up, one pruned
before it is, and a flow staged at the start and written when its retention is over. The raw retention is
as long as an hour, the least the settings allow (`api/views.go:281`).

For the page: two handles make one feed replace another while it dials. Two requests
in flight are what overtaking needs, and two values to tell which of them was applied.
Three zoom steps and two frames, one with land wider than it and one narrower, reach
every branch of the clamp. A code of five in groups of two has a full group, a half
one, and an end where the dash must not be. `MaxAttempts`, `MaxPolls`, `MaxCalls`,
`MaxFlights`, `MaxLoads`, `MaxChanges`, `MaxEdits`, `MaxHistory`, `MaxEvents`, `MaxId`,
`MaxWipes` bound what would otherwise grow. `MaxRows`, `MaxSeen` and `MaxQueue` are the
limits the program has itself, made small: with two ids and one of them remembered, a
finding is forgotten and announced again, which `NothingAnnouncedTwice` grants in so
many words (`IsForgotten`).

**Deadlock** is checked wherever the system has no right to stop. In
`flow_safety` that is the statement that a shutdown does not hang: a source parked
on the channel notices the cancelled context, and the only state without another
step is the end. `PairingExchange` stops when its codes are used up.

**Fairness.** `session_live` assumes that a goroutine goes on when it can (sends,
handshakes and first messages have deadlines, locks are short) and that `Stop`,
once called, runs on. That a peer's end of a session ends, or that a peer is
reachable again and again, is a hypothesis of the property and not of the
specification. `pairing_promise` assumes each side goes on when it is not waiting
for the other.

`page` assumes of the session that the service answers what it was sent, that timers
fire and that a mounted dashboard goes on polling (`PageFairness`, one condition per
step). Of the other parts it assumes that a page that is looked at asks on its interval
(`Asks`: a `setInterval`), that what was asked for is answered or fails in the end
(`Lands`: a browser settles every `fetch`), and that a request for things as they are
now is not refused or overtaken for ever (`CurrentLands`, a strong condition, because
such a request comes and goes with what it is about). That the reader stops choosing,
that the service stays up and that the page is looked at are hypotheses of the
properties, not assumptions: `EndedSessionIsNoticed` says `<>[]` of them.

### Findings

The violation runs each check what a comment, a document or a test of the
repository says, against what the code does. `PROJECT.json` quotes the line.
Five statements are in the modules and TLC refutes them, though no run repeats it:

* `CodeConsumedByAttempt` and `UnpairedHasNoRows` of `DispatchSession` (with
  `Peers = {p1}`, `Conns = {c1, c2}`, `DialTo = {p1}`, `MaxPeers = 1`): a plain hello
  by an unknown key takes the window that is open by then and consumes its code
  (`dispatch/service.go:478`), and a merge that has read the trust of a peer writes its
  rows after the unpairing (`store/peers.go:272`).
* `TimelineIsWhole` of `FlowHistory` (2 flows with one destination, `HourLen = 2`,
  `Raw = 2`, `Keep = 3`, `MaxNow = 6`): an hour that is half pruned is shown
  from the rows it still has (`store/rollup.go:216`).
* `FlowHasEndpoint` of `FlowHistory` (the constants of `history_safety`): a close stages
  the time of the last sighting (`pipeline/normalizer.go:148`), so after a sleep
  `TouchEndpoints` writes an endpoint that is past retention already, the pruner takes it
  because no row leads to it yet (`store/prune.go:70`), and the flow is written after it,
  against `pipeline/engine.go:233`.
* `CodeIsWatched` of `DispatchScreen` (one peer, 2 codes, `MaxPolls = MaxCalls = 1`):
  Escape closes Settings over an open code, the code's own close never runs, and the
  window outlives the screen, against `dispatch/service.go:903`.

Seen while reading, and not run, in the service: a peer unpaired here is still offered summaries
by a session that was open (`dispatch/service.go:748`); `docs/DISPATCH-PROTOCOL.md`
limits pending pairing connections to one and the code does not
(`dispatch/service.go:413`); `store/store.go:743` says `active` is never cleared
where `WriteFlows` writes it; `pipeline/normalizer.go` never closes or forgets a
flow that Patrol reported, and classifies Patrol's directions with the listening
ports of Deputy's last snapshot. `types/types.go:108` says `Established` tells
whether a connection ever reached a state in which data could flow, and
`normalizer.go:186` sets it at the first sighting only. `docs/DISPATCH-PROTOCOL.md:199`
ends a pairing with both sides pinned; each stores by itself after its last message
(`service.go:505`), so a lost answer or a failing store leaves one of them pinned,
which `PairingExchange` reaches. `prune.go:43` says that the size cap touches
rollups when dropping raw rows was not enough, and the loop never does. The
repository's README (line 903) says that old connections are folded into rollups;
the pruner does not ask whether they were, and with a raw retention of an hour, the
least allowed, they may not have been (`excused` in `FlowHistory`).

And in the page, most of it reachable in the modules:

* `app.tsx:246` drops a check while another is in flight, and `refresh` (399) applies
  answers in the order they land; when the filter is pinned to an hour nothing asks
  again, so the wrong rows stay. `setLang` of `i18n/index.tsx` has no order either: the
  chunk that comes last is the language.
* `precinct.tsx:47` says that changing the layer has to redraw now; the guard of
  `usePolling` drops that load while another runs. An update in place rewrites the
  nodes and not the links, the cleanup of the effect stops a simulation that still
  runs, and a tooltip keeps a node that has left.
* `wanted.tsx` opens the first row again after a reader closed them all. `bolo.tsx` marks
  at its first look what was raised while the page was closed, so that is never
  announced, and only the newest of it, so older findings may be. It remembers 500 ids
  across reloads: one that so many greater ids have pushed out is announced again when it
  returns into the answer, which line 16 does not say.
* A click on the map does not clear a selected peer, so two sheets show, under a
  comment (`app.tsx:833`) that there is one panel and so one selection. The layer "all"
  stays chosen when no peer is left to offer it, and one failed poll resets a layer.
* `dispatch.tsx`: pairing a known peer again leaves the count of peers, and the screen,
  as it was; a late answer or the timer of `EnterCode` closes a dialog opened since; a
  renewal that outlives its panel opens a window nobody sees. A code that is typed in
  the middle when full drops its last character, and Delete before a dash does nothing.
* `settings.tsx` writes the answer of a save over later edits. `SearchBox` opens its list
  again when a late answer follows a pick, and keeps results of another layer.
  `chatter.tsx` shows the rows of one of its lists under the heading of the other until
  the answer comes.
* `roster.tsx` does nothing when the device offered is the one offered before, and
  writes an old label back when its field is entered and left across a change.
  Navigating before the `hashchange` event leaves a device offered that nobody opened.
* The line on sharing says that it is off before its first answer. `map.ts` draws no
  frame for a hover alone, and takes the next click for the end of a drag that was
  let go outside the canvas. Most Wanted ranks and counts only the newest four findings
  it asked for (`widgets.tsx:30`), so a worse one behind them is neither shown nor counted.
* Rows of peers are keyed by peer, organization, country and application
  (`app.tsx:1119`), but the service groups by device and system as well
  (`store/peers.go:423`): two devices of one peer may share a key, both rows light up
  and the sheet is the first one's.
* `roster.tsx:67` loads the peers once, because peering "is enabled by a command-line
  flag"; it is a switch in Settings by now.

## 4. What is proved

For every value of the constants that satisfies the named assumptions:

* `DispatchSession_proofs` (from `SessionAssumption`): `TypeOK`, `Capacity`,
  `OneSessionPerPeer`, `SessionIsListed`, `LiveIsAuthenticated`, `StoppedIsSilent`
  and `OnlyOperatorRestores`. The inductive invariant says, beside the types, how
  a connection's phase relates to the live table: a connection that is registered
  and that our side has not closed is the entry of its peer, an entry is registered
  and known, a session of which only the helpers are left is closed (`EndingIsClosed`),
  and a stopped service has no goroutine but those (`StoppedIsIdle`). Capacity needs
  the cardinality of the domain of `live` under one insertion or removal.
* `PeeringToggle_proofs` (from `ToggleAssumption`): the invariant that a service
  that listens has an owner (the pointer, or one handler in a step that holds it),
  that a sharing service listens and that one listens at a time; from it
  `SharingIsReported` and `OneServiceShares`.
* `PairingExchange_proofs` (from `ExchangeAssumption`): the refinement of
  `PairingConsent`, initial states and every step, from an invariant that ties an
  exchange's two sides to the wire and to what was accepted; that a code pairs
  one machine, and that an exchange's handle holds what the phases of its two sides say
  it does, nothing when it is free (`HandlesCorrect`).
* `FlowPipeline_proofs` (from `FlowAssumption`: this machine's connections are not
  another's, the grace, the channel and the bounds are positive): `TypeOK`,
  `NoRowIsLeftActive`, `TrackedReachesTheRecord` and the action property
  `ClosedOnlyAfterGrace`. The inductive invariant needs, beside them, that what is staged
  is staged under its own key, so that a close and the reopening of a connection are two
  entries; that a staged flow that is open is tracked; that only Deputy Mode closes flows,
  whose connections are all this machine's, so that a close finds the row it is about
  whatever discovery learnt in between (`HashOfRow`); and that a flow's count of misses is
  how long it has been absent.
* `FlowHistory_proofs` (from `HistoryAssumption`: an hour, the retentions and the clock's
  bound are positive, and the bound holds an hour): `TypeOK`, `NothingInvented`,
  `RollupsAreWhole` and `RecentFlowHasEndpoint`. The invariant orders a flow's start, row and
  staged sighting against the clock, keeps the roller above the cursor and below the
  current hour, and calls an hour passed when it was aggregated, before the cursor says
  so; a flow deleted ahead of the cursor is excused. Between the two transactions of
  a flush, an endpoint is as young as what is staged to it, or what is staged is past
  retention already (`StagedHasEndpoint`). Arithmetic of hours is in lemmas of
  its own (`HourMonotone`, `HourBounds`).
* `MapAndLists_proofs` (from `MapAssumption`, which says that the land is fitted in the
  middle of its frame, `RosterAssumption`, `WantedAssumption` and `NoticesAssumption`):
  `FrameIsCovered`, from the invariant that the view is always a clamped one and the
  buttons' limits are computed from it, the products of the clamp being taken before the
  solver sees them: a land wider than the frame leaves no gap, a narrower one stands in
  its middle (`ClampCovers`, `ClampCentres`); `CanvasIsCurrent`, from the invariant that points are always projected
  from the view, that the base layer is never of old data, and that a loop that settled
  has drawn; the types of the three lists; `TypingIsNotFought`, by following the record of
  the Roster stroke by stroke (what blurs, is drawn, or is mounted keeps the field the
  device's, `Fair`); `PollsNeverGoBack`, an action property, from the invariant that one
  load at most is in flight, that it is no older than what is held and no younger than
  the service (`Sound`); and `NothingAnnouncedTwice`, from the invariant that what was
  announced is among the ids seen and among those stored, or forgotten (`Discreet`).
* `Page_proofs` (from `PageAssumption` and `PartsAssumption`): of the session,
  `PageTypeOK`, `OnlyTheMountedListens` and `LiveHasAFeed`, which are inductive together
  with two facts: the dashboard has a feed, not torn down, exactly while it is shown, and
  every other feed's `closed` is set. Of the whole page, the same two and `TypeOK`:
  `PageInv` has the invariant of the part that moves, and says that no feed is live where
  another part than the session does. The pairing screen's baseline is a number of peers
  because what it counts is a set of them; the language needs English among the catalogues
  held, or it would be asked for as a chunk.
* `Dashboard_proofs` (from `PartsAssumption` and those of `MapAndLists_proofs`): `TypeOK`
  of every view, `AnswersAreOfTheirQuestion`, `CaretFollowsTheTyping`, and what
  `MapAndLists_proofs` shows of its four parts, now of the dashboard as a whole.
  `DashboardInv` is the invariant of the part that is looked at, `Absent` says that the
  others are as they start. The arguments of the parts:
  - `Timeline`, `PeerDevices` (`LineInv`, `KinInv`): a load that was not cancelled is of
    the range or layer chosen, so that whichever lands is an answer to it. `SearchBox`
    (`SearchInv`): a timer that is set is of the term in the field.
    `RadioChatter` (`ChatterInv`): each of the two lists holds answers of its own kind only.
  - `Shell` (`Placed`): the view is the address's unless an event is to come, the machine
    is asked for exactly where Help is shown, and the list of installs is a rearrangement
    that begins with this machine's and leaves the others in their order.
  - `PrecinctMap` (`LaidOut`): once there is a graph and a size, the nodes drawn are the
    graph's, the layout is of the size, and links lead to nodes that are there. The code
    compares counts of nodes before it writes an answer over them in place: as many nodes
    in a set that contains the old ones are the old ones (`SameNodes`).
  - `MostWanted`: the order by score and time of a list that is newest first is a strict
    total order, and in such an order of 1..n each stands behind as many as come before
    it, so that every place is somebody's (`PlacesAreTaken`). The first three places
    therefore hold the worst.
  - `JoinDialog`: what is kept of the front of a text is the front of what is kept of it
    (`KeptOfFront`); a grouped code is read as that code (`KeptOfGrouped`); the caret is
    put behind as many characters of the code as were in front of it (`CountedGrows`,
    `CaretGoesBehind`), across dashes whose number is a quotient (`Quotient`,
    `DashesBetween`). Characters are counted, not consumed one by one, so no induction
    over the text is needed; where a first place of its kind is, it is taken as the least
    counterexample (`Least`, from `WFMin` of the library).

Each inductive invariant was also checked by TLC, on the instance of the run in
section 3. The arguments stand at the head of the modules of proofs.

Every invariant and action property of a passing run is proved. Model-checked only:

* liveness (`StopReturnsIfPeersLeave`, `ReconnectsIfReachable`, `JoinAnswered`, that a
  shutdown ends, and the temporal properties of `page`): fairness and `ENABLED` are beyond
  the prover. That `flow_safety` has no deadlock is of this kind.
* the violations, which are facts of small instances.

## 5. Plan

In this order, the parts that are not modelled and should be:

1. `PatrolAssembler`: conversations with their timeouts, limit, resets and
   eviction; composed with `FlowPipeline` in place of the arbitrary `Report`.
2. `Findings`: raising, deduplication, clearing, expiry, announcement against
   commit, and the notifier's limit.
3. `DeviceIdentity`: sightings, merges, presence and inference against edits;
   theorem: an identity that was merged away is named by nothing.
4. `Authentication`: first-run race, sessions, lockout.
5. `PeerAddress`: hello, beacon and dial against each other.
6. `LiveBus`: what a slow subscriber still gets.

Hazards known and not in the list, for the modules above: what an unpaired peer is
still sent (`service.go:750`), a goodbye written under the lock (393), unbounded
pending connections (413), relocation against hello (`beacon.go:211`), the toggle's two
writes (`api/dispatch.go:106`, 174), shutdown against a parked source
(`engine.go:107`), `Established` and the shared listening ports (`normalizer.go:186`,
118), eviction without a report (`flows.go:216`), the bus's drops (`bus.go:61`), the
check-then-write of findings (`suspicion.go:171`, `findings.go:153`), merges of devices
(`observe.go:464`, 216), the notifier's rate (`notify.go:117`), first run and lockout
(`auth.go:179`, 246).

## 6. Not modelled

Suspicion rules (statistics over floating point), parsers, encodings and cryptography,
enrichment, discovery's probes, platform installation, the read-only views of the API.
Of the page: the tables of texts in twelve languages (7,000 lines of data), the help
page's text, styles, small widgets without state (badge, spinner, copied command), the
page that times drawing, the fields of Settings that are only saved as they stand,
formatting of numbers and times.
