------------------------------ MODULE Page_proofs ------------------------------
\* For any number of feeds and of failed checks: only the mounted dashboard listens,
\* and what it says of being live is true or about to be put right; and every other part
\* of a page keeps what it says it is.
\*
\* The argument for the session: a feed is the dashboard's exactly while the dashboard is shown, and
\* every other one was torn down, so that the closure's `closed` keeps its close event
\* and its timer from dialing again.
EXTENDS Page, FiniteSetTheorems, TLAPS

\* The dashboard has a feed, which was not torn down, exactly while it is shown.
FeedIsMounted ==
    /\ feed # NoStream <=> DashboardShown
    /\ feed # NoStream => ~stream[feed].closed

\* Every other feed was torn down.
OthersAreTornDown == \A s \in Streams : s # feed => stream[s].closed

\* The inductive invariant.
IInv ==
    /\ PageTypeOK /\ FeedIsMounted /\ OthersAreTornDown
    /\ OnlyTheMountedListens /\ LiveHasAFeed

-------------------------------------------------------------------------------
\* The invariant is about the feeds and what the page knows of itself.
LEMMA Framed ==
    ASSUME IInv, PageTypeOK', UNCHANGED <<auth, stream, feed, live>>
    PROVE  IInv'
BY DEF IInv, FeedIsMounted, OthersAreTornDown, OnlyTheMountedListens, LiveHasAFeed,
       DashboardShown, DashboardOf

\* A change of what one feed's socket does, and not of whether it was torn down.
LEMMA SocketMoves ==
    ASSUME IInv, NEW s \in Streams, NEW socket \in {"gone", "dialing", "open", "closing", "waiting"},
           stream' = [stream EXCEPT ![s].socket = socket], UNCHANGED <<auth, feed>>,
           PageTypeOK',
           s # feed => socket \in {"closing", "gone"},
           live' => feed # NoStream /\ stream'[feed].socket \in {"open", "closing"}
    PROVE  IInv'
<1>1. /\ stream'[s].socket = socket
      /\ \A x \in Streams : stream'[x].closed = stream[x].closed
      /\ \A x \in Streams \ {s} : stream'[x] = stream[x]
    BY DEF IInv, PageTypeOK
<1>2. feed # NoStream => feed \in Streams
    BY DEF IInv, PageTypeOK
<1>3. FeedIsMounted' /\ OthersAreTornDown'
    BY <1>1, <1>2 DEF IInv, FeedIsMounted, OthersAreTornDown, DashboardShown, DashboardOf
<1>4. OnlyTheMountedListens'
    BY <1>1 DEF IInv, OnlyTheMountedListens
<1>5. LiveHasAFeed'
    BY DEF LiveHasAFeed
<1>. QED  BY <1>3, <1>4, <1>5 DEF IInv

LEMMA InitIInv == PageInit => IInv
<1>. SUFFICES ASSUME PageInit PROVE IInv
    OBVIOUS
<1>1. /\ auth = [phase |-> "checking", attempts |-> 0, status |-> "login"]
      /\ stream = [s \in Streams |-> Gone] /\ feed = NoStream /\ live = FALSE
    BY DEF PageInit
<1>2. \A s \in Streams : stream[s] = [socket |-> "gone", closed |-> TRUE]
    BY <1>1 DEF Gone
<1>3. PageTypeOK
  <2>1. 0 \in 0..MaxAttempts
      BY PageAssumption
  <2>2. auth \in [phase : Phases, attempts : 0..MaxAttempts, status : {"in", "login", "setup"}]
      BY <1>1, <2>1 DEF Phases
  <2>3. stream \in [Streams -> [socket : {"gone", "dialing", "open", "closing", "waiting"}, closed : BOOLEAN]]
    <3>1. Gone \in [socket : {"gone", "dialing", "open", "closing", "waiting"}, closed : BOOLEAN]
        BY DEF Gone
    <3>. QED  BY <1>1, <3>1
  <2>. QED  BY <2>2, <2>3 DEF PageInit, PageTypeOK
<1>4. FeedIsMounted
    BY <1>1 DEF FeedIsMounted, DashboardShown, DashboardOf
<1>. QED  BY <1>1, <1>2, <1>3, <1>4 DEF IInv, OthersAreTornDown, OnlyTheMountedListens, LiveHasAFeed

-------------------------------------------------------------------------------
\* What keeps its types.
Sockets == {"gone", "dialing", "open", "closing", "waiting"}

\* The checks of a status request.
LEMMA CheckTypes ==
    ASSUME PageTypeOK
    PROVE  Checked(check) \in {"idle", "sent"} \cup Answers
BY DEF PageTypeOK, Checked

LEMMA StatusTypes == StatusAnswer \in Answers \ {"failed"}
BY DEF StatusAnswer, Answers

\* What the page makes of an answer.
LEMMA AuthTypes ==
    ASSUME PageTypeOK, NEW answer \in Answers
    PROVE  /\ AuthAfter(answer) \in [phase : Phases, attempts : 0..MaxAttempts, status : {"in", "login", "setup"}]
           /\ RetryAfter(AuthAfter(answer)) \in BOOLEAN
<1>1. auth \in [phase : Phases, attempts : 0..MaxAttempts, status : {"in", "login", "setup"}]
    BY DEF PageTypeOK
<1>2. /\ auth.attempts \in 0..MaxAttempts
      /\ auth.attempts < MaxAttempts => auth.attempts + 1 \in 0..MaxAttempts
      /\ 0 \in 0..MaxAttempts /\ 1 \in 0..MaxAttempts
    BY <1>1, PageAssumption
<1>3. CASE answer = "failed"
  <2>1. PICK n \in 0..MaxAttempts : AuthAfter(answer) = [auth EXCEPT !.phase = "unreachable", !.attempts = n]
      BY <1>1, <1>2, <1>3 DEF AuthAfter
  <2>. QED  BY <1>1, <2>1 DEF RetryAfter, Phases
<1>4. CASE answer # "failed"
    BY <1>2, <1>4 DEF AuthAfter, Answers, Phases, RetryAfter
<1>. QED  BY <1>3, <1>4

\* A feed that is opened, and one that is taken down.
LEMMA FeedTypes ==
    ASSUME PageTypeOK, NEW s \in Streams
    PROVE  /\ Opened(stream, s) \in [Streams -> [socket : Sockets, closed : BOOLEAN]]
           /\ Opened(stream, s)[s] = [socket |-> "dialing", closed |-> FALSE]
           /\ TornDown(stream, s) \in [Streams -> [socket : Sockets, closed : BOOLEAN]]
           /\ TornDown(stream, s)[s].closed
           /\ TornDown(stream, s)[s].socket \in {"closing", "gone"}
           /\ \A x \in Streams \ {s} : Opened(stream, s)[x] = stream[x] /\ TornDown(stream, s)[x] = stream[x]
<1>1. stream \in [Streams -> [socket : Sockets, closed : BOOLEAN]]
    BY DEF PageTypeOK, Sockets
<1>2. PICK w \in {"closing", "gone"} :
        TornDown(stream, s) = [stream EXCEPT ![s].closed = TRUE, ![s].socket = w]
  <2>1. stream[s].socket \in Sockets
      BY <1>1
  <2>2. CASE stream[s].socket \in {"dialing", "open", "closing"}
      BY <1>1, <2>2 DEF TornDown
  <2>3. CASE stream[s].socket \in {"waiting", "gone"}
      BY <1>1, <2>3 DEF TornDown
  <2>. QED  BY <2>1, <2>2, <2>3 DEF Sockets
<1>. QED  BY <1>1, <1>2 DEF Opened, Sockets

-------------------------------------------------------------------------------
\* The step, action by action: first what leaves the feeds and the page's own state alone.
\* Requests are sent and answered, and what the reader does is only sent as well.
LEMMA QuietStep ==
    ASSUME IInv,
           \/ ServiceStarts \/ SessionElsewhere \/ ServeStatus \/ ServePost \/ ServePoll
           \/ RetryFires \/ RetryPressed \/ VisibilityChanges
           \/ Submit \/ PostArrives \/ PollStarts \/ PollArrives
    PROVE  IInv'
<1>. USE DEF serviceVars, authVars, feedVars
<1>1. UNCHANGED <<auth, stream, feed, live>>
    BY DEF ServiceStarts, SessionElsewhere, ServeStatus, ServePost, ServePoll, RetryFires, RetryPressed,
           VisibilityChanges, Submit, PostArrives, PollStarts, PollArrives
<1>2. PageTypeOK
    BY DEF IInv
<1>3. {up', signedIn', hasPass', visible', retry'} \subseteq BOOLEAN
    BY <1>2 DEF PageTypeOK, ServiceStarts, SessionElsewhere, ServeStatus, ServePost, ServePoll, RetryFires,
           RetryPressed, VisibilityChanges, Submit, PostArrives, PollStarts, PollArrives
<1>4. check' \in {"idle", "sent"} \cup Answers
  <2>1. check' \in {check, Checked(check), StatusAnswer, "failed"}
      BY DEF ServiceStarts, SessionElsewhere, ServeStatus, ServePost, ServePoll, RetryFires,
             RetryPressed, VisibilityChanges, Submit, PostArrives, PollStarts, PollArrives, CheckAuth, OnAnswer
  <2>. QED  BY <1>2, <2>1, CheckTypes, StatusTypes DEF PageTypeOK, Answers
<1>5. post' \in [kind : {"none", "login", "setup", "logout"}, answer : {"sent", "ok", "refused", "failed"}]
  <2>1. CASE ServePost
      BY <1>2, <2>1 DEF ServePost, PageTypeOK
  <2>2. CASE Submit
      BY <1>2, <2>2 DEF Submit, PageTypeOK, GateShown
  <2>3. CASE PostArrives
      BY <2>3 DEF PostArrives
  <2>4. CASE UNCHANGED post
      BY <1>2, <2>4 DEF PageTypeOK
  <2>. QED  BY <2>1, <2>2, <2>3, <2>4 DEF ServiceStarts, SessionElsewhere, ServeStatus, ServePoll, RetryFires,
            RetryPressed, VisibilityChanges, PollStarts, PollArrives
<1>6. poll' \in {"idle", "sent", "ok", "unauthorized", "failed"}
  <2>1. CASE ServePoll
      BY <2>1 DEF ServePoll
  <2>2. CASE UNCHANGED poll \/ poll' \in {"sent", "idle"}
      BY <1>2, <2>2 DEF PageTypeOK
  <2>. QED  BY <2>1, <2>2 DEF ServiceStarts, SessionElsewhere, ServeStatus, ServePost, RetryFires,
            RetryPressed, VisibilityChanges, Submit, PostArrives, PollStarts, PollArrives
<1>7. PageTypeOK'
    BY <1>1, <1>2, <1>3, <1>4, <1>5, <1>6 DEF PageTypeOK
<1>. QED  BY <1>1, <1>7, Framed

\* The service ends: what was open is closing, for the mounted feed and for no other.
LEMMA ServiceStopsStep ==
    ASSUME IInv, ServiceStops PROVE IInv'
<1>. USE DEF authVars
<1>1. PageTypeOK /\ UNCHANGED <<auth, check, retry, post, poll, feed, live, hasPass, visible>>
    BY DEF IInv, ServiceStops
<1>2. \A s \in Streams :
        /\ stream'[s].closed = stream[s].closed
        /\ stream'[s].socket = stream[s].socket
           \/ (stream[s].socket = "open" /\ stream'[s].socket = "closing")
        /\ stream'[s] \in [socket : Sockets, closed : BOOLEAN]
    BY <1>1 DEF ServiceStops, PageTypeOK, Sockets
<1>3. stream' \in [Streams -> [socket : Sockets, closed : BOOLEAN]]
  <2>1. stream' = [s \in Streams |-> stream'[s]]
      BY DEF ServiceStops
  <2>. QED  BY <1>2, <2>1
<1>4. PageTypeOK'
    BY <1>1, <1>3 DEF PageTypeOK, ServiceStops, Sockets
<1>5. feed # NoStream => feed \in Streams
    BY <1>1 DEF PageTypeOK
<1>6. FeedIsMounted' /\ OthersAreTornDown' /\ OnlyTheMountedListens'
    BY <1>1, <1>2, <1>5 DEF IInv, FeedIsMounted, OthersAreTornDown, OnlyTheMountedListens, DashboardShown, DashboardOf
<1>7. LiveHasAFeed'
    BY <1>1, <1>2, <1>5 DEF IInv, LiveHasAFeed
<1>. QED  BY <1>4, <1>6, <1>7 DEF IInv

\* The sockets of the feeds: only the mounted one dials, opens, or waits to dial again.
LEMMA StreamStep ==
    ASSUME IInv, NEW s \in Streams,
           StreamOpens(s) \/ StreamBreaks(s) \/ StreamClosed(s) \/ StreamRedials(s)
    PROVE  IInv'
<1>. USE DEF serviceVars, authVars
<1>1. PageTypeOK /\ stream[s].socket \in Sockets /\ stream[s].closed \in BOOLEAN
    BY DEF IInv, PageTypeOK, Sockets
<1>2. /\ s # feed => stream[s].socket \in {"closing", "gone"} /\ stream[s].closed
      /\ s = feed => ~stream[s].closed
    BY <1>1, PageAssumption DEF IInv, OnlyTheMountedListens, OthersAreTornDown, FeedIsMounted
<1>3. live => feed # NoStream /\ stream[feed].socket \in {"open", "closing"}
    BY DEF IInv, LiveHasAFeed
<1>4. feed # NoStream => feed \in Streams
    BY <1>1 DEF PageTypeOK
<1>5. UNCHANGED <<auth, feed>>
    BY DEF StreamOpens, StreamBreaks, StreamClosed, StreamRedials
<1>6. PICK w \in Sockets :
        /\ stream' = [stream EXCEPT ![s].socket = w]
        /\ s # feed => w \in {"closing", "gone"}
        /\ live' \in BOOLEAN
        /\ live' => feed # NoStream /\ (IF s = feed THEN w ELSE stream[feed].socket) \in {"open", "closing"}
  <2>1. CASE StreamOpens(s)
    <3>1. s = feed /\ feed # NoStream
        BY <1>2, <2>1, PageAssumption DEF StreamOpens
    <3>. QED  BY <2>1, <3>1 DEF StreamOpens, Sockets
  <2>2. CASE StreamBreaks(s)
    <3>1. stream' = [stream EXCEPT ![s].socket = "closing"] /\ live' = live
        BY <2>2 DEF StreamBreaks
    <3>. QED  BY <1>1, <1>3, <3>1 DEF Sockets, PageTypeOK
  <2>3. CASE StreamClosed(s)
    <3>1. CASE s = feed
      <4>1. live' = FALSE
          BY <2>3, <3>1 DEF StreamClosed, StillLive
      <4>2. stream' = [stream EXCEPT ![s].socket = "waiting"]
          BY <1>1, <1>2, <2>3, <3>1 DEF StreamClosed, AfterClose, PageTypeOK
      <4>. QED  BY <3>1, <4>1, <4>2 DEF Sockets
    <3>2. CASE s # feed
      <4>1. live' = live
          BY <1>1, <2>3, <3>2 DEF StreamClosed, StillLive, PageTypeOK
      <4>2. stream' = [stream EXCEPT ![s].socket = "gone"]
          BY <1>1, <1>2, <2>3, <3>2 DEF StreamClosed, AfterClose, PageTypeOK
      <4>. QED  BY <1>1, <1>3, <3>2, <4>1, <4>2 DEF Sockets, PageTypeOK
    <3>. QED  BY <3>1, <3>2
  <2>4. CASE StreamRedials(s)
    <3>1. s = feed /\ ~stream[s].closed /\ ~live
        BY <1>2, <1>3, <2>4 DEF StreamRedials
    <3>. QED  BY <1>1, <2>4, <3>1 DEF StreamRedials, Sockets, PageTypeOK
  <2>. QED  BY <2>1, <2>2, <2>3, <2>4
<1>7. /\ stream' \in [Streams -> [socket : Sockets, closed : BOOLEAN]]
      /\ stream'[s].socket = w
      /\ \A x \in Streams \ {s} : stream'[x] = stream[x]
    BY <1>1, <1>6 DEF PageTypeOK, Sockets
<1>8. PageTypeOK'
    BY <1>1, <1>5, <1>6, <1>7 DEF PageTypeOK, Sockets, StreamOpens, StreamBreaks, StreamClosed, StreamRedials
<1>9. live' => feed # NoStream /\ stream'[feed].socket \in {"open", "closing"}
    BY <1>4, <1>6, <1>7
<1>. QED  BY <1>5, <1>6, <1>8, <1>9, SocketMoves DEF Sockets

\* The answer of a status request, which shows the dashboard or takes it down.
LEMMA StatusArrivesStep ==
    ASSUME IInv, StatusArrives PROVE IInv'
<1>. DEFINE a == AuthAfter(check)
<1>. USE DEF serviceVars, feedVars
<1>1. PageTypeOK /\ check \in Answers /\ auth' = a /\ Remount(a)
    BY DEF IInv, StatusArrives
<1>2. /\ a \in [phase : Phases, attempts : 0..MaxAttempts, status : {"in", "login", "setup"}]
      /\ retry' \in BOOLEAN
    BY <1>1, AuthTypes DEF StatusArrives
<1>3. DashboardShown' <=> DashboardOf(a)
    BY <1>1 DEF DashboardShown
<1>. HIDE DEF a
<1>4. CASE DashboardOf(a) = DashboardShown /\ UNCHANGED feedVars
  <2>1. PageTypeOK'
      BY <1>1, <1>2, <1>4 DEF PageTypeOK, StatusArrives
  <2>2. FeedIsMounted'
      BY <1>3, <1>4 DEF IInv, FeedIsMounted
  <2>. QED  BY <1>4, <2>1, <2>2 DEF IInv, OthersAreTornDown, OnlyTheMountedListens, LiveHasAFeed
<1>5. CASE DashboardOf(a) /\ ~DashboardShown /\ live' = FALSE
           /\ \E s \in Streams : stream[s].socket = "gone" /\ stream' = Opened(stream, s) /\ feed' = s
  <2>1. PICK s \in Streams : stream' = Opened(stream, s) /\ feed' = s
      BY <1>5
  <2>2. /\ stream' \in [Streams -> [socket : Sockets, closed : BOOLEAN]]
        /\ stream'[s] = [socket |-> "dialing", closed |-> FALSE]
        /\ \A x \in Streams \ {s} : stream'[x] = stream[x]
      BY <1>1, <2>1, FeedTypes
  <2>3. PageTypeOK'
      BY <1>1, <1>2, <1>5, <2>1, <2>2 DEF PageTypeOK, Sockets, StatusArrives
  <2>4. feed = NoStream /\ feed' # NoStream
      BY <1>5, <2>1, PageAssumption DEF IInv, FeedIsMounted
  <2>5. FeedIsMounted'
      BY <1>3, <1>5, <2>1, <2>2, <2>4 DEF FeedIsMounted
  <2>6. OthersAreTornDown' /\ OnlyTheMountedListens'
      BY <2>1, <2>2, <2>4, PageAssumption DEF IInv, OthersAreTornDown, OnlyTheMountedListens
  <2>. QED  BY <1>5, <2>3, <2>5, <2>6 DEF IInv, LiveHasAFeed
<1>6. CASE ~DashboardOf(a) /\ DashboardShown /\ live' = FALSE
           /\ stream' = TornDown(stream, feed) /\ feed' = NoStream
  <2>1. feed \in Streams
      BY <1>1, <1>6 DEF IInv, FeedIsMounted, PageTypeOK
  <2>2. /\ stream' \in [Streams -> [socket : Sockets, closed : BOOLEAN]]
        /\ stream'[feed].closed /\ stream'[feed].socket \in {"closing", "gone"}
        /\ \A x \in Streams \ {feed} : stream'[x] = stream[x]
      BY <1>1, <1>6, <2>1, FeedTypes
  <2>3. PageTypeOK'
      BY <1>1, <1>2, <1>6, <2>2 DEF PageTypeOK, Sockets, StatusArrives
  <2>4. FeedIsMounted'
      BY <1>3, <1>6 DEF FeedIsMounted
  <2>5. OthersAreTornDown' /\ OnlyTheMountedListens'
      BY <2>2 DEF IInv, OthersAreTornDown, OnlyTheMountedListens
  <2>. QED  BY <1>6, <2>3, <2>4, <2>5 DEF IInv, LiveHasAFeed
<1>. QED  BY <1>1, <1>4, <1>5, <1>6 DEF Remount

-------------------------------------------------------------------------------
LEMMA StepIInv == IInv /\ [PageNext]_pageVars => IInv'
<1>. SUFFICES ASSUME IInv, [PageNext]_pageVars PROVE IInv'
    OBVIOUS
<1>1. CASE StreamNext
    BY <1>1, StreamStep DEF StreamNext
<1>2. CASE UNCHANGED pageVars
  <2>1. PageTypeOK'
      BY <1>2 DEF IInv, PageTypeOK, pageVars
  <2>. QED  BY <1>2, <2>1, Framed DEF pageVars
<1>. QED  BY <1>1, <1>2, QuietStep, ServiceStopsStep, StatusArrivesStep DEF PageNext

\* The inductive invariant holds in every reachable state.
THEOREM IInvHolds == PageSpec => []IInv
BY InitIInv, StepIInv, PTL DEF PageSpec

\* What the page holds stays what it says it is, with any number of feeds.
THEOREM TypeCorrect == PageSpec => []PageTypeOK
<1>1. IInv => PageTypeOK
    BY DEF IInv
<1>. QED  BY <1>1, IInvHolds, PTL

\* A feed that was torn down neither holds nor opens a connection: the `closed` of its
\* closure (api.ts:343-385) outlives every order of teardown, close event, timer and mount.
THEOREM OnlyTheMountedListensAlways == PageSpec => []OnlyTheMountedListens
<1>1. IInv => OnlyTheMountedListens
    BY DEF IInv
<1>. QED  BY <1>1, IInvHolds, PTL

\* The page does not go on saying it is live (api.ts:338-341): its own feed is open, or
\* the close event that takes it back is on its way.
THEOREM LiveHasAFeedAlways == PageSpec => []LiveHasAFeed
<1>1. IInv => LiveHasAFeed
    BY DEF IInv
<1>. QED  BY <1>1, IInvHolds, PTL

-------------------------------------------------------------------------------
\* The filter and what is fetched for it.
LEMMA DataInit ==
    ASSUME Data!Init PROVE Data!TypeOK
<1>1. PICK f \in Data!Filters :
        tower = [visible |-> TRUE, filter |-> f, flights |-> {f}, shown |-> Data!NoFilter]
    BY DEF Data!Init
<1>. QED  BY <1>1 DEF Data!TypeOK

\* A query is a filter, and so is whatever a reader makes of one.
LEMMA QueriesAreFilters ==
    ASSUME Data!TowerAssumption, NEW f \in Data!Filters
    PROVE  Data!FilterQuery(f) \in Data!Filters /\ Data!Patches(f) \subseteq Data!Filters
<1>1. (CHOOSE r \in Ranges : TRUE) \in Ranges
    BY DEF Data!TowerAssumption
<1>2. Data!FilterQuery(f) \in Data!Filters
  <2>1. PICK r \in Ranges : Data!FilterQuery(f) = [f EXCEPT !.range = r]
      BY <1>1 DEF Data!FilterQuery, Data!Filters
  <2>. QED  BY <2>1 DEF Data!Filters
<1>3. /\ Data!SetRange(f) \subseteq Data!Filters /\ Data!SetPatch(f) \subseteq Data!Filters
      /\ Data!Scrub(f) \subseteq Data!Filters /\ Data!BackToLive(f) \subseteq Data!Filters
      /\ Data!ClearedOnMap(f) \subseteq Data!Filters
    BY DEF Data!SetRange, Data!SetPatch, Data!Scrub, Data!BackToLive, Data!ClearedOnMap, Data!Filters
<1>. QED  BY <1>2, <1>3 DEF Data!Patches

LEMMA DataStep ==
    ASSUME Data!TowerAssumption, Data!TypeOK, [Data!Next]_tower PROVE Data!TypeOK'
<1>1. /\ tower \in [visible : BOOLEAN, filter : Data!Filters, flights : SUBSET Data!Filters,
                    shown : Data!Filters \cup {Data!NoFilter}]
      /\ tower.flights \subseteq Data!Filters
    BY DEF Data!TypeOK
<1>2. ASSUME NEW f \in Data!Filters
      PROVE  Data!Refreshed(tower.flights, f) \subseteq Data!Filters
    BY <1>1, QueriesAreFilters DEF Data!Refreshed
<1>3. CASE Data!FilterChanges
  <2>1. PICK f \in Data!Filters :
          tower' = [tower EXCEPT !.filter = f, !.flights = Data!Refreshed(tower.flights, f)]
      BY <1>1, <1>3, QueriesAreFilters DEF Data!FilterChanges
  <2>. QED  BY <1>1, <1>2, <2>1 DEF Data!TypeOK
<1>4. CASE Data!Poll \/ Data!Wiped
  <2>1. tower' = [tower EXCEPT !.flights = Data!Refreshed(tower.flights, tower.filter)]
      BY <1>4 DEF Data!Poll, Data!Wiped, Data!Refresh
  <2>. QED  BY <1>1, <1>2, <2>1 DEF Data!TypeOK
<1>5. CASE Data!VisibilityChanges
  <2>1. PICK fs \in SUBSET Data!Filters, v \in BOOLEAN :
          tower' = [tower EXCEPT !.visible = v, !.flights = fs]
      BY <1>1, <1>2, <1>5 DEF Data!VisibilityChanges
  <2>. QED  BY <1>1, <2>1 DEF Data!TypeOK
<1>6. ASSUME NEW f \in Data!Filters, Data!Arrives(f) \/ Data!Fails(f) PROVE Data!TypeOK'
    BY <1>1, <1>6 DEF Data!Arrives, Data!Fails, Data!TypeOK
<1>7. CASE UNCHANGED tower
    BY <1>7 DEF Data!TypeOK
<1>. QED  BY <1>3, <1>4, <1>5, <1>6, <1>7 DEF Data!Next

-------------------------------------------------------------------------------
\* The layers of the Watchtower.
LayerFields ==
    [paired : SUBSET Peers, visible : BOOLEAN, mounted : BOOLEAN,
     offered : SUBSET Peers, asked : SUBSET SUBSET Peers, layer : {"mine", "all"} \cup Peers,
     loads : SUBSET Layered!Loads, dests : SUBSET Peers,
     address : Endpoints \cup {None}, row : Peers \cup {None}]

LEMMA LayersInit ==
    ASSUME Layered!Init PROVE Layered!TypeOK
<1>1. PICK ps \in SUBSET Peers, m \in BOOLEAN :
        layers = [paired |-> ps, visible |-> TRUE, mounted |-> m, offered |-> {}, asked |-> {ps},
                  layer |-> "mine", loads |-> {}, dests |-> {}, address |-> None, row |-> None]
    BY DEF Layered!Init
<1>2. {ps} \in SUBSET SUBSET Peers /\ "mine" \in {"mine", "all"} \cup Peers
    OBVIOUS
<1>. QED  BY <1>1, <1>2 DEF Layered!TypeOK

\* What is asked for, and what is called off.
LEMMA LoadsAreLoads ==
    ASSUME layers \in LayerFields
    PROVE  Layered!Load \in Layered!Loads /\ Layered!Cancelled \in SUBSET Layered!Loads
<1>1. layers.paired \in SUBSET Peers /\ layers.loads \subseteq Layered!Loads
    BY DEF LayerFields
<1>. QED  BY <1>1 DEF Layered!Load, Layered!Cancelled, Layered!Loads

\* A layer is chosen, or lost.
LEMMA LayerBecomesOne ==
    ASSUME layers \in LayerFields, NEW new \in {"mine", "all"} \cup Peers, Layered!LayerBecomes(new)
    PROVE  layers' \in LayerFields
<1>1. PICK ds \in SUBSET Peers, ls \in SUBSET Layered!Loads :
        layers' = [layers EXCEPT !.layer = new, !.dests = ds, !.loads = ls]
  <2>1. layers.dests \in SUBSET Peers /\ {} \in SUBSET Peers
      BY DEF LayerFields
  <2>2. Layered!Cancelled \cup {Layered!Load} \in SUBSET Layered!Loads
      BY LoadsAreLoads
  <2>. QED  BY <2>1, <2>2, LoadsAreLoads DEF Layered!LayerBecomes
<1>. QED  BY <1>1 DEF LayerFields

LEMMA LayersStep ==
    ASSUME Layered!TypeOK, [Layered!Next]_layers PROVE Layered!TypeOK'
<1>. SUFFICES ASSUME layers \in LayerFields PROVE layers' \in LayerFields
    BY DEF Layered!TypeOK, LayerFields
<1>1. layers \in LayerFields
    OBVIOUS
<1>2. /\ layers.paired \in SUBSET Peers /\ layers.offered \in SUBSET Peers
      /\ layers.asked \in SUBSET SUBSET Peers /\ layers.dests \in SUBSET Peers
      /\ layers.loads \in SUBSET Layered!Loads
      /\ layers.visible \in BOOLEAN /\ layers.mounted \in BOOLEAN
      /\ layers.address \in Endpoints \cup {None} /\ layers.row \in Peers \cup {None}
    BY <1>1 DEF LayerFields
<1>3. CASE Layered!AskPeers \/ \E answer \in layers.asked : Layered!PeersArrive(answer)
  <2>1. PICK as \in SUBSET SUBSET Peers, ps \in SUBSET Peers :
          layers' = [layers EXCEPT !.asked = as, !.offered = ps]
    <3>1. CASE Layered!AskPeers
      <4>1. layers.asked \cup {layers.paired} \in SUBSET SUBSET Peers
          BY <1>2
      <4>2. layers' = [layers EXCEPT !.asked = layers.asked \cup {layers.paired}, !.offered = layers.offered]
          BY <1>1, <3>1 DEF Layered!AskPeers, LayerFields
      <4>. QED  BY <1>2, <4>1, <4>2
    <3>2. CASE \E answer \in layers.asked : Layered!PeersArrive(answer)
      <4>1. PICK answer \in layers.asked : Layered!PeersArrive(answer)
          BY <3>2
      <4>2. PICK ps \in {answer, {}} :
              layers' = [layers EXCEPT !.asked = layers.asked \ {answer}, !.offered = ps]
          BY <4>1 DEF Layered!PeersArrive
      <4>3. layers.asked \ {answer} \in SUBSET SUBSET Peers /\ ps \in SUBSET Peers
          BY <1>2, <4>1, <4>2
      <4>. QED  BY <4>2, <4>3
    <3>. QED  BY <1>3, <3>1, <3>2
  <2>. QED  BY <1>1, <2>1 DEF LayerFields
<1>4. CASE Layered!PicksLayer \/ Layered!LayerLost
  <2>1. PICK new \in {"mine", "all"} \cup Peers : Layered!LayerBecomes(new)
      BY <1>2, <1>4 DEF Layered!PicksLayer, Layered!LayerLost
  <2>. QED  BY <1>1, <2>1, LayerBecomesOne
<1>5. CASE \/ Layered!PollDestinations \/ Layered!VisibilityChanges
           \/ \E l \in layers.loads : Layered!DestinationsArrive(l) \/ Layered!DestinationsFail(l)
  <2>1. PICK v \in BOOLEAN, ls \in SUBSET Layered!Loads, ds \in SUBSET Peers :
          layers' = [layers EXCEPT !.visible = v, !.loads = ls, !.dests = ds]
    <3>1. layers.loads \cup {Layered!Load} \in SUBSET Layered!Loads
        BY <1>1, <1>2, LoadsAreLoads
    <3>2. CASE Layered!PollDestinations
      <4>1. layers' = [layers EXCEPT !.visible = layers.visible, !.loads = layers.loads \cup {Layered!Load},
                                     !.dests = layers.dests]
          BY <1>1, <3>2 DEF Layered!PollDestinations, LayerFields
      <4>. QED  BY <1>2, <3>1, <4>1
    <3>3. CASE Layered!VisibilityChanges
      <4>1. PICK ls \in SUBSET Layered!Loads : layers' = [layers EXCEPT !.visible = ~layers.visible, !.loads = ls]
          BY <1>2, <3>1, <3>3 DEF Layered!VisibilityChanges
      <4>2. layers' = [layers EXCEPT !.visible = ~layers.visible, !.loads = ls, !.dests = layers.dests]
          BY <1>1, <4>1 DEF LayerFields
      <4>3. (~layers.visible) \in BOOLEAN
          OBVIOUS
      <4>. QED  BY <1>2, <4>2, <4>3
    <3>4. CASE \E l \in layers.loads : Layered!DestinationsArrive(l) \/ Layered!DestinationsFail(l)
      <4>1. PICK l \in layers.loads : Layered!DestinationsArrive(l) \/ Layered!DestinationsFail(l)
          BY <3>4
      <4>2. l.peers \in SUBSET Peers /\ layers.loads \ {l} \in SUBSET Layered!Loads
          BY <1>2, <4>1 DEF Layered!Loads
      <4>3. PICK ds \in SUBSET Peers :
              layers' = [layers EXCEPT !.visible = layers.visible, !.loads = layers.loads \ {l}, !.dests = ds]
          BY <1>1, <1>2, <4>1, <4>2 DEF Layered!DestinationsArrive, Layered!DestinationsFail, LayerFields
      <4>. QED  BY <1>2, <4>2, <4>3
    <3>. QED  BY <1>5, <3>2, <3>3, <3>4
  <2>. QED  BY <1>1, <2>1 DEF LayerFields
<1>6. CASE \/ \E p \in Peers : Layered!SelectPeer(p)
           \/ \E e \in Endpoints : Layered!SelectEndpoint(e)
           \/ Layered!SelectOnMap \/ Layered!CloseSheet
  <2>1. PICK a \in Endpoints \cup {None}, r \in Peers \cup {None} :
          layers' = [layers EXCEPT !.address = a, !.row = r]
    <3>1. CASE \E p \in Peers : Layered!SelectPeer(p)
      <4>1. PICK p \in Peers : Layered!SelectPeer(p)
          BY <3>1
      <4>2. Layered!Toggled(layers.row, p) \in Peers \cup {None}
          BY DEF Layered!Toggled
      <4>3. PICK r \in Peers \cup {None}, a \in Endpoints \cup {None} :
              layers' = [layers EXCEPT !.row = r, !.address = a]
        <5>1. PICK r \in Peers \cup {None} : r = Layered!Toggled(layers.row, p)
            BY <4>2
        <5>2. PICK a \in Endpoints \cup {None} : a = IF r = None THEN layers.address ELSE None
            BY <1>2
        <5>3. layers' = [layers EXCEPT !.row = r, !.address = a]
            BY <4>1, <5>1, <5>2 DEF Layered!SelectPeer
        <5>. QED  BY <5>3
      <4>4. layers' = [layers EXCEPT !.address = a, !.row = r]
          BY <1>1, <4>3 DEF LayerFields
      <4>. QED  BY <4>4
    <3>2. CASE \E e \in Endpoints : Layered!SelectEndpoint(e)
      <4>1. PICK e \in Endpoints : Layered!SelectEndpoint(e)
          BY <3>2
      <4>2. Layered!Toggled(layers.address, e) \in Endpoints \cup {None} /\ None \in Peers \cup {None}
          BY DEF Layered!Toggled
      <4>3. layers' = [layers EXCEPT !.address = Layered!Toggled(layers.address, e), !.row = None]
          BY <1>1, <4>1 DEF Layered!SelectEndpoint, LayerFields
      <4>. QED  BY <4>2, <4>3
    <3>3. CASE Layered!SelectOnMap
      <4>1. PICK a \in Layered!ShownEndpoints \cup {None} : layers' = [layers EXCEPT !.address = a]
          BY <3>3 DEF Layered!SelectOnMap
      <4>2. a \in Endpoints \cup {None}
          BY <4>1 DEF Layered!ShownEndpoints
      <4>3. layers' = [layers EXCEPT !.address = a, !.row = layers.row]
          BY <1>1, <4>1 DEF LayerFields
      <4>. QED  BY <1>2, <4>2, <4>3
    <3>4. CASE Layered!CloseSheet
      <4>1. \/ layers' = [layers EXCEPT !.address = None, !.row = layers.row]
            \/ layers' = [layers EXCEPT !.address = layers.address, !.row = None]
          BY <1>1, <3>4 DEF Layered!CloseSheet, LayerFields
      <4>. QED  BY <1>2, <4>1
    <3>. QED  BY <1>6, <3>1, <3>2, <3>3, <3>4
  <2>. QED  BY <1>1, <2>1 DEF LayerFields
<1>7. CASE Layered!Navigates
  <2>1. PICK m \in BOOLEAN, ls \in SUBSET Layered!Loads :
          layers' = [layers EXCEPT !.mounted = m, !.dests = {}, !.row = None, !.loads = ls]
    <3>1. Layered!Cancelled \cup {Layered!Load} \in SUBSET Layered!Loads
        BY <1>1, LoadsAreLoads
    <3>2. PICK ls \in SUBSET Layered!Loads :
            layers' = [layers EXCEPT !.mounted = ~layers.mounted, !.dests = {}, !.row = None, !.loads = ls]
        BY <1>1, <1>7, <3>1, LoadsAreLoads DEF Layered!Navigates
    <3>3. (~layers.mounted) \in BOOLEAN
        OBVIOUS
    <3>. QED  BY <3>2, <3>3
  <2>. QED  BY <1>1, <2>1 DEF LayerFields
<1>8. CASE Layered!PairingChanges
  <2>1. PICK ps \in SUBSET Peers : layers' = [layers EXCEPT !.paired = ps]
    <3>1. PICK p \in Peers :
            layers' = [layers EXCEPT !.paired = IF p \in @ THEN @ \ {p} ELSE @ \cup {p}]
        BY <1>8 DEF Layered!PairingChanges
    <3>2. layers.paired \ {p} \in SUBSET Peers /\ layers.paired \cup {p} \in SUBSET Peers
        BY <1>2
    <3>. QED  BY <3>1, <3>2
  <2>. QED  BY <1>1, <2>1 DEF LayerFields
<1>9. CASE UNCHANGED layers
    BY <1>1, <1>9 DEF LayerFields
<1>. QED  BY <1>3, <1>4, <1>5, <1>6, <1>7, <1>8, <1>9 DEF Layered!Next

-------------------------------------------------------------------------------
\* What is read out.
LEMMA MountedReadout ==
    ASSUME NEW f \in Facts, NEW s \in BOOLEAN, readout' = Readout!Mounted(f, s) PROVE Readout!TypeOK'
BY DEF Readout!Mounted, Readout!Ask, Readout!TypeOK

LEMMA ReadoutInit ==
    ASSUME Readout!Init PROVE Readout!TypeOK
<1>1. PICK f \in Facts : readout = Readout!Mounted(f, TRUE)
    BY DEF Readout!Init
<1>2. readout = [fact |-> f, visible |-> TRUE, flights |-> {f}, shown |-> "unknown", open |-> TRUE, stored |-> TRUE]
    BY <1>1 DEF Readout!Mounted, Readout!Ask
<1>. QED  BY <1>2 DEF Readout!TypeOK

LEMMA ReadoutStep ==
    ASSUME Readout!TypeOK, [Readout!Next]_readout PROVE Readout!TypeOK'
<1>1. /\ readout \in [fact : Facts, visible : BOOLEAN, flights : SUBSET Facts, shown : Facts \cup {"unknown"},
                      open : BOOLEAN, stored : BOOLEAN]
      /\ readout.fact \in Facts /\ readout.flights \subseteq Facts
    BY DEF Readout!TypeOK
<1>2. CASE Readout!Poll \/ Readout!VisibilityChanges
  <2>1. PICK v \in BOOLEAN, fs \in SUBSET Facts : readout' = [readout EXCEPT !.visible = v, !.flights = fs]
    <3>1. readout.flights \cup {readout.fact} \in SUBSET Facts
        BY <1>1
    <3>2. CASE Readout!Poll
      <4>1. readout' = [readout EXCEPT !.visible = readout.visible, !.flights = readout.flights \cup {readout.fact}]
          BY <1>1, <3>2 DEF Readout!Poll, Readout!Ask
      <4>. QED  BY <1>1, <3>1, <4>1
    <3>3. CASE Readout!VisibilityChanges
        BY <1>1, <3>1, <3>3 DEF Readout!VisibilityChanges, Readout!Ask
    <3>. QED  BY <1>2, <3>2, <3>3
  <2>. QED  BY <1>1, <2>1 DEF Readout!TypeOK
<1>3. CASE Readout!WidgetToggles \/ Readout!FactChanges
    BY <1>1, <1>3 DEF Readout!WidgetToggles, Readout!FactChanges, Readout!TypeOK
<1>4. CASE Readout!Remounts
    BY <1>1, <1>4, MountedReadout DEF Readout!Remounts
<1>5. CASE \E f \in readout.flights : Readout!Arrives(f) \/ Readout!Fails(f)
    BY <1>1, <1>5 DEF Readout!Arrives, Readout!Fails, Readout!TypeOK
<1>6. CASE UNCHANGED readout
    BY <1>6 DEF Readout!TypeOK
<1>. QED  BY <1>2, <1>3, <1>4, <1>5, <1>6 DEF Readout!Next

-------------------------------------------------------------------------------
\* The language.
SpeechFields ==
    [stored : Speech!Langs, lang : Speech!Langs, dir : {"ltr", "rtl"}, catalog : Speech!Langs, pending : BOOLEAN,
     loaded : SUBSET Speech!Langs, loads : SUBSET Others, menu : BOOLEAN]

\* English is always held: nothing is asked for that is not a chunk.
SpeechInv == speech \in SpeechFields /\ "en" \in speech.loaded

LEMMA StartedSpeech ==
    ASSUME NEW l \in Speech!Langs
    PROVE  Speech!Started(l) \in SpeechFields /\ "en" \in Speech!Started(l).loaded
<1>1. {l} \ {"en"} \subseteq Others /\ {"en"} \subseteq Speech!Langs
    BY DEF Speech!Langs
<1>2. Speech!DirFor(l) \in {"ltr", "rtl"}
    BY DEF Speech!DirFor
<1>. QED  BY <1>1, <1>2 DEF Speech!Started, SpeechFields

LEMMA SpeechInit ==
    ASSUME Speech!Init PROVE SpeechInv
BY StartedSpeech DEF Speech!Init, SpeechInv

LEMMA SpeechStep ==
    ASSUME SpeechInv, [Speech!Next]_speech PROVE SpeechInv'
<1>1. /\ speech \in SpeechFields
      /\ "en" \in speech.loaded
      /\ speech.stored \in Speech!Langs /\ speech.catalog \in Speech!Langs
      /\ speech.loaded \in SUBSET Speech!Langs /\ speech.loads \in SUBSET Others
    BY DEF SpeechInv, SpeechFields
<1>2. CASE Speech!MenuToggles
    BY <1>1, <1>2 DEF Speech!MenuToggles, SpeechFields, SpeechInv
<1>3. CASE Speech!Reloads
  <2>1. speech' = Speech!Started(speech.stored)
      BY <1>3 DEF Speech!Reloads
  <2>. QED  BY <1>1, <2>1, StartedSpeech DEF SpeechInv
<1>4. ASSUME NEW l \in Speech!Langs, Speech!SetLang(l) PROVE SpeechInv'
  <2>1. PICK d \in {"ltr", "rtl"} : d = Speech!DirFor(l)
      BY DEF Speech!DirFor
  <2>2. l \notin speech.loaded => l \in Others
      BY <1>1 DEF Speech!Langs
  <2>3. PICK c \in Speech!Langs : c = IF l \in speech.loaded THEN l ELSE speech.catalog
      BY <1>1
  <2>4. PICK ls : ls = IF l \in speech.loaded THEN speech.loads ELSE speech.loads \cup {l}
      OBVIOUS
  <2>5. speech' = [speech EXCEPT !.lang = l, !.dir = d, !.stored = l, !.menu = FALSE, !.catalog = c, !.loads = ls]
      BY <1>4, <2>1, <2>3, <2>4 DEF Speech!SetLang
  <2>6. ls \in SUBSET Others
      BY <1>1, <2>2, <2>4
  <2>. QED  BY <1>1, <2>5, <2>6 DEF SpeechFields, SpeechInv
<1>5. ASSUME NEW l \in Others, Speech!ChunkArrives(l) \/ Speech!ChunkFails(l) PROVE SpeechInv'
  <2>1. l \in Speech!Langs /\ "en" \in Speech!Langs
      BY DEF Speech!Langs
  <2>2. /\ speech.loads \ {l} \in SUBSET Others
        /\ speech.loaded \cup {l} \in SUBSET Speech!Langs /\ "en" \in speech.loaded \cup {l}
      BY <1>1, <2>1
  <2>3. \/ speech' = [speech EXCEPT !.loads = speech.loads \ {l}, !.loaded = speech.loaded \cup {l},
                                   !.catalog = l, !.pending = FALSE]
        \/ speech' = [speech EXCEPT !.catalog = "en", !.pending = FALSE, !.loads = speech.loads \ {l}]
      BY <1>5 DEF Speech!ChunkArrives, Speech!ChunkFails, Speech!Instead
  <2>. QED  BY <1>1, <2>1, <2>2, <2>3 DEF SpeechFields, SpeechInv
<1>6. CASE UNCHANGED speech
    BY <1>6 DEF SpeechInv
<1>. QED  BY <1>2, <1>3, <1>4, <1>5, <1>6 DEF Speech!Next

-------------------------------------------------------------------------------
\* The pairing screen.
ServiceFields == [enabled : BOOLEAN, paired : SUBSET Peers, window : Codes \cup {None}]
PanelFields ==
    [settings : {"closed", "loading", "failed", "form", "wiping"}, known : BOOLEAN, on : BOOLEAN,
     peers : SUBSET Peers, code : Codes \cup {None}, live : BOOLEAN, confirm : BOOLEAN,
     baseline : Screen!Counts, asked : SUBSET Screen!Polls, visible : BOOLEAN]

ScreenInv == service \in ServiceFields /\ panel \in PanelFields /\ calls \in SUBSET Screen!Calls

\* Cardinality is counted there as it is here.
LEMMA ScreenCounts ==
    ASSUME NEW S PROVE (Screen!IsFiniteSet(S) <=> IsFiniteSet(S)) /\ Screen!Cardinality(S) = Cardinality(S)
BY DEF Screen!IsFiniteSet, IsFiniteSet, Screen!Cardinality, Cardinality

\* No more of the peers are shown than there are.
LEMMA CountsOfPeers ==
    ASSUME Screen!DispatchAssumption, NEW ps \in SUBSET Peers
    PROVE  0 \in Screen!Counts /\ Screen!Cardinality(ps) \in Screen!Counts
<1>1. IsFiniteSet(Peers)
    BY ScreenCounts DEF Screen!DispatchAssumption
<1>2. IsFiniteSet(ps) /\ Cardinality(ps) <= Cardinality(Peers)
    BY <1>1, FS_Subset
<1>3. Cardinality(ps) \in Nat /\ Cardinality(Peers) \in Nat
    BY <1>1, <1>2, FS_CardinalityType
<1>4. 0 \in 0..Cardinality(Peers) /\ Cardinality(ps) \in 0..Cardinality(Peers)
    BY <1>2, <1>3
<1>. QED  BY <1>4, ScreenCounts DEF Screen!Counts

\* The panel as it starts, and as it asks again.
LEMMA PanelStarts ==
    ASSUME Screen!DispatchAssumption, NEW s \in {"closed", "loading"}, NEW v \in BOOLEAN
    PROVE  Screen!Panel(s) \in PanelFields /\ [Screen!Panel(s) EXCEPT !.visible = v] \in PanelFields
<1>1. 0 \in Screen!Counts
    BY CountsOfPeers
<1>2. {} \in SUBSET Peers /\ {} \in SUBSET Screen!Polls /\ None \in Codes \cup {None}
    OBVIOUS
<1>3. Screen!Panel(s) \in PanelFields
    BY <1>1, <1>2 DEF Screen!Panel, PanelFields
<1>. QED  BY <1>3 DEF PanelFields

LEMMA PollsAreAsked ==
    ASSUME service \in ServiceFields, NEW b \in Screen!Counts
    PROVE  Screen!Asked(b) \in Screen!Polls
<1>1. service.enabled \in BOOLEAN /\ service.paired \in SUBSET Peers /\ {} \in SUBSET Peers
    BY DEF ServiceFields
<1>2. PICK ps \in SUBSET Peers : ps = IF service.enabled THEN service.paired ELSE {}
    BY <1>1
<1>3. Screen!Asked(b) = [baseline |-> b, on |-> service.enabled, peers |-> ps]
    BY <1>2 DEF Screen!Asked
<1>. QED  BY <1>1, <1>3 DEF Screen!Polls

LEMMA PanelAsks ==
    ASSUME service \in ServiceFields, NEW pn \in PanelFields
    PROVE  /\ Screen!Refreshed(pn) \in PanelFields
           /\ \A b \in Screen!Counts : Screen!RefreshedFor(pn, b) \in PanelFields
<1>1. pn.baseline \in Screen!Counts /\ pn.asked \in SUBSET Screen!Polls
    BY DEF PanelFields
<1>2. ASSUME NEW b \in Screen!Counts PROVE Screen!RefreshedFor(pn, b) \in PanelFields
  <2>1. PICK a \in Screen!Polls : a = Screen!Asked(b)
      BY PollsAreAsked
  <2>2. pn.asked \cup {a} \in SUBSET Screen!Polls
      BY <1>1
  <2>3. Screen!RefreshedFor(pn, b) = [pn EXCEPT !.asked = pn.asked \cup {a}]
      BY <2>1 DEF Screen!RefreshedFor
  <2>. QED  BY <2>2, <2>3 DEF PanelFields
<1>. QED  BY <1>1, <1>2 DEF Screen!Refreshed

LEMMA PanelIsRebased ==
    ASSUME ScreenInv, NEW b \in Screen!Counts
    PROVE  Screen!Rebased(b) \in PanelFields
<1>1. panel \in PanelFields /\ service \in ServiceFields
    BY DEF ScreenInv
<1>2. [panel EXCEPT !.baseline = b] \in PanelFields
    BY <1>1 DEF PanelFields
<1>3. Screen!Refreshed([panel EXCEPT !.baseline = b]) \in PanelFields
    BY <1>1, <1>2, PanelAsks
<1>. QED  BY <1>1, <1>3 DEF Screen!Rebased

LEMMA CountedIsACount ==
    ASSUME Screen!DispatchAssumption, ScreenInv
    PROVE  Screen!Counted \in Screen!Counts /\ panel.baseline \in Screen!Counts
<1>1. panel.peers \in SUBSET Peers /\ panel.baseline \in Screen!Counts
    BY DEF ScreenInv, PanelFields
<1>. QED  BY <1>1, CountsOfPeers DEF Screen!Counted

LEMMA ScreenInit ==
    ASSUME Screen!DispatchAssumption, Screen!Init PROVE ScreenInv
<1>1. PICK ps \in SUBSET Peers, on \in BOOLEAN :
        /\ service = [enabled |-> on, paired |-> ps, window |-> None]
        /\ panel = Screen!Panel("closed") /\ calls = {}
    BY DEF Screen!Init
<1>2. panel \in PanelFields
    BY <1>1, PanelStarts
<1>. QED  BY <1>1, <1>2 DEF ScreenInv, ServiceFields

\* What the panel does on its own, and what is pressed on it.
LEMMA PanelStep ==
    ASSUME Screen!DispatchAssumption, ScreenInv,
           \/ Screen!Poll \/ Screen!OpenSettings \/ Screen!SettingsArrive \/ Screen!CloseSettings
           \/ Screen!AsksToWipe \/ Screen!Wipe \/ Screen!VisibilityChanges
    PROVE  panel' \in PanelFields
<1>1. panel \in PanelFields /\ service \in ServiceFields /\ panel.visible \in BOOLEAN
    BY DEF ScreenInv, PanelFields
<1>2. CASE Screen!Poll
    BY <1>1, <1>2, PanelAsks DEF Screen!Poll
<1>3. CASE Screen!OpenSettings
    BY <1>1, <1>3, PanelStarts DEF Screen!OpenSettings
<1>4. CASE Screen!SettingsArrive
  <2>1. [panel EXCEPT !.settings = "form"] \in PanelFields /\ [panel EXCEPT !.settings = "failed"] \in PanelFields
      BY <1>1 DEF PanelFields
  <2>. QED  BY <1>1, <1>4, <2>1, PanelAsks DEF Screen!SettingsArrive
<1>5. CASE Screen!CloseSettings \/ Screen!Wipe
    BY <1>1, <1>5, PanelStarts DEF Screen!CloseSettings, Screen!Wipe
<1>6. CASE Screen!AsksToWipe
  <2>1. PICK s \in {"form", "wiping"} : panel' = [panel EXCEPT !.settings = s]
      BY <1>6 DEF Screen!AsksToWipe
  <2>. QED  BY <1>1, <2>1 DEF PanelFields
<1>7. CASE Screen!VisibilityChanges
  <2>1. PICK pn : pn = [panel EXCEPT !.visible = ~panel.visible]
      OBVIOUS
  <2>2. pn \in PanelFields
      BY <1>1, <2>1 DEF PanelFields
  <2>3. panel' \in {pn, Screen!Refreshed(pn)}
      BY <1>7, <2>1 DEF Screen!VisibilityChanges
  <2>. QED  BY <1>1, <2>2, <2>3, PanelAsks
<1>. QED  BY <1>2, <1>3, <1>4, <1>5, <1>6, <1>7

LEMMA PressStep ==
    ASSUME Screen!DispatchAssumption, ScreenInv,
           \/ Screen!PairPressed \/ Screen!RenewPressed \/ Screen!CloseCode \/ Screen!KeepCode
           \/ Screen!TogglePressed \/ Screen!CodeRunsOut
           \/ \E p \in Peers : Screen!Unpair(p) \/ Screen!ActsOnPeer(p)
           \/ \E answered \in panel.asked : Screen!PollArrives(answered) \/ Screen!PollFails(answered)
    PROVE  panel' \in PanelFields
<1>1. panel \in PanelFields /\ service \in ServiceFields /\ panel.visible \in BOOLEAN
    BY DEF ScreenInv, PanelFields
<1>2. CASE Screen!PairPressed
    BY <1>2, PanelIsRebased, CountedIsACount DEF Screen!PairPressed
<1>3. CASE Screen!RenewPressed \/ Screen!TogglePressed
    BY <1>1, <1>3 DEF Screen!RenewPressed, Screen!TogglePressed
<1>4. CASE Screen!CloseCode
  <2>1. /\ [panel EXCEPT !.confirm = TRUE] \in PanelFields
        /\ [panel EXCEPT !.code = None, !.confirm = FALSE] \in PanelFields
      BY <1>1 DEF PanelFields
  <2>2. \/ panel' = [panel EXCEPT !.confirm = TRUE]
        \/ panel' = Screen!Refreshed([panel EXCEPT !.code = None, !.confirm = FALSE])
      BY <1>4 DEF Screen!CloseCode
  <2>. QED  BY <1>1, <2>1, <2>2, PanelAsks
<1>5. CASE Screen!KeepCode \/ Screen!CodeRunsOut
  <2>1. panel' = [panel EXCEPT !.confirm = FALSE] \/ panel' = [panel EXCEPT !.live = FALSE]
      BY <1>5 DEF Screen!KeepCode, Screen!CodeRunsOut
  <2>. QED  BY <1>1, <2>1 DEF PanelFields
<1>6. ASSUME NEW p \in Peers, Screen!Unpair(p) PROVE panel' \in PanelFields
  <2>1. panel.baseline \in Screen!Counts /\ panel.asked \in SUBSET Screen!Polls
        /\ service.paired \ {p} \in SUBSET Peers
      BY <1>1 DEF PanelFields, ServiceFields
  <2>2. PICK a \in Screen!Polls : a = Screen!Asked(panel.baseline)
      BY <1>1, <2>1, PollsAreAsked
  <2>3. PICK q : q = [a EXCEPT !.peers = service.paired \ {p}]
      OBVIOUS
  <2>4. q \in Screen!Polls
      BY <2>1, <2>3 DEF Screen!Polls
  <2>5. panel' = [panel EXCEPT !.asked = panel.asked \cup {q}]
      BY <1>6, <2>2, <2>3 DEF Screen!Unpair
  <2>6. panel.asked \cup {q} \in SUBSET Screen!Polls
      BY <2>1, <2>4
  <2>. QED  BY <1>1, <2>5, <2>6 DEF PanelFields
<1>7. ASSUME NEW p \in Peers, Screen!ActsOnPeer(p) PROVE panel' \in PanelFields
    BY <1>1, <1>7, PanelAsks DEF Screen!ActsOnPeer
<1>8. ASSUME NEW answered \in panel.asked, Screen!PollArrives(answered) \/ Screen!PollFails(answered)
      PROVE  panel' \in PanelFields
  <2>1. /\ panel.asked \ {answered} \in SUBSET Screen!Polls /\ answered.on \in BOOLEAN /\ answered.peers \in SUBSET Peers
        /\ panel.code \in Codes \cup {None} /\ panel.confirm \in BOOLEAN
      BY <1>1 DEF PanelFields, Screen!Polls
  <2>2. PICK c \in Codes \cup {None} : c = IF Screen!IsPaired(answered) THEN None ELSE panel.code
      BY <2>1
  <2>3. PICK k \in BOOLEAN : k = (panel.confirm /\ answered.on /\ ~Screen!IsPaired(answered))
      OBVIOUS
  <2>4. \/ panel' = [panel EXCEPT !.asked = panel.asked \ {answered}, !.known = TRUE, !.on = answered.on,
                                  !.peers = answered.peers, !.code = c, !.confirm = k]
        \/ panel' = [panel EXCEPT !.asked = panel.asked \ {answered}]
      BY <1>8, <2>2, <2>3 DEF Screen!PollArrives, Screen!PollFails
  <2>. QED  BY <1>1, <2>1, <2>4 DEF PanelFields
<1>. QED  BY <1>2, <1>3, <1>4, <1>5, <1>6, <1>7, <1>8

\* What the service makes of a request, and what comes of its answer.
LEMMA CallStep ==
    ASSUME Screen!DispatchAssumption, ScreenInv, Screen!ServiceNext PROVE ScreenInv'
<1>1. /\ panel \in PanelFields /\ service \in ServiceFields /\ calls \in SUBSET Screen!Calls
    BY DEF ScreenInv
<1>2. PICK c \in calls :
        \/ Screen!ServeStart(c) \/ Screen!ServeCancel(c) \/ Screen!ServeToggle(c)
        \/ Screen!CallFails(c) \/ Screen!CallArrives(c)
    BY DEF Screen!ServiceNext
<1>3. c \in Screen!Calls /\ calls \ {c} \in SUBSET Screen!Calls
    BY <1>1, <1>2
<1>4. ASSUME NEW answer \in Codes \cup {"sent", "refused", "done"}, NEW svc \in ServiceFields,
             Screen!ServiceAnswers(c, answer, svc)
      PROVE  ScreenInv'
  <2>1. PICK d : d = [c EXCEPT !.answer = answer]
      OBVIOUS
  <2>2. d \in Screen!Calls
      BY <1>3, <2>1 DEF Screen!Calls
  <2>3. calls' = (calls \ {c}) \cup {d} /\ service' = svc /\ panel' = panel
      BY <1>4, <2>1 DEF Screen!ServiceAnswers
  <2>. QED  BY <1>1, <1>3, <2>2, <2>3 DEF ScreenInv
<1>5. CASE Screen!ServeStart(c)
  <2>1. ASSUME NEW code \in Codes, Screen!ServiceAnswers(c, code, [service EXCEPT !.window = code])
        PROVE  ScreenInv'
    <3>1. PICK svc : svc = [service EXCEPT !.window = code]
        OBVIOUS
    <3>2. svc \in ServiceFields
        BY <1>1, <3>1 DEF ServiceFields
    <3>. QED  BY <1>4, <2>1, <3>1, <3>2
  <2>. QED  BY <1>1, <1>4, <1>5, <2>1 DEF Screen!ServeStart
<1>6. CASE Screen!ServeCancel(c)
  <2>1. /\ service' = [service EXCEPT !.window = None] /\ panel' = panel
        /\ calls' = (calls \ {c}) \cup (IF c.kind = "close" THEN {[c EXCEPT !.answer = "done"]} ELSE {})
      BY <1>6 DEF Screen!ServeCancel
  <2>2. service' \in ServiceFields
      BY <1>1, <2>1 DEF ServiceFields
  <2>3. [c EXCEPT !.answer = "done"] \in Screen!Calls
      BY <1>3 DEF Screen!Calls
  <2>. QED  BY <1>1, <1>3, <2>1, <2>2, <2>3 DEF ScreenInv
<1>7. CASE Screen!ServeToggle(c)
  <2>1. PICK w \in Codes \cup {None} : w = IF c.kind = "on" THEN service.window ELSE None
      BY <1>1 DEF ServiceFields
  <2>2. PICK svc : svc = [service EXCEPT !.enabled = c.kind = "on",
                                         !.window = IF c.kind = "on" THEN @ ELSE None]
      OBVIOUS
  <2>3. svc \in ServiceFields
      BY <1>1, <2>1, <2>2 DEF ServiceFields
  <2>4. Screen!ServiceAnswers(c, "done", svc)
      BY <1>7, <2>2 DEF Screen!ServeToggle
  <2>. QED  BY <1>4, <2>3, <2>4
<1>8. CASE Screen!CallFails(c)
    BY <1>1, <1>4, <1>8 DEF Screen!CallFails
<1>9. CASE Screen!CallArrives(c)
  <2>1. /\ service' = service
        /\ calls' = (calls \ {c}) \cup
                    (IF c.kind = "close" THEN {[c EXCEPT !.kind = "renew", !.answer = "sent"]} ELSE {})
      BY <1>9 DEF Screen!CallArrives
  <2>2. [c EXCEPT !.kind = "renew", !.answer = "sent"] \in Screen!Calls /\ c.base \in Screen!Counts
      BY <1>3 DEF Screen!Calls, Screen!Kinds
  <2>3. /\ [panel EXCEPT !.code = None, !.confirm = FALSE] \in PanelFields
        /\ c.answer \in Codes => [panel EXCEPT !.code = c.answer, !.live = TRUE] \in PanelFields
      BY <1>1 DEF PanelFields
  <2>4. Screen!Rebased(c.base) \in PanelFields /\ Screen!RefreshedFor(panel, c.base) \in PanelFields
      BY <1>1, <2>2, PanelIsRebased, PanelAsks
  <2>5. \/ panel' \in {panel, Screen!Rebased(c.base), [panel EXCEPT !.code = None, !.confirm = FALSE],
                       Screen!RefreshedFor(panel, c.base)}
        \/ c.answer \in Codes /\ panel' = [panel EXCEPT !.code = c.answer, !.live = TRUE]
      BY <1>9 DEF Screen!CallArrives
  <2>. QED  BY <1>1, <1>3, <2>1, <2>2, <2>3, <2>4, <2>5 DEF ScreenInv
<1>. QED  BY <1>2, <1>5, <1>6, <1>7, <1>8, <1>9

LEMMA ScreenStep ==
    ASSUME Screen!DispatchAssumption, ScreenInv, [Screen!Next]_screenVars PROVE ScreenInv'
<1>1. /\ panel \in PanelFields /\ service \in ServiceFields /\ calls \in SUBSET Screen!Calls
    BY DEF ScreenInv
<1>2. ASSUME NEW kind \in Screen!Kinds, NEW base \in Screen!Counts
      PROVE  calls \cup {Screen!Sent(kind, base)} \in SUBSET Screen!Calls
  <2>1. Screen!Sent(kind, base) \in Screen!Calls
      BY DEF Screen!Sent, Screen!Calls
  <2>. QED  BY <1>1, <2>1
<1>3. CASE \/ Screen!Poll \/ Screen!OpenSettings \/ Screen!SettingsArrive \/ Screen!AsksToWipe
           \/ Screen!VisibilityChanges
  <2>1. UNCHANGED <<service, calls>>
      BY <1>3 DEF Screen!Poll, Screen!OpenSettings, Screen!SettingsArrive, Screen!AsksToWipe, Screen!VisibilityChanges
  <2>. QED  BY <1>1, <1>3, <2>1, PanelStep DEF ScreenInv
<1>4. CASE Screen!CloseSettings \/ Screen!Wipe
  <2>1. service' = service /\ calls' = Screen!Orphaned
      BY <1>4 DEF Screen!CloseSettings, Screen!Wipe
  <2>2. Screen!Orphaned \in SUBSET Screen!Calls
      BY <1>1 DEF Screen!Orphaned, Screen!Calls
  <2>. QED  BY <1>1, <1>4, <2>1, <2>2, PanelStep DEF ScreenInv
<1>5. CASE \/ Screen!PairPressed \/ Screen!RenewPressed \/ Screen!CloseCode \/ Screen!KeepCode
           \/ Screen!TogglePressed \/ Screen!CodeRunsOut
  <2>1. service' = service
      BY <1>5 DEF Screen!PairPressed, Screen!RenewPressed, Screen!CloseCode, Screen!KeepCode,
             Screen!TogglePressed, Screen!CodeRunsOut
  <2>2. \/ calls' = calls
        \/ \E kind \in Screen!Kinds, base \in {Screen!Counted, panel.baseline} :
             calls' = calls \cup {Screen!Sent(kind, base)}
      BY <1>5 DEF Screen!Kinds, Screen!PairPressed, Screen!RenewPressed, Screen!CloseCode, Screen!KeepCode,
             Screen!TogglePressed, Screen!CodeRunsOut
  <2>3. calls' \in SUBSET Screen!Calls
      BY <1>1, <1>2, <2>2, CountedIsACount
  <2>. QED  BY <1>1, <1>5, <2>1, <2>3, PressStep DEF ScreenInv
<1>6. ASSUME NEW p \in Peers, Screen!Unpair(p) PROVE ScreenInv'
  <2>1. service' = [service EXCEPT !.paired = service.paired \ {p}] /\ calls' = calls
      BY <1>6 DEF Screen!Unpair
  <2>2. service' \in ServiceFields
      BY <1>1, <2>1 DEF ServiceFields
  <2>. QED  BY <1>1, <1>6, <2>1, <2>2, PressStep DEF ScreenInv
<1>7. ASSUME NEW p \in Peers, Screen!ActsOnPeer(p) PROVE ScreenInv'
  <2>1. UNCHANGED <<service, calls>>
      BY <1>7 DEF Screen!ActsOnPeer
  <2>. QED  BY <1>1, <1>7, <2>1, PressStep DEF ScreenInv
<1>8. ASSUME NEW answered \in panel.asked, Screen!PollArrives(answered) \/ Screen!PollFails(answered) PROVE ScreenInv'
  <2>1. UNCHANGED <<service, calls>>
      BY <1>8 DEF Screen!PollArrives, Screen!PollFails
  <2>. QED  BY <1>1, <1>8, <2>1, PressStep DEF ScreenInv
<1>9. CASE Screen!WindowExpires \/ \E p \in Peers : Screen!PairingCompletes(p)
  <2>1. UNCHANGED <<panel, calls>>
      BY <1>9 DEF Screen!WindowExpires, Screen!PairingCompletes
  <2>2. PICK ps \in SUBSET Peers : service' = [service EXCEPT !.paired = ps, !.window = None]
    <3>1. CASE Screen!WindowExpires
      <4>1. service' = [service EXCEPT !.paired = service.paired, !.window = None] /\ service.paired \in SUBSET Peers
          BY <1>1, <3>1 DEF Screen!WindowExpires, ServiceFields
      <4>. QED  BY <4>1
    <3>2. CASE \E p \in Peers : Screen!PairingCompletes(p)
      <4>1. PICK p \in Peers : service' = [service EXCEPT !.paired = service.paired \cup {p}, !.window = None]
          BY <3>2 DEF Screen!PairingCompletes
      <4>2. service.paired \cup {p} \in SUBSET Peers
          BY <1>1 DEF ServiceFields
      <4>. QED  BY <4>1, <4>2
    <3>. QED  BY <1>9, <3>1, <3>2
  <2>3. service' \in ServiceFields
      BY <1>1, <2>2 DEF ServiceFields
  <2>. QED  BY <1>1, <2>1, <2>3 DEF ScreenInv
<1>10. CASE UNCHANGED screenVars
    BY <1>1, <1>10 DEF ScreenInv, screenVars
<1>. QED  BY <1>3, <1>4, <1>5, <1>6, <1>7, <1>8, <1>9, <1>10, CallStep DEF Screen!Next

-------------------------------------------------------------------------------
\* The page: the part that moves keeps its invariant, and no other part's feed is live.
PageInv ==
    /\ focus \in {"page", "data", "layers", "readout", "speech", "screen"}
    /\ focus = "page" => IInv
    /\ focus # "page" => stream = [s \in Streams |-> Gone] /\ ~live
    /\ focus = "data" => Data!TypeOK
    /\ focus = "layers" => Layered!TypeOK
    /\ focus = "readout" => Readout!TypeOK
    /\ focus = "speech" => SpeechInv
    /\ focus = "screen" => ScreenInv

LEMMA PageInvInit == Init => PageInv
<1>. SUFFICES ASSUME Init PROVE PageInv
    OBVIOUS
<1>1. focus # "page" => stream = [s \in Streams |-> Gone] /\ ~live
    BY DEF Init, NoPage
<1>. QED  BY <1>1, PartsAssumption, InitIInv, DataInit, LayersInit, ReadoutInit, SpeechInit, ScreenInit
          DEF Init, PageInv

LEMMA PageInvStep == PageInv /\ [Next]_vars => PageInv'
<1>. SUFFICES ASSUME PageInv, [Next]_vars PROVE PageInv'
    OBVIOUS
<1>1. CASE focus = "page"
  <2>1. focus' = "page" /\ [PageNext]_pageVars
      BY <1>1 DEF Next, Alone, vars
  <2>. QED  BY <1>1, <2>1, StepIInv DEF PageInv
<1>2. focus # "page" => UNCHANGED pageVars
    BY DEF Next, Alone, vars
<1>3. focus # "page" => stream' = [s \in Streams |-> Gone] /\ ~live'
    BY <1>2 DEF PageInv, pageVars
<1>4. CASE focus = "data"
  <2>1. focus' = "data" /\ [Data!Next]_tower
      BY <1>4 DEF Next, Alone, vars
  <2>2. Data!TypeOK'
      BY <1>4, <2>1, PartsAssumption, DataStep DEF PageInv
  <2>. QED  BY <1>3, <1>4, <2>1, <2>2 DEF PageInv
<1>5. CASE focus = "layers"
  <2>1. focus' = "layers" /\ [Layered!Next]_layers
      BY <1>5 DEF Next, Alone, vars
  <2>2. Layered!TypeOK'
      BY <1>5, <2>1, LayersStep DEF PageInv
  <2>. QED  BY <1>3, <1>5, <2>1, <2>2 DEF PageInv
<1>6. CASE focus = "readout"
  <2>1. focus' = "readout" /\ [Readout!Next]_readout
      BY <1>6 DEF Next, Alone, vars
  <2>2. Readout!TypeOK'
      BY <1>6, <2>1, ReadoutStep DEF PageInv
  <2>. QED  BY <1>3, <1>6, <2>1, <2>2 DEF PageInv
<1>7. CASE focus = "speech"
  <2>1. focus' = "speech" /\ [Speech!Next]_speech
      BY <1>7 DEF Next, Alone, vars
  <2>2. SpeechInv'
      BY <1>7, <2>1, SpeechStep DEF PageInv
  <2>. QED  BY <1>3, <1>7, <2>1, <2>2 DEF PageInv
<1>8. CASE focus = "screen"
  <2>1. focus' = "screen" /\ [Screen!Next]_screenVars
      BY <1>8 DEF Next, Alone, vars, screenVars
  <2>2. ScreenInv'
      BY <1>8, <2>1, PartsAssumption, ScreenStep DEF PageInv
  <2>. QED  BY <1>3, <1>8, <2>1, <2>2 DEF PageInv
<1>. QED  BY <1>1, <1>4, <1>5, <1>6, <1>7, <1>8 DEF PageInv

LEMMA PageInvHolds == Spec => []PageInv
BY PageInvInit, PageInvStep, PTL DEF Spec

\* Whichever part of the page moves, it keeps what it says it is, with any number of
\* feeds, filters, peers, facts, languages and codes.
THEOREM PageTypeCorrect == Spec => []TypeOK
<1>1. SpeechInv => Speech!TypeOK
    BY DEF SpeechInv, SpeechFields, Speech!TypeOK
<1>2. ScreenInv => Screen!TypeOK
    BY DEF ScreenInv, ServiceFields, PanelFields, Screen!TypeOK
<1>3. PageInv => TypeOK
    BY <1>1, <1>2 DEF PageInv, IInv, TypeOK
<1>. QED  BY <1>3, PageInvHolds, PTL

\* The whole page, whatever part of it moves, listens with its mounted feed only and says
\* it is live only with one (api.ts:338-385).
THEOREM PageListensOnce == Spec => [](OnlyTheMountedListens /\ LiveHasAFeed)
<1>1. IInv => OnlyTheMountedListens /\ LiveHasAFeed
    BY DEF IInv
<1>2. stream = [s \in Streams |-> Gone] /\ ~live => OnlyTheMountedListens /\ LiveHasAFeed
    BY DEF Gone, OnlyTheMountedListens, LiveHasAFeed
<1>3. PageInv => OnlyTheMountedListens /\ LiveHasAFeed
    BY <1>1, <1>2 DEF PageInv
<1>. QED  BY <1>3, PageInvHolds, PTL
=============================================================================
