----------------------------------- MODULE Page -----------------------------------
\* What a page that is left alone comes to: its session, its filter, its peers, its
\* readouts, its language and its pairing screen, one of them at a time: focus says, once
\* and for all, which one moves.
EXTENDS PageSession, Integers

CONSTANTS
    Ranges, MaxFlights,           \* of the filter, and of its requests
    Peers, Endpoints,             \* machines that are paired, places this one talks to
    Facts,                        \* that are read out
    Others, RightToLeft,          \* languages beyond English
    Codes, MaxPolls, MaxCalls,    \* of the pairing screen
    None

VARIABLES focus, tower, layers, readout, speech, service, panel, calls

Data == INSTANCE TowerData
Layered == INSTANCE PeerLayers
Readout == INSTANCE Readouts
Speech == INSTANCE Languages
Screen == INSTANCE DispatchScreen WITH NoCode <- None

screenVars == <<service, panel, calls>>
vars == <<focus, pageVars, tower, layers, readout, speech, service, panel, calls>>

\* A part that is not there, as far as a property looks at it.
Off == [visible |-> FALSE, pending |-> FALSE, shown |-> "unknown", layer |-> "mine", settings |-> "closed"]
NoPage ==
    /\ up = FALSE /\ signedIn = FALSE /\ hasPass = FALSE /\ visible = FALSE
    /\ auth = [phase |-> "checking", status |-> "login"] /\ check = None /\ retry = FALSE
    /\ post = None /\ poll = None
    /\ stream = [s \in Streams |-> Gone] /\ feed = NoStream /\ live = FALSE

Init ==
    /\ focus \in {"page", "data", "layers", "readout", "speech", "screen"}
    /\ IF focus = "page" THEN PageInit ELSE NoPage
    /\ IF focus = "data" THEN Data!Init ELSE tower = [visible |-> FALSE, shown |-> Data!NoFilter]
    /\ IF focus = "layers" THEN Layered!Init ELSE layers = Off
    /\ IF focus = "readout" THEN Readout!Init ELSE readout = Off
    /\ IF focus = "speech" THEN Speech!Init ELSE speech = Off
    /\ IF focus = "screen" THEN Screen!Init ELSE service = Off /\ panel = Off /\ calls = {}

\* Only the focused part moves.
Alone(part) ==
    /\ focus = part /\ UNCHANGED focus
    /\ IF part = "page" THEN TRUE ELSE UNCHANGED pageVars
    /\ IF part = "data" THEN TRUE ELSE UNCHANGED tower
    /\ IF part = "layers" THEN TRUE ELSE UNCHANGED layers
    /\ IF part = "readout" THEN TRUE ELSE UNCHANGED readout
    /\ IF part = "speech" THEN TRUE ELSE UNCHANGED speech
    /\ IF part = "screen" THEN TRUE ELSE UNCHANGED screenVars

Next ==
    \/ focus = "page" /\ PageNext /\ Alone("page")
    \/ focus = "data" /\ Data!Next /\ Alone("data")
    \/ focus = "layers" /\ Layered!Next /\ Alone("layers")
    \/ focus = "readout" /\ Readout!Next /\ Alone("readout")
    \/ focus = "speech" /\ Speech!Next /\ Alone("speech")
    \/ focus = "screen" /\ Screen!Next /\ Alone("screen")

\* Requests of the session are answered, its timers fire, and a mounted dashboard polls
\* (PageFairness of PageSession). Elsewhere, a page that is looked at asks on its interval,
\* what was asked for is answered or fails in the end, and a request made of things as
\* they are is not refused for ever.
PageActs(act) == focus = "page" /\ act /\ Alone("page")

SessionFairness ==
    /\ WF_vars(PageActs(ServeStatus)) /\ WF_vars(PageActs(StatusArrives))
    /\ WF_vars(PageActs(RetryFires))
    /\ WF_vars(PageActs(ServePost)) /\ WF_vars(PageActs(PostArrives))
    /\ WF_vars(PageActs(PollStarts)) /\ WF_vars(PageActs(ServePoll))
    /\ WF_vars(PageActs(PollArrives))
    /\ \A s \in Streams :
         WF_vars(PageActs(StreamClosed(s))) /\ WF_vars(PageActs(StreamRedials(s)))

Asks ==
    \/ focus = "data" /\ Data!Poll /\ Alone("data")
    \/ focus = "layers" /\ Layered!PollDestinations /\ Alone("layers")
    \/ focus = "readout" /\ Readout!Poll /\ Alone("readout")
    \/ focus = "screen" /\ Screen!Poll /\ Alone("screen")

Lands ==
    \/ focus = "data" /\ (\E f \in tower.flights : Data!Arrives(f) \/ Data!Fails(f)) /\ Alone("data")
    \/ focus = "speech" /\ (\E l \in speech.loads : Speech!ChunkArrives(l) \/ Speech!ChunkFails(l)) /\ Alone("speech")
    \/ focus = "screen" /\ (\E a \in panel.asked : Screen!PollArrives(a) \/ Screen!PollFails(a)) /\ Alone("screen")

CurrentLands ==
    \/ focus = "data" /\ Data!Arrives(Data!FilterQuery(tower.filter)) /\ Alone("data")
    \/ focus = "layers" /\ Layered!DestinationsArrive(Layered!Load) /\ Alone("layers")
    \/ focus = "readout" /\ Readout!Arrives(readout.fact) /\ Alone("readout")
    \/ focus = "screen" /\ Screen!CurrentPollArrives /\ Alone("screen")

Spec ==
    /\ Init /\ [][Next]_vars
    /\ SessionFairness /\ WF_vars(Asks) /\ WF_vars(Lands) /\ SF_vars(CurrentLands)

\* What the parts assume of their constants.
ASSUME PartsAssumption ==
    /\ Data!TowerAssumption /\ Layered!LayerAssumption
    /\ Readout!ReadoutAssumption /\ Speech!LanguageAssumption /\ Screen!DispatchAssumption

-------------------------------------------------------------------------------
\* Every part keeps its types.
TypeOK ==
    CASE focus = "page" -> PageTypeOK
      [] focus = "data" -> Data!TypeOK
      [] focus = "layers" -> Layered!TypeOK
      [] focus = "readout" -> Readout!TypeOK
      [] focus = "speech" -> Speech!TypeOK
      [] OTHER -> Screen!TypeOK

\* A page left alone comes to show what its reader chose, what the service's facts are,
\* and something at all (app.tsx, widgets.tsx, health.tsx, i18n).
ScreenComesTrue ==
    /\ Data!LiveScreenFollowsFilter
    /\ Readout!ReadoutComesTrue
    /\ Speech!PageIsNotLeftBlank

\* The rows of a machine that was unpaired leave the screen (app.tsx).
UnpairedLeavesTheScreen == Layered!UnpairedLeavesTheScreen

\* A pairing that has worked takes the code off the screen (dispatch.tsx).
PairedIsNoticed == focus = "screen" => Screen!PairedIsNoticed
=============================================================================
