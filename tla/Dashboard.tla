--------------------------------- MODULE Dashboard ---------------------------------
\* The views of the dashboard, one of them at a time: they share nothing but the page, so
\* focus says, once and for all, which one moves, and the others are not there.
EXTENDS WatchtowerMap, RosterView, Notices, WantedList, Sequences

CONSTANTS
    Machines, Offers, MaxHistory, MaxEvents,     \* of the frame, and what is offered from it
    Layers, OtherLayers,                         \* whose traffic: all of them; beyond one's own
    Terms,                                       \* searched for
    Ranges, Hours, Filters,                      \* of the bars, of the chatter
    Hosts, Orgs, Crowded(_, _),                  \* on the diagram: devices, organizations
    Alphabet, Confused, ReadAs(_), Foreign,      \* of a code that is typed
    CodeChars, CodeGroup, Dash, Pasted,
    Scores, Times, Asked                         \* of the findings of the card

VARIABLES focus, shell, search, line, chatter, precinct, join, card, kin

Hull == INSTANCE Shell WITH Devices <- Offers
Search == INSTANCE SearchBox
Line == INSTANCE Timeline
Chatter == INSTANCE RadioChatter
Precinct == INSTANCE PrecinctMap WITH Devices <- Hosts
Join == INSTANCE JoinDialog
Card == INSTANCE MostWanted
Kin == INSTANCE PeerDevices WITH Layers <- OtherLayers

vars == <<focus, shell, search, line, chatter, precinct, notices, view, limits, mouse, map, join, record, board, net, roster, card, kin>>

\* The map as it starts, where another part moves.
NoMap ==
    /\ view = [frame |-> Unsized, k |-> 1, t |-> 0] /\ limits = [min |-> TRUE, max |-> FALSE]
    /\ mouse = [dragging |-> FALSE, moved |-> FALSE, clicks |-> FALSE]
    /\ map = Fresh({}, {}, None, FALSE)

\* Nothing was ever asked about the findings, nor listed.
NoNotices == notices = [told |-> [f \in FindingRows |-> 0], met |-> {}, stood |-> {}]
NoBoard == record = Nothing /\ board = [wanted |-> NoAnswer, findings |-> NoAnswer]

Init ==
    /\ focus \in {"shell", "search", "line", "chatter", "precinct", "notices", "map", "join", "board", "people", "card", "kin"}
    /\ IF focus = "shell" THEN Hull!Init ELSE shell = None
    /\ IF focus = "search" THEN Search!Init ELSE search = None
    /\ IF focus = "line" THEN Line!Init ELSE line = None
    /\ IF focus = "chatter" THEN Chatter!Init ELSE chatter = None
    /\ IF focus = "precinct" THEN Precinct!Init ELSE precinct = None
    /\ IF focus = "notices" THEN NoticesInit ELSE NoNotices
    /\ IF focus = "map" THEN MapInit ELSE NoMap
    /\ IF focus = "join" THEN Join!Init ELSE join = None
    /\ IF focus = "board" THEN BoardInit ELSE NoBoard
    /\ IF focus = "people" THEN RosterInit ELSE net = NoList /\ roster = Blank
    /\ IF focus = "card" THEN Card!Init ELSE card = None
    /\ IF focus = "kin" THEN Kin!Init ELSE kin = None

\* Only the focused part moves.
Alone(part) ==
    /\ UNCHANGED focus
    /\ IF part = "shell" THEN TRUE ELSE UNCHANGED shell
    /\ IF part = "search" THEN TRUE ELSE UNCHANGED search
    /\ IF part = "line" THEN TRUE ELSE UNCHANGED line
    /\ IF part = "chatter" THEN TRUE ELSE UNCHANGED chatter
    /\ IF part = "precinct" THEN TRUE ELSE UNCHANGED precinct
    /\ IF part = "notices" THEN TRUE ELSE UNCHANGED notices
    /\ IF part = "map" THEN TRUE ELSE UNCHANGED mapVars
    /\ IF part = "join" THEN TRUE ELSE UNCHANGED join
    /\ IF part = "board" THEN TRUE ELSE UNCHANGED boardVars
    /\ IF part = "people" THEN TRUE ELSE UNCHANGED rosterVars
    /\ IF part = "card" THEN TRUE ELSE UNCHANGED card
    /\ IF part = "kin" THEN TRUE ELSE UNCHANGED kin

Next ==
    \/ focus = "shell" /\ Hull!Next /\ Alone("shell")
    \/ focus = "search" /\ Search!Next /\ Alone("search")
    \/ focus = "line" /\ Line!Next /\ Alone("line")
    \/ focus = "chatter" /\ Chatter!Next /\ Alone("chatter")
    \/ focus = "precinct" /\ Precinct!Next /\ Alone("precinct")
    \/ focus = "notices" /\ NoticesNext /\ Alone("notices")
    \/ focus = "map" /\ MapNext /\ Alone("map")
    \/ focus = "join" /\ Join!Next /\ Alone("join")
    \/ focus = "board" /\ BoardNext /\ Alone("board")
    \/ focus = "people" /\ RosterNext /\ Alone("people")
    \/ focus = "card" /\ Card!Next /\ Alone("card")
    \/ focus = "kin" /\ Kin!Next /\ Alone("kin")

Spec == Init /\ [][Next]_vars

\* What the parts assume of their constants.
ASSUME PartsAssumption ==
    /\ Hull!ShellAssumption /\ Search!SearchAssumption /\ Line!TimelineAssumption
    /\ Chatter!ChatterAssumption /\ Precinct!PrecinctAssumption /\ Join!JoinAssumption
    /\ Card!MostWantedAssumption /\ Kin!PeerDevicesAssumption

-------------------------------------------------------------------------------
\* Every part keeps its types.
TypeOK ==
    CASE focus = "shell" -> Hull!TypeOK
      [] focus = "search" -> Search!TypeOK
      [] focus = "line" -> Line!TypeOK
      [] focus = "chatter" -> Chatter!TypeOK
      [] focus = "precinct" -> Precinct!TypeOK
      [] focus = "notices" -> NoticesTypeOK
      [] focus = "map" -> MapTypeOK
      [] focus = "join" -> Join!TypeOK
      [] focus = "board" -> BoardTypeOK
      [] focus = "people" -> RosterTypeOK
      [] focus = "card" -> Card!TypeOK
      [] OTHER -> Kin!TypeOK

\* The view is that of the URL, Help's facts of this machine, bars of the range chosen,
\* rows of the list they stand in, devices of the layer, the findings listed the worst of
\* those given, and a diagram no longer laid out of the network, with what is lit and
\* named in it; or what makes them so is on its way. Nothing is searched for that is not
\* in the field any more (app.tsx, help.tsx, toolbar.tsx, timeline.tsx, chatter.tsx,
\* roster.tsx, widgets.tsx, precinct.tsx).
AnswersAreOfTheirQuestion ==
    /\ focus = "shell" => Hull!ViewIsOfTheAddress /\ Hull!HelpIsOfThisMachine
    /\ focus = "search" => Search!OnlyTheTermIsSought
    /\ focus = "line" => Line!TimelineIsOfItsRange
    /\ focus = "chatter" => Chatter!ListsKeepTheirKind
    /\ focus = "precinct" => Precinct!DiagramShowsTheGraph /\ Precinct!DrawingHangsTogether
    /\ focus = "card" => Card!WorstAreShown
    /\ focus = "kin" => Kin!DevicesAreOfTheLayer

\* The caret of the code's field stays behind what was typed last (dispatch.tsx).
CaretFollowsTheTyping == focus = "join" => Join!CaretFollowsTheTyping
=============================================================================
