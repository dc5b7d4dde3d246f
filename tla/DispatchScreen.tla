---------------------------- MODULE DispatchScreen ----------------------------
\* Settings, and pairing from it (web/src/settings.tsx, dispatch.tsx): the machine
\* that shows a code. The pairing is completed on the other machine, so this screen
\* finds out by asking how many peers there are.
\*
\* Requests overlap and land in any order; what the service answers to a poll is fixed
\* when it is made. Closing Settings takes the panel down; a handler that has begun
\* goes on without it.
EXTENDS Naturals, FiniteSets

CONSTANTS
    Peers,     \* machines that may pair with this one
    Codes,     \* pairing codes
    NoCode,
    MaxPolls,  \* polls in flight at once
    MaxCalls   \* other requests in flight at once

DispatchAssumption ==
    /\ IsFiniteSet(Peers) /\ MaxPolls \in Nat \ {0} /\ MaxCalls \in Nat \ {0}
    /\ NoCode \notin Codes /\ {"sent", "refused", "done"} \cap (Codes \cup {NoCode}) = {}

VARIABLES
    service,   \* enabled, whom it is paired with, and the code its window is open for
    panel,     \* what the page shows: see Panel
    calls      \* requests in flight that change something

screenVars == <<service, panel, calls>>

\* settings: whether it is shown, its form, and whether deleting everything is being
\* confirmed; known, on, peers: the last answer held;
\* code, live, confirm: the code on screen, whether it still counts down, whether its
\* closing is being confirmed; baseline: the peers
\* there were when the code was asked for; asked: polls in flight.
Panel(settings) ==
    [settings |-> settings, known |-> FALSE, on |-> FALSE, peers |-> {}, code |-> NoCode, live |-> FALSE,
     confirm |-> FALSE, baseline |-> 0, asked |-> {}, visible |-> TRUE]

Counts == 0..Cardinality(Peers)
Polls == [baseline : Counts, on : BOOLEAN, peers : SUBSET Peers]

\* A renewal is two calls, "close" and then "renew". base: the count, or the baseline, of
\* the render in which the button was pressed; mine: whether that panel is still there.
Kinds == {"start", "close", "renew", "cancel", "on", "off"}
Calls == [kind : Kinds, base : Counts, mine : BOOLEAN, answer : Codes \cup {"sent", "refused", "done"}]

TypeOK ==
    /\ service \in [enabled : BOOLEAN, paired : SUBSET Peers, window : Codes \cup {NoCode}]
    /\ panel \in [settings : {"closed", "loading", "failed", "form", "wiping"}, known : BOOLEAN, on : BOOLEAN,
                  peers : SUBSET Peers, code : Codes \cup {NoCode}, live : BOOLEAN, confirm : BOOLEAN,
                  baseline : Counts, asked : SUBSET Polls, visible : BOOLEAN]
    /\ calls \subseteq Calls

Init ==
    \E ps \in SUBSET Peers, on \in BOOLEAN :
        /\ service = [enabled |-> on, paired |-> ps, window |-> NoCode]
        /\ panel = Panel("closed") /\ calls = {}

-------------------------------------------------------------------------------
\* What is on screen.

FormShown == panel.settings \in {"form", "wiping"}
PanelShown == FormShown /\ panel.known /\ panel.on
OffShown == FormShown /\ panel.known /\ ~panel.on
CodeShown == PanelShown /\ panel.code # NoCode
PeerShown(p) == PanelShown /\ p \in panel.peers

\* Buttons that wait for what they have asked for.
Busy == \E c \in calls : c.mine /\ c.kind \in {"on", "off"}

-------------------------------------------------------------------------------
\* Polls.

Asked(b) == [baseline |-> b, on |-> service.enabled, peers |-> IF service.enabled THEN service.paired ELSE {}]
Room == Cardinality(panel.asked) < MaxPolls
RefreshedFor(pn, b) == [pn EXCEPT !.asked = @ \cup {Asked(b)}]
Refreshed(pn) == RefreshedFor(pn, pn.baseline)

Poll ==
    /\ FormShown /\ panel.visible /\ Room
    /\ panel' = Refreshed(panel)
    /\ UNCHANGED <<service, calls>>

\* More peers than there were: the pairing has worked, and the code goes.
\* Slip: it stays until somebody closes it.
IsPaired_Slip(poll) == FALSE
IsPaired(poll) == Cardinality(poll.peers) > poll.baseline

PollArrives(poll) ==
    /\ poll \in panel.asked
    /\ panel' = [panel EXCEPT !.asked = @ \ {poll}, !.known = TRUE, !.on = poll.on, !.peers = poll.peers,
                              !.code = IF IsPaired(poll) THEN NoCode ELSE @,
                              !.confirm = @ /\ poll.on /\ ~IsPaired(poll)]
    /\ UNCHANGED <<service, calls>>

PollFails(poll) ==
    /\ poll \in panel.asked
    /\ panel' = [panel EXCEPT !.asked = @ \ {poll}]
    /\ UNCHANGED <<service, calls>>

-------------------------------------------------------------------------------
\* Settings: opened, loaded, closed by its cross, a click beside it,
\* or Escape, whatever is shown over it.

OpenSettings ==
    /\ panel.settings = "closed"
    /\ panel' = [Panel("loading") EXCEPT !.visible = panel.visible]
    /\ UNCHANGED <<service, calls>>

\* With the form the panel appears, and asks.
SettingsArrive ==
    /\ panel.settings = "loading"
    /\ \/ panel' = Refreshed([panel EXCEPT !.settings = "form"])
       \/ panel' = [panel EXCEPT !.settings = "failed"]
    /\ UNCHANGED <<service, calls>>

Orphaned == {[c EXCEPT !.mine = FALSE] : c \in calls}

CloseSettings ==
    /\ panel.settings # "closed"
    /\ panel' = [Panel("closed") EXCEPT !.visible = panel.visible]
    /\ calls' = Orphaned
    /\ UNCHANGED service

AsksToWipe ==
    /\ FormShown
    /\ \E s \in {"form", "wiping"} \ {panel.settings} : panel' = [panel EXCEPT !.settings = s]
    /\ UNCHANGED <<service, calls>>

\* Everything deleted, Settings closes.
Wipe == panel.settings = "wiping" /\ CloseSettings

VisibilityChanges ==
    /\ Room
    /\ LET pn == [panel EXCEPT !.visible = ~@]
       IN  panel' = IF pn.visible /\ FormShown THEN Refreshed(pn) ELSE pn
    /\ UNCHANGED <<service, calls>>

-------------------------------------------------------------------------------
\* The buttons.

Sent(kind, base) == [kind |-> kind, base |-> base, mine |-> TRUE, answer |-> "sent"]
Free == Cardinality(calls) < MaxCalls
Counted == Cardinality(panel.peers)

\* A new baseline has the effect ask anew; the same one has not.
Rebased(b) == IF panel.baseline = b THEN panel ELSE Refreshed([panel EXCEPT !.baseline = b])

PairPressed ==
    /\ PanelShown /\ ~CodeShown /\ Room /\ Free
    /\ calls' = calls \cup {Sent("start", Counted)}
    /\ panel' = Rebased(Counted)
    /\ UNCHANGED service

\* An expired code is replaced: its window is closed first.
RenewPressed ==
    /\ CodeShown /\ ~panel.live /\ Free
    /\ calls' = calls \cup {Sent("close", Counted)}
    /\ UNCHANGED <<service, panel>>

\* Closing the screen closes the window; a live code asks first.
CloseCode ==
    /\ CodeShown /\ Room /\ Free
    /\ IF panel.live /\ ~panel.confirm
       THEN panel' = [panel EXCEPT !.confirm = TRUE] /\ UNCHANGED calls
       ELSE /\ panel' = Refreshed([panel EXCEPT !.code = NoCode, !.confirm = FALSE])
            /\ calls' = calls \cup {Sent("cancel", panel.baseline)}
    /\ UNCHANGED service

KeepCode == CodeShown /\ panel.confirm /\ panel' = [panel EXCEPT !.confirm = FALSE] /\ UNCHANGED <<service, calls>>

TogglePressed ==
    /\ OffShown \/ PanelShown
    /\ ~Busy /\ Free
    /\ calls' = calls \cup {Sent(IF panel.on THEN "off" ELSE "on", panel.baseline)}
    /\ UNCHANGED <<service, panel>>

\* A peer is unpaired, renamed, suspended or resumed, and the panel asks again.
Unpair(p) ==
    /\ PeerShown(p) /\ service.enabled /\ Room
    /\ service' = [service EXCEPT !.paired = @ \ {p}]
    /\ panel' = [panel EXCEPT !.asked = @ \cup {[Asked(panel.baseline) EXCEPT !.peers = service.paired \ {p}]}]
    /\ UNCHANGED calls
ActsOnPeer(p) == PeerShown(p) /\ Room /\ panel' = Refreshed(panel) /\ UNCHANGED <<service, calls>>

\* The countdown, by this machine's clock.
CodeRunsOut == CodeShown /\ panel.live /\ panel' = [panel EXCEPT !.live = FALSE] /\ UNCHANGED <<service, calls>>

-------------------------------------------------------------------------------
\* The service.

ServiceAnswers(c, answer, svc) ==
    /\ service' = svc
    /\ calls' = (calls \ {c}) \cup {[c EXCEPT !.answer = answer]}
    /\ UNCHANGED panel

\* A window is opened unless one is open.
ServeStart(c) ==
    /\ c \in calls /\ c.kind \in {"start", "renew"} /\ c.answer = "sent"
    /\ IF service.enabled /\ service.window = NoCode
       THEN \E code \in Codes \ {panel.code} : ServiceAnswers(c, code, [service EXCEPT !.window = code])
       ELSE ServiceAnswers(c, "refused", service)

\* Nobody waits for the answer to a cancel.
ServeCancel(c) ==
    /\ c \in calls /\ c.kind \in {"close", "cancel"} /\ c.answer = "sent"
    /\ service' = [service EXCEPT !.window = NoCode]
    /\ calls' = (calls \ {c}) \cup (IF c.kind = "close" THEN {[c EXCEPT !.answer = "done"]} ELSE {})
    /\ UNCHANGED panel

ServeToggle(c) ==
    /\ c \in calls /\ c.kind \in {"on", "off"} /\ c.answer = "sent"
    /\ ServiceAnswers(c, "done", [service EXCEPT !.enabled = c.kind = "on",
                                                 !.window = IF c.kind = "on" THEN @ ELSE NoCode])

\* A request or its answer is lost, or sharing does not start.
CallFails(c) ==
    /\ c \in calls /\ c.answer # "refused"
    /\ ServiceAnswers(c, "refused", service)

\* The other machine completes the pairing, again perhaps with a machine that is paired.
PairingCompletes(p) ==
    /\ service.window # NoCode
    /\ service' = [service EXCEPT !.paired = @ \cup {p}, !.window = NoCode]
    /\ UNCHANGED <<panel, calls>>

WindowExpires ==
    /\ service.window # NoCode
    /\ service' = [service EXCEPT !.window = NoCode]
    /\ UNCHANGED <<panel, calls>>

\* The answer reaches the handler; the panel may be gone. A renewal goes on to its second
\* request whatever the first came to, and with the count of the render it began in. A
\* refused renewal takes the code off; a refused start leaves what is there.
CallArrives(c) ==
    /\ c \in calls /\ c.answer # "sent" /\ Room
    /\ calls' = (calls \ {c}) \cup
                (IF c.kind = "close" THEN {[c EXCEPT !.kind = "renew", !.answer = "sent"]} ELSE {})
    /\ panel' = IF ~c.mine THEN panel
                ELSE CASE c.kind = "close" -> Rebased(c.base)
                       [] c.answer \in Codes -> [panel EXCEPT !.code = c.answer, !.live = TRUE]
                       [] c.kind = "renew" /\ c.answer = "refused" ->
                            [panel EXCEPT !.code = NoCode, !.confirm = FALSE]
                       [] c.kind # "close" /\ c.answer = "done" -> RefreshedFor(panel, c.base)
                       [] OTHER -> panel
    /\ UNCHANGED service

-------------------------------------------------------------------------------
ServiceNext ==
    \E c \in calls : ServeStart(c) \/ ServeCancel(c) \/ ServeToggle(c) \/ CallFails(c) \/ CallArrives(c)

Next ==
    \/ Poll \/ OpenSettings \/ SettingsArrive \/ CloseSettings \/ AsksToWipe \/ Wipe
    \/ VisibilityChanges \/ PairPressed \/ RenewPressed \/ CloseCode \/ KeepCode \/ TogglePressed \/ CodeRunsOut
    \/ WindowExpires \/ ServiceNext
    \/ \E p \in Peers : Unpair(p) \/ ActsOnPeer(p) \/ PairingCompletes(p)
    \/ \E poll \in panel.asked : PollArrives(poll) \/ PollFails(poll)

Spec == Init /\ [][Next]_screenVars

\* A poll made for the baseline and the peers as they are.
CurrentPollArrives == \E poll \in {Asked(panel.baseline)} : PollArrives(poll)

-------------------------------------------------------------------------------
\* The screen does not sit on "waiting" after the pairing has worked: a code goes once
\* there are more peers than there were, if polls are answered now and then
\* (dispatch.tsx:126-130). Pairing again with a machine that is paired already makes no
\* more peers, and that code stays.
PairedIsNoticed ==
    ~<>[](CodeShown /\ panel.visible /\ service.enabled /\ Cardinality(service.paired) > panel.baseline)

\* dispatch.tsx:262 "A code that outlives the screen showing it is a credential nobody
\* is watching". Escape takes Settings away, and the code on it, and leaves the window
\* open.
CodeIsWatched ==
    service.window # NoCode /\ calls = {} => CodeShown
=============================================================================
