------------------------------- MODULE RosterView -------------------------------
\* The Roster (web/src/roster.tsx), and how a reader comes to one of its devices
\* (app.tsx): a list that is fetched again every ten seconds, and a detail pane with a
\* label that is typed into meanwhile.
\*
\* A request is served in one step and its answer applied in another. An effect of the
\* framework runs with the change that calls for it.
EXTENDS Naturals, FiniteSets

CONSTANTS
    Devices,
    Labels,     \* what a device may be called
    MaxEdits,   \* edits in flight at once
    Nobody

ASSUME RosterAssumption ==
    /\ IsFiniteSet(Devices) /\ Labels # {} /\ MaxEdits \in Nat \ {0}
    /\ Nobody \notin Devices \cup Labels

\* A list: the devices there are, and what they are called.
Lists == [Devices -> Labels \cup {Nobody}]
Listed(l) == {d \in Devices : l[d] # Nobody}
NoList == [d \in Devices |-> Nobody]

NoPoll == [stage |-> "idle", list |-> NoList]

\* An edit: of which device, to what, and of which device the reader had typed it.
Edits == [device : Devices, label : Labels, typed : Devices, saved : BOOLEAN]

VARIABLES
    net,     \* the service's devices
    roster   \* see RosterTypeOK

rosterVars == <<net, roster>>

\* shown: the Roster is the view; offered: openDevice of the page; list: what is held;
\* poll: the request, and its answer; matches: the devices that search and the
\* checkbox leave; selected; draft: the label's text; of: the device the reader typed
\* it for; typed: what the reader typed last; focused: the cursor is in it; edits: in flight.
RosterTypeOK ==
    /\ net \in Lists
    /\ roster \in [shown : BOOLEAN, offered : Devices \cup {Nobody}, list : Lists, poll : [stage : {"idle", "sent", "served"}, list : Lists],
                   matches : SUBSET Devices, selected : Devices \cup {Nobody}, draft : Labels \cup {Nobody},
                   of : Devices \cup {Nobody}, typed : Labels \cup {Nobody}, focused : BOOLEAN, edits : SUBSET Edits]

Chosen(r) == IF r.selected \in Listed(r.list) \cap r.matches THEN r.selected ELSE Nobody

\* The detail pane comes, goes, or turns to another device: its copies are that
\* device's. For the same device they are left alone.
\* Slip: the copies are left alone as long as the pane is there.
IsKept_Slip(old, new) == old # Nobody /\ new # Nobody
IsKept(old, new) == old = new

Rendered(r) ==
    LET old == Chosen(roster)
        new == Chosen(r)
    IN  IF IsKept(old, new) THEN r
        ELSE [r EXCEPT !.draft = IF new = Nobody THEN Nobody ELSE r.list[new], !.of = new, !.typed = Nobody, !.focused = FALSE]

Blank == [shown |-> FALSE, offered |-> Nobody, list |-> NoList, poll |-> NoPoll, matches |-> Devices,
          selected |-> Nobody, draft |-> Nobody, of |-> Nobody, typed |-> Nobody, focused |-> FALSE, edits |-> {}]

RosterInit ==
    /\ net \in Lists
    /\ roster = Blank

-------------------------------------------------------------------------------
\* Polling, as usePolling has it.

Run(r) == IF r.shown /\ r.poll.stage = "idle" THEN [r EXCEPT !.poll.stage = "sent"] ELSE r

\* On the interval, on coming back to the tab, or by the button.
Poll == roster.shown /\ roster.poll.stage = "idle" /\ roster' = Run(roster) /\ UNCHANGED net

ServePoll ==
    /\ roster.poll.stage = "sent"
    /\ roster' = [roster EXCEPT !.poll = [stage |-> "served", list |-> net]]
    /\ UNCHANGED net

PollArrives ==
    /\ roster.poll.stage = "served"
    /\ roster' = Rendered([roster EXCEPT !.list = roster.poll.list, !.poll = NoPoll])
    /\ UNCHANGED net

PollFails ==
    /\ roster.poll.stage # "idle"
    /\ roster' = [roster EXCEPT !.poll = NoPoll]
    /\ UNCHANGED net

-------------------------------------------------------------------------------
\* Coming and going.

\* The Roster takes its place, with what was offered on the way.
Mounted(offered) ==
    Run([Blank EXCEPT !.shown = TRUE, !.offered = offered, !.selected = offered, !.edits = roster.edits])

NavigatesHere == ~roster.shown /\ roster' = Mounted(roster.offered) /\ UNCHANGED net

\* Under their own steam: the offer is forgotten.
NavigatesAway ==
    /\ roster.shown
    /\ roster' = [Blank EXCEPT !.edits = roster.edits]
    /\ UNCHANGED net

\* An edit on leaving the field, when it differs from what the list has.
Blurred(r) ==
    LET d == Chosen(r)
        left == [r EXCEPT !.focused = FALSE, !.typed = Nobody]
    IN  IF r.focused /\ r.draft # r.list[d] /\ Cardinality(r.edits) < MaxEdits
        THEN [left EXCEPT !.edits = @ \cup {[device |-> d, label |-> r.draft, typed |-> r.of, saved |-> FALSE]}]
        ELSE left

\* The Wanted List or Right Now offers a device. Offering it again changes nothing.
OfferDevice(d) ==
    /\ LET b == Blurred(roster)
       IN  roster' = IF ~roster.shown THEN Mounted(d)
                     ELSE IF roster.offered = d THEN b
                     ELSE Rendered([b EXCEPT !.offered = d, !.selected = d])
    /\ UNCHANGED net

\* A click on a row, of the same device to close it; the cross does so, too.
SelectRow(d) ==
    /\ roster.shown /\ d \in Listed(roster.list) \cap roster.matches
    /\ LET b == Blurred(roster)
       IN  roster' = Rendered([b EXCEPT !.selected = IF @ = d THEN Nobody ELSE d])
    /\ UNCHANGED net

CloseDetail ==
    /\ Chosen(roster) # Nobody
    /\ roster' = Rendered([Blurred(roster) EXCEPT !.selected = Nobody])
    /\ UNCHANGED net

\* Typing in the search field, or the checkbox.
Narrows ==
    /\ roster.shown
    /\ \E ds \in SUBSET Devices : roster' = Rendered([Blurred(roster) EXCEPT !.matches = ds])
    /\ UNCHANGED net

-------------------------------------------------------------------------------
\* The detail pane.

Types ==
    /\ Chosen(roster) # Nobody
    /\ \E x \in Labels : roster' = [roster EXCEPT !.draft = x, !.of = Chosen(roster), !.typed = x, !.focused = TRUE]
    /\ UNCHANGED net

Leaves == roster.focused /\ roster' = Blurred(roster) /\ UNCHANGED net

\* Trust, type, and checking ports: what the label is has no part in it.
ActsOnDevice == Chosen(roster) # Nobody /\ roster' = Run(Blurred(roster)) /\ UNCHANGED net

ServeEdit(e) ==
    /\ e \in roster.edits /\ ~e.saved
    /\ net' = [net EXCEPT ![e.device] = IF @ = Nobody THEN Nobody ELSE e.label]
    /\ roster' = [roster EXCEPT !.edits = (@ \ {e}) \cup {[e EXCEPT !.saved = TRUE]}]

\* Saved, the list is asked for, unless it is being asked for.
EditArrives(e) ==
    /\ e \in roster.edits /\ e.saved
    /\ roster' = Run([roster EXCEPT !.edits = @ \ {e}])
    /\ UNCHANGED net

EditFails(e) ==
    /\ e \in roster.edits
    /\ roster' = [roster EXCEPT !.edits = @ \ {e}]
    /\ UNCHANGED net

\* Devices come and go, and are called otherwise from elsewhere.
NetChanges ==
    /\ \E l \in Lists : net' = l /\ \E d \in Devices : \A x \in Devices \ {d} : l[x] = net[x]
    /\ UNCHANGED roster

RosterNext ==
    \/ Poll \/ ServePoll \/ PollArrives \/ PollFails
    \/ NavigatesHere \/ NavigatesAway \/ CloseDetail \/ Narrows \/ Types \/ Leaves \/ ActsOnDevice \/ NetChanges
    \/ \E d \in Devices : OfferDevice(d) \/ SelectRow(d)
    \/ \E e \in roster.edits : ServeEdit(e) \/ EditArrives(e) \/ EditFails(e)

RosterSpec == RosterInit /\ [][RosterNext]_rosterVars

-------------------------------------------------------------------------------
\* A label is saved for the device it was typed for; what stands in the field was typed
\* for, or fetched with, the device the pane shows; and while the reader types no poll
\* puts anything else there (roster.tsx:300-302), however devices leave the list, come
\* back, and are offered or renamed from elsewhere in between.
TypingIsNotFought ==
    /\ roster.of = Chosen(roster)
    /\ roster.focused => roster.draft = roster.typed
    /\ \A e \in roster.edits : e.typed = e.device
=============================================================================
