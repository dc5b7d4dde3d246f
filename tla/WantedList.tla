------------------------------- MODULE WantedList -------------------------------
\* The Wanted List and the polling it shares with other views (web/src/wanted.tsx,
\* freshness.tsx, visibility.ts): a loader that is never run twice at once, on an
\* interval that stops while the page is off screen.
\*
\* A load is two requests answered at two times. The service's changes are counted, so
\* that a later answer can be told from an earlier one.
EXTENDS Naturals, FiniteSets

CONSTANTS
    Findings,       \* what the rules may raise
    SubjectOf(_),   \* the device or destination it is about
    MaxChanges,     \* changes of the findings are counted up to here
    MaxLoads,       \* loads in flight at once
    Nothing

ASSUME WantedAssumption ==
    /\ IsFiniteSet(Findings) /\ MaxChanges \in Nat /\ MaxLoads \in Nat \ {0}
    /\ Nothing \notin Findings \cup {SubjectOf(f) : f \in Findings}

Subjects == {SubjectOf(f) : f \in Findings}
SubjectsOf(fs) == {SubjectOf(f) : f \in fs}

\* An answer: how many changes it knows of, and the findings there were.
Answers == [at : 0..MaxChanges, found : SUBSET Findings]
NoAnswer == [at |-> 0, found |-> {Nothing}]
Loads == [wanted : Answers \cup {NoAnswer}, findings : Answers \cup {NoAnswer}]

VARIABLES
    record,   \* the service: open findings, changes so far, devices deputized
    board     \* the page: visible, running, loads, what is held, what is expanded, an act

boardVars == <<record, board>>

BoardTypeOK ==
    /\ record \in [changes : 0..MaxChanges, found : SUBSET Findings, trusted : SUBSET Subjects]
    /\ board \in [visible : BOOLEAN, running : BOOLEAN, loads : SUBSET Loads, updated : BOOLEAN,
                  wanted : Answers \cup {NoAnswer}, findings : Answers \cup {NoAnswer},
                  open : Subjects \cup {Nothing},
                  act : [finding : Findings \cup {Nothing}, step : {"none", "deputize", "status", "done"}]]

Asking == [wanted |-> NoAnswer, findings |-> NoAnswer]
Idle == [finding |-> Nothing, step |-> "none"]

BoardInit ==
    /\ \E fs \in SUBSET Findings : record = [changes |-> 0, found |-> fs, trusted |-> {}]
    /\ board = [visible |-> TRUE, running |-> TRUE, loads |-> {Asking}, updated |-> FALSE,
                wanted |-> NoAnswer, findings |-> NoAnswer, open |-> Nothing, act |-> Idle]

-------------------------------------------------------------------------------
\* usePolling.

\* A slow request must not stack up behind itself.
\* Slip: it does.
IsHeldBack_Slip(b) == FALSE
IsHeldBack(b) == b.running

BoardRun(b) ==
    IF IsHeldBack(b) \/ Cardinality(b.loads) >= MaxLoads THEN b
    ELSE [b EXCEPT !.running = TRUE, !.loads = @ \cup {Asking}]

\* The interval.
BoardPoll ==
    /\ board.visible
    /\ board' = BoardRun(board) /\ board' # board
    /\ UNCHANGED record

\* The button says how old the list is, and waits while it is being replaced.
RefreshPressed ==
    /\ board.updated /\ ~board.running
    /\ board' = BoardRun(board)
    /\ UNCHANGED record

\* Back on screen it catches up at once.
BoardVisibilityChanges ==
    /\ board' = (LET b == [board EXCEPT !.visible = ~@] IN IF b.visible THEN BoardRun(b) ELSE b)
    /\ UNCHANGED record

Now == [at |-> record.changes, found |-> record.found]

ServeWanted(l) ==
    /\ l \in board.loads /\ l.wanted = NoAnswer
    /\ board' = [board EXCEPT !.loads = (@ \ {l}) \cup {[l EXCEPT !.wanted = Now]}]
    /\ UNCHANGED record

ServeFindings(l) ==
    /\ l \in board.loads /\ l.findings = NoAnswer
    /\ board' = [board EXCEPT !.loads = (@ \ {l}) \cup {[l EXCEPT !.findings = Now]}]
    /\ UNCHANGED record

\* Both are there. The worst subject opens itself when nothing is open.
Loaded(l) ==
    /\ l \in board.loads /\ NoAnswer \notin {l.wanted, l.findings}
    /\ \E worst \in IF l.wanted.found = {} THEN {Nothing} ELSE SubjectsOf(l.wanted.found) :
         board' = [board EXCEPT !.loads = @ \ {l}, !.running = FALSE, !.updated = TRUE,
                                !.wanted = l.wanted, !.findings = l.findings,
                                !.open = IF @ = Nothing THEN worst ELSE @]
    /\ UNCHANGED record

\* What is on screen is left as old as it was.
LoadFails(l) ==
    /\ l \in board.loads
    /\ board' = [board EXCEPT !.loads = @ \ {l}, !.running = FALSE]
    /\ UNCHANGED record

-------------------------------------------------------------------------------
\* The list.

ListShown == board.wanted # NoAnswer
RowShown(s) == ListShown /\ s \in SubjectsOf(board.wanted.found)
FindingShown(f) == RowShown(SubjectOf(f)) /\ board.open = SubjectOf(f) /\ f \in board.findings.found

ToggleRow(s) ==
    /\ RowShown(s)
    /\ board' = [board EXCEPT !.open = IF @ = s THEN Nothing ELSE s]
    /\ UNCHANGED record

\* Clearing is one request; trusting the device is two.
Clear(f) ==
    /\ FindingShown(f) /\ board.act = Idle
    /\ board' = [board EXCEPT !.act = [finding |-> f, step |-> "status"]]
    /\ UNCHANGED record

Trust(f) ==
    /\ FindingShown(f) /\ board.act = Idle
    /\ board' = [board EXCEPT !.act = [finding |-> f, step |-> "deputize"]]
    /\ UNCHANGED record

ActServed ==
    /\ \/ /\ board.act.step = "deputize"
          /\ record' = [record EXCEPT !.trusted = @ \cup {SubjectOf(board.act.finding)}]
          /\ board' = [board EXCEPT !.act.step = "status"]
       \/ /\ board.act.step = "status" /\ record.changes < MaxChanges
          /\ record' = [record EXCEPT !.found = @ \ {board.act.finding}, !.changes = @ + 1]
          /\ board' = [board EXCEPT !.act.step = "done"]

\* A step that fails ends the act, quietly, after what was done.
ActFails ==
    /\ board.act.step \in {"deputize", "status"}
    /\ board' = [board EXCEPT !.act = Idle]
    /\ UNCHANGED record

\* The act has gone through, and the list is asked for again.
ActRefreshes ==
    /\ board.act.step = "done"
    /\ board' = BoardRun([board EXCEPT !.act = Idle])
    /\ UNCHANGED record

\* The rules find something.
Raised(f) ==
    /\ f \notin record.found /\ record.changes < MaxChanges
    /\ record' = [record EXCEPT !.found = @ \cup {f}, !.changes = @ + 1]
    /\ UNCHANGED board

BoardNext ==
    \/ BoardPoll \/ RefreshPressed \/ BoardVisibilityChanges \/ ActServed \/ ActFails \/ ActRefreshes
    \/ \E l \in board.loads : ServeWanted(l) \/ ServeFindings(l) \/ Loaded(l) \/ LoadFails(l)
    \/ \E f \in Findings : Clear(f) \/ Trust(f) \/ Raised(f)
    \/ \E s \in Subjects : ToggleRow(s)

BoardSpec == BoardInit /\ [][BoardNext]_boardVars

-------------------------------------------------------------------------------
\* What a poll brings is never older than what it replaces: a finding that was cleared
\* and has gone does not come back with an answer from before
\* (freshness.tsx:162; Loaded replaces both lists).
PollsNeverGoBack ==
    [][board'.wanted.at >= board.wanted.at /\ board'.findings.at >= board.findings.at]_boardVars
=============================================================================
