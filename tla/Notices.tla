-------------------------------- MODULE Notices --------------------------------
\* The alert for a new finding (web/src/bolo.tsx), and the findings of the service as
\* far as it asks for them (internal/store/findings.go, store.go).
\*
\* A finding is a row. Rows are numbered from the greatest there is, so a wipe makes
\* the numbers begin again; life tells the findings of one number apart and is not part
\* of the program.
EXTENDS Naturals, FiniteSets, FiniteSetsExt

CONSTANTS
    MaxId,       \* rows are numbered up to here
    MaxWipes,    \* wipes are counted up to here
    MaxRows,     \* findings in an answer
    MaxSeen,     \* ids remembered across reloads
    MaxQueue,    \* findings an alert stands for
    MaxFlights   \* checks in flight

ASSUME NoticesAssumption ==
    /\ {MaxId, MaxRows, MaxSeen, MaxQueue, MaxFlights} \subseteq Nat \ {0} /\ MaxWipes \in Nat

Ids == 1..MaxId
FindingRows == [id : Ids, life : 0..MaxWipes]
IdsOf(fs) == {f.id : f \in fs}

\* rows, and which of them are open; the tab, and whether its view is the Wanted List;
\* seen and primed, of the component; stored, in the browser; answers on their way;
\* what the alert stands for. Ghosts: how often a finding was announced, those
\* standing at a first look, those any later answer brought.
VARIABLE notices

NoticesTypeOK ==
    notices \in [life : 0..MaxWipes, rows : SUBSET FindingRows, open : SUBSET FindingRows,
                 visible : BOOLEAN, suppressed : BOOLEAN,
                 seen : SUBSET Ids, primed : BOOLEAN, stored : SUBSET Ids,
                 flights : SUBSET SUBSET FindingRows, queue : SUBSET FindingRows,
                 told : [FindingRows -> 0..2], stood : SUBSET FindingRows, met : SUBSET FindingRows]

-------------------------------------------------------------------------------
\* The service.

Newest(s, n) == {f \in s : Cardinality({g \in s : g.id > f.id}) < n}
Answer(n) == Newest(n.open, MaxRows)

NextId(rows) == 1 + Max({0} \cup IdsOf(rows))

FindingRaised ==
    LET id == NextId(notices.rows)
        f == [id |-> id, life |-> notices.life]
    IN  /\ id <= MaxId
        /\ notices' = [notices EXCEPT !.rows = @ \cup {f}, !.open = @ \cup {f}]

FindingClosed == \E f \in notices.open : notices' = [notices EXCEPT !.open = @ \ {f}]

Wipe ==
    /\ notices.life < MaxWipes
    /\ notices' = [notices EXCEPT !.life = @ + 1, !.rows = {}, !.open = {}]

-------------------------------------------------------------------------------
\* The page.

\* Answered when it is asked, and delivered later.
Check(n) == [n EXCEPT !.flights = @ \cup {Answer(n)}]

NoticesInit ==
    notices = Check([life |-> 0, rows |-> {}, open |-> {}, visible |-> TRUE, suppressed |-> FALSE,
                     seen |-> {}, primed |-> FALSE, stored |-> {}, flights |-> {}, queue |-> {},
                     told |-> [f \in FindingRows |-> 0], stood |-> {}, met |-> {}])

\* What is seen is remembered for this page and, the greatest ids only, for the next.
\* Slip: only what the first look finds is.
MarkSeen_Slip(n, ids) ==
    IF n.primed THEN n ELSE [n EXCEPT !.seen = @ \cup ids, !.stored = n.seen \cup ids]
MarkSeen(n, ids) ==
    LET seen == n.seen \cup ids
    IN  [n EXCEPT !.seen = seen, !.stored = {i \in seen : Cardinality({j \in seen : j > i}) < MaxSeen}]

NoticesPoll ==
    /\ notices.visible /\ Cardinality(notices.flights) < MaxFlights
    /\ notices' = Check(notices)

NoticesVisibilityChanges ==
    notices' = (LET n == [notices EXCEPT !.visible = ~@]
                IN  IF n.visible /\ Cardinality(n.flights) < MaxFlights THEN Check(n) ELSE n)

\* The first pass marks what existed, and announces nothing.
FirstAnswer(answer) ==
    /\ ~notices.primed
    /\ notices' = [MarkSeen(notices, IdsOf(answer))
                     EXCEPT !.primed = TRUE, !.flights = @ \ {answer}, !.stood = @ \cup answer]

\* The alert stands for the fresh ones, then for those it stood for already.
LaterAnswer(answer) ==
    /\ notices.primed
    /\ LET fresh == {f \in answer : f.id \notin notices.seen}
           n == [notices EXCEPT !.flights = @ \ {answer}, !.met = @ \cup answer]
           all == fresh \cup n.queue
       IN  IF fresh = {} THEN notices' = n
           ELSE \E q \in SUBSET all :
                  /\ Cardinality(q) = Min({MaxQueue, Cardinality(all)})
                  /\ fresh \subseteq q \/ q \subseteq fresh
                  /\ notices' = [MarkSeen(n, IdsOf(fresh)) EXCEPT
                                   !.queue = q,
                                   !.told = [f \in FindingRows |-> IF f \in fresh THEN Min({2, @[f] + 1}) ELSE @[f]]]

CheckFails(answer) == notices' = [notices EXCEPT !.flights = @ \ {answer}]

AlertShown == ~notices.suppressed /\ notices.queue # {}

\* Opened, it leads to the Wanted List, where there is no alert.
Viewed == AlertShown /\ notices' = [notices EXCEPT !.queue = {}, !.suppressed = TRUE]
Dismissed == AlertShown /\ notices' = [notices EXCEPT !.queue = {}]
Navigates == notices' = [notices EXCEPT !.suppressed = ~@]

Reloads ==
    notices' = Check([notices EXCEPT !.seen = notices.stored, !.primed = FALSE, !.queue = {},
                                     !.flights = {}, !.visible = TRUE, !.suppressed = FALSE])

NoticesNext ==
    \/ FindingRaised \/ FindingClosed \/ Wipe
    \/ NoticesPoll \/ NoticesVisibilityChanges \/ Viewed \/ Dismissed \/ Navigates \/ Reloads
    \/ \E answer \in notices.flights : FirstAnswer(answer) \/ LaterAnswer(answer) \/ CheckFails(answer)

NoticesSpec == NoticesInit /\ [][NoticesNext]_notices

-------------------------------------------------------------------------------
\* The ids any answer brought.
HeardOf(n) == IdsOf(n.met \cup n.stood)

\* So many greater ids were heard of that the browser keeps this one no longer.
IsForgotten(n, f) == Cardinality({i \in HeardOf(n) : i > f.id}) >= MaxSeen

\* bolo.tsx:16 "Nothing is announced twice": although checks overlap and their answers
\* land in any order, findings are closed in between and the page is reloaded; but for
\* what is forgotten (bolo.tsx:96-103, "The newest few hundred is more than enough").
NothingAnnouncedTwice ==
    \A f \in FindingRows : notices.told[f] <= 1 \/ IsForgotten(notices, f)

\* bolo.tsx:99 "The set of findings already announced": what an open page comes to hear
\* of was announced, or stood when it first looked. After a wipe the numbers begin
\* again, and the ids still remembered silence new findings.
NewFindingsAreAnnounced ==
    \A f \in notices.met \ notices.stood : notices.told[f] > 0
=============================================================================
