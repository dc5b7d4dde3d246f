--------------------------------- MODULE Shell ---------------------------------
\* The frame of the dashboard (web/src/app.tsx, help.tsx): the view and its place in the
\* URL, the theme, the status bar and the banner, and what is shown around each view.
\*
\* Setting the hash is one step, and the event that tells the page of it another. The
\* browser may take a click before it delivers the event.
EXTENDS Naturals, Sequences

CONSTANTS
    Machines,    \* what the service may run on: its system, its build, what is published
    Devices,     \* what the Wanted List and Right Now offer
    MaxHistory,  \* entries of the browser's history that one can go back to
    MaxEvents,   \* hashchange events on their way at once
    None

ShellAssumption ==
    /\ Machines # {} /\ \A m \in Machines : m.built \in BOOLEAN /\ m.published \in BOOLEAN
    /\ None \notin Devices /\ MaxHistory \in Nat \ {0} /\ MaxEvents \in Nat \ {0}

NAV == {"watchtower", "chatter", "precinct", "roster", "wanted", "help"}
Themes == {"light", "dark"}

\* A hash edited by hand may name no view.
Hashes == NAV \cup {"other"}
Read(hash) == IF hash \in NAV THEN hash ELSE "watchtower"

\* hash, and those one can go back to; events on their way; the view; the device
\* offered to the Roster; the theme, and the one remembered; the summary, and whether
\* the feed is live; the banner; the machine, and what Help knows of it.
VARIABLE shell

TypeOK ==
    shell \in [hash : Hashes, back : {s \in Seq(Hashes) : Len(s) <= MaxHistory}, events : 0..MaxEvents, view : NAV,
               offered : Devices \cup {None}, theme : Themes, stored : Themes \cup {None},
               summary : {"none", "plain", "hint"}, live : BOOLEAN, dismissed : BOOLEAN,
               machine : Machines, platform : {"none", "asked", "known"}]

InitialTheme(stored) == IF stored \in Themes THEN stored ELSE "light"

\* Help reads the platform once, each time it is opened.
Opened(view) == IF view = "help" THEN "asked" ELSE "none"

Loaded(hash, back, stored, machine) ==
    [hash |-> hash, back |-> back, events |-> 0, view |-> Read(hash), offered |-> None,
     theme |-> InitialTheme(stored), stored |-> stored, summary |-> "none", live |-> FALSE,
     dismissed |-> FALSE, machine |-> machine, platform |-> Opened(Read(hash))]

Init == \E h \in Hashes, t \in Themes \cup {None}, m \in Machines : shell = Loaded(h, <<>>, t, m)

-------------------------------------------------------------------------------
\* The view.

\* A device that was offered is forgotten with the view it was offered to.
Rendered(s, view) ==
    IF view = s.view THEN s
    ELSE [s EXCEPT !.view = view, !.offered = IF view = "roster" THEN @ ELSE None, !.platform = Opened(view)]

Remembered(s) == IF Len(s.back) < MaxHistory THEN Append(s.back, s.hash) ELSE Append(Tail(s.back), s.hash)

\* The default view carries no hash and is pushed, which fires no event.
SetView(s, v) ==
    IF v = "watchtower" THEN Rendered([s EXCEPT !.back = Remembered(s), !.hash = v], v)
    ELSE IF v = s.hash THEN s
    ELSE [s EXCEPT !.back = Remembered(s), !.hash = v, !.events = @ + 1]

Room == shell.events < MaxEvents

Navigates == Room /\ \E v \in NAV : shell' = SetView(shell, v)

HashChanges ==
    /\ shell.events > 0
    /\ shell' = Rendered([shell EXCEPT !.events = @ - 1], Read(shell.hash))

\* Back through the history, or a hash edited by hand.
GoesBack ==
    /\ Room /\ shell.back # <<>>
    /\ LET last == shell.back[Len(shell.back)]
           front == SubSeq(shell.back, 1, Len(shell.back) - 1)
       IN  shell' = [shell EXCEPT !.hash = last, !.back = front,
                                  !.events = IF last = shell.hash THEN @ ELSE @ + 1]

EditsHash ==
    /\ Room
    /\ \E h \in Hashes \ {shell.hash} :
         shell' = [shell EXCEPT !.hash = h, !.back = Remembered(shell), !.events = @ + 1]

\* The logo is a link to the root; a reload stays where it is.
Reloads == \E h \in {shell.hash, "watchtower"} : shell' = Loaded(h, shell.back, shell.stored, shell.machine)

\* From the Wanted List or Right Now.
OfferDevice ==
    /\ Room
    /\ \E d \in Devices : shell' = SetView([shell EXCEPT !.offered = d], "roster")

-------------------------------------------------------------------------------
\* What is shown.

\* Saying nothing yet is the honest state before the first summary.
ModeShown ==
    IF ~shell.live THEN "reconnecting" ELSE IF shell.summary = "none" THEN "starting" ELSE "mode"

BannerShown == ~shell.dismissed /\ shell.summary = "hint"

\* Help: what this machine sees is known with the summary, the rest with the platform.
FactsShown == shell.summary # "none" /\ shell.platform = "known"

BuildLine ==
    IF shell.platform # "known" THEN "unknown"
    ELSE IF shell.machine.built THEN "standard"
    ELSE IF shell.machine.published THEN "portable" ELSE "portable only"

\* The ways to install, the reader's own first: ordered rather than filtered.
Installs == <<"darwin", "windows", "linux", "any", "docker">>
OrderedInstalls(os) ==
    LET mine == {n \in DOMAIN Installs : Installs[n] = os}
        own == CHOOSE n \in mine : TRUE
    IN  IF mine = {} THEN Installs
        ELSE [k \in DOMAIN Installs |->
                 IF k = 1 THEN os ELSE IF k <= own THEN Installs[k - 1] ELSE Installs[k]]
InstallsShown == IF shell.platform = "known" THEN OrderedInstalls(shell.machine.os) ELSE Installs

SummaryArrives == \E s \in {"plain", "hint"} : shell' = [shell EXCEPT !.summary = s]
FeedTurns == shell' = [shell EXCEPT !.live = ~@]
Dismisses == BannerShown /\ shell' = [shell EXCEPT !.dismissed = TRUE]

\* The pill brings the banner back, and Help with it.
PillPressed == Room /\ shell' = SetView([shell EXCEPT !.dismissed = FALSE], "help")

\* Private browsing remembers nothing.
SetTheme ==
    /\ \E t \in Themes \ {shell.theme} :
         shell' \in {[shell EXCEPT !.theme = t, !.stored = t], [shell EXCEPT !.theme = t]}

PlatformArrives == shell.platform = "asked" /\ shell' = [shell EXCEPT !.platform = "known"]

Next ==
    \/ Navigates \/ HashChanges \/ GoesBack \/ EditsHash \/ Reloads \/ OfferDevice
    \/ SummaryArrives \/ FeedTurns \/ Dismisses \/ PillPressed \/ SetTheme \/ PlatformArrives

\* The view is the one the URL names, or an event that makes it so is on its way,
\* although the default view is pushed without one and the others are not, and the
\* reader goes back and forth while events are pending (useHashView, app.tsx:33-69).
ViewIsOfTheAddress == shell.events > 0 \/ shell.view = Read(shell.hash)

\* Help speaks of the machine it was opened on, and of nothing before it has been told,
\* however often it is left and opened while its one request is under way: every way to
\* install is listed once, the reader's first and the others in the order they always
\* have, and no build is named that is not published. Neither it nor the banner speaks of
\* a mode while the status bar says there has been no answer yet (help.tsx:68, 78, 509;
\* app.tsx:469 "Saying nothing yet is the honest state").
HelpIsOfThisMachine ==
    /\ shell.view = "help" <=> shell.platform # "none"
    /\ FactsShown => shell.view = "help" /\ BuildLine # "unknown"
    /\ BuildLine = "portable" => shell.machine.published
    /\ FactsShown \/ BannerShown => ModeShown # "starting"
    /\ LET list == InstallsShown
           os == shell.machine.os
           Place(key) == CHOOSE n \in DOMAIN Installs : Installs[n] = key
       IN  /\ Len(list) = Len(Installs)
           /\ \A n \in DOMAIN Installs : \E k \in DOMAIN list : list[k] = Installs[n]
           /\ \A k, l \in DOMAIN list : k < l /\ os \notin {list[k], list[l]} => Place(list[k]) < Place(list[l])
           /\ shell.platform = "known" /\ (\E n \in DOMAIN Installs : Installs[n] = os) => list[1] = os
=============================================================================
