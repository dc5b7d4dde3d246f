------------------------------ MODULE PageSession ------------------------------
\* The page and its session (web/src/app.tsx, gate.tsx, the requests and the live
\* feed of api.ts): what a tab knows about the service behind it, while that stops
\* and starts, forgets its sessions, and answers late.
\*
\* A request is sent, served, and its answer applied, in three steps; what the
\* service answers is fixed when it serves. All polls of the dashboard are one
\* request that is repeated, and the reader has one sign-in or sign-out at a time.
EXTENDS Naturals, FiniteSets

CONSTANTS
    Streams,      \* handles for live feeds, used again once a feed is gone
    NoStream,     \* no feed
    MaxAttempts   \* failed checks are counted up to here

ASSUME PageAssumption ==
    /\ IsFiniteSet(Streams) /\ Streams # {} /\ NoStream \notin Streams
    /\ MaxAttempts \in Nat \ {0}

VARIABLES
    up,        \* the service listens
    signedIn,  \* it has a session for this browser
    hasPass,   \* a password has been set
    visible,   \* the page is on screen
    auth,      \* AuthState, and whether the dashboard or the gate is shown
    check,     \* the status request in flight: the `checking` ref and its answer
    retry,     \* the timer of the unreachable page is set
    post,      \* the form, or the sign-out, in flight
    poll,      \* a dashboard request in flight
    stream,    \* per handle: its socket or timer, and the `closed` of its closure
    feed,      \* the feed of the mounted dashboard, or NoStream
    live       \* the dashboard says it is live

authVars == <<auth, check, retry>>
feedVars == <<stream, feed, live>>
serviceVars == <<up, signedIn, hasPass>>
pageVars == <<up, signedIn, hasPass, visible, auth, check, retry, post, poll, stream, feed, live>>

Phases == {"checking", "unreachable", "known"}
Answers == {"in", "login", "setup", "failed"}

PageTypeOK ==
    /\ {up, signedIn, hasPass, visible, retry, live} \subseteq BOOLEAN
    /\ auth \in [phase : Phases, attempts : 0..MaxAttempts, status : {"in", "login", "setup"}]
    /\ check \in {"idle", "sent"} \cup Answers
    /\ post \in [kind : {"none", "login", "setup", "logout"}, answer : {"sent", "ok", "refused", "failed"}]
    /\ poll \in {"idle", "sent", "ok", "unauthorized", "failed"}
    /\ stream \in [Streams -> [socket : {"gone", "dialing", "open", "closing", "waiting"}, closed : BOOLEAN]]
    /\ feed \in Streams \cup {NoStream}

Gone == [socket |-> "gone", closed |-> TRUE]

PageInit ==
    /\ up \in BOOLEAN /\ signedIn = FALSE /\ hasPass \in BOOLEAN /\ visible = TRUE
    /\ auth = [phase |-> "checking", attempts |-> 0, status |-> "login"]
    /\ check = "sent" /\ retry = FALSE
    /\ post = [kind |-> "none", answer |-> "failed"] /\ poll = "idle"
    /\ stream = [s \in Streams |-> Gone] /\ feed = NoStream /\ live = FALSE

-------------------------------------------------------------------------------
\* What App renders.

DashboardOf(a) == a.phase = "known" /\ a.status = "in"
DashboardShown == DashboardOf(auth)
GateShown == auth.phase = "known" /\ auth.status # "in"
\* The panel of Unreachable speaks up from the third failure.
OfflineNoticeShown == auth.phase = "unreachable" /\ auth.attempts >= 3

\* checkAuth: one at a time, a call during a check does nothing.
Checked(c) == IF c = "idle" THEN "sent" ELSE c

CheckAuth == check' = Checked(check)

-------------------------------------------------------------------------------
\* The service.

StatusAnswer == IF signedIn THEN "in" ELSE IF hasPass THEN "login" ELSE "setup"

\* The process ends: its sessions were in memory, the sockets break.
ServiceStops ==
    /\ up
    /\ up' = FALSE /\ signedIn' = FALSE
    /\ stream' = [s \in Streams |->
                    IF stream[s].socket = "open" THEN [stream[s] EXCEPT !.socket = "closing"]
                    ELSE stream[s]]
    /\ UNCHANGED <<hasPass, visible, authVars, post, poll, feed, live>>

ServiceStarts ==
    /\ ~up
    /\ up' = TRUE
    /\ UNCHANGED <<signedIn, hasPass, visible, authVars, post, poll, feedVars>>

\* The session runs out, or is ended or begun in another tab.
SessionElsewhere ==
    /\ up /\ hasPass
    /\ signedIn' = ~signedIn
    /\ UNCHANGED <<up, hasPass, visible, authVars, post, poll, feedVars>>

ServeStatus ==
    /\ check = "sent"
    /\ check' = IF up THEN StatusAnswer ELSE "failed"
    /\ UNCHANGED <<serviceVars, visible, auth, retry, post, poll, feedVars>>

\* A POST to /api/auth/login, setup or logout. A password may be wrong.
ServePost ==
    /\ post.kind # "none" /\ post.answer = "sent"
    /\ \/ /\ ~up
          /\ post' = [post EXCEPT !.answer = "failed"]
          /\ UNCHANGED <<signedIn, hasPass>>
       \/ /\ up
          /\ post.kind \in {"login", "setup"}
          /\ post' = [post EXCEPT !.answer = "refused"]
          /\ UNCHANGED <<signedIn, hasPass>>
       \/ /\ up
          /\ post.kind \in IF hasPass THEN {"login"} ELSE {"setup"}
          /\ post' = [post EXCEPT !.answer = "ok"]
          /\ signedIn' = TRUE /\ hasPass' = TRUE
       \/ /\ up /\ post.kind = "logout"
          /\ post' = [post EXCEPT !.answer = "ok"]
          /\ signedIn' = FALSE
          /\ UNCHANGED hasPass
    /\ UNCHANGED <<up, visible, authVars, poll, feedVars>>

ServePoll ==
    /\ poll = "sent"
    /\ poll' = CASE ~up -> "failed" [] up /\ signedIn -> "ok" [] OTHER -> "unauthorized"
    /\ UNCHANGED <<serviceVars, visible, authVars, post, feedVars>>

-------------------------------------------------------------------------------
\* The live feed, connectStream.

\* Mounting the dashboard opens a feed; taking it down runs the teardown.
Opened(st, s) == [st EXCEPT ![s] = [socket |-> "dialing", closed |-> FALSE]]

\* Slip: the socket is left to itself.
TornDown_Slip(st, s) ==
    [st EXCEPT ![s].closed = TRUE, ![s].socket = IF @ = "waiting" THEN "gone" ELSE @]
TornDown(st, s) ==
    [st EXCEPT ![s].closed = TRUE,
               ![s].socket = CASE @ \in {"dialing", "open"} -> "closing"
                               [] @ = "waiting" -> "gone"
                               [] OTHER -> @]

\* What a change of auth does to the dashboard's feed.
Remount(a) ==
    \/ /\ DashboardOf(a) = DashboardShown
       /\ UNCHANGED feedVars
    \/ /\ DashboardOf(a) /\ ~DashboardShown
       /\ \E s \in Streams :
            /\ stream[s].socket = "gone"
            /\ stream' = Opened(stream, s) /\ feed' = s
       /\ live' = FALSE
    \/ /\ ~DashboardOf(a) /\ DashboardShown
       /\ stream' = TornDown(stream, feed) /\ feed' = NoStream
       /\ live' = FALSE

StreamOpens(s) ==
    /\ stream[s].socket = "dialing" /\ up /\ signedIn
    /\ stream' = [stream EXCEPT ![s].socket = "open"]
    /\ live' = (live \/ s = feed)
    /\ UNCHANGED <<serviceVars, visible, authVars, post, poll, feed>>

\* The dial fails or the network breaks; the close event is still to come.
StreamBreaks(s) ==
    /\ stream[s].socket \in {"dialing", "open"}
    /\ stream' = [stream EXCEPT ![s].socket = "closing"]
    /\ UNCHANGED <<serviceVars, visible, authVars, post, poll, feed, live>>

\* onclose: says so, and sets the timer unless the feed was torn down.
AfterClose(st) == [st EXCEPT !.socket = IF st.closed THEN "gone" ELSE "waiting"]

\* Slip: onclose does not report.
StillLive_Slip(s) == live
StillLive(s) == live /\ s # feed

StreamClosed(s) ==
    /\ stream[s].socket = "closing"
    /\ stream' = [stream EXCEPT ![s] = AfterClose(@)]
    /\ live' = StillLive(s)
    /\ UNCHANGED <<serviceVars, visible, authVars, post, poll, feed>>

StreamRedials(s) ==
    /\ stream[s].socket = "waiting"
    /\ stream' = [stream EXCEPT ![s].socket = IF stream[s].closed THEN "gone" ELSE "dialing"]
    /\ UNCHANGED <<serviceVars, visible, authVars, post, poll, feed, live>>

-------------------------------------------------------------------------------
\* The page.

\* The answer of the status request: known, or unreachable once more.
\* Slip: a failure is taken for an answer.
AuthAfter_Slip(answer) == [phase |-> "known", attempts |-> 0, status |-> answer]
AuthAfter(answer) ==
    IF answer = "failed"
    THEN [auth EXCEPT !.phase = "unreachable",
                      !.attempts = IF auth.phase # "unreachable" THEN 1
                                   ELSE IF @ < MaxAttempts THEN @ + 1 ELSE @]
    ELSE [phase |-> "known", attempts |-> 0, status |-> answer]

\* The effect on auth sets the retry timer anew while the page is unreachable.
\* Slip: only the first failure sets it.
RetryAfter_Slip(a) == a.phase = "unreachable" /\ auth.phase # "unreachable"
RetryAfter(a) == a.phase = "unreachable"

StatusArrives ==
    /\ check \in Answers
    /\ LET a == AuthAfter(check)
       IN  auth' = a /\ retry' = RetryAfter(a) /\ Remount(a)
    /\ check' = "idle"
    /\ UNCHANGED <<serviceVars, visible, post, poll>>

RetryFires ==
    /\ retry
    /\ retry' = FALSE
    /\ CheckAuth
    /\ UNCHANGED <<serviceVars, visible, auth, post, poll, feedVars>>

\* The button of the unreachable page.
RetryPressed ==
    /\ OfflineNoticeShown
    /\ CheckAuth
    /\ UNCHANGED <<serviceVars, visible, auth, retry, post, poll, feedVars>>

\* Hiding the tab does nothing here; coming back checks.
\* Slip: the listener is not there.
OnVisible_Slip(v) == FALSE
OnVisible(v) == v

VisibilityChanges ==
    /\ visible' = ~visible
    /\ IF OnVisible(~visible) THEN CheckAuth ELSE UNCHANGED check
    /\ UNCHANGED <<serviceVars, auth, retry, post, poll, feedVars>>

\* Gate.submit, after its own tests of the password, or the sign-out button.
Submit ==
    /\ post.kind = "none"
    /\ \/ GateShown /\ post' = [kind |-> auth.status, answer |-> "sent"]
       \/ DashboardShown /\ post' = [kind |-> "logout", answer |-> "sent"]
    /\ UNCHANGED <<serviceVars, visible, authVars, poll, feedVars>>

\* Its answer: onDone, or onSignOut, only when the request went through.
PostArrives ==
    /\ post.kind # "none" /\ post.answer # "sent"
    /\ IF post.answer = "ok" THEN CheckAuth ELSE UNCHANGED check
    /\ post' = [kind |-> "none", answer |-> "failed"]
    /\ UNCHANGED <<serviceVars, visible, auth, retry, poll, feedVars>>

PollStarts ==
    /\ DashboardShown /\ poll = "idle"
    /\ poll' = "sent"
    /\ UNCHANGED <<serviceVars, visible, authVars, post, feedVars>>

\* raiseIfUnauthorized: a 401 goes to the top, anything else is the widget's.
\* Slip: the widget swallows it.
OnAnswer_Slip(answer) == UNCHANGED check
OnAnswer(answer) == IF answer = "unauthorized" THEN CheckAuth ELSE UNCHANGED check

PollArrives ==
    /\ poll \in {"ok", "unauthorized", "failed"}
    /\ OnAnswer(poll)
    /\ poll' = "idle"
    /\ UNCHANGED <<serviceVars, visible, auth, retry, post, feedVars>>

-------------------------------------------------------------------------------
StreamNext == \E s \in Streams :
    StreamOpens(s) \/ StreamBreaks(s) \/ StreamClosed(s) \/ StreamRedials(s)

PageNext ==
    \/ ServiceStops \/ ServiceStarts \/ SessionElsewhere
    \/ ServeStatus \/ ServePost \/ ServePoll
    \/ StatusArrives \/ RetryFires \/ RetryPressed \/ VisibilityChanges
    \/ Submit \/ PostArrives \/ PollStarts \/ PollArrives
    \/ StreamNext

\* Requests are answered, timers fire, and a mounted dashboard polls. The service
\* need not come up, nor the reader do anything, nor a feed break.
PageFairness ==
    /\ WF_pageVars(ServeStatus) /\ WF_pageVars(StatusArrives) /\ WF_pageVars(RetryFires)
    /\ WF_pageVars(ServePost) /\ WF_pageVars(PostArrives)
    /\ WF_pageVars(PollStarts) /\ WF_pageVars(ServePoll) /\ WF_pageVars(PollArrives)
    /\ \A s \in Streams : WF_pageVars(StreamClosed(s)) /\ WF_pageVars(StreamRedials(s))

PageSpec == PageInit /\ [][PageNext]_pageVars /\ PageFairness

-------------------------------------------------------------------------------
\* A feed that was torn down neither holds nor opens a connection: whatever the
\* order of teardown, close event, timer and a new mount, only the mounted dashboard
\* listens (connectStream, api.ts:343, and the effect at app.tsx:418).
OnlyTheMountedListens ==
    \A s \in Streams :
        s # feed => stream[s].socket \in {"closing", "gone"}

\* The page says it is live only while its own feed is, or the event that says
\* otherwise is on its way (api.ts:338-341, "if it drops, every view should say so").
LiveHasAFeed ==
    live => feed # NoStream /\ stream[feed].socket \in {"open", "closing"}

\* A session that ends, with the service reachable and nobody signing in again,
\* ends in the sign-in screen, and not in a dashboard that goes on showing what it
\* last held (app.tsx:281-287, api.ts:181-203), whatever checks are dropped on the way.
EndedSessionIsNoticed ==
    <>[](up /\ ~signedIn) => <>[]GateShown

\* Once the service stays up, the page finds out, without the reader doing a thing
\* (app.tsx:269-279).
ServiceIsFoundAgain ==
    <>[]up => <>[](auth.phase = "known")

\* A reader whose session is good, and who comes back to the tab now and then, gets
\* the dashboard. Coming back is needed: a sign-in that ends while a check is in
\* flight has its own check dropped (app.tsx:249).
SignedInIsLetIn ==
    <>[](up /\ signedIn) /\ []<>visible /\ []<>~visible => <>[]DashboardShown
=============================================================================
