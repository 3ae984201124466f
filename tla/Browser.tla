------------------------------- MODULE Browser -------------------------------
(***************************************************************************)
(* One Browser, src/src/capture/Browser.js, and the calls made on it at    *)
(* the same time.  open() makes a session at the first call that needs one *)
(* and every later call uses it; calls meet in this._opened, which close() *)
(* and a goto() that runs out of time take from under the others.          *)
(***************************************************************************)
EXTENDS CdpSession, Naturals

CONSTANTS
    Plans          \* which calls are made: evaluate, goto, click (wait for a selector, then
                   \* press) and close; bound: how many

Ops == {"evaluate", "goto", "click", "close"}

ASSUME BrowserAssumption == Plans \subseteq [calls: SUBSET Ops, most: Nat]

VARIABLES
    plan,
    opened,        \* _opened: its session, or None
    lastSession,   \* _lastSession, or None
    browserClosed, \* _closed
    call,          \* of each caller: the call, where it is and its session
    ops,           \* how many calls were made
    timers,        \* the callers whose goto timer is armed, with its session, or None
    arrived,       \* the callers whose load promise is resolved
    lost           \* history: the sessions of an open() that failed, or came to its end when
                   \* another had, or after close()

browserVars == <<plan, opened, lastSession, browserClosed, call, ops, timers, arrived, lost>>

Places == {"idle", "entering", "connecting", "greeting", "preparing", "bound", "asking",
           "pausing", "navigating", "loading", "pressing", "ok", "failed"}

BrowserTypeOK ==
    /\ plan \in Plans
    /\ opened \in Sessions \union {None} /\ lastSession \in Sessions \union {None}
    /\ browserClosed \in BOOLEAN
    /\ call \in [Callers -> [op: Ops \union {None}, at: Places, session: Sessions \union {None}]]
    /\ ops \in 0..plan.most
    /\ timers \in [Callers -> Sessions \union {None}]
    /\ arrived \subseteq Callers /\ lost \subseteq Sessions

BrowserInit ==
    /\ plan \in Plans
    /\ opened = None /\ lastSession = None /\ browserClosed = FALSE
    /\ call = [c \in Callers |-> [op |-> None, at |-> "idle", session |-> None]]
    /\ ops = 0
    /\ timers = [c \in Callers |-> None]
    /\ arrived = {} /\ lost = {}

-----------------------------------------------------------------------------
At(c, place) == call' = [call EXCEPT ![c].at = place]
OnSession(c, place, s) == call' = [call EXCEPT ![c].at = place, ![c].session = s]
Answer(c) == command[c].state
shared == <<plan, opened, lastSession, browserClosed>>
loads == <<timers, arrived>>

\* A caller calls; a call of close runs to its end at once.
Call(c, op) ==
    /\ call[c].at \in {"idle", "ok", "failed"} /\ ops < plan.most /\ op # "close"
    /\ ops' = ops + 1
    /\ call' = [call EXCEPT ![c] = [op |-> op, at |-> "entering", session |-> None]]
    /\ UNCHANGED <<shared, loads, lost, sessionVars>>

\* The slip of closing the session in use only.
CloseOpened(c) ==
    /\ call[c].at \in {"idle", "ok", "failed"} /\ ops < plan.most /\ "close" \in plan.calls
    /\ ops' = ops + 1
    /\ browserClosed' = TRUE /\ opened' = None
    /\ UNCHANGED sessionVars
    /\ UNCHANGED <<plan, lastSession, call, loads, lost>>

\* close.
Close(c) ==
    /\ call[c].at \in {"idle", "ok", "failed"} /\ ops < plan.most /\ "close" \in plan.calls
    /\ ops' = ops + 1
    /\ IF browserClosed THEN UNCHANGED <<opened, browserClosed, sessionVars>>
       ELSE /\ browserClosed' = TRUE /\ opened' = None
            /\ IF lastSession # None THEN CloseSession(lastSession) ELSE UNCHANGED sessionVars
    /\ UNCHANGED <<plan, lastSession, call, loads, lost>>

\* open: the session there is, an error after close(), or one more session.
Enter(c) ==
    /\ call[c].at = "entering"
    /\ IF opened # None THEN OnSession(c, "bound", opened)
       ELSE At(c, IF browserClosed THEN "failed" ELSE "connecting")
    /\ UNCHANGED <<shared, ops, loads, lost, sessionVars>>

\* capture.open connects, or fails.
ConnectBrowser(c) ==
    /\ call[c].at = "connecting"
    /\ \/ \E s \in Sessions : Connected(s) /\ OnSession(c, "greeting", s)
       \/ At(c, "failed") /\ UNCHANGED connection
    /\ UNCHANGED <<shared, ops, loads, lost, command>>

\* The commands of open: a target, its attachment, the viewport, the user agent.
Greet(c) ==
    /\ call[c].at = "greeting" /\ At(c, "preparing") /\ Send(c, call[c].session)
    /\ UNCHANGED <<shared, ops, loads, lost, connection>>

PrepareNext(c) ==
    /\ call[c].at = "preparing" /\ Answer(c) = "ok"
    /\ Send(c, call[c].session)
    /\ UNCHANGED <<shared, call, ops, loads, lost, connection>>

\* open returns; it asks neither whether another did nor whether the browser was closed.
OpenReturns(c) ==
    /\ call[c].at = "preparing" /\ Answer(c) = "ok"
    /\ opened' = call[c].session /\ lastSession' = call[c].session
    /\ At(c, "bound")
    /\ lost' = lost \union (IF lastSession # None THEN {lastSession} ELSE {})
                    \union (IF browserClosed THEN {call[c].session} ELSE {})
    /\ UNCHANGED <<plan, browserClosed, ops, loads, sessionVars>>

OpenRejects(c) ==
    /\ call[c].at = "preparing" /\ Answer(c) = "failed"
    /\ At(c, "failed") /\ lost' = lost \union {call[c].session}
    /\ UNCHANGED <<shared, ops, loads, sessionVars>>

\* The call goes on after open.  goto reads this._opened anew, which may be gone.
GoAhead(c) ==
    /\ call[c].at = "bound"
    /\ IF call[c].op # "goto"
       THEN At(c, "asking") /\ Send(c, call[c].session) /\ UNCHANGED loads
       ELSE IF opened = None THEN At(c, "failed") /\ UNCHANGED <<loads, command>>
       ELSE /\ OnSession(c, "navigating", opened)
            /\ timers' = [timers EXCEPT ![c] = opened] /\ arrived' = arrived \ {c}
            /\ Send(c, opened)
    /\ UNCHANGED <<shared, ops, lost, connection>>

\* _evaluate returns, or throws what readResult finds.
Evaluated(c) ==
    /\ call[c].at = "asking" /\ call[c].op = "evaluate" /\ Answer(c) \in {"ok", "failed"}
    /\ \E o \in {"ok", "failed"} : (Answer(c) = "failed" => o = "failed") /\ At(c, o)
    /\ UNCHANGED <<shared, ops, loads, lost, sessionVars>>

\* waitForSelector polls: found, not yet, or too late; a failed evaluation is thrown.
Polled(c) ==
    /\ call[c].at = "asking" /\ call[c].op = "click"
    /\ \/ Answer(c) = "failed" /\ At(c, "failed")
       \/ Answer(c) = "ok" /\ At(c, "pressing")
       \/ Answer(c) = "ok" /\ At(c, "pausing")
    /\ UNCHANGED <<shared, ops, loads, lost, sessionVars>>

PollAgain(c) ==
    /\ call[c].at = "pausing" /\ At(c, "entering")
    /\ UNCHANGED <<shared, ops, loads, lost, sessionVars>>

PollDeadline(c) ==
    /\ call[c].at = "pausing" /\ At(c, "failed")
    /\ UNCHANGED <<shared, ops, loads, lost, sessionVars>>

\* click and type send their events to this._opened, if it is there.
Press(c) ==
    /\ call[c].at = "pressing" /\ call[c].session # None
    /\ IF opened = None THEN At(c, "failed") /\ UNCHANGED command
       ELSE OnSession(c, "pressing", None) /\ Send(c, opened)
    /\ UNCHANGED <<shared, ops, loads, lost, connection>>

Pressed(c) ==
    /\ call[c].at = "pressing" /\ call[c].session = None /\ Answer(c) \in {"ok", "failed"}
    /\ At(c, Answer(c))
    /\ UNCHANGED <<shared, ops, loads, lost, sessionVars>>

\* Page.navigate was answered; when it was rejected the timer and the listener stay.
NavigateAnswered(c) ==
    /\ call[c].at = "navigating" /\ Answer(c) \in {"ok", "failed"}
    /\ At(c, IF Answer(c) = "failed" THEN "failed" ELSE "loading")
    /\ UNCHANGED <<shared, ops, loads, lost, sessionVars>>

\* The load promise was resolved, or its timer has rejected it.
LoadEnds(c) ==
    /\ call[c].at = "loading" /\ (c \in arrived \/ timers[c] = None)
    /\ At(c, IF c \in arrived THEN "ok" ELSE "failed")
    /\ UNCHANGED <<shared, ops, loads, lost, sessionVars>>

\* Page.loadEventFired, which every goto that listens to the session takes for its own.
PageLoads(s) ==
    LET heard == {c \in Callers : timers[c] = s}
    IN  /\ connection[s] = "open" /\ heard # {}
        /\ timers' = [c \in Callers |-> IF c \in heard THEN None ELSE timers[c]]
        /\ arrived' = arrived \union heard
        /\ UNCHANGED <<shared, call, ops, lost, sessionVars>>

\* The timer of a goto, whether that goto still waits or has failed before.
GotoTimer(c) ==
    /\ timers[c] # None
    /\ CloseSession(timers[c])
    /\ timers' = [timers EXCEPT ![c] = None]
    /\ UNCHANGED <<shared, call, ops, arrived, lost>>

CallStep(c) ==
    \/ Enter(c) \/ ConnectBrowser(c) \/ Greet(c) \/ OpenReturns(c) \/ OpenRejects(c)
    \/ GoAhead(c) \/ Evaluated(c) \/ Polled(c) \/ Press(c) \/ Pressed(c) \/ NavigateAnswered(c)
    \/ LoadEnds(c) \/ GotoTimer(c)

BrowserNext ==
    \/ \E c \in Callers : \/ \E op \in plan.calls : Call(c, op)
                          \/ Close(c) \/ CallStep(c) \/ PrepareNext(c) \/ PollAgain(c)
                          \/ PollDeadline(c)
    \/ \E s \in Sessions : PageLoads(s)
    \/ /\ \E c \in Callers : Dispatch(c) \/ CommandTimesOut(c)
       /\ UNCHANGED browserVars
    \/ (\E s \in Sessions : ClientCloses(s)) /\ UNCHANGED browserVars

-----------------------------------------------------------------------------
\* Once the browser is closed no session stays open, but one whose open() was still under way
\* then, or that open() had lost before: by failing after the connection or next to another.
ClosedBrowserLetsGo ==
    browserClosed =>
       \A s \in Sessions : connection[s] = "open" =>
          \/ s \in lost
          \/ \E c \in Callers : call[c].at \in {"greeting", "preparing"} /\ call[c].session = s

\* Every call ends, whatever the page and the connection do.
BrowserCallsEnd == \A c \in Callers : call[c].at = "entering" ~> call[c].at \in {"ok", "failed"}
=============================================================================
