------------------------------ MODULE CaptureMC ------------------------------
(***************************************************************************)
(* The parts of the capture, which share no state but the sessions that    *)
(* CdpCapture and Browser each make for themselves: a behaviour is one of  *)
(* one part, while the others stay as they are at first.                   *)
(***************************************************************************)
EXTENDS CdpCapture, Browser, WebSocket, CaptureProxy, NetworkCapture

VARIABLE part

vars == <<part, sessionVars, taskVars, browserVars, wsVars, proxyVars, playVars>>

Bits(n) == [k \in 1..n |-> k % 2]
F(fin, opcode, length) == [fin |-> fin, opcode |-> opcode, payload |-> Bits(length)]

\* A message in fragments around a PING; a message and a frame that is too large; lengths at
\* the boundaries; a CLOSE at the end.
MCScripts ==
    {<<>>,
     <<F(FALSE, TEXT, 2), F(TRUE, PING, 1), F(TRUE, CONTINUATION, 3), F(TRUE, BINARY, 5)>>,
     <<F(TRUE, TEXT, 4), F(TRUE, BINARY, 7)>>,
     <<F(TRUE, TEXT, 0), F(FALSE, TEXT, 1), F(FALSE, CONTINUATION, 1), F(TRUE, CONTINUATION, 1),
       F(TRUE, CLOSE, 2)>>,
     <<F(TRUE, PONG, 0), F(TRUE, TEXT, 6), F(TRUE, PING, 0), F(TRUE, TEXT, 1)>>}

MCKey == <<1, 0, 1, 1>>
MCOutgoing == {Bits(n) : n \in {0, 2, 3, 5}}

Texts == <<"text", "text", "text">>
MCTasks ==
    {[task |-> "capture", selector |-> FALSE, bodies |-> TRUE, meta |-> TRUE, answers |-> Texts],
     [task |-> "capture", selector |-> FALSE, bodies |-> TRUE, meta |-> FALSE,
      answers |-> <<"binary", "text", "big">>],
     [task |-> "render", selector |-> TRUE, bodies |-> FALSE, meta |-> TRUE, answers |-> Texts],
     [task |-> "render", selector |-> FALSE, bodies |-> FALSE, meta |-> FALSE, answers |-> Texts],
     [task |-> "cookies", selector |-> FALSE, bodies |-> FALSE, meta |-> FALSE, answers |-> Texts]}

MCPlans ==
    {[calls |-> {"goto", "click", "close"}, most |-> 2],
     [calls |-> {"evaluate", "close"}, most |-> 3]}

\* Where a part is not the one that runs, one of its configurations is enough.
Init ==
    /\ part \in {"task", "browser", "socket", "proxy", "playwright"}
    /\ SessionInit /\ TaskInit /\ BrowserInit /\ WsInit /\ ProxyInit /\ PlayInit
    /\ part # "task" => task.task = "cookies"
    /\ part # "browser" => plan.most = 2
    /\ part # "socket" => incoming = <<>>

Task == part = "task" /\ UNCHANGED <<part, browserVars, wsVars, proxyVars, playVars>>
InBrowser == part = "browser" /\ UNCHANGED <<part, taskVars, wsVars, proxyVars, playVars>>
Socket == part = "socket" /\ UNCHANGED <<part, sessionVars, taskVars, browserVars, proxyVars, playVars>>
Proxy == part = "proxy" /\ UNCHANGED <<part, sessionVars, taskVars, browserVars, wsVars, playVars>>
Playwright == part = "playwright" /\ UNCHANGED <<part, sessionVars, taskVars, browserVars, wsVars, proxyVars>>

Next ==
    \/ Playwright /\ PlayNext
    \/ Task /\ TaskNext
    \/ InBrowser /\ BrowserNext
    \/ Socket /\ WsNext
    \/ Proxy /\ ProxyNext

\* Promises that are settled are acted on, timers fire, data that was sent arrives unless the
\* socket is destroyed, and a wait for a selector that is over and over again before its
\* deadline comes to find it passed.
Spec ==
    /\ Init /\ [][Next]_vars
    /\ WF_vars(Task /\ TaskStep) /\ WF_vars(Task /\ SelectorAgain) /\ SF_vars(Task /\ SelectorMissing)
    /\ WF_vars(Task /\ CommandTimesOut(Me) /\ UNCHANGED taskVars)
    /\ \A c \in Callers :
          /\ WF_vars(InBrowser /\ CallStep(c)) /\ WF_vars(InBrowser /\ GotoTimer(c))
          /\ SF_vars(InBrowser /\ OpenReturns(c)) /\ SF_vars(InBrowser /\ PollDeadline(c))
          /\ WF_vars(InBrowser /\ CommandTimesOut(c) /\ UNCHANGED browserVars)
    /\ WF_vars(Socket /\ Arrives)
    /\ WF_vars(Proxy /\ StopReturns)

-----------------------------------------------------------------------------
TypesOK == SessionTypeOK /\ TaskTypeOK /\ BrowserTypeOK /\ ProxyTypeOK

\* The entries of a proxy are of what it passed on, and those of a task of what it heard;
\* and the state of these parts is of its types.
EntriesAreTrue == TypesOK /\ EntryBearsItsOwnAnswer /\ ProxyTellsWhatItPassed

\* What a task or a browser opened is let go of when it ends or is closed.
LetsGo == TaskCleansUp /\ ClosedBrowserLetsGo

\* Tasks, the calls on a browser and stop() of a proxy come to their ends.
EverythingEnds == TaskEnds /\ BrowserCallsEnd /\ ProxyStops
=============================================================================
