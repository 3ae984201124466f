----------------------------- MODULE CdpCapture -----------------------------
(***************************************************************************)
(* One task in a browser over a session of its own: CdpCapture.capture and *)
(* exportCookies (src/src/capture/CdpCapture.js) and CdpRenderer.render    *)
(* (src/src/capture/CdpRenderer.js).  The task sends one command at a time *)
(* while the events of the page arrive; it reacts to a settled command     *)
(* later than the events of the same chunk of data.                        *)
(*                                                                         *)
(* A page loads requests, which may be redirected.  Of an answer only the  *)
(* hop of its request is kept, so that hop h is the answer to hop h.       *)
(***************************************************************************)
EXTENDS CdpSession, Naturals, Sequences

CONSTANTS
    Me, MySession,     \* the call and the session it makes
    Tasks,             \* what may be asked: task, selector, bodies, meta; and what the answer
                       \* to each hop of a page is: text, or not, or too big
    Requests,          \* requestIds
    Sockets,           \* those of WebSockets
    MaxEntries, MaxFramesPerSocket,
    MaxHops            \* bound: how often a request is sent

ASSUME CdpCaptureAssumption ==
    /\ Me \in Callers /\ MySession \in Sessions
    /\ Tasks \subseteq [task: {"capture", "render", "cookies"}, selector: BOOLEAN,
                        bodies: BOOLEAN, meta: BOOLEAN, answers: [1..MaxHops -> {"text", "binary", "big"}]]
    /\ Sockets \subseteq Requests
    /\ MaxEntries \in Nat /\ MaxFramesPerSocket \in Nat /\ MaxHops \in Nat \ {0}

VARIABLES
    task,        \* the options
    at,          \* where the task is
    ended,       \* what became of its promise
    page,        \* the requests of the page: how often sent, and how far the last one is
    records,     \* the entries
    byRequestId, \* the place of the last record of a request, or 0
    position,    \* fetchBodies: the record whose body is asked for
    loaded,      \* the promise of the load event
    target,      \* the target in the browser: none, open, or closing was asked for
    crowded      \* history: the requests of which a hop found the list full

taskVars == <<task, at, ended, page, records, byRequestId, position, loaded, target, crowded>>

Steps == {"connecting", "creating", "attaching", "enabling", "preparing", "navigating", "loading",
          "polling", "pausing", "idle", "bodies", "rendering", "meta", "cookies", "closing", "done", "abandoned"}
Entries == [request: Requests, hop: 1..MaxHops, status: 0..MaxHops, mime: {"", "text", "binary"},
            done: BOOLEAN, failed: BOOLEAN, big: BOOLEAN, body: 0..MaxHops, truncated: BOOLEAN,
            redirected: BOOLEAN, frames: 0..MaxFramesPerSocket]

TaskTypeOK ==
    /\ task \in Tasks /\ at \in Steps /\ ended \in {"", "ok", "failed"}
    /\ page \in [Requests -> [hop: 0..MaxHops,
                              phase: {"none", "sent", "responded", "finished", "failed"}]]
    /\ records \in Seq(Entries) /\ Len(records) <= MaxEntries
    /\ byRequestId \in [Requests -> 0..MaxEntries]
    /\ \A r \in Requests : byRequestId[r] # 0 => records[byRequestId[r]].request = r
    /\ position \in 0..(MaxEntries + 1) /\ loaded \in BOOLEAN
    /\ target \in {"none", "open", "closing"} /\ crowded \subseteq Requests

TaskInit ==
    /\ task \in Tasks /\ at = "connecting" /\ ended = ""
    /\ page = [r \in Requests |-> [hop |-> 0, phase |-> "none"]]
    /\ records = <<>> /\ byRequestId = [r \in Requests |-> 0]
    /\ position = 0 /\ loaded = FALSE /\ target = "none" /\ crowded = {}

-----------------------------------------------------------------------------
(* The events of the page. *)

\* The listeners hear the page once it was told to load, until the session is closed.
Listening ==
    /\ connection[MySession] = "open" /\ at \notin {"connecting", "creating", "attaching", "done", "abandoned"}
    /\ task.task = "capture"

Loads == Listening /\ at \notin {"enabling", "preparing"}

Entry(r, hop) ==
    [request |-> r, hop |-> hop, status |-> 0, mime |-> "", done |-> FALSE, failed |-> FALSE,
     big |-> FALSE, body |-> 0, truncated |-> FALSE, redirected |-> FALSE, frames |-> 0]

\* The slip of a record that does not become the one of its request.
RecordUnmapped(list, r) ==
    IF Len(list) >= MaxEntries
    THEN records' = list /\ crowded' = crowded \union {r} /\ UNCHANGED byRequestId
    ELSE /\ records' = Append(list, Entry(r, page[r].hop + 1))
         /\ byRequestId' = [byRequestId EXCEPT ![r] = IF @ = 0 THEN Len(list) + 1 ELSE @]
         /\ UNCHANGED crowded

\* _record, unless the list is full.
Record(list, r) ==
    IF Len(list) >= MaxEntries
    THEN records' = list /\ crowded' = crowded \union {r} /\ UNCHANGED byRequestId
    ELSE /\ records' = Append(list, Entry(r, page[r].hop + 1))
         /\ byRequestId' = [byRequestId EXCEPT ![r] = Len(list) + 1]
         /\ UNCHANGED crowded

Happens(r, hop, phase) ==
    /\ page' = [page EXCEPT ![r] = [hop |-> hop, phase |-> phase]]
    /\ UNCHANGED <<task, at, ended, position, loaded, target, sessionVars>>

\* The last record of a request, changed; nothing when the request has none.
RecordOf(r) == records[byRequestId[r]]
Change(r, changed) ==
    /\ records' = IF byRequestId[r] = 0 THEN records
                  ELSE [records EXCEPT ![byRequestId[r]] = changed]
    /\ UNCHANGED <<byRequestId, crowded>>

\* Network.requestWillBeSent: a redirect completes the record of the hop before.
RequestWillBeSent(r) ==
    LET previous == byRequestId[r]
        Redirected(e) == [e EXCEPT !.status = page[r].hop, !.done = TRUE, !.redirected = TRUE]
        list == IF previous = 0 THEN records ELSE [records EXCEPT ![previous] = Redirected(@)]
    IN  /\ Loads /\ r \notin Sockets
        /\ page[r].phase \in {"none", "sent"} /\ page[r].hop < MaxHops
        /\ Record(list, r)
        /\ Happens(r, page[r].hop + 1, "sent")

\* Network.webSocketCreated.
WebSocketCreated(r) ==
    /\ Loads /\ r \in Sockets /\ page[r].phase = "none"
    /\ Record(records, r)
    /\ Happens(r, 1, "sent")

\* Network.responseReceived.
ResponseReceived(r) ==
    LET Answered == [RecordOf(r) EXCEPT !.status = page[r].hop,
                                        !.mime = IF task.answers[page[r].hop] = "binary" THEN "binary" ELSE "text"]
    IN  /\ Loads /\ page[r].phase = "sent" /\ r \notin Sockets
        /\ Change(r, Answered)
        /\ Happens(r, page[r].hop, "responded")

\* Network.loadingFinished.
LoadingFinished(r) ==
    LET Finished == [RecordOf(r) EXCEPT !.done = TRUE, !.big = (task.answers[page[r].hop] = "big")]
    IN  /\ Loads /\ page[r].phase = "responded"
        /\ Change(r, Finished)
        /\ Happens(r, page[r].hop, "finished")

\* Network.loadingFailed.
LoadingFailed(r) ==
    LET Failed == [RecordOf(r) EXCEPT !.failed = TRUE, !.done = TRUE]
    IN  /\ Loads /\ page[r].phase \in {"sent", "responded"} /\ r \notin Sockets
        /\ Change(r, Failed)
        /\ Happens(r, page[r].hop, "failed")

\* Network.webSocketFrameSent and webSocketFrameReceived: _recordFrame.
Frame(r) ==
    LET Framed == IF RecordOf(r).frames >= MaxFramesPerSocket
                  THEN [RecordOf(r) EXCEPT !.truncated = TRUE]
                  ELSE [RecordOf(r) EXCEPT !.frames = @ + 1]
    IN  /\ Loads /\ r \in Sockets /\ page[r].phase = "sent"
        /\ Change(r, Framed)
        /\ Happens(r, 1, "sent")

\* Page.loadEventFired, in a capture or a rendering.
LoadEvent ==
    /\ connection[MySession] = "open" /\ ~loaded
    /\ at \in {"navigating", "loading"} /\ loaded' = TRUE
    /\ UNCHANGED <<task, at, ended, page, records, byRequestId, position, target, crowded,
                   sessionVars>>

PageEvent ==
    \/ \E r \in Requests :
          \/ RequestWillBeSent(r) \/ WebSocketCreated(r) \/ ResponseReceived(r)
          \/ LoadingFinished(r) \/ LoadingFailed(r) \/ Frame(r)
    \/ LoadEvent

-----------------------------------------------------------------------------
(* The steps of the task. *)

mine == command[Me].state
Ask == Send(Me, MySession)
pageVars == <<page, byRequestId, loaded, crowded>>

\* _connect; a connection that fails leaves nothing.
Connect ==
    /\ at = "connecting" /\ ended = ""
    /\ \/ Connected(MySession) /\ at' = "creating" /\ UNCHANGED ended
       \/ at' = "abandoned" /\ ended' = "failed" /\ UNCHANGED connection
    /\ UNCHANGED <<task, position, records, target, command, pageVars>>

\* The first command after the connection.
Begin ==
    /\ at = "creating" /\ mine = "none"
    /\ at' = IF task.task = "cookies" THEN "cookies" ELSE at
    /\ Ask
    /\ UNCHANGED <<task, ended, position, records, target, connection, pageVars>>

\* open rejects: the session and the target stay as they are.
OpenFails ==
    /\ at \in {"creating", "attaching"} /\ mine = "failed"
    /\ at' = "abandoned" /\ ended' = "failed"
    /\ UNCHANGED <<task, position, records, target, sessionVars, pageVars>>

\* The step that follows when a command was answered; "preparing" is Network.enable for a
\* capture, Runtime.enable for a rendering.
Following == [creating |-> "attaching", attaching |-> "enabling", enabling |-> "preparing",
              preparing |-> "navigating"]

\* open, and the first commands of capture and of render.
GoOn ==
    /\ at \in DOMAIN Following /\ mine = "ok"
    /\ at' = Following[at]
    /\ target' = IF at = "creating" THEN "open" ELSE target
    /\ Ask
    /\ UNCHANGED <<task, ended, position, records, connection, pageVars>>

\* Page.navigate was answered: the load is awaited for a time.
Navigated ==
    /\ at = "navigating" /\ mine = "ok"
    /\ at' = "loading"
    /\ UNCHANGED <<task, ended, position, records, target, sessionVars, pageVars>>

\* The slip of a wait that nothing but the event ends.
LoadedByEvent ==
    /\ at = "loading" /\ loaded
    /\ IF task.task = "render" /\ task.selector THEN at' = "polling" /\ Ask
       ELSE at' = "idle" /\ UNCHANGED command
    /\ UNCHANGED <<task, ended, position, records, target, connection, pageVars>>

\* The load event came or its timer fired, which no other condition holds up; a connection
\* that is lost goes unnoticed here.
Loaded ==
    /\ at = "loading"
    /\ IF task.task = "render" /\ task.selector THEN at' = "polling" /\ Ask
       ELSE at' = "idle" /\ UNCHANGED command
    /\ UNCHANGED <<task, ended, position, records, target, connection, pageVars>>

\* finally: the target is closed, then the session.
Finally(result) ==
    /\ at' = "closing" /\ ended' = result /\ target' = "closing"
    /\ Ask

\* _waitForSelector asks again after a pause until its deadline has passed; a rejected
\* command counts as not found.
SelectorPolled ==
    /\ at = "polling" /\ mine \in {"ok", "failed"}
    /\ \/ mine = "ok" /\ at' = "idle"
       \/ at' = "pausing"
    /\ UNCHANGED <<task, ended, position, records, target, sessionVars, pageVars>>

SelectorAgain ==
    /\ at = "pausing"
    /\ at' = "polling" /\ Ask
    /\ UNCHANGED <<task, ended, position, records, target, connection, pageVars>>

SelectorMissing ==
    /\ at = "pausing"
    /\ Finally("failed")
    /\ UNCHANGED <<task, position, records, connection, pageVars>>

\* Whether fetchBodies asks for the body of an entry, and whether it finds it too large.
Wanted(e) == ~e.failed /\ e.done /\ e.body = 0 /\ e.mime # "binary"

\* fetchBodies from a place on: what it passes over, and the first record it asks for.
AskBody(list, from) ==
    LET asked == {k \in DOMAIN list : k >= from /\ Wanted(list[k]) /\ ~list[k].big}
        next == IF asked = {} THEN Len(list) + 1 ELSE CHOOSE k \in asked : \A j \in asked : k <= j
    IN  /\ records' = [k \in DOMAIN list |->
                          IF k >= from /\ k < next /\ Wanted(list[k])
                          THEN [list[k] EXCEPT !.truncated = TRUE] ELSE list[k]]
        /\ position' = next
        /\ at' = IF asked = {} THEN "meta" ELSE "bodies"
        /\ Ask

\* The delay for a page that is idle is over.
IdleOver ==
    /\ at = "idle"
    /\ IF task.task = "capture" /\ task.bodies THEN AskBody(records, 1)
       ELSE /\ at' = IF task.task = "capture" THEN "meta" ELSE "rendering"
            /\ Ask
            /\ UNCHANGED <<records, position>>
    /\ UNCHANGED <<task, ended, target, connection, pageVars>>

\* The browser answers with the body of the last hop, once it has it.
BodyAnswered ==
    LET r == records[position].request
        e == [records[position] EXCEPT
                 !.body = IF mine = "ok" /\ page[r].phase = "finished" THEN page[r].hop ELSE @,
                 !.truncated = @ \/ mine = "failed"]
    IN  /\ at = "bodies" /\ mine \in {"ok", "failed"}
        /\ AskBody([records EXCEPT ![position] = e], position + 1)
        /\ UNCHANGED <<task, ended, target, connection, pageVars>>

\* The HTML, or something that is no string.
Rendered ==
    /\ at = "rendering" /\ mine = "ok"
    /\ \/ task.meta /\ at' = "meta" /\ Ask /\ UNCHANGED <<ended, target>>
       \/ ~task.meta /\ Finally("ok")
       \/ Finally("failed")
    /\ UNCHANGED <<task, position, records, connection, pageVars>>

\* Title and address, or null.
MetaAnswered ==
    /\ at = "meta" /\ mine \in {"ok", "failed"}
    /\ Finally("ok")
    /\ UNCHANGED <<task, position, records, connection, pageVars>>

\* A command of the try block is rejected.
CommandRejected ==
    /\ at \in {"enabling", "preparing", "navigating", "rendering"} /\ mine = "failed"
    /\ Finally("failed")
    /\ UNCHANGED <<task, position, records, connection, pageVars>>

\* exportCookies, and the end of capture and render.
CookiesAnswered ==
    /\ at = "cookies" /\ mine \in {"ok", "failed"}
    /\ at' = "done" /\ ended' = mine
    /\ CloseSession(MySession)
    /\ UNCHANGED <<task, position, records, target, pageVars>>

TargetClosed ==
    /\ at = "closing" /\ mine \in {"ok", "failed"}
    /\ at' = "done"
    /\ CloseSession(MySession)
    /\ UNCHANGED <<task, ended, position, records, target, pageVars>>

\* What the code does by itself.
TaskStep ==
    \/ Begin \/ OpenFails \/ GoOn \/ Navigated \/ Loaded \/ SelectorPolled \/ IdleOver
    \/ BodyAnswered \/ Rendered \/ MetaAnswered \/ CommandRejected \/ CookiesAnswered
    \/ TargetClosed

BrowserSide ==
    /\ Dispatch(Me) \/ CommandTimesOut(Me) \/ ClientCloses(MySession)
    /\ UNCHANGED taskVars

TaskNext == Connect \/ TaskStep \/ SelectorAgain \/ SelectorMissing \/ PageEvent \/ BrowserSide

-----------------------------------------------------------------------------
\* An entry of capture() tells of the hop it was made for: its status is that of its own
\* answer, unless a hop of its request found the list full, and its body is its own, unless
\* it was redirected, when the browser answers under the same requestId with a later body.
EntryBearsItsOwnAnswer ==
    \A k \in DOMAIN records :
       LET e == records[k]
       IN  e.request \notin crowded =>
              /\ e.status \in {0, e.hop}
              /\ e.redirected \/ e.body \in {0, e.hop}

\* A task whose open() succeeded leaves no session behind and has asked for its target to be
\* closed, whichever of its later commands failed; exportCookies leaves no session.
TaskCleansUp ==
    at = "done" => /\ connection[MySession] = "closed"
                   /\ task.task = "cookies" \/ target = "closing"

\* A task comes to its end whatever the browser does, and so does the wait for a selector.
TaskEnds == at = "creating" ~> at \in {"done", "abandoned"}
=============================================================================
