--------------------------- MODULE NetworkCapture ---------------------------
(***************************************************************************)
(* A capture with Playwright, src/src/capture/PlaywrightCapture.js, the    *)
(* collection its entries are added to, NetworkCapture.js, and the HAR     *)
(* they can be saved as and read from, HarImporter.js.                     *)
(*                                                                         *)
(* The library reports what a page does by events.  The handler of a       *)
(* response awaits its headers and its body before it makes an entry, so   *)
(* the entries come in another order than the responses, and a capture can *)
(* return while some are being read.  A request can fail after its         *)
(* response has come.                                                      *)
(***************************************************************************)
EXTENDS Naturals, Sequences, FiniteSets

CONSTANTS
    PageRequests,
    MaxPulls,      \* bound: calls of pull() and clear()
    NoBody

VARIABLES
    request,       \* of each request, what the browser has reported of it
    handler,       \* of each request, the place of its response's handler
    waiting,       \* pending
    recorded,      \* the controller's entries, in order
    pageAt,        \* of capture(): "loading", "stopped", "closed", "failed"
    taken,         \* the entries of the NetworkCapture
    atReturn,      \* history: how many entries there were when capture() returned
    pulls

playVars == <<request, handler, waiting, recorded, pageAt, taken, atReturn, pulls>>

PlayInit ==
    /\ request = [r \in PageRequests |-> "unsent"] /\ handler = [r \in PageRequests |-> "none"]
    /\ waiting = {} /\ recorded = <<>> /\ pageAt = "loading"
    /\ taken = <<>> /\ atReturn = 0 /\ pulls = 0

Attached == pageAt = "loading"
BrowserOpen == pageAt \in {"loading", "stopped"}

-----------------------------------------------------------------------------
\* An event of the page is handled at once; 'request' and 'requestfailed' until stop().
RequestSent(r) ==
    /\ BrowserOpen /\ request[r] = "unsent"
    /\ request' = [request EXCEPT ![r] = "sent"]
    /\ waiting' = IF Attached THEN waiting \union {r} ELSE waiting
    /\ UNCHANGED <<handler, recorded, pageAt, taken, atReturn, pulls>>

\* onResponse begins: its listener is one that stop() does not take off.
ResponseComes(r) ==
    /\ BrowserOpen /\ request[r] = "sent"
    /\ request' = [request EXCEPT ![r] = "answered"]
    /\ waiting' = waiting \ {r}
    /\ handler' = [handler EXCEPT ![r] = "headers"]
    /\ UNCHANGED <<recorded, pageAt, taken, atReturn, pulls>>

\* Its headers have come, or those the event had are taken.
HeadersRead(r) ==
    /\ handler[r] = "headers"
    /\ handler' = [handler EXCEPT ![r] = "body"]
    /\ UNCHANGED <<request, waiting, recorded, pageAt, taken, atReturn, pulls>>

\* The body has come, or cannot be had, as when the browser is closed: then there is none.
ResponseRead(r) ==
    /\ handler[r] = "body"
    /\ \E hasBody \in {request[r] = "answered" /\ BrowserOpen, FALSE} :
          recorded' = Append(recorded, [id |-> <<r, "response">>, failed |-> FALSE, body |-> hasBody])
    /\ handler' = [handler EXCEPT ![r] = "done"]
    /\ UNCHANGED <<request, waiting, pageAt, taken, atReturn, pulls>>

FailureEntry(r) == [id |-> <<r, "failure">>, failed |-> TRUE, body |-> FALSE]

\* The slip of leaving a request that failed among those that are pending.
RequestFailsPending(r) ==
    /\ BrowserOpen /\ request[r] \in {"sent", "answered"}
    /\ request' = [request EXCEPT ![r] = "failed"]
    /\ recorded' = IF Attached THEN Append(recorded, FailureEntry(r)) ELSE recorded
    /\ UNCHANGED <<handler, waiting, pageAt, taken, atReturn, pulls>>

\* onFailed.
RequestFails(r) ==
    /\ BrowserOpen /\ request[r] \in {"sent", "answered"}
    /\ request' = [request EXCEPT ![r] = "failed"]
    /\ waiting' = IF Attached THEN waiting \ {r} ELSE waiting
    /\ recorded' = IF Attached THEN Append(recorded, FailureEntry(r)) ELSE recorded
    /\ UNCHANGED <<handler, pageAt, taken, atReturn, pulls>>

\* The page is as far as waitUntil says, and its title is read; or goto throws.
GotoSettles ==
    /\ pageAt = "loading" /\ pageAt' \in {"stopped", "failed"}
    /\ UNCHANGED <<request, handler, waiting, recorded, taken, atReturn, pulls>>

\* add(): entries that are not there yet.
Add(list) ==
    LET added[n \in 0..Len(list)] ==
            IF n = 0 THEN taken
            ELSE LET before == added[n - 1]
                 IN  IF \E k \in DOMAIN before : before[k].id = list[n].id THEN before
                     ELSE Append(before, list[n])
    IN  taken' = added[Len(list)]

\* The browser is closed, capture() returns, and fromPlaywright adds what there is by then.
CaptureReturns ==
    /\ pageAt = "stopped" /\ pageAt' = "closed"
    /\ Add(recorded) /\ atReturn' = Len(recorded)
    /\ UNCHANGED <<request, handler, waiting, recorded, pulls>>

\* pull() with a controller that is attached, or clear(), by the caller.
Pull ==
    /\ pulls < MaxPulls /\ pulls' = pulls + 1
    /\ Add(recorded) \/ taken' = <<>>
    /\ UNCHANGED <<request, handler, waiting, recorded, pageAt, atReturn>>

PlayNext ==
    \/ \E r \in PageRequests : \/ RequestSent(r) \/ ResponseComes(r) \/ RequestFails(r)
                           \/ HeadersRead(r) \/ ResponseRead(r)
    \/ GotoSettles \/ CaptureReturns \/ Pull

-----------------------------------------------------------------------------
\* An entry as HAR, and back.  fromCache is written as an object the import does not read.
ToHar(e) ==
    [status |-> e.status, text |-> e.body, error |-> IF e.failed THEN e.error ELSE FALSE,
     redacted |-> e.secret]

FromHar(h) ==
    [status |-> h.status, body |-> h.text, error |-> h.error,
     failed |-> h.error \/ (h.status = 0 /\ h.text = NoBody),
     fromCache |-> h.status = 304, secret |-> h.redacted]

HarEntries ==
    [status: {0, 200, 304}, body: {NoBody, "text"}, error: BOOLEAN, failed: BOOLEAN,
     fromCache: BOOLEAN, secret: {"kept", "redacted"}]

\* What is made of a capture's own entries: failures have no status and no body, and an error.
Captured(e) ==
    /\ e.failed => e.status = 0 /\ e.body = NoBody /\ e.error
    /\ ~e.failed => e.status # 0 /\ ~e.error

-----------------------------------------------------------------------------
Ids(list) == {list[k].id : k \in DOMAIN list}

\* A request whose events were heard is pending, or being read, or has its entries, one for
\* its response and one for its failure, never of an event that did not come; the collection
\* has each once however often it is pulled, and after a capture all that were there when it
\* returned.  Saved as HAR and read again, an entry is what it was, but for a cache hit.
CapturedOnce ==
    /\ \A i, j \in DOMAIN recorded : i # j => recorded[i].id # recorded[j].id
    /\ \A i, j \in DOMAIN taken : i # j => taken[i].id # taken[j].id
    /\ Ids(taken) \subseteq Ids(recorded)
    /\ pageAt = "closed" /\ pulls = 0 => Len(taken) = atReturn
    /\ \A r \in PageRequests :
          /\ r \in waiting => request[r] = "sent" \/ ~Attached
          /\ <<r, "failure">> \in Ids(recorded) => request[r] = "failed"
          /\ request[r] = "answered" \/ handler[r] # "none" =>
                (<<r, "response">> \in Ids(recorded) <=> handler[r] = "done")
          /\ Attached /\ request[r] # "unsent" =>
                r \in waiting \/ handler[r] \in {"headers", "body"} \/ {<<r, "response">>, <<r, "failure">>} \intersect Ids(recorded) # {}
    /\ \A e \in HarEntries :
          Captured(e) => [FromHar(ToHar(e)) EXCEPT !.fromCache = e.fromCache] = e
=============================================================================
