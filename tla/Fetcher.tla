------------------------------- MODULE Fetcher -------------------------------
(***************************************************************************)
(* A request over HTTP/1.1 with its redirects, its timers, its abort       *)
(* signal and its body, src/src/core/Fetcher.js, through a proxy if there  *)
(* is one, src/src/core/ProxyTunnel.js, to an address from the pin, from   *)
(* DnsCache, src/src/modules/DnsCache.js, or from the system.              *)
(*                                                                         *)
(* Each hop is a promise of its own; finish() settles it once and stops    *)
(* its timers.  A hop that answers with a redirect is settled with the     *)
(* promise of the next, so that only one hop at a time can settle the      *)
(* call; while prepareRedirectHop asks the guard none of them runs.        *)
(* Timers have no clock: one that runs may fire.  A body comes in chunks   *)
(* of one size; interceptors and the decoding of text are left out.        *)
(***************************************************************************)
EXTENDS Redirect, Naturals, Sequences, FiniteSets

CONSTANTS
    Requests,           \* the calls to choose one from, see below
    ProxyHost,          \* the host of config.proxy
    Records,            \* Records[host]: what the name server answers DnsCache
    MaxRedirects, MaxCrossHostHops,
    MaxMemoryBuffer,    \* in chunks
    MaxChunks           \* bound: of a body

ASSUME FetcherAssumption ==
    /\ MaxRedirects \in Nat /\ MaxCrossHostHops \in Nat /\ MaxMemoryBuffer \in Nat /\ MaxChunks \in Nat
    /\ \A r \in Requests : /\ r.url \in Urls /\ r.config \in Configs
                           /\ r.policy.guard \in {"off", "names", "addresses"}
    /\ \A h \in Hosts \union {ProxyHost} : Records[h] \in Seq(Addresses[h]) /\ Records[h] # <<>>

VARIABLES
    request,   \* the call: where to, its config and its options
    hop,       \* the hop under way, and where it redirects to
    body,      \* what came of the body: chunks received, and whether it was complete
    file,      \* the file a large body goes to: its stream, whether it is in _tempFiles
    dns,       \* DnsCache: the addresses it holds for a host and the cursor
    aborted,   \* the caller's signal
    closed,    \* close() was called
    sent       \* history: the requests that left

hopVars == <<hop, body, file, dns, sent>>
fetcherVars == <<request, hopVars, aborted, closed>>

Pending == {"waiting", "body", "writing", "preparing"}
Listening == {"waiting", "body", "writing"}

FetcherTypeOK ==
    /\ request \in Requests
    /\ hop.place \in Pending \union {"none", "ok", "failed"}
    /\ hop.url \in Urls /\ hop.config \in Configs
    /\ hop.target \in [url: Urls, status: {"moved", "kept"}] \union {None}
    /\ hop.hops \in 0..MaxRedirects + 1 /\ hop.cross \in 0..MaxCrossHostHops + 1
    /\ body \in [got: 0..MaxChunks, complete: BOOLEAN]
    /\ file \in [stream: {"none", "opening", "open"}, tracked: BOOLEAN, onDisk: BOOLEAN]
    /\ dns \in [Hosts \union {ProxyHost} -> [held: BOOLEAN, cursor: Nat]]
    /\ aborted \in BOOLEAN /\ closed \in BOOLEAN
    /\ Len(sent) <= MaxRedirects + 1

NoBody == [got |-> 0, complete |-> FALSE]

FetcherInit ==
    /\ request \in Requests
    /\ hop = [place |-> "none", url |-> request.url, config |-> request.config, hops |-> 0, cross |-> 0,
              target |-> None]
    /\ body = NoBody
    /\ file = [stream |-> "none", tracked |-> FALSE, onDisk |-> FALSE]
    /\ dns = [h \in Hosts \union {ProxyHost} |-> [held |-> FALSE, cursor |-> 0]]
    /\ aborted = FALSE /\ closed = FALSE
    /\ sent = <<>>

-----------------------------------------------------------------------------
\* The slip of not looking whether the hop is settled.
FinishAgain(place) ==
    hop.place \in Listening \union {"ok"} /\ hop' = [hop EXCEPT !.place = place]

\* finish(): the first to come settles the hop.
Finish(place) == hop.place \in Listening /\ hop' = [hop EXCEPT !.place = place]

\* _rawFetch: the hop's place after its synchronous part.
RawFetch(url, config, hops, cross) ==
    [place |-> IF hops > MaxRedirects \/ aborted THEN "failed" ELSE "waiting",
     url |-> url, config |-> config, hops |-> hops, cross |-> cross, target |-> None]

\* fetch(): from the first URL, with what the guard said of it as the lookup.
StartFetch(pin) ==
    /\ hop.place = "none"
    /\ hop' = RawFetch(request.url, [request.config EXCEPT !.lookup = pin], 0, 0)
    /\ UNCHANGED <<request, body, file, dns, aborted, closed, sent>>

\* DnsCache.lookup with _pick: several addresses are taken in turns, and an entry that has
\* expired is resolved again.
Picked(host) ==
    LET addresses == Records[host]
    IN  addresses[(dns[host].cursor % Len(addresses)) + 1]

Turned(host) ==
    [dns EXCEPT ![host] = [held |-> TRUE,
                           cursor |-> IF Len(Records[host]) = 1 THEN @.cursor
                                      ELSE (@.cursor % Len(Records[host])) + 1]]

\* Whom the socket is opened to, and what that takes from the DNS cache: a tunnel opens its
\* socket itself, and a plain request has its host replaced by the proxy, not its lookup.
Tunnelled == request.proxy /\ hop.url.https
Peer == IF request.proxy THEN ProxyHost ELSE hop.url.host

Reaches(address) ==
    \/ Tunnelled /\ address \in Addresses[ProxyHost] /\ UNCHANGED dns
    \/ ~Tunnelled /\ hop.config.lookup # None /\ address = hop.config.lookup.address /\ UNCHANGED dns
    \/ /\ ~Tunnelled /\ hop.config.lookup = None /\ request.dnsCache
       /\ address = Picked(Peer) /\ dns' = Turned(Peer)
    \/ /\ ~Tunnelled /\ hop.config.lookup = None /\ ~request.dnsCache
       /\ address \in Addresses[Peer] /\ UNCHANGED dns

\* The request leaves, once its connection stands.
Connects ==
    /\ hop.place = "waiting" /\ Len(sent) = hop.hops
    /\ \E address \in UNION {Addresses[h] : h \in Hosts \union {ProxyHost}} :
          /\ Reaches(address)
          /\ sent' = Append(sent, [url |-> hop.url, config |-> hop.config, address |-> address])
    /\ UNCHANGED <<request, hop, body, file, aborted, closed>>

Responding == hop.place = "waiting" /\ Len(sent) = hop.hops + 1

\* The slip of counting the hops to another host anew on each hop.
CrossesAnew(next) == IF next = hop.url THEN 0 ELSE 1

\* state.crossHostHops, which all hops of a call share.
Crosses(next) == IF next = hop.url THEN hop.cross ELSE hop.cross + 1

\* A redirect with a Location: refused, or the hop is settled with what comes of the next.
Redirects(status, next) ==
    /\ Responding
    /\ IF Crosses(next) > MaxCrossHostHops THEN Finish("failed")
       ELSE hop' = [hop EXCEPT !.place = "preparing", !.cross = Crosses(next),
                               !.target = [url |-> next, status |-> status]]
    /\ UNCHANGED <<request, body, file, dns, aborted, closed, sent>>

\* The guard has answered: the next hop, or its error.
HopPrepared ==
    /\ hop.place = "preparing"
    /\ \E verdict \in HopVerdicts(request.policy, hop.target.url) :
          LET hopConfig == PrepareRedirectHop(hop.config, request.policy, hop.url, hop.target.url,
                                              hop.target.status, verdict)
          IN  hop' = IF verdict = Blocked THEN [hop EXCEPT !.place = "failed"]
                     ELSE RawFetch(hop.target.url, hopConfig, hop.hops + 1, hop.cross)
    /\ UNCHANGED <<request, body, file, dns, aborted, closed, sent>>

\* 304, whose body is left; a Location that is no URL; a status of 400 and more, unless
\* that is allowed; an encoding this build cannot read; and all others with their body.
Responds ==
    /\ Responding
    /\ \/ Finish("ok") /\ body' = [got |-> 0, complete |-> TRUE]
       \/ Finish("failed") /\ UNCHANGED body
       \/ Finish("body") /\ body' = NoBody
    /\ UNCHANGED <<request, file, dns, aborted, closed, sent>>

-----------------------------------------------------------------------------
\* A chunk; the one that is too much for the memory opens a file, once.
Chunk ==
    /\ hop.place = "body" /\ body.got < MaxChunks
    /\ body' = [body EXCEPT !.got = @ + 1]
    /\ file' = IF file.stream = "none" /\ body.got + 1 > MaxMemoryBuffer /\ ~request.bufferAll
               THEN [stream |-> "opening", tracked |-> TRUE, onDisk |-> FALSE]
               ELSE file
    /\ UNCHANGED <<request, hop, dns, aborted, closed, sent>>

\* The file is created by the operating system, whatever became of the hop.
FileOpens ==
    /\ file.stream = "opening"
    /\ file' = [file EXCEPT !.stream = "open", !.onDisk = TRUE]
    /\ UNCHANGED <<request, hop, body, dns, aborted, closed, sent>>

\* The consumer has all it will get: the answer waits for the file to be written.
Consumed == IF file.stream = "none" THEN Finish("ok") ELSE Finish("writing")

BodyEnds ==
    /\ hop.place = "body"
    /\ body' = [body EXCEPT !.complete = TRUE]
    /\ Consumed
    /\ UNCHANGED <<request, file, dns, aborted, closed, sent>>

\* The connection drops: what came is an answer only if the caller wants it.
BodyCut ==
    /\ hop.place = "body"
    /\ IF request.verifyLength THEN Finish("failed") ELSE Consumed
    /\ UNCHANGED <<request, body, file, dns, aborted, closed, sent>>

Written ==
    /\ hop.place = "writing" /\ file.stream = "open"
    /\ Finish("ok")
    /\ UNCHANGED <<request, body, file, dns, aborted, closed, sent>>

\* The error of a dropped connection, which res reports after 'aborted' and may be before
\* the file is written; and an error of the decompression.
StreamFails ==
    /\ \/ hop.place = "body"
       \/ hop.place = "writing" /\ ~body.complete
    /\ Finish("failed")
    /\ UNCHANGED <<request, body, file, dns, aborted, closed, sent>>

-----------------------------------------------------------------------------
\* The connect timer until a response is there; the idle timer of the socket and the timer
\* of totalTimeout, which each hop starts anew, until the hop is settled.
TimerFires ==
    /\ Finish("failed")
    /\ UNCHANGED <<request, body, file, dns, aborted, closed, sent>>

\* No connection, a proxy that refuses the tunnel, a name that does not resolve.
NetworkFails ==
    /\ hop.place = "waiting"
    /\ Finish("failed")
    /\ UNCHANGED <<request, body, file, dns, aborted, closed, sent>>

\* What an abort does to a hop: it is settled if it listens.
HopAborted == IF hop.place \in Listening THEN Finish("failed") ELSE UNCHANGED hop

\* close() removes the files that are known and on the disk, and forgets all of them; the
\* sockets of the agents it destroys fail as they may at any time.
CloseFetcher ==
    /\ ~closed
    /\ closed' = TRUE
    /\ file' = [file EXCEPT !.tracked = FALSE, !.onDisk = FALSE]
    /\ UNCHANGED <<request, hop, body, dns, aborted, sent>>

FetcherNext ==
    \/ Connects \/ HopPrepared \/ Responds \/ Chunk \/ FileOpens \/ BodyEnds \/ BodyCut
    \/ Written \/ StreamFails \/ TimerFires \/ NetworkFails \/ CloseFetcher
    \/ \E status \in {"moved", "kept"}, next \in Urls : Redirects(status, next)

-----------------------------------------------------------------------------
\* Along the way of a call: it is sent to no more hops than maxRedirects allows and crosses
\* origins no more often than maxCrossHostHops, counted over all of its hops; sensitive
\* headers never reach an origin after the first unless the policy forwards them; the body
\* goes only where the method it was given for goes; and where
\* each hop is guarded and no proxy stands between, it connects to an address that was
\* checked for its own host.
Along(trail) ==
    /\ Len(trail) <= MaxRedirects + 1
    /\ Cardinality({i \in 2..Len(trail) : trail[i].url # trail[i - 1].url}) <= MaxCrossHostHops
    /\ \A i \in DOMAIN trail :
          /\ trail[i].config.secret =>
                request.policy.forwardSensitiveHeaders \/ \A j \in 1..i : trail[j].url = request.url
          /\ trail[i].config.body => trail[i].config.method = request.config.method

HopsWithinPolicy1 ==
    /\ Along(sent)
    /\ request.policy.guard = "addresses" /\ request.policy.validateEachHop /\ ~request.proxy =>
          \A i \in DOMAIN sent : /\ sent[i].address \notin Private
                                 /\ sent[i].config.lookup.host = sent[i].url.host

\* A body that may not be cut short is complete when it is handed over; and a file on the
\* disk is one close() knows, or close() was there before it.
AnswersWhole1 ==
    /\ hop.place = "ok" /\ request.verifyLength => body.complete
    /\ file.onDisk => file.tracked \/ closed
=============================================================================
