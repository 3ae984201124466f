------------------------------ MODULE Transport ------------------------------
(***************************************************************************)
(* A call of Sengkrep._fetch as far as the network: the guard is asked of  *)
(* the URL, then src/src/core/Transport.js tries HTTP/2 where it may and   *)
(* HTTP/1.1 otherwise, or when HTTP/2 failed in a way it falls back on.    *)
(***************************************************************************)
EXTENDS Http2Fetcher

VARIABLES
    call,       \* how far the call is
    abortedAt   \* history: what had become of the call when its signal was aborted

transportVars == <<fetcherVars, h2Vars, call, abortedAt>>

ASSUME TransportAssumption == None # "pending"

\* HTTP/2 failed neither with a status nor with a terminal code.
FallsBack == call = "http2" /\ request.fallback /\ frames[1].promise = "other"

\* What the caller's promise is.
CallOutcome ==
    IF call = "http1" THEN IF hop.place \in {"ok", "failed"} THEN hop.place ELSE "pending"
    ELSE IF call = "http2" THEN IF frames[1].promise \in {"ok", "pending"} THEN frames[1].promise
                                ELSE IF FallsBack THEN "pending" ELSE "failed"
    ELSE IF call = "blocked" THEN "failed"
    ELSE IF call = "checking" THEN "pending" ELSE "none"

TransportTypeOK ==
    /\ FetcherTypeOK /\ Http2TypeOK
    /\ call \in {"idle", "checking", "blocked", "http2", "http1"}
    /\ abortedAt \in {None, "pending", "ok", "failed"}

TransportInit == FetcherInit /\ Http2Init /\ call = "idle" /\ abortedAt = None

-----------------------------------------------------------------------------
\* fetch() of a scraper; the guard may have to resolve the name.
Ask ==
    /\ call = "idle"
    /\ call' = "checking"
    /\ UNCHANGED <<fetcherVars, h2Vars, abortedAt>>

UsesHttp2 == request.http2 /\ ~request.proxy /\ request.url.https

\* The guard's verdict becomes the pin.
Checked ==
    /\ call = "checking"
    /\ \E verdict \in Verdicts(request.policy.guard, request.url) :
          \/ /\ verdict = Blocked /\ call' = "blocked"
             /\ UNCHANGED <<fetcherVars, h2Vars>>
          \/ /\ verdict # Blocked /\ UsesHttp2 /\ call' = "http2"
             /\ StartHttp2(verdict) /\ UNCHANGED fetcherVars
          \/ /\ verdict # Blocked /\ ~UsesHttp2 /\ call' = "http1"
             /\ StartFetch(verdict) /\ UNCHANGED h2Vars
    /\ UNCHANGED abortedAt

\* The other protocol is tried, from the first URL.
FallBack ==
    /\ FallsBack
    /\ call' = "http1"
    /\ StartFetch(frames[1].config.lookup)
    /\ UNCHANGED <<h2Vars, abortedAt>>

\* The caller aborts its signal, at any time.
AbortCall ==
    /\ call # "idle" /\ ~aborted
    /\ aborted' = TRUE
    /\ abortedAt' = CallOutcome
    /\ HopAborted /\ Aborted2
    /\ UNCHANGED <<request, body, file, dns, closed, sent, call>>

TransportNext ==
    \/ Ask \/ Checked \/ FallBack \/ AbortCall
    \/ call = "http2" /\ Http2Next /\ UNCHANGED <<fetcherVars, call, abortedAt>>
    \/ call = "http1" /\ FetcherNext /\ UNCHANGED <<h2Vars, call, abortedAt>>

\* What goes on by itself: the guard's answer, the fallback, timers, files.
CallStep ==
    \/ Checked \/ FallBack
    \/ call = "http2" /\ Timeout2(1) /\ UNCHANGED <<fetcherVars, call, abortedAt>>
    \/ /\ call = "http1" /\ (TimerFires \/ HopPrepared \/ FileOpens \/ Written)
       /\ UNCHANGED <<h2Vars, call, abortedAt>>

-----------------------------------------------------------------------------
\* The redirects of a call keep within its policy over both protocols: its hops and those
\* to another origin are counted, sensitive headers stay with the first origin, a body stays
\* with its method, and guarded hops connect to what was checked for their host.
HopsWithinPolicy == HopsWithinPolicy1 /\ Along(sent2)

\* An answer is whole, and is none to a call that was aborted before; what HTTP/2 ended by a
\* timeout, an abort or a status is not tried again over HTTP/1.1; files stay known.
AnswersHonest ==
    /\ AnswersWhole1
    /\ abortedAt = "pending" => CallOutcome # "ok"
    /\ sent # <<>> /\ sent2 # <<>> => frames[1].promise = "other"

\* A call settles once and never comes back, through hops, fallback, timers and aborts.
Caller == "caller"
Network == "network"
Calling == INSTANCE Outcome WITH
    Callers <- {Caller}, Connections <- {Network},
    open <- {Network},
    asked <- [c \in {Caller} |-> IF call = "idle" THEN None ELSE Network],
    outcome <- [c \in {Caller} |-> CallOutcome]
=============================================================================
