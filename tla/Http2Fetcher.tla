---------------------------- MODULE Http2Fetcher ----------------------------
(***************************************************************************)
(* A request over HTTP/2, src/src/core/Http2Fetcher.js, for the call that  *)
(* Fetcher describes.                                                      *)
(*                                                                         *)
(* A redirect is followed inside the listener of 'end', an async function: *)
(* the promise of the hop stays open, under its timer and its abort        *)
(* listener, while the listener awaits the guard and then the next hop.    *)
(* Hops are stacked up in frames, the first at the bottom.  What the       *)
(* listener awaits may reject: nobody catches that, and the promise of the *)
(* hop is left to its timer.  The listener goes on when its hop has been   *)
(* settled meanwhile.  Sessions are left out: getting one, or a stream on  *)
(* it, may fail, and a stream may fail at any time.                        *)
(***************************************************************************)
EXTENDS Fetcher

VARIABLES
    frames,      \* for each hop: url, config, its promise, its listener, where it redirects to
    cross2,      \* state.crossHostHops
    unhandled,   \* a rejection nobody handled
    sent2        \* history: the requests that left

h2Vars == <<frames, cross2, unhandled, sent2>>

\* How a hop may fail, as Transport tells errors apart: with a status, by the codes it
\* does not fall back on, and in all other ways.
Failures == {"status", "TIMEOUT", "CANCELED", "SECURITY_BLOCKED", "other"}
Promises == Failures \union {"pending", "ok"}

Http2TypeOK ==
    /\ Len(frames) <= MaxRedirects + 2
    /\ \A k \in DOMAIN frames :
          /\ frames[k].url \in Urls /\ frames[k].config \in Configs
          /\ frames[k].promise \in Promises
          /\ frames[k].listener \in {"streaming", "preparing", "awaiting", "over"}
    /\ cross2 \in 0..MaxCrossHostHops + 1
    /\ unhandled \in BOOLEAN
    /\ Len(sent2) <= MaxRedirects + 1

Http2Init == frames = <<>> /\ cross2 = 0 /\ unhandled = FALSE /\ sent2 = <<>>

-----------------------------------------------------------------------------
Top == Len(frames)
IsPending(k) == frames[k].promise = "pending"

\* The hops below k that are open and await the hop above them, down from k.
Awaiting(stack, k) ==
    {j \in 1..k : \A i \in j..k - 1 : stack[i].listener = "awaiting" /\ stack[i].promise = "pending"}

\* The stack after the promise of hop k is settled: what it fulfils is passed on to those
\* that await it, what it rejects ends the listener that awaits it.
Settle2(stack, k, promise) ==
    LET settled == IF promise = "ok" THEN Awaiting(stack, k) ELSE {k}
        resumed == {j \in 1..k - 1 : stack[j].listener = "awaiting" /\ j + 1 \in settled}
    IN  [j \in DOMAIN stack |->
            [stack[j] EXCEPT !.promise = IF j \in settled THEN promise ELSE @,
                             !.listener = IF j \in resumed THEN "over" ELSE @]]

\* Somebody's listener awaits the promise of hop k.
IsAwaited(k) == k > 1 /\ frames[k - 1].listener = "awaiting"

FailFrame(k, why) ==
    /\ IsPending(k)
    /\ frames' = Settle2(frames, k, why)
    /\ unhandled' = (unhandled \/ IsAwaited(k))

\* fetch(): the hop as its synchronous part leaves it, before a stream is there.
Frame(url, config) ==
    [url |-> url, config |-> config, promise |-> IF aborted THEN "CANCELED" ELSE "pending",
     listener |-> "streaming", target |-> None]

StartHttp2(pin) ==
    /\ frames = <<>>
    /\ frames' = <<Frame(request.url, [request.config EXCEPT !.lookup = pin])>>
    /\ UNCHANGED <<cross2, unhandled, sent2>>

\* The stream carries the request; the connection resolves its host by itself.
Streams ==
    /\ Top > 0 /\ IsPending(Top) /\ frames[Top].listener = "streaming" /\ Len(sent2) < Top
    /\ sent2' = Append(sent2, [url |-> frames[Top].url, config |-> frames[Top].config])
    /\ UNCHANGED <<frames, cross2, unhandled>>

Ended == Top > 0 /\ IsPending(Top) /\ frames[Top].listener = "streaming" /\ Len(sent2) = Top

\* 'end' of a response that is no redirect: an answer; a status of 400 and more that is not
\* allowed; a Location that is no URL, or a body that cannot be decompressed.
Answers ==
    /\ Ended
    /\ \E promise \in {"ok", "status", "other"} :
          /\ frames' = [Settle2(frames, Top, promise) EXCEPT ![Top].listener = "over"]
          /\ unhandled' = (unhandled \/ (promise # "ok" /\ IsAwaited(Top)))
    /\ UNCHANGED <<cross2, sent2>>

Crossed(next) == IF next = frames[Top].url THEN cross2 ELSE cross2 + 1

Redirects2(status, next) ==
    /\ Ended
    /\ cross2' = Crossed(next)
    /\ IF Crossed(next) > MaxCrossHostHops THEN FailFrame(Top, "status")
       ELSE /\ frames' = [frames EXCEPT ![Top].listener = "preparing",
                                        ![Top].target = [url |-> next, status |-> status]]
            /\ UNCHANGED unhandled
    /\ UNCHANGED sent2

\* The next hop is on top, unless it is one too many.
Pushed(stack, k, config) ==
    LET next == Frame(stack[k].target.url, config)
    IN  IF k > MaxRedirects THEN [next EXCEPT !.promise = "other"] ELSE next

\* The guard has answered.  A refusal rejects in the listener, and so does a next hop that
\* fails at once.
Prepared2 ==
    /\ Top > 0 /\ frames[Top].listener = "preparing"
    /\ \E verdict \in HopVerdicts(request.policy, frames[Top].target.url) :
          LET from == frames[Top]
              next == Pushed(frames, Top, PrepareRedirectHop(from.config, request.policy, from.url,
                                                             from.target.url, from.target.status, verdict))
              refused == verdict = Blocked \/ next.promise # "pending"
          IN  /\ frames' = IF refused THEN [frames EXCEPT ![Top].listener = "over"]
                           ELSE Append([frames EXCEPT ![Top].listener = "awaiting"], next)
              /\ unhandled' = (unhandled \/ refused)
    /\ UNCHANGED <<cross2, sent2>>

\* No session or no stream; a stream that is reset or cut.
StreamFails2 ==
    /\ Top > 0 /\ frames[Top].listener = "streaming"
    /\ FailFrame(Top, "other")
    /\ UNCHANGED <<cross2, sent2>>

\* The timers of the hops are of one length: the first to start is the first to fire.
Timeout2(k) ==
    /\ k \in DOMAIN frames /\ \A j \in 1..k - 1 : ~IsPending(j)
    /\ FailFrame(k, "TIMEOUT")
    /\ UNCHANGED <<cross2, sent2>>

\* What an abort does: the hops that are open reject, the first one first.
Aborted2 ==
    /\ frames' = [k \in DOMAIN frames |->
                     [frames[k] EXCEPT !.promise = IF IsPending(k) THEN "CANCELED" ELSE @,
                                       !.listener = IF @ = "awaiting" THEN "over" ELSE @]]
    /\ unhandled' = (unhandled \/ (\E k \in DOMAIN frames : IsPending(k) /\ IsAwaited(k)))
    /\ UNCHANGED <<cross2, sent2>>

Http2Next ==
    \/ Streams \/ Answers \/ Prepared2 \/ StreamFails2
    \/ \E status \in {"moved", "kept"}, next \in Urls : Redirects2(status, next)
    \/ \E k \in 1..MaxRedirects + 1 : Timeout2(k)
=============================================================================
