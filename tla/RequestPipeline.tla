--------------------------- MODULE RequestPipeline ---------------------------
(***************************************************************************)
(* The way of a request through Sengkrep._fetch and _performRequest        *)
(* (src/src/Sengkrep.js): circuit breaker, rate limiter, adaptive          *)
(* throttle, the request itself, the bookkeeping, the retry.  Several      *)
(* calls to one host are under way at once; JavaScript interleaves them    *)
(* at every await, and each action below is the code between two awaits.   *)
(*                                                                         *)
(* All the state of the three components is kept per hostname and no       *)
(* hostname touches another's, so one host is modelled.  There is no cache *)
(* and no singleFlight here: CachedFetch models those.                     *)
(***************************************************************************)
EXTENDS CircuitBreaker, RateLimiter, AdaptiveThrottle, Retry, FiniteSets

CONSTANTS
    Calls,        \* the calls the program makes, each once
    RetryAfters   \* values of a Retry-After header, in ticks; 0 for none

ASSUME PipelineAssumption ==
    /\ IsFiniteSet(Calls)
    /\ RetryAfters \subseteq Nat

VARIABLES
    breaker, limiter, throttle,   \* the host's entry in each component
    pc,        \* where each call is
    attempt,   \* the attempt number of each call, from 0
    retryIn    \* ticks until err.retryAt of the call's CircuitOpenError

vars == <<breaker, limiter, throttle, pc, attempt, retryIn>>

Places ==
    {"idle",                            \* not made yet
     "parked", "woken",                 \* in RateLimiter._waitForSlot
     "gated",                           \* in RateLimiter._gateInterval
     "waiting", "admitted",             \* in AdaptiveThrottle.acquire: parked, resumed
     "sent",                            \* delays, then the request to the server
     "backoff",                         \* in Retry.run, before the next attempt
     "done", "failed", "refused"}       \* settled

Settled == {"done", "failed", "refused"}

\* The calls between a successful acquire and the finally block that releases.
HoldsSlot(c) == pc[c] \in {"gated", "waiting", "admitted", "sent"}
HoldsPermit(c) == pc[c] = "sent"

\* Types; the throttle's limit and delay within their bounds, no attempt beyond RetryMax.
TypeOK ==
    /\ breaker \in Entry
    /\ limiter \in [active: Nat, slots: Seq(Calls), chain: Seq(Calls), spacing: 0..Interval]
    /\ throttle \in [concurrency: MinConcurrency..MaxConcurrency, active: Nat,
                     successes: 0..IncreaseEvery, delay: 0..MaxDelay, waiters: Seq(Calls)]
    /\ pc \in [Calls -> Places]
    /\ attempt \in [Calls -> 0..RetryMax]
    /\ retryIn \in [Calls -> 0..Cooldown]

Init ==
    /\ breaker = FreshEntry
    /\ limiter = FreshLimiter
    /\ throttle = FreshThrottle
    /\ pc = [c \in Calls |-> "idle"]
    /\ attempt = [c \in Calls |-> 0]
    /\ retryIn = [c \in Calls |-> 0]

-----------------------------------------------------------------------------
\* One turn of the loop of _waitForSlot.
TryForSlot(c) ==
    \/ /\ SlotFree(limiter)
       /\ limiter' = TakeSlot(limiter, c)
       /\ pc' = [pc EXCEPT ![c] = "gated"]
    \/ /\ ~SlotFree(limiter)
       /\ limiter' = Park(limiter, c)
       /\ pc' = [pc EXCEPT ![c] = "parked"]

\* One turn of the loop of AdaptiveThrottle.acquire.
TryForPermit(c) ==
    \/ /\ PermitFree(throttle)
       /\ throttle' = TakePermit(throttle)
       /\ pc' = [pc EXCEPT ![c] = "sent"]
    \/ /\ ~PermitFree(throttle)
       /\ throttle' = Wait(throttle, c)
       /\ pc' = [pc EXCEPT ![c] = "waiting"]

\* _fetch: assertCanRequest, and straight on into the first attempt.  A refused
\* caller may come back once err.retryAt is reached.
Fetch(c) ==
    /\ \/ pc[c] = "idle"
       \/ pc[c] = "refused" /\ retryIn[c] = 0
    /\ breaker' = TransitionIfDue(breaker)
    /\ \/ /\ CanRequest(breaker')
          /\ TryForSlot(c)
          /\ UNCHANGED retryIn
       \/ /\ ~CanRequest(breaker')
          /\ pc' = [pc EXCEPT ![c] = "refused"]
          /\ retryIn' = [retryIn EXCEPT ![c] = breaker'.cooling]
          /\ UNCHANGED limiter
    /\ UNCHANGED <<throttle, attempt>>

\* A caller whose parked promise was resolved runs on.
ResumeForSlot(c) ==
    /\ pc[c] = "woken"
    /\ TryForSlot(c)
    /\ UNCHANGED <<breaker, throttle, attempt, retryIn>>

\* The interval gate lets the head of the chain through, to the throttle.
LeaveGate(c) ==
    /\ pc[c] = "gated"
    /\ GateOpen(limiter, c)
    /\ limiter' = PassGate(limiter)
    /\ TryForPermit(c)
    /\ UNCHANGED <<breaker, attempt, retryIn>>

ResumeForPermit(c) ==
    /\ pc[c] = "admitted"
    /\ TryForPermit(c)
    /\ UNCHANGED <<breaker, limiter, attempt, retryIn>>

\* What the attempt's end does to the throttle, before the permit is given back.
Judge(outcome, retryAfter) ==
    CASE outcome = "ok" -> OnSuccess(throttle)
      [] outcome \in SlowDown -> OnFailure(throttle, retryAfter)
      [] OTHER -> throttle

\* Where the call goes: Retry.run may give up early on its time budget.
Verdict(outcome, failures, overBudget) ==
    CASE outcome = "ok" -> "done"
      [] ShouldRetry(outcome, failures) /\ ~overBudget -> "backoff"
      [] OTHER -> "failed"

\* The places after call c left for place, and the releases resolved these promises.
Moved(c, place, slotWoken, permitWoken) ==
    [d \in Calls |-> CASE d = c -> place
                       [] d \in slotWoken -> "woken"
                       [] d \in permitWoken -> "admitted"
                       [] OTHER -> pc[d]]

\* The attempt ends: bookkeeping, the finally block's releases, then Retry.run.
Settle(c, outcome, retryAfter, overBudget) ==
    LET place == Verdict(outcome, attempt[c] + 1, overBudget)
    IN  /\ pc[c] = "sent"
        /\ breaker' = IF outcome = "ok" THEN RecordSuccess(breaker) ELSE RecordFailure(breaker)
        /\ throttle' = ReleasePermit(Judge(outcome, retryAfter))
        /\ limiter' = ReleaseSlot(limiter)
        /\ pc' = Moved(c, place, SlotWoken(limiter), PermitWoken(throttle))
        /\ attempt' = IF place = "backoff" THEN [attempt EXCEPT ![c] = @ + 1] ELSE attempt
        /\ UNCHANGED retryIn

\* The backoff is over: the next attempt starts, and does not ask the breaker.
Retried(c) ==
    /\ pc[c] = "backoff"
    /\ TryForSlot(c)
    /\ UNCHANGED <<breaker, throttle, attempt, retryIn>>

Tick ==
    /\ breaker' = Elapse(breaker)
    /\ limiter' = GateElapse(limiter)
    /\ retryIn' = [c \in Calls |-> IF retryIn[c] > 0 THEN retryIn[c] - 1 ELSE 0]
    /\ UNCHANGED <<throttle, pc, attempt>>

-----------------------------------------------------------------------------
Respond(c) ==
    \E outcome \in Outcomes, overBudget \in BOOLEAN :
        \E retryAfter \in IF outcome = "throttled" THEN RetryAfters ELSE {0} :
            Settle(c, outcome, retryAfter, overBudget)

Next ==
    \/ \E c \in Calls : \/ Fetch(c) \/ ResumeForSlot(c) \/ LeaveGate(c)
                        \/ ResumeForPermit(c) \/ Respond(c) \/ Retried(c)
    \/ Tick

\* The event loop runs every resolved promise and every expired timer, and every
\* request ends: Fetcher bounds it with its timeouts.  Nobody has to make a call.
Fairness ==
    /\ WF_vars(Tick)
    /\ \A c \in Calls : /\ WF_vars(ResumeForSlot(c))
                        /\ WF_vars(LeaveGate(c))
                        /\ WF_vars(ResumeForPermit(c))
                        /\ WF_vars(Respond(c))
                        /\ WF_vars(Retried(c))

Spec == Init /\ [][Next]_vars /\ Fairness

-----------------------------------------------------------------------------
Holders == {c \in Calls : HoldsSlot(c)}
PermitHolders == {c \in Calls : HoldsPermit(c)}
At(place) == {c \in Calls : pc[c] = place}

\* Both counters are exactly the calls between acquire and finally, on every error
\* path too, so no attempt leaks a slot or gives one back twice; and the limiter's
\* never exceeds options.concurrency, however its callers are woken and overtaken.
SlotsAccounted ==
    /\ limiter.active = Cardinality(Holders)
    /\ limiter.active <= Concurrency
    /\ throttle.active = Cardinality(PermitHolders)

\* queue holds exactly the calls at place, each of them once.
Lists(queue, place) ==
    /\ {queue[i] : i \in DOMAIN queue} = At(place)
    /\ \A i, j \in DOMAIN queue : queue[i] = queue[j] => i = j

\* No wake-up is lost: a parked caller is in the queue a release takes from, and
\* while anybody is parked every free slot is spoken for by a woken caller.  The
\* throttle, whose limit moves, promises less: some caller holds a permit or is on
\* its way, so another release will come.
NobodyStranded ==
    /\ Lists(limiter.slots, "parked")
    /\ limiter.slots # <<>> => limiter.active + Cardinality(At("woken")) >= Concurrency
    /\ Lists(throttle.waiters, "waiting")
    /\ throttle.waiters # <<>> => throttle.active + Cardinality(At("admitted")) > 0

\* The breaker is closed exactly while fewer than threshold failures were recorded
\* since the last success, and only an open one has a cooldown to wait for; late
\* answers of calls admitted earlier do not get it into any other shape.
BreakerConsistent ==
    /\ breaker.state = "closed" <=> breaker.failures < Threshold
    /\ breaker.cooling > 0 => breaker.state = "open"

Admits(c) == pc[c] \in {"idle", "refused"} /\ pc'[c] \in {"gated", "parked"}

\* _fetch lets a call in only when the breaker is closed or has cooled down.
AdmissionRespectsCooldown ==
    [][\A c \in Calls : Admits(c) => breaker.state = "closed" \/ breaker.cooling = 0]_vars

\* A throttle that was cut back admits nobody until it is below its new limit.
ThrottleCutBackHolds ==
    [][throttle.active' > throttle.active => throttle.active' <= throttle.concurrency']_vars

\* Every call that was made is answered, refused or given up, however the slots, the
\* gate, the throttle and the backoffs of the others delay it.
EveryCallSettles == \A c \in Calls : pc[c] # "idle" ~> pc[c] \in Settled

\* What the README says of err.retryAt: the breaker tries again then.  A caller that
\* comes back at that time is let in.
RetryAtHonoured ==
    [][\A c \in Calls : pc[c] = "refused" /\ retryIn[c] = 0 /\ Fetch(c)
                            => pc'[c] # "refused"]_vars
=============================================================================
