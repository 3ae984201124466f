-------------------------- MODULE AdaptiveThrottle --------------------------
(***************************************************************************)
(* The adaptive per-host concurrency of                                    *)
(* src/src/modules/AdaptiveThrottle.js, as functions of the host's state   *)
(* record.  successes is compared with increaseEvery only and saturates    *)
(* there; backoffs is a statistic nothing reads and is left out.           *)
(***************************************************************************)
EXTENDS Integers, Sequences

CONSTANTS
    MinConcurrency, MaxConcurrency, InitialConcurrency,
    IncreaseEvery,   \* successes in a row before one more request is let in
    BaseDelay, MaxDelay

ASSUME ThrottleAssumption ==
    /\ MinConcurrency \in Nat \ {0}
    /\ MaxConcurrency \in Nat /\ MaxConcurrency >= MinConcurrency
    /\ InitialConcurrency \in Nat
    /\ IncreaseEvery \in Nat \ {0}
    /\ BaseDelay \in Nat \ {0}
    /\ MaxDelay \in Nat

\* Math.min and Math.max of two numbers.
Least(a, b) == IF a <= b THEN a ELSE b
Greatest(a, b) == IF a >= b THEN a ELSE b

FreshThrottle ==
    [concurrency |-> Greatest(MinConcurrency, Least(MaxConcurrency, InitialConcurrency)),
     active |-> 0, successes |-> 0, delay |-> 0, waiters |-> <<>>]

\* The slip of letting one caller too many in.
PermitFreeOffByOne(throttle) == throttle.active <= throttle.concurrency

PermitFree(throttle) == throttle.active < throttle.concurrency

TakePermit(throttle) == [throttle EXCEPT !.active = @ + 1]

Wait(throttle, caller) == [throttle EXCEPT !.waiters = Append(@, caller)]

\* onSuccess: halve the delay; a full run of successes raises the concurrency.
OnSuccess(throttle) ==
    LET run == Least(IncreaseEvery, throttle.successes + 1)
        raise == run >= IncreaseEvery /\ throttle.concurrency < MaxConcurrency
    IN  [throttle EXCEPT !.delay = @ \div 2,
                         !.successes = IF raise THEN 0 ELSE run,
                         !.concurrency = IF raise THEN @ + 1 ELSE @]

\* The slip of halving the concurrency without a floor.
OnFailureNoFloor(throttle, retryAfter) ==
    [throttle EXCEPT !.successes = 0, !.concurrency = @ \div 2, !.delay = MaxDelay]

\* onFailure with backoffFactor 0.5: halve the concurrency, double the delay.
OnFailure(throttle, retryAfter) ==
    LET doubled == IF throttle.delay > 0 THEN throttle.delay * 2 ELSE BaseDelay
    IN  [throttle EXCEPT !.successes = 0,
                         !.concurrency = Greatest(MinConcurrency, @ \div 2),
                         !.delay = Least(MaxDelay, Greatest(retryAfter, doubled))]

\* The slip of taking a waiter off the list without resolving its promise.
NoPermitWoken(throttle) == {}

\* The caller _release resolves, as a set of at most one.
PermitWoken(throttle) == IF throttle.waiters = <<>> THEN {} ELSE {Head(throttle.waiters)}

ReleasePermit(throttle) ==
    [throttle EXCEPT !.active = IF @ > 0 THEN @ - 1 ELSE 0,
                     !.waiters = IF @ = <<>> THEN @ ELSE Tail(@)]
=============================================================================
