----------------------------- MODULE RateLimiter -----------------------------
(***************************************************************************)
(* The concurrency slots and the interval gate of one host,                *)
(* src/src/modules/RateLimiter.js, as functions of the limiter's state:    *)
(*                                                                         *)
(*   active   requests that hold a slot              (_active)             *)
(*   slots    callers parked on a promise, in order  (_slots)              *)
(*   chain    callers queued for the interval gate   (_chains)             *)
(*   spacing  clock ticks until the gate may open    (_lastRequest)        *)
(*                                                                         *)
(* A release resolves the first parked promise.  Its caller resumes in a   *)
(* later microtask and tests the loop condition again, so somebody else    *)
(* may have taken the slot by then: it is WOKEN, not admitted.             *)
(***************************************************************************)
EXTENDS Integers, Sequences

CONSTANTS
    Concurrency,   \* options.concurrency
    Interval       \* 1000 / options.requestsPerSecond, in clock ticks

ASSUME LimiterAssumption ==
    /\ Concurrency \in Nat \ {0}
    /\ Interval \in Nat

FreshLimiter == [active |-> 0, slots |-> <<>>, chain |-> <<>>, spacing |-> 0]

\* The slip of letting one caller too many in.
SlotFreeOffByOne(limiter) == limiter.active <= Concurrency

SlotFree(limiter) == limiter.active < Concurrency

\* The loop condition of _waitForSlot is false: take the slot, queue at the gate.
TakeSlot(limiter, caller) ==
    [limiter EXCEPT !.active = @ + 1, !.chain = Append(@, caller)]

Park(limiter, caller) == [limiter EXCEPT !.slots = Append(@, caller)]

\* The head of the chain finds minInterval elapsed and stamps _lastRequest.
GateOpen(limiter, caller) ==
    /\ limiter.chain # <<>>
    /\ Head(limiter.chain) = caller
    /\ limiter.spacing = 0

PassGate(limiter) == [limiter EXCEPT !.chain = Tail(@), !.spacing = Interval]

\* The slip of taking a caller off the list without resolving its promise.
NobodyWoken(limiter) == {}

\* The caller _releaseSlot resolves, as a set of at most one.
SlotWoken(limiter) == IF limiter.slots = <<>> THEN {} ELSE {Head(limiter.slots)}

ReleaseSlot(limiter) ==
    [limiter EXCEPT !.active = IF @ > 0 THEN @ - 1 ELSE 0,
                    !.slots = IF @ = <<>> THEN @ ELSE Tail(@)]

GateElapse(limiter) ==
    [limiter EXCEPT !.spacing = IF @ > 0 THEN @ - 1 ELSE 0]
=============================================================================
