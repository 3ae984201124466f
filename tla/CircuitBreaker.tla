--------------------------- MODULE CircuitBreaker ---------------------------
(***************************************************************************)
(* The per-host circuit breaker, src/src/modules/CircuitBreaker.js: the    *)
(* entry the class keeps for a key, and its methods as functions of that   *)
(* entry.  The state machine that calls them is RequestPipeline.           *)
(*                                                                         *)
(* Time is relative.  The code stores openedAt and compares                *)
(* now - openedAt with the cooldown; the model stores what is left of that *)
(* difference, cooling = max(0, openedAt + cooldown - now), which Elapse   *)
(* counts down.  failures is only ever compared with the threshold, so it  *)
(* saturates there.                                                        *)
(***************************************************************************)
EXTENDS Integers

CONSTANTS
    Threshold,            \* options.threshold
    Cooldown,             \* options.cooldown, in clock ticks
    HalfOpenMaxAttempts   \* options.halfOpenMaxAttempts

ASSUME BreakerAssumption ==
    /\ Threshold \in Nat \ {0}
    /\ Cooldown \in Nat \ {0}
    /\ HalfOpenMaxAttempts \in Nat \ {0}

BreakerStates == {"closed", "open", "half_open"}

Entry == [state: BreakerStates,
          failures: 0..Threshold,
          cooling: 0..Cooldown,
          halfOpenAttempts: 0..1]

FreshEntry == [state |-> "closed", failures |-> 0, cooling |-> 0, halfOpenAttempts |-> 0]

\* One clock tick: the time left of the cooldown shrinks.
Elapse(entry) ==
    [entry EXCEPT !.cooling = IF @ > 0 THEN @ - 1 ELSE 0]

\* The slip of leaving the cooldown out of the test below.
TransitionAtOnce(entry) ==
    IF entry.state = "open"
    THEN [entry EXCEPT !.state = "half_open", !.halfOpenAttempts = 0]
    ELSE entry

\* An open entry whose cooldown is over becomes half open when it is next read.
TransitionIfDue(entry) ==
    IF entry.state = "open" /\ entry.cooling = 0
    THEN [entry EXCEPT !.state = "half_open", !.halfOpenAttempts = 0]
    ELSE entry

\* The answer of canRequest, for an entry TransitionIfDue has been applied to.
CanRequest(entry) ==
    \/ entry.state = "closed"
    \/ entry.state = "half_open" /\ entry.halfOpenAttempts < HalfOpenMaxAttempts

\* The slip of closing without forgetting the failures.
CloseOnly(entry) == [entry EXCEPT !.state = "closed", !.cooling = 0]

\* A success, a late one too, closes the breaker and forgets everything.
RecordSuccess(entry) == FreshEntry

Trip(entry) == [entry EXCEPT !.state = "open", !.cooling = Cooldown]

\* A failed probe reopens at once; any other failure counts, and at the threshold
\* (re)starts the cooldown, of an entry that is open already too.
RecordFailure(entry) ==
    LET due == TransitionIfDue(entry)
        counted == [due EXCEPT !.failures = IF @ < Threshold THEN @ + 1 ELSE @]
    IN  IF due.state = "half_open"
        THEN Trip([due EXCEPT !.halfOpenAttempts = 1])
        ELSE IF counted.failures >= Threshold THEN Trip(counted) ELSE counted
=============================================================================
