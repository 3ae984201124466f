---------------------------- MODULE CachedFetchMC ----------------------------
(* Constants for the model checking of CachedFetch: a request's body matters *)
(* to single flight and not to the cache.                                    *)
EXTENDS CachedFetch

CONSTANTS a, b   \* two URLs

Pages == {[url |-> a, body |-> None], [url |-> b, body |-> None]}

\* Single flight large enough without stale answers, and too small with them.
BothSetups == {[staleAllowed |-> FALSE, maxKeys |-> 2], [staleAllowed |-> TRUE, maxKeys |-> 1]}

\* Every fetch is answered, and flush() returns.
FetchesEnd == EveryFetchAnswered /\ FlushReturns

Posts == {[url |-> a, body |-> "one"], [url |-> a, body |-> "two"]}
=============================================================================
