-------------------------------- MODULE Retry --------------------------------
(***************************************************************************)
(* The retry policy of src/src/core/Retry.js, and the ways one attempt of  *)
(* Sengkrep._performRequest can end, one name for each class of errors the *)
(* policy, the breaker and the throttle tell apart:                        *)
(*                                                                         *)
(*   ok         a response that is accepted                                *)
(*   rejected   an error nobody retries (HTTP 404, SECURITY_BLOCKED)       *)
(*   canceled   CANCELED, by the caller's signal                           *)
(*   transient  NETWORK_ERROR, TRUNCATED_RESPONSE, or a status of retryOn  *)
(*   throttled  HTTP 429 or 503, perhaps with a Retry-After                *)
(*   timeout    TIMEOUT                                                    *)
(***************************************************************************)
EXTENDS Integers

CONSTANT RetryMax   \* options.max

ASSUME RetryAssumption == RetryMax \in Nat

Outcomes == {"ok", "rejected", "canceled", "transient", "throttled", "timeout"}

\* The errors AdaptiveThrottle.onFailure is told about.
SlowDown == {"throttled", "timeout"}

\* _shouldRetry: retryCount attempts have failed with this one.
ShouldRetry(outcome, retryCount) ==
    /\ outcome \in {"transient", "throttled", "timeout"}
    /\ retryCount <= RetryMax
=============================================================================
