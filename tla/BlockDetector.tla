---------------------------- MODULE BlockDetector ----------------------------
(***************************************************************************)
(* The verdict on a response, src/src/modules/BlockDetector.js.  A response *)
(* is its status, the hits of each vendor's patterns in its headers, body  *)
(* and cookies, and the number of generic markers in its body.             *)
(***************************************************************************)
EXTENDS Naturals, Sequences, FiniteSets

CONSTANTS
    Vendors,        \* a sequence of [weight, retryable]
    MinConfidence   \* 0 (none) to 3 (high)

Statuses == {401, 403, 405, 406, 409, 418, 429, 451, 500, 502, 503, 520, 521, 522, 523, 524}
Suspicious(response) == response.status \in Statuses

Score(v, response) ==
    LET hits == response.hits[v]
        score == (IF hits.header THEN Vendors[v].weight ELSE 0) + 2 * hits.body + hits.cookies
    IN  IF Suspicious(response) /\ score > 0 THEN score + 1 ELSE score

\* The vendors of the highest score, of which the loop of detect keeps the first.
Best(response) ==
    {v \in DOMAIN Vendors : Score(v, response) > 0
        /\ \A u \in DOMAIN Vendors : Score(u, response) <= Score(v, response)}
First(S) == CHOOSE v \in S : \A u \in S : v <= u

Confidence(score) == IF score >= 4 THEN 3 ELSE IF score >= 2 THEN 2 ELSE 1

BlockedBy(score, retryable) ==
    [blocked |-> Confidence(score) >= MinConfidence, retryable |-> retryable]

\* detect and _verdict: by vendor; by the generic markers, of which a status alone is none.
Detect(response) ==
    IF Best(response) # {}
    THEN LET v == First(Best(response)) IN BlockedBy(Score(v, response), Vendors[v].retryable)
    ELSE IF response.markers = 0
    THEN [blocked |-> FALSE,
          retryable |-> Suspicious(response) /\ (response.status = 429 \/ response.status >= 500)]
    ELSE BlockedBy(response.markers + (IF Suspicious(response) THEN 1 ELSE 0), TRUE)
=============================================================================
