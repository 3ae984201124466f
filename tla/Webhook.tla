------------------------------ MODULE Webhook ------------------------------
(***************************************************************************)
(* The deliveries of a Webhook, src/src/modules/Webhook.js.  extract() and *)
(* batch() fire events and do not wait, so deliveries overlap.  A delivery *)
(* is posted until it is answered with a status below 400, Retries + 1     *)
(* times at most; an answer may be lost or late, when the receiver has got *)
(* the event all the same.                                                 *)
(***************************************************************************)
EXTENDS Naturals, Sequences, FiniteSets

CONSTANTS
    Events,        \* the events, numbered in the order they are fired
    Configured,    \* those there is an URL for
    Retries

ASSUME WebhookAssumption == Events \subseteq Nat /\ Configured \subseteq Events /\ Retries \in Nat

VARIABLES
    deliveries,    \* of each event, where its delivery is, and the attempt it is at
    results,       \* the results kept
    arrivals       \* history: how often the receiver has got it

webhookVars == <<deliveries, results, arrivals>>

WebhookInit ==
    /\ deliveries = [e \in Events |-> [at |-> "unfired", attempt |-> 0]]
    /\ results = <<>> /\ arrivals = [e \in Events |-> 0]

GoesTo(e, place, attempt) == deliveries' = [deliveries EXCEPT ![e] = [at |-> place, attempt |-> attempt]]

\* fire: what there is no URL for is skipped.
Fires(e) ==
    /\ deliveries[e].at = "unfired" /\ \A d \in Events : d < e => deliveries[d].at # "unfired"
    /\ GoesTo(e, IF e \in Configured THEN "posting" ELSE "skipped", 0)
    /\ UNCHANGED <<results, arrivals>>

\* The receiver gets the request.
Arrives(e) ==
    /\ deliveries[e].at = "posting"
    /\ GoesTo(e, "received", deliveries[e].attempt)
    /\ arrivals' = [arrivals EXCEPT ![e] = @ + 1]
    /\ UNCHANGED results

\* It answers with a status below 400.
Accepted(e) ==
    /\ deliveries[e].at = "received"
    /\ results' = Append(results, [event |-> e, delivered |-> TRUE, attempts |-> deliveries[e].attempt + 1])
    /\ GoesTo(e, "over", deliveries[e].attempt)
    /\ UNCHANGED arrivals

\* A status from 400 on, a timeout, or an error before or after it has arrived: back off, or
\* give up.
Refused(e) ==
    /\ deliveries[e].at \in {"posting", "received"}
    /\ IF deliveries[e].attempt < Retries
       THEN GoesTo(e, "waiting", deliveries[e].attempt) /\ UNCHANGED results
       ELSE /\ GoesTo(e, "over", deliveries[e].attempt)
            /\ results' = Append(results, [event |-> e, delivered |-> FALSE, attempts |-> Retries + 1])
    /\ UNCHANGED arrivals

PostsAgain(e) ==
    /\ deliveries[e].at = "waiting"
    /\ GoesTo(e, "posting", deliveries[e].attempt + 1)
    /\ UNCHANGED <<results, arrivals>>

DeliveryStep(e) == Arrives(e) \/ Accepted(e) \/ Refused(e) \/ PostsAgain(e)

WebhookNext == \E e \in Events : Fires(e) \/ DeliveryStep(e)

-----------------------------------------------------------------------------
\* A delivery ends with one result.  One said to be delivered has arrived, and none arrives
\* more often than it was posted; one that is given up was posted as often as may be, and may
\* have arrived in spite of it.
DeliveriesTold ==
    \A e \in Configured :
       LET of == {k \in DOMAIN results : results[k].event = e}
       IN  /\ Cardinality(of) = (IF deliveries[e].at = "over" THEN 1 ELSE 0)
           /\ arrivals[e] <= deliveries[e].attempt + 1
           /\ \A k \in of :
                 /\ results[k].attempts = deliveries[e].attempt + 1 /\ results[k].attempts <= Retries + 1
                 /\ results[k].delivered => arrivals[e] > 0
                 /\ ~results[k].delivered => results[k].attempts = Retries + 1
=============================================================================
