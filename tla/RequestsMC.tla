----------------------------- MODULE RequestsMC -----------------------------
(***************************************************************************)
(* The parts of a request: its admission and retries (RequestPipeline),    *)
(* what its attempts share (Attempts), and one call's way over the network *)
(* (Transport).  They share no state: a behaviour is one of one part,      *)
(* while the others stay as they are at first.                             *)
(***************************************************************************)
EXTENDS RequestPipeline, Transport, Attempts, TLC

CONSTANTS a, b, p, a1, a2, b1, p1, i1, i2, x1, x2, x

VARIABLE part

requestVars == <<part, vars, transportVars, attemptVars>>

Config(method, secret) == [method |-> method, body |-> method = "POST", secret |-> secret, lookup |-> None]
Url(host, https) == [host |-> host, https |-> https]
Policy(guard, each, forward) ==
    [guard |-> guard, validateEachHop |-> each, forwardSensitiveHeaders |-> forward]

Flags == {"proxy", "verifyLength", "bufferAll", "dnsCache", "http2", "fallback"}

MCRequests ==
    {[url |-> r[1], config |-> r[2], policy |-> r[3]] @@ [f \in Flags |-> f \in r[4]] : r \in
        {<<Url(a, TRUE), Config("GET", TRUE), Policy("addresses", TRUE, FALSE),
           {"verifyLength", "http2", "fallback"}>>,
         <<Url(a, FALSE), Config("POST", TRUE), Policy("names", TRUE, TRUE), {"dnsCache", "bufferAll"}>>,
         <<Url(a, TRUE), Config("POST", TRUE), Policy("off", TRUE, FALSE), {"proxy", "verifyLength"}>>,
         <<Url(b, FALSE), Config("GET", TRUE), Policy("addresses", TRUE, TRUE), {"proxy", "dnsCache"}>>,
         <<Url(b, TRUE), Config("POST", TRUE), Policy("addresses", FALSE, TRUE),
           {"http2", "verifyLength"}>>}}

MCAddresses == (a :> {a1, a2}) @@ (b :> {b1, a2}) @@ (p :> {p1})
MCRecords == (a :> <<a1, a2>>) @@ (b :> <<b1>>) @@ (p :> <<p1>>)

MCSite == [c \in Clients |-> x]
MCIdentities == <<i1, i2>>
MCProxies == <<x1, x2>>
MCSiteHash == (x :> 1)
MCKeyHash == (i1 :> 0) @@ (i2 :> 1)

MCOptions ==
    {[rotation |-> "sticky", strategy |-> "sticky", mode |-> "retry", rotateOnBlock |-> TRUE],
     [rotation |-> "round-robin", strategy |-> "round-robin", mode |-> "off", rotateOnBlock |-> FALSE],
     [rotation |-> "random", strategy |-> "random", mode |-> "report", rotateOnBlock |-> TRUE]}

MCVendors == <<[weight |-> 4, retryable |-> TRUE], [weight |-> 3, retryable |-> FALSE]>>
Sign(header, inBody, cookies) == [header |-> header, body |-> inBody, cookies |-> cookies]
Unsigned == Sign(FALSE, 0, 0)
Answer(status, one, other, markers) == [status |-> status, hits |-> <<one, other>>, markers |-> markers]

MCResponses ==
    {Answer(200, Unsigned, Unsigned, 0), Answer(404, Unsigned, Unsigned, 0), Answer(503, Unsigned, Unsigned, 0),
     Answer(401, Unsigned, Unsigned, 0), Answer(401, Unsigned, Sign(TRUE, 0, 0), 0),
     Answer(403, Sign(FALSE, 1, 1), Sign(TRUE, 0, 1), 0), Answer(200, Sign(FALSE, 0, 1), Unsigned, 0),
     Answer(200, Unsigned, Unsigned, 2)}

RequestsInit ==
    /\ part \in {"pipeline", "transport", "attempts"}
    /\ Init /\ TransportInit /\ AttemptsInit
    /\ part # "transport" => request.policy.guard = "off"
    /\ part # "attempts" => options.mode = "off"

InPipeline == part = "pipeline" /\ UNCHANGED <<part, transportVars, attemptVars>>
OnTheWire == part = "transport" /\ UNCHANGED <<part, vars, attemptVars>>
InAttempts == part = "attempts" /\ UNCHANGED <<part, vars, transportVars>>

RequestsNext ==
    \/ InPipeline /\ Next
    \/ OnTheWire /\ TransportNext
    \/ InAttempts /\ AttemptsNext

\* The fairness of RequestPipeline; names resolve, files open, a timer that runs fires in
\* the end, and so does the one of the first HTTP/2 hop; delays pass and servers answer.
RequestsSpec ==
    /\ RequestsInit /\ [][RequestsNext]_requestVars
    /\ WF_requestVars(InPipeline /\ Tick)
    /\ \A c \in Calls : /\ WF_requestVars(InPipeline /\ ResumeForSlot(c))
                        /\ WF_requestVars(InPipeline /\ LeaveGate(c))
                        /\ WF_requestVars(InPipeline /\ ResumeForPermit(c))
                        /\ WF_requestVars(InPipeline /\ Respond(c))
                        /\ WF_requestVars(InPipeline /\ Retried(c))
    /\ WF_requestVars(OnTheWire /\ CallStep)
    /\ WF_requestVars(InAttempts /\ (Refreshed \/ RefreshFails))
    /\ \A c \in Clients : WF_requestVars(InAttempts /\ AttemptStep(c))

-----------------------------------------------------------------------------
TypesOK == TypeOK /\ TransportTypeOK /\ AttemptsTypeOK

\* Redirects keep to the policy, and what a call is answered with is what the server said.
TransportHonest == HopsWithinPolicy /\ AnswersHonest

\* The caller's promise is what the abstract Outcome says.
CallSettlesOnce == Calling!Spec

\* Calls settle, and attempts end.
EveryRequestEnds == EveryCallSettles /\ AttemptsEnd
=============================================================================
