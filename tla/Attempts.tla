------------------------------ MODULE Attempts ------------------------------
(***************************************************************************)
(* What the attempts of several calls share beside the network: the        *)
(* identity a site is visited under, src/src/modules/Identity.js, the      *)
(* proxies, ProxyRotator.js, and the token, AuthManager.js; with the       *)
(* verdicts of BlockDetector.js, as Sengkrep._performRequest uses them     *)
(* (src/src/Sengkrep.js:392).                                              *)
(*                                                                         *)
(* RequestPipeline models the slots, the breaker and the retries in time;  *)
(* here an attempt runs from its first line to its end, and a call is      *)
(* retried MaxTries times.  The server lets a token expire once.           *)
(***************************************************************************)
EXTENDS BlockDetector

CONSTANTS
    Clients,
    Site,          \* Site[client]: hostname and identitySession of its call
    Identities,    \* a sequence, and so are the
    Proxies,
    SiteHash, KeyHash,  \* what Identity and ProxyRotator make of a seed
    MaxFailures, MaxTries,
    Responses,     \* what servers answer, as BlockDetector sees it
    Options,       \* the scraper's options to choose from, see below
    Nothing        \* no identity, no proxy

VARIABLES
    options,    \* [rotation, strategy, mode, rotateOnBlock]
    client,     \* each call: its place, its attempt, and what the attempt has taken
    pool,       \* IdentityPool: who is assigned to a site, the next index
    rotator,    \* ProxyRotator: failures, sticky choices, the next index
    auth,       \* AuthManager: its token, whether it refreshes
    valid,      \* the token the server takes
    blame       \* history: the attempts that failed through a proxy since one succeeded

attemptVars == <<options, client, pool, rotator, auth, valid, blame>>

Elements(sequence) == {sequence[k] : k \in DOMAIN sequence}
Sites == {Site[c] : c \in Clients}

ASSUME AttemptsAssumption ==
    /\ MaxTries \in Nat
    /\ \A s \in {Identities, Proxies} :
          Len(s) \in Nat \ {0} /\ DOMAIN s = 1..Len(s) /\ Nothing \notin Elements(s)

Places2 == {"idle", "delaying", "requested", "refreshing", "resent", "backoff", "answered", "rejected"}

AttemptsTypeOK ==
    /\ options \in Options
    /\ client \in [Clients -> [place: Places2, try: 0..MaxTries, identity: Elements(Identities) \union {Nothing},
                               proxy: Elements(Proxies) \union {Nothing}, token: 0..1]]
    /\ pool.assigned \in [Sites -> Elements(Identities) \union {Nothing}]
    /\ rotator.failures \in [Elements(Proxies) -> Nat]
    /\ auth \in [token: 0..1, refreshing: BOOLEAN] /\ valid \in 0..1

AttemptsInit ==
    /\ options \in Options
    /\ client = [c \in Clients |-> [place |-> "idle", try |-> 0, identity |-> Nothing, proxy |-> Nothing,
                                    token |-> 0]]
    /\ pool = [assigned |-> [s \in Sites |-> Nothing], index |-> 0]
    /\ rotator = [failures |-> [p \in Elements(Proxies) |-> 0],
                  sticky |-> [s \in Sites |-> [i \in Elements(Identities) |-> Nothing]], index |-> 0]
    /\ auth = [token |-> 0, refreshing |-> FALSE] /\ valid = 0
    /\ blame = [p \in Elements(Proxies) |-> {}]

-----------------------------------------------------------------------------
Turn(sequence, index) == sequence[(index % Len(sequence)) + 1]
NextIndex(sequence, index) == (index + 1) % Len(sequence)

\* IdentityPool.get: whoever is assigned, or somebody by the rotation.
Choices(site) ==
    IF options.rotation = "random" THEN Elements(Identities)
    ELSE IF options.rotation = "round-robin" THEN {Turn(Identities, pool.index)}
    ELSE {Turn(Identities, SiteHash[site])}

Assigned(site, identity) ==
    [pool EXCEPT !.assigned[site] = identity,
                 !.index = IF options.rotation = "round-robin" THEN NextIndex(Identities, @) ELSE @]

GetIdentity(site, identity) ==
    IF pool.assigned[site] # Nothing THEN identity = pool.assigned[site] /\ UNCHANGED pool
    ELSE identity \in Choices(site) /\ pool' = Assigned(site, identity)

\* IdentityPool.rotate: the one after the present one.
Rotated(site) ==
    LET present == CHOOSE k \in DOMAIN Identities : Identities[k] = pool.assigned[site]
    IN  [pool EXCEPT !.assigned[site] = Turn(Identities, present)]

\* ProxyRotator._healthyPool, which is everybody when nobody is healthy.
Healthy(p) == rotator.failures[p] < MaxFailures

HealthyPool ==
    LET healthy == SelectSeq(Proxies, Healthy)
    IN  IF healthy = <<>> THEN Proxies ELSE healthy

\* A number of turns after which _index is as good as 0, for a pool of any size.
Turns ==
    LET product[n \in 0..Len(Proxies)] == IF n = 0 THEN 1 ELSE n * product[n - 1]
    IN  product[Len(Proxies)]

\* ProxyRotator.next.
NextProxy(site, identity, proxy) ==
    LET held == rotator.sticky[site][identity]
    IN  \/ /\ options.strategy = "sticky"
           /\ proxy = IF held \in Elements(HealthyPool) THEN held ELSE Turn(HealthyPool, KeyHash[identity])
           /\ rotator' = [rotator EXCEPT !.sticky[site][identity] = proxy]
        \/ /\ options.strategy = "random"
           /\ proxy \in Elements(HealthyPool)
           /\ UNCHANGED rotator
        \/ /\ options.strategy = "round-robin"
           /\ proxy = Turn(HealthyPool, rotator.index)
           /\ rotator' = [rotator EXCEPT !.index = (@ + 1) % Turns]

ReportFailure(p) == [rotator EXCEPT !.failures[p] = @ + 1]
ReportSuccess(p) == [rotator EXCEPT !.failures[p] = 0]

-----------------------------------------------------------------------------
Here(c, place) == client[c].place = place
Goes(c, place) == client' = [client EXCEPT ![c].place = place]

\* An attempt takes its identity and its proxy; it may then wait before it sends.
Attempt(c) ==
    /\ Here(c, "idle") \/ Here(c, "backoff")
    /\ \E identity \in Elements(Identities), proxy \in Elements(Proxies) :
          /\ GetIdentity(Site[c], identity)
          /\ NextProxy(Site[c], identity, proxy)
          /\ client' = [client EXCEPT ![c].place = "delaying", ![c].identity = identity, ![c].proxy = proxy]
    /\ UNCHANGED <<options, auth, valid, blame>>

\* The headers are built, with the token of this moment.
Request(c) ==
    /\ Here(c, "delaying")
    /\ client' = [client EXCEPT ![c].place = "requested", ![c].token = auth.token]
    /\ UNCHANGED <<options, pool, rotator, auth, valid, blame>>

ExpireToken ==
    /\ valid = 0 /\ valid' = 1
    /\ UNCHANGED <<options, client, pool, rotator, auth, blame>>

Asked(c) == Here(c, "requested") \/ Here(c, "resent")
TokenTaken(c) == client[c].token = valid

\* A 401 on the first request of an attempt is an error only without a detector, and starts
\* the refresh, or joins the one under way.
Refresh(c) ==
    /\ Here(c, "requested") /\ ~TokenTaken(c) /\ options.mode = "off"
    /\ auth' = [auth EXCEPT !.refreshing = TRUE]
    /\ Goes(c, "refreshing")
    /\ UNCHANGED <<options, pool, rotator, valid, blame>>

Refreshing == {c \in Clients : Here(c, "refreshing")}

\* The new token has come: whoever waited sends its request again, as it was built.
Refreshed ==
    /\ auth.refreshing
    /\ auth' = [token |-> valid, refreshing |-> FALSE]
    /\ client' = [c \in Clients |-> [client[c] EXCEPT !.place = IF c \in Refreshing THEN "resent" ELSE @]]
    /\ UNCHANGED <<options, pool, rotator, valid, blame>>

\* Where a failed attempt goes: Retry.run tries again while the error is one to retry.
Fallen(c, retryable) ==
    IF retryable /\ client[c].try < MaxTries
    THEN [client EXCEPT ![c].place = "backoff", ![c].try = @ + 1]
    ELSE [client EXCEPT ![c].place = "rejected"]

\* The refresh failed: each of those that waited fails with it.
RefreshFails ==
    /\ auth.refreshing
    /\ auth' = [auth EXCEPT !.refreshing = FALSE]
    /\ client' = [c \in Clients |-> [client[c] EXCEPT !.place = IF c \in Refreshing THEN "rejected" ELSE @]]
    /\ UNCHANGED <<options, pool, rotator, valid, blame>>

Blames(c) == blame' = [blame EXCEPT ![client[c].proxy] = @ \union {<<c, client[c].try>>}]

\* What the server may answer: a 401 to a token it does not take.
Answers2(c) == {r \in Responses : r.status = 401 <=> ~TokenTaken(c)}
IsBlock(response) == options.mode # "off" /\ Detect(response).blocked

\* An error other than a block: of the network, a redirect or an abort, or by a status, and
\* Retry tries it again or not; by the proxy's own error the proxy has failed.
Fails(c, proxyError) ==
    /\ Asked(c)
    /\ IF proxyError THEN rotator' = ReportFailure(client[c].proxy) /\ Blames(c)
       ELSE UNCHANGED <<rotator, blame>>
    /\ \E retryable \in BOOLEAN : (proxyError => ~retryable) /\ client' = Fallen(c, retryable)
    /\ UNCHANGED <<options, pool, auth, valid>>

\* The attempt got through: the proxy's failures are forgotten.
Succeeds(c) ==
    /\ Asked(c)
    /\ \E r \in Answers2(c) : r.status < 400 /\ ~IsBlock(r)
    /\ rotator' = ReportSuccess(client[c].proxy)
    /\ blame' = [blame EXCEPT ![client[c].proxy] = {}]
    /\ Goes(c, "answered")
    /\ UNCHANGED <<options, pool, auth, valid>>

\* The slip of blaming the proxy where the error is caught as well.
BlockedAndCaught(c) ==
    /\ Here(c, "requested") /\ options.mode \in {"throw", "retry"}
    /\ pool' = IF options.rotateOnBlock THEN Rotated(Site[c]) ELSE pool
    /\ rotator' = [rotator EXCEPT !.failures[client[c].proxy] = @ + 2]
    /\ Blames(c)
    /\ \E r \in Answers2(c) : IsBlock(r) /\ client' = Fallen(c, Detect(r).retryable)
    /\ UNCHANGED <<options, auth, valid>>

\* BlockDetector says the answer is a block: the site gets another identity and the proxy
\* a failure; the error that is thrown is not the proxy's.
BlockedAttempt(c) ==
    /\ Here(c, "requested") /\ options.mode \in {"throw", "retry"}
    /\ pool' = IF options.rotateOnBlock THEN Rotated(Site[c]) ELSE pool
    /\ rotator' = ReportFailure(client[c].proxy)
    /\ Blames(c)
    /\ \E r \in Answers2(c) : IsBlock(r) /\ client' = Fallen(c, Detect(r).retryable)
    /\ UNCHANGED <<options, auth, valid>>

\* Where blocks are only reported the answer counts as a success, of the proxy too.
BlockReported(c) ==
    /\ Here(c, "requested") /\ options.mode = "report"
    /\ \E r \in Answers2(c) : IsBlock(r)
    /\ pool' = IF options.rotateOnBlock THEN Rotated(Site[c]) ELSE pool
    /\ rotator' = ReportSuccess(client[c].proxy)
    /\ blame' = [blame EXCEPT ![client[c].proxy] = {}]
    /\ Goes(c, "answered")
    /\ UNCHANGED <<options, auth, valid>>

\* What a call that is under way does next, by itself or when the server answers.
AttemptStep(c) ==
    \/ Here(c, "backoff") /\ Attempt(c)
    \/ Request(c) \/ Refresh(c) \/ Succeeds(c) \/ BlockedAttempt(c) \/ BlockReported(c)
    \/ \E proxyError \in BOOLEAN : Fails(c, proxyError)

AttemptsNext ==
    \/ ExpireToken \/ Refreshed \/ RefreshFails
    \/ \E c \in Clients : (Here(c, "idle") /\ Attempt(c)) \/ AttemptStep(c)

-----------------------------------------------------------------------------
\* Calls wait for a new token exactly while one is being fetched, for all of them at once;
\* a proxy's count is that of the attempts which failed through it since one succeeded,
\* each counted once on whichever way it failed.
AttemptsAccounted ==
    /\ auth.refreshing <=> Refreshing # {}
    /\ \A p \in Elements(Proxies) : rotator.failures[p] = Cardinality(blame[p])

\* Every attempt ends, and with it every call: who waits for a token does not wait for ever.
AttemptsEnd ==
    \A c \in Clients : ~Here(c, "idle") ~> (Here(c, "answered") \/ Here(c, "rejected"))

\* What README says of a 401: the token is refreshed and the request retried once.  The
\* retry bears the token that was fetched for it.
ResendBearsTheNewToken ==
    [][\A c \in Clients : Here(c, "refreshing") /\ client'[c].place = "resent"
                              => client'[c].token = auth'.token]_attemptVars
=============================================================================
