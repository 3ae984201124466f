------------------------------ MODULE Redirect ------------------------------
(***************************************************************************)
(* What a redirect makes of a request, src/src/core/redirect.js, and whom  *)
(* SecurityGuard lets it go to, src/src/modules/SecurityGuard.js.          *)
(*                                                                         *)
(* A URL is a host and a scheme, which is what its origin is made of; the  *)
(* paths of an origin are all alike.  The parts of a request's config that *)
(* redirects touch are its method, whether it has a body, whether it       *)
(* carries sensitive headers, and its lookup: the pin of an address that   *)
(* was resolved for a host, or None.                                       *)
(***************************************************************************)
CONSTANTS
    Hosts,
    Addresses,      \* Addresses[host]: what the name may resolve to at any time
    BlockedHosts,   \* not in allowDomains, in blockDomains, or on a blocked port
    Private,        \* the addresses classifyIP has a label for
    None,
    Blocked,        \* the guard throws: a SecurityError, or a name that does not resolve
    Unasked         \* onRedirect answered undefined, or there is none

Urls == [host: Hosts, https: BOOLEAN]
Pins == UNION {[host: {h}, address: Addresses[h]] : h \in Hosts}
Configs == [method: {"GET", "POST"}, body: BOOLEAN, secret: BOOLEAN, lookup: Pins \union {None}]

ASSUME RedirectAssumption ==
    /\ None \notin Pins \union {Blocked, Unasked}
    /\ Blocked \notin Pins \union {Unasked} /\ Unasked \notin Pins

\* resolveForRequest: the ways it can end.  Only blockPrivateIPs resolves and pins; the
\* first address of the answer is the one that is checked and pinned.
Verdicts(guard, url) ==
    IF guard = "off" THEN {None}
    ELSE IF url.host \in BlockedHosts THEN {Blocked}
    ELSE IF guard = "names" THEN {None}
    ELSE {Blocked} \union {[host |-> url.host, address |-> a] : a \in Addresses[url.host] \ Private}

\* What onRedirect may answer for the next hop: _fetch gives the guard if there is one.
HopVerdicts(policy, url) ==
    IF policy.guard = "off" \/ ~policy.validateEachHop THEN {Unasked}
    ELSE Verdicts(policy.guard, url)

StripSensitiveHeaders(config) == [config EXCEPT !.secret = FALSE, !.lookup = None]

CrossingOrigins(config, policy) ==
    IF policy.forwardSensitiveHeaders THEN [config EXCEPT !.lookup = None]
    ELSE StripSensitiveHeaders(config)

BodyDropped(config, status) ==
    IF status = "moved" /\ config.method # "GET" THEN [config EXCEPT !.method = "GET", !.body = FALSE]
    ELSE config

\* prepareRedirectHop; status is "moved" (301, 302, 303) or "kept" (307, 308).
PrepareRedirectHop(config, policy, url, next, status, verdict) ==
    LET carried == IF url = next THEN config ELSE CrossingOrigins(config, policy)
        hopConfig == BodyDropped(carried, status)
    IN  IF verdict = Unasked THEN hopConfig ELSE [hopConfig EXCEPT !.lookup = verdict]
=============================================================================
