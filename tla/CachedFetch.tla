----------------------------- MODULE CachedFetch -----------------------------
(***************************************************************************)
(* Sengkrep._fetch around _performRequest: the cache, single flight        *)
(* (src/src/modules/SingleFlight.js), background revalidation and flush(). *)
(* _performRequest itself is one job here, which the server answers and    *)
(* the program completes later, or which fails; RequestPipeline opens it.  *)
(*                                                                         *)
(* The server's content has a version that only grows, so two answers can  *)
(* be told old and new.                                                    *)
(***************************************************************************)
EXTENDS Cache, FiniteSets

CONSTANTS
    Calls,         \* the concurrent callers of _fetch, each one call after the other
    Requests,      \* what they ask for, records [url, body] of one method
    Setups,        \* the configurations to consider, see below
    None,          \* no body, no answer, nobody flushing
    MaxVersion     \* bound: how often the server's content changes, plus one

\* Who makes the requests that _revalidate starts.
Refresh == "refresh"

ASSUME FetchAssumption ==
    /\ IsFiniteSet(Requests) /\ Requests # {}
    /\ \A r \in Requests : DOMAIN r = {"url", "body"}
    /\ Refresh \notin Calls
    /\ Setups \subseteq [staleAllowed: BOOLEAN, maxKeys: Nat]
    /\ MaxVersion \in Nat \ {0}

VARIABLES
    setup,          \* cache.staleWhileRevalidate and singleFlight.maxKeys, 0 when that is off
    mem,            \* the cache's entries
    revalidating,   \* the cache keys being refreshed (Cache._revalidating)
    flights,        \* flight key |-> the call that leads it (SingleFlight._flights)
    jobs,           \* the _performRequest invocations under way
    pc, wish, leader,   \* of each call: place, request, whose flight it is on
    answer,         \* the request whose response the call returned; None when it threw
    awaited,        \* the refreshes flush() waits for, None when nobody flushes
    version         \* of the server's content

vars == <<setup, mem, revalidating, flights, jobs, pc, wish, leader,
          answer, awaited, version>>

\* Cache._key(url, method).
CacheKey(r) == r.url

\* The slip of building the flight key of the method and the body only.
FlightKeyNoUrl(r) == r.body

\* SingleFlight.key(method, url, body).
FlightKey(r) == r

CacheKeys == {CacheKey(r) : r \in Requests}

Versions == 1..MaxVersion
NoReply == 0

\* A response: the request it answers and the version of the content.
Responses == [req: Requests, version: Versions]

\* Types; the cache holds a key once and never more entries than maxItems.
TypeOK ==
    /\ setup \in Setups
    /\ mem \in Seq([key: CacheKeys, age: 0..MaxAge, data: Responses])
    /\ Len(mem) <= MaxItems
    /\ \A i, j \in DOMAIN mem : mem[i].key = mem[j].key => i = j
    /\ revalidating \subseteq CacheKeys
    /\ DOMAIN flights \subseteq Requests /\ flights \in [DOMAIN flights -> Calls]
    /\ jobs \subseteq [by: Calls \union {Refresh}, req: Requests,
                       reply: Versions \union {NoReply}]
    /\ pc \in [Calls -> {"idle", "leading", "joined"}]
    /\ wish \in [Calls -> Requests] /\ leader \in [Calls -> Calls]
    /\ answer \in [Calls -> Requests \union {None}]
    /\ (awaited # None => awaited \subseteq CacheKeys)
    /\ version \in Versions

Init ==
    /\ setup \in Setups
    /\ mem = <<>> /\ revalidating = {} /\ flights = << >> /\ jobs = {}
    /\ pc = [c \in Calls |-> "idle"]
    /\ wish = [c \in Calls |-> CHOOSE r \in Requests : TRUE]
    /\ leader = [c \in Calls |-> c]
    /\ answer = [c \in Calls |-> None]
    /\ awaited = None
    /\ version = 1

-----------------------------------------------------------------------------
\* The slip of refreshing whatever beginRevalidate answers.
RefreshAnyway(r) ==
    /\ revalidating' = revalidating \union {CacheKey(r)}
    /\ jobs' = jobs \union {[by |-> Refresh, req |-> r, reply |-> NoReply]}

\* _revalidate: one refresh per key, as long as beginRevalidate says so.
BeginRefresh(r) ==
    IF CacheKey(r) \in revalidating
    THEN UNCHANGED <<revalidating, jobs>>
    ELSE /\ revalidating' = revalidating \union {CacheKey(r)}
         /\ jobs' = jobs \union {[by |-> Refresh, req |-> r, reply |-> NoReply]}

\* The cache answers at once, with a refresh in the background if the entry is stale.
FromCache(c, r) ==
    LET found == Freshness(mem, CacheKey(r), setup.staleAllowed)
    IN  /\ found \in {"hit", "stale"}
        /\ answer' = [answer EXCEPT ![c] = EntryFor(mem, CacheKey(r)).data.req]
        /\ IF found = "stale" THEN BeginRefresh(r) ELSE UNCHANGED <<revalidating, jobs>>
        /\ UNCHANGED <<flights, pc, leader>>

\* SingleFlight.run finds the request under way.
Join(c, r) ==
    /\ Freshness(mem, CacheKey(r), setup.staleAllowed) = "miss"
    /\ FlightKey(r) \in DOMAIN flights
    /\ leader' = [leader EXCEPT ![c] = flights[FlightKey(r)]]
    /\ pc' = [pc EXCEPT ![c] = "joined"]
    /\ answer' = [answer EXCEPT ![c] = None]
    /\ UNCHANGED <<flights, jobs, revalidating>>

\* The slip of turning requests away from the map one short of its limit.
RoomOneShort == Cardinality(DOMAIN flights) + 1 < setup.maxKeys

Room == Cardinality(DOMAIN flights) < setup.maxKeys

\* Nobody to join: the call makes the request, on a flight of its own unless single
\* flight is off or its map is full.
Lead(c, r) ==
    /\ Freshness(mem, CacheKey(r), setup.staleAllowed) = "miss"
    /\ FlightKey(r) \notin DOMAIN flights
    /\ jobs' = jobs \union {[by |-> c, req |-> r, reply |-> NoReply]}
    /\ flights' = IF Room
                  THEN [f \in DOMAIN flights \union {FlightKey(r)} |->
                          IF f = FlightKey(r) THEN c ELSE flights[f]]
                  ELSE flights
    /\ pc' = [pc EXCEPT ![c] = "leading"]
    /\ leader' = [leader EXCEPT ![c] = c]
    /\ answer' = [answer EXCEPT ![c] = None]
    /\ UNCHANGED revalidating

Fetch(c, r) ==
    /\ pc[c] = "idle"
    /\ wish' = [wish EXCEPT ![c] = r]
    /\ mem' = AfterLookup(mem, CacheKey(r), setup.staleAllowed)
    /\ FromCache(c, r) \/ Join(c, r) \/ Lead(c, r)
    /\ UNCHANGED <<setup, awaited, version>>

\* The server produces the response of a job; it reaches the program later.
ServerAnswers(job) ==
    /\ job.reply = NoReply
    /\ jobs' = (jobs \ {job}) \union {[job EXCEPT !.reply = version]}
    /\ UNCHANGED <<setup, mem, revalidating, flights, pc, wish, leader, answer, awaited,
                   version>>

\* The slip of leaving the flight in the map.
LandUntidy(job, result) ==
    LET party == {c \in Calls : pc[c] # "idle" /\ leader[c] = job.by}
    IN  /\ pc' = [c \in Calls |-> IF c \in party THEN "idle" ELSE pc[c]]
        /\ leader' = [c \in Calls |-> IF c \in party THEN c ELSE leader[c]]
        /\ answer' = [c \in Calls |-> IF c \in party THEN result ELSE answer[c]]
        /\ UNCHANGED flights

\* The slip of settling the leader's promise only.
LandAlone(job, result) ==
    /\ flights' = [f \in {g \in DOMAIN flights : flights[g] # job.by} |-> flights[f]]
    /\ pc' = [pc EXCEPT ![job.by] = "idle"]
    /\ answer' = [answer EXCEPT ![job.by] = result]
    /\ UNCHANGED leader

\* The finally of a flight, and every caller that awaited it.
Land(job, result) ==
    LET party == {c \in Calls : pc[c] # "idle" /\ leader[c] = job.by}
        mine == {f \in DOMAIN flights : flights[f] = job.by}
    IN  /\ flights' = [f \in DOMAIN flights \ mine |-> flights[f]]
        /\ pc' = [c \in Calls |-> IF c \in party THEN "idle" ELSE pc[c]]
        /\ leader' = [c \in Calls |-> IF c \in party THEN c ELSE leader[c]]
        /\ answer' = [c \in Calls |-> IF c \in party THEN result ELSE answer[c]]

\* The finally of a refresh: endRevalidate, and flush() has one less to wait for.
EndRefresh(job) ==
    /\ revalidating' = revalidating \ {CacheKey(job.req)}
    /\ awaited' = IF awaited = None THEN None ELSE awaited \ {CacheKey(job.req)}

Complete(job) ==
    LET result == [req |-> job.req, version |-> job.reply]
    IN  /\ job.reply # NoReply
        /\ mem' = Store(mem, CacheKey(job.req), result)
        /\ jobs' = jobs \ {job}
        /\ \/ /\ job.by = Refresh
              /\ EndRefresh(job)
              /\ UNCHANGED <<flights, pc, leader, answer>>
           \/ /\ job.by # Refresh
              /\ Land(job, job.req)
              /\ UNCHANGED <<revalidating, awaited>>
        /\ UNCHANGED <<setup, wish, version>>

\* _performRequest throws: the flight's callers share the error, a refresh keeps quiet
\* and leaves the stale entry where it is.
Fail(job) ==
    /\ jobs' = jobs \ {job}
    /\ \/ /\ job.by = Refresh
          /\ EndRefresh(job)
          /\ UNCHANGED <<flights, pc, leader, answer>>
       \/ /\ job.by # Refresh
          /\ Land(job, None)
          /\ UNCHANGED <<revalidating, awaited>>
    /\ UNCHANGED <<setup, mem, wish, version>>

\* flush(): wait for the refreshes under way now.
Flush ==
    /\ awaited = None
    /\ awaited' = revalidating
    /\ UNCHANGED <<setup, mem, revalidating, flights, jobs, pc, wish, leader, answer, version>>

FlushDone ==
    /\ awaited = {}
    /\ awaited' = None
    /\ UNCHANGED <<setup, mem, revalidating, flights, jobs, pc, wish, leader, answer, version>>

Tick ==
    /\ mem' = Age(mem)
    /\ UNCHANGED <<setup, revalidating, flights, jobs, pc, wish, leader, answer, awaited,
                   version>>

Publish ==
    /\ version < MaxVersion
    /\ version' = version + 1
    /\ UNCHANGED <<setup, mem, revalidating, flights, jobs, pc, wish, leader, answer, awaited>>

Advance(job) == ServerAnswers(job) \/ Complete(job) \/ Fail(job)

Next ==
    \/ \E c \in Calls, r \in Requests : Fetch(c, r)
    \/ \E job \in jobs : Advance(job)
    \/ Flush \/ FlushDone
    \/ Tick \/ Publish

\* Every request ends (Fetcher bounds it with its timeouts) and what its promise
\* settles runs.  Nobody has to fetch or flush, and the clock need not be fair.
Fairness ==
    /\ \A c \in Calls : WF_vars(\E job \in jobs : job.by = c /\ Advance(job))
    /\ \A key \in CacheKeys :
          WF_vars(\E job \in jobs : job.by = Refresh /\ CacheKey(job.req) = key /\ Advance(job))
    /\ WF_vars(FlushDone)

Spec == Init /\ [][Next]_vars /\ Fairness

-----------------------------------------------------------------------------
JobsOf(who) == {job \in jobs : job.by = who}

\* beginRevalidate and endRevalidate always pair up: a key is marked exactly while one
\* background refresh of it is under way, so an entry is never refreshed twice at once
\* and never left unrefreshable; and flush() waits for running refreshes only.
RefreshExclusive ==
    /\ \A key \in CacheKeys :
          Cardinality({job \in JobsOf(Refresh) : CacheKey(job.req) = key})
            = IF key \in revalidating THEN 1 ELSE 0
    /\ awaited # None => awaited \subseteq revalidating

\* Whoever waits on a flight waits on a request that is under way and is the one it
\* asked for; a flight in the map is led by a call that is still out; and identical
\* requests of two callers are out together only if the map was too small to tell.
FlightsAreLive ==
    /\ \A c \in Calls : pc[c] # "idle" =>
          \E job \in JobsOf(leader[c]) : FlightKey(job.req) = FlightKey(wish[c])
    /\ \A f \in DOMAIN flights : pc[flights[f]] = "leading" /\ FlightKey(wish[flights[f]]) = f
    /\ setup.maxKeys >= Cardinality(Requests) =>
          \A c, d \in Calls : pc[c] = "leading" /\ pc[d] = "leading"
                                  /\ FlightKey(wish[c]) = FlightKey(wish[d]) => c = d

\* The state is of its types, and nobody waits on a flight that is over.
FlightsSound == TypeOK /\ FlightsAreLive

\* A caller gets the response to the request it made, from the server, from another
\* caller's flight or from the cache.  (GET requests, where the URL is the request.)
AnswersItsOwnRequest ==
    \A c \in Calls : answer[c] # None => answer[c] = wish[c]

\* Without stale-while-revalidate, and with single flight for every request, an answer
\* that was overtaken on the way never replaces a newer one in the cache.
CacheNeverGoesBack ==
    [][~setup.staleAllowed /\ setup.maxKeys >= Cardinality(Requests) =>
         \A key \in Keys(mem) \intersect Keys(mem') :
             EntryFor(mem', key).data.version >= EntryFor(mem, key).data.version]_vars

\* Every call to _fetch returns, the followers of a flight too.
EveryFetchAnswered == \A c \in Calls : pc[c] # "idle" ~> pc[c] = "idle"

\* flush() returns, even when new refreshes keep being started behind it.
FlushReturns == awaited # None ~> awaited = None
=============================================================================
