----------------------------- MODULE Sessions -----------------------------
(***************************************************************************)
(* Sessions and their cookies, src/src/modules: the SessionPool that hands *)
(* sessions out in turn and recycles one that was used often enough, and   *)
(* the CookieJar of each, one bucket of cookies per site, the last two     *)
(* labels of a host's name; fetch() of src/src/core/Fetcher.js reads it    *)
(* for a request and writes to it what the answer sets.                    *)
(***************************************************************************)
EXTENDS Integers, Sequences, FiniteSets

CONSTANTS
    Users,              \* callers of next(), each with a session in hand
    PoolSize,
    Pools,              \* settings: [strategy, recycleAfter]
    Hosts, HostSite,    \* hosts, and their sites
    CookieLines,        \* Set-Cookie headers: [name, attributes]
    Forever,            \* no expiry
    MaxLog, MaxDay, MaxTurns    \* bounds: cookies set and jars emptied, days, calls of next()

ASSUME SessionsAssumption ==
    /\ PoolSize \in Nat \ {0} /\ Forever \notin Int
    /\ \A line \in CookieLines : line.attributes \in Seq([key: {"expires", "max-age"}, value: Int])

VARIABLES
    pool,
    sessions,         \* id -> [jar, useCount]; a jar: site -> name -> cookie
    cursor,
    inHand,           \* of each user the session it was given, 0 before the first
    day,              \* the clock; 0 is the day the dates begin with
    jarLog,           \* history: cookies set and jars emptied
    turns             \* history: of each session, how often it was handed out since a reset

sessionVars == <<pool, sessions, cursor, inHand, day, jarLog, turns>>

Ids == 1..PoolSize
Fresh == [jar |-> <<>>, useCount |-> 0]

SessionsInit ==
    /\ pool \in Pools
    /\ sessions = [id \in Ids |-> Fresh] /\ cursor = 0
    /\ inHand = [u \in Users |-> 0] /\ day = 1
    /\ jarLog = <<>> /\ turns = [id \in Ids |-> 0]

Emptied(id, sites) == [id |-> id, sites |-> sites, emptied |-> TRUE]

-----------------------------------------------------------------------------
\* _leastUsed: the first of those used least.
LeastUsed ==
    CHOOSE id \in Ids : \A i \in Ids :
        \/ sessions[id].useCount < sessions[i].useCount
        \/ sessions[id].useCount = sessions[i].useCount /\ id <= i

\* The slip of beginning to count anew with the old cookies.
RecycledCounting(session) == [session EXCEPT !.useCount = 0]

\* _recycle: whoever has the session in hand has the new jar, too.
Recycled(session) == Fresh

\* next
NextSession(u) ==
    LET inTurn == pool.strategy = "round-robin"
        id == IF inTurn THEN 1 + (cursor % PoolSize) ELSE LeastUsed
        used == [sessions[id] EXCEPT !.useCount = @ + 1]
        recycle == pool.recycleAfter # 0 /\ used.useCount >= pool.recycleAfter
    IN  /\ inHand' = [inHand EXCEPT ![u] = id]
        /\ cursor' = IF inTurn THEN cursor + 1 ELSE cursor
        /\ sessions' = [sessions EXCEPT ![id] = IF recycle THEN Recycled(used) ELSE used]
        /\ jarLog' = IF recycle THEN Append(jarLog, Emptied(id, {HostSite[h] : h \in Hosts})) ELSE jarLog
        /\ turns' = [turns EXCEPT ![id] = @ + 1]
        /\ UNCHANGED <<pool, day>>

-----------------------------------------------------------------------------
\* _parseSetCookie: the later of the expires and max-age attributes holds, and a date that
\* is 0 is taken for none.
Expires(line) ==
    IF line.attributes = <<>> THEN Forever
    ELSE LET attribute == line.attributes[Len(line.attributes)]
         IN  IF attribute.key = "max-age" THEN day + attribute.value
             ELSE IF attribute.value = 0 THEN Forever ELSE attribute.value

Bucket(id, host) ==
    LET jar == sessions[id].jar IN IF HostSite[host] \in DOMAIN jar THEN jar[HostSite[host]] ELSE <<>>

Outlived(cookie) == cookie.expires # Forever /\ cookie.expires < day

\* The cookies of the header that getCookieHeader makes.
Active(id, host) ==
    LET bucket == Bucket(id, host) IN [n \in {n \in DOMAIN bucket : ~Outlived(bucket[n])} |-> bucket[n]]

Refill(id, host, bucket) ==
    sessions' = [sessions EXCEPT ![id].jar =
                    [s \in DOMAIN @ \union {HostSite[host]} |-> IF s = HostSite[host] THEN bucket ELSE @[s]]]

\* A request reads the jar, which lets go of what is outlived.
Request(id, host) ==
    /\ \E u \in Users : inHand[u] = id
    /\ Bucket(id, host) # <<>> /\ Refill(id, host, Active(id, host))
    /\ UNCHANGED <<pool, cursor, inHand, day, jarLog, turns>>

\* setFromHeaders with the answer: neither the host nor the path of a cookie is looked at.
Answer(id, host, line) ==
    LET cookie == [value |-> Len(jarLog) + 1, expires |-> Expires(line)]
        bucket == Bucket(id, host)
    IN  /\ \E u \in Users : inHand[u] = id
        /\ Refill(id, host, [n \in DOMAIN bucket \union {line.name} |-> IF n = line.name THEN cookie ELSE bucket[n]])
        /\ jarLog' = Append(jarLog, [id |-> id, sites |-> {HostSite[host]}, emptied |-> FALSE, line |-> line, on |-> day])
        /\ UNCHANGED <<pool, cursor, inHand, day, turns>>

\* clear(hostname)
ClearJar(id, host) ==
    LET jar == sessions[id].jar
    IN  /\ HostSite[host] \in DOMAIN jar
        /\ sessions' = [sessions EXCEPT ![id].jar = [s \in DOMAIN jar \ {HostSite[host]} |-> jar[s]]]
        /\ jarLog' = Append(jarLog, Emptied(id, {HostSite[host]}))
        /\ UNCHANGED <<pool, cursor, inHand, day, turns>>

\* resetAll
ResetAll ==
    /\ \E id \in Ids : sessions[id].jar # <<>>
    /\ sessions' = [id \in Ids |-> Recycled(sessions[id])]
    /\ jarLog' = jarLog \o [id \in Ids |-> Emptied(id, {HostSite[h] : h \in Hosts})]
    /\ turns' = [id \in Ids |-> 0]
    /\ UNCHANGED <<pool, cursor, inHand, day>>

DayPasses == day' = day + 1 /\ UNCHANGED <<pool, sessions, cursor, inHand, jarLog, turns>>

TurnsTaken == LET sum[id \in 0..PoolSize] == IF id = 0 THEN 0 ELSE sum[id - 1] + turns[id] IN sum[PoolSize]

SessionsNext ==
    \/ TurnsTaken < MaxTurns /\ \E u \in Users : NextSession(u)
    \/ day < MaxDay /\ DayPasses
    \/ \E id \in Ids, host \in Hosts :
          \/ Request(id, host)
          \/ Len(jarLog) < MaxLog /\ (ClearJar(id, host) \/ \E line \in CookieLines : Answer(id, host, line))
    \/ Len(jarLog) < MaxLog /\ ResetAll

-----------------------------------------------------------------------------
\* Whether a cookie set then may still be sent.  A cookie deleted the usual way, with the
\* first date there is, is not deleted: 0 || null is no date, so it is kept for good.
Alive(set) ==
    \/ set.line.attributes = <<>>
    \/ LET attribute == set.line.attributes[Len(set.line.attributes)]
       IN  IF attribute.key = "max-age" THEN day <= set.on + attribute.value
           ELSE attribute.value = 0 \/ day <= attribute.value

\* A request of a session bears exactly the cookies that hosts of its site set last in this
\* session, and since it was last emptied, unless they have expired: never one of another
\* site, of another session, or of what the session was before it was recycled, even if its
\* user has had it in hand since.  And unless sessions are recycled by the least used, which
\* hands the recycled one out again and again, they take turns evenly.
SessionsApart ==
    /\ \A id \in Ids, host \in Hosts :
          LET here == {k \in DOMAIN jarLog : jarLog[k].id = id /\ HostSite[host] \in jarLog[k].sites}
              newest == {k \in here : /\ ~jarLog[k].emptied /\ Alive(jarLog[k])
                                      /\ \A j \in here : j > k => /\ ~jarLog[j].emptied
                                                                  /\ jarLog[j].line.name # jarLog[k].line.name}
              sent == Active(id, host)
          IN  /\ {sent[n].value : n \in DOMAIN sent} = newest
              /\ DOMAIN sent = {jarLog[k].line.name : k \in newest}
    /\ pool.strategy = "round-robin" \/ pool.recycleAfter = 0 =>
          \A id, i \in Ids : turns[id] <= turns[i] + 1
=============================================================================
