-------------------------- MODULE CachedFetchProofs --------------------------
(***************************************************************************)
(* Theorems about CachedFetch, for any callers, requests, lifetimes, sizes *)
(* of the cache and of the single-flight map.                              *)
(***************************************************************************)
EXTENDS CachedFetch, TLAPS, FiniteSetTheorems, SequenceTheorems

EntryType == [key: CacheKeys, age: 0..MaxAge, data: Responses]

Entries(m) == {m[i] : i \in DOMAIN m}

\* A cache that holds a key once.
Cached(m) == m \in Seq(EntryType) /\ \A i, j \in DOMAIN m : m[i].key = m[j].key => i = j

-----------------------------------------------------------------------------
(* What the methods of the cache do to its entries. *)

\* A key that is there has one entry, and EntryFor returns it.
LEMMA TheEntry ==
    ASSUME NEW m, Cached(m), NEW key
    PROVE  /\ key \in Keys(m) => /\ Place(m, key) \in DOMAIN m
                                 /\ m[Place(m, key)].key = key
                                 /\ EntryFor(m, key) \in Entries(m)
                                 /\ EntryFor(m, key) \in EntryType
                                 /\ EntryFor(m, key).key = key
           /\ \A e \in Entries(m) : e.key = key => key \in Keys(m) /\ e = EntryFor(m, key)
<1> DEFINE p == Place(m, key)
<1>1. ASSUME key \in Keys(m) PROVE p \in DOMAIN m /\ m[p].key = key
  BY <1>1 DEF Keys, Place
<1> HIDE DEF p
<1>2. ASSUME NEW i \in DOMAIN m, m[i].key = key PROVE key \in Keys(m) /\ m[i] = m[p]
  <2>1. key \in Keys(m)
    BY <1>2 DEF Keys
  <2> QED
    BY <1>1, <1>2, <2>1 DEF Cached
<1>3. key \in Keys(m) => m[p] \in EntryType
  BY <1>1 DEF Cached
<1> QED
  BY <1>1, <1>2, <1>3 DEF Entries, EntryFor, p

\* Dropping a key takes its entry out and nothing else.
LEMMA Dropping ==
    ASSUME NEW m, Cached(m), NEW key
    PROVE  LET d == Drop(m, key) IN
           /\ Cached(d)
           /\ Entries(d) = {e \in Entries(m) : e.key # key}
           /\ key \notin Keys(d)
           /\ Len(d) \in Nat /\ Len(d) <= Len(m)
           /\ key \in Keys(m) => Len(d) = Len(m) - 1
<1>1. CASE key \notin Keys(m)
  <2>1. Drop(m, key) = m
    BY <1>1 DEF Drop
  <2>2. \A e \in Entries(m) : e.key # key
    BY <1>1 DEF Entries, Keys
  <2>3. Len(m) \in Nat
    BY DEF Cached
  <2> QED
    BY <1>1, <2>1, <2>2, <2>3
<1>2. CASE key \in Keys(m)
  <2> DEFINE p == Place(m, key)
             d == SubSeq(m, 1, p - 1) \o SubSeq(m, p + 1, Len(m))
             at(i) == IF i < p THEN i ELSE i + 1
  <2>1. p \in DOMAIN m /\ m[p].key = key /\ Drop(m, key) = d
    BY <1>2, TheEntry DEF Drop, RemoveAt
  <2> HIDE DEF p
  <2>2. m \in Seq(EntryType) /\ Len(m) \in Nat /\ p \in 1..Len(m) /\ DOMAIN m = 1..Len(m)
    BY <2>1 DEF Cached
  <2>3. /\ d \in Seq(EntryType) /\ Len(d) = Len(m) - 1
        /\ \A i \in 1..Len(d) : d[i] = m[at(i)]
    <3> DEFINE old == SubSeq(m, 1, p - 1)
               young == SubSeq(m, p + 1, Len(m))
    <3>1. /\ old \in Seq(EntryType) /\ Len(old) = p - 1
          /\ \A i \in 1..(p - 1) : old[i] = m[i]
      BY <2>2
    <3>2. /\ young \in Seq(EntryType) /\ Len(young) = Len(m) - p
          /\ \A i \in 1..(Len(m) - p) : young[i] = m[p + i]
      <4>1. \A i \in (p + 1)..Len(m) : m[i] \in EntryType
        BY <2>2
      <4>2. /\ young \in Seq(EntryType)
            /\ Len(young) = IF p + 1 <= Len(m) THEN Len(m) - (p + 1) + 1 ELSE 0
            /\ \A i \in 1..(Len(m) - (p + 1) + 1) : young[i] = m[p + 1 + i - 1]
        BY <2>2, <4>1, SubSeqProperties
      <4> HIDE DEF young
      <4>3. \A i \in 1..(Len(m) - p) : i \in 1..(Len(m) - (p + 1) + 1) /\ p + 1 + i - 1 = p + i
        BY <2>2
      <4>4. Len(young) = Len(m) - p
        <5>1. ASSUME NEW n \in Nat, NEW i \in 1..n
              PROVE  (IF i + 1 <= n THEN n - (i + 1) + 1 ELSE 0) = n - i
          BY <5>1
        <5> QED BY <2>2, <4>2, <5>1
      <4> QED BY <4>2, <4>3, <4>4
    <3> HIDE DEF old, young
    <3>3. /\ old \o young \in Seq(EntryType) /\ Len(old \o young) = Len(m) - 1
          /\ \A i \in 1..(Len(m) - 1) :
                (old \o young)[i] = IF i < p THEN old[i] ELSE young[i - p + 1]
      <4>1. /\ old \o young \in Seq(EntryType) /\ Len(old \o young) = Len(old) + Len(young)
            /\ \A i \in 1..(Len(old) + Len(young)) :
                  (old \o young)[i] = IF i <= Len(old) THEN old[i] ELSE young[i - Len(old)]
        BY <3>1, <3>2, ConcatProperties
      <4> QED BY <2>2, <3>1, <3>2, <4>1
    <3>4. \A i \in 1..(Len(m) - 1) : (old \o young)[i] = m[at(i)]
      BY <2>2, <3>1, <3>2, <3>3
    <3> QED
      BY <3>3, <3>4 DEF old, young
  <2> HIDE DEF d
  <2>4. /\ DOMAIN d = 1..(Len(m) - 1)
        /\ \A i \in DOMAIN d : at(i) \in DOMAIN m /\ at(i) # p /\ d[i] = m[at(i)]
        /\ \A i, j \in DOMAIN d : at(i) = at(j) => i = j
        /\ \A k \in DOMAIN m : k # p => \E i \in DOMAIN d : k = at(i)
    <3>1. DOMAIN d = 1..(Len(m) - 1)
      BY <2>2, <2>3
    <3>2. ASSUME NEW k \in DOMAIN m, k # p
          PROVE  \E i \in DOMAIN d : k = at(i)
      <4>1. CASE k < p
        BY <2>2, <3>1, <3>2, <4>1
      <4>2. CASE ~(k < p)
        <5>1. k - 1 \in DOMAIN d /\ k = at(k - 1)
          BY <2>2, <3>1, <3>2, <4>2
        <5> QED BY <5>1
      <4> QED BY <4>1, <4>2
    <3> QED
      BY <2>2, <2>3, <3>1, <3>2
  <2> HIDE DEF at
  <2>5. Cached(d)
    BY <2>3, <2>4 DEF Cached
  <2>6. \A k \in DOMAIN m : m[k].key = key <=> k = p
    BY <2>1 DEF Cached
  <2>7. Entries(d) = {e \in Entries(m) : e.key # key}
    BY <2>4, <2>6 DEF Entries
  <2>8. key \notin Keys(d)
    BY <2>4, <2>6 DEF Keys
  <2> QED
    BY <2>1, <2>2, <2>3, <2>5, <2>7, <2>8
<1> QED
  BY <1>1, <1>2

\* Appending an entry of a key that is not there adds it.
LEMMA Appending ==
    ASSUME NEW m, Cached(m), NEW e \in EntryType, e.key \notin Keys(m)
    PROVE  LET a == Append(m, e) IN
           Cached(a) /\ Entries(a) = Entries(m) \union {e} /\ Len(a) = Len(m) + 1
<1> DEFINE a == Append(m, e)
<1>1. /\ m \in Seq(EntryType) /\ Len(m) \in Nat /\ DOMAIN m = 1..Len(m)
      /\ a \in Seq(EntryType) /\ Len(a) = Len(m) + 1 /\ DOMAIN a = 1..(Len(m) + 1)
      /\ a[Len(m) + 1] = e /\ \A i \in DOMAIN m : a[i] = m[i]
  BY DEF Cached
<1> HIDE DEF a
<1>2. \A i \in DOMAIN a : i \in DOMAIN m \/ i = Len(m) + 1
  BY <1>1
<1>3. \A i \in DOMAIN m : i \in DOMAIN a
  BY <1>1
<1>4. Len(m) + 1 \in DOMAIN a
  BY <1>1
<1>5. \A i \in DOMAIN m : m[i].key # e.key
  BY DEF Keys
<1>6. Cached(a)
  BY <1>1, <1>2, <1>5 DEF Cached
<1>7. Entries(a) = Entries(m) \union {e}
  BY <1>1, <1>2, <1>3, <1>4 DEF Entries
<1> QED
  BY <1>1, <1>6, <1>7 DEF a

\* The eviction loop makes room for one more, and only takes entries out.
LEMMA Evicting ==
    ASSUME NEW m, Cached(m), Len(m) <= MaxItems
    PROVE  LET v == Evict(m) IN
           /\ Cached(v) /\ Entries(v) \subseteq Entries(m)
           /\ Len(v) \in Nat /\ Len(v) + 1 <= MaxItems
<1>0. /\ m \in Seq(EntryType) /\ Len(m) \in Nat /\ DOMAIN m = 1..Len(m)
      /\ MaxItems \in Nat \ {0}
  BY CacheAssumption DEF Cached
<1>1. CASE Len(m) < MaxItems
  BY <1>0, <1>1 DEF Evict
<1>2. CASE ~(Len(m) < MaxItems)
  <2> DEFINE v == SubSeq(m, 2, Len(m))
  <2>1. Len(m) = MaxItems /\ Evict(m) = v
    <3>1. Len(m) = MaxItems
      <4>1. ASSUME NEW n \in Nat, n <= MaxItems, ~(n < MaxItems) PROVE n = MaxItems
        BY <1>0, <4>1
      <4> QED BY <1>0, <1>2, <4>1
    <3>2. MaxItems - MaxItems + 2 = 2
      BY <1>0
    <3> QED BY <1>2, <3>1, <3>2 DEF Evict
  <2>2. /\ v \in Seq(EntryType) /\ Len(v) = Len(m) - 1 /\ DOMAIN v = 1..(Len(m) - 1)
        /\ \A i \in DOMAIN v : i + 1 \in DOMAIN m /\ v[i] = m[i + 1]
    BY <1>0, <1>2
  <2> HIDE DEF v
  <2>3. Cached(v)
    <3> SUFFICES ASSUME NEW i \in DOMAIN v, NEW j \in DOMAIN v, v[i].key = v[j].key
                 PROVE  i = j
      BY <2>2 DEF Cached
    <3>1. i + 1 = j + 1 /\ i \in Nat /\ j \in Nat
      BY <2>2, <1>0 DEF Cached
    <3> QED BY <3>1
  <2>4. Entries(v) \subseteq Entries(m)
    BY <2>2 DEF Entries
  <2> QED
    BY <1>0, <2>1, <2>2, <2>3, <2>4
<1> QED
  BY <1>1, <1>2

\* What a step may do to the cache: at most it adds fresh, or moves or takes out
\* what was there.
Sound(m) == Cached(m) /\ Len(m) \in Nat /\ Len(m) <= MaxItems

\* A lookup keeps the cache within its bounds, adds nothing, and on a miss the key is gone.
LEMMA LookingUp ==
    ASSUME NEW m, Sound(m), NEW key, NEW staleAllowed
    PROVE  LET after == AfterLookup(m, key, staleAllowed)
               found == Freshness(m, key, staleAllowed)
           IN  /\ Sound(after)
               /\ Entries(after) \subseteq Entries(m)
               /\ found # "miss" => key \in Keys(m)
               /\ found = "miss" => key \notin Keys(after)
               /\ found = "stale" => staleAllowed
<1> DEFINE found == Freshness(m, key, staleAllowed)
           d == Drop(m, key)
           e == EntryFor(m, key)
<1>1. /\ found # "miss" => key \in Keys(m)
      /\ found = "stale" => staleAllowed
  BY DEF Freshness
<1>2. /\ Cached(d) /\ Entries(d) = {x \in Entries(m) : x.key # key} /\ key \notin Keys(d)
      /\ Len(d) \in Nat /\ Len(d) <= Len(m)
      /\ key \in Keys(m) => Len(d) = Len(m) - 1
  BY Dropping DEF Sound
<1> HIDE DEF found, d
<1>3. MaxItems \in Nat /\ Len(m) \in Nat /\ Len(m) <= MaxItems
  BY CacheAssumption DEF Sound
<1>4. CASE found = "miss"
  <2>1. AfterLookup(m, key, staleAllowed) = d
    BY <1>4 DEF AfterLookup, found, d
  <2> QED
    BY <1>1, <1>2, <1>3, <1>4, <2>1 DEF found, Sound
<1>5. CASE found # "miss"
  <2>1. AfterLookup(m, key, staleAllowed) = Append(d, e)
    BY <1>5 DEF AfterLookup, found, d
  <2>2. e \in EntryType /\ e.key = key /\ e \in Entries(m)
    BY <1>1, <1>5, TheEntry DEF Sound
  <2> HIDE DEF e
  <2>3. /\ Cached(Append(d, e)) /\ Entries(Append(d, e)) = Entries(d) \union {e}
        /\ Len(Append(d, e)) = Len(d) + 1
    BY <1>2, <2>2, Appending
  <2>4. Len(Append(d, e)) \in Nat /\ Len(Append(d, e)) <= MaxItems
    BY <1>1, <1>2, <1>3, <1>5, <2>3
  <2> QED
    BY <1>1, <1>2, <1>5, <2>1, <2>2, <2>3, <2>4 DEF found, Sound
<1> QED
  BY <1>4, <1>5

\* Storing keeps the cache within its bounds and adds the new entry only.
LEMMA Storing ==
    ASSUME NEW m, Sound(m), NEW key \in CacheKeys, NEW data \in Responses
    PROVE  LET after == Store(m, key, data)
           IN  /\ Sound(after)
               /\ \A e \in Entries(after) : \/ e \in Entries(m) /\ e.key # key
                                            \/ e.key = key /\ e.data = data
<1> DEFINE d == Drop(m, key)
           v == Evict(d)
           e == [key |-> key, age |-> 0, data |-> data]
<1>0. MaxItems \in Nat /\ Len(m) \in Nat /\ Len(m) <= MaxItems /\ MaxAge \in Nat
  BY CacheAssumption DEF Sound, MaxAge
<1>1. /\ Cached(d) /\ Entries(d) = {x \in Entries(m) : x.key # key} /\ key \notin Keys(d)
      /\ Len(d) \in Nat /\ Len(d) <= MaxItems
  <2>1. LET f == Drop(m, key) IN
        /\ Cached(f) /\ Entries(f) = {x \in Entries(m) : x.key # key} /\ key \notin Keys(f)
        /\ Len(f) \in Nat /\ Len(f) <= Len(m)
    BY Dropping DEF Sound
  <2> HIDE DEF d
  <2> QED BY <1>0, <2>1 DEF d
<1> HIDE DEF d
<1>2. /\ Cached(v) /\ Entries(v) \subseteq Entries(d)
      /\ Len(v) \in Nat /\ Len(v) + 1 <= MaxItems
  BY <1>1, Evicting
<1> HIDE DEF v
<1>3. e \in EntryType /\ e.key = key /\ e.data = data
  BY <1>0 DEF EntryType
<1>4. key \notin Keys(v)
  BY <1>1, <1>2 DEF Keys, Entries
<1> HIDE DEF e
<1>5. /\ Cached(Append(v, e)) /\ Entries(Append(v, e)) = Entries(v) \union {e}
      /\ Len(Append(v, e)) = Len(v) + 1
  BY <1>2, <1>3, <1>4, Appending
<1>6. Store(m, key, data) = Append(v, e)
  BY DEF Store, d, v, e
<1>7. Len(Append(v, e)) \in Nat /\ Len(Append(v, e)) <= MaxItems
  BY <1>2, <1>5
<1> QED
  BY <1>1, <1>2, <1>3, <1>5, <1>6, <1>7 DEF Sound

\* Growing old changes no entry's key or data.
LEMMA Aging ==
    ASSUME NEW m, Sound(m)
    PROVE  LET after == Age(m)
           IN  /\ Sound(after)
               /\ \A e \in Entries(after) :
                     \E old \in Entries(m) : e.key = old.key /\ e.data = old.data
<1> DEFINE after == Age(m)
           older(e) == [e EXCEPT !.age = IF @ < MaxAge THEN @ + 1 ELSE @]
<1>0. MaxAge \in Nat
  BY CacheAssumption DEF MaxAge
<1>1. ASSUME NEW e \in EntryType
      PROVE  older(e) \in EntryType /\ older(e).key = e.key /\ older(e).data = e.data
  <2> DEFINE n == IF e.age < MaxAge THEN e.age + 1 ELSE e.age
  <2>1. n \in 0..MaxAge
    BY <1>0 DEF EntryType
  <2> HIDE DEF n
  <2>2. [e EXCEPT !.age = n] \in EntryType /\ [e EXCEPT !.age = n].key = e.key
        /\ [e EXCEPT !.age = n].data = e.data
    BY <2>1 DEF EntryType
  <2> QED BY <2>2 DEF n
<1>2. /\ m \in Seq(EntryType) /\ Len(m) \in Nat /\ DOMAIN m = 1..Len(m)
      /\ \A i \in DOMAIN m : m[i] \in EntryType
  BY DEF Sound, Cached
<1>3. after = [i \in DOMAIN m |-> older(m[i])]
  BY DEF Age
<1> HIDE DEF older, after
<1>4. /\ DOMAIN after = DOMAIN m
      /\ \A i \in DOMAIN m : /\ after[i] \in EntryType /\ after[i].key = m[i].key
                             /\ after[i].data = m[i].data
  BY <1>1, <1>2, <1>3
<1>5. after \in Seq(EntryType) /\ Len(after) = Len(m)
  BY <1>1, <1>2, <1>3
<1>6. Cached(after)
  BY <1>4, <1>5 DEF Cached, Sound
<1> QED
  BY <1>4, <1>5, <1>6 DEF Sound, Entries, after

-----------------------------------------------------------------------------
(* The inductive invariant: TypeOK, and five parts named below. *)

\* The single-flight map has room for every request the calls make.
RoomForAll == setup.maxKeys >= Cardinality(Requests)

\* What the cache is used for: a URL stands for one request, as it does for GET.
UrlTellsRequest == \A r, s \in Requests : CacheKey(r) = CacheKey(s) => r = s

\* A leading call has one job under way, for what it asked; nobody else has any.
LeadersWork ==
    /\ \A job \in jobs : job.by # Refresh => pc[job.by] = "leading" /\ job.req = wish[job.by]
    /\ \A job, other \in jobs : job.by # Refresh /\ job.by = other.by => job = other
    /\ \A c \in Calls : pc[c] = "leading" => \E job \in jobs : job.by = c

\* A call that joined is on the flight of a leader that asked for the same.
FollowersFollow ==
    \A c \in Calls : /\ pc[c] # "joined" => leader[c] = c
                     /\ pc[c] = "joined" => /\ pc[leader[c]] = "leading"
                                            /\ wish[leader[c]] = wish[c]

\* The map holds flights under way, and all of them if it is large enough.
MapIsTrue ==
    /\ \A f \in DOMAIN flights : pc[flights[f]] = "leading" /\ wish[flights[f]] = f
    /\ RoomForAll => \A c \in Calls : pc[c] = "leading" => /\ wish[c] \in DOMAIN flights
                                                           /\ flights[wish[c]] = c

\* One refresh per marked key and no other; flush() waits for marked keys.
RefreshesPaired ==
    /\ \A job \in jobs : job.by = Refresh => CacheKey(job.req) \in revalidating
    /\ \A job, other \in jobs :
          job.by = Refresh /\ other.by = Refresh /\ CacheKey(job.req) = CacheKey(other.req)
              => job = other
    /\ \A key \in revalidating : \E job \in jobs : job.by = Refresh /\ CacheKey(job.req) = key
    /\ awaited # None => awaited \subseteq revalidating

\* What is cached under a URL answers a request of that URL.
CacheIsTrue == \A e \in Entries(mem) : CacheKey(e.data.req) = e.key

\* Nothing is cached for what is being asked for.
OutIsNotCached ==
    ~setup.staleAllowed =>
        /\ \A job \in jobs : job.by # Refresh
        /\ RoomForAll /\ UrlTellsRequest => \A job \in jobs : CacheKey(job.req) \notin Keys(mem)

IInv ==
    /\ TypeOK
    /\ LeadersWork
    /\ FollowersFollow
    /\ MapIsTrue
    /\ RefreshesPaired
    /\ CacheIsTrue
    /\ OutIsNotCached
    /\ UrlTellsRequest => AnswersItsOwnRequest

-----------------------------------------------------------------------------
(* TypeOK, and what the proofs below read of it. *)

JobType == [by: Calls \union {Refresh}, req: Requests, reply: Versions \union {NoReply}]

Shapes ==
    /\ setup \in Setups
    /\ revalidating \subseteq CacheKeys
    /\ DOMAIN flights \subseteq Requests /\ flights \in [DOMAIN flights -> Calls]
    /\ jobs \subseteq JobType
    /\ pc \in [Calls -> {"idle", "leading", "joined"}]
    /\ wish \in [Calls -> Requests] /\ leader \in [Calls -> Calls]
    /\ answer \in [Calls -> Requests \union {None}]
    /\ (awaited # None => awaited \subseteq CacheKeys)
    /\ version \in Versions

\* TypeOK is the shape of the cache and that of everything else.
LEMMA TypeParts == TypeOK <=> Sound(mem) /\ Shapes
<1>1. mem \in Seq(EntryType) => Len(mem) \in Nat
  OBVIOUS
<1> QED
  BY <1>1 DEF TypeOK, Sound, Cached, Shapes, JobType, EntryType

\* The same of the next state.
LEMMA TypePartsNext == TypeOK' <=> Sound(mem') /\ Shapes'
<1>1. (TypeOK <=> Sound(mem) /\ Shapes)'
  BY TypeParts, PTL
<1> QED
  BY <1>1

\* What is in the cache is of its type, and no key more than the entries have.
LEMMA InTheCache ==
    ASSUME NEW m, Sound(m)
    PROVE  /\ \A e \in Entries(m) : e \in EntryType /\ e.key \in Keys(m)
           /\ \A key \in Keys(m) : \E e \in Entries(m) : e.key = key
BY DEF Sound, Cached, Entries, Keys

\* A cache with no new entry has no new key.
LEMMA NoNewKeys ==
    ASSUME NEW m, Sound(m), NEW n, Sound(n),
           \A e \in Entries(n) : \E old \in Entries(m) : e.key = old.key /\ e.data = old.data
    PROVE  /\ Keys(n) \subseteq Keys(m)
           /\ (\A e \in Entries(m) : CacheKey(e.data.req) = e.key)
                => \A e \in Entries(n) : CacheKey(e.data.req) = e.key
<1>1. Keys(n) \subseteq Keys(m)
  BY InTheCache
<1> QED
  BY <1>1

-----------------------------------------------------------------------------
(* One lemma for each action. *)

\* The cache answers: the caller has what is cached under its URL, and at most one
\* refresh more is under way.
LEMMA CacheAnswers ==
    ASSUME IInv, NEW c \in Calls, NEW r \in Requests, Fetch(c, r), FromCache(c, r)
    PROVE  IInv'
<1> DEFINE key == CacheKey(r)
           found == Freshness(mem, key, setup.staleAllowed)
           job == [by |-> Refresh, req |-> r, reply |-> NoReply]
<1>0. Sound(mem) /\ Shapes
  BY TypeParts DEF IInv
<1>1. /\ pc[c] = "idle" /\ wish' = [wish EXCEPT ![c] = r]
      /\ mem' = AfterLookup(mem, key, setup.staleAllowed)
      /\ UNCHANGED <<setup, awaited, version, flights, pc, leader>>
      /\ found \in {"hit", "stale"}
      /\ answer' = [answer EXCEPT ![c] = EntryFor(mem, key).data.req]
      /\ IF found = "stale" THEN BeginRefresh(r) ELSE UNCHANGED <<revalidating, jobs>>
  BY DEF Fetch, FromCache
<1>2. /\ Sound(mem') /\ Entries(mem') \subseteq Entries(mem) /\ key \in Keys(mem)
      /\ found = "stale" => setup.staleAllowed
  BY <1>0, <1>1, LookingUp
<1> HIDE DEF found
<1>3. Keys(mem') \subseteq Keys(mem) /\ CacheIsTrue'
  BY <1>0, <1>2, NoNewKeys DEF IInv, CacheIsTrue
<1>4. EntryFor(mem, key).data.req \in Requests /\ CacheKey(EntryFor(mem, key).data.req) = key
  <2>1. /\ EntryFor(mem, key) \in Entries(mem) /\ EntryFor(mem, key) \in EntryType
        /\ EntryFor(mem, key).key = key
    BY <1>0, <1>2, TheEntry DEF Sound
  <2> QED
    BY <2>1 DEF IInv, CacheIsTrue, EntryType, Responses
<1> HIDE DEF key
<1>5. key \in CacheKeys
  BY DEF CacheKeys, key
<1>6. \/ UNCHANGED <<revalidating, jobs>>
      \/ /\ setup.staleAllowed /\ key \notin revalidating
         /\ revalidating' = revalidating \union {key}
         /\ jobs' = jobs \union {job}
  BY <1>1, <1>2 DEF BeginRefresh, key
<1>7. job \in JobType /\ job.by = Refresh /\ job.req = r
  BY DEF JobType
<1> HIDE DEF job
<1>8. Refresh \notin Calls
  BY FetchAssumption
<1>9. Shapes'
  BY <1>0, <1>1, <1>4, <1>5, <1>6, <1>7 DEF Shapes
<1>10. LeadersWork'
  <2>1. \A j \in jobs' : j.by # Refresh => j \in jobs
    BY <1>6, <1>7
  <2>2. \A j \in jobs : j.by # Refresh => j.by \in Calls /\ j.by # c
    BY <1>0, <1>1 DEF IInv, LeadersWork, Shapes, JobType
  <2>3. \A j \in jobs : j \in jobs'
    BY <1>6
  <2> QED
    BY <1>0, <1>1, <2>1, <2>2, <2>3 DEF IInv, LeadersWork, Shapes
<1>11. FollowersFollow'
  BY <1>0, <1>1 DEF IInv, FollowersFollow, Shapes
<1>12. MapIsTrue'
  BY <1>0, <1>1 DEF IInv, MapIsTrue, Shapes, RoomForAll
<1>13. RefreshesPaired'
  <2>1. CASE UNCHANGED <<revalidating, jobs>>
    BY <1>1, <2>1 DEF IInv, RefreshesPaired
  <2>2. CASE /\ key \notin revalidating
             /\ revalidating' = revalidating \union {key} /\ jobs' = jobs \union {job}
    BY <1>1, <1>7, <2>2 DEF IInv, RefreshesPaired, key
  <2> QED
    BY <1>6, <2>1, <2>2
<1>14. OutIsNotCached'
  <2>1. setup' = setup /\ (~setup.staleAllowed => jobs' = jobs)
    BY <1>1, <1>6
  <2> QED
    BY <1>3, <2>1 DEF IInv, OutIsNotCached, RoomForAll
<1>15. UrlTellsRequest => AnswersItsOwnRequest'
  <2> SUFFICES ASSUME UrlTellsRequest PROVE AnswersItsOwnRequest'
    OBVIOUS
  <2>1. EntryFor(mem, key).data.req = r
    BY <1>4 DEF UrlTellsRequest, key
  <2> QED
    BY <1>0, <1>1, <2>1 DEF IInv, AnswersItsOwnRequest, Shapes
<1>16. TypeOK'
  BY <1>2, <1>9, TypePartsNext
<1> QED
  BY <1>3, <1>10, <1>11, <1>12, <1>13, <1>14, <1>15, <1>16
  DEF IInv, UrlTellsRequest

\* The call joins the flight of another that asked for the same.
LEMMA CallJoins ==
    ASSUME IInv, NEW c \in Calls, NEW r \in Requests, Fetch(c, r), Join(c, r)
    PROVE  IInv'
<1> USE DEF FlightKey
<1> DEFINE key == CacheKey(r)
<1>0. Sound(mem) /\ Shapes
  BY TypeParts DEF IInv
<1>1. /\ pc[c] = "idle" /\ wish' = [wish EXCEPT ![c] = r]
      /\ mem' = AfterLookup(mem, key, setup.staleAllowed)
      /\ UNCHANGED <<setup, awaited, version, flights, jobs, revalidating>>
      /\ r \in DOMAIN flights
      /\ leader' = [leader EXCEPT ![c] = flights[r]]
      /\ pc' = [pc EXCEPT ![c] = "joined"]
      /\ answer' = [answer EXCEPT ![c] = None]
  BY DEF Fetch, Join
<1>2. Sound(mem') /\ Entries(mem') \subseteq Entries(mem)
  BY <1>0, <1>1, LookingUp
<1>3. Keys(mem') \subseteq Keys(mem) /\ CacheIsTrue'
  BY <1>0, <1>2, NoNewKeys DEF IInv, CacheIsTrue
<1>4. Shapes'
  BY <1>0, <1>1 DEF Shapes
<1>5. LeadersWork'
  <2>1. \A j \in jobs : j.by # Refresh => j.by \in Calls /\ j.by # c
    BY <1>0, <1>1 DEF IInv, LeadersWork, Shapes, JobType
  <2> QED
    BY <1>0, <1>1, <2>1 DEF IInv, LeadersWork, Shapes
<1>6. /\ flights[r] \in Calls /\ flights[r] # c
      /\ pc[flights[r]] = "leading" /\ wish[flights[r]] = r
  BY <1>0, <1>1 DEF IInv, MapIsTrue, Shapes
<1>7. FollowersFollow'
  BY <1>0, <1>1, <1>6 DEF IInv, FollowersFollow, Shapes
<1>8. MapIsTrue'
  BY <1>0, <1>1 DEF IInv, MapIsTrue, Shapes, RoomForAll
<1>9. RefreshesPaired'
  BY <1>1 DEF IInv, RefreshesPaired
<1>10. OutIsNotCached'
  BY <1>1, <1>3 DEF IInv, OutIsNotCached, RoomForAll
<1>11. UrlTellsRequest => AnswersItsOwnRequest'
  BY <1>0, <1>1 DEF IInv, AnswersItsOwnRequest, Shapes
<1> QED
  BY <1>2, <1>3, <1>4, <1>5, <1>7, <1>8, <1>9, <1>10, <1>11, TypePartsNext
  DEF IInv, UrlTellsRequest

\* A map with room for every request turns none away that is not in it.
LEMMA RoomInTheMap ==
    ASSUME DOMAIN flights \subseteq Requests, RoomForAll, NEW r \in Requests,
           r \notin DOMAIN flights, setup \in Setups
    PROVE  Room
<1> DEFINE F == DOMAIN flights
<1>1. IsFiniteSet(Requests) /\ setup.maxKeys \in Nat
  BY FetchAssumption
<1>2. IsFiniteSet(F) /\ Cardinality(F) \in Nat /\ Cardinality(Requests) \in Nat
  BY <1>1, FS_Subset, FS_CardinalityType
<1>3. Cardinality(F \union {r}) = Cardinality(F) + 1 /\ F \union {r} \subseteq Requests
  BY <1>2, FS_AddElement
<1>4. Cardinality(F \union {r}) <= Cardinality(Requests)
  BY <1>1, <1>3, FS_Subset
<1> HIDE DEF F
<1>5. Cardinality(F) < setup.maxKeys
  BY <1>1, <1>2, <1>3, <1>4 DEF RoomForAll
<1> QED
  BY <1>5 DEF Room, F

\* The call makes the request itself.
LEMMA CallLeads ==
    ASSUME IInv, NEW c \in Calls, NEW r \in Requests, Fetch(c, r), Lead(c, r)
    PROVE  IInv'
<1> USE DEF FlightKey
<1> DEFINE key == CacheKey(r)
           found == Freshness(mem, key, setup.staleAllowed)
           job == [by |-> c, req |-> r, reply |-> NoReply]
<1>0. Sound(mem) /\ Shapes
  BY TypeParts DEF IInv
<1>1. /\ pc[c] = "idle" /\ wish' = [wish EXCEPT ![c] = r]
      /\ mem' = AfterLookup(mem, key, setup.staleAllowed) /\ found = "miss"
      /\ UNCHANGED <<setup, awaited, version, revalidating>>
      /\ r \notin DOMAIN flights
      /\ jobs' = jobs \union {job}
      /\ flights' = IF Room
                    THEN [f \in DOMAIN flights \union {r} |-> IF f = r THEN c ELSE flights[f]]
                    ELSE flights
      /\ leader' = [leader EXCEPT ![c] = c]
      /\ pc' = [pc EXCEPT ![c] = "leading"]
      /\ answer' = [answer EXCEPT ![c] = None]
  BY DEF Fetch, Lead
<1>2. Sound(mem') /\ Entries(mem') \subseteq Entries(mem) /\ key \notin Keys(mem')
  BY <1>0, <1>1, LookingUp
<1> HIDE DEF found
<1>3. Keys(mem') \subseteq Keys(mem) /\ CacheIsTrue'
  BY <1>0, <1>2, NoNewKeys DEF IInv, CacheIsTrue
<1>4. job \in JobType /\ job.by = c /\ job.req = r /\ c # Refresh
  BY FetchAssumption DEF JobType
<1> HIDE DEF job
<1>5. Shapes'
  <2>1. DOMAIN flights' \subseteq Requests /\ flights' \in [DOMAIN flights' -> Calls]
    BY <1>0, <1>1 DEF Shapes
  <2> QED
    BY <1>0, <1>1, <1>4, <2>1 DEF Shapes
<1>6. \A j \in jobs : j.by # Refresh => j.by \in Calls /\ j.by # c
  BY <1>0, <1>1 DEF IInv, LeadersWork, Shapes, JobType
<1>7. LeadersWork'
  BY <1>0, <1>1, <1>4, <1>6 DEF IInv, LeadersWork, Shapes
<1>8. FollowersFollow'
  BY <1>0, <1>1 DEF IInv, FollowersFollow, Shapes
<1>9. MapIsTrue'
  <2>1. \A f \in DOMAIN flights : flights[f] \in Calls /\ flights[f] # c
    BY <1>0, <1>1 DEF IInv, MapIsTrue, Shapes
  <2>2. ASSUME NEW f \in DOMAIN flights'
        PROVE  pc'[flights'[f]] = "leading" /\ wish'[flights'[f]] = f
    BY <1>0, <1>1, <2>1, <2>2 DEF IInv, MapIsTrue, Shapes
  <2>3. ASSUME RoomForAll, NEW d \in Calls, pc'[d] = "leading"
        PROVE  wish'[d] \in DOMAIN flights' /\ flights'[wish'[d]] = d
    <3>1. Room
      BY <1>0, <1>1, <2>3, RoomInTheMap DEF Shapes
    <3>2. CASE d = c
      BY <1>0, <1>1, <3>1, <3>2 DEF Shapes
    <3>3. CASE d # c
      <4>1. wish[d] \in DOMAIN flights /\ flights[wish[d]] = d /\ wish'[d] = wish[d]
        BY <1>0, <1>1, <2>3, <3>3 DEF IInv, MapIsTrue, Shapes
      <4> QED
        BY <1>1, <3>1, <4>1
    <3> QED
      BY <3>2, <3>3
  <2> QED
    BY <1>1, <2>2, <2>3 DEF MapIsTrue, RoomForAll
<1>10. RefreshesPaired'
  BY <1>1, <1>4 DEF IInv, RefreshesPaired
<1>11. OutIsNotCached'
  BY <1>1, <1>2, <1>3, <1>4 DEF IInv, OutIsNotCached, RoomForAll
<1>12. UrlTellsRequest => AnswersItsOwnRequest'
  BY <1>0, <1>1 DEF IInv, AnswersItsOwnRequest, Shapes
<1> QED
  BY <1>2, <1>3, <1>5, <1>7, <1>8, <1>9, <1>10, <1>11, <1>12, TypePartsNext
  DEF IInv, UrlTellsRequest

\* The server answers: the job is the same but for its reply.
LEMMA ServerSteps ==
    ASSUME IInv, NEW job \in jobs, ServerAnswers(job)
    PROVE  IInv'
<1> DEFINE answered == [job EXCEPT !.reply = version]
<1>0. Sound(mem) /\ Shapes
  BY TypeParts DEF IInv
<1>1. /\ jobs' = (jobs \ {job}) \union {answered}
      /\ UNCHANGED <<setup, mem, revalidating, flights, pc, wish, leader, answer, awaited,
                     version>>
  BY DEF ServerAnswers
<1>2. job \in JobType
  BY <1>0 DEF Shapes
<1>3. answered \in JobType /\ answered.by = job.by /\ answered.req = job.req
  BY <1>0, <1>2 DEF Shapes, JobType
<1> HIDE DEF answered
\* Every job has its counterpart before and after.
<1>4. /\ \A j \in jobs' : \E k \in jobs : /\ k.by = j.by /\ k.req = j.req
                                          /\ j = IF k = job THEN answered ELSE k
      /\ \A k \in jobs : \E j \in jobs' : k.by = j.by /\ k.req = j.req
  BY <1>1, <1>3
<1>5. Shapes'
  BY <1>0, <1>1, <1>3 DEF Shapes
<1>6. LeadersWork'
  <2>1. \A j \in jobs' : j.by # Refresh => pc[j.by] = "leading" /\ j.req = wish[j.by]
    BY <1>4 DEF IInv, LeadersWork
  <2>2. ASSUME NEW i \in jobs', NEW j \in jobs', i.by # Refresh, i.by = j.by PROVE i = j
    <3>1. PICK k \in jobs : k.by = i.by /\ i = IF k = job THEN answered ELSE k
      BY <1>4
    <3>2. PICK l \in jobs : l.by = j.by /\ j = IF l = job THEN answered ELSE l
      BY <1>4
    <3>3. k = l
      BY <2>2, <3>1, <3>2 DEF IInv, LeadersWork
    <3> QED
      BY <3>1, <3>2, <3>3
  <2>3. \A c \in Calls : pc[c] = "leading" => \E j \in jobs' : j.by = c
    BY <1>4 DEF IInv, LeadersWork
  <2> QED
    BY <1>1, <2>1, <2>2, <2>3 DEF LeadersWork
<1>7. RefreshesPaired'
  <2>1. \A j \in jobs' : j.by = Refresh => CacheKey(j.req) \in revalidating
    BY <1>4 DEF IInv, RefreshesPaired
  <2>2. ASSUME NEW i \in jobs', NEW j \in jobs', i.by = Refresh, j.by = Refresh,
               CacheKey(i.req) = CacheKey(j.req)
        PROVE  i = j
    <3>1. PICK k \in jobs : k.by = i.by /\ k.req = i.req /\ i = IF k = job THEN answered ELSE k
      BY <1>4
    <3>2. PICK l \in jobs : l.by = j.by /\ l.req = j.req /\ j = IF l = job THEN answered ELSE l
      BY <1>4
    <3>3. k = l
      BY <2>2, <3>1, <3>2 DEF IInv, RefreshesPaired
    <3> QED
      BY <3>1, <3>2, <3>3
  <2>3. \A key \in revalidating : \E j \in jobs' : j.by = Refresh /\ CacheKey(j.req) = key
    BY <1>4 DEF IInv, RefreshesPaired
  <2> QED
    BY <1>1, <2>1, <2>2, <2>3 DEF IInv, RefreshesPaired
<1>8. OutIsNotCached'
  BY <1>1, <1>4 DEF IInv, OutIsNotCached, RoomForAll
<1>9. FollowersFollow' /\ MapIsTrue' /\ CacheIsTrue' /\ (UrlTellsRequest => AnswersItsOwnRequest')
  BY <1>1 DEF IInv, FollowersFollow, MapIsTrue, RoomForAll, CacheIsTrue, AnswersItsOwnRequest
<1> QED
  BY <1>0, <1>1, <1>5, <1>6, <1>7, <1>8, <1>9, TypePartsNext DEF IInv, UrlTellsRequest

\* A flight ends: its leader and its followers return, and the map forgets it.
LEMMA FlightLands ==
    ASSUME IInv, NEW job \in jobs, job.by # Refresh, NEW result \in {job.req, None},
           Land(job, result), jobs' = jobs \ {job},
           UNCHANGED <<setup, revalidating, wish, awaited, version>>
    PROVE  /\ Shapes' /\ LeadersWork' /\ FollowersFollow' /\ MapIsTrue' /\ RefreshesPaired'
           /\ AnswersItsOwnRequest => AnswersItsOwnRequest'
<1> DEFINE by == job.by
           party == {c \in Calls : pc[c] # "idle" /\ leader[c] = by}
           mine == {f \in DOMAIN flights : flights[f] = by}
<1>0. Sound(mem) /\ Shapes
  BY TypeParts DEF IInv
<1>1. /\ flights' = [f \in DOMAIN flights \ mine |-> flights[f]]
      /\ pc' = [c \in Calls |-> IF c \in party THEN "idle" ELSE pc[c]]
      /\ leader' = [c \in Calls |-> IF c \in party THEN c ELSE leader[c]]
      /\ answer' = [c \in Calls |-> IF c \in party THEN result ELSE answer[c]]
  BY DEF Land
<1>2. by \in Calls /\ pc[by] = "leading" /\ job.req = wish[by] /\ job.req \in Requests
  BY <1>0 DEF IInv, LeadersWork, Shapes, JobType
<1>3. /\ \A c \in party : wish[c] = wish[by]
      /\ \A c \in Calls : c \in party <=> c = by \/ (pc[c] = "joined" /\ leader[c] = by)
  BY <1>0, <1>2 DEF IInv, FollowersFollow, Shapes
<1>4. \A c \in Calls : pc'[c] = "leading" <=> pc[c] = "leading" /\ c # by
  BY <1>0, <1>1, <1>3 DEF IInv, FollowersFollow, Shapes
<1>5. \A c \in Calls : pc'[c] # "idle" => c \notin party /\ pc'[c] = pc[c]
  BY <1>1
<1>6. Shapes'
  <2>1. flights' \in [DOMAIN flights' -> Calls] /\ DOMAIN flights' \subseteq Requests
    BY <1>0, <1>1 DEF Shapes
  <2>2. pc' \in [Calls -> {"idle", "leading", "joined"}] /\ leader' \in [Calls -> Calls]
    BY <1>0, <1>1 DEF Shapes
  <2>3. answer' \in [Calls -> Requests \union {None}]
    BY <1>0, <1>1, <1>2 DEF Shapes
  <2> QED
    BY <1>0, <2>1, <2>2, <2>3 DEF Shapes
<1>7. \A j \in jobs' : j \in jobs /\ (j.by # Refresh => j.by # by /\ j.by \in Calls)
  BY <1>0, <1>2 DEF IInv, LeadersWork, Shapes, JobType
<1>8. LeadersWork'
  <2>1. \A j \in jobs' : j.by # Refresh => pc'[j.by] = "leading" /\ j.req = wish'[j.by]
    BY <1>4, <1>7 DEF IInv, LeadersWork
  <2>2. \A c \in Calls : pc'[c] = "leading" => \E j \in jobs' : j.by = c
    <3> SUFFICES ASSUME NEW c \in Calls, pc'[c] = "leading" PROVE \E j \in jobs' : j.by = c
      OBVIOUS
    <3>1. PICK j \in jobs : j.by = c
      BY <1>4 DEF IInv, LeadersWork
    <3> QED
      BY <1>4, <3>1
  <2> QED
    BY <1>7, <2>1, <2>2 DEF IInv, LeadersWork
<1>9. FollowersFollow'
  <2> SUFFICES ASSUME NEW c \in Calls
               PROVE  /\ pc'[c] # "joined" => leader'[c] = c
                      /\ pc'[c] = "joined" => /\ pc'[leader'[c]] = "leading"
                                              /\ wish'[leader'[c]] = wish'[c]
    BY DEF FollowersFollow
  <2>1. CASE c \in party
    BY <1>1, <2>1
  <2>2. CASE c \notin party
    <3>1. pc'[c] = pc[c] /\ leader'[c] = leader[c] /\ leader[c] \in Calls
      BY <1>0, <1>1, <2>2 DEF Shapes
    <3> QED
      BY <1>3, <1>4, <2>2, <3>1 DEF IInv, FollowersFollow
  <2> QED
    BY <2>1, <2>2
<1>10. MapIsTrue'
  <2>1. \A f \in DOMAIN flights' : pc'[flights'[f]] = "leading" /\ wish'[flights'[f]] = f
    BY <1>0, <1>1, <1>4 DEF IInv, MapIsTrue, Shapes
  <2>2. ASSUME RoomForAll', NEW c \in Calls, pc'[c] = "leading"
        PROVE  wish'[c] \in DOMAIN flights' /\ flights'[wish'[c]] = c
    <3>1. pc[c] = "leading" /\ c # by /\ RoomForAll
      BY <1>4, <2>2 DEF RoomForAll
    <3>2. wish[c] \in DOMAIN flights /\ flights[wish[c]] = c
      BY <3>1 DEF IInv, MapIsTrue
    <3> QED
      BY <1>1, <3>1, <3>2
  <2> QED
    BY <2>1, <2>2 DEF MapIsTrue
<1>11. RefreshesPaired'
  BY DEF IInv, RefreshesPaired
<1>12. AnswersItsOwnRequest => AnswersItsOwnRequest'
  BY <1>1, <1>2, <1>3 DEF AnswersItsOwnRequest
<1> QED
  BY <1>6, <1>8, <1>9, <1>10, <1>11, <1>12

\* A refresh ends: its key is unmarked, and flush() no longer waits for it.
LEMMA RefreshEnds ==
    ASSUME IInv, NEW job \in jobs, job.by = Refresh, EndRefresh(job), jobs' = jobs \ {job},
           UNCHANGED <<setup, flights, pc, leader, answer, wish, version>>
    PROVE  /\ Shapes' /\ LeadersWork' /\ FollowersFollow' /\ MapIsTrue' /\ RefreshesPaired'
           /\ AnswersItsOwnRequest => AnswersItsOwnRequest'
<1> DEFINE key == CacheKey(job.req)
<1>0. Sound(mem) /\ Shapes
  BY TypeParts DEF IInv
<1>1. /\ revalidating' = revalidating \ {key}
      /\ awaited' = IF awaited = None THEN None ELSE awaited \ {key}
  BY DEF EndRefresh
<1>2. Shapes'
  BY <1>0, <1>1 DEF Shapes
<1>3. LeadersWork'
  BY FetchAssumption DEF IInv, LeadersWork
<1>4. RefreshesPaired'
  <2>1. \A j \in jobs' : j.by = Refresh => CacheKey(j.req) \in revalidating'
    BY <1>1 DEF IInv, RefreshesPaired
  <2>2. \A k \in revalidating' : \E j \in jobs' : j.by = Refresh /\ CacheKey(j.req) = k
    BY <1>1 DEF IInv, RefreshesPaired
  <2>3. awaited' # None => awaited' \subseteq revalidating'
    BY <1>1 DEF IInv, RefreshesPaired
  <2>4. \A i, j \in jobs' :
            i.by = Refresh /\ j.by = Refresh /\ CacheKey(i.req) = CacheKey(j.req) => i = j
    BY DEF IInv, RefreshesPaired
  <2> QED
    BY <2>1, <2>2, <2>3, <2>4 DEF RefreshesPaired
<1> QED
  BY <1>2, <1>3, <1>4
  DEF IInv, FollowersFollow, MapIsTrue, RoomForAll, AnswersItsOwnRequest

\* What a job's end does to everything but the cache.
LEMMA JobEnds ==
    ASSUME IInv, NEW job \in jobs, jobs' = jobs \ {job}, NEW result \in {job.req, None},
           UNCHANGED <<setup, wish, version>>,
           \/ /\ job.by = Refresh /\ EndRefresh(job)
              /\ UNCHANGED <<flights, pc, leader, answer>>
           \/ /\ job.by # Refresh /\ Land(job, result)
              /\ UNCHANGED <<revalidating, awaited>>
    PROVE  /\ Shapes' /\ LeadersWork' /\ FollowersFollow' /\ MapIsTrue' /\ RefreshesPaired'
           /\ AnswersItsOwnRequest => AnswersItsOwnRequest'
<1>1. CASE job.by = Refresh
  BY <1>1, RefreshEnds
<1>2. CASE job.by # Refresh
  BY <1>2, FlightLands
<1> QED
  BY <1>1, <1>2

\* In a cache without stale answers and with room for every flight, no two jobs are
\* for one URL.
LEMMA OneJobForAUrl ==
    ASSUME IInv, ~setup.staleAllowed, RoomForAll, UrlTellsRequest,
           NEW job \in jobs, NEW other \in jobs, CacheKey(job.req) = CacheKey(other.req)
    PROVE  job = other
<1>1. /\ job.by # Refresh /\ other.by # Refresh
      /\ job.by \in Calls /\ other.by \in Calls /\ job.req \in Requests /\ other.req \in Requests
  BY TypeParts DEF IInv, OutIsNotCached, Shapes, JobType
<1>2. job.req = other.req
  BY <1>1 DEF UrlTellsRequest
<1>3. job.by = other.by
  BY <1>1, <1>2 DEF IInv, LeadersWork, MapIsTrue
<1> QED
  BY <1>1, <1>3 DEF IInv, LeadersWork

\* The answer arrives, is cached, and everybody who waited for it goes on.
LEMMA AnswerArrives ==
    ASSUME IInv, NEW job \in jobs, Complete(job)
    PROVE  IInv'
<1> DEFINE data == [req |-> job.req, version |-> job.reply]
           key == CacheKey(job.req)
<1>0. Sound(mem) /\ Shapes
  BY TypeParts DEF IInv
<1>1. /\ job.reply # NoReply /\ mem' = Store(mem, key, data) /\ jobs' = jobs \ {job}
      /\ UNCHANGED <<setup, wish, version>>
      /\ \/ /\ job.by = Refresh /\ EndRefresh(job)
            /\ UNCHANGED <<flights, pc, leader, answer>>
         \/ /\ job.by # Refresh /\ Land(job, job.req)
            /\ UNCHANGED <<revalidating, awaited>>
  BY DEF Complete
<1>2. /\ Shapes' /\ LeadersWork' /\ FollowersFollow' /\ MapIsTrue' /\ RefreshesPaired'
      /\ AnswersItsOwnRequest => AnswersItsOwnRequest'
  BY <1>1, JobEnds
<1>3. data \in Responses /\ key \in CacheKeys /\ data.req = job.req
  BY <1>0, <1>1 DEF Shapes, JobType, Responses, CacheKeys
<1> HIDE DEF data
<1>4. /\ Sound(mem')
      /\ \A e \in Entries(mem') : \/ e \in Entries(mem) /\ e.key # key
                                  \/ e.key = key /\ e.data = data
  BY <1>0, <1>1, <1>3, Storing
<1>5. CacheIsTrue'
  BY <1>3, <1>4 DEF IInv, CacheIsTrue
<1>6. \A k \in Keys(mem') : k \in Keys(mem) \/ k = key
  BY <1>0, <1>4, InTheCache
<1>7. OutIsNotCached'
  <2> SUFFICES ASSUME ~setup.staleAllowed
               PROVE  /\ \A j \in jobs' : j.by # Refresh
                      /\ RoomForAll /\ UrlTellsRequest =>
                            \A j \in jobs' : CacheKey(j.req) \notin Keys(mem')
    BY <1>1 DEF OutIsNotCached, RoomForAll, UrlTellsRequest
  <2>1. \A j \in jobs' : j.by # Refresh
    BY <1>1 DEF IInv, OutIsNotCached
  <2>2. ASSUME RoomForAll, UrlTellsRequest, NEW j \in jobs'
        PROVE  CacheKey(j.req) \notin Keys(mem')
    <3>1. CacheKey(j.req) # key
      BY <1>1, <2>2, OneJobForAUrl
    <3>2. CacheKey(j.req) \notin Keys(mem)
      BY <1>1, <2>2 DEF IInv, OutIsNotCached
    <3> QED
      BY <1>6, <3>1, <3>2
  <2> QED
    BY <2>1, <2>2
<1> QED
  BY <1>2, <1>4, <1>5, <1>7, TypePartsNext DEF IInv, UrlTellsRequest

\* The request throws: everybody who waited for it goes on, and the cache is as it was.
LEMMA RequestThrows ==
    ASSUME IInv, NEW job \in jobs, Fail(job)
    PROVE  IInv'
<1>1. /\ jobs' = jobs \ {job} /\ UNCHANGED <<setup, mem, wish, version>>
      /\ \/ /\ job.by = Refresh /\ EndRefresh(job)
            /\ UNCHANGED <<flights, pc, leader, answer>>
         \/ /\ job.by # Refresh /\ Land(job, None)
            /\ UNCHANGED <<revalidating, awaited>>
  BY DEF Fail
<1>2. /\ Shapes' /\ LeadersWork' /\ FollowersFollow' /\ MapIsTrue' /\ RefreshesPaired'
      /\ AnswersItsOwnRequest => AnswersItsOwnRequest'
  BY <1>1, JobEnds
<1>3. CacheIsTrue' /\ OutIsNotCached'
  BY <1>1 DEF IInv, CacheIsTrue, OutIsNotCached, RoomForAll
<1>4. Sound(mem')
  BY <1>1, TypeParts DEF IInv
<1> QED
  BY <1>2, <1>3, <1>4, TypePartsNext DEF IInv, UrlTellsRequest

\* flush, the clock and the server's content.
LEMMA OthersStep ==
    ASSUME IInv, Flush \/ FlushDone \/ Tick \/ Publish \/ UNCHANGED vars
    PROVE  IInv'
<1>0. Sound(mem) /\ Shapes
  BY TypeParts DEF IInv
<1>1. /\ UNCHANGED <<setup, revalidating, flights, jobs, pc, wish, leader, answer>>
      /\ awaited' \in {awaited, None, revalidating}
      /\ version' \in Versions
      /\ mem' = mem \/ mem' = Age(mem)
  <2>0. version \in Versions
    BY <1>0 DEF Shapes
  <2>1. CASE Flush \/ FlushDone
    BY <2>0, <2>1 DEF Flush, FlushDone
  <2>2. CASE Tick \/ UNCHANGED vars
    BY <2>0, <2>2 DEF Tick, vars
  <2>3. CASE Publish
    BY <2>0, <2>3, FetchAssumption DEF Publish, Versions
  <2> QED
    BY <2>1, <2>2, <2>3
<1>2. /\ Sound(mem')
      /\ \A e \in Entries(mem') :
            \E old \in Entries(mem) : e.key = old.key /\ e.data = old.data
  BY <1>0, <1>1, Aging
<1>3. Keys(mem') \subseteq Keys(mem) /\ CacheIsTrue'
  BY <1>0, <1>2, NoNewKeys DEF IInv, CacheIsTrue
<1>4. Shapes'
  BY <1>0, <1>1 DEF Shapes
<1>5. LeadersWork' /\ FollowersFollow' /\ MapIsTrue'
  BY <1>1 DEF IInv, LeadersWork, FollowersFollow, MapIsTrue, RoomForAll
<1>6. RefreshesPaired' /\ (UrlTellsRequest => AnswersItsOwnRequest')
  BY <1>1 DEF IInv, RefreshesPaired, AnswersItsOwnRequest
<1>7. OutIsNotCached'
  BY <1>1, <1>3 DEF IInv, OutIsNotCached, RoomForAll
<1> QED
  BY <1>2, <1>3, <1>4, <1>5, <1>6, <1>7, TypePartsNext DEF IInv, UrlTellsRequest

-----------------------------------------------------------------------------
\* The inductive invariant holds before the first fetch.
LEMMA InitIInv == Init => IInv
<1> SUFFICES ASSUME Init PROVE IInv
  OBVIOUS
<1> USE DEF Init
<1>1. (CHOOSE r \in Requests : TRUE) \in Requests
  BY FetchAssumption
<1>2. Sound(mem)
  BY CacheAssumption DEF Sound, Cached
<1>3. DOMAIN flights = {} /\ flights \in [DOMAIN flights -> Calls]
  OBVIOUS
<1>4. 1 \in Versions
  BY FetchAssumption DEF Versions
<1>5. Shapes
  BY <1>1, <1>3, <1>4 DEF Shapes
<1>6. LeadersWork /\ FollowersFollow /\ MapIsTrue
  BY <1>3 DEF LeadersWork, FollowersFollow, MapIsTrue
<1>7. RefreshesPaired /\ OutIsNotCached /\ CacheIsTrue /\ AnswersItsOwnRequest
  BY DEF RefreshesPaired, OutIsNotCached, CacheIsTrue, Entries, Keys, AnswersItsOwnRequest
<1> QED
  BY <1>2, <1>5, <1>6, <1>7, TypeParts DEF IInv

\* Every action preserves the inductive invariant.
LEMMA NextIInv == IInv /\ [Next]_vars => IInv'
<1> SUFFICES ASSUME IInv, [Next]_vars PROVE IInv'
  OBVIOUS
<1>1. ASSUME NEW c \in Calls, NEW r \in Requests, Fetch(c, r) PROVE IInv'
  BY <1>1, CacheAnswers, CallJoins, CallLeads DEF Fetch
<1>2. ASSUME NEW job \in jobs, Advance(job) PROVE IInv'
  BY <1>2, ServerSteps, AnswerArrives, RequestThrows DEF Advance
<1>3. CASE Flush \/ FlushDone \/ Tick \/ Publish \/ UNCHANGED vars
  BY <1>3, OthersStep
<1> QED
  BY <1>1, <1>2, <1>3 DEF Next

\* In every behaviour, whoever fetches what and whatever the settings, the cache, the
\* map, the jobs, the marks and the places of the calls fit together.
THEOREM Invariance == Spec => []IInv
<1>1. Init => IInv
  BY InitIInv
<1>2. IInv /\ [Next]_vars => IInv'
  BY NextIInv
<1> QED
  BY <1>1, <1>2, PTL DEF Spec

\* Nobody waits on a flight that is over or that fetches something else, the map holds
\* no flight that has landed, and a map that is large enough prevents every duplicate.
THEOREM FlightsAlwaysSound == Spec => []FlightsSound
<1>1. IInv => FlightsSound
  <2> SUFFICES ASSUME IInv PROVE FlightsAreLive
    BY DEF IInv, FlightsSound
  <2> USE DEF FlightKey, JobsOf
  <2>0. Shapes /\ Refresh \notin Calls
    BY TypeParts, FetchAssumption DEF IInv
  <2>1. ASSUME NEW c \in Calls, pc[c] = "leading"
        PROVE  \E job \in jobs : job.by = c /\ job.req = wish[c]
    <3>1. PICK job \in jobs : job.by = c
      BY <2>1 DEF IInv, LeadersWork
    <3> QED
      BY <2>0, <3>1 DEF IInv, LeadersWork
  <2>2. ASSUME NEW c \in Calls, pc[c] # "idle"
        PROVE  \E job \in JobsOf(leader[c]) : job.req = wish[c]
    <3>1. CASE pc[c] = "leading"
      BY <2>1, <3>1 DEF IInv, FollowersFollow
    <3>2. CASE pc[c] = "joined"
      BY <2>0, <2>1, <3>2 DEF IInv, FollowersFollow, Shapes
    <3> QED
      BY <2>0, <2>2, <3>1, <3>2 DEF Shapes
  <2>3. \A f \in DOMAIN flights : pc[flights[f]] = "leading" /\ wish[flights[f]] = f
    BY DEF IInv, MapIsTrue
  <2>4. setup.maxKeys >= Cardinality(Requests) =>
          \A c, d \in Calls : pc[c] = "leading" /\ pc[d] = "leading" /\ wish[c] = wish[d] => c = d
    BY DEF IInv, MapIsTrue, RoomForAll
  <2> QED
    BY <2>2, <2>3, <2>4 DEF FlightsAreLive
<1> QED
  BY <1>1, Invariance, PTL

\* A key is marked exactly while one refresh of it is under way.
THEOREM RefreshAlwaysExclusive == Spec => []RefreshExclusive
<1>1. IInv => RefreshExclusive
  <2> SUFFICES ASSUME IInv, NEW key \in CacheKeys
               PROVE  Cardinality({job \in JobsOf(Refresh) : CacheKey(job.req) = key})
                        = IF key \in revalidating THEN 1 ELSE 0
    BY DEF RefreshExclusive, IInv, RefreshesPaired
  <2> DEFINE S == {job \in JobsOf(Refresh) : CacheKey(job.req) = key}
  <2>1. CASE key \in revalidating
    <3>1. PICK job \in jobs : job.by = Refresh /\ CacheKey(job.req) = key
      BY <2>1 DEF IInv, RefreshesPaired
    <3>2. S = {job}
      BY <3>1 DEF IInv, RefreshesPaired, JobsOf
    <3> QED
      BY <2>1, <3>2, FS_Singleton
  <2>2. CASE key \notin revalidating
    <3>1. S = {}
      BY <2>2 DEF IInv, RefreshesPaired, JobsOf
    <3> QED
      BY <2>2, <3>1, FS_EmptySet
  <2> QED
    BY <2>1, <2>2
<1> QED
  BY <1>1, Invariance, PTL

\* Where a URL stands for one request, as for GET, a caller gets the response to its
\* own request, from the server, a shared flight or the cache.
THEOREM EverybodyGetsTheirOwn ==
    ASSUME UrlTellsRequest
    PROVE  Spec => []AnswersItsOwnRequest
<1>1. IInv => AnswersItsOwnRequest
  BY DEF IInv
<1> QED
  BY <1>1, Invariance, PTL

\* One step: without stale answers and with room for every flight, the entry of a key
\* that stays cached keeps its version.
LEMMA VersionKept ==
    ASSUME IInv, [Next]_vars, UrlTellsRequest, ~setup.staleAllowed, RoomForAll,
           NEW key \in Keys(mem) \intersect Keys(mem')
    PROVE  EntryFor(mem', key).data.version >= EntryFor(mem, key).data.version
<1>0. Sound(mem) /\ Sound(mem')
  BY NextIInv, TypeParts, TypePartsNext DEF IInv
<1>1. /\ EntryFor(mem, key) \in EntryType /\ EntryFor(mem', key) \in Entries(mem')
      /\ EntryFor(mem', key).key = key
      /\ \A e \in Entries(mem) : e.key = key => e = EntryFor(mem, key)
  BY <1>0, TheEntry DEF Sound
<1>2. EntryFor(mem, key).data.version \in Nat
  BY <1>1 DEF EntryType, Responses, Versions
<1>3. ASSUME NEW e \in Entries(mem), e.key = key, e.data = EntryFor(mem', key).data
      PROVE  EntryFor(mem', key).data.version >= EntryFor(mem, key).data.version
  BY <1>1, <1>2, <1>3
<1>4. ASSUME NEW c \in Calls, NEW r \in Requests, Fetch(c, r)
      PROVE  \E e \in Entries(mem) : e.key = key /\ e.data = EntryFor(mem', key).data
  BY <1>0, <1>1, <1>4, LookingUp DEF Fetch
<1>5. ASSUME NEW job \in jobs, Complete(job)
      PROVE  \E e \in Entries(mem) : e.key = key /\ e.data = EntryFor(mem', key).data
  <2> DEFINE data == [req |-> job.req, version |-> job.reply]
  <2>1. job \in JobType /\ job.reply # NoReply /\ mem' = Store(mem, CacheKey(job.req), data)
    BY <1>5, TypeParts DEF IInv, Shapes, Complete
  <2>2. data \in Responses /\ CacheKey(job.req) \in CacheKeys
    BY <2>1 DEF JobType, Responses, CacheKeys
  <2>3. CacheKey(job.req) # key
    BY DEF IInv, OutIsNotCached
  <2> HIDE DEF data
  <2>4. EntryFor(mem', key) \in Entries(mem)
    BY <1>0, <1>1, <2>1, <2>2, <2>3, Storing
  <2> QED
    BY <1>1, <2>4
<1>6. CASE mem' = mem \/ mem' = Age(mem)
  <2>1. \A e \in Entries(mem') : \E old \in Entries(mem) : e.key = old.key /\ e.data = old.data
    BY <1>0, <1>6, Aging
  <2> QED
    BY <1>1, <1>3, <2>1
<1>7. ASSUME NEW job \in jobs, ServerAnswers(job) \/ Fail(job) PROVE mem' = mem
  BY <1>7 DEF ServerAnswers, Fail
<1>8. ASSUME Flush \/ FlushDone \/ Tick \/ Publish \/ UNCHANGED vars
      PROVE  mem' = mem \/ mem' = Age(mem)
  BY <1>8 DEF Flush, FlushDone, Tick, Publish, vars
<1> QED
  BY <1>3, <1>4, <1>5, <1>6, <1>7, <1>8 DEF Next, Advance

\* Where a URL stands for one request, no stale answers are allowed and every flight
\* fits the map, an answer that was overtaken on its way replaces no newer one.
THEOREM CacheNeverOvertaken ==
    ASSUME UrlTellsRequest
    PROVE  Spec => CacheNeverGoesBack
<1>1. IInv /\ [Next]_vars =>
        [~setup.staleAllowed /\ setup.maxKeys >= Cardinality(Requests) =>
           \A key \in Keys(mem) \intersect Keys(mem') :
               EntryFor(mem', key).data.version >= EntryFor(mem, key).data.version]_vars
  BY VersionKept DEF RoomForAll
<1> QED
  BY <1>1, Invariance, PTL DEF Spec, CacheNeverGoesBack
=============================================================================
