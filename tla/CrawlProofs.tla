---------------------------- MODULE CrawlProofs ----------------------------
(***************************************************************************)
(* Theorems about what a crawl comes to.                                   *)
(*                                                                         *)
(* CrawlQueue, for any site, seed, batch size, interval of saving and room *)
(* for fingerprints, and for any number of pauses: what a crawl has come   *)
(* to it visits, queues or holds, through a second loop on the same state, *)
(* and through a crash from the file on.                                   *)
(*                                                                         *)
(* Discover, for any robots.txt and any finite set of sitemaps: the rules  *)
(* obeyed are those written for the agent, and the pages found are those   *)
(* of the tree.                                                            *)
(***************************************************************************)
EXTENDS CrawlQueue, Discover, Integers, TLAPS, FiniteSetTheorems, SequenceTheorems,
        NaturalsInduction, WellFoundedInduction

-----------------------------------------------------------------------------
(* Recursive functions, and what the helpers of a crawl make of sequences. *)

\* A set that holds 0 and with every number the next one holds every number.
LEMMA AllNumbers ==
    ASSUME NEW S, 0 \in S, \A n \in Nat : n \in S => n + 1 \in S
    PROVE  Nat \subseteq S
<1> DEFINE R == {pair \in Nat \X Nat : pair[1] < pair[2]}
<1>1. IsWellFoundedOn(R, Nat)
  BY NatLessThanWellFounded, Zenon DEF OpToRel
<1> SUFFICES ASSUME Nat \ S # {} PROVE FALSE
  OBVIOUS
<1>2. Nat \ S \subseteq Nat
  OBVIOUS
<1>3. PICK n \in Nat \ S : \A m \in Nat \ S : ~ (<<m, n>> \in R)
  <2> HIDE DEF R
  <2> QED
    BY <1>1, <1>2, WFMin
<1>4. n - 1 \in Nat /\ n - 1 < n
  BY <1>3
<1>5. n - 1 \in S
  BY <1>3, <1>4
<1> QED
  BY <1>4, <1>5

\* A set of numbers has a least one.
LEMMA LeastOf ==
    ASSUME NEW S \in SUBSET Nat, S # {}
    PROVE  \E n \in S : \A m \in S : n <= m
<1> DEFINE Lower == {n \in Nat : \A m \in 0..n : m \notin S}
<1>1. SUFFICES ASSUME \A n \in S : \E m \in S : m < n PROVE FALSE
  <2>1. PICK n \in S : \A m \in S : ~(m < n)
    BY <1>1
  <2>2. \A m \in S : n <= m
    BY <2>1
  <2> QED
    BY <2>2
<1>2. 0 \in Lower
  BY <1>1
<1>3. \A n \in Nat : n \in Lower => n + 1 \in Lower
  <2> TAKE n \in Nat
  <2> HAVE n \in Lower
  <2>1. n + 1 \notin S
    <3> SUFFICES ASSUME n + 1 \in S PROVE FALSE
      OBVIOUS
    <3>1. PICK m \in S : m < n + 1
      BY <1>1
    <3>2. m \in 0..n
      BY <3>1
    <3> QED
      BY <3>2
  <2>2. \A m \in 0..n + 1 : m = n + 1 \/ m \in 0..n
    OBVIOUS
  <2> QED
    BY <2>1, <2>2
<1>4. Nat \subseteq Lower
  <2> HIDE DEF Lower
  <2> QED
    BY <1>2, <1>3, AllNumbers
<1>5. \A n \in S : n \in 0..n /\ n \notin S
  <2> TAKE n \in S
  <2>1. n \in Nat /\ n \in Lower /\ n \in 0..n
    BY <1>4
  <2> QED
    BY <2>1
<1> QED
  BY <1>5

GoesOn(g, first, next, n) == g[0] = first /\ \A k \in 1..n : g[k] = next[g[k - 1]][k]

\* A function that goes on from each number to the next by a function of its last value exists.
LEMMA Recursion ==
    ASSUME NEW A, NEW first \in A, NEW next \in [A -> [Nat -> A]], NEW N \in Nat
    PROVE  \E g \in [0..N -> A] : GoesOn(g, first, next, N)
<1> DEFINE Works(g, m) == /\ g \in [0..m -> A]
                          /\ g[0] = first
                          /\ \A k \in 1..m : g[k] = next[g[k - 1]][k]
           Far == {m \in Nat : \E g : Works(g, m)}
<1>1. 0 \in Far
  <2> DEFINE g == [k \in 0..0 |-> first]
  <2>1. Works(g, 0)
    OBVIOUS
  <2> QED
    BY <2>1
<1>2. \A m \in Nat : m \in Far => m + 1 \in Far
  <2> TAKE m \in Nat
  <2> HAVE m \in Far
  <2>1. PICK g : Works(g, m)
    OBVIOUS
  <2> DEFINE h == [k \in 0..m + 1 |-> IF k = m + 1 THEN next[g[m]][m + 1] ELSE g[k]]
  <2>2. g[m] \in A /\ next[g[m]][m + 1] \in A
    BY <2>1
  <2>3. h \in [0..m + 1 -> A] /\ h[0] = first
    BY <2>1, <2>2
  <2>4. ASSUME NEW k \in 1..m + 1 PROVE h[k] = next[h[k - 1]][k]
    <3>1. CASE k = m + 1
      <4>1. k \in 0..m + 1 /\ m \in 0..m + 1 /\ m # m + 1 /\ k - 1 = m
        BY <3>1
      <4> QED
        BY <3>1, <4>1
    <3>2. CASE k # m + 1
      <4>1. /\ k \in 1..m /\ k \in 0..m + 1 /\ k - 1 \in 0..m + 1 /\ k - 1 # m + 1
        BY <3>2
      <4> QED
        BY <2>1, <3>2, <4>1
    <3> QED
      BY <3>1, <3>2
  <2>5. Works(h, m + 1)
    BY <2>3, <2>4
  <2> HIDE DEF h, Works
  <2> QED
    BY <2>5
<1>3. N \in Far
  <2> HIDE DEF Far
  <2> QED
    BY <1>1, <1>2, AllNumbers
<1>4. PICK g : Works(g, N)
  BY <1>3
<1>5. GoesOn(g, first, next, N)
  BY <1>4 DEF GoesOn
<1> QED
  BY <1>4, <1>5

\* An element appended is in the sequence, with all that were there.
LEMMA AppendedFacts ==
    ASSUME NEW U, NEW s \in Seq(U), NEW e \in U
    PROVE  Append(s, e) \in Seq(U) /\ InSeq(Append(s, e)) = InSeq(s) \union {e}
<1>1. /\ Append(s, e) \in Seq(U) /\ Len(s) \in Nat /\ DOMAIN s = 1..Len(s)
      /\ DOMAIN Append(s, e) = 1..Len(s) + 1 /\ Append(s, e)[Len(s) + 1] = e
      /\ \A k \in 1..Len(s) : Append(s, e)[k] = s[k]
  OBVIOUS
<1>2. \A k \in 1..Len(s) + 1 : k \in 1..Len(s) \/ k = Len(s) + 1
  BY <1>1
<1>3. Len(s) + 1 \in 1..Len(s) + 1 /\ \A k \in 1..Len(s) : k \in 1..Len(s) + 1
  BY <1>1
<1> QED
  BY <1>1, <1>2, <1>3 DEF InSeq

\* Two sequences put together have the elements of both.
LEMMA JoinedFacts ==
    ASSUME NEW U, NEW s \in Seq(U), NEW t \in Seq(U)
    PROVE  s \o t \in Seq(U) /\ InSeq(s \o t) = InSeq(s) \union InSeq(t)
<1>1. /\ s \o t \in Seq(U) /\ Len(s) \in Nat /\ Len(t) \in Nat
      /\ DOMAIN s = 1..Len(s) /\ DOMAIN t = 1..Len(t) /\ DOMAIN (s \o t) = 1..Len(s) + Len(t)
  OBVIOUS
<1>2. \A k \in 1..Len(s) : k \in 1..Len(s) + Len(t) /\ (s \o t)[k] = s[k]
  BY <1>1
<1>3. \A k \in 1..Len(t) : Len(s) + k \in 1..Len(s) + Len(t) /\ (s \o t)[Len(s) + k] = t[k]
  BY <1>1
<1>4. \A k \in 1..Len(s) + Len(t) : k \in 1..Len(s) \/ \E j \in 1..Len(t) : k = Len(s) + j
  <2> TAKE k \in 1..Len(s) + Len(t)
  <2>1. CASE k <= Len(s)
    BY <1>1, <2>1
  <2>2. CASE ~(k <= Len(s))
    <3>1. k - Len(s) \in 1..Len(t) /\ k = Len(s) + (k - Len(s))
      BY <1>1, <2>2
    <3> QED
      BY <3>1
  <2> QED
    BY <2>1, <2>2
<1> DEFINE j == s \o t
<1>5. j \in Seq(U) /\ DOMAIN j = 1..Len(s) + Len(t)
  BY <1>1
<1>6. /\ \A k \in DOMAIN s : k \in DOMAIN j /\ j[k] = s[k]
      /\ \A k \in DOMAIN t : Len(s) + k \in DOMAIN j /\ j[Len(s) + k] = t[k]
      /\ \A k \in DOMAIN j : k \in DOMAIN s \/ \E i \in DOMAIN t : k = Len(s) + i
  BY <1>1, <1>2, <1>3, <1>4, <1>5
<1> HIDE DEF j
<1>7. InSeq(j) = InSeq(s) \union InSeq(t)
  <2>1. ASSUME NEW x \in InSeq(j) PROVE x \in InSeq(s) \union InSeq(t)
    <3>1. PICK k \in DOMAIN j : x = j[k]
      BY <2>1 DEF InSeq
    <3>2. CASE k \in DOMAIN s
      BY <1>6, <3>1, <3>2 DEF InSeq
    <3>3. CASE \E i \in DOMAIN t : k = Len(s) + i
      BY <1>6, <3>1, <3>3 DEF InSeq
    <3> QED
      BY <1>6, <3>2, <3>3
  <2>2. \A x \in InSeq(s) : x \in InSeq(j)
    BY <1>6, Zenon DEF InSeq
  <2>3. \A x \in InSeq(t) : x \in InSeq(j)
    BY <1>6, Zenon DEF InSeq
  <2> QED
    BY <2>1, <2>2, <2>3
<1> QED
  BY <1>5, <1>7 DEF j

\* Those are the elements of the sequence that are in the set.
LEMMA ThoseFacts ==
    ASSUME NEW U, NEW urls \in Seq(U), NEW set
    PROVE  Those(urls, set) \in Seq(U) /\ InSeq(Those(urls, set)) = InSeq(urls) \intersect set
<1> DEFINE N == Len(urls)
           next == [s \in Seq(U) |-> [k \in Nat |->
                       IF k \in 1..N /\ urls[k] \in set THEN Append(s, urls[k]) ELSE s]]
           taken[k \in 0..N] ==
              IF k = 0 THEN <<>>
              ELSE IF urls[k] \in set THEN Append(taken[k - 1], urls[k]) ELSE taken[k - 1]
<1>1. N \in Nat /\ DOMAIN urls = 1..N /\ \A k \in 1..N : urls[k] \in U
  OBVIOUS
<1>2. next \in [Seq(U) -> [Nat -> Seq(U)]]
  BY <1>1
<1>3. <<>> \in Seq(U)
  OBVIOUS
<1>4. PICK g \in [0..N -> Seq(U)] : GoesOn(g, <<>>, next, N)
  <2> HIDE DEF next, N
  <2> QED
    BY <1>1, <1>2, <1>3, Recursion, Zenon
<1>5. \A k \in 1..N : g[k] = IF urls[k] \in set THEN Append(g[k - 1], urls[k]) ELSE g[k - 1]
  <2> TAKE k \in 1..N
  <2>1. k - 1 \in 0..N /\ k \in Nat
    BY <1>1
  <2>2. g[k - 1] \in Seq(U)
    BY <2>1
  <2>3. g[k] = next[g[k - 1]][k]
    BY <1>4 DEF GoesOn
  <2> QED
    BY <2>1, <2>2, <2>3
<1>6. /\ taken[0] = <<>>
      /\ \A k \in 1..N : taken[k] = IF urls[k] \in set THEN Append(taken[k - 1], urls[k]) ELSE taken[k - 1]
  <2> HIDE DEF next, N
  <2>1. 0 \in 0..N /\ \A k \in 1..N : k \in 0..N /\ k # 0
    BY <1>1
  <2>2. \A k \in 0..N : k # 0 => k \in 1..N
    BY <1>1
  <2>3. g = [k \in 0..N |-> IF k = 0 THEN <<>>
                            ELSE IF urls[k] \in set THEN Append(g[k - 1], urls[k]) ELSE g[k - 1]]
    BY <1>4, <1>5, <2>2 DEF GoesOn
  <2>4. taken = [k \in 0..N |-> IF k = 0 THEN <<>>
                               ELSE IF urls[k] \in set THEN Append(taken[k - 1], urls[k]) ELSE taken[k - 1]]
    BY <2>3
  <2> HIDE DEF taken
  <2> QED
    BY <2>1, <2>4
<1>7. Those(urls, set) = taken[N]
  BY DEF Those
<1> DEFINE Good == {n \in Nat : n <= N => /\ taken[n] \in Seq(U)
                                          /\ InSeq(taken[n]) = {urls[j] : j \in 1..n} \intersect set}
<1> HIDE DEF taken, next, N
<1>8. 0 \in Good
  <2>1. taken[0] = <<>>
    BY <1>6
  <2>2. {urls[j] : j \in 1..0} = {} /\ InSeq(<<>>) = {}
    BY DEF InSeq
  <2>3. taken[0] \in Seq(U)
    BY <1>3, <2>1
  <2> QED
    BY <2>1, <2>2, <2>3
<1>9. \A n \in Nat : n \in Good => n + 1 \in Good
  <2> TAKE n \in Nat
  <2> HAVE n \in Good
  <2> SUFFICES ASSUME n + 1 <= N
               PROVE  /\ taken[n + 1] \in Seq(U)
                      /\ InSeq(taken[n + 1]) = {urls[j] : j \in 1..n + 1} \intersect set
    OBVIOUS
  <2>1. n <= N /\ n + 1 \in 1..N /\ n + 1 \in 0..N /\ (n + 1) - 1 = n
    BY <1>1
  <2>2. taken[n] \in Seq(U) /\ InSeq(taken[n]) = {urls[j] : j \in 1..n} \intersect set
    BY <2>1
  <2>3. taken[n + 1] = IF urls[n + 1] \in set THEN Append(taken[n], urls[n + 1]) ELSE taken[n]
    BY <1>6, <2>1, Zenon
  <2>4. {urls[j] : j \in 1..n + 1} = {urls[j] : j \in 1..n} \union {urls[n + 1]}
    <3>1. \A j \in 1..n + 1 : j \in 1..n \/ j = n + 1
      OBVIOUS
    <3>2. \A j \in 1..n : j \in 1..n + 1
      OBVIOUS
    <3>3. n + 1 \in 1..n + 1
      OBVIOUS
    <3> QED
      BY <3>1, <3>2, <3>3
  <2>5. CASE urls[n + 1] \in set
    <3>1. taken[n + 1] = Append(taken[n], urls[n + 1]) /\ urls[n + 1] \in U
      BY <1>1, <2>1, <2>3, <2>5
    <3>2. taken[n + 1] \in Seq(U) /\ InSeq(taken[n + 1]) = InSeq(taken[n]) \union {urls[n + 1]}
      BY <2>2, <3>1, AppendedFacts
    <3> QED
      BY <2>2, <2>4, <2>5, <3>2
  <2>6. CASE urls[n + 1] \notin set
    BY <2>2, <2>3, <2>4, <2>6
  <2> QED
    BY <2>5, <2>6
<1>10. N \in Good
  <2> HIDE DEF Good
  <2> QED
    BY <1>1, <1>8, <1>9, AllNumbers
<1>11. InSeq(urls) = {urls[j] : j \in 1..N}
  BY <1>1 DEF InSeq
<1>12. taken[N] \in Seq(U) /\ InSeq(taken[N]) = {urls[j] : j \in 1..N} \intersect set
  BY <1>1, <1>10
<1> QED
  BY <1>7, <1>11, <1>12

-----------------------------------------------------------------------------
(* The invariant of a crawl. *)

Memories == [visited: SUBSET Urls, frontier: Seq(Urls), results: SUBSET Urls]

VisitStates ==
    {v \in [url: Urls, links: Seq(Urls), place: {"asking", "fetching", "checking", "ok", "failed"}] :
        v.place # "ok" => v.links = <<>>}

HasFile == stateFile \notin {NoFile, Torn}

CrawlTyped ==
    /\ memory \in Memories
    /\ loops \in [Loops -> Seq(VisitStates)]
    /\ HasFile => stateFile \in [memory: Memories, missing: SUBSET Urls]
    /\ seen \subseteq Urls /\ entries \in Seq(Urls) /\ lost \subseteq Urls

Known(m) == m.visited \union InSeq(m.frontier)

ToFollow(u) == (InSeq(PageLinks[u]) \intersect Follow) \ Forbidden

\* A memory knows what its results link to, and the seed, but for what is missing.
Keeps(m, missing) ==
    /\ \A u \in m.results : ToFollow(u) \subseteq Known(m) \union missing
    /\ InSeq(Seed) \subseteq Known(m) \union missing
    /\ m.results \subseteq m.visited

\* What was seen and is to be followed is remembered; and so are the links of a page that a
\* visit has read, which may return fewer.
SeenKept == seen \intersect Follow \subseteq Remembered
ReadKept == \A v \in Visits(0) : v.place = "ok" => ToFollow(v.url) \subseteq Remembered

FileKept == HasFile => Keeps(stateFile.memory, stateFile.missing)

\* A paused crawl has all in its file that it knows; a new one is visiting nothing.
PausedIsSaved ==
    /\ life = "paused" /\ HasFile => stateFile.memory = memory /\ lost \subseteq stateFile.missing
    /\ life \in {"new", "crawling", "paused"}
    /\ life = "new" => seen = {} /\ \A l \in Loops : loops[l] = <<>>

NoDuplicates == \A i, j \in DOMAIN entries : i # j => <<entries[i], entries[j]>> \notin Near

CrawlIInv ==
    /\ CrawlTyped /\ Keeps(memory, Held(0) \union lost)
    /\ SeenKept /\ ReadKept /\ FileKept /\ PausedIsSaved /\ NoDuplicates

-----------------------------------------------------------------------------
(* What a batch and its end make of a memory. *)

\* What a visit returned is in the memory after it: its URL is visited, its links are known.
LEMMA CollectFacts ==
    ASSUME NEW m \in Memories, NEW v \in VisitStates
    PROVE  LET c == Collect(m, v)
           IN  /\ c \in Memories
               /\ c.visited = m.visited \union {v.url}
               /\ Known(m) \subseteq Known(c)
               /\ v.place # "failed" => InSeq(v.links) \intersect Follow \subseteq Known(c)
               /\ m.results \subseteq c.results
               /\ c.results \subseteq m.results \union {u \in {v.url} : v.place # "failed"}
<1> DEFINE c == Collect(m, v)
           visited == m.visited \union {v.url}
           new == Follow \ (visited \union InSeq(m.frontier))
<1>1. /\ m.visited \subseteq Urls /\ m.frontier \in Seq(Urls) /\ m.results \subseteq Urls
      /\ v.url \in Urls /\ v.links \in Seq(Urls)
  BY DEF Memories, VisitStates
<1>2. CASE v.place = "failed"
  <2>1. c = [m EXCEPT !.visited = visited]
    BY <1>2 DEF Collect
  <2>2. c \in Memories /\ c.visited = visited /\ c.frontier = m.frontier /\ c.results = m.results
    BY <1>1, <2>1 DEF Memories
  <2> HIDE DEF c
  <2>3. Known(m) \subseteq Known(c)
    BY <2>2 DEF Known
  <2> QED
    BY <1>2, <2>2, <2>3 DEF c
<1>3. CASE v.place # "failed"
  <2> DEFINE t == Those(v.links, new)
  <2>1. t \in Seq(Urls) /\ InSeq(t) = InSeq(v.links) \intersect new
    BY <1>1, ThoseFacts
  <2>2. c = [visited |-> visited, frontier |-> m.frontier \o t, results |-> m.results \union {v.url}]
    BY <1>3 DEF Collect
  <2> HIDE DEF t
  <2>3. m.frontier \o t \in Seq(Urls) /\ InSeq(m.frontier \o t) = InSeq(m.frontier) \union InSeq(t)
    BY <1>1, <2>1, JoinedFacts
  <2>4. /\ c \in Memories /\ c.visited = visited /\ c.results = m.results \union {v.url}
        /\ InSeq(c.frontier) = InSeq(m.frontier) \union InSeq(t)
    BY <1>1, <2>2, <2>3 DEF Memories
  <2> HIDE DEF c
  <2>5. Known(m) \subseteq Known(c)
    BY <2>4 DEF Known
  <2>6. InSeq(v.links) \intersect Follow \subseteq Known(c)
    BY <2>1, <2>4 DEF Known
  <2> QED
    BY <1>3, <2>4, <2>5, <2>6 DEF c
<1> QED
  BY <1>2, <1>3

\* The same of a whole batch.
LEMMA CollectedFacts ==
    ASSUME NEW m \in Memories, NEW batch \in Seq(VisitStates)
    PROVE  LET c == Collected(m, batch)
           IN  /\ c \in Memories
               /\ Known(m) \subseteq Known(c)
               /\ \A k \in DOMAIN batch :
                     /\ batch[k].url \in c.visited
                     /\ batch[k].place # "failed" => InSeq(batch[k].links) \intersect Follow \subseteq Known(c)
               /\ \A u \in c.results : u \in m.results \/
                     \E k \in DOMAIN batch : batch[k].url = u /\ batch[k].place # "failed"
               /\ m.results \subseteq m.visited => c.results \subseteq c.visited
<1> DEFINE N == Len(batch)
           next == [a \in Memories |-> [k \in Nat |->
                       IF k \in 1..N THEN Collect(a, batch[k]) ELSE a]]
           after[k \in 0..N] == IF k = 0 THEN m ELSE Collect(after[k - 1], batch[k])
<1>1. N \in Nat /\ DOMAIN batch = 1..N /\ \A k \in 1..N : batch[k] \in VisitStates
  OBVIOUS
<1>2. next \in [Memories -> [Nat -> Memories]]
  <2>1. \A a \in Memories, k \in 1..N : Collect(a, batch[k]) \in Memories
    BY <1>1, CollectFacts
  <2> QED
    BY <2>1
<1>3. PICK g \in [0..N -> Memories] : GoesOn(g, m, next, N)
  <2> HIDE DEF next, N
  <2> QED
    BY <1>1, <1>2, Recursion, Zenon
<1>4. \A k \in 1..N : g[k] = Collect(g[k - 1], batch[k])
  <2> TAKE k \in 1..N
  <2>1. k - 1 \in 0..N /\ k \in Nat
    BY <1>1
  <2>2. g[k - 1] \in Memories
    BY <2>1
  <2>3. g[k] = next[g[k - 1]][k]
    BY <1>3 DEF GoesOn
  <2> QED
    BY <2>1, <2>2, <2>3
<1>5. after[0] = m /\ \A k \in 1..N : after[k] = Collect(after[k - 1], batch[k])
  <2> HIDE DEF next, N
  <2>1. 0 \in 0..N /\ \A k \in 1..N : k \in 0..N /\ k # 0
    BY <1>1
  <2>2. \A k \in 0..N : k # 0 => k \in 1..N
    BY <1>1
  <2>3. g = [k \in 0..N |-> IF k = 0 THEN m ELSE Collect(g[k - 1], batch[k])]
    BY <1>3, <1>4, <2>2 DEF GoesOn
  <2>4. after = [k \in 0..N |-> IF k = 0 THEN m ELSE Collect(after[k - 1], batch[k])]
    BY <2>3
  <2> HIDE DEF after
  <2> QED
    BY <2>1, <2>4
<1>6. Collected(m, batch) = after[N]
  BY DEF Collected
<1> DEFINE Sound(n) ==
             LET c == after[n]
             IN  /\ c \in Memories
                 /\ Known(m) \subseteq Known(c)
                 /\ \A k \in 1..n :
                       /\ batch[k].url \in c.visited
                       /\ batch[k].place # "failed" =>
                             InSeq(batch[k].links) \intersect Follow \subseteq Known(c)
                 /\ \A u \in c.results : u \in m.results \/
                       \E k \in 1..n : batch[k].url = u /\ batch[k].place # "failed"
                 /\ m.results \subseteq m.visited => c.results \subseteq c.visited
           Good == {n \in Nat : n <= N => Sound(n)}
<1> HIDE DEF after, next, N
<1>7. 0 \in Good
  <2>1. Sound(0)
    BY <1>5
  <2> QED
    BY <2>1
<1>8. \A n \in Nat : n \in Good => n + 1 \in Good
  <2> TAKE n \in Nat
  <2> HAVE n \in Good
  <2> SUFFICES ASSUME n + 1 <= N PROVE Sound(n + 1)
    OBVIOUS
  <2>1. n <= N /\ n + 1 \in 1..N /\ (n + 1) - 1 = n
    BY <1>1
  <2>2. Sound(n)
    BY <2>1
  <2> DEFINE a == after[n]
             v == batch[n + 1]
             c == Collect(a, v)
  <2>3. after[n + 1] = c
    BY <1>5, <2>1, Zenon
  <2>4. a \in Memories /\ v \in VisitStates
    BY <1>1, <2>1, <2>2
  <2> HIDE DEF a, v
  <2>5. /\ c \in Memories
        /\ c.visited = a.visited \union {v.url}
        /\ Known(a) \subseteq Known(c)
        /\ v.place # "failed" => InSeq(v.links) \intersect Follow \subseteq Known(c)
        /\ c.results \subseteq a.results \union {u \in {v.url} : v.place # "failed"}
    BY <2>4, CollectFacts
  <2> HIDE DEF c
  <2>6. \A k \in 1..n + 1 : k \in 1..n \/ (k = n + 1 /\ batch[k] = v)
    BY DEF v
  <2>7. n + 1 \in 1..n + 1 /\ batch[n + 1] = v /\ \A k \in 1..n : k \in 1..n + 1
    BY DEF v
  <2>8. \A k \in 1..n + 1 :
           /\ batch[k].url \in c.visited
           /\ batch[k].place # "failed" => InSeq(batch[k].links) \intersect Follow \subseteq Known(c)
    BY <2>2, <2>5, <2>6 DEF a
  <2>9. \A u \in c.results : u \in m.results \/
           \E k \in 1..n + 1 : batch[k].url = u /\ batch[k].place # "failed"
    <3> TAKE u \in c.results
    <3>1. CASE u \in a.results
      BY <2>2, <2>7, <3>1 DEF a
    <3>2. CASE u = v.url /\ v.place # "failed"
      BY <2>7, <3>2
    <3> QED
      BY <2>5, <3>1, <3>2
  <2>10. m.results \subseteq m.visited => c.results \subseteq c.visited
    BY <2>2, <2>5 DEF a
  <2> QED
    BY <2>2, <2>3, <2>5, <2>8, <2>9, <2>10 DEF a
<1>9. N \in Good
  <2> HIDE DEF Good
  <2> QED
    BY <1>1, <1>7, <1>8, AllNumbers
<1>10. Sound(N)
  BY <1>1, <1>9
<1> QED
  BY <1>1, <1>6, <1>10

-----------------------------------------------------------------------------
(* The head of the loop: the queue is shifted, the batch is under way, the file is saved. *)

\* The queue is shifted no further than to its end.
LEMMA ShiftsInside ==
    ASSUME NEW m \in Memories
    PROVE  Shifts(m) \in 0..Len(m.frontier)
<1> DEFINE unvisited(k) == Cardinality({j \in 1..k : m.frontier[j] \notin m.visited})
           ends == {k \in DOMAIN m.frontier : unvisited(k) = Concurrency}
<1>1. m.frontier \in Seq(Urls) /\ Len(m.frontier) \in Nat /\ DOMAIN m.frontier = 1..Len(m.frontier)
  BY DEF Memories
<1>2. CASE ends = {}
  <2>1. Shifts(m) = Len(m.frontier)
    BY <1>2 DEF Shifts
  <2> QED
    BY <1>1, <2>1
<1>3. CASE ends # {}
  <2>1. Shifts(m) = CHOOSE k \in ends : \A j \in ends : k <= j
    BY <1>3 DEF Shifts
  <2>2. ends \subseteq Nat /\ ends \subseteq 1..Len(m.frontier)
    BY <1>1
  <2> HIDE DEF ends
  <2>3. \E k \in ends : \A j \in ends : k <= j
    BY <1>3, <2>2, LeastOf
  <2>4. Shifts(m) \in ends
    BY <2>1, <2>3
  <2>5. Shifts(m) \in 1..Len(m.frontier)
    BY <2>2, <2>4
  <2> QED
    BY <1>1, <2>5
<1> QED
  BY <1>2, <1>3

\* What is known is in the rest of the queue, visited, or in the batch, whose visits begin.
LEMMA ShiftFacts ==
    ASSUME NEW m \in Memories
    PROVE  /\ Shifted(m) \in Memories
           /\ Shifted(m).visited = m.visited /\ Shifted(m).results = m.results
           /\ Batch(m) \in Seq(VisitStates)
           /\ \A k \in DOMAIN Batch(m) : Batch(m)[k].place # "ok"
           /\ \A u \in Known(m) : u \in Known(Shifted(m)) \/ \E k \in DOMAIN Batch(m) : Batch(m)[k].url = u
<1> DEFINE f == m.frontier
           n == Shifts(m)
           front == SubSeq(f, 1, n)
           rest == SubSeq(f, n + 1, Len(f))
           urls == Those(front, Urls \ m.visited)
<1>1. /\ f \in Seq(Urls) /\ Len(f) \in Nat /\ DOMAIN f = 1..Len(f)
      /\ m.visited \subseteq Urls /\ m.results \subseteq Urls /\ n \in 0..Len(f)
  BY ShiftsInside DEF Memories
<1> HIDE DEF n, f
<1>2. /\ front \in Seq(Urls) /\ DOMAIN front = 1..n /\ \A k \in 1..n : front[k] = f[k]
  BY <1>1
<1>3. /\ rest \in Seq(Urls) /\ DOMAIN rest = 1..Len(f) - n
      /\ \A k \in 1..Len(f) - n : rest[k] = f[n + k]
  BY <1>1
<1>4. Shifted(m) = [m EXCEPT !.frontier = rest]
  BY DEF Shifted, n, f
<1>5. /\ Shifted(m) \in Memories /\ Shifted(m).visited = m.visited /\ Shifted(m).results = m.results
      /\ Shifted(m).frontier = rest
  BY <1>3, <1>4 DEF Memories
<1>6. urls \in Seq(Urls) /\ InSeq(urls) = InSeq(front) \intersect (Urls \ m.visited)
  BY <1>2, ThoseFacts
<1> DEFINE place(u) == IF robots = "unknown" THEN "asking"
                       ELSE IF robots = "rules" /\ u \in Forbidden THEN "failed" ELSE "fetching"
<1>7. Batch(m) = [k \in DOMAIN urls |-> [url |-> urls[k], links |-> <<>>, place |-> place(urls[k])]]
  BY DEF Batch, f, n
<1> HIDE DEF urls
<1>8. /\ Len(urls) \in Nat /\ DOMAIN urls = 1..Len(urls)
      /\ \A k \in 1..Len(urls) : [url |-> urls[k], links |-> <<>>, place |-> place(urls[k])] \in VisitStates
  BY <1>6 DEF VisitStates
<1>9. /\ Batch(m) \in Seq(VisitStates) /\ DOMAIN Batch(m) = 1..Len(urls)
      /\ \A k \in 1..Len(urls) : Batch(m)[k].place # "ok" /\ Batch(m)[k].url = urls[k]
  BY <1>7, <1>8
<1>10. ASSUME NEW u \in Known(m)
       PROVE  u \in Known(Shifted(m)) \/ \E k \in DOMAIN Batch(m) : Batch(m)[k].url = u
  <2>1. CASE u \in m.visited
    BY <1>5, <2>1 DEF Known
  <2>2. CASE u \notin m.visited
    <3>1. PICK k \in 1..Len(f) : u = f[k]
      BY <1>1, <2>2 DEF Known, InSeq, f
    <3>2. CASE k <= n
      <4>0. k \in DOMAIN front /\ front[k] = u /\ u \in Urls
        <5>1. k \in 1..n
          BY <1>1, <3>2
        <5> QED
          BY <1>1, <1>2, <3>1, <5>1
      <4> HIDE DEF front
      <4>1. u \in InSeq(front) /\ u \in Urls
        BY <4>0 DEF InSeq
      <4>2. u \in InSeq(urls)
        BY <1>6, <2>2, <4>1
      <4> QED
        BY <1>8, <1>9, <4>2 DEF InSeq
    <3>3. CASE ~(k <= n)
      <4>1. k - n \in 1..Len(f) - n /\ n + (k - n) = k
        BY <1>1, <3>3
      <4>2. u = rest[k - n] /\ k - n \in DOMAIN rest
        BY <1>3, <3>1, <4>1
      <4>3. u \in InSeq(rest)
        BY <4>2 DEF InSeq
      <4> QED
        BY <1>5, <4>3 DEF Known
    <3> QED
      BY <3>2, <3>3
  <2> QED
    BY <2>1, <2>2
<1> QED
  BY <1>5, <1>9, <1>10

HoldsOf(v) == {v.url} \union (InSeq(v.links) \intersect Follow)

\* What visits hold is what those of one loop hold and what those of the others do.
LEMMA HeldFacts ==
    ASSUME NEW l \in Loops
    PROVE  /\ Visits(0) = Visits(l) \union InSeq(loops[l])
           /\ \A x : x \in Held(0) <=> \E v \in Visits(0) : x \in HoldsOf(v)
           /\ \A x : x \in Held(l) <=> \E v \in Visits(l) : x \in HoldsOf(v)
           /\ loops[l] = <<>> => Visits(l) = Visits(0) /\ Held(l) = Held(0)
<1>1. Visits(0) = Visits(l) \union InSeq(loops[l])
  <2>1. Loops \ {0} = (Loops \ {l}) \union {l}
    BY DEF Loops
  <2> QED
    BY <2>1 DEF Visits
<1>2. /\ \A x : x \in Held(0) <=> \E v \in Visits(0) : x \in HoldsOf(v)
      /\ \A x : x \in Held(l) <=> \E v \in Visits(l) : x \in HoldsOf(v)
  BY DEF Held, HoldsOf
<1>3. ASSUME loops[l] = <<>> PROVE Visits(l) = Visits(0) /\ Held(l) = Held(0)
  <2>1. InSeq(loops[l]) = {}
    BY <1>3 DEF InSeq
  <2>2. Visits(l) = Visits(0)
    BY <1>1, <2>1
  <2> QED
    BY <2>2 DEF Held
<1> QED
  BY <1>1, <1>2, <1>3

\* The head of a loop keeps what is known, held and lost, and the file has it, too, but for
\* what is held; it has all that the memory has unless the crawl goes on.
LEMMA GoOnFacts ==
    ASSUME CrawlTyped, NEW l \in Loops, NEW m \in Memories, NEW saves, GoOn(l, m, saves)
    PROVE  /\ memory' \in Memories /\ memory'.visited = m.visited /\ memory'.results = m.results
           /\ loops' \in [Loops -> Seq(VisitStates)]
           /\ \A v \in Visits(0)' : v \in Visits(l) \/ v.place # "ok"
           /\ Held(l) \subseteq Held(0)'
           /\ Known(m) \subseteq Known(memory') \union Held(0)'
           /\ \/ UNCHANGED stateFile /\ life' = "crawling"
              \/ \E s \in Memories :
                    /\ stateFile' = [memory |-> s, missing |-> Held(l) \union lost']
                    /\ s.visited = m.visited /\ s.results = m.results /\ Known(m) \subseteq Known(s)
                    /\ life' # "crawling" => s = memory'
<1> DEFINE goes == life' = "crawling" /\ Cardinality(m.visited) < MaxUrls
           s == Shifted(m)
           b == Batch(m)
<1>1. /\ s \in Memories /\ s.visited = m.visited /\ s.results = m.results
      /\ b \in Seq(VisitStates) /\ \A k \in DOMAIN b : b[k].place # "ok"
      /\ \A u \in Known(m) : u \in Known(s) \/ \E k \in DOMAIN b : b[k].url = u
  BY ShiftFacts
<1>2. loops \in [Loops -> Seq(VisitStates)]
  BY DEF CrawlTyped
<1> HIDE DEF s, b
<1>3. ASSUME NEW new \in Seq(VisitStates), loops' = [loops EXCEPT ![l] = new],
             \A k \in DOMAIN new : new[k].place # "ok"
      PROVE  /\ loops' \in [Loops -> Seq(VisitStates)]
             /\ \A v \in Visits(0)' : v \in Visits(l) \/ v.place # "ok"
             /\ Held(l) \subseteq Held(0)'
             /\ \A k \in DOMAIN new : new[k].url \in Held(0)'
  <2>1. /\ loops' \in [Loops -> Seq(VisitStates)] /\ loops'[l] = new
        /\ \A i \in Loops \ {l} : loops'[i] = loops[i]
    BY <1>2, <1>3
  <2>2. UNION {InSeq(loops'[i]) : i \in Loops \ {0}} = Visits(l) \union InSeq(new)
    <3>1. Loops \ {0} = (Loops \ {l}) \union {l}
      BY DEF Loops
    <3> QED
      BY <2>1, <3>1 DEF Visits
  <2>3. Visits(0)' = Visits(l) \union InSeq(new)
    BY <2>2 DEF Visits
  <2>4. \A v \in InSeq(new) : v.place # "ok"
    BY <1>3 DEF InSeq
  <2>5. Held(0)' = UNION {HoldsOf(v) : v \in Visits(0)'} /\ Held(l) = UNION {HoldsOf(v) : v \in Visits(l)}
    BY DEF Held, HoldsOf
  <2>6. \A k \in DOMAIN new : new[k] \in InSeq(new) /\ new[k].url \in HoldsOf(new[k])
    BY DEF InSeq, HoldsOf
  <2> QED
    BY <2>1, <2>3, <2>4, <2>5, <2>6
<1>4. CASE goes /\ b # <<>>
  <2>1. /\ memory' = s /\ loops' = [loops EXCEPT ![l] = b]
        /\ stateFile' = IF saves THEN Saved(m, Held(l)) ELSE stateFile
    BY <1>4 DEF GoOn, s, b
  <2>2. stateFile' = stateFile \/ stateFile' = [memory |-> m, missing |-> Held(l) \union lost']
    BY <2>1 DEF Saved
  <2>3. Known(m) \subseteq Known(memory') \union Held(0)'
    BY <1>1, <1>3, <2>1
  <2> QED
    BY <1>1, <1>3, <1>4, <2>1, <2>2, <2>3
<1>5. CASE ~(goes /\ b # <<>>)
  <2>1. /\ memory' = IF goes THEN s ELSE m
        /\ loops' = [loops EXCEPT ![l] = <<>>]
        /\ stateFile' = [memory |-> memory', missing |-> Held(l) \union lost']
    BY <1>5 DEF GoOn, Saved, s, b
  <2>2. Known(m) \subseteq Known(memory') /\ memory' \in Memories
        /\ memory'.visited = m.visited /\ memory'.results = m.results
    <3>1. CASE goes
      BY <1>1, <1>5, <2>1, <3>1
    <3>2. CASE ~goes
      BY <2>1, <3>2
    <3> QED
      BY <3>1, <3>2
  <2>3. <<>> \in Seq(VisitStates) /\ DOMAIN <<>> = {}
    OBVIOUS
  <2>4. /\ loops' \in [Loops -> Seq(VisitStates)]
        /\ \A v \in Visits(0)' : v \in Visits(l) \/ v.place # "ok"
        /\ Held(l) \subseteq Held(0)'
    BY <1>3, <2>1, <2>3
  <2> QED
    BY <2>1, <2>2, <2>4
<1> QED
  BY <1>4, <1>5

-----------------------------------------------------------------------------
(* The invariant is kept. *)

\* The invariant says what is to be proved.
LEMMA CrawlSafety ==
    CrawlIInv => CrawlKeeps
<1> SUFFICES ASSUME CrawlIInv PROVE CrawlKeeps
  OBVIOUS
<1>1. Known(memory) \union (Held(0) \union lost) = Remembered
  BY DEF Known, Remembered
<1>2. Keeps(memory, Held(0) \union lost) /\ NoDuplicates
  BY DEF CrawlIInv
<1> QED
  BY <1>1, <1>2 DEF Keeps, NoDuplicates, CrawlKeeps, ToFollow

\* A new crawl knows its seed.
LEMMA CrawlStarts ==
    CrawlInit => CrawlIInv
<1> SUFFICES ASSUME CrawlInit PROVE CrawlIInv
  OBVIOUS
<1>1. /\ memory \in Memories /\ memory.visited = {} /\ memory.frontier = Seed /\ memory.results = {}
  BY CrawlAssumption DEF CrawlInit, FreshMemory, Memories
<1>2. Visits(0) = {}
  BY DEF CrawlInit, Visits, InSeq, Loops
<1>3. CrawlTyped
  BY <1>1 DEF CrawlInit, CrawlTyped, HasFile
<1> QED
  BY <1>1, <1>2, <1>3
  DEF CrawlInit, CrawlIInv, Keeps, Known, SeenKept, ReadKept, FileKept, HasFile, PausedIsSaved, NoDuplicates

\* The head of a loop keeps the invariant if what it goes on with is sound.
LEMMA GoOnKeeps ==
    ASSUME CrawlIInv, NEW l \in Loops, NEW m \in Memories, NEW saves, GoOn(l, m, saves),
           lost' \subseteq Urls, life' \in {"crawling", "paused"}, UNCHANGED <<seen, entries>>,
           Keeps(m, Held(l) \union lost'),
           seen \intersect Follow \subseteq Known(m) \union Held(l) \union lost',
           \A v \in Visits(l) : v.place = "ok" => ToFollow(v.url) \subseteq Known(m) \union Held(l) \union lost'
    PROVE  CrawlIInv'
<1>1. CrawlTyped
  BY DEF CrawlIInv
<1>2. /\ memory' \in Memories /\ memory'.visited = m.visited /\ memory'.results = m.results
      /\ loops' \in [Loops -> Seq(VisitStates)]
      /\ \A v \in Visits(0)' : v \in Visits(l) \/ v.place # "ok"
      /\ Held(l) \subseteq Held(0)'
      /\ Known(m) \subseteq Known(memory') \union Held(0)'
      /\ \/ UNCHANGED stateFile /\ life' = "crawling"
         \/ \E s \in Memories :
               /\ stateFile' = [memory |-> s, missing |-> Held(l) \union lost']
               /\ s.visited = m.visited /\ s.results = m.results /\ Known(m) \subseteq Known(s)
               /\ life' # "crawling" => s = memory'
  BY <1>1, GoOnFacts
<1>3. Known(m) \union Held(l) \union lost' \subseteq Known(memory') \union (Held(0)' \union lost')
  BY <1>2
<1>4. Remembered' = Known(memory') \union (Held(0)' \union lost')
  BY DEF Known, Remembered
<1>5. Held(l) \subseteq Urls
  <2>1. \A v \in Visits(l) : v \in VisitStates
    BY <1>1 DEF CrawlTyped, Visits, InSeq
  <2>2. \A v \in VisitStates : v.url \in Urls /\ InSeq(v.links) \subseteq Urls
    BY DEF VisitStates, InSeq
  <2> QED
    BY <2>1, <2>2 DEF Held
<1>6. CrawlTyped' /\ FileKept'
  <2>1. CASE UNCHANGED stateFile
    <3>1. FileKept /\ (HasFile => stateFile \in [memory: Memories, missing: SUBSET Urls])
      BY <1>1 DEF CrawlIInv, CrawlTyped
    <3>2. FileKept' /\ (HasFile' => stateFile' \in [memory: Memories, missing: SUBSET Urls])
      BY <2>1, <3>1 DEF FileKept, HasFile
    <3> QED
      BY <1>1, <1>2, <3>2 DEF CrawlTyped
  <2>2. CASE \E s \in Memories :
               /\ stateFile' = [memory |-> s, missing |-> Held(l) \union lost']
               /\ s.visited = m.visited /\ s.results = m.results /\ Known(m) \subseteq Known(s)
    <3>1. PICK s \in Memories :
               /\ stateFile' = [memory |-> s, missing |-> Held(l) \union lost']
               /\ s.visited = m.visited /\ s.results = m.results /\ Known(m) \subseteq Known(s)
      BY <2>2
    <3>2. stateFile' \in [memory: Memories, missing: SUBSET Urls]
      BY <1>5, <3>1
    <3>3. Keeps(stateFile'.memory, stateFile'.missing)
      BY <3>1 DEF Keeps
    <3> QED
      BY <1>1, <1>2, <3>2, <3>3 DEF CrawlTyped, FileKept
  <2> QED
    BY <1>2, <2>1, <2>2
<1>7. Keeps(memory', Held(0)' \union lost')
  BY <1>2, <1>3 DEF Keeps
<1>8. SeenKept'
  BY <1>3, <1>4 DEF SeenKept
<1>9. ReadKept'
  <2> SUFFICES ASSUME NEW v \in Visits(0)', v.place = "ok" PROVE ToFollow(v.url) \subseteq Remembered'
    BY DEF ReadKept
  <2>1. v \in Visits(l)
    BY <1>2
  <2> QED
    BY <1>3, <1>4, <2>1
<1>10. PausedIsSaved'
  BY <1>2 DEF PausedIsSaved
<1>11. NoDuplicates'
  BY DEF CrawlIInv, NoDuplicates
<1> QED
  BY <1>6, <1>7, <1>8, <1>9, <1>10, <1>11 DEF CrawlIInv

\* resume() keeps the invariant: a paused crawl finds in its file what it knows; one that is
\* started anew knows what the file does.
LEMMA ResumeKeeps ==
    ASSUME CrawlIInv, NEW l \in Loops, Resume(l)
    PROVE  CrawlIInv'
<1>1. Visits(l) = Visits(0) /\ Held(l) = Held(0)
  BY HeldFacts DEF Resume
<1>2. life' = "crawling" /\ UNCHANGED <<seen, entries>> /\ life \in {"new", "paused"}
  BY DEF Resume, siteVars, CrawlIInv, PausedIsSaved
<1>3. /\ CrawlTyped /\ Keeps(memory, Held(0) \union lost) /\ SeenKept /\ ReadKept /\ FileKept
      /\ PausedIsSaved
  BY DEF CrawlIInv
<1>4. Remembered = Known(memory) \union Held(0) \union lost
  BY DEF Known, Remembered
<1>5. CASE ~HasFile
  <2>1. lost' = lost /\ GoOn(l, memory, FALSE)
    BY <1>5 DEF Resume, HasFile
  <2>2. memory \in Memories /\ lost' \subseteq Urls
    BY <1>3, <2>1 DEF CrawlTyped
  <2>3. /\ Keeps(memory, Held(l) \union lost')
        /\ seen \intersect Follow \subseteq Known(memory) \union Held(l) \union lost'
        /\ \A v \in Visits(l) : v.place = "ok" =>
              ToFollow(v.url) \subseteq Known(memory) \union Held(l) \union lost'
    BY <1>1, <1>3, <1>4, <2>1 DEF SeenKept, ReadKept
  <2> QED
    BY <1>2, <2>1, <2>2, <2>3, GoOnKeeps
<1>6. CASE HasFile
  <2> DEFINE m == stateFile.memory
             missing == stateFile.missing
  <2>1. lost' = missing \ Held(l) /\ GoOn(l, m, FALSE)
    BY <1>6 DEF Resume, HasFile
  <2>2. m \in Memories /\ missing \subseteq Urls /\ Keeps(m, missing)
    BY <1>3, <1>6 DEF CrawlTyped, FileKept
  <2> HIDE DEF m, missing
  <2>3. missing \subseteq Held(l) \union lost' /\ lost' \subseteq Urls
    BY <2>1, <2>2
  <2>4. Keeps(m, Held(l) \union lost')
    BY <2>2, <2>3 DEF Keeps
  <2>5. /\ seen \intersect Follow \subseteq Known(m) \union Held(l) \union lost'
        /\ \A v \in Visits(l) : v.place = "ok" =>
              ToFollow(v.url) \subseteq Known(m) \union Held(l) \union lost'
    <3>1. CASE life = "paused"
      <4>1. m = memory /\ lost \subseteq missing
        BY <1>3, <1>6, <3>1 DEF PausedIsSaved, m, missing
      <4>2. Remembered \subseteq Known(m) \union Held(l) \union lost'
        BY <1>1, <1>4, <2>3, <4>1
      <4> QED
        BY <1>1, <1>3, <4>2 DEF SeenKept, ReadKept
    <3>2. CASE life = "new"
      <4>1. seen = {} /\ \A i \in Loops : loops[i] = <<>>
        BY <1>3, <3>2 DEF PausedIsSaved
      <4>2. Visits(l) = {}
        BY <4>1 DEF Visits, InSeq
      <4> QED
        BY <4>1, <4>2
    <3> QED
      BY <1>2, <3>1, <3>2
  <2> QED
    BY <1>2, <2>1, <2>2, <2>3, <2>4, <2>5, GoOnKeeps
<1> QED
  BY <1>5, <1>6

\* The end of a batch keeps the invariant: what its visits held is known.
LEMMA BatchKeeps ==
    ASSUME CrawlIInv, NEW l \in Loops, BatchEnds(l)
    PROVE  CrawlIInv'
<1> DEFINE batch == loops[l]
           c == Collected(memory, batch)
           saves == sinceSave + 1 >= SaveEvery
<1>1. /\ CrawlTyped /\ Keeps(memory, Held(0) \union lost) /\ SeenKept /\ ReadKept /\ PausedIsSaved
  BY DEF CrawlIInv
<1>2. memory \in Memories /\ batch \in Seq(VisitStates) /\ lost \subseteq Urls
  BY <1>1 DEF CrawlTyped
<1>3. /\ \A k \in DOMAIN batch : batch[k].place \in {"ok", "failed"}
      /\ UNCHANGED <<life, seen, entries, lost>> /\ GoOn(l, c, saves) /\ batch # <<>>
  BY DEF BatchEnds, siteVars
<1>4. life' \in {"crawling", "paused"}
  BY <1>1, <1>3 DEF PausedIsSaved
<1> HIDE DEF saves
<1>5. /\ c \in Memories
      /\ Known(memory) \subseteq Known(c)
      /\ \A k \in DOMAIN batch :
            /\ batch[k].url \in c.visited
            /\ batch[k].place # "failed" => InSeq(batch[k].links) \intersect Follow \subseteq Known(c)
      /\ \A u \in c.results : u \in memory.results \/
            \E k \in DOMAIN batch : batch[k].url = u /\ batch[k].place # "failed"
      /\ memory.results \subseteq memory.visited => c.results \subseteq c.visited
  BY <1>2, CollectedFacts
<1>6. \A v \in InSeq(batch) : HoldsOf(v) \subseteq Known(c)
  <2> SUFFICES ASSUME NEW k \in DOMAIN batch PROVE HoldsOf(batch[k]) \subseteq Known(c)
    BY DEF InSeq
  <2>1. batch[k] \in VisitStates
    BY <1>2
  <2>2. batch[k].url \in Known(c)
    BY <1>5 DEF Known
  <2>3. batch[k].place = "failed" => InSeq(batch[k].links) = {}
    <3>1. InSeq(<<>>) = {}
      BY DEF InSeq
    <3> QED
      BY <2>1, <3>1 DEF VisitStates
  <2> QED
    BY <1>5, <2>2, <2>3 DEF HoldsOf
<1> DEFINE R == Known(c) \union Held(l) \union lost
<1>7. Held(0) \subseteq Known(c) \union Held(l)
  BY <1>6, HeldFacts
<1>8. Remembered \subseteq R
  BY <1>5, <1>7 DEF Known, Remembered
<1>9. Keeps(c, Held(l) \union lost)
  <2>1. InSeq(Seed) \subseteq Known(c) \union (Held(l) \union lost)
    BY <1>1, <1>5, <1>7 DEF Keeps
  <2>2. ASSUME NEW u \in c.results PROVE ToFollow(u) \subseteq Known(c) \union (Held(l) \union lost)
    <3>1. CASE u \in memory.results
      BY <1>1, <1>5, <1>7, <3>1 DEF Keeps
    <3>2. CASE \E k \in DOMAIN batch : batch[k].url = u /\ batch[k].place # "failed"
      <4>1. PICK k \in DOMAIN batch : batch[k].url = u /\ batch[k].place # "failed"
        BY <3>2
      <4>2. batch[k] \in Visits(0) /\ batch[k].place = "ok"
        BY <1>3, <4>1, HeldFacts DEF InSeq
      <4> QED
        BY <1>1, <1>8, <4>1, <4>2 DEF ReadKept
    <3> QED
      BY <1>5, <3>1, <3>2
  <2>3. c.results \subseteq c.visited
    BY <1>1, <1>5 DEF Keeps
  <2> QED
    BY <2>1, <2>2, <2>3 DEF Keeps
<1>10. /\ seen \intersect Follow \subseteq R
       /\ \A v \in Visits(l) : v.place = "ok" => ToFollow(v.url) \subseteq R
  BY <1>1, <1>8, HeldFacts DEF SeenKept, ReadKept
<1> HIDE DEF c
<1> QED
  BY <1>2, <1>3, <1>4, <1>5, <1>9, <1>10, GoOnKeeps

\* A step of one visit, and what it changes of what visits hold.
LEMMA VisitTurns ==
    ASSUME CrawlTyped, NEW l \in Loops, NEW k \in DOMAIN loops[l], NEW v \in VisitStates,
           loops' = [loops EXCEPT ![l][k] = v],
           v.url = loops[l][k].url, loops[l][k].place # "ok"
    PROVE  /\ loops' \in [Loops -> Seq(VisitStates)]
           /\ \A w \in Visits(0)' : w \in Visits(0) \/ w = v
           /\ Held(0)' = Held(0) \union (InSeq(v.links) \intersect Follow)
<1> DEFINE old == loops[l][k]
<1>1. loops \in [Loops -> Seq(VisitStates)] /\ loops[l] \in Seq(VisitStates)
  BY DEF CrawlTyped
<1>2. /\ loops' \in [Loops -> Seq(VisitStates)]
      /\ \A i \in Loops : DOMAIN loops'[i] = DOMAIN loops[i]
      /\ \A i \in Loops : \A j \in DOMAIN loops[i] :
            loops'[i][j] = IF i = l /\ j = k THEN v ELSE loops[i][j]
  BY <1>1
<1>3. /\ \A w : w \in Visits(0) <=> \E i \in Loops : \E j \in DOMAIN loops[i] : w = loops[i][j]
      /\ \A w : w \in Visits(0)' <=> \E i \in Loops : \E j \in DOMAIN loops'[i] : w = loops'[i][j]
  <2>1. Loops \ {0} = Loops
    BY DEF Loops
  <2> QED
    BY <2>1 DEF Visits, InSeq
<1>4. \A w \in Visits(0)' : w \in Visits(0) \/ w = v
  BY <1>2, <1>3
<1>5. \A w \in Visits(0) : w \in Visits(0)' \/ w = old
  BY <1>2, <1>3
<1>6. v \in Visits(0)' /\ old \in Visits(0)
  BY <1>2, <1>3
<1>7. InSeq(old.links) = {}
  <2>1. old \in VisitStates /\ InSeq(<<>>) = {}
    BY <1>1 DEF InSeq
  <2> QED
    BY <2>1 DEF VisitStates
<1>8. HoldsOf(old) = {v.url} /\ HoldsOf(v) = {v.url} \union (InSeq(v.links) \intersect Follow)
  BY <1>7 DEF HoldsOf
<1>9. Held(0) = UNION {HoldsOf(w) : w \in Visits(0)} /\ Held(0)' = UNION {HoldsOf(w) : w \in Visits(0)'}
  BY DEF Held, HoldsOf
<1> HIDE DEF old
<1>10. Held(0)' = Held(0) \union (InSeq(v.links) \intersect Follow)
  <2>1. ASSUME NEW x \in Held(0)' PROVE x \in Held(0) \union (InSeq(v.links) \intersect Follow)
    <3>1. PICK w \in Visits(0)' : x \in HoldsOf(w)
      BY <1>9
    <3>2. CASE w \in Visits(0)
      BY <1>9, <3>1, <3>2
    <3>3. CASE w = v
      BY <1>6, <1>8, <1>9, <3>1, <3>3
    <3> QED
      BY <1>4, <3>2, <3>3
  <2>2. ASSUME NEW x \in Held(0) PROVE x \in Held(0)'
    <3>1. PICK w \in Visits(0) : x \in HoldsOf(w)
      BY <1>9
    <3>2. CASE w \in Visits(0)'
      BY <1>9, <3>1, <3>2
    <3>3. CASE w = old
      BY <1>6, <1>8, <1>9, <3>1, <3>3
    <3> QED
      BY <1>5, <3>2, <3>3
  <2>3. InSeq(v.links) \intersect Follow \subseteq Held(0)'
    BY <1>6, <1>8, <1>9
  <2> QED
    BY <2>1, <2>2, <2>3
<1> QED
  BY <1>2, <1>4, <1>10

\* Such a step keeps the invariant if what it finds is seen and what it has seen is found.
LEMMA VisitKeeps ==
    ASSUME CrawlIInv, NEW l \in Loops, NEW k \in DOMAIN loops[l], NEW v \in VisitStates,
           loops' = [loops EXCEPT ![l][k] = v],
           v.url = loops[l][k].url, loops[l][k].place # "ok",
           UNCHANGED <<memory, life, stateFile, lost>>, entries' \in Seq(Urls), NoDuplicates',
           seen' \subseteq Urls, life = "new" => UNCHANGED seen,
           seen' \intersect Follow \subseteq seen \union InSeq(v.links),
           v.place = "ok" => ToFollow(v.url) \subseteq seen' \intersect Follow
    PROVE  CrawlIInv'
<1>1. /\ CrawlTyped /\ Keeps(memory, Held(0) \union lost) /\ SeenKept /\ ReadKept /\ FileKept
      /\ PausedIsSaved
  BY DEF CrawlIInv
<1>2. /\ loops' \in [Loops -> Seq(VisitStates)]
      /\ \A w \in Visits(0)' : w \in Visits(0) \/ w = v
      /\ Held(0)' = Held(0) \union (InSeq(v.links) \intersect Follow)
  BY <1>1, VisitTurns
<1>3. Remembered' = Remembered \union (InSeq(v.links) \intersect Follow)
  BY <1>2 DEF Remembered
<1>4. CrawlTyped' /\ FileKept'
  BY <1>1, <1>2 DEF CrawlTyped, FileKept, HasFile
<1>5. Keeps(memory, Held(0) \union lost)'
  BY <1>1, <1>2 DEF Keeps
<1>6. SeenKept'
  BY <1>1, <1>3 DEF SeenKept
<1>7. ReadKept'
  <2> SUFFICES ASSUME NEW w \in Visits(0)', w.place = "ok" PROVE ToFollow(w.url) \subseteq Remembered'
    BY DEF ReadKept
  <2>1. CASE w \in Visits(0)
    BY <1>1, <1>3, <2>1 DEF ReadKept
  <2>2. CASE w = v
    BY <1>6, <2>2 DEF SeenKept
  <2> QED
    BY <1>2, <2>1, <2>2
<1>8. PausedIsSaved'
  <2>1. life # "new"
    <3> SUFFICES ASSUME life = "new" PROVE FALSE
      OBVIOUS
    <3>1. loops[l] = <<>>
      BY <1>1 DEF PausedIsSaved
    <3> QED
      BY <3>1
  <2> QED
    BY <1>1, <2>1 DEF PausedIsSaved, HasFile
<1> QED
  BY <1>4, <1>5, <1>6, <1>7, <1>8 DEF CrawlIInv

\* The visit in its next place, without links.
LEMMA PlaceKeeps ==
    ASSUME CrawlIInv, NEW l \in Loops, NEW k \in DOMAIN loops[l],
           NEW place \in {"fetching", "checking", "failed"},
           Turns2(l, k, place), loops[l][k].place # "ok",
           UNCHANGED <<memory, life, stateFile, lost, seen>>, entries' \in Seq(Urls), NoDuplicates'
    PROVE  CrawlIInv'
<1> DEFINE v == [loops[l][k] EXCEPT !.place = place]
<1>1. CrawlTyped
  BY DEF CrawlIInv
<1>2. loops[l][k] \in VisitStates /\ loops \in [Loops -> Seq(VisitStates)] /\ seen \subseteq Urls
  BY <1>1 DEF CrawlTyped
<1>3. v \in VisitStates /\ v.url = loops[l][k].url /\ v.place # "ok"
  BY <1>2 DEF VisitStates
<1>4. loops' = [loops EXCEPT ![l][k] = v]
  BY <1>2 DEF Turns2
<1> HIDE DEF v
<1> QED
  BY <1>2, <1>3, <1>4, VisitKeeps

\* A visit that returns its links keeps the invariant: those it does not return were seen.
LEMMA ReturnKeeps ==
    ASSUME CrawlIInv, NEW l \in Loops, NEW k \in DOMAIN loops[l],
           NEW allowed, Urls \ Forbidden \subseteq allowed,
           Returns(l, k, allowed), loops[l][k].place # "ok",
           UNCHANGED <<memory, life, stateFile, lost>>, entries' \in Seq(Urls), NoDuplicates'
    PROVE  CrawlIInv'
<1> DEFINE old == loops[l][k]
           all == PageLinks[old.url]
           links == Those(all, allowed)
           new == FilterNew(links)
           v == [url |-> old.url, links |-> new, place |-> "ok"]
<1>1. CrawlTyped
  BY DEF CrawlIInv
<1>2. old \in VisitStates /\ loops \in [Loops -> Seq(VisitStates)] /\ seen \subseteq Urls
  BY <1>1 DEF CrawlTyped
<1>3. old.url \in Urls /\ all \in Seq(Urls)
  BY <1>2, CrawlAssumption DEF VisitStates
<1>4. links \in Seq(Urls) /\ InSeq(links) = InSeq(all) \intersect allowed
  BY <1>3, ThoseFacts
<1>5. loops' = [loops EXCEPT ![l][k].place = "ok", ![l][k].links = new] /\ seen' = seen \union InSeq(links)
  BY DEF Returns
<1> HIDE DEF links
<1>6. new \in Seq(Urls) /\ InSeq(new) = InSeq(links) \intersect (Urls \ seen)
  BY <1>4, ThoseFacts DEF FilterNew
<1> HIDE DEF new
<1>7. v \in VisitStates /\ v.place = "ok" /\ v.url = old.url /\ v.links = new
  BY <1>3, <1>6 DEF VisitStates
<1>8. loops' = [loops EXCEPT ![l][k] = v]
  <2>1. old = [url |-> old.url, links |-> old.links, place |-> old.place]
    BY <1>2 DEF VisitStates
  <2>2. ASSUME NEW o, NEW a, NEW b, NEW c, o = [url |-> a, links |-> b, place |-> c]
        PROVE  [[o EXCEPT !.place = "ok"] EXCEPT !.links = new] = [url |-> a, links |-> new, place |-> "ok"]
    <3> DEFINE p == [o EXCEPT !.place = "ok"]
    <3>1. p = [url |-> a, links |-> b, place |-> "ok"]
      BY <2>2
    <3> HIDE DEF p
    <3>2. [p EXCEPT !.links = new] = [url |-> a, links |-> new, place |-> "ok"]
      BY <3>1
    <3> QED
      BY <3>2 DEF p
  <2>3. [[old EXCEPT !.place = "ok"] EXCEPT !.links = new] = v
    BY <2>1, <2>2
  <2> QED
    BY <1>2, <1>5, <2>3
<1>9. InSeq(links) \subseteq Urls /\ InSeq(all) \subseteq Urls
  BY <1>3, <1>4 DEF InSeq
<1>10. ToFollow(v.url) \subseteq seen' \intersect Follow
  BY <1>4, <1>5, <1>7, <1>9 DEF ToFollow
<1>11. seen' \subseteq Urls /\ seen' \intersect Follow \subseteq seen \union InSeq(v.links)
  BY <1>2, <1>5, <1>6, <1>7, <1>9
<1>12. life = "new" => UNCHANGED seen
  <2> SUFFICES ASSUME life = "new" PROVE FALSE
    OBVIOUS
  <2>1. loops[l] = <<>>
    BY DEF CrawlIInv, PausedIsSaved
  <2> QED
    BY <2>1
<1> HIDE DEF v, all
<1> QED
  BY <1>7, <1>8, <1>10, <1>11, <1>12, VisitKeeps

\* A page that is added is no near duplicate of those that are there.
LEMMA AddedKeeps ==
    ASSUME NoDuplicates, entries \in Seq(Urls), NEW u \in Urls, ~IsDuplicate(u), entries' = Added(u)
    PROVE  entries' \in Seq(Urls) /\ NoDuplicates'
<1> DEFINE all == Append(entries, u)
           N == Len(entries)
<1>1. /\ N \in Nat /\ DOMAIN entries = 1..N
      /\ all \in Seq(Urls) /\ Len(all) = N + 1 /\ DOMAIN all = 1..N + 1
      /\ all[N + 1] = u /\ \A k \in 1..N : all[k] = entries[k] /\ entries[k] \in Urls
  OBVIOUS
<1>2. \A k \in 1..N : <<entries[k], u>> \notin Near /\ <<u, entries[k]>> \notin Near
  <2>1. \A k \in 1..N : <<entries[k], u>> \notin Near
    BY <1>1 DEF IsDuplicate, InSeq
  <2> QED
    BY <1>1, <2>1, CrawlAssumption
<1>3. \A i, j \in 1..N + 1 : i # j => <<all[i], all[j]>> \notin Near
  <2> TAKE i, j \in 1..N + 1
  <2> HAVE i # j
  <2>1. CASE i \in 1..N /\ j \in 1..N
    BY <1>1, <2>1 DEF NoDuplicates
  <2>2. CASE i = N + 1 /\ j \in 1..N
    BY <1>1, <1>2, <2>2
  <2>3. CASE i \in 1..N /\ j = N + 1
    BY <1>1, <1>2, <2>3
  <2>4. \A k \in 1..N + 1 : k \in 1..N \/ k = N + 1
    <3> HIDE DEF N, all
    <3> QED
      BY <1>1
  <2>5. (i \in 1..N \/ i = N + 1) /\ (j \in 1..N \/ j = N + 1) /\ i # j
    <3> HIDE DEF N, all
    <3> QED
      BY <2>4, Zenon
  <2> QED
    <3> HIDE DEF N, all
    <3> QED
      BY <2>1, <2>2, <2>3, <2>5, Zenon
<1>4. CASE entries' = all
  BY <1>1, <1>3, <1>4 DEF NoDuplicates
<1>5. CASE entries' = Tail(all)
  <2> HIDE DEF all
  <2>1. /\ Tail(all) \in Seq(Urls) /\ DOMAIN Tail(all) = 1..N
        /\ \A k \in 1..N : Tail(all)[k] = all[k + 1]
    BY <1>1
  <2>2. \A k \in 1..N : k + 1 \in 1..N + 1
    BY <1>1
  <2>3. \A i, j \in 1..N : i # j => <<Tail(all)[i], Tail(all)[j]>> \notin Near
    <3> TAKE i, j \in 1..N
    <3> HAVE i # j
    <3>1. i + 1 # j + 1 /\ i + 1 \in 1..N + 1 /\ j + 1 \in 1..N + 1
      BY <1>1
    <3> QED
      BY <1>3, <2>1, <3>1
  <2> QED
    BY <1>5, <2>1, <2>3 DEF NoDuplicates
<1> QED
  BY <1>4, <1>5 DEF Added

\* A page that was read keeps the invariant.
LEMMA PageKeeps ==
    ASSUME CrawlIInv, NEW l \in Loops, NEW k, PageRead(l, k)
    PROVE  CrawlIInv'
<1> DEFINE u == loops[l][k].url
<1>1. /\ k \in DOMAIN loops[l] /\ loops[l][k].place # "ok"
      /\ UNCHANGED <<memory, life, stateFile, lost>>
  BY DEF PageRead, Visiting
<1>2. u \in Urls /\ entries \in Seq(Urls) /\ NoDuplicates
  <2>1. loops[l][k] \in VisitStates /\ entries \in Seq(Urls)
    BY <1>1 DEF CrawlIInv, CrawlTyped
  <2> QED
    BY <2>1 DEF VisitStates, CrawlIInv
<1>3. CASE Turns2(l, k, "failed") /\ UNCHANGED siteVars
  <2>1. UNCHANGED <<seen, entries>> /\ NoDuplicates' /\ entries' \in Seq(Urls)
    BY <1>2, <1>3 DEF siteVars, NoDuplicates
  <2> QED
    BY <1>1, <1>3, <2>1, PlaceKeeps
<1>4. CASE ~IsDuplicate(u) /\ entries' = Added(u) /\ Turns2(l, k, "checking") /\ UNCHANGED seen
  <2>1. entries' \in Seq(Urls) /\ NoDuplicates'
    BY <1>2, <1>4, AddedKeeps
  <2> QED
    BY <1>1, <1>4, <2>1, PlaceKeeps
<1>5. CASE /\ ~IsDuplicate(u) /\ entries' = Added(u)
           /\ Returns(l, k, IF robots = "rules" THEN Urls \ Forbidden ELSE Urls)
  <2>1. entries' \in Seq(Urls) /\ NoDuplicates'
    BY <1>2, <1>5, AddedKeeps
  <2> DEFINE allowed == IF robots = "rules" THEN Urls \ Forbidden ELSE Urls
  <2>2. Urls \ Forbidden \subseteq allowed /\ Returns(l, k, allowed)
    BY <1>5
  <2> HIDE DEF allowed
  <2> QED
    BY <1>1, <2>1, <2>2, ReturnKeeps
<1> QED
  BY <1>3, <1>4, <1>5 DEF PageRead

\* Every step of a visit, and the end of a batch, keeps the invariant.
LEMMA CrawlStepKeeps ==
    ASSUME CrawlIInv, NEW l \in Loops, CrawlStep(l)
    PROVE  CrawlIInv'
<1>1. CASE BatchEnds(l)
  BY <1>1, BatchKeeps
<1>2. ASSUME NEW k \in 1..Concurrency, RobotsAnswered(l, k) PROVE CrawlIInv'
  <2> DEFINE place == IF robots' = "rules" /\ loops[l][k].url \in Forbidden THEN "failed" ELSE "fetching"
  <2>1. /\ k \in DOMAIN loops[l] /\ loops[l][k].place # "ok"
        /\ UNCHANGED <<memory, life, stateFile, lost, seen, entries>>
        /\ Turns2(l, k, place)
    BY <1>2 DEF RobotsAnswered, Visiting
  <2>2. place \in {"fetching", "checking", "failed"}
    OBVIOUS
  <2>3. entries' \in Seq(Urls) /\ NoDuplicates'
    BY <2>1 DEF CrawlIInv, CrawlTyped, NoDuplicates
  <2> HIDE DEF place
  <2> QED
    BY <2>1, <2>2, <2>3, PlaceKeeps
<1>3. ASSUME NEW k \in 1..Concurrency, PageRead(l, k) PROVE CrawlIInv'
  BY <1>3, PageKeeps
<1>4. ASSUME NEW k \in 1..Concurrency, LinksChecked(l, k) PROVE CrawlIInv'
  <2>1. /\ k \in DOMAIN loops[l] /\ loops[l][k].place # "ok"
        /\ UNCHANGED <<memory, life, stateFile, lost, entries>>
    BY <1>4 DEF LinksChecked, Visiting
  <2>2. PICK past \in SUBSET Forbidden : Returns(l, k, (Urls \ Forbidden) \union past)
    BY <1>4 DEF LinksChecked
  <2>3. entries' \in Seq(Urls) /\ NoDuplicates'
    BY <2>1 DEF CrawlIInv, CrawlTyped, NoDuplicates
  <2> DEFINE allowed == (Urls \ Forbidden) \union past
  <2>4. Urls \ Forbidden \subseteq allowed /\ Returns(l, k, allowed)
    BY <2>2
  <2> HIDE DEF allowed
  <2> QED
    BY <2>1, <2>3, <2>4, ReturnKeeps
<1> QED
  BY <1>1, <1>2, <1>3, <1>4 DEF CrawlStep

\* pause() writes to the file all that is known.
LEMMA PauseKeeps ==
    ASSUME CrawlIInv, Pause
    PROVE  CrawlIInv'
<1>1. /\ UNCHANGED <<memory, loops, seen, entries, lost>> /\ life' = "paused"
      /\ stateFile' = [memory |-> memory, missing |-> Held(0) \union lost]
  BY DEF Pause, Saved, siteVars
<1>2. CrawlTyped /\ Keeps(memory, Held(0) \union lost)
  BY DEF CrawlIInv
<1>3. Held(0) \subseteq Urls
  <2>1. \A v \in Visits(0) : v \in VisitStates
    BY <1>2 DEF CrawlTyped, Visits, InSeq
  <2>2. \A v \in VisitStates : v.url \in Urls /\ InSeq(v.links) \subseteq Urls
    BY DEF VisitStates, InSeq
  <2> QED
    BY <2>1, <2>2 DEF Held
<1>4. CrawlTyped'
  BY <1>1, <1>2, <1>3 DEF CrawlTyped
<1>5. FileKept' /\ PausedIsSaved'
  BY <1>1, <1>2 DEF FileKept, PausedIsSaved
<1>6. Held(0)' = Held(0) /\ Visits(0)' = Visits(0) /\ Remembered' = Remembered
  BY <1>1 DEF Held, Visits, Remembered
<1> QED
  BY <1>1, <1>4, <1>5, <1>6 DEF CrawlIInv, Keeps, SeenKept, ReadKept, NoDuplicates

\* A crash leaves the file, or tears it.
LEMMA CrashKeeps ==
    ASSUME CrawlIInv, Crash
    PROVE  CrawlIInv'
<1>1. /\ memory' = FreshMemory /\ life' = "new" /\ loops' = [l \in Loops |-> <<>>]
      /\ seen' = {} /\ entries' = <<>> /\ lost' = {}
      /\ stateFile' = stateFile \/ stateFile' = Torn
  BY DEF Crash
<1>2. /\ memory' \in Memories /\ memory'.visited = {} /\ memory'.frontier = Seed /\ memory'.results = {}
  BY <1>1, CrawlAssumption DEF FreshMemory, Memories
<1>3. (HasFile => stateFile \in [memory: Memories, missing: SUBSET Urls]) /\ FileKept
  BY DEF CrawlIInv, CrawlTyped
<1>4. (HasFile' => stateFile' \in [memory: Memories, missing: SUBSET Urls]) /\ FileKept'
  BY <1>1, <1>3 DEF FileKept, HasFile
<1>5. CrawlTyped'
  BY <1>1, <1>2, <1>4 DEF CrawlTyped
<1>6. Visits(0)' = {}
  BY <1>1 DEF Visits, InSeq, Loops
<1>7. Keeps(memory, Held(0) \union lost)'
  BY <1>2 DEF Keeps, Known
<1> QED
  BY <1>1, <1>4, <1>5, <1>6, <1>7 DEF CrawlIInv, SeenKept, ReadKept, PausedIsSaved, NoDuplicates

\* The invariant holds in every state of a crawl.
THEOREM CrawlInvariance ==
    CrawlInit /\ [][CrawlNext]_crawlVars => []CrawlIInv
<1>1. CrawlIInv /\ [CrawlNext]_crawlVars => CrawlIInv'
  <2> SUFFICES ASSUME CrawlIInv, [CrawlNext]_crawlVars PROVE CrawlIInv'
    OBVIOUS
  <2>1. CASE Pause
    BY <2>1, PauseKeeps
  <2>2. CASE RobotsExpire \/ UNCHANGED crawlVars
    <3>1. UNCHANGED <<memory, life, loops, stateFile, seen, entries, lost>>
      BY <2>2 DEF RobotsExpire, crawlVars
    <3>2. Held(0)' = Held(0) /\ Visits(0)' = Visits(0) /\ Remembered' = Remembered
      BY <3>1 DEF Held, Visits, Remembered
    <3> QED
      BY <3>1, <3>2 DEF CrawlIInv, CrawlTyped, HasFile, Keeps, SeenKept, ReadKept, FileKept, PausedIsSaved,
                               NoDuplicates
  <2>3. CASE Crash
    BY <2>3, CrashKeeps
  <2>4. ASSUME NEW l \in Loops, Resume(l) PROVE CrawlIInv'
    BY <2>4, ResumeKeeps
  <2>5. ASSUME NEW l \in Loops, CrawlStep(l) PROVE CrawlIInv'
    BY <2>5, CrawlStepKeeps
  <2> QED
    BY <2>1, <2>2, <2>3, <2>4, <2>5 DEF CrawlNext
<1> QED
  BY <1>1, CrawlStarts, PTL

\* Through pauses, loops that overlap, a torn file and a crash, a crawl remembers every link
\* of a page with a result but what visits held when the state it loaded was saved.
THEOREM CrawlForgetsNothing ==
    CrawlInit /\ [][CrawlNext]_crawlVars => []CrawlKeeps
BY CrawlInvariance, CrawlSafety, PTL

-----------------------------------------------------------------------------
(* Discover: the walk through sitemaps.                                    *)

Maps == DOMAIN sitemaps
Docs == Maps \X Nat
Row(url) == {url} \X DOMAIN Document(url).locs

\* What a sitemap lists.
LEMMA DocumentFacts ==
    ASSUME sitemaps \in Trees, NEW url \in Maps
    PROVE  /\ Document(url).isIndex \in BOOLEAN /\ Len(Document(url).locs) \in Nat
           /\ DOMAIN Document(url).locs = 1..Len(Document(url).locs)
           /\ Document(url).isIndex => /\ Document(url).locs \in Seq(Maps)
                                       /\ Children(url) = InSeq(Document(url).locs)
           /\ ~Document(url).isIndex =>
                 /\ Document(url).locs = [k \in 1..Len(Document(url).locs) |-> <<url, k>>]
                 /\ Children(url) = {}
<1>1. \/ sitemaps[url] = Missing
      \/ sitemaps[url].isIndex = TRUE /\ sitemaps[url].locs \in Seq(Maps)
      \/ /\ sitemaps[url].isIndex = FALSE
         /\ sitemaps[url].locs = [k \in 1..Len(sitemaps[url].locs) |-> <<url, k>>]
         /\ Len(sitemaps[url].locs) \in Nat
  BY DiscoverAssumption, Zenon DEF Maps
<1>2. CASE sitemaps[url] = Missing
  <2>1. Document(url).isIndex = FALSE /\ Document(url).locs = <<>>
    BY <1>2 DEF Document
  <2>2. Children(url) = {}
    BY <1>2 DEF Children
  <2>3. <<>> = [k \in 1..0 |-> <<url, k>>] /\ Len(<<>>) = 0 /\ DOMAIN <<>> = 1..0
    OBVIOUS
  <2> QED
    BY <2>1, <2>2, <2>3
<1>3. CASE sitemaps[url] # Missing
  <2>1. Document(url) = sitemaps[url]
    BY <1>3 DEF Document
  <2>2. CASE sitemaps[url].isIndex = TRUE /\ sitemaps[url].locs \in Seq(Maps)
    <3>1. PICK locs \in Seq(Maps) : locs = sitemaps[url].locs
      BY <2>2
    <3>2. Len(locs) \in Nat /\ DOMAIN locs = 1..Len(locs)
      OBVIOUS
    <3>3. Children(url) = InSeq(locs)
      BY <1>3, <2>2, <3>1 DEF Children, InSeq
    <3> QED
      BY <2>1, <2>2, <3>1, <3>2, <3>3
  <2>3. CASE /\ sitemaps[url].isIndex = FALSE
             /\ sitemaps[url].locs = [k \in 1..Len(sitemaps[url].locs) |-> <<url, k>>]
             /\ Len(sitemaps[url].locs) \in Nat
    <3>1. Children(url) = {}
      BY <2>3 DEF Children
    <3>2. DOMAIN sitemaps[url].locs = 1..Len(sitemaps[url].locs)
      BY <2>3, Zenon
    <3> QED
      BY <2>1, <2>3, <3>1, <3>2
  <2> QED
    BY <1>1, <1>3, <2>2, <2>3
<1> QED
  BY <1>2, <1>3

\* A sitemap left to be gone into adds its locs to what may come.
LEMMA LocsFacts ==
    ASSUME sitemaps \in Trees, NEW urls \in SUBSET Maps
    PROVE  /\ IsFiniteSet(Locs(urls)) /\ Cardinality(Locs(urls)) \in Nat
           /\ \A url \in urls :
                 Cardinality(Locs(urls)) = Cardinality(Locs(urls \ {url})) + Len(Document(url).locs)
<1>1. IsFiniteSet(Maps)
  BY DiscoverAssumption DEF Maps
<1>2. \A url \in Maps : IsFiniteSet(Row(url)) /\ Cardinality(Row(url)) = Len(Document(url).locs)
  <2> TAKE url \in Maps
  <2>1. PICK n \in Nat : n = Len(Document(url).locs) /\ DOMAIN Document(url).locs = 1..n
    BY DocumentFacts
  <2>2. IsFiniteSet({url}) /\ Cardinality({url}) = 1
    BY FS_Singleton
  <2>3. IsFiniteSet(1..n) /\ Cardinality(1..n) = n
    BY FS_Interval
  <2>4. IsFiniteSet({url} \X (1..n)) /\ Cardinality({url} \X (1..n)) = 1 * n
    BY <2>2, <2>3, FS_Product, ZenonT(40)
  <2> QED
    BY <2>1, <2>4 DEF Row
<1>3. \A some \in SUBSET Maps : IsFiniteSet(Locs(some)) /\ Cardinality(Locs(some)) \in Nat
  <2> TAKE some \in SUBSET Maps
  <2>1. IsFiniteSet(some)
    BY <1>1, FS_Subset
  <2>2. IsFiniteSet({Row(u) : u \in some})
    <3> DEFINE f == [u \in some |-> Row(u)]
               T == {Row(u) : u \in some}
    <3>1. f \in Surjection(some, T)
      BY DEF Surjection
    <3> HIDE DEF f
    <3>2. IsFiniteSet(T)
      BY <2>1, <3>1, FS_Surjection
    <3> QED
      BY <3>2
  <2>3. \A T \in {Row(u) : u \in some} : IsFiniteSet(T)
    BY <1>2
  <2>4. IsFiniteSet(UNION {Row(u) : u \in some})
    BY <2>2, <2>3, FS_UNION
  <2>5. Locs(some) = UNION {Row(u) : u \in some}
    BY Zenon DEF Locs, Row
  <2> QED
    BY <2>4, <2>5, FS_CardinalityType
<1>4. ASSUME NEW url \in urls
      PROVE  Cardinality(Locs(urls)) = Cardinality(Locs(urls \ {url})) + Len(Document(url).locs)
  <2>1. PICK rest : rest = Locs(urls \ {url}) /\ IsFiniteSet(rest) /\ Cardinality(rest) \in Nat
    BY <1>3
  <2>2. PICK row : row = Row(url) /\ IsFiniteSet(row) /\ Cardinality(row) = Len(Document(url).locs)
    BY <1>2
  <2>3. Len(Document(url).locs) \in Nat
    BY DocumentFacts
  <2>4. Locs(urls) = rest \union row /\ rest \intersect row = {}
    BY <2>1, <2>2 DEF Locs, Row
  <2>5. Cardinality(rest \union row) = Cardinality(rest) + Cardinality(row) - Cardinality(rest \intersect row)
    BY <2>1, <2>2, FS_Union
  <2>6. Cardinality(rest \intersect row) = 0
    BY <2>4, FS_EmptySet
  <2> QED
    BY <2>1, <2>2, <2>3, <2>4, <2>5, <2>6
<1> QED
  BY <1>3, <1>4

\* The sitemaps within so many steps.
LEMMA WithinFacts ==
    ASSUME sitemaps \in Trees
    PROVE  /\ Within[0] = {Root}
           /\ \A d \in 0..MaxDepth : Within[d] \subseteq Maps /\ Within[d] \subseteq Within[MaxDepth]
           /\ \A d \in 1..MaxDepth :
                 Within[d] = Within[d - 1] \union UNION {Children(u) : u \in Within[d - 1]}
<1> DEFINE Next1(S) == S \union UNION {Children(u) : u \in S}
           next == [S \in SUBSET Maps |-> [k \in Nat |-> Next1(S)]]
<1>0. MaxDepth \in Nat /\ Root \in Maps
  BY DiscoverAssumption DEF Maps
<1>1. \A u \in Maps : Children(u) \subseteq Maps
  <2> TAKE u \in Maps
  <2>1. CASE Document(u).isIndex
    <3>1. PICK locs \in Seq(Maps) : Children(u) = InSeq(locs)
      BY <2>1, DocumentFacts
    <3> QED
      BY <3>1 DEF InSeq
  <2>2. CASE ~Document(u).isIndex
    BY <2>2, DocumentFacts
  <2> QED
    BY <2>1, <2>2
<1>2. next \in [SUBSET Maps -> [Nat -> SUBSET Maps]]
  <2>1. \A S \in SUBSET Maps : Next1(S) \in SUBSET Maps
    BY <1>1
  <2> HIDE DEF Next1
  <2> QED
    BY <2>1
<1>3. PICK g \in [0..MaxDepth -> SUBSET Maps] : GoesOn(g, {Root}, next, MaxDepth)
  <2> HIDE DEF next
  <2>1. {Root} \in SUBSET Maps
    BY <1>0
  <2> QED
    BY <1>0, <1>2, <2>1, Recursion, Zenon
<1>4. g[0] = {Root} /\ \A d \in 1..MaxDepth : g[d] = Next1(g[d - 1])
  <2>1. g[0] = {Root} /\ \A d \in 1..MaxDepth : g[d] = next[g[d - 1]][d]
    BY <1>3, Zenon DEF GoesOn
  <2>2. ASSUME NEW d \in 1..MaxDepth PROVE next[g[d - 1]][d] = Next1(g[d - 1])
    <3>1. d - 1 \in 0..MaxDepth /\ d \in Nat
      BY <1>0
    <3>2. g[d - 1] \in SUBSET Maps
      BY <3>1
    <3> HIDE DEF Next1
    <3> QED
      BY <3>1, <3>2
  <2> HIDE DEF next, Next1
  <2> QED
    BY <2>1, <2>2
<1> DEFINE within[d \in 0..MaxDepth] == IF d = 0 THEN {Root} ELSE Next1(within[d - 1])
<1>5. within[0] = {Root} /\ \A d \in 1..MaxDepth : within[d] = Next1(within[d - 1])
  <2> HIDE DEF next, Next1
  <2>1. 0 \in 0..MaxDepth /\ \A d \in 1..MaxDepth : d \in 0..MaxDepth /\ d # 0
    BY <1>0
  <2>2. \A d \in 0..MaxDepth : d # 0 => d \in 1..MaxDepth
    BY <1>0
  <2>3. g = [d \in 0..MaxDepth |-> IF d = 0 THEN {Root} ELSE Next1(g[d - 1])]
    BY <1>3, <1>4, <2>2
  <2>4. within = [d \in 0..MaxDepth |-> IF d = 0 THEN {Root} ELSE Next1(within[d - 1])]
    BY <2>3
  <2> HIDE DEF within
  <2> QED
    BY <2>1, <2>4
<1>6. Within = within
  BY DEF Within
<1> HIDE DEF within
<1> DEFINE S == {d \in Nat : d <= MaxDepth => Within[d] \subseteq Maps}
           B == {n \in Nat : n <= MaxDepth => Within[MaxDepth - n] \subseteq Within[MaxDepth]}
<1>7. Nat \subseteq S
  <2>1. 0 \in S
    BY <1>0, <1>5, <1>6
  <2>2. \A d \in Nat : d \in S => d + 1 \in S
    <3> TAKE d \in Nat
    <3> HAVE d \in S
    <3>1. ASSUME d + 1 <= MaxDepth PROVE Within[d + 1] \subseteq Maps
      <4>1. d + 1 \in 1..MaxDepth /\ d + 1 - 1 = d /\ d <= MaxDepth
        BY <1>0, <3>1
      <4>2. Within[d + 1] = Next1(Within[d]) /\ Within[d] \subseteq Maps
        BY <1>5, <1>6, <4>1
      <4> QED
        BY <1>1, <4>2
    <3> QED
      BY <3>1
  <2> HIDE DEF S
  <2> QED
    BY <2>1, <2>2, AllNumbers
<1>8. Nat \subseteq B
  <2>1. 0 \in B
    BY <1>0
  <2>2. \A n \in Nat : n \in B => n + 1 \in B
    <3> TAKE n \in Nat
    <3> HAVE n \in B
    <3>1. ASSUME n + 1 <= MaxDepth PROVE Within[MaxDepth - (n + 1)] \subseteq Within[MaxDepth]
      <4>1. PICK d \in 1..MaxDepth : d = MaxDepth - n /\ d - 1 = MaxDepth - (n + 1) /\ n <= MaxDepth
        BY <1>0, <3>1
      <4>2. Within[d] = Next1(Within[d - 1]) /\ Within[d] \subseteq Within[MaxDepth]
        BY <1>5, <1>6, <4>1
      <4> QED
        BY <4>1, <4>2
    <3> QED
      BY <3>1
  <2> HIDE DEF B
  <2> QED
    BY <2>1, <2>2, AllNumbers
<1>9. ASSUME NEW d \in 0..MaxDepth PROVE Within[d] \subseteq Maps /\ Within[d] \subseteq Within[MaxDepth]
  <2>1. d \in S /\ MaxDepth - d \in B
    <3> HIDE DEF S, B
    <3> QED
      BY <1>0, <1>7, <1>8
  <2>2. MaxDepth - d <= MaxDepth /\ MaxDepth - (MaxDepth - d) = d /\ d <= MaxDepth
    BY <1>0
  <2> QED
    BY <2>1, <2>2
<1> QED
  BY <1>5, <1>6, <1>9

Walks == [visited: SUBSET Maps, ahead: Seq(Docs), found: Seq(Docs)]
Most == 1 + Cardinality(Locs(Maps))

\* What is ahead or behind is within the depth it is come to at.
Reached(w) ==
    /\ \A e \in InSeq(w.ahead) : e[2] <= MaxDepth => e[1] \in Within[e[2]]
    /\ w.visited \subseteq Within[MaxDepth]

\* Entries are of sitemaps gone into, each once, and all of them while there is room.
Taken(w) ==
    /\ \A e \in InSeq(w.found) : e[1] \in w.visited /\ ~Document(e[1]).isIndex /\ e \in Row(e[1])
    /\ IsFiniteSet(InSeq(w.found)) /\ Cardinality(InSeq(w.found)) = Len(w.found)
    /\ Len(w.found) <= MaxEntries2
    /\ Len(w.found) < MaxEntries2 =>
          \A u \in w.visited : ~Document(u).isIndex => Row(u) \subseteq InSeq(w.found)

\* The root comes first, and what it lists is not forgotten.
FromRoot(w) ==
    /\ Root \notin w.visited => w.ahead = <<<<Root, 0>>>>
    /\ Root \in w.visited /\ MaxDepth # 0 =>
          \A c \in Children(Root) : c \in w.visited \/ <<c, 1>> \in InSeq(w.ahead)

\* Every step brings the end nearer.
InTime(w, k) ==
    \/ w.ahead = <<>> \/ Len(w.found) = MaxEntries2
    \/ k + Len(w.ahead) + Cardinality(Locs(Maps \ w.visited)) <= Most

WalkHolds(w, k) == w \in Walks /\ Reached(w) /\ Taken(w) /\ FromRoot(w) /\ InTime(w, k)

\* The first of what is ahead, and the rest.
LEMMA AheadFacts ==
    ASSUME NEW U, NEW s \in Seq(U), s # <<>>
    PROVE  /\ Head(s) \in U /\ Tail(s) \in Seq(U) /\ Len(Tail(s)) \in Nat /\ Len(s) = Len(Tail(s)) + 1
           /\ InSeq(s) = {Head(s)} \union InSeq(Tail(s))
<1>1. /\ Head(s) \in U /\ Tail(s) \in Seq(U) /\ Len(Tail(s)) \in Nat /\ Len(s) = Len(Tail(s)) + 1
      /\ \A k \in 1..Len(Tail(s)) : Tail(s)[k] = s[k + 1]
      /\ Head(s) = s[1] /\ Len(s) \in Nat /\ DOMAIN s = 1..Len(s)
  BY HeadTailProperties
<1>2. PICK t \in Seq(U), n \in Nat, h \in U : t = Tail(s) /\ n = Len(t) /\ h = Head(s)
  BY <1>1
<1>3. DOMAIN t = 1..n /\ DOMAIN s = 1..n + 1 /\ h = s[1] /\ \A k \in 1..n : t[k] = s[k + 1]
  BY <1>1, <1>2
<1>4. InSeq(s) \subseteq {h} \union InSeq(t)
  <2> SUFFICES ASSUME NEW k \in 1..n + 1 PROVE s[k] = h \/ s[k] \in InSeq(t)
    BY <1>3 DEF InSeq
  <2>1. k = 1 \/ (k - 1 \in 1..n /\ k - 1 + 1 = k)
    BY <1>2
  <2> QED
    BY <1>3, <2>1 DEF InSeq
<1>5. {h} \union InSeq(t) \subseteq InSeq(s)
  <2>1. h \in InSeq(s)
    BY <1>3 DEF InSeq
  <2>2. \A k \in 1..n : k + 1 \in 1..n + 1 /\ t[k] = s[k + 1]
    BY <1>3
  <2>3. ASSUME NEW x \in InSeq(t) PROVE x \in InSeq(s)
    <3>1. PICK k \in 1..n : x = t[k]
      BY <1>3, <2>3, Zenon DEF InSeq
    <3>2. k + 1 \in DOMAIN s /\ x = s[k + 1]
      BY <1>3, <2>2, <3>1, Zenon
    <3> QED
      BY <3>2, Zenon DEF InSeq
  <2> QED
    BY <2>1, <2>3, Zenon
<1> QED
  BY <1>1, <1>2, <1>4, <1>5

\* What one walk() does: nothing, passing over, going down, or taking entries.
Passes(w, v, e, t) ==
    /\ e[1] \in w.visited \/ e[2] > MaxDepth
    /\ v = [visited |-> w.visited, ahead |-> t, found |-> w.found]
GoesDown(w, v, e, t) ==
    /\ e[1] \notin w.visited /\ e[2] <= MaxDepth /\ Document(e[1]).isIndex
    /\ \E b \in Seq(Docs) : /\ InSeq(b) = Children(e[1]) \X {e[2] + 1} /\ Len(b) = Len(Document(e[1]).locs)
                            /\ v = [visited |-> w.visited \union {e[1]}, ahead |-> b \o t, found |-> w.found]
Takes(w, v, e, t) ==
    /\ e[1] \notin w.visited /\ e[2] <= MaxDepth /\ ~Document(e[1]).isIndex
    /\ \E m \in 0..Len(Document(e[1]).locs), s \in Seq(Docs) :
          /\ m = Len(Document(e[1]).locs) \/ Len(w.found) + m = MaxEntries2
          /\ Len(w.found) + m <= MaxEntries2
          /\ Len(s) = m /\ InSeq(s) = {e[1]} \X (1..m)
          /\ v = [visited |-> w.visited \union {e[1]}, ahead |-> t, found |-> w.found \o s]

\* A walk() is over, passes a sitemap by, goes down a list of them, or takes their entries.
LEMMA GoFacts ==
    ASSUME sitemaps \in Trees, NEW w \in Walks, Len(w.found) <= MaxEntries2
    PROVE  \/ (w.ahead = <<>> \/ Len(w.found) = MaxEntries2) /\ Go(w) = w
           \/ /\ w.ahead # <<>> /\ Len(w.found) < MaxEntries2
              /\ \E e \in Docs, t \in Seq(Docs) :
                    /\ e = Head(w.ahead) /\ InSeq(w.ahead) = {e} \union InSeq(t) /\ Len(w.ahead) = Len(t) + 1
                    /\ Passes(w, Go(w), e, t) \/ GoesDown(w, Go(w), e, t) \/ Takes(w, Go(w), e, t)
<1>0. /\ w = [visited |-> w.visited, ahead |-> w.ahead, found |-> w.found] /\ w.visited \in SUBSET Maps
      /\ w.ahead \in Seq(Docs) /\ w.found \in Seq(Docs) /\ Len(w.found) \in Nat /\ MaxEntries2 \in Nat /\ MaxDepth \in Nat
  <2> PICK D : D = Seq(Docs)
    OBVIOUS
  <2>1. w \in [visited: SUBSET Maps, ahead: D, found: D]
    BY DEF Walks
  <2>2. w = [visited |-> w.visited, ahead |-> w.ahead, found |-> w.found] /\ w.visited \in SUBSET Maps
        /\ w.ahead \in D /\ w.found \in D
    BY <2>1
  <2> QED
    BY <2>2, DiscoverAssumption
<1>1. CASE w.ahead = <<>> \/ MaxEntries2 - Len(w.found) = 0
  <2>1. Go(w) = w
    BY <1>1, Zenon DEF Go
  <2>2. w.ahead = <<>> \/ Len(w.found) = MaxEntries2
    BY <1>0, <1>1
  <2> QED
    BY <2>1, <2>2
<1>2. CASE ~(w.ahead = <<>> \/ MaxEntries2 - Len(w.found) = 0)
  <2>0. w.ahead # <<>> /\ Len(w.found) < MaxEntries2
    BY <1>0, <1>2
  <2>1. PICK e \in Docs, t \in Seq(Docs) :
           /\ e = Head(w.ahead) /\ t = Tail(w.ahead)
           /\ InSeq(w.ahead) = {e} \union InSeq(t) /\ Len(w.ahead) = Len(t) + 1
    BY <1>0, <2>0, AheadFacts
  <2>2. PICK url \in Maps, depth \in Nat : url = e[1] /\ depth = e[2]
    BY <2>1 DEF Docs
  <2>3. PICK locs : locs = Document(url).locs
    OBVIOUS
  <2>4. PICK n \in Nat : n = Len(locs) /\ DOMAIN locs = 1..n
    BY <2>3, DocumentFacts
  <2>5. CASE url \in w.visited \/ depth > MaxDepth
    <3>1. Go(w) = [w EXCEPT !.ahead = Tail(w.ahead)]
      BY <1>2, <2>1, <2>2, <2>5, Zenon DEF Go
    <3>2. Go(w) = [visited |-> w.visited, ahead |-> t, found |-> w.found]
      BY <1>0, <2>1, <3>1
    <3>3. Passes(w, Go(w), e, t)
      BY <2>2, <2>5, <3>2, Zenon DEF Passes
    <3> QED
      BY <2>0, <2>1, <3>3
  <2>6. CASE ~(url \in w.visited \/ depth > MaxDepth) /\ Document(url).isIndex
    <3> DEFINE b == [k \in DOMAIN locs |-> <<locs[k], depth + 1>>]
    <3>1. Go(w) = [visited |-> w.visited \union {url}, ahead |-> b \o t, found |-> w.found \o <<>>]
      BY <1>2, <2>1, <2>2, <2>3, <2>6, Zenon DEF Go
    <3>2. w.found \o <<>> = w.found
      BY <1>0, ConcatEmptySeq
    <3>3. locs \in Seq(Maps) /\ Children(url) = InSeq(locs)
      BY <2>3, <2>6, DocumentFacts
    <3>4. b \in Seq(Docs) /\ Len(b) = n
      BY <2>4, <3>3 DEF Docs
    <3>5. InSeq(b) = Children(url) \X {depth + 1}
      BY <3>3 DEF InSeq
    <3> HIDE DEF b
    <3>6. GoesDown(w, Go(w), e, t)
      <4>1. url \notin w.visited /\ depth <= MaxDepth /\ Document(url).isIndex
        BY <1>0, <2>6
      <4> QED
        BY <2>2, <2>3, <2>4, <3>1, <3>2, <3>4, <3>5, <4>1, Zenon DEF GoesDown
    <3> QED
      BY <2>0, <2>1, <3>6
  <2>7. CASE ~(url \in w.visited \/ depth > MaxDepth) /\ ~Document(url).isIndex
    <3> DEFINE room == MaxEntries2 - Len(w.found)
               m == IF room < Len(locs) THEN room ELSE Len(locs)
               s == SubSeq(locs, 1, m)
    <3>1. Go(w) = [visited |-> w.visited \union {url}, ahead |-> <<>> \o t, found |-> w.found \o s]
      BY <1>2, <2>1, <2>2, <2>3, <2>7, Zenon DEF Go
    <3>2. <<>> \o t = t
      BY <2>1, ConcatEmptySeq
    <3>3. locs = [k \in 1..n |-> <<url, k>>]
      BY <2>3, <2>4, <2>7, DocumentFacts
    <3>4. m \in 0..n /\ (m = n \/ Len(w.found) + m = MaxEntries2) /\ Len(w.found) + m <= MaxEntries2
      <4>1. room \in Nat /\ Len(w.found) + room = MaxEntries2 /\ Len(locs) = n
        BY <1>0, <2>0, <2>4
      <4> HIDE DEF room
      <4>2. m \in 0..n /\ m <= room /\ (m = n \/ m = room)
        BY <4>1
      <4> HIDE DEF m
      <4> QED
        BY <1>0, <4>1, <4>2
    <3> HIDE DEF m
    <3>5. \A k \in 1..m : locs[k] = <<url, k>> /\ locs[k] \in Docs
      BY <2>4, <3>3, <3>4 DEF Docs
    <3>6. s \in Seq(Docs) /\ Len(s) = m /\ \A k \in 1..m : s[k] = <<url, k>>
      <4>1. m \in Int /\ m - 1 + 1 = m /\ (1 > m => m = 0) /\ \A k \in 1..m : 1 + k - 1 = k
        BY <2>4, <3>4
      <4>2. s \in Seq(Docs) /\ Len(s) = (IF 1 <= m THEN m - 1 + 1 ELSE 0) /\ \A k \in 1..m - 1 + 1 : s[k] = locs[1 + k - 1]
        BY <3>5, <4>1, SubSeqProperties
      <4> HIDE DEF s
      <4> QED
        BY <3>5, <4>1, <4>2
    <3> HIDE DEF s
    <3>7. InSeq(s) = {url} \X (1..m)
      <4>1. DOMAIN s = 1..m
        BY <3>4, <3>6
      <4>2. InSeq(s) = {s[k] : k \in 1..m}
        BY <4>1, Zenon DEF InSeq
      <4>3. {s[k] : k \in 1..m} = {<<url, k>> : k \in 1..m}
        BY <3>6
      <4> QED
        BY <4>2, <4>3
    <3>8. Takes(w, Go(w), e, t)
      <4>1. url \notin w.visited /\ depth <= MaxDepth
        BY <1>0, <2>7
      <4>2. Go(w) = [visited |-> w.visited \union {url}, ahead |-> t, found |-> w.found \o s]
        BY <3>1, <3>2, Zenon
      <4> QED
        BY <2>2, <2>3, <2>4, <2>7, <3>4, <3>6, <3>7, <4>1, <4>2, Zenon DEF Takes
    <3> QED
      BY <2>0, <2>1, <3>8
  <2> QED
    BY <2>5, <2>6, <2>7
<1> QED
  BY <1>1, <1>2

\* A record of a walk has these fields.
IsWalk(v, visited, ahead, found) ==
    v \in Walks /\ v.visited = visited /\ v.ahead = ahead /\ v.found = found

\* A walk is made of its fields.
LEMMA WalkFields ==
    ASSUME NEW visited \in SUBSET Maps, NEW ahead \in Seq(Docs), NEW found \in Seq(Docs)
    PROVE  IsWalk([visited |-> visited, ahead |-> ahead, found |-> found], visited, ahead, found)
  BY DEF Walks, IsWalk

\* The types of a walk's fields.
LEMMA WalkTyped ==
    ASSUME NEW w \in Walks
    PROVE  /\ w.visited \in SUBSET Maps /\ w.ahead \in Seq(Docs) /\ w.found \in Seq(Docs)
           /\ Len(w.ahead) \in Nat /\ Len(w.found) \in Nat
           /\ \A e \in InSeq(w.ahead) \union InSeq(w.found) : e \in Docs
<1>1. PICK D : D = Seq(Docs)
  OBVIOUS
<1>2. w \in [visited: SUBSET Maps, ahead: D, found: D]
  BY <1>1 DEF Walks
<1>3. w.visited \in SUBSET Maps /\ w.ahead \in D /\ w.found \in D
  BY <1>2
<1>4. PICK a \in Seq(Docs), f \in Seq(Docs) : a = w.ahead /\ f = w.found
  BY <1>1, <1>3
<1> QED
  BY <1>3, <1>4 DEF InSeq

\* A sitemap passed over.
LEMMA PassHolds ==
    ASSUME sitemaps \in Trees, NEW k \in Nat, NEW w, WalkHolds(w, k), NEW v, NEW e \in Docs, NEW t \in Seq(Docs),
           e = Head(w.ahead), InSeq(w.ahead) = {e} \union InSeq(t), Len(w.ahead) = Len(t) + 1,
           w.ahead # <<>>, Len(w.found) < MaxEntries2, Passes(w, v, e, t)
    PROVE  WalkHolds(v, k + 1)
<1>1. w \in Walks /\ Reached(w) /\ Taken(w) /\ FromRoot(w) /\ InTime(w, k) /\ MaxDepth \in Nat /\ MaxEntries2 \in Nat
  BY DiscoverAssumption DEF WalkHolds
<1>2. w.visited \in SUBSET Maps /\ w.found \in Seq(Docs) /\ Len(w.found) \in Nat
  BY <1>1, WalkTyped
<1>3. v \in Walks /\ v.visited = w.visited /\ v.ahead = t /\ v.found = w.found
  <2>1. v = [visited |-> w.visited, ahead |-> t, found |-> w.found]
    BY DEF Passes
  <2>2. IsWalk([visited |-> w.visited, ahead |-> t, found |-> w.found], w.visited, t, w.found)
    BY <1>2, WalkFields
  <2> QED
    BY <2>1, <2>2, Zenon DEF IsWalk
<1>4. Reached(v)
  BY <1>1, <1>3 DEF Reached
<1>5. Taken(v)
  BY <1>1, <1>3 DEF Taken
<1>6. FromRoot(v)
  <2>1. Root \in w.visited
    <3>1. SUFFICES ASSUME w.ahead = <<<<Root, 0>>>>, Root \notin w.visited PROVE FALSE
      BY <1>1 DEF FromRoot
    <3>2. e[1] = Root /\ e[2] = 0
      BY <3>1
    <3> QED
      BY <1>1, <3>1, <3>2 DEF Passes
  <2>2. ASSUME MaxDepth # 0, NEW c \in Children(Root) PROVE c \in v.visited \/ <<c, 1>> \in InSeq(v.ahead)
    <3>1. c \in w.visited \/ <<c, 1>> \in InSeq(w.ahead)
      BY <1>1, <2>1, <2>2 DEF FromRoot
    <3>2. <<c, 1>> = e => c \in w.visited
      BY <1>1, <2>2 DEF Passes
    <3> QED
      BY <1>3, <3>1, <3>2
  <2> QED
    BY <1>3, <2>1, <2>2 DEF FromRoot
<1>7. InTime(v, k + 1)
  <2>1. Cardinality(Locs(Maps \ w.visited)) \in Nat /\ Len(t) \in Nat /\ Most \in Nat
    BY LocsFacts DEF Most
  <2>2. k + (Len(t) + 1) + Cardinality(Locs(Maps \ w.visited)) <= Most
    BY <1>1, <1>2 DEF InTime
  <2> QED
    BY <1>3, <2>1, <2>2 DEF InTime
<1> QED
  BY <1>3, <1>4, <1>5, <1>6, <1>7 DEF WalkHolds

\* One more step, and one less to take.
LEMMA OneOn ==
    \A k, m, n, c, most \in Nat : k + (m + 1) + (c + n) <= most =>
        (k + 1) + (n + m) + c <= most /\ (k + 1) + m + c <= most
  OBVIOUS

\* Sitemaps not gone into have so many locs, and c without the one that has n.
Shrinks(visited, url, n, c) ==
    /\ n = Len(Document(url).locs) /\ c = Cardinality(Locs(Maps \ (visited \union {url})))
    /\ Cardinality(Locs(Maps \ visited)) = c + n

\* What is left is less by a sitemap gone into.
LEMMA LeftFacts ==
    ASSUME sitemaps \in Trees, NEW visited \in SUBSET Maps, NEW url \in Maps, url \notin visited
    PROVE  /\ Most \in Nat
           /\ \E n \in Nat, c \in Nat : Shrinks(visited, url, n, c)
<1>1. PICK left \in SUBSET Maps, less \in SUBSET Maps :
         left = Maps \ visited /\ less = Maps \ (visited \union {url}) /\ less = left \ {url}
  OBVIOUS
<1>2. url \in left
  BY <1>1
<1>3. Cardinality(Locs(less)) \in Nat /\ Cardinality(Locs(Maps)) \in Nat
  BY LocsFacts
<1>4. Cardinality(Locs(left)) = Cardinality(Locs(left \ {url})) + Len(Document(url).locs)
  BY <1>2, LocsFacts
<1>5. Len(Document(url).locs) \in Nat
  BY DocumentFacts
<1>6. Most \in Nat
  BY <1>3 DEF Most
<1>7. PICK n \in Nat, c \in Nat : n = Len(Document(url).locs) /\ c = Cardinality(Locs(less))
  BY <1>3, <1>5, Zenon
<1>8. Cardinality(Locs(left)) = c + n
  BY <1>1, <1>4, <1>7, Zenon
<1>9. Shrinks(visited, url, n, c)
  BY <1>1, <1>7, <1>8, Zenon DEF Shrinks
<1> QED
  BY <1>6, <1>7, <1>9

\* A sitemap of sitemaps.
LEMMA DownHolds ==
    ASSUME sitemaps \in Trees, NEW k \in Nat, NEW w, WalkHolds(w, k), NEW v, NEW e \in Docs, NEW t \in Seq(Docs),
           e = Head(w.ahead), InSeq(w.ahead) = {e} \union InSeq(t), Len(w.ahead) = Len(t) + 1,
           w.ahead # <<>>, Len(w.found) < MaxEntries2, GoesDown(w, v, e, t)
    PROVE  WalkHolds(v, k + 1)
<1>1. w \in Walks /\ Reached(w) /\ Taken(w) /\ FromRoot(w) /\ InTime(w, k) /\ MaxDepth \in Nat /\ MaxEntries2 \in Nat
  BY DiscoverAssumption DEF WalkHolds
<1>2. w.visited \in SUBSET Maps /\ w.found \in Seq(Docs) /\ Len(w.found) \in Nat
  BY <1>1, WalkTyped
<1>3. PICK url \in Maps, depth \in Nat : url = e[1] /\ depth = e[2] /\ e = <<url, depth>>
  BY DEF Docs
<1>4. url \notin w.visited /\ depth <= MaxDepth /\ Document(url).isIndex
  BY <1>3 DEF GoesDown
<1>5. PICK b \in Seq(Docs) :
         /\ InSeq(b) = Children(url) \X {depth + 1} /\ Len(b) = Len(Document(url).locs)
         /\ v = [visited |-> w.visited \union {url}, ahead |-> b \o t, found |-> w.found]
  BY <1>3, Zenon DEF GoesDown
<1>6. b \o t \in Seq(Docs) /\ InSeq(b \o t) = InSeq(b) \union InSeq(t)
  BY <1>5, JoinedFacts
<1>7. v \in Walks /\ v.visited = w.visited \union {url} /\ v.ahead = b \o t /\ v.found = w.found
  <2>1. w.visited \union {url} \in SUBSET Maps
    BY <1>2, <1>3
  <2>2. IsWalk([visited |-> w.visited \union {url}, ahead |-> b \o t, found |-> w.found], w.visited \union {url}, b \o t, w.found)
    BY <1>2, <1>5, <1>6, <2>1, WalkFields
  <2> QED
    BY <1>5, <2>2, Zenon DEF IsWalk
<1>8. Reached(v)
  <2>1. url \in Within[depth] /\ depth \in 0..MaxDepth
    BY <1>1, <1>3, <1>4 DEF Reached
  <2>2. url \in Within[MaxDepth]
    BY <2>1, WithinFacts
  <2>3. ASSUME NEW c \in Children(url), depth + 1 <= MaxDepth PROVE c \in Within[depth + 1]
    <3>1. depth + 1 \in 1..MaxDepth /\ depth + 1 - 1 = depth
      <4>1. depth \in Nat /\ MaxDepth \in Nat
        BY <1>1, Zenon
      <4> QED
        BY <2>3, <4>1
    <3>2. Within[depth + 1] = Within[depth] \union UNION {Children(u) : u \in Within[depth]}
      BY <3>1, WithinFacts
    <3> QED
      BY <2>1, <2>3, <3>2
  <2>4. ASSUME NEW x \in InSeq(b), x[2] <= MaxDepth PROVE x[1] \in Within[x[2]]
    <3>1. PICK c \in Children(url) : x = <<c, depth + 1>>
      BY <1>5, <2>4
    <3>2. x[1] = c /\ x[2] = depth + 1
      BY <3>1
    <3> QED
      BY <2>3, <2>4, <3>2
  <2> QED
    BY <1>1, <1>6, <1>7, <2>2, <2>4 DEF Reached
<1>9. Taken(v)
  BY <1>1, <1>4, <1>7 DEF Taken
<1>10. FromRoot(v)
  <2>1. Root \notin w.visited => url = Root /\ depth = 0
    BY <1>1, <1>3 DEF FromRoot
  <2>2. ASSUME MaxDepth # 0, NEW c \in Children(Root) PROVE c \in v.visited \/ <<c, 1>> \in InSeq(v.ahead)
    <3>1. CASE Root \notin w.visited
      <4>1. <<c, 1>> \in InSeq(b)
        BY <1>5, <2>1, <2>2, <3>1
      <4> QED
        BY <1>6, <1>7, <4>1
    <3>2. CASE Root \in w.visited
      <4>1. c \in w.visited \/ <<c, 1>> = e \/ <<c, 1>> \in InSeq(t)
        BY <1>1, <2>2, <3>2 DEF FromRoot
      <4>2. <<c, 1>> = e => c = url
        BY <1>3
      <4> QED
        BY <1>6, <1>7, <4>1, <4>2
    <3> QED
      BY <3>1, <3>2
  <2> QED
    BY <1>7, <2>1, <2>2 DEF FromRoot
<1>11. InTime(v, k + 1)
  <2>0. PICK n \in Nat, c \in Nat : Shrinks(w.visited, url, n, c)
    BY <1>2, <1>3, <1>4, LeftFacts
  <2>1. /\ n = Len(Document(url).locs) /\ c = Cardinality(Locs(Maps \ (w.visited \union {url})))
        /\ Cardinality(Locs(Maps \ w.visited)) = c + n
    BY <2>0, Zenon DEF Shrinks
  <2>2. PICK m \in Nat : m = Len(t) /\ Most \in Nat
    BY <1>2, <1>3, <1>4, LeftFacts
  <2>3. k + (m + 1) + (c + n) <= Most
    BY <1>1, <1>2, <2>0, <2>1, <2>2 DEF InTime
  <2>4. Len(v.ahead) = n + m
    <3>1. Len(b \o t) = Len(b) + Len(t)
      BY <1>5
    <3> QED
      BY <1>5, <1>7, <2>0, <2>1, <2>2, <3>1
  <2>5. (k + 1) + (n + m) + c <= Most
    BY <2>0, <2>2, <2>3, OneOn, Zenon
  <2> QED
    BY <1>7, <2>1, <2>4, <2>5 DEF InTime
<1> QED
  BY <1>7, <1>8, <1>9, <1>10, <1>11 DEF WalkHolds

\* A sitemap of pages.
LEMMA TakeHolds ==
    ASSUME sitemaps \in Trees, NEW k \in Nat, NEW w, WalkHolds(w, k), NEW v, NEW e \in Docs, NEW t \in Seq(Docs),
           e = Head(w.ahead), InSeq(w.ahead) = {e} \union InSeq(t), Len(w.ahead) = Len(t) + 1,
           w.ahead # <<>>, Len(w.found) < MaxEntries2, Takes(w, v, e, t)
    PROVE  WalkHolds(v, k + 1)
<1>1. w \in Walks /\ Reached(w) /\ Taken(w) /\ FromRoot(w) /\ InTime(w, k) /\ MaxDepth \in Nat /\ MaxEntries2 \in Nat
  BY DiscoverAssumption DEF WalkHolds
<1>2. w.visited \in SUBSET Maps /\ w.found \in Seq(Docs) /\ Len(w.found) \in Nat
  BY <1>1, WalkTyped
<1>3. PICK url \in Maps, depth \in Nat : url = e[1] /\ depth = e[2] /\ e = <<url, depth>>
  BY DEF Docs
<1>4. url \notin w.visited /\ depth <= MaxDepth /\ ~Document(url).isIndex
  BY <1>3 DEF Takes
<1>5. PICK n \in Nat : n = Len(Document(url).locs) /\ Row(url) = {url} \X (1..n)
  BY <1>3, DocumentFacts DEF Row
<1>6. PICK m \in 0..n, s \in Seq(Docs) :
         /\ m = n \/ Len(w.found) + m = MaxEntries2
         /\ Len(w.found) + m <= MaxEntries2
         /\ Len(s) = m /\ InSeq(s) = {url} \X (1..m)
         /\ v = [visited |-> w.visited \union {url}, ahead |-> t, found |-> w.found \o s]
  BY <1>3, <1>5, Zenon DEF Takes
<1>7. PICK f \in Seq(Docs) : f = w.found \o s /\ InSeq(f) = InSeq(w.found) \union InSeq(s) /\ Len(f) = Len(w.found) + m
  <2>1. w.found \o s \in Seq(Docs) /\ InSeq(w.found \o s) = InSeq(w.found) \union InSeq(s)
    BY <1>2, <1>6, JoinedFacts
  <2>2. Len(w.found \o s) = Len(w.found) + m
    BY <1>2, <1>6
  <2> QED
    BY <2>1, <2>2
<1>8. v \in Walks /\ v.visited = w.visited \union {url} /\ v.ahead = t /\ v.found = f
  <2>1. w.visited \union {url} \in SUBSET Maps
    BY <1>2, <1>3
  <2>2. IsWalk([visited |-> w.visited \union {url}, ahead |-> t, found |-> f], w.visited \union {url}, t, f)
    BY <1>7, <2>1, WalkFields
  <2> QED
    BY <1>6, <1>7, <2>2, Zenon DEF IsWalk
<1>9. Reached(v)
  <2>1. url \in Within[depth] /\ depth \in 0..MaxDepth
    BY <1>1, <1>3, <1>4 DEF Reached
  <2>2. url \in Within[MaxDepth]
    BY <2>1, WithinFacts
  <2> QED
    BY <1>1, <1>8, <2>2 DEF Reached
<1>10. Taken(v)
  <2>1. {url} \X (1..m) \subseteq Row(url)
    BY <1>5, <1>6
  <2>2. ASSUME NEW x \in InSeq(f)
        PROVE  x[1] \in v.visited /\ ~Document(x[1]).isIndex /\ x \in Row(x[1])
    <3>1. CASE x \in InSeq(w.found)
      BY <1>1, <1>8, <3>1 DEF Taken
    <3>2. CASE x \in {url} \X (1..m)
      <4>1. x[1] = url /\ x \in Row(url)
        BY <2>1, <3>2
      <4> QED
        BY <1>4, <1>8, <4>1
    <3> QED
      BY <1>6, <1>7, <2>2, <3>1, <3>2
  <2>3. IsFiniteSet(InSeq(f)) /\ Cardinality(InSeq(f)) = Len(w.found) + m
    <3>1. IsFiniteSet({url} \X (1..m)) /\ Cardinality({url} \X (1..m)) = m
      <4>1. IsFiniteSet({url}) /\ Cardinality({url}) = 1
        BY FS_Singleton
      <4>2. IsFiniteSet(1..m) /\ Cardinality(1..m) = m
        BY <1>6, FS_Interval
      <4>3. IsFiniteSet({url} \X (1..m)) /\ Cardinality({url} \X (1..m)) = 1 * m
        BY <4>1, <4>2, FS_Product, SMTT(30)
      <4> QED
        BY <1>6, <4>3
    <3>2. PICK old, new : old = InSeq(w.found) /\ new = {url} \X (1..m)
      OBVIOUS
    <3>3. old \intersect new = {}
      <4> SUFFICES ASSUME NEW x \in old, x \in new PROVE FALSE
        OBVIOUS
      <4>1. x[1] \in w.visited /\ x[1] = url
        BY <1>1, <3>2 DEF Taken
      <4> QED
        BY <1>4, <4>1
    <3>4. IsFiniteSet(old) /\ Cardinality(old) = Len(w.found) /\ IsFiniteSet(new) /\ Cardinality(new) = m
      BY <1>1, <3>1, <3>2 DEF Taken
    <3>5. IsFiniteSet(old \union new)
          /\ Cardinality(old \union new) = Cardinality(old) + Cardinality(new) - Cardinality(old \intersect new)
      BY <3>4, FS_Union
    <3>6. Cardinality(old \intersect new) = 0
      BY <3>3, FS_EmptySet
    <3>7. InSeq(f) = old \union new
      BY <1>6, <1>7, <3>2
    <3> QED
      BY <1>2, <1>6, <3>4, <3>5, <3>6, <3>7
  <2>4. ASSUME Len(f) < MaxEntries2, NEW u \in v.visited, ~Document(u).isIndex PROVE Row(u) \subseteq InSeq(f)
    <3>1. CASE u = url
      <4>1. m = n
        BY <1>6, <1>7, <2>4
      <4> QED
        BY <1>5, <1>6, <1>7, <3>1, <4>1
    <3>2. CASE u \in w.visited
      <4>1. Len(w.found) < MaxEntries2
        BY <1>1, <1>2, <1>6, <1>7, <2>4
      <4>2. Row(u) \subseteq InSeq(w.found)
        BY <1>1, <2>4, <3>2, <4>1 DEF Taken
      <4> QED
        BY <1>7, <4>2
    <3> QED
      BY <1>8, <2>4, <3>1, <3>2
  <2> QED
    BY <1>6, <1>7, <1>8, <2>2, <2>3, <2>4 DEF Taken
<1>11. FromRoot(v)
  <2>1. Root \notin w.visited => url = Root
    BY <1>1, <1>3 DEF FromRoot
  <2>2. ASSUME MaxDepth # 0, NEW c \in Children(Root) PROVE c \in v.visited \/ <<c, 1>> \in InSeq(v.ahead)
    <3>1. Children(url) = {}
      BY <1>3, <1>4, DocumentFacts
    <3>2. Root \in w.visited
      BY <2>1, <2>2, <3>1
    <3>3. c \in w.visited \/ <<c, 1>> = e \/ <<c, 1>> \in InSeq(t)
      BY <1>1, <2>2, <3>2 DEF FromRoot
    <3>4. <<c, 1>> = e => c = url
      BY <1>3
    <3> QED
      BY <1>8, <3>3, <3>4
  <2> QED
    BY <1>8, <2>1, <2>2 DEF FromRoot
<1>12. InTime(v, k + 1)
  <2>0. PICK l \in Nat, c \in Nat : Shrinks(w.visited, url, l, c)
    BY <1>2, <1>3, <1>4, LeftFacts
  <2>1. /\ l = Len(Document(url).locs) /\ c = Cardinality(Locs(Maps \ (w.visited \union {url})))
        /\ Cardinality(Locs(Maps \ w.visited)) = c + l
    BY <2>0, Zenon DEF Shrinks
  <2>2. PICK p \in Nat : p = Len(t) /\ Most \in Nat /\ l = n
    <3>1. Most \in Nat
      BY <1>2, <1>3, <1>4, LeftFacts, Zenon
    <3>2. Len(t) \in Nat
      OBVIOUS
    <3>3. l = n
      BY <1>5, <2>1, Zenon
    <3> QED
      BY <3>1, <3>2, <3>3, Zenon
  <2>3. k + (p + 1) + (c + n) <= Most
    BY <1>1, <1>2, <2>0, <2>1, <2>2 DEF InTime
  <2>4. (k + 1) + p + c <= Most
    BY <1>5, <2>0, <2>2, <2>3, OneOn, Zenon
  <2> QED
    BY <1>8, <2>1, <2>2, <2>4 DEF InTime
<1> QED
  BY <1>8, <1>9, <1>10, <1>11, <1>12 DEF WalkHolds

\* One walk() after the other keeps what holds of them.
LEMMA GoHolds ==
    ASSUME sitemaps \in Trees, NEW k \in Nat, NEW w, WalkHolds(w, k)
    PROVE  WalkHolds(Go(w), k + 1)
<1>1. /\ w \in Walks /\ Reached(w) /\ Taken(w) /\ FromRoot(w) /\ InTime(w, k)
      /\ Len(w.found) <= MaxEntries2
  BY DEF WalkHolds, Taken
<1>2. CASE (w.ahead = <<>> \/ Len(w.found) = MaxEntries2) /\ Go(w) = w
  BY <1>1, <1>2 DEF WalkHolds, InTime
<1>3. ASSUME w.ahead # <<>>, Len(w.found) < MaxEntries2, NEW e \in Docs, NEW t \in Seq(Docs),
             e = Head(w.ahead), InSeq(w.ahead) = {e} \union InSeq(t), Len(w.ahead) = Len(t) + 1,
             Passes(w, Go(w), e, t) \/ GoesDown(w, Go(w), e, t) \/ Takes(w, Go(w), e, t)
      PROVE  WalkHolds(Go(w), k + 1)
  <2>1. PICK v : v = Go(w)
    OBVIOUS
  <2>2. CASE Passes(w, v, e, t)
    BY <1>3, <2>1, <2>2, PassHolds
  <2>3. CASE GoesDown(w, v, e, t)
    BY <1>3, <2>1, <2>3, DownHolds
  <2>4. CASE Takes(w, v, e, t)
    BY <1>3, <2>1, <2>4, TakeHolds
  <2> QED
    BY <1>3, <2>1, <2>2, <2>3, <2>4, Zenon
<1> QED
  BY <1>1, <1>2, <1>3, GoFacts

StartOfWalk == [visited |-> {}, ahead |-> <<<<Root, 0>>>>, found |-> <<>>]

\* The beginning.
LEMMA WalkStarts == ASSUME sitemaps \in Trees PROVE WalkHolds(StartOfWalk, 0)
<1>1. MaxDepth \in Nat /\ MaxEntries2 \in Nat /\ Root \in Maps
  BY DiscoverAssumption DEF Maps
<1>2. PICK a \in Seq(Docs) : a = <<<<Root, 0>>>> /\ InSeq(a) = {<<Root, 0>>} /\ Len(a) = 1
  <2>1. <<<<Root, 0>>>> \in Seq(Docs)
    BY <1>1 DEF Docs
  <2>2. InSeq(<<<<Root, 0>>>>) = {<<Root, 0>>}
    BY DEF InSeq
  <2> QED
    BY <2>1, <2>2
<1>3. PICK f \in Seq(Docs) : f = <<>> /\ InSeq(f) = {} /\ Len(f) = 0
  <2>1. <<>> \in Seq(Docs) /\ Len(<<>>) = 0 /\ DOMAIN <<>> = {}
    OBVIOUS
  <2>2. InSeq(<<>>) = {}
    BY <2>1 DEF InSeq
  <2> QED
    BY <2>1, <2>2
<1>4. PICK w : w = StartOfWalk
  OBVIOUS
<1>5. w \in Walks /\ w.visited = {} /\ w.ahead = a /\ w.found = f
  <2>1. w = [visited |-> {}, ahead |-> a, found |-> f]
    BY <1>2, <1>3, <1>4 DEF StartOfWalk
  <2>2. IsWalk([visited |-> {}, ahead |-> a, found |-> f], {}, a, f)
    BY WalkFields
  <2> QED
    BY <2>1, <2>2, Zenon DEF IsWalk
<1>6. Reached(w)
  <2>1. Root \in Within[0]
    BY WithinFacts
  <2>2. \A e \in InSeq(a) : e[1] = Root /\ e[2] = 0
    BY <1>2
  <2> QED
    BY <1>5, <2>1, <2>2 DEF Reached
<1>7. Taken(w)
  <2>1. IsFiniteSet({}) /\ Cardinality({}) = 0
    BY FS_EmptySet
  <2>2. InSeq(w.found) = {} /\ Len(w.found) = 0 /\ w.visited = {}
    BY <1>3, <1>5
  <2>3. 0 <= MaxEntries2
    BY <1>1
  <2> QED
    BY <2>1, <2>2, <2>3, Zenon DEF Taken
<1>8. FromRoot(w)
  BY <1>2, <1>5 DEF FromRoot
<1>9. InTime(w, 0)
  <2>1. Cardinality(Locs(Maps)) \in Nat /\ Maps \ {} = Maps
    BY LocsFacts
  <2> QED
    BY <1>2, <1>5, <2>1 DEF InTime, Most
<1> QED
  BY <1>4, <1>5, <1>6, <1>7, <1>8, <1>9 DEF WalkHolds

\* What fromSitemap returns is what was found when there was nothing ahead, or no room.
LEMMA WalkEnds ==
    ASSUME sitemaps \in Trees
    PROVE  \E w \in Walks : /\ FromSitemap = w.found /\ Reached(w) /\ Taken(w) /\ FromRoot(w)
                            /\ w.ahead = <<>> \/ Len(w.found) = MaxEntries2
<1> DEFINE next == [w \in Walks |-> [k \in Nat |-> IF Go(w) \in Walks THEN Go(w) ELSE w]]
           walk[k \in 0..Most] == IF k = 0 THEN StartOfWalk ELSE Go(walk[k - 1])
<1>0. Most \in Nat
  BY LocsFacts DEF Most
<1>1. FromSitemap = walk[Most].found
  BY Zenon DEF FromSitemap, Most, Maps, StartOfWalk
<1>2. StartOfWalk \in Walks
  BY WalkStarts DEF WalkHolds
<1>3. next \in [Walks -> [Nat -> Walks]]
  OBVIOUS
<1>4. PICK g \in [0..Most -> Walks] : GoesOn(g, StartOfWalk, next, Most)
  <2> HIDE DEF next
  <2> QED
    BY <1>0, <1>2, <1>3, Recursion, Zenon
<1>5. g[0] = StartOfWalk /\ \A k \in 1..Most : g[k] = next[g[k - 1]][k]
  BY <1>4, Zenon DEF GoesOn
<1> DEFINE S == {k \in Nat : k <= Most => WalkHolds(g[k], k)}
<1>6. \A k \in 1..Most : WalkHolds(g[k - 1], k - 1) => g[k] = Go(g[k - 1]) /\ WalkHolds(g[k], k)
  <2> TAKE k \in 1..Most
  <2>1. k - 1 \in 0..Most /\ k - 1 \in Nat /\ k \in Nat /\ k - 1 + 1 = k
    BY <1>0
  <2>2. PICK w \in Walks : w = g[k - 1]
    BY <2>1
  <2>3. ASSUME WalkHolds(w, k - 1) PROVE WalkHolds(Go(w), k) /\ g[k] = Go(w)
    <3>1. WalkHolds(Go(w), k)
      BY <2>1, <2>3, GoHolds
    <3>2. Go(w) \in Walks
      BY <3>1 DEF WalkHolds
    <3>3. next[w][k] = Go(w)
      BY <2>1, <3>2
    <3> HIDE DEF next
    <3> QED
      BY <1>5, <2>2, <3>1, <3>3
  <2> QED
    BY <2>2, <2>3
<1> HIDE DEF next
<1>7. Nat \subseteq S
  <2>1. 0 \in S
    BY <1>5, WalkStarts
  <2>2. \A k \in Nat : k \in S => k + 1 \in S
    <3> TAKE k \in Nat
    <3> HAVE k \in S
    <3>1. ASSUME k + 1 <= Most PROVE WalkHolds(g[k + 1], k + 1)
      <4>1. k + 1 \in 1..Most /\ k + 1 - 1 = k /\ k <= Most
        BY <1>0, <3>1
      <4>2. WalkHolds(g[k], k)
        BY <4>1
      <4>3. WalkHolds(g[k + 1 - 1], k + 1 - 1)
        BY <4>1, <4>2
      <4> QED
        BY <1>6, <4>1, <4>3
    <3> QED
      BY <3>1
  <2> HIDE DEF S
  <2> QED
    BY <2>1, <2>2, AllNumbers
<1>8. \A k \in 0..Most : WalkHolds(g[k], k)
  <2> TAKE k \in 0..Most
  <2>1. k \in S /\ k <= Most
    <3> HIDE DEF S
    <3> QED
      BY <1>0, <1>7
  <2> QED
    BY <2>1
<1>9. walk = g
  <2>1. \A k \in 0..Most : k = 0 \/ (k \in 1..Most /\ k - 1 \in 0..Most)
    BY <1>0
  <2>2. \A k \in 1..Most : g[k] = Go(g[k - 1])
    BY <1>6, <1>8, <2>1, <1>0
  <2>3. g = [k \in 0..Most |-> IF k = 0 THEN StartOfWalk ELSE Go(g[k - 1])]
    BY <1>4, <1>5, <2>1, <2>2
  <2>4. walk = [k \in 0..Most |-> IF k = 0 THEN StartOfWalk ELSE Go(walk[k - 1])]
    BY <2>3
  <2> DEFINE T == {k \in Nat : k <= Most => walk[k] = g[k]}
  <2> HIDE DEF walk
  <2>5. Nat \subseteq T
    <3>1. 0 \in T
      BY <1>0, <1>5, <2>4
    <3>2. \A k \in Nat : k \in T => k + 1 \in T
      <4> TAKE k \in Nat
      <4> HAVE k \in T
      <4>1. ASSUME k + 1 <= Most PROVE walk[k + 1] = g[k + 1]
        <5>1. k + 1 \in 1..Most /\ k + 1 \in 0..Most /\ k + 1 # 0 /\ k + 1 - 1 = k /\ k <= Most
          BY <1>0, <4>1
        <5>2. walk[k] = g[k]
          BY <5>1
        <5>3. walk[k + 1] = Go(walk[k + 1 - 1])
          BY <2>4, <5>1
        <5>4. g[k + 1] = Go(g[k + 1 - 1])
          BY <2>2, <5>1
        <5> QED
          BY <5>1, <5>2, <5>3, <5>4
      <4> QED
        BY <4>1
    <3> HIDE DEF T
    <3> QED
      BY <3>1, <3>2, AllNumbers
  <2>6. \A k \in 0..Most : walk[k] = g[k]
    <3> TAKE k \in 0..Most
    <3>1. k \in T /\ k <= Most
      <4> HIDE DEF T
      <4> QED
        BY <1>0, <2>5
    <3> QED
      BY <3>1
  <2> QED
    BY <1>4, <2>4, <2>6
<1> HIDE DEF walk, S
<1>10. PICK w \in Walks : w = g[Most] /\ WalkHolds(w, Most)
  BY <1>0, <1>4, <1>8
<1>11. w.ahead = <<>> \/ Len(w.found) = MaxEntries2
  <2>1. w.ahead \in Seq(Docs) /\ Len(w.ahead) \in Nat /\ w.visited \in SUBSET Maps
    BY WalkTyped
  <2>2. Cardinality(Locs(Maps \ w.visited)) \in Nat
    <3>1. Maps \ w.visited \in SUBSET Maps
      OBVIOUS
    <3> QED
      BY <3>1, LocsFacts
  <2>3. SUFFICES ASSUME Most + Len(w.ahead) + Cardinality(Locs(Maps \ w.visited)) <= Most PROVE w.ahead = <<>>
    BY <1>10 DEF WalkHolds, InTime
  <2>4. Len(w.ahead) = 0
    BY <1>0, <2>1, <2>2, <2>3
  <2> QED
    BY <2>1, <2>4
<1> QED
  BY <1>1, <1>9, <1>10, <1>11 DEF WalkHolds

\* Sitemaps give the pages they should.
LEMMA PagesAreFound == ASSUME sitemaps \in Trees PROVE FindsPages
<1>1. PICK w \in Walks : /\ FromSitemap = w.found /\ Reached(w) /\ Taken(w) /\ FromRoot(w)
                         /\ w.ahead = <<>> \/ Len(w.found) = MaxEntries2
  BY WalkEnds
<1>2. /\ w.visited \in SUBSET Maps /\ Len(w.found) \in Nat /\ MaxDepth \in Nat /\ MaxEntries2 \in Nat
      /\ Root \in Maps /\ Missing = Missing
  BY WalkTyped, DiscoverAssumption DEF Maps
<1>3. {FromSitemap[k] : k \in DOMAIN FromSitemap} = InSeq(w.found)
  BY <1>1, Zenon DEF InSeq
<1>4. ASSUME NEW u \in Maps, ~Document(u).isIndex PROVE Row(u) = InSeq(Document(u).locs)
  <2>1. PICK n \in Nat : n = Len(Document(u).locs) /\ Document(u).locs = [k \in 1..n |-> <<u, k>>]
    BY <1>4, DocumentFacts
  <2>2. DOMAIN Document(u).locs = 1..n
    BY <2>1
  <2>3. InSeq(Document(u).locs) = {Document(u).locs[k] : k \in 1..n}
    BY <2>2, Zenon DEF InSeq
  <2>4. {Document(u).locs[k] : k \in 1..n} = {<<u, k>> : k \in 1..n}
    BY <2>1
  <2>5. Row(u) = {<<u, k>> : k \in 1..n}
    BY <2>2 DEF Row
  <2> QED
    BY <2>3, <2>4, <2>5
<1>5. ASSUME NEW u \in Maps, sitemaps[u] # Missing /\ ~sitemaps[u].isIndex
      PROVE  ~Document(u).isIndex /\ Row(u) = {sitemaps[u].locs[k] : k \in DOMAIN sitemaps[u].locs}
  <2>1. Document(u) = sitemaps[u]
    BY <1>5 DEF Document
  <2> QED
    BY <1>4, <1>5, <2>1 DEF InSeq
<1>6. ASSUME NEW x \in InSeq(w.found) PROVE x \in PagesOf(Within[MaxDepth])
  <2>1. PICK u \in Maps : u = x[1] /\ u \in w.visited /\ ~Document(u).isIndex /\ x \in Row(u)
    BY <1>1, <1>2, <1>6 DEF Taken
  <2>2. u \in Within[MaxDepth]
    BY <1>1, <2>1 DEF Reached
  <2>3. sitemaps[u] # Missing
    <3>1. SUFFICES ASSUME sitemaps[u] = Missing PROVE FALSE
      OBVIOUS
    <3>2. Document(u).locs = <<>>
      BY <3>1 DEF Document
    <3> QED
      BY <2>1, <3>2 DEF Row
  <2>4. ~sitemaps[u].isIndex
    BY <2>1, <2>3 DEF Document
  <2>5. x \in {sitemaps[u].locs[k] : k \in DOMAIN sitemaps[u].locs}
    BY <1>5, <2>1, <2>3, <2>4
  <2> QED
    BY <2>2, <2>3, <2>4, <2>5 DEF PagesOf
<1>7. ASSUME Len(w.found) < MaxEntries2, NEW d \in {0, 1}, d <= MaxDepth
      PROVE  PagesOf(Within[d]) \subseteq InSeq(w.found)
  <2>1. w.ahead = <<>> /\ InSeq(w.ahead) = {}
    BY <1>1, <1>2, <1>7 DEF InSeq
  <2>2. Root \in w.visited
    BY <1>1, <2>1 DEF FromRoot
  <2>3. d \in 0..MaxDepth
    BY <1>2, <1>7
  <2>4. Within[d] \subseteq w.visited
    <3>1. Within[0] = {Root}
      BY WithinFacts
    <3>2. ASSUME d = 1 PROVE Within[1] \subseteq w.visited
      <4>1. 1 \in 1..MaxDepth /\ MaxDepth # 0 /\ 1 - 1 = 0
        BY <1>2, <1>7, <3>2
      <4>2. Within[1] = Within[0] \union UNION {Children(u) : u \in Within[0]}
        BY <4>1, WithinFacts
      <4>3. Children(Root) \subseteq w.visited
        BY <1>1, <2>1, <2>2, <4>1 DEF FromRoot
      <4> QED
        BY <2>2, <3>1, <4>2, <4>3
    <3> QED
      BY <1>7, <2>2, <3>1, <3>2
  <2>5. ASSUME NEW u \in Within[d], sitemaps[u] # Missing /\ ~sitemaps[u].isIndex
        PROVE  {sitemaps[u].locs[k] : k \in DOMAIN sitemaps[u].locs} \subseteq InSeq(w.found)
    <3>1. u \in Maps /\ u \in w.visited
      BY <1>2, <2>4, <2>5
    <3>2. ~Document(u).isIndex /\ Row(u) = {sitemaps[u].locs[k] : k \in DOMAIN sitemaps[u].locs}
      BY <1>5, <2>5, <3>1
    <3>3. Row(u) \subseteq InSeq(w.found)
      BY <1>1, <1>7, <3>1, <3>2 DEF Taken
    <3> QED
      BY <3>2, <3>3
  <2> QED
    BY <2>5 DEF PagesOf
<1>8. Len(w.found) <= MaxEntries2 /\ Cardinality(InSeq(w.found)) = Len(w.found)
  BY <1>1 DEF Taken
<1>9. InSeq(w.found) \subseteq PagesOf(Within[MaxDepth])
  BY <1>6
<1> QED
  BY <1>1, <1>3, <1>7, <1>8, <1>9, Zenon DEF FindsPages

-----------------------------------------------------------------------------
(* Discover: the rules of robots.txt.                                      *)

NamesIn(text) == {text[k].agent : k \in {k \in DOMAIN text : IsAgent(text[k])}}
Groups(text) == [agents: SUBSET NamesIn(text), rules: SUBSET InSeq(text)]

\* The agents' lines that a rule after the first n lines is for.
Speaking(text, n) ==
    {j \in 1..n : IsAgent(text[j]) /\ \A i \in j..n : IsRule(text[i]) => \A h \in i..n : ~IsAgent(text[h])}

\* What the groups come to.
RulesGiven(groups, agents) ==
    UNION {groups[i].rules : i \in {i \in DOMAIN groups : groups[i].agents \intersect agents # {}}}
NamesGiven(groups) == UNION {groups[i].agents : i \in DOMAIN groups}
RulesUpTo(text, agents, n) ==
    {text[k] : k \in {k \in 1..n : IsRule(text[k]) /\ AgentsOf(text, k) \intersect agents # {}}}
NamesUpTo(text, n) == {text[k].agent : k \in {k \in 1..n : IsAgent(text[k])}}

\* The agents a rule after the first n lines is for; no rule is for them yet; a rule follows every agent.
SpeaksFor(text, n) == {text[j].agent : j \in Speaking(text, n)}
Unruled(text, n) == \A j \in Speaking(text, n) : \A i \in j..n : ~IsRule(text[i])
Ruled(text, n) == \A j \in 1..n : IsAgent(text[j]) => \E i \in j..n : IsRule(text[i])
NoAgent(text, n) == \A k \in 1..n : ~IsAgent(text[k])

\* The first n lines are read: the last group speaks for the agents of the lines before.
Current(text, n, groups) ==
    LET last == groups[Len(groups)]
    IN  IF groups = <<>> THEN NoAgent(text, n)
        ELSE /\ last.agents = SpeaksFor(text, n)
             /\ last.rules = {} => Unruled(text, n)
             /\ last.rules # {} => Ruled(text, n)

ReadSoFar(text, agents, n, groups) ==
    /\ groups \in Seq(Groups(text)) /\ Current(text, n, groups)
    /\ RulesGiven(groups, agents) = RulesUpTo(text, agents, n) /\ NamesGiven(groups) = NamesUpTo(text, n)

\* Who speaks after one more line.
LEMMA SpeakingNext ==
    ASSUME NEW text, NEW n \in Nat
    PROVE  /\ AgentsOf(text, n + 1) = SpeaksFor(text, n)
           /\ ~IsAgent(text[n + 1]) => Speaking(text, n + 1) = Speaking(text, n)
           /\ IsAgent(text[n + 1]) =>
                 Speaking(text, n + 1) = {n + 1} \union {j \in Speaking(text, n) : \A i \in j..n : ~IsRule(text[i])}
<1>1. AgentsOf(text, n + 1) = SpeaksFor(text, n)
  <2>1. (n + 1) - 1 = n
    OBVIOUS
  <2> QED
    BY <2>1, Zenon DEF AgentsOf, Speaking, SpeaksFor
<1>2. ASSUME NEW j \in 1..n PROVE j..n + 1 = (j..n) \union {n + 1} /\ n + 1 \in j..n + 1
  BY <1>2
<1>3. n + 1..n + 1 = {n + 1} /\ 1..n + 1 = (1..n) \union {n + 1}
  OBVIOUS
<1>4. ~(IsAgent(text[n + 1]) /\ IsRule(text[n + 1]))
  BY DEF IsAgent, IsRule
<1>5. ASSUME ~IsAgent(text[n + 1]), NEW j
      PROVE  j \in Speaking(text, n + 1) <=> j \in Speaking(text, n)
  <2>1. j \in Speaking(text, n + 1) => j \in 1..n
    BY <1>3, <1>5 DEF Speaking
  <2>2. ASSUME j \in 1..n
        PROVE  (\A i \in j..n + 1 : IsRule(text[i]) => \A h \in i..n + 1 : ~IsAgent(text[h]))
                  <=> (\A i \in j..n : IsRule(text[i]) => \A h \in i..n : ~IsAgent(text[h]))
    <3>1. \A i \in j..n : i..n + 1 = (i..n) \union {n + 1}
      BY <2>2
    <3> QED
      BY <1>2, <1>3, <1>5, <2>2, <3>1
  <2>3. j \in 1..n => j \in 1..n + 1
    BY <1>3
  <2> QED
    BY <2>1, <2>2, <2>3 DEF Speaking
<1>6. ASSUME IsAgent(text[n + 1]), NEW j
      PROVE  j \in Speaking(text, n + 1) <=>
                j = n + 1 \/ (j \in Speaking(text, n) /\ \A i \in j..n : ~IsRule(text[i]))
  <2>1. n + 1 \in Speaking(text, n + 1)
    BY <1>3, <1>4, <1>6 DEF Speaking
  <2>2. ASSUME j \in 1..n
        PROVE  (\A i \in j..n + 1 : IsRule(text[i]) => \A h \in i..n + 1 : ~IsAgent(text[h]))
                  <=> (\A i \in j..n : ~IsRule(text[i]))
    <3>1. \A i \in j..n : n + 1 \in i..n + 1
      BY <2>2
    <3> QED
      BY <1>2, <1>4, <1>6, <2>2, <3>1
  <2>3. j \in Speaking(text, n + 1) => j = n + 1 \/ j \in 1..n
    BY <1>3 DEF Speaking
  <2>4. j \in 1..n => j \in 1..n + 1
    BY <1>3
  <2>5. (\A i \in j..n : ~IsRule(text[i])) =>
           \A i \in j..n : IsRule(text[i]) => \A h \in i..n : ~IsAgent(text[h])
    OBVIOUS
  <2>6. ASSUME j \in 1..n PROVE j \in Speaking(text, n + 1) <=>
                (j \in Speaking(text, n) /\ \A i \in j..n : ~IsRule(text[i]))
    BY <2>2, <2>4, <2>5, <2>6, Zenon DEF Speaking
  <2>7. j \in Speaking(text, n) => j \in 1..n
    BY Zenon DEF Speaking
  <2> QED
    BY <2>1, <2>3, <2>6, <2>7
<1>7. ASSUME ~IsAgent(text[n + 1]) PROVE Speaking(text, n + 1) = Speaking(text, n)
  BY <1>5, <1>7
<1>8. ASSUME IsAgent(text[n + 1])
      PROVE  Speaking(text, n + 1) = {n + 1} \union {j \in Speaking(text, n) : \A i \in j..n : ~IsRule(text[i])}
  BY <1>6, <1>8
<1> QED
  BY <1>1, <1>7, <1>8

\* One more line that has an agent or a rule, or neither.
LEMMA UpToNext ==
    ASSUME NEW text, NEW agents, NEW n \in Nat
    PROVE  /\ NamesUpTo(text, n + 1) =
                 IF IsAgent(text[n + 1]) THEN NamesUpTo(text, n) \union {text[n + 1].agent} ELSE NamesUpTo(text, n)
           /\ RulesUpTo(text, agents, n + 1) =
                 IF IsRule(text[n + 1]) /\ AgentsOf(text, n + 1) \intersect agents # {}
                 THEN RulesUpTo(text, agents, n) \union {text[n + 1]} ELSE RulesUpTo(text, agents, n)
<1>1. 1..n + 1 = (1..n) \union {n + 1}
  OBVIOUS
<1>2. PICK S : S = 1..n
  OBVIOUS
<1>3. PICK m : m = n + 1
  OBVIOUS
<1>4. 1..n + 1 = S \union {m}
  BY <1>1, <1>2, <1>3
<1>5. NamesUpTo(text, n) = {text[k].agent : k \in {k \in S : IsAgent(text[k])}}
      /\ NamesUpTo(text, n + 1) = {text[k].agent : k \in {k \in S \union {m} : IsAgent(text[k])}}
  BY <1>2, <1>4, Zenon DEF NamesUpTo
<1>6. RulesUpTo(text, agents, n) = {text[k] : k \in {k \in S : IsRule(text[k]) /\ AgentsOf(text, k) \intersect agents # {}}}
      /\ RulesUpTo(text, agents, n + 1) =
           {text[k] : k \in {k \in S \union {m} : IsRule(text[k]) /\ AgentsOf(text, k) \intersect agents # {}}}
  BY <1>2, <1>4, Zenon DEF RulesUpTo
<1> QED
  BY <1>3, <1>5, <1>6, ZenonT(40)

\* What one line does to the groups.
AddsGroup(s, t, line) ==
    /\ IsAgent(line) /\ Opens(s) /\ Len(t) = Len(s) + 1 /\ \A i \in 1..Len(s) : t[i] = s[i]
    /\ t[Len(s) + 1].agents = {line.agent} /\ t[Len(s) + 1].rules = {}
JoinsGroup(s, t, line) ==
    /\ IsAgent(line) /\ ~Opens(s) /\ Len(s) > 0 /\ Len(t) = Len(s) /\ \A i \in 1..Len(s) - 1 : t[i] = s[i]
    /\ t[Len(s)].agents = s[Len(s)].agents \union {line.agent} /\ t[Len(s)].rules = {} /\ s[Len(s)].rules = {}
RulesGroup(s, t, line) ==
    /\ IsRule(line) /\ Len(s) > 0 /\ Len(t) = Len(s) /\ \A i \in 1..Len(s) - 1 : t[i] = s[i]
    /\ t[Len(s)].agents = s[Len(s)].agents /\ t[Len(s)].rules = s[Len(s)].rules \union {line}
LeavesGroups(s, t, line) == t = s /\ ~IsAgent(line) /\ (IsRule(line) => s = <<>>)

WithAgents(group, b) == [group EXCEPT !.agents = b]
WithRules(group, b) == [group EXCEPT !.rules = b]

\* A group with other agents, or other rules.
LEMMA GroupWith ==
    ASSUME NEW text, NEW group \in Groups(text), NEW b
    PROVE  /\ WithAgents(group, b) = [agents |-> b, rules |-> group.rules]
           /\ WithRules(group, b) = [agents |-> group.agents, rules |-> b]
  BY DEF WithAgents, WithRules, Groups

\* What reading a line comes to.
LEMMA ReadFacts ==
    ASSUME NEW text, NEW s \in Seq(Groups(text)), NEW k \in DOMAIN text
    PROVE  /\ Read(s, text[k]) \in Seq(Groups(text))
           /\ \/ AddsGroup(s, Read(s, text[k]), text[k]) \/ JoinsGroup(s, Read(s, text[k]), text[k])
              \/ RulesGroup(s, Read(s, text[k]), text[k]) \/ LeavesGroups(s, Read(s, text[k]), text[k])
<1>1. PICK line : line = text[k]
  OBVIOUS
<1>2. line \in InSeq(text) /\ (IsAgent(line) => line.agent \in NamesIn(text))
  BY <1>1 DEF InSeq, NamesIn
<1>3. ~(IsAgent(line) /\ IsRule(line))
  BY DEF IsAgent, IsRule
<1>4. PICK n \in Nat : n = Len(s) /\ (s = <<>> <=> n = 0) /\ s \in [1..n -> Groups(text)]
  OBVIOUS
<1> DEFINE B == s[n]
<1>11. PICK add : add = Append(s, [agents |-> {line.agent}, rules |-> {}])
  OBVIOUS
<1>12. PICK join : join = [s EXCEPT ![n] = WithAgents(B, B.agents \union {line.agent})]
  OBVIOUS
<1>13. PICK rule : rule = [s EXCEPT ![n] = WithRules(B, B.rules \union {line})]
  OBVIOUS
<1>14. Read(s, line) = CASE IsAgent(line) /\ Opens(s) -> add
                         [] IsAgent(line) /\ ~Opens(s) -> join
                         [] IsRule(line) /\ n > 0 -> rule
                         [] OTHER -> s
  BY <1>4, <1>11, <1>12, <1>13, Zenon DEF Read, WithAgents, WithRules
<1>15. /\ IsAgent(line) /\ Opens(s) => Read(s, line) = add
       /\ IsAgent(line) /\ ~Opens(s) => Read(s, line) = join
       /\ IsRule(line) /\ n > 0 => Read(s, line) = rule
       /\ ~IsAgent(line) /\ ~(IsRule(line) /\ n > 0) => Read(s, line) = s
  BY <1>3, <1>14
<1>5. CASE IsAgent(line) /\ Opens(s)
  <2>1. PICK x \in Groups(text) : x = [agents |-> {line.agent}, rules |-> {}]
    BY <1>2, <1>5 DEF Groups
  <2>2. x.agents = {line.agent} /\ x.rules = {}
    BY <2>1
  <2>3. Read(s, line) = Append(s, x)
    BY <1>5, <1>11, <1>15, <2>1
  <2>4. Append(s, x) \in Seq(Groups(text)) /\ Len(Append(s, x)) = n + 1 /\ Append(s, x)[n + 1] = x
        /\ \A i \in 1..n : Append(s, x)[i] = s[i]
    BY <1>4
  <2> QED
    BY <1>1, <1>4, <1>5, <2>2, <2>3, <2>4 DEF AddsGroup
<1>6. ASSUME n > 0, NEW A, NEW R, [agents |-> A, rules |-> R] \in Groups(text), NEW t,
             t = [s EXCEPT ![n] = [agents |-> A, rules |-> R]]
      PROVE  t \in Seq(Groups(text)) /\ Len(t) = n /\ t[n].agents = A /\ t[n].rules = R /\ \A i \in 1..n - 1 : t[i] = s[i]
  <2>1. t \in [1..n -> Groups(text)]
    BY <1>4, <1>6
  <2>2. t \in Seq(Groups(text)) /\ Len(t) = n
    BY <2>1
  <2>3. PICK x \in Groups(text) : x = [agents |-> A, rules |-> R]
    BY <1>6
  <2>4. DOMAIN s = 1..n /\ n \in 1..n /\ \A i \in 1..n - 1 : i \in 1..n /\ i # n
    <3>1. DOMAIN s = 1..n
      BY <1>4
    <3>2. n \in Nat /\ n > 0
      BY <1>4, <1>6
    <3> QED
      BY <3>1, <3>2
  <2>5. t = [s EXCEPT ![n] = x]
    BY <1>6, <2>3
  <2>6. t[n] = x /\ \A i \in 1..n - 1 : t[i] = s[i]
    BY <2>4, <2>5
  <2>7. x.agents = A /\ x.rules = R
    BY <2>3
  <2> QED
    BY <2>2, <2>6, <2>7
<1>7. ASSUME n > 0
      PROVE  /\ s[n] = [agents |-> s[n].agents, rules |-> s[n].rules]
             /\ s[n] \in Groups(text) /\ s[n].agents \in SUBSET NamesIn(text) /\ s[n].rules \in SUBSET InSeq(text)
  <2>1. s[n] \in Groups(text)
    BY <1>4, <1>7
  <2> QED
    BY <2>1 DEF Groups
<1>8. CASE IsAgent(line) /\ ~Opens(s)
  <2>1. n > 0 /\ s[n].rules = {}
    BY <1>4, <1>8 DEF Opens
  <2>3. Read(s, line) = join
    BY <1>8, <1>15
  <2>4. PICK A : A = s[n].agents \union {line.agent} /\ A \in SUBSET NamesIn(text)
    BY <1>2, <1>7, <1>8, <2>1
  <2>5. [agents |-> A, rules |-> {}] \in Groups(text)
    BY <2>4 DEF Groups
  <2>6. join = [s EXCEPT ![n] = [agents |-> A, rules |-> {}]]
    <3>1. WithAgents(B, B.agents \union {line.agent}) = [agents |-> A, rules |-> {}]
      <4>1. /\ B \in Groups(text) /\ B.rules = {}
            /\ A = B.agents \union {line.agent}
        BY <1>7, <2>1, <2>4
      <4> HIDE DEF B
      <4>2. WithAgents(B, A) = [agents |-> A, rules |-> B.rules]
        BY GroupWith, <4>1, Zenon
      <4> QED
        BY <4>1, <4>2, Zenon
    <3> HIDE DEF B
    <3> QED
      BY <1>12, <3>1
  <2>7. PICK t : t = join /\ t = [s EXCEPT ![n] = [agents |-> A, rules |-> {}]]
    BY <2>6
  <2>8. /\ t \in Seq(Groups(text)) /\ Len(t) = n /\ t[n].agents = A /\ t[n].rules = {}
        /\ \A i \in 1..n - 1 : t[i] = s[i]
    <3>1. PICK R : R = {}
      OBVIOUS
    <3>2. n > 0 /\ [agents |-> A, rules |-> R] \in Groups(text) /\ t = [s EXCEPT ![n] = [agents |-> A, rules |-> R]]
      BY <2>1, <2>5, <2>7, <3>1
    <3>3. t \in Seq(Groups(text)) /\ Len(t) = n /\ t[n].agents = A /\ t[n].rules = R /\ \A i \in 1..n - 1 : t[i] = s[i]
      BY <1>6, <3>2
    <3> QED
      BY <3>1, <3>3
  <2> QED
    BY <1>1, <1>4, <1>8, <2>1, <2>3, <2>4, <2>7, <2>8 DEF JoinsGroup
<1>9. CASE IsRule(line) /\ n > 0
  <2>3. Read(s, line) = rule
    BY <1>9, <1>15
  <2>4. PICK R : R = s[n].rules \union {line} /\ R \in SUBSET InSeq(text)
    BY <1>2, <1>7, <1>9
  <2>5. [agents |-> s[n].agents, rules |-> R] \in Groups(text)
    BY <1>7, <1>9, <2>4 DEF Groups
  <2>6. rule = [s EXCEPT ![n] = [agents |-> B.agents, rules |-> R]]
    <3>1. WithRules(B, B.rules \union {line}) = [agents |-> B.agents, rules |-> R]
      <4>1. B \in Groups(text) /\ R = B.rules \union {line}
        BY <1>7, <1>9, <2>4
      <4> HIDE DEF B
      <4>2. WithRules(B, R) = [agents |-> B.agents, rules |-> R]
        BY GroupWith, <4>1, Zenon
      <4> QED
        BY <4>1, <4>2, Zenon
    <3> HIDE DEF B
    <3> QED
      BY <1>13, <3>1
  <2>7. PICK t : t = rule /\ t = [s EXCEPT ![n] = [agents |-> s[n].agents, rules |-> R]]
    BY <2>6
  <2>8. /\ t \in Seq(Groups(text)) /\ Len(t) = n /\ t[n].agents = s[n].agents /\ t[n].rules = R
        /\ \A i \in 1..n - 1 : t[i] = s[i]
    BY <1>6, <1>9, <2>5, <2>7
  <2> QED
    BY <1>1, <1>4, <1>9, <2>3, <2>4, <2>7, <2>8 DEF RulesGroup
<1>10. CASE ~IsAgent(line) /\ ~(IsRule(line) /\ n > 0)
  <2>1. Read(s, line) = s
    BY <1>10, <1>15
  <2> QED
    BY <1>1, <1>4, <1>10, <2>1 DEF LeavesGroups
<1> QED
  BY <1>5, <1>8, <1>9, <1>10

\* Which rules and names the groups have, one by one.
LEMMA GivenFacts ==
    ASSUME NEW text, NEW s \in Seq(Groups(text)), NEW agents
    PROVE  /\ \A r : r \in RulesGiven(s, agents) <=> \E i \in 1..Len(s) : s[i].agents \intersect agents # {} /\ r \in s[i].rules
           /\ \A a : a \in NamesGiven(s) <=> \E i \in 1..Len(s) : a \in s[i].agents
<1>1. DOMAIN s = 1..Len(s)
  OBVIOUS
<1> QED
  BY <1>1 DEF RulesGiven, NamesGiven

\* The last group, when there is one.
LEMMA CurrentLast ==
    ASSUME NEW text, NEW n \in Nat, NEW s \in Seq(Groups(text)), NEW m \in Nat, m = Len(s)
    PROVE  /\ m = 0 => (Current(text, n, s) <=> NoAgent(text, n))
           /\ m > 0 => (Current(text, n, s) <=>
                 /\ s[m].agents = SpeaksFor(text, n)
                 /\ s[m].rules = {} => Unruled(text, n)
                 /\ s[m].rules # {} => Ruled(text, n))
<1>1. s = <<>> <=> m = 0
  OBVIOUS
<1>2. m = 0 => (Current(text, n, s) <=> NoAgent(text, n))
  BY <1>1, Zenon DEF Current
<1>3. m # 0 => (Current(text, n, s) <=>
                 /\ s[m].agents = SpeaksFor(text, n)
                 /\ s[m].rules = {} => Unruled(text, n)
                 /\ s[m].rules # {} => Ruled(text, n))
  BY <1>1, Zenon DEF Current
<1> QED
  BY <1>2, <1>3

\* Who speaks is an agent's line that was read.
LEMMA SpeakingFacts ==
    ASSUME NEW text, NEW n \in Nat, NEW j \in Speaking(text, n)
    PROVE  j \in 1..n /\ IsAgent(text[j])
  BY DEF Speaking

\* A new group is for the agent that opens it.
LEMMA AddHolds ==
    ASSUME NEW text, NEW agents, NEW n \in Nat, NEW s, NEW t \in Seq(Groups(text)),
           ReadSoFar(text, agents, n, s), AddsGroup(s, t, text[n + 1])
    PROVE  ReadSoFar(text, agents, n + 1, t)
<1>1. PICK line : line = text[n + 1]
  OBVIOUS
<1>2. /\ s \in Seq(Groups(text)) /\ Current(text, n, s)
      /\ RulesGiven(s, agents) = RulesUpTo(text, agents, n) /\ NamesGiven(s) = NamesUpTo(text, n)
  BY DEF ReadSoFar
<1>3. PICK m \in Nat : m = Len(s) /\ (s = <<>> <=> m = 0)
  BY <1>2
<1>4. /\ IsAgent(line) /\ ~IsRule(line) /\ Opens(s) /\ Len(t) = m + 1 /\ \A i \in 1..m : t[i] = s[i]
      /\ t[m + 1].agents = {line.agent} /\ t[m + 1].rules = {}
  BY <1>1, <1>3 DEF AddsGroup, IsAgent, IsRule
<1>5. 1..m + 1 = (1..m) \union {m + 1}
  BY <1>3
<1>6. RulesGiven(t, agents) = RulesGiven(s, agents)
  <2>1. ASSUME NEW r PROVE r \in RulesGiven(t, agents) <=> r \in RulesGiven(s, agents)
    <3>1. r \in RulesGiven(s, agents) <=> \E i \in 1..m : s[i].agents \intersect agents # {} /\ r \in s[i].rules
      BY <1>2, <1>3, GivenFacts
    <3>2. r \in RulesGiven(t, agents) <=> \E i \in 1..m + 1 : t[i].agents \intersect agents # {} /\ r \in t[i].rules
      BY <1>4, GivenFacts
    <3> QED
      BY <1>4, <1>5, <3>1, <3>2
  <2> QED
    BY <2>1
<1>7. NamesGiven(t) = NamesGiven(s) \union {line.agent}
  <2>1. ASSUME NEW a PROVE a \in NamesGiven(t) <=> a \in NamesGiven(s) \/ a = line.agent
    <3>1. a \in NamesGiven(s) <=> \E i \in 1..m : a \in s[i].agents
      BY <1>2, <1>3, GivenFacts
    <3>2. a \in NamesGiven(t) <=> \E i \in 1..m + 1 : a \in t[i].agents
      BY <1>4, GivenFacts
    <3> QED
      BY <1>4, <1>5, <3>1, <3>2
  <2> QED
    BY <2>1
<1>8. NamesGiven(t) = NamesUpTo(text, n + 1) /\ RulesGiven(t, agents) = RulesUpTo(text, agents, n + 1)
  <2>1. NamesUpTo(text, n + 1) = NamesUpTo(text, n) \union {line.agent}
    BY <1>1, <1>4, UpToNext
  <2>2. RulesUpTo(text, agents, n + 1) = RulesUpTo(text, agents, n)
    BY <1>1, <1>4, UpToNext
  <2> QED
    BY <1>2, <1>6, <1>7, <2>1, <2>2
<1>9. ASSUME NEW j \in Speaking(text, n) PROVE \E i \in j..n : IsRule(text[i])
  <2>1. j \in 1..n /\ IsAgent(text[j])
    BY SpeakingFacts
  <2>2. m # 0 => s[m].rules # {}
    BY <1>3, <1>4 DEF Opens
  <2>3. m = 0 => NoAgent(text, n)
    BY <1>2, <1>3, CurrentLast
  <2>4. m > 0 => Ruled(text, n)
    BY <1>2, <1>3, <2>2, CurrentLast
  <2> QED
    BY <1>3, <2>1, <2>3, <2>4 DEF NoAgent, Ruled
<1>10. Speaking(text, n + 1) = {n + 1}
  <2>1. Speaking(text, n + 1) = {n + 1} \union {j \in Speaking(text, n) : \A i \in j..n : ~IsRule(text[i])}
    BY <1>1, <1>4, SpeakingNext, Zenon
  <2>2. {j \in Speaking(text, n) : \A i \in j..n : ~IsRule(text[i])} = {}
    BY <1>9
  <2> QED
    BY <2>1, <2>2
<1>11. Current(text, n + 1, t)
  <2>1. t[m + 1].agents = SpeaksFor(text, n + 1)
    BY <1>1, <1>4, <1>10 DEF SpeaksFor
  <2>2. Unruled(text, n + 1)
    BY <1>1, <1>4, <1>10 DEF Unruled
  <2>3. m + 1 \in Nat /\ m + 1 > 0 /\ n + 1 \in Nat /\ m + 1 = Len(t)
    BY <1>3, <1>4
  <2> QED
    BY <1>4, <2>1, <2>2, <2>3, CurrentLast
<1> QED
  BY <1>8, <1>11 DEF ReadSoFar

\* An agent joins the group that has no rule yet.
LEMMA JoinHolds ==
    ASSUME NEW text, NEW agents, NEW n \in Nat, NEW s, NEW t \in Seq(Groups(text)),
           ReadSoFar(text, agents, n, s), JoinsGroup(s, t, text[n + 1])
    PROVE  ReadSoFar(text, agents, n + 1, t)
<1>1. PICK line : line = text[n + 1]
  OBVIOUS
<1>2. /\ s \in Seq(Groups(text)) /\ Current(text, n, s)
      /\ RulesGiven(s, agents) = RulesUpTo(text, agents, n) /\ NamesGiven(s) = NamesUpTo(text, n)
  BY DEF ReadSoFar
<1>3. PICK m \in Nat : m = Len(s)
  BY <1>2
<1>4. /\ IsAgent(line) /\ ~IsRule(line) /\ m > 0 /\ Len(t) = m /\ \A i \in 1..m - 1 : t[i] = s[i]
      /\ t[m].agents = s[m].agents \union {line.agent} /\ t[m].rules = {} /\ s[m].rules = {}
  BY <1>1, <1>3 DEF JoinsGroup, IsAgent, IsRule
<1>5. 1..m = (1..m - 1) \union {m}
  BY <1>3, <1>4
<1>6. RulesGiven(t, agents) = RulesGiven(s, agents)
  <2>1. ASSUME NEW r PROVE r \in RulesGiven(t, agents) <=> r \in RulesGiven(s, agents)
    <3>1. r \in RulesGiven(s, agents) <=> \E i \in 1..m : s[i].agents \intersect agents # {} /\ r \in s[i].rules
      BY <1>2, <1>3, GivenFacts
    <3>2. r \in RulesGiven(t, agents) <=> \E i \in 1..m : t[i].agents \intersect agents # {} /\ r \in t[i].rules
      BY <1>4, GivenFacts
    <3> QED
      BY <1>4, <1>5, <3>1, <3>2
  <2> QED
    BY <2>1
<1>7. NamesGiven(t) = NamesGiven(s) \union {line.agent}
  <2>1. ASSUME NEW a PROVE a \in NamesGiven(t) <=> a \in NamesGiven(s) \/ a = line.agent
    <3>1. a \in NamesGiven(s) <=> \E i \in 1..m : a \in s[i].agents
      BY <1>2, <1>3, GivenFacts
    <3>2. a \in NamesGiven(t) <=> \E i \in 1..m : a \in t[i].agents
      BY <1>4, GivenFacts
    <3> QED
      BY <1>4, <1>5, <3>1, <3>2
  <2> QED
    BY <2>1
<1>8. NamesGiven(t) = NamesUpTo(text, n + 1) /\ RulesGiven(t, agents) = RulesUpTo(text, agents, n + 1)
  <2>1. NamesUpTo(text, n + 1) = NamesUpTo(text, n) \union {line.agent}
    BY <1>1, <1>4, UpToNext
  <2>2. RulesUpTo(text, agents, n + 1) = RulesUpTo(text, agents, n)
    BY <1>1, <1>4, UpToNext
  <2> QED
    BY <1>2, <1>6, <1>7, <2>1, <2>2
<1>9. s[m].agents = SpeaksFor(text, n) /\ Unruled(text, n)
  BY <1>2, <1>3, <1>4, CurrentLast
<1>10. Speaking(text, n + 1) = {n + 1} \union Speaking(text, n)
  <2>1. Speaking(text, n + 1) = {n + 1} \union {j \in Speaking(text, n) : \A i \in j..n : ~IsRule(text[i])}
    BY <1>1, <1>4, SpeakingNext
  <2> QED
    BY <1>9, <2>1 DEF Unruled
<1>11. Current(text, n + 1, t)
  <2>1. t[m].agents = SpeaksFor(text, n + 1)
    BY <1>1, <1>4, <1>9, <1>10 DEF SpeaksFor
  <2>2. Unruled(text, n + 1)
    <3> SUFFICES \A j \in Speaking(text, n + 1) : \A i \in j..n + 1 : ~IsRule(text[i])
      BY DEF Unruled
    <3> TAKE j \in Speaking(text, n + 1)
    <3>1. j..n + 1 \subseteq (j..n) \union {n + 1}
      <4>1. j \in Int
        BY <1>10, SpeakingFacts
      <4> QED
        BY <4>1
    <3>2. n + 1..n = {}
      OBVIOUS
    <3>3. \A i \in j..n : ~IsRule(text[i])
      BY <1>9, <1>10, <3>2 DEF Unruled
    <3> QED
      BY <1>1, <1>4, <3>1, <3>3
  <2>3. n + 1 \in Nat
    OBVIOUS
  <2> QED
    BY <1>3, <1>4, <2>1, <2>2, <2>3, CurrentLast
<1> QED
  BY <1>8, <1>11 DEF ReadSoFar

\* A rule is for the agents of the last group.
LEMMA RuleHolds ==
    ASSUME NEW text, NEW agents, NEW n \in Nat, NEW s, NEW t \in Seq(Groups(text)),
           ReadSoFar(text, agents, n, s), RulesGroup(s, t, text[n + 1])
    PROVE  ReadSoFar(text, agents, n + 1, t)
<1>1. PICK line : line = text[n + 1]
  OBVIOUS
<1>2. /\ s \in Seq(Groups(text)) /\ Current(text, n, s)
      /\ RulesGiven(s, agents) = RulesUpTo(text, agents, n) /\ NamesGiven(s) = NamesUpTo(text, n)
  BY DEF ReadSoFar
<1>3. PICK m \in Nat : m = Len(s)
  BY <1>2
<1>4. /\ ~IsAgent(line) /\ IsRule(line) /\ m > 0 /\ Len(t) = m /\ \A i \in 1..m - 1 : t[i] = s[i]
      /\ t[m].agents = s[m].agents /\ t[m].rules = s[m].rules \union {line}
  BY <1>1, <1>3 DEF RulesGroup, IsAgent, IsRule
<1>5. 1..m = (1..m - 1) \union {m}
  BY <1>3, <1>4
<1>6. s[m].agents = SpeaksFor(text, n) /\ AgentsOf(text, n + 1) = s[m].agents
  <2>1. s[m].agents = SpeaksFor(text, n)
    BY <1>2, <1>3, <1>4, CurrentLast
  <2> QED
    BY <2>1, SpeakingNext, Zenon
<1>7. RulesGiven(t, agents) = RulesUpTo(text, agents, n + 1)
  <2>1. ASSUME NEW r
        PROVE  r \in RulesGiven(t, agents) <=>
                  r \in RulesGiven(s, agents) \/ (s[m].agents \intersect agents # {} /\ r = line)
    <3>1. r \in RulesGiven(s, agents) <=> \E i \in 1..m : s[i].agents \intersect agents # {} /\ r \in s[i].rules
      BY <1>2, <1>3, GivenFacts
    <3>2. r \in RulesGiven(t, agents) <=> \E i \in 1..m : t[i].agents \intersect agents # {} /\ r \in t[i].rules
      BY <1>4, GivenFacts
    <3> QED
      BY <1>4, <1>5, <3>1, <3>2
  <2>2. RulesUpTo(text, agents, n + 1) =
           IF s[m].agents \intersect agents # {} THEN RulesUpTo(text, agents, n) \union {line} ELSE RulesUpTo(text, agents, n)
    <3>1. RulesUpTo(text, agents, n + 1) =
             IF IsRule(line) /\ s[m].agents \intersect agents # {}
             THEN RulesUpTo(text, agents, n) \union {line} ELSE RulesUpTo(text, agents, n)
      <4>1. AgentsOf(text, n + 1) = s[m].agents /\ text[n + 1] = line
        BY <1>1, <1>6
      <4>2. RulesUpTo(text, agents, n + 1) =
               IF IsRule(text[n + 1]) /\ AgentsOf(text, n + 1) \intersect agents # {}
               THEN RulesUpTo(text, agents, n) \union {text[n + 1]} ELSE RulesUpTo(text, agents, n)
        BY UpToNext, Zenon
      <4> QED
        BY <4>1, <4>2, Zenon
    <3> QED
      BY <1>4, <3>1
  <2> QED
    BY <1>2, <2>1, <2>2
<1>8. NamesGiven(t) = NamesUpTo(text, n + 1)
  <2>1. ASSUME NEW a PROVE a \in NamesGiven(t) <=> a \in NamesGiven(s)
    <3>1. a \in NamesGiven(s) <=> \E i \in 1..m : a \in s[i].agents
      BY <1>2, <1>3, GivenFacts
    <3>2. a \in NamesGiven(t) <=> \E i \in 1..m : a \in t[i].agents
      BY <1>4, GivenFacts
    <3> QED
      BY <1>4, <1>5, <3>1, <3>2
  <2>2. NamesUpTo(text, n + 1) = NamesUpTo(text, n)
    BY <1>1, <1>4, UpToNext
  <2> QED
    BY <1>2, <2>1, <2>2
<1>9. Current(text, n + 1, t)
  <2>1. Speaking(text, n + 1) = Speaking(text, n)
    BY <1>1, <1>4, SpeakingNext
  <2>2. t[m].agents = SpeaksFor(text, n + 1)
    BY <1>4, <1>6, <2>1 DEF SpeaksFor
  <2>3. Ruled(text, n + 1)
    BY <1>1, <1>4 DEF Ruled
  <2>4. n + 1 \in Nat /\ t[m].rules # {}
    BY <1>4
  <2> QED
    BY <1>3, <1>4, <2>2, <2>3, <2>4, CurrentLast
<1> QED
  BY <1>7, <1>8, <1>9 DEF ReadSoFar

\* Any other line changes nothing: an empty rule, or a rule before the first agent.
LEMMA LeaveHolds ==
    ASSUME NEW text, NEW agents, NEW n \in Nat, NEW s,
           ReadSoFar(text, agents, n, s), LeavesGroups(s, s, text[n + 1])
    PROVE  ReadSoFar(text, agents, n + 1, s)
<1>1. PICK line : line = text[n + 1]
  OBVIOUS
<1>2. /\ s \in Seq(Groups(text)) /\ Current(text, n, s)
      /\ RulesGiven(s, agents) = RulesUpTo(text, agents, n) /\ NamesGiven(s) = NamesUpTo(text, n)
  BY DEF ReadSoFar
<1>3. PICK m \in Nat : m = Len(s) /\ (s = <<>> <=> m = 0)
  BY <1>2
<1>4. ~IsAgent(line) /\ (IsRule(line) => m = 0)
  BY <1>1, <1>3 DEF LeavesGroups
<1>5. 1..n + 1 = (1..n) \union {n + 1} /\ n + 1 \in Nat
  OBVIOUS
<1>6. m = 0 => NoAgent(text, n) /\ NoAgent(text, n + 1)
  <2>1. m = 0 => NoAgent(text, n)
    BY <1>2, <1>3, CurrentLast
  <2> QED
    BY <1>1, <1>4, <1>5, <2>1 DEF NoAgent
<1>7. RulesUpTo(text, agents, n + 1) = RulesUpTo(text, agents, n)
  <2>1. m = 0 => AgentsOf(text, n + 1) = {}
    <3>1. ASSUME m = 0, NEW j \in Speaking(text, n) PROVE FALSE
      BY <1>6, <3>1, SpeakingFacts DEF NoAgent
    <3>2. m = 0 => SpeaksFor(text, n) = {}
      BY <3>1 DEF SpeaksFor
    <3> QED
      BY <3>2, SpeakingNext, Zenon
  <2>2. ~(IsRule(line) /\ AgentsOf(text, n + 1) \intersect agents # {})
    BY <1>4, <2>1
  <2> QED
    BY <1>1, <2>2, UpToNext, Zenon
<1>8. NamesUpTo(text, n + 1) = NamesUpTo(text, n)
  BY <1>1, <1>4, UpToNext
<1>9. Speaking(text, n + 1) = Speaking(text, n)
  BY <1>1, <1>4, SpeakingNext
<1>10. ASSUME m > 0 PROVE Current(text, n + 1, s)
  <2>1. s[m].agents = SpeaksFor(text, n) /\ (s[m].rules = {} => Unruled(text, n)) /\ (s[m].rules # {} => Ruled(text, n))
    BY <1>2, <1>3, <1>10, CurrentLast
  <2>2. ~IsRule(line)
    BY <1>4, <1>10
  <2>3. \A j \in 1..n : j..n + 1 = (j..n) \union {n + 1}
    OBVIOUS
  <2>4. \A j \in Speaking(text, n) : j \in 1..n
    BY SpeakingFacts
  <2>5. Unruled(text, n) => Unruled(text, n + 1)
    BY <1>1, <1>9, <2>2, <2>3, <2>4 DEF Unruled
  <2>6. Ruled(text, n) => Ruled(text, n + 1)
    BY <1>1, <1>4, <1>5, <2>3 DEF Ruled
  <2>7. SpeaksFor(text, n + 1) = SpeaksFor(text, n)
    BY <1>9 DEF SpeaksFor
  <2> QED
    BY <1>2, <1>3, <1>5, <1>10, <2>1, <2>5, <2>6, <2>7, CurrentLast
<1>11. m = 0 => Current(text, n + 1, s)
  BY <1>2, <1>3, <1>5, <1>6, CurrentLast
<1> QED
  BY <1>2, <1>3, <1>7, <1>8, <1>10, <1>11 DEF ReadSoFar

\* One line after the other.
LEMMA ReadHolds ==
    ASSUME NEW text, NEW agents, NEW n \in Nat, n + 1 \in DOMAIN text, NEW s, ReadSoFar(text, agents, n, s)
    PROVE  ReadSoFar(text, agents, n + 1, Read(s, text[n + 1]))
<1>1. s \in Seq(Groups(text))
  BY DEF ReadSoFar
<1>2. PICK t \in Seq(Groups(text)) :
         /\ t = Read(s, text[n + 1])
         /\ \/ AddsGroup(s, t, text[n + 1]) \/ JoinsGroup(s, t, text[n + 1])
            \/ RulesGroup(s, t, text[n + 1]) \/ LeavesGroups(s, t, text[n + 1])
  BY <1>1, ReadFacts
<1>3. LeavesGroups(s, t, text[n + 1]) => t = s
  BY DEF LeavesGroups
<1> QED
  BY <1>2, <1>3, AddHolds, JoinHolds, RuleHolds, LeaveHolds

\* The rules of a text, and what is assumed of them.
RulesOf(text) == {text[k] : k \in {k \in DOMAIN text : IsRule(text[k])}}

\* A robots.txt is a sequence of lines, and its rules allow or not and have a length.
LEMMA TextFacts ==
    ASSUME NEW text \in Texts \union {<<>>}
    PROVE  /\ text \in Seq(InSeq(text)) /\ Len(text) \in Nat /\ DOMAIN text = 1..Len(text)
           /\ \A r \in RulesOf(text) : r.allow \in BOOLEAN /\ r.length \in Nat
<1>1. /\ text \in Seq(InSeq(text))
      /\ \A k \in DOMAIN text : text[k].field = "rule" => text[k].allow \in BOOLEAN /\ text[k].length \in Nat
  BY DiscoverAssumption, Zenon DEF InSeq
<1> QED
  BY <1>1 DEF RulesOf, IsRule

\* The longest of some rules.
LEMMA LongestOf ==
    ASSUME NEW text \in Texts \union {<<>>}, NEW M \in SUBSET RulesOf(text), M # {}
    PROVE  \E x \in M : \A s \in M : s.length <= x.length
<1> DEFINE S == {n \in Nat : \E b \in Nat : \A k \in DOMAIN text : k <= n /\ text[k] \in M => text[k].length <= b}
<1>1. /\ Len(text) \in Nat /\ DOMAIN text = 1..Len(text) /\ \A r \in M : r.length \in Nat
      /\ \A r \in M : \E k \in DOMAIN text : r = text[k]
  BY TextFacts DEF RulesOf
<1>2. 0 \in S
  <2>1. \A k \in DOMAIN text : ~(k <= 0)
    BY <1>1
  <2> QED
    BY <2>1
<1>3. \A n \in Nat : n \in S => n + 1 \in S
  <2> TAKE n \in Nat
  <2> HAVE n \in S
  <2>1. PICK b \in Nat : \A k \in DOMAIN text : k <= n /\ text[k] \in M => text[k].length <= b
    OBVIOUS
  <2>2. \A k \in DOMAIN text : k <= n + 1 => k <= n \/ k = n + 1
    BY <1>1
  <2>3. PICK c \in Nat : b <= c /\ (text[n + 1] \in M => text[n + 1].length <= c)
    <3>1. CASE text[n + 1] \in M
      <4>1. PICK d \in Nat : d = text[n + 1].length
        BY <1>1, <3>1
      <4>2. b + d \in Nat /\ b <= b + d /\ d <= b + d
        OBVIOUS
      <4> QED
        BY <4>1, <4>2
    <3>2. CASE text[n + 1] \notin M
      BY <3>2
    <3> QED
      BY <3>1, <3>2
  <2>4. \A k \in DOMAIN text : k <= n /\ text[k] \in M => text[k].length <= c
    <3> TAKE k \in DOMAIN text
    <3> HAVE k <= n /\ text[k] \in M
    <3>1. PICK d \in Nat : d = text[k].length
      BY <1>1
    <3>2. d <= b
      BY <2>1, <3>1
    <3> QED
      BY <2>3, <3>1, <3>2
  <2>5. \A k \in DOMAIN text : k <= n + 1 /\ text[k] \in M => text[k].length <= c
    BY <2>2, <2>3, <2>4
  <2> QED
    BY <2>5
<1>4. Len(text) \in S
  <2> HIDE DEF S
  <2> QED
    BY <1>1, <1>2, <1>3, AllNumbers
<1> DEFINE B == {b \in Nat : \A r \in M : r.length <= b}
<1>5. B # {}
  <2>1. PICK b \in Nat : \A k \in DOMAIN text : k <= Len(text) /\ text[k] \in M => text[k].length <= b
    BY <1>4
  <2>2. \A k \in DOMAIN text : k <= Len(text)
    BY <1>1
  <2>3. \A r \in M : r.length <= b
    BY <1>1, <2>1, <2>2
  <2> QED
    BY <2>3
<1>6. PICK b \in B : \A c \in B : b <= c
  <2>1. B \in SUBSET Nat
    OBVIOUS
  <2> HIDE DEF B
  <2> QED
    BY <1>5, <2>1, LeastOf
<1>7. b \in Nat /\ \A r \in M : r.length <= b
  BY <1>6
<1>8. \E x \in M : x.length = b
  <2>1. SUFFICES ASSUME \A x \in M : x.length # b PROVE FALSE
    OBVIOUS
  <2>2. \A x \in M : x.length \in Nat /\ x.length < b
    <3> TAKE x \in M
    <3>1. PICK d \in Nat : d = x.length /\ d <= b /\ d # b
      BY <1>1, <1>7, <2>1
    <3> QED
      BY <1>7, <3>1
  <2>3. b > 0
    <3>1. PICK x \in M : TRUE
      OBVIOUS
    <3>2. PICK d \in Nat : d = x.length /\ d < b
      BY <2>2
    <3> QED
      BY <1>7, <3>2
  <2>4. b - 1 \in Nat /\ ~(b <= b - 1)
    BY <1>7, <2>3
  <2>5. \A x \in M : x.length <= b - 1
    <3> TAKE x \in M
    <3>1. PICK d \in Nat : d = x.length /\ d < b
      BY <2>2
    <3> QED
      BY <1>7, <3>1
  <2> QED
    BY <1>6, <2>4, <2>5
<1> QED
  BY <1>7, <1>8

\* The longest rule decides, an allowing one among equals.
LEMMA LongestDecides ==
    ASSUME NEW text \in Texts \union {<<>>}, NEW M \in SUBSET RulesOf(text)
    PROVE  M = {} \/ AllowedByLongest(M) <=>
              M = {} \/ \E r \in M : r.allow /\ ~\E s \in M : ~s.allow /\ s.length > r.length
<1>1. \A r \in M : r.allow \in BOOLEAN /\ r.length \in Nat
  BY TextFacts
<1>2. AllowedByLongest(M) => \E r \in M : r.allow /\ ~\E s \in M : ~s.allow /\ s.length > r.length
  <2>1. SUFFICES ASSUME NEW r \in M, r.allow, \A s \in M : s.length <= r.length
                 PROVE  ~\E s \in M : ~s.allow /\ s.length > r.length
    BY DEF AllowedByLongest
  <2>2. ASSUME NEW s \in M PROVE ~(s.length > r.length)
    <3>1. PICK c \in Nat, d \in Nat : c = s.length /\ d = r.length
      BY <1>1
    <3> QED
      BY <2>1, <3>1
  <2> QED
    BY <2>2
<1>3. ASSUME NEW r \in M, r.allow, ~\E s \in M : ~s.allow /\ s.length > r.length
      PROVE  AllowedByLongest(M)
  <2>1. PICK x \in M : \A s \in M : s.length <= x.length
    BY LongestOf
  <2>2. CASE x.allow
    BY <2>1, <2>2 DEF AllowedByLongest
  <2>3. CASE ~x.allow
    <3>1. \A s \in M : s.length <= r.length
      <4> TAKE s \in M
      <4>1. PICK c \in Nat, d \in Nat, e \in Nat : c = s.length /\ d = r.length /\ e = x.length
        BY <1>1
      <4>2. c <= e /\ ~(e > d)
        BY <1>3, <2>1, <2>3, <4>1
      <4> QED
        BY <4>1, <4>2
    <3> QED
      BY <1>3, <3>1 DEF AllowedByLongest
  <2> QED
    BY <2>2, <2>3
<1> QED
  BY <1>2, <1>3

\* What parseRobotsRules returns is what was read when the last line was.
LEMMA ParseEnds ==
    ASSUME NEW text \in Texts \union {<<>>}, NEW agents
    PROVE  ReadSoFar(text, agents, Len(text), ParseRobotsRules(text))
<1> DEFINE A == Seq(Groups(text))
           next == [s \in A |-> [k \in Nat |-> IF Read(s, text[k]) \in A THEN Read(s, text[k]) ELSE s]]
           after[k \in 0..Len(text)] == IF k = 0 THEN <<>> ELSE Read(after[k - 1], text[k])
<1>0. PICK N \in Nat : N = Len(text) /\ DOMAIN text = 1..N
  BY TextFacts
<1>1. ParseRobotsRules(text) = after[Len(text)]
  BY Zenon DEF ParseRobotsRules
<1>2. PICK e : e = <<>> /\ e \in A
  <2>1. <<>> \in A
    OBVIOUS
  <2> QED
    BY <2>1, Zenon
<1>3. next \in [A -> [Nat -> A]]
  OBVIOUS
<1>4. PICK g \in [0..N -> A] : GoesOn(g, e, next, N)
  <2> HIDE DEF next, A, after
  <2>1. e \in A /\ next \in [A -> [Nat -> A]] /\ N \in Nat
    BY <1>2, <1>3, Zenon
  <2> QED
    BY <2>1, Recursion, Zenon
<1>5. g[0] = e /\ \A k \in 1..N : g[k] = next[g[k - 1]][k]
  BY <1>4, Zenon DEF GoesOn
<1>6. ReadSoFar(text, agents, 0, e)
  <2>0. <<>> \in A /\ Len(<<>>) = 0 /\ 1..0 = {}
    OBVIOUS
  <2>1. PICK s \in A : s = e /\ s = <<>> /\ Len(s) = 0 /\ 1..0 = {}
    BY <1>2, <2>0, Zenon
  <2>2. RulesGiven(s, agents) = {} /\ NamesGiven(s) = {}
    BY <2>1, GivenFacts
  <2>3. RulesUpTo(text, agents, 0) = {} /\ NamesUpTo(text, 0) = {} /\ NoAgent(text, 0)
    BY <2>1 DEF RulesUpTo, NamesUpTo, NoAgent
  <2>4. Current(text, 0, s)
    BY <2>1, <2>3, Zenon DEF Current
  <2> QED
    BY <2>1, <2>2, <2>3, <2>4 DEF ReadSoFar
<1> DEFINE S == {k \in Nat : k <= N => ReadSoFar(text, agents, k, g[k])}
<1>7. \A k \in 1..N : ReadSoFar(text, agents, k - 1, g[k - 1]) =>
                        g[k] = Read(g[k - 1], text[k]) /\ ReadSoFar(text, agents, k, g[k])
  <2> TAKE k \in 1..N
  <2>1. k - 1 \in 0..N /\ k - 1 \in Nat /\ k \in Nat /\ (k - 1) + 1 = k /\ k \in DOMAIN text
    BY <1>0
  <2>2. PICK s \in A : s = g[k - 1]
    BY <2>1
  <2>3. ASSUME ReadSoFar(text, agents, k - 1, s) PROVE ReadSoFar(text, agents, k, Read(s, text[k])) /\ g[k] = Read(s, text[k])
    <3>1. PICK m \in Nat : m = k - 1 /\ m + 1 = k
      BY <2>1
    <3>2. ReadSoFar(text, agents, m + 1, Read(s, text[m + 1]))
      BY <2>1, <2>3, <3>1, ReadHolds
    <3>3. ReadSoFar(text, agents, k, Read(s, text[k]))
      BY <3>1, <3>2
    <3>4. Read(s, text[k]) \in A
      BY <3>3 DEF ReadSoFar
    <3>5. next[s][k] = Read(s, text[k])
      BY <2>1, <3>4
    <3> HIDE DEF next
    <3> QED
      BY <1>5, <2>2, <3>3, <3>5
  <2> QED
    BY <2>2, <2>3
<1> HIDE DEF next
<1>8. Nat \subseteq S
  <2>1. 0 \in S
    BY <1>5, <1>6
  <2>2. \A k \in Nat : k \in S => k + 1 \in S
    <3> TAKE k \in Nat
    <3> HAVE k \in S
    <3>1. ASSUME k + 1 <= N PROVE ReadSoFar(text, agents, k + 1, g[k + 1])
      <4>1. k + 1 \in 1..N /\ (k + 1) - 1 = k /\ k <= N
        BY <1>0, <3>1
      <4>2. ReadSoFar(text, agents, k, g[k])
        BY <4>1
      <4>3. ReadSoFar(text, agents, (k + 1) - 1, g[(k + 1) - 1])
        BY <4>1, <4>2
      <4> QED
        BY <1>7, <4>1, <4>3
    <3> QED
      BY <3>1
  <2> HIDE DEF S
  <2> QED
    BY <2>1, <2>2, AllNumbers
<1>9. \A k \in 0..N : ReadSoFar(text, agents, k, g[k])
  <2> TAKE k \in 0..N
  <2>1. k \in S /\ k <= N
    <3> HIDE DEF S
    <3> QED
      BY <1>0, <1>8
  <2> QED
    BY <2>1
<1>10. after = [k \in 0..N |-> IF k = 0 THEN e ELSE Read(after[k - 1], text[k])]
  <2>1. \A k \in 0..N : k = 0 \/ (k \in 1..N /\ k - 1 \in 0..N)
    BY <1>0
  <2>2. \A k \in 1..N : g[k] = Read(g[k - 1], text[k])
    BY <1>0, <1>7, <1>9, <2>1
  <2>3. g = [k \in 0..N |-> IF k = 0 THEN e ELSE Read(g[k - 1], text[k])]
    BY <1>4, <1>5, <2>1, <2>2
  <2>4. \E f : f = [k \in 0..Len(text) |-> IF k = 0 THEN <<>> ELSE Read(f[k - 1], text[k])]
    <3>1. N = Len(text) /\ e = <<>>
      BY <1>0, <1>2, Zenon
    <3> HIDE DEF next, A, S
    <3> QED
      BY <2>3, <3>1, Zenon
  <2>5. after = [k \in 0..Len(text) |-> IF k = 0 THEN <<>> ELSE Read(after[k - 1], text[k])]
    BY <2>4, Zenon
  <2> HIDE DEF after
  <2> QED
    BY <1>0, <1>2, <2>5, Zenon
<1>11. \A k \in 1..N : g[k] = Read(g[k - 1], text[k])
  <2> TAKE k \in 1..N
  <2>1. k - 1 \in 0..N
    BY <1>0
  <2> QED
    BY <1>7, <1>9, <2>1
<1> DEFINE T == {k \in Nat : k <= N => after[k] = g[k]}
<1>12. Nat \subseteq T
  <2> HIDE DEF after, S
  <2>1. 0 \in T
    BY <1>0, <1>5, <1>10
  <2>2. \A k \in Nat : k \in T => k + 1 \in T
    <3> TAKE k \in Nat
    <3> HAVE k \in T
    <3>1. ASSUME k + 1 <= N PROVE after[k + 1] = g[k + 1]
      <4>1. k + 1 \in 1..N /\ k + 1 \in 0..N /\ k + 1 # 0 /\ (k + 1) - 1 = k /\ k <= N
        BY <1>0, <3>1
      <4>2. after[k] = g[k]
        BY <4>1
      <4>3. after[k + 1] = Read(after[(k + 1) - 1], text[k + 1])
        BY <1>10, <4>1
      <4>4. g[k + 1] = Read(g[(k + 1) - 1], text[k + 1])
        BY <1>11, <4>1
      <4> QED
        BY <4>1, <4>2, <4>3, <4>4
    <3> QED
      BY <3>1
  <2> HIDE DEF T
  <2> QED
    BY <2>1, <2>2, AllNumbers
<1> HIDE DEF after, S
<1>13. after[N] = g[N]
  <2>1. N \in T
    <3> HIDE DEF T
    <3> QED
      BY <1>12
  <2> QED
    BY <2>1
<1> HIDE DEF T
<1> QED
  BY <1>0, <1>1, <1>9, <1>13

\* robots.txt is obeyed.
LEMMA RulesAreObeyed == ASSUME robotsText \in Texts \union {<<>>} PROVE ObeysRules
<1>1. PICK text \in Texts \union {<<>>} : text = robotsText
  OBVIOUS
<1>2. PICK g : g = ParseRobotsRules(text)
  OBVIOUS
<1>3. PICK n \in Nat : n = Len(text) /\ DOMAIN text = 1..n
  BY TextFacts
<1>4. \A agents : ReadSoFar(text, agents, n, g)
  BY <1>2, <1>3, ParseEnds
<1>5. g \in Seq(Groups(text)) /\ NamesGiven(g) = NamesUpTo(text, n)
  BY <1>4 DEF ReadSoFar
<1>6. PICK m \in Nat : m = Len(g) /\ DOMAIN g = 1..m
  BY <1>5
<1> DEFINE named == \E k \in DOMAIN text : IsAgent(text[k]) /\ text[k].agent \in Named
           agents == IF named THEN Named ELSE {Everyone}
           Speak == {k \in DOMAIN g : g[k].agents \intersect agents # {}}
           naming == {k \in DOMAIN g : g[k].agents \intersect Named # {}}
<1>7. named <=> naming # {}
  <2>1. named <=> \E a \in NamesUpTo(text, n) : a \in Named
    BY <1>3 DEF NamesUpTo
  <2>2. (\E a \in NamesGiven(g) : a \in Named) <=> naming # {}
    BY <1>5, <1>6, GivenFacts
  <2> QED
    BY <1>5, <2>1, <2>2
<1>8. Candidates(g) = Speak
  <2>1. CASE named
    BY <1>7, <2>1 DEF Candidates
  <2>2. CASE ~named
    BY <1>7, <2>2 DEF Candidates
  <2> QED
    BY <2>1, <2>2
<1>9. PICK R : R = RulesFor(text, agents) /\ R = RulesGiven(g, agents) /\ R \in SUBSET RulesOf(text)
  <2>1. RulesFor(text, agents) = RulesUpTo(text, agents, n)
    BY <1>3 DEF RulesFor, RulesUpTo
  <2>2. RulesGiven(g, agents) = RulesUpTo(text, agents, n)
    BY <1>4 DEF ReadSoFar
  <2>3. RulesUpTo(text, agents, n) \in SUBSET RulesOf(text)
    BY <1>3 DEF RulesUpTo, RulesOf
  <2> QED
    BY <2>1, <2>2, <2>3
<1>10. R = UNION {g[i].rules : i \in Speak}
  BY <1>9 DEF RulesGiven
<1> DEFINE M == {r \in R : r.matches}
<1>11. ASSUME SpokenOfOnce(text, agents) PROVE IsAllowed(text) <=> M = {} \/ AllowedByLongest(M)
  <2>1. IsFiniteSet(Speak)
    <3>1. Speak \in SUBSET (1..m)
      BY <1>6
    <3>2. IsFiniteSet(1..m)
      BY <1>6, FS_Interval
    <3> HIDE DEF Speak
    <3> QED
      BY <3>1, <3>2, FS_Subset
  <2>2. Cardinality(Speak) <= 1
    BY <1>2, <1>11 DEF SpokenOfOnce
  <2>3. Speak = {} \/ \E c : Speak = {c}
    <3> HIDE DEF Speak
    <3>1. Cardinality(Speak) \in Nat
      BY <2>1, FS_CardinalityType
    <3>2. CASE Cardinality(Speak) = 0
      BY <2>1, <3>2, FS_EmptySet
    <3>3. CASE Cardinality(Speak) = 1
      BY <2>1, <3>3, FS_Singleton
    <3>4. \A c \in Nat : c <= 1 => c = 0 \/ c = 1
      OBVIOUS
    <3> QED
      BY <2>2, <3>1, <3>2, <3>3, <3>4, Zenon
  <2> DEFINE chosen == CHOOSE k \in Speak : \A j \in Speak : k <= j
             matches == {r \in g[chosen].rules : r.matches}
  <2>4. IsAllowed(text) <=> (Speak # {} /\ matches # {} => AllowedByLongest(matches))
    <3> HIDE DEF Speak
    <3> QED
      BY <1>2, <1>8, Zenon DEF IsAllowed
  <2>5. CASE Speak = {}
    <3>1. M = {}
      BY <1>10, <2>5
    <3> QED
      BY <2>4, <2>5, <3>1
  <2>6. CASE Speak # {}
    <3>1. PICK c : Speak = {c}
      BY <2>3, <2>6
    <3>2. c \in Nat /\ c <= c
      <4>1. c \in Speak
        BY <3>1
      <4>2. c \in 1..m
        BY <1>6, <4>1
      <4> QED
        BY <4>2
    <3>3. chosen = c
      <4> HIDE DEF Speak
      <4> QED
        BY <3>1, <3>2
    <3>4. R = g[c].rules
      <4> HIDE DEF Speak
      <4> QED
        BY <1>10, <3>1
    <3>5. matches = M
      BY <3>3, <3>4
    <3> HIDE DEF Speak, chosen, matches, M
    <3> QED
      BY <2>4, <2>6, <3>5
  <2> QED
    BY <2>5, <2>6
<1>12. M \in SUBSET RulesOf(text)
  BY <1>9
<1>13. M = {} \/ AllowedByLongest(M) <=> M = {} \/ \E r \in M : r.allow /\ ~\E s \in M : ~s.allow /\ s.length > r.length
  <2> HIDE DEF M
  <2> QED
    BY <1>12, LongestDecides
<1>14. M = {r \in RulesFor(text, agents) : r.matches}
  BY <1>9
<1>15. SpokenOfOnce(text, agents) =>
          (IsAllowed(text) <=> M = {} \/ \E r \in M : r.allow /\ ~\E s \in M : ~s.allow /\ s.length > r.length)
  <2> HIDE DEF M, agents
  <2> QED
    BY <1>11, <1>13
<1> HIDE DEF Speak, naming
<1> QED
  BY <1>1, <1>14, <1>15, Zenon DEF ObeysRules

-----------------------------------------------------------------------------
(* Discover: what is found, whatever is published.                         *)

\* A text and a tree of those there are.
Published == robotsText \in Texts \union {<<>>} /\ sitemaps \in Trees

\* Every first state of Discover has them, and so has one in which it has no part.
LEMMA PublishedAtFirst == DiscoverInit \/ (robotsText = <<>> /\ sitemaps = AnyTree) => Published
<1>1. AnyTree \in Trees
  BY DiscoverAssumption DEF AnyTree
<1> QED
  BY <1>1 DEF DiscoverInit, Published

\* Whatever they are, Discover finds what they say.
LEMMA PublishedIsFound == Published => FindsWhatIsPublished
BY RulesAreObeyed, PagesAreFound DEF Published, FindsWhatIsPublished

\* For any robots.txt and any sitemaps, with cycles, shared parts and gaps: a URL is judged by
\* the longest rule for the agent, and fromSitemap() returns each page once, none from beyond
\* maxDepth, no more than maxEntries, and with room left all of the root and of what it lists.
THEOREM DiscoverFindsAll == DiscoverInit /\ [][FALSE]_discoverVars => []FindsWhatIsPublished
<1>1. Published /\ [FALSE]_discoverVars => Published'
  BY DEF Published, discoverVars
<1> QED
  BY <1>1, PublishedAtFirst, PublishedIsFound, PTL
=============================================================================
