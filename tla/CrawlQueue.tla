----------------------------- MODULE CrawlQueue -----------------------------
(***************************************************************************)
(* A crawl: the loop of CrawlQueue with its state file, which pause() and  *)
(* the loop itself write, src/src/modules/CrawlQueue.js, and what visits a *)
(* page, Sengkrep.crawl (src/src/Sengkrep.js:926) with its robots rules,   *)
(* src/src/modules/Discover.js, its content fingerprints, ContentDedup.js, *)
(* and its links seen before, src/src/utils/urlUtils.js:64.                *)
(*                                                                         *)
(* resume() while a batch of the paused loop is under way starts a second  *)
(* loop on the same state.  A crash loses all but the file, and tears that *)
(* if it is being written.  The pages are of one origin and do not change. *)
(***************************************************************************)
EXTENDS Naturals, Sequences, FiniteSets

CONSTANTS
    Urls,
    Seed,           \* a sequence
    PageLinks,      \* PageLinks[url]: what extractLinks finds there, each URL once
    Follow,         \* the URLs that options.follow matches
    Forbidden,      \* the URLs robots.txt disallows
    Near,           \* pairs of pages with fingerprints within the threshold
    MaxUrls, Concurrency, SaveEvery, MaxEntries,
    MaxPauses,      \* bound: calls of pause()
    NoFile, Torn

ASSUME CrawlAssumption ==
    /\ Seed \in Seq(Urls) /\ PageLinks \in [Urls -> Seq(Urls)]
    /\ Concurrency \in Nat \ {0}
    /\ \A u, v \in Urls : <<u, v>> \in Near => <<v, u>> \in Near

VARIABLES
    memory,      \* _visited, _queue and the URLs of _results
    life,        \* "new", "crawling" (_running) or "paused"
    sinceSave,
    loops,       \* the batch of each call of start(), empty when it does not run
    stateFile,
    seen,        \* the scraper's UrlDeduplicator
    entries,     \* the pages whose fingerprints ContentDedup has
    robots,      \* Discover's cache: "unknown", "rules", or "none" when they were not to be had
    lost,        \* history: URLs the state that was loaded has forgotten
    pauses, crashed

crawlVars == <<memory, life, sinceSave, loops, stateFile, seen, entries, robots, lost, pauses, crashed>>
siteVars == <<seen, entries, robots>>

Loops == {1, 2}
FreshMemory == [visited |-> {}, frontier |-> Seed, results |-> {}]
InSeq(sequence) == {sequence[k] : k \in DOMAIN sequence}

\* What the visits of the other loops hold: their URLs, and the links to follow they return,
\* which count as seen from then on.
Visits(except) == UNION {InSeq(loops[l]) : l \in Loops \ {except}}
Held(except) == UNION {{v.url} \union (InSeq(v.links) \intersect Follow) : v \in Visits(except)}

\* The urls of a sequence that are in a set, in their order.  (SelectSeq does this; a function
\* can be proved about.)
Those(urls, set) ==
    LET kept[k \in 0..Len(urls)] ==
            IF k = 0 THEN <<>>
            ELSE IF urls[k] \in set THEN Append(kept[k - 1], urls[k]) ELSE kept[k - 1]
    IN  kept[Len(urls)]

CrawlInit ==
    /\ memory = FreshMemory /\ life = "new" /\ sinceSave = 0
    /\ loops = [l \in Loops |-> <<>>]
    /\ stateFile = NoFile
    /\ seen = {} /\ entries = <<>> /\ robots = "unknown"
    /\ lost = {} /\ pauses = 0 /\ crashed = FALSE

-----------------------------------------------------------------------------
\* _saveState; what the visits under way hold is in no part of it.
Saved(m, held) == [memory |-> m, missing |-> held \union lost']

\* How far the queue is shifted: up to where as many URLs were not visited as there may be.
Shifts(m) ==
    LET unvisited(k) == Cardinality({j \in 1..k : m.frontier[j] \notin m.visited})
        ends == {k \in DOMAIN m.frontier : unvisited(k) = Concurrency}
    IN  IF ends = {} THEN Len(m.frontier) ELSE CHOOSE k \in ends : \A j \in ends : k <= j

Shifted(m) == [m EXCEPT !.frontier = SubSeq(@, Shifts(m) + 1, Len(@))]

\* The next batch, whose visits begin at once.
Batch(m) ==
    LET urls == Those(SubSeq(m.frontier, 1, Shifts(m)), Urls \ m.visited)
    IN  [k \in DOMAIN urls |-> [url |-> urls[k], links |-> <<>>,
                               place |-> IF robots = "unknown" THEN "asking"
                                         ELSE IF robots = "rules" /\ urls[k] \in Forbidden THEN "failed"
                                         ELSE "fetching"]]

\* The slip of saving when the next batch is taken off already.
GoOnSavingLate(l, m, due) ==
    LET goes == life' = "crawling" /\ Cardinality(m.visited) < MaxUrls
        begins == goes /\ Batch(m) # <<>>
    IN  /\ memory' = IF goes THEN Shifted(m) ELSE m
        /\ loops' = [loops EXCEPT ![l] = IF begins THEN Batch(m) ELSE <<>>]
        /\ stateFile' = IF due \/ ~begins THEN Saved(memory', Held(l)) ELSE stateFile

\* The head of the loop on m: the next batch begins, or the loop ends and saves.
GoOn(l, m, due) ==
    LET goes == life' = "crawling" /\ Cardinality(m.visited) < MaxUrls
    IN  IF goes /\ Batch(m) # <<>>
        THEN /\ memory' = Shifted(m)
             /\ loops' = [loops EXCEPT ![l] = Batch(m)]
             /\ stateFile' = IF due THEN Saved(m, Held(l)) ELSE stateFile
        ELSE /\ memory' = IF goes THEN Shifted(m) ELSE m
             /\ loops' = [loops EXCEPT ![l] = <<>>]
             /\ stateFile' = Saved(memory', Held(l))

\* resume(): start() with what is saved, which is nothing at first.
Resume(l) ==
    /\ life # "crawling" /\ loops[l] = <<>>
    /\ life' = "crawling"
    /\ IF stateFile \in {NoFile, Torn} THEN UNCHANGED lost /\ GoOn(l, memory, FALSE)
       ELSE lost' = stateFile.missing \ Held(l) /\ GoOn(l, stateFile.memory, FALSE)
    /\ UNCHANGED <<sinceSave, siteVars, pauses, crashed>>

\* pause(), which does not wait for the batches.
Pause ==
    /\ life = "crawling" /\ pauses < MaxPauses
    /\ life' = "paused" /\ pauses' = pauses + 1
    /\ UNCHANGED <<memory, sinceSave, loops, siteVars, lost, crashed>>
    /\ stateFile' = Saved(memory, Held(0))

\* A visit's URL after it settled: visited, and what it returned is queued once.
Collect(m, visit) ==
    LET visited == m.visited \union {visit.url}
        new == Follow \ (visited \union InSeq(m.frontier))
    IN  IF visit.place = "failed" THEN [m EXCEPT !.visited = visited]
        ELSE [visited |-> visited, frontier |-> m.frontier \o Those(visit.links, new),
              results |-> m.results \union {visit.url}]

Collected(m, batch) ==
    LET after[k \in 0..Len(batch)] == IF k = 0 THEN m ELSE Collect(after[k - 1], batch[k])
    IN  after[Len(batch)]

\* All of a batch has settled.
BatchEnds(l) ==
    /\ loops[l] # <<>> /\ \A k \in DOMAIN loops[l] : loops[l][k].place \in {"ok", "failed"}
    /\ UNCHANGED <<life, siteVars, lost, pauses, crashed>>
    /\ LET due == sinceSave + 1 >= SaveEvery
       IN  /\ sinceSave' = IF due THEN 0 ELSE sinceSave + 1
           /\ \E m \in {Collected(memory, loops[l])} : GoOn(l, m, due)

-----------------------------------------------------------------------------
Visiting(l, k, place) == k \in DOMAIN loops[l] /\ loops[l][k].place = place
Turns2(l, k, place) == loops' = [loops EXCEPT ![l][k].place = place]

\* robots.txt has come, or has not, and is held for robotsTtl either way.
RobotsAnswered(l, k) ==
    /\ Visiting(l, k, "asking")
    /\ robots' \in {"rules", "none"}
    /\ Turns2(l, k, IF robots' = "rules" /\ loops[l][k].url \in Forbidden THEN "failed" ELSE "fetching")
    /\ UNCHANGED <<memory, life, sinceSave, stateFile, seen, entries, lost, pauses, crashed>>

RobotsExpire ==
    /\ robots # "unknown" /\ robots' = "unknown"
    /\ UNCHANGED <<memory, life, sinceSave, loops, stateFile, seen, entries, lost, pauses, crashed>>

FilterNew(links) == Those(links, Urls \ seen)

\* The last step of a visit: of the links robots.txt allows, those not seen before.
Returns(l, k, allowed) ==
    LET links == Those(PageLinks[loops[l][k].url], allowed)
    IN  /\ loops' = [loops EXCEPT ![l][k].place = "ok", ![l][k].links = FilterNew(links)]
        /\ seen' = seen \union InSeq(links)

\* ContentDedup.find and add: pages are told apart as long as there is room for them.
IsDuplicate(u) == \E e \in InSeq(entries) : <<e, u>> \in Near
Added(u) ==
    LET all == Append(entries, u)
    IN  IF Len(all) > MaxEntries THEN Tail(all) ELSE all

\* The page cannot be had, or its row cannot be written; or it is a duplicate; or its links
\* are looked at, once the rules are there.
PageRead(l, k) ==
    LET u == loops[l][k].url
    IN  /\ Visiting(l, k, "fetching")
        /\ \/ Turns2(l, k, "failed") /\ UNCHANGED siteVars
           \/ /\ ~IsDuplicate(u) /\ entries' = Added(u)
              /\ IF robots = "unknown" THEN Turns2(l, k, "checking") /\ UNCHANGED seen
                 ELSE Returns(l, k, IF robots = "rules" THEN Urls \ Forbidden ELSE Urls)
              /\ UNCHANGED robots
        /\ UNCHANGED <<memory, life, sinceSave, stateFile, lost, pauses, crashed>>

\* Each link asked for robots.txt by itself, and those that did not get it are allowed.
LinksChecked(l, k) ==
    /\ Visiting(l, k, "checking")
    /\ \E passed \in SUBSET Forbidden : Returns(l, k, (Urls \ Forbidden) \union passed)
    /\ robots' \in {"rules", "none"}
    /\ UNCHANGED <<memory, life, sinceSave, stateFile, entries, lost, pauses, crashed>>

\* The process dies, maybe in the middle of writing the file, and is started anew.
Crash ==
    /\ ~crashed /\ crashed' = TRUE
    /\ stateFile' \in {stateFile} \union (IF life = "crawling" THEN {Torn} ELSE {})
    /\ memory' = FreshMemory /\ life' = "new" /\ sinceSave' = 0
    /\ loops' = [l \in Loops |-> <<>>]
    /\ seen' = {} /\ entries' = <<>> /\ robots' = "unknown" /\ lost' = {}
    /\ UNCHANGED pauses

CrawlStep(l) ==
    \/ BatchEnds(l)
    \/ \E k \in 1..Concurrency : RobotsAnswered(l, k) \/ PageRead(l, k) \/ LinksChecked(l, k)

CrawlNext == Pause \/ RobotsExpire \/ Crash \/ \E l \in Loops : Resume(l) \/ CrawlStep(l)

-----------------------------------------------------------------------------
Remembered == memory.visited \union InSeq(memory.frontier) \union Held(0) \union lost

\* Through pauses, a resume over a batch under way, and a crash: every link to follow of a
\* page with a result is visited, queued or held by a visit, save for what visits held when
\* the state that was loaded was saved: then a link can be forgotten that a page with a
\* result did not return because a visit under way had seen it before.  Short of that, no
\* link is held back as seen without being followed.  Results are of visited pages, and no two pages kept are near duplicates.
CrawlKeeps ==
    /\ \A u \in memory.results :
          (InSeq(PageLinks[u]) \intersect Follow) \ Forbidden \subseteq Remembered
    /\ InSeq(Seed) \subseteq Remembered
    /\ memory.results \subseteq memory.visited
    /\ \A i, j \in DOMAIN entries : i # j => <<entries[i], entries[j]>> \notin Near

\* A loop ends: what it visits settles, and there is an end to new URLs.
CrawlReturns == \A l \in Loops : loops[l] # <<>> ~> loops[l] = <<>>
=============================================================================
