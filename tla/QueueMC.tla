------------------------------- MODULE QueueMC -------------------------------
(***************************************************************************)
(* How pages are come to and what becomes of them: a run of a              *)
(* DistributedQueue, a crawl with its CrawlQueue, what Discover finds, the *)
(* Flows that write to a sink, the file of a FileSink, the Snapshots that  *)
(* extract() answers with, what it notes of a page (Watch) and tells by    *)
(* Webhook, and the Sessions.  They share no state: a behaviour is one of  *)
(* one part, while the others stay as they are at first; of Discover there *)
(* is nothing but first states.                                            *)
(***************************************************************************)
EXTENDS DistributedQueue, CrawlQueue, Discover, Flows, FileSink, Snapshots, Watch, Webhook, Sessions,
        SequencesExt, TLC

CONSTANTS u1, u2, u3, u4, bot, other, s1, s2, s3, h1, h2, h3

VARIABLE part

noteVars == <<snapVars, watchVars, webhookVars, sessionVars>>
pageVars == <<crawlVars, discoverVars, flowVars, fileVars, noteVars>>
queueVars == <<part, vars, pageVars>>

MCSeed == <<u1, u2, u3>>
MCPageLinks == (u1 :> <<u4, u2>>) @@ (u2 :> <<u3>>) @@ (u3 :> <<u1, u4>>) @@ (u4 :> <<>>)
MCNear == {<<u1, u2>>, <<u2, u1>>, <<u1, u3>>, <<u3, u1>>}

Agent(agent) == [field |-> "user-agent", agent |-> agent]
Rule(allow, length, matches) == [field |-> "rule", allow |-> allow, length |-> length, matches |-> matches]
MCTexts ==
    BoundedSeq({Agent(bot), Agent(Everyone), Agent(other), Rule(TRUE, 2, TRUE), Rule(FALSE, 2, TRUE),
                Rule(FALSE, 1, TRUE), Rule(TRUE, 3, FALSE), Rule(FALSE, 0, TRUE)}, 4)

Index(locs) == [isIndex |-> TRUE, locs |-> locs]
Sitemap(s) == [isIndex |-> FALSE, locs |-> <<<<s, 1>>, <<s, 2>>>>]
MCDocuments(s) ==
    {Missing, Sitemap(s)} \union {Index(locs) : locs \in SeqOf({s1, s2, s3}, 2)}
MCTrees ==
    {(s1 :> d1) @@ (s2 :> d2) @@ (s3 :> d3) :
        d1 \in MCDocuments(s1), d2 \in MCDocuments(s2), d3 \in MCDocuments(s3)}

MCFileSetups == [replace: BOOLEAN, keyed: BOOLEAN]
MCFileKey == <<"k1", "k2", "k1">>
AnyFileSetup == CHOOSE s \in FileSetups : TRUE
AnyFlow == [kind |-> "batch", owned |-> FALSE]

Info(empty, count, mismatch) == [empty |-> empty, count |-> count, mismatch |-> mismatch]
Object(of) == [kind |-> "object", of |-> of]
MCSightings ==
    {[health |-> [title |-> Info(FALSE, 4, FALSE), price |-> Info(FALSE, 1, FALSE)],
      data |-> Object([title |-> "x", price |-> "y"])],
     [health |-> [title |-> Info(TRUE, 0, TRUE), price |-> Info(FALSE, 1, TRUE)],
      data |-> Object([title |-> Null, price |-> "y"])],
     [health |-> [title |-> Info(FALSE, 1, FALSE)], data |-> Object([title |-> "x"])],
     [health |-> [title |-> Info(FALSE, 9, FALSE)],
      data |-> [kind |-> "array", items |-> <<[title |-> "x"], [title |-> "z"]>>]],
     [health |-> [title |-> Info(FALSE, 1, FALSE), price |-> Info(TRUE, 0, FALSE)],
      data |-> [kind |-> "array", items |-> <<[title |-> "x", price |-> Null]>>]]}
MCErrors == {[code |-> "TIMEOUT", name |-> "Error", status |-> 0], [code |-> "NONE", name |-> "Error", status |-> 503]}

MCPools == [strategy: {"round-robin", "least-used"}, recycleAfter: {0, 2}]
MCHostSite == (h1 :> "a") @@ (h2 :> "a") @@ (h3 :> "b")
Attributes(key, value) == <<[key |-> key, value |-> value]>>
MCCookieLines ==
    {[name |-> "sid", attributes |-> <<>>], [name |-> "sid", attributes |-> Attributes("max-age", 0)],
     [name |-> "sid", attributes |-> Attributes("expires", 0)],
     [name |-> "lang", attributes |-> Attributes("max-age", 1) \o Attributes("expires", 1)]}

-----------------------------------------------------------------------------
Distributed == part = "distributed" /\ UNCHANGED <<part, pageVars>>
Crawling == part = "crawl" /\ UNCHANGED <<part, vars, discoverVars, flowVars, fileVars, noteVars>>
Flowing == part = "flow" /\ UNCHANGED <<part, vars, crawlVars, discoverVars, fileVars, noteVars>>
Filing == part = "file" /\ UNCHANGED <<part, vars, crawlVars, discoverVars, flowVars, noteVars>>
Noting == UNCHANGED <<part, vars, crawlVars, discoverVars, flowVars, fileVars>>
Extracting == part = "snapshot" /\ Noting /\ UNCHANGED <<watchVars, webhookVars, sessionVars>>
Watching == part = "watch" /\ Noting /\ UNCHANGED <<snapVars, webhookVars, sessionVars>>
Telling == part = "webhook" /\ Noting /\ UNCHANGED <<snapVars, watchVars, sessionVars>>
InSession == part = "sessions" /\ Noting /\ UNCHANGED <<snapVars, watchVars, webhookVars>>

QueueInit ==
    /\ part \in {"distributed", "crawl", "discover", "flow", "file", "snapshot", "watch", "webhook", "sessions"}
    /\ Init /\ CrawlInit /\ SnapInit /\ WatchInit /\ WebhookInit
    /\ IF part = "discover" THEN DiscoverInit ELSE robotsText = <<>> /\ sitemaps = AnyTree
    /\ FlowInit /\ (part = "flow" \/ flow = AnyFlow)
    /\ FileInit /\ (part = "file" \/ config = AnyFileSetup)
    /\ SessionsInit /\ (part = "sessions" \/ pool = CHOOSE p \in Pools : TRUE)

QueueNext ==
    \/ Distributed /\ Next
    \/ Crawling /\ CrawlNext
    \/ Flowing /\ FlowNext
    \/ Filing /\ FileNext
    \/ Extracting /\ SnapNext
    \/ Watching /\ WatchNext
    \/ Telling /\ WebhookNext
    \/ InSession /\ SessionsNext

\* The fairness of DistributedQueue; pages are answered, and rules, in the end; a flow and
\* its caller go on, and a delivery, which has a timeout.
QueueSpec ==
    /\ QueueInit /\ [][QueueNext]_queueVars
    /\ \A w \in Workers : WF_vars(Distributed /\ Proceed(w))
    /\ WF_vars(Distributed /\ Tick)
    /\ \A l \in Loops : WF_crawlVars(Crawling /\ CrawlStep(l))
    /\ WF_flowVars(Flowing /\ FlowStep)
    /\ \A e \in Events : WF_webhookVars(Telling /\ DeliveryStep(e))

-----------------------------------------------------------------------------
\* A crawl reads what it comes to, and Discover finds what a site says of itself.
CrawlComplete == CrawlKeeps /\ FindsWhatIsPublished

\* No row that a flow hands to a sink, and none that a FileSink is given, gets lost.
RowsKept == FlowKeeps /\ FileKeepsRows

\* What extract() answers, reports and sends is true of the page.
ExtractsTell == SnapshotsVouch /\ WatchTells /\ DeliveriesTold

\* Items settle, run() returns, crawls end, and so do every flow and every delivery.
QueuesEnd ==
    /\ part = "distributed" => EveryItemSettles /\ RunReturns
    /\ CrawlReturns
    /\ part = "flow" ~> phase \in Ended
    /\ \A e \in Events : deliveries[e].at = "posting" ~> deliveries[e].at = "over"
=============================================================================
