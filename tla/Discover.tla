------------------------------ MODULE Discover ------------------------------
(***************************************************************************)
(* What a site says of itself, src/src/modules/Discover.js: the rules of   *)
(* robots.txt, and the tree of its sitemaps.                               *)
(*                                                                         *)
(* A line of robots.txt names an agent, or has a rule: whether it allows,  *)
(* how long its pattern is, and whether that matches the URL in question;  *)
(* a length of 0 is a rule without a value, and crawl-delay is left out.   *)
(* A sitemap cannot be had (None), or lists sitemaps, or pages.            *)
(***************************************************************************)
EXTENDS Naturals, Sequences, FiniteSets

CONSTANTS
    Named,           \* the agents that occur in the user agent's name; others are not it
    Everyone,        \* the agent *
    Texts,           \* of robots.txt
    Trees,           \* functions of sitemaps
    Root, MaxDepth, MaxEntries2,
    Missing

\* A sitemap lists sitemaps, or entries, which are told apart by the place they stand at.
ASSUME DiscoverAssumption ==
    /\ MaxDepth \in Nat /\ MaxEntries2 \in Nat /\ Trees # {}
    /\ \A text \in Texts \union {<<>>} :
          /\ text \in Seq({text[k] : k \in DOMAIN text})
          /\ \A k \in DOMAIN text : text[k].field = "rule" => text[k].allow \in BOOLEAN /\ text[k].length \in Nat
    /\ \A tree \in Trees :
          /\ IsFiniteSet(DOMAIN tree) /\ Root \in DOMAIN tree
          /\ \A url \in DOMAIN tree :
                \/ tree[url] = Missing
                \/ tree[url].isIndex = TRUE /\ tree[url].locs \in Seq(DOMAIN tree)
                \/ /\ tree[url].isIndex = FALSE
                   /\ tree[url].locs = [k \in 1..Len(tree[url].locs) |-> <<url, k>>] /\ Len(tree[url].locs) \in Nat

VARIABLES robotsText, sitemaps

discoverVars == <<robotsText, sitemaps>>

AnyTree == CHOOSE tree \in Trees : TRUE

DiscoverInit ==
    \/ robotsText \in Texts /\ sitemaps = AnyTree
    \/ robotsText = <<>> /\ sitemaps \in Trees

-----------------------------------------------------------------------------
IsAgent(line) == line.field = "user-agent"
IsRule(line) == line.field = "rule" /\ line.length > 0

\* parseRobotsRules: an agent's line opens a group, or joins the group that has no rule yet.
Opens(groups) == groups = <<>> \/ groups[Len(groups)].rules # {}

Read(groups, line) ==
    LET last == Len(groups)
    IN  CASE IsAgent(line) /\ Opens(groups) -> Append(groups, [agents |-> {line.agent}, rules |-> {}])
          [] IsAgent(line) /\ ~Opens(groups) -> [groups EXCEPT ![last].agents = @ \union {line.agent}]
          [] IsRule(line) /\ last > 0 -> [groups EXCEPT ![last].rules = @ \union {line}]
          [] OTHER -> groups

ParseRobotsRules(text) ==
    LET after[k \in 0..Len(text)] == IF k = 0 THEN <<>> ELSE Read(after[k - 1], text[k])
    IN  after[Len(text)]

\* selectGroup: the first that names the agent, or else the first for everyone.
Candidates(groups) ==
    LET naming == {k \in DOMAIN groups : groups[k].agents \intersect Named # {}}
    IN  IF naming # {} THEN naming ELSE {k \in DOMAIN groups : Everyone \in groups[k].agents}

AllowedByLongest(rules) == \E r \in rules : r.allow /\ \A s \in rules : s.length <= r.length

IsAllowed(text) ==
    LET groups == ParseRobotsRules(text)
        candidates == Candidates(groups)
        matches == {r \in groups[CHOOSE k \in candidates : \A j \in candidates : k <= j].rules : r.matches}
    IN  candidates # {} /\ matches # {} => AllowedByLongest(matches)

-----------------------------------------------------------------------------
\* One walk() of fromSitemap: a sitemap is gone into once, at the depth it is come to first,
\* as long as there is room for entries.
Document(url) == IF sitemaps[url] = Missing THEN [isIndex |-> FALSE, locs |-> <<>>] ELSE sitemaps[url]

Go(at) ==
    LET url == Head(at.ahead)[1]
        depth == Head(at.ahead)[2]
        locs == Document(url).locs
        room == MaxEntries2 - Len(at.found)
        below == IF Document(url).isIndex THEN [k \in DOMAIN locs |-> <<locs[k], depth + 1>>] ELSE <<>>
        entries == IF Document(url).isIndex THEN <<>>
                   ELSE SubSeq(locs, 1, IF room < Len(locs) THEN room ELSE Len(locs))
    IN  IF at.ahead = <<>> \/ room = 0 THEN at
        ELSE IF url \in at.visited \/ depth > MaxDepth THEN [at EXCEPT !.ahead = Tail(@)]
        ELSE [visited |-> at.visited \union {url}, ahead |-> below \o Tail(at.ahead),
              found |-> at.found \o entries]

\* Depth first, until there is nothing ahead: at most once for the root and every loc.
Locs(urls) == UNION {{url} \X DOMAIN Document(url).locs : url \in urls}

FromSitemap ==
    LET most == 1 + Cardinality(Locs(DOMAIN sitemaps))
        walk[k \in 0..most] == IF k = 0 THEN [visited |-> {}, ahead |-> <<<<Root, 0>>>>, found |-> <<>>]
                               ELSE Go(walk[k - 1])
    IN  walk[most].found

-----------------------------------------------------------------------------
\* The agents a rule is for: those of the lines before it, back to the rule before them.
AgentsOf(text, k) ==
    {text[j].agent : j \in {j \in 1..k - 1 : /\ IsAgent(text[j])
                                             /\ \A i \in j..k - 1 : IsRule(text[i]) =>
                                                   \A h \in i..k - 1 : ~IsAgent(text[h])}}
RulesFor(text, agents) == {text[k] : k \in {k \in DOMAIN text : IsRule(text[k]) /\ AgentsOf(text, k) \intersect agents # {}}}

\* No more than one stretch of agents' lines has one of them.
SpokenOfOnce(text, agents) ==
    Cardinality({k \in DOMAIN ParseRobotsRules(text) : ParseRobotsRules(text)[k].agents \intersect agents # {}}) <= 1

\* The sitemaps come to by a path of so many steps or fewer.
Children(url) ==
    IF sitemaps[url] # Missing /\ sitemaps[url].isIndex
    THEN {sitemaps[url].locs[k] : k \in DOMAIN sitemaps[url].locs} ELSE {}
Within ==
    LET within[d \in 0..MaxDepth] ==
            IF d = 0 THEN {Root} ELSE within[d - 1] \union UNION {Children(u) : u \in within[d - 1]}
    IN  within
PagesOf(urls) ==
    UNION {{sitemaps[u].locs[k] : k \in DOMAIN sitemaps[u].locs} :
              u \in {u \in urls : sitemaps[u] # Missing /\ ~sitemaps[u].isIndex}}

\* Where one group speaks for an agent, a URL is allowed to it by the longest rule for it
\* that matches, an allowing one among equals; and rules for everyone count only where no
\* group names it.
ObeysRules ==
    LET named == \E k \in DOMAIN robotsText : IsAgent(robotsText[k]) /\ robotsText[k].agent \in Named
        agents == IF named THEN Named ELSE {Everyone}
        matches == {r \in RulesFor(robotsText, agents) : r.matches}
    IN  SpokenOfOnce(robotsText, agents) =>
           (IsAllowed(robotsText) <=> matches = {} \/ \E r \in matches :
                r.allow /\ ~\E s \in matches : ~s.allow /\ s.length > r.length)

\* Sitemaps give no page beyond maxDepth, none of a sitemap twice, no more than maxEntries,
\* and while there is room all pages of the root and of what it lists.  (Deeper ones can be
\* missed: a sitemap come to first at maxDepth is not gone into again from higher up.)
FindsPages ==
    LET pages == {FromSitemap[k] : k \in DOMAIN FromSitemap}
    IN  /\ pages \subseteq PagesOf(Within[MaxDepth])
        /\ Len(FromSitemap) <= MaxEntries2
        /\ Cardinality(pages) = Len(FromSitemap)
        /\ Len(FromSitemap) < MaxEntries2 =>
              \A d \in {0, 1} : d <= MaxDepth => PagesOf(Within[d]) \subseteq pages

FindsWhatIsPublished == ObeysRules /\ FindsPages
=============================================================================
