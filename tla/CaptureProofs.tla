---------------------------- MODULE CaptureProofs ----------------------------
(***************************************************************************)
(* Theorems about the parts of the capture, by a behaviour of CaptureMC:   *)
(* the recording proxy, a capture with Playwright, one task in a browser,  *)
(* and the calls that share a Browser.  What a part keeps is proved by     *)
(* itself and put together at the end.                                     *)
(***************************************************************************)
EXTENDS CaptureMC, FiniteSetTheorems, SequenceTheorems, WellFoundedInduction, TLAPS

-----------------------------------------------------------------------------
(* The recording proxy. *)

Exchanges == [phase: Phases, text: BOOLEAN, size: 0..MaxChunks]
ClientStates == [chunks: 0..MaxChunks, state: {"waiting", "head", "ended"}]
ProxyEntries == [count: Nat, failed: BOOLEAN, size: Nat, body: Nat]

\* How an exchange x, its client k, whose connection is open or not, and its entry e go together.
Matches(x, k, e, open) ==
    /\ e.count <= 1 /\ e.body <= MaxBodyBytes
    /\ x.phase \in {"none", "reading", "asked", "dialling"} =>
          e.count = 0 /\ x.size = 0 /\ k.chunks = 0 /\ k.state = "waiting"
    /\ x.phase \in {"answering", "cut"} =>
          e.count = 0 /\ k.state = "head" /\ (open => k.chunks = x.size)
    /\ x.phase = "tunnel" =>
          k.state = "waiting" /\ e.count = (IF CaptureTunnels THEN 1 ELSE 0)
    /\ x.phase = "over" =>
          /\ e.count = 1 /\ ~e.failed => e.size = x.size
          /\ e.count = 1 /\ ~e.failed /\ k.state = "ended" => e.size = k.chunks
          /\ e.count = 0 /\ k.state = "ended" => k.chunks = 0 /\ x.size = 0

ExchangeSound(c) == Matches(exchange[c], client[c], entry[c], c \in sockets)

ProxyIInv == ProxyTypeOK /\ \A c \in Clients : ExchangeSound(c)

\* One client's exchange moves on; the others, and what goes with them, are as they were.
Moves(c, x, k, e) ==
    /\ exchange' = [exchange EXCEPT ![c] = x]
    /\ client' = [client EXCEPT ![c] = k]
    /\ entry' = [entry EXCEPT ![c] = e]
    /\ \A d \in Clients \ {c} : d \in sockets' <=> d \in sockets

\* What moves on to a state that goes together keeps the invariant.
LEMMA MoveKeeps ==
    ASSUME ProxyIInv, NEW c \in Clients, NEW x \in Exchanges, NEW k \in ClientStates,
           NEW e \in ProxyEntries, Moves(c, x, k, e), Matches(x, k, e, c \in sockets'),
           sockets' \subseteq Clients,
           server' \in {"none", "starting", "listening", "dead", "closing", "stopped"}
    PROVE  ProxyIInv'
<1>1. /\ exchange \in [Clients -> Exchanges] /\ client \in [Clients -> ClientStates]
      /\ entry \in [Clients -> ProxyEntries]
  BY DEF ProxyIInv, ProxyTypeOK, Exchanges, ClientStates, ProxyEntries
<1>2. ProxyTypeOK'
  <2>1. exchange' \in [Clients -> Exchanges] /\ client' \in [Clients -> ClientStates]
        /\ entry' \in [Clients -> ProxyEntries]
    BY <1>1 DEF Moves
  <2> QED
    BY <2>1 DEF ProxyTypeOK, Exchanges, ClientStates, ProxyEntries
<1>3. ASSUME NEW d \in Clients PROVE ExchangeSound(d)'
  <2>1. CASE d = c
    BY <1>1, <2>1 DEF ExchangeSound, Moves
  <2>2. CASE d # c
    <3>1. /\ exchange'[d] = exchange[d] /\ client'[d] = client[d] /\ entry'[d] = entry[d]
          /\ (d \in sockets' <=> d \in sockets)
      BY <1>1, <2>2 DEF Moves
    <3>2. Matches(exchange[d], client[d], entry[d], d \in sockets)
      BY DEF ProxyIInv, ExchangeSound
    <3> QED
      BY <3>1, <3>2 DEF ExchangeSound, Matches
  <2> QED
    BY <2>1, <2>2
<1> QED
  BY <1>2, <1>3 DEF ProxyIInv

\* The same when the exchanges stay as they are.
LEMMA ServerMoves ==
    ASSUME ProxyIInv, UNCHANGED others,
           server' \in {"none", "starting", "listening", "dead", "closing", "stopped"}
    PROVE  ProxyIInv'
BY DEF ProxyIInv, ProxyTypeOK, others, ExchangeSound, Matches

\* Every event of the server or of an exchange keeps the invariant.
LEMMA ProxyStep ==
    ASSUME ProxyIInv, ProxyNext
    PROVE  ProxyIInv'
<1>1. CASE Start \/ Listens \/ Stop \/ StopReturns
  BY <1>1, ServerMoves DEF Start, Listens, Stop, StopReturns
<1>2. ASSUME NEW c \in Clients,
             \/ Connects(c) \/ BodyRead(c) \/ Leaves(c) \/ AnswerBegins(c) \/ Chunk(c) \/ Ends(c)
             \/ UpstreamFails(c) \/ UpstreamCuts(c)
             \/ TunnelOpens(c) \/ TunnelCarries(c) \/ TunnelEnds(c)
      PROVE  ProxyIInv'
  <2> DEFINE x == exchange[c]
             k == client[c]
             e == entry[c]
             Reached == \E xx \in Exchanges, kk \in ClientStates, ee \in ProxyEntries :
                           Moves(c, xx, kk, ee) /\ Matches(xx, kk, ee, c \in sockets')
  <2>1. /\ exchange \in [Clients -> Exchanges] /\ client \in [Clients -> ClientStates]
        /\ entry \in [Clients -> ProxyEntries] /\ sockets \subseteq Clients
        /\ server \in {"none", "starting", "listening", "dead", "closing", "stopped"}
    BY DEF ProxyIInv, ProxyTypeOK, Exchanges, ClientStates, ProxyEntries
  <2>2. Matches(x, k, e, c \in sockets) /\ x \in Exchanges /\ k \in ClientStates /\ e \in ProxyEntries
    BY <2>1 DEF ProxyIInv, ExchangeSound
  <2>3. /\ x.phase \in Phases /\ x.text \in BOOLEAN /\ x.size \in 0..MaxChunks
        /\ k.chunks \in 0..MaxChunks /\ k.state \in {"waiting", "head", "ended"}
        /\ e.count \in Nat /\ e.failed \in BOOLEAN /\ e.size \in Nat /\ e.body \in Nat
        /\ MaxBodyBytes \in Nat /\ MaxChunks \in Nat /\ CaptureTunnels \in BOOLEAN
    BY <2>2, CaptureProxyAssumption DEF Exchanges, ClientStates, ProxyEntries
  <2>4. sockets' \subseteq Clients /\ server' = server
    BY <1>2, <2>1 DEF Connects, BodyRead, Leaves, AnswerBegins, Chunk, Ends, UpstreamFails, UpstreamCuts,
       TunnelOpens, TunnelCarries, TunnelEnds
  <2>5. SUFFICES Reached
    BY <2>1, <2>4, MoveKeeps
  <2>6. /\ exchange = [exchange EXCEPT ![c] = x] /\ client = [client EXCEPT ![c] = k]
        /\ entry = [entry EXCEPT ![c] = e]
    BY <2>1
  <2>7. /\ \A ph : [exchange EXCEPT ![c].phase = ph] = [exchange EXCEPT ![c] = [x EXCEPT !.phase = ph]]
        /\ [exchange EXCEPT ![c].size = @ + 1] = [exchange EXCEPT ![c] = [x EXCEPT !.size = x.size + 1]]
        /\ \A st : [client EXCEPT ![c].state = st] = [client EXCEPT ![c] = [k EXCEPT !.state = st]]
        /\ [client EXCEPT ![c].chunks = @ + 1] = [client EXCEPT ![c] = [k EXCEPT !.chunks = k.chunks + 1]]
        /\ \A n : [entry EXCEPT ![c].size = n] = [entry EXCEPT ![c] = [e EXCEPT !.size = n]]
    BY <2>1
  <2>8. /\ \A ph \in Phases : [x EXCEPT !.phase = ph] \in Exchanges
        /\ x.size < MaxChunks => [x EXCEPT !.size = x.size + 1] \in Exchanges
        /\ \A st \in {"waiting", "head", "ended"} : [k EXCEPT !.state = st] \in ClientStates
        /\ k.chunks < MaxChunks => [k EXCEPT !.chunks = k.chunks + 1] \in ClientStates
        /\ \A n \in Nat : [e EXCEPT !.size = n] \in ProxyEntries
    BY <2>2, <2>3 DEF Exchanges, ClientStates, ProxyEntries
  <2>9. CASE Connects(c)
    <3>1. x.phase = "none" /\ e.count = 0 /\ x.size = 0 /\ k.chunks = 0 /\ k.state = "waiting"
      BY <2>2, <2>9 DEF Connects, Matches
    <3>2. CASE client' = client /\ \E ph \in {"reading", "dialling"} : Phase(c, ph)
      <4>1. PICK ph \in {"reading", "dialling"} : Phase(c, ph)
        BY <3>2
      <4>2. Moves(c, [x EXCEPT !.phase = ph], k, e)
        BY <2>6, <2>7, <2>9, <3>2, <4>1 DEF Connects, Moves, Phase
      <4>3. Matches([x EXCEPT !.phase = ph], k, e, c \in sockets')
        BY <2>2, <2>3, <3>1, <4>1 DEF Matches, Exchanges
      <4> QED
        BY <2>2, <2>8, <4>2, <4>3 DEF Phases
    <3>3. CASE Phase(c, "over") /\ client' = [client EXCEPT ![c].state = "ended"]
      <4>1. Moves(c, [x EXCEPT !.phase = "over"], [k EXCEPT !.state = "ended"], e)
        BY <2>6, <2>7, <2>9, <3>3 DEF Connects, Moves, Phase
      <4>2. Matches([x EXCEPT !.phase = "over"], [k EXCEPT !.state = "ended"], e, c \in sockets')
        BY <2>2, <2>3, <3>1 DEF Matches, Exchanges, ClientStates
      <4> QED
        BY <2>2, <2>8, <4>1, <4>2 DEF Phases
    <3> QED
      BY <2>9, <3>2, <3>3 DEF Connects
  <2>10. CASE BodyRead(c) \/ UpstreamCuts(c)
    <3>1. PICK ph \in {"asked", "cut"} : /\ Phase(c, ph) /\ UNCHANGED <<sockets, client, entry>>
                                         /\ x.phase = (IF ph = "asked" THEN "reading" ELSE "answering")
      BY <2>10 DEF BodyRead, UpstreamCuts
    <3>2. Moves(c, [x EXCEPT !.phase = ph], k, e)
      BY <2>6, <2>7, <3>1 DEF Moves, Phase
    <3>3. Matches([x EXCEPT !.phase = ph], k, e, c \in sockets')
      BY <2>2, <2>3, <3>1 DEF Matches, Exchanges
    <3> QED
      BY <2>2, <2>8, <3>2, <3>3 DEF Phases
  <2>11. CASE Leaves(c)
    <3> DEFINE xx == IF x.phase \in {"dialling", "tunnel"} THEN [x EXCEPT !.phase = "over"] ELSE x
               ee == IF x.phase = "tunnel" /\ CaptureTunnels THEN [e EXCEPT !.size = x.size] ELSE e
    <3>1. Moves(c, xx, k, ee)
      BY <2>6, <2>7, <2>11 DEF Moves, Phase, Leaves
    <3>2. Matches(xx, k, ee, c \in sockets')
      BY <2>2, <2>3, <2>11 DEF Matches, Exchanges, ProxyEntries, Leaves
    <3>3. xx \in Exchanges /\ ee \in ProxyEntries
      BY <2>2, <2>3, <2>8 DEF Phases
    <3> QED
      BY <2>2, <3>1, <3>2, <3>3
  <2>12. CASE AnswerBegins(c)
    <3>1. PICK text \in BOOLEAN :
             exchange' = [exchange EXCEPT ![c] = [phase |-> "answering", text |-> text, size |-> 0]]
      BY <2>12 DEF AnswerBegins
    <3> DEFINE xx == [phase |-> "answering", text |-> text, size |-> 0]
    <3>2. Moves(c, xx, [k EXCEPT !.state = "head"], e)
      BY <2>6, <2>7, <2>12, <3>1 DEF Moves, AnswerBegins
    <3>3. Matches(xx, [k EXCEPT !.state = "head"], e, c \in sockets')
      BY <2>2, <2>3, <2>12 DEF Matches, ClientStates, AnswerBegins
    <3>4. xx \in Exchanges
      BY <2>3 DEF Exchanges, Phases
    <3> QED
      BY <2>2, <2>8, <3>2, <3>3, <3>4
  <2>13. CASE Chunk(c)
    <3> DEFINE kk == IF c \in sockets THEN [k EXCEPT !.chunks = k.chunks + 1] ELSE k
               xx == [x EXCEPT !.size = x.size + 1]
    <3>1. Moves(c, xx, kk, e)
      BY <2>6, <2>7, <2>13 DEF Moves, Chunk
    <3>2. Matches(xx, kk, e, c \in sockets')
      BY <2>2, <2>3, <2>13 DEF Matches, Exchanges, ClientStates, Chunk
    <3>3. xx \in Exchanges /\ kk \in ClientStates
      BY <2>2, <2>3, <2>8, <2>13 DEF Chunk, Matches
    <3> QED
      BY <2>2, <3>1, <3>2, <3>3
  <2>14. CASE Ends(c) \/ UpstreamFails(c)
    <3> DEFINE kk == IF c \in sockets THEN [k EXCEPT !.state = "ended"] ELSE k
               xx == [x EXCEPT !.phase = "over"]
    <3>1. PICK failed \in BOOLEAN, size \in Nat, body \in Nat :
             /\ entry' = [entry EXCEPT ![c] = [count |-> e.count + 1, failed |-> failed,
                                               size |-> size, body |-> body]]
             /\ body <= MaxBodyBytes
             /\ ~failed => size = x.size /\ x.phase = "answering"
      <4>1. Kept(c) \in Nat /\ Kept(c) <= MaxBodyBytes
        BY <2>3 DEF Kept
      <4>2. CASE Ends(c)
        <5>1. /\ entry' = [entry EXCEPT ![c] = [count |-> e.count + 1, failed |-> FALSE,
                                                size |-> x.size, body |-> Kept(c)]]
              /\ x.phase = "answering" /\ x.size \in Nat
          BY <2>1, <2>3, <4>2 DEF Ends, Recorded
        <5> QED
          BY <4>1, <5>1
      <4>3. CASE UpstreamFails(c)
        <5>1. /\ entry' = [entry EXCEPT ![c] = [count |-> e.count + 1, failed |-> TRUE,
                                                size |-> 0, body |-> 0]]
              /\ 0 <= MaxBodyBytes
          BY <2>1, <2>3, <4>3 DEF UpstreamFails, Recorded
        <5> QED
          BY <5>1
      <4> QED
        BY <2>14, <4>2, <4>3
    <3> DEFINE ee == [count |-> e.count + 1, failed |-> failed, size |-> size, body |-> body]
    <3>2. Moves(c, xx, kk, ee)
      BY <2>1, <2>6, <2>7, <2>14, <3>1 DEF Moves, Phase, Recorded, Ends, UpstreamFails
    <3>3. Matches(xx, kk, ee, c \in sockets')
      <4>1. /\ x.phase \in {"asked", "answering"} /\ sockets' = sockets
            /\ e.count = 0 /\ (k.state = "ended" => c \in sockets)
            /\ x.phase = "answering" /\ c \in sockets => k.chunks = x.size
        BY <2>2, <2>14, <3>1 DEF Ends, UpstreamFails, Matches
      <4>2. /\ xx.phase = "over" /\ xx.size = x.size /\ kk.chunks = k.chunks
            /\ kk.state = "ended" => c \in sockets
            /\ ee.count = 1 /\ ee.failed = failed /\ ee.size = size /\ ee.body = body
        BY <2>2, <2>3, <4>1 DEF Exchanges, ClientStates, Matches
      <4> HIDE DEF xx, kk, ee
      <4> QED
        BY <2>3, <3>1, <4>1, <4>2 DEF Matches
    <3>4. xx \in Exchanges /\ kk \in ClientStates /\ ee \in ProxyEntries
      BY <2>2, <2>3, <2>8 DEF Phases, ProxyEntries
    <3> QED
      BY <3>2, <3>3, <3>4
  <2>15. CASE TunnelOpens(c)
    <3>1. CASE /\ Phase(c, "tunnel") /\ sockets' = sockets
               /\ IF CaptureTunnels THEN Recorded(c, FALSE, 0, 0) ELSE UNCHANGED entry
      <4> DEFINE ee == IF CaptureTunnels
                       THEN [count |-> e.count + 1, failed |-> FALSE, size |-> 0, body |-> 0] ELSE e
      <4>1. Moves(c, [x EXCEPT !.phase = "tunnel"], k, ee)
        <5>1. UNCHANGED <<sockets, client>> /\ Phase(c, "tunnel")
          BY <2>15, <3>1 DEF TunnelOpens
        <5>2. entry' = [entry EXCEPT ![c] = ee]
          <6>1. CASE CaptureTunnels
            BY <2>1, <3>1, <6>1 DEF Recorded
          <6>2. CASE ~CaptureTunnels
            BY <2>6, <3>1, <6>2
          <6> QED
            BY <6>1, <6>2
        <5> QED
          BY <2>6, <2>7, <5>1, <5>2 DEF Moves, Phase
      <4>2. Matches([x EXCEPT !.phase = "tunnel"], k, ee, c \in sockets')
        BY <2>2, <2>3, <2>15 DEF Matches, Exchanges, TunnelOpens
      <4>3. ee \in ProxyEntries
        BY <2>2, <2>3 DEF ProxyEntries
      <4> QED
        BY <2>2, <2>8, <4>1, <4>2, <4>3 DEF Phases
    <3>2. CASE Phase(c, "over") /\ sockets' = sockets \ {c} /\ UNCHANGED entry
      <4>1. Moves(c, [x EXCEPT !.phase = "over"], k, e)
        BY <2>6, <2>7, <2>15, <3>2 DEF Moves, Phase, TunnelOpens
      <4>2. Matches([x EXCEPT !.phase = "over"], k, e, c \in sockets')
        BY <2>2, <2>3, <2>15 DEF Matches, Exchanges, TunnelOpens
      <4> QED
        BY <2>2, <2>8, <4>1, <4>2 DEF Phases
    <3> QED
      BY <2>15, <3>1, <3>2 DEF TunnelOpens, Phase
  <2>16. CASE TunnelCarries(c)
    <3>1. Moves(c, [x EXCEPT !.size = x.size + 1], k, e)
      BY <2>6, <2>7, <2>16 DEF Moves, TunnelCarries
    <3>2. Matches([x EXCEPT !.size = x.size + 1], k, e, c \in sockets')
      BY <2>2, <2>3, <2>16 DEF Matches, Exchanges, TunnelCarries
    <3> QED
      BY <2>2, <2>8, <2>16, <3>1, <3>2 DEF TunnelCarries
  <2>17. CASE TunnelEnds(c)
    <3> DEFINE ee == IF CaptureTunnels THEN [e EXCEPT !.size = x.size] ELSE e
    <3>1. Moves(c, [x EXCEPT !.phase = "over"], k, ee)
      BY <2>6, <2>7, <2>17 DEF Moves, Phase, TunnelEnds
    <3>2. Matches([x EXCEPT !.phase = "over"], k, ee, c \in sockets')
      BY <2>2, <2>3, <2>17 DEF Matches, Exchanges, ProxyEntries, TunnelEnds
    <3>3. ee \in ProxyEntries
      BY <2>2, <2>3, <2>8
    <3> QED
      BY <2>2, <2>8, <3>1, <3>2, <3>3 DEF Phases
  <2> QED
    BY <1>2, <2>9, <2>10, <2>11, <2>12, <2>13, <2>14, <2>15, <2>16, <2>17
<1> QED
  BY <1>1, <1>2 DEF ProxyNext
\* It holds at first, and is what is said of the proxy.
LEMMA ProxyBegins ==
    ASSUME ProxyInit
    PROVE  ProxyIInv
<1>1. MaxChunks \in Nat /\ MaxBodyBytes \in Nat /\ 0 \in 0..MaxChunks
  BY CaptureProxyAssumption
<1>2. ProxyTypeOK
  BY <1>1 DEF ProxyInit, ProxyTypeOK, Phases
<1>3. ASSUME NEW c \in Clients PROVE ExchangeSound(c)
  BY <1>1 DEF ProxyInit, ExchangeSound, Matches
<1> QED
  BY <1>2, <1>3 DEF ProxyIInv

LEMMA ProxyTold ==
    ASSUME ProxyIInv
    PROVE  ProxyTellsWhatItPassed
<1> SUFFICES ASSUME NEW c \in Clients
             PROVE  LET e == entry[c]
                    IN  /\ e.count <= 1 /\ e.body <= MaxBodyBytes
                        /\ client[c].state = "ended" /\ exchange[c].phase = "over" /\ e.count = 0 =>
                              client[c].chunks = 0 /\ exchange[c].size = 0
                        /\ e.count = 1 /\ ~e.failed /\ exchange[c].phase = "over" => e.size = exchange[c].size
                        /\ e.count = 1 /\ client[c].state = "ended" /\ ~e.failed => e.size = client[c].chunks
                        /\ exchange[c].phase \in {"asked", "answering", "cut"} => e.count = 0
  BY DEF ProxyTellsWhatItPassed
<1>1. exchange[c].phase \in Phases
  BY DEF ProxyIInv, ProxyTypeOK
<1>2. Matches(exchange[c], client[c], entry[c], c \in sockets)
  BY DEF ProxyIInv, ExchangeSound
<1> QED
  BY <1>1, <1>2 DEF Matches, Phases

-----------------------------------------------------------------------------
(* Recursive functions over numbers. *)

\* A set that holds 0 and with every number the next one holds every number.
LEMMA AllNumbers ==
    ASSUME NEW S, 0 \in S, \A n \in Nat : n \in S => n + 1 \in S
    PROVE  Nat \subseteq S
<1> DEFINE R == {pair \in Nat \X Nat : pair[1] < pair[2]}
<1>1. IsWellFoundedOn(R, Nat)
  BY NatLessThanWellFounded, Zenon DEF OpToRel
<1> SUFFICES ASSUME Nat \ S # {} PROVE FALSE
  OBVIOUS
<1>2. Nat \ S \subseteq Nat
  OBVIOUS
<1>3. PICK n \in Nat \ S : \A m \in Nat \ S : ~ (<<m, n>> \in R)
  <2> HIDE DEF R
  <2> QED
    BY <1>1, <1>2, WFMin
<1>4. n - 1 \in Nat /\ n - 1 < n
  BY <1>3
<1>5. n - 1 \in S
  BY <1>3, <1>4
<1> QED
  BY <1>4, <1>5

\* A set of numbers has a least one.
LEMMA LeastOf ==
    ASSUME NEW S \in SUBSET Nat, S # {}
    PROVE  \E n \in S : \A m \in S : n <= m
<1> DEFINE Lower == {n \in Nat : \A m \in 0..n : m \notin S}
<1>1. SUFFICES ASSUME \A n \in S : \E m \in S : m < n PROVE FALSE
  <2>1. PICK n \in S : \A m \in S : ~(m < n)
    BY <1>1
  <2>2. \A m \in S : n <= m
    BY <2>1
  <2> QED
    BY <2>2
<1>2. 0 \in Lower
  BY <1>1
<1>3. \A n \in Nat : n \in Lower => n + 1 \in Lower
  <2> TAKE n \in Nat
  <2> HAVE n \in Lower
  <2>1. n + 1 \notin S
    <3> SUFFICES ASSUME n + 1 \in S PROVE FALSE
      OBVIOUS
    <3>1. PICK m \in S : m < n + 1
      BY <1>1
    <3>2. m \in 0..n
      BY <3>1
    <3> QED
      BY <3>2
  <2>2. \A m \in 0..n + 1 : m = n + 1 \/ m \in 0..n
    OBVIOUS
  <2> QED
    BY <2>1, <2>2
<1>4. Nat \subseteq Lower
  <2> HIDE DEF Lower
  <2> QED
    BY <1>2, <1>3, AllNumbers
<1>5. \A n \in S : n \in 0..n /\ n \notin S
  <2> TAKE n \in S
  <2>1. n \in Nat /\ n \in Lower /\ n \in 0..n
    BY <1>4
  <2> QED
    BY <2>1
<1> QED
  BY <1>5

GoesOn(g, first, next, n) == g[0] = first /\ \A k \in 1..n : g[k] = next[g[k - 1]][k]

\* A function that goes on from each number to the next by a function of its last value exists.
LEMMA Recursion ==
    ASSUME NEW A, NEW first \in A, NEW next \in [A -> [Nat -> A]], NEW N \in Nat
    PROVE  \E g \in [0..N -> A] : GoesOn(g, first, next, N)
<1> DEFINE Works(g, m) == /\ g \in [0..m -> A]
                          /\ g[0] = first
                          /\ \A k \in 1..m : g[k] = next[g[k - 1]][k]
           Far == {m \in Nat : \E g : Works(g, m)}
<1>1. 0 \in Far
  <2> DEFINE g == [k \in 0..0 |-> first]
  <2>1. Works(g, 0)
    OBVIOUS
  <2> QED
    BY <2>1
<1>2. \A m \in Nat : m \in Far => m + 1 \in Far
  <2> TAKE m \in Nat
  <2> HAVE m \in Far
  <2>1. PICK g : Works(g, m)
    OBVIOUS
  <2> DEFINE h == [k \in 0..m + 1 |-> IF k = m + 1 THEN next[g[m]][m + 1] ELSE g[k]]
  <2>2. g[m] \in A /\ next[g[m]][m + 1] \in A
    BY <2>1
  <2>3. h \in [0..m + 1 -> A] /\ h[0] = first
    BY <2>1, <2>2
  <2>4. ASSUME NEW k \in 1..m + 1 PROVE h[k] = next[h[k - 1]][k]
    <3>1. CASE k = m + 1
      <4>1. k \in 0..m + 1 /\ m \in 0..m + 1 /\ m # m + 1 /\ k - 1 = m
        BY <3>1
      <4> QED
        BY <3>1, <4>1
    <3>2. CASE k # m + 1
      <4>1. /\ k \in 1..m /\ k \in 0..m + 1 /\ k - 1 \in 0..m + 1 /\ k - 1 # m + 1
        BY <3>2
      <4> QED
        BY <2>1, <3>2, <4>1
    <3> QED
      BY <3>1, <3>2
  <2>5. Works(h, m + 1)
    BY <2>3, <2>4
  <2> HIDE DEF h, Works
  <2> QED
    BY <2>5
<1>3. N \in Far
  <2> HIDE DEF Far
  <2> QED
    BY <1>1, <1>2, AllNumbers
<1>4. PICK g : Works(g, N)
  BY <1>3
<1>5. GoesOn(g, first, next, N)
  BY <1>4 DEF GoesOn
<1> QED
  BY <1>4, <1>5

-----------------------------------------------------------------------------
(* A capture with Playwright. *)

PlayEntries == [id: PageRequests \X {"response", "failure"}, failed: BOOLEAN, body: BOOLEAN]

Distinct(list) == \A i, j \in DOMAIN list : i # j => list[i].id # list[j].id

PlayTyped ==
    /\ request \in [PageRequests -> {"unsent", "sent", "answered", "failed"}]
    /\ handler \in [PageRequests -> {"none", "headers", "body", "done"}]
    /\ waiting \subseteq PageRequests
    /\ recorded \in Seq(PlayEntries) /\ taken \in Seq(PlayEntries)
    /\ pageAt \in {"loading", "stopped", "closed", "failed"}
    /\ atReturn \in Nat /\ pulls \in Nat

\* What is known of a request whose entries have the ids, while the page is heard or not.
Tracked(r, asked, read, pending, ids, heard) ==
    /\ <<r, "response">> \in ids <=> read = "done"
    /\ <<r, "failure">> \in ids => asked = "failed"
    /\ read # "none" => asked \in {"answered", "failed"}
    /\ asked = "answered" => read # "none"
    /\ heard => (pending <=> asked = "sent") /\ (asked = "failed" => <<r, "failure">> \in ids)

TakenInOrder ==
    /\ Distinct(recorded) /\ Distinct(taken) /\ Ids(taken) \subseteq Ids(recorded)
    /\ pulls = 0 => IF pageAt = "closed" THEN Len(taken) = atReturn ELSE taken = <<>>

PlayIInv ==
    /\ PlayTyped /\ TakenInOrder
    /\ \A r \in PageRequests :
          Tracked(r, request[r], handler[r], r \in waiting, Ids(recorded), Attached)

\* An entry appended: the ids are those there were and its own.
LEMMA AppendsEntry ==
    ASSUME NEW list \in Seq(PlayEntries), NEW e \in PlayEntries
    PROVE  /\ Append(list, e) \in Seq(PlayEntries) /\ Len(Append(list, e)) = Len(list) + 1
           /\ Ids(Append(list, e)) = Ids(list) \union {e.id}
           /\ Distinct(list) /\ e.id \notin Ids(list) => Distinct(Append(list, e))
<1> DEFINE longer == Append(list, e)
<1>1. /\ longer \in Seq(PlayEntries) /\ Len(list) \in Nat /\ DOMAIN list = 1..Len(list)
      /\ DOMAIN longer = 1..Len(list) + 1 /\ longer[Len(list) + 1] = e /\ Len(longer) = Len(list) + 1
      /\ \A k \in 1..Len(list) : longer[k] = list[k]
  OBVIOUS
<1>2. \A k \in 1..Len(list) + 1 : k \in 1..Len(list) \/ k = Len(list) + 1
  BY <1>1
<1>3. Len(list) + 1 \in 1..Len(list) + 1 /\ \A k \in 1..Len(list) : k \in 1..Len(list) + 1
  BY <1>1
<1> HIDE DEF longer
<1>4. Ids(longer) = Ids(list) \union {e.id}
  BY <1>1, <1>2, <1>3 DEF Ids
<1>5. ASSUME Distinct(list), e.id \notin Ids(list), NEW i \in DOMAIN longer, NEW j \in DOMAIN longer, i # j
      PROVE  longer[i].id # longer[j].id
  <2>1. CASE i \in 1..Len(list) /\ j \in 1..Len(list)
    BY <1>1, <1>5, <2>1 DEF Distinct
  <2>2. CASE i = Len(list) + 1 \/ j = Len(list) + 1
    <3>1. \A k \in 1..Len(list) : list[k].id # e.id
      BY <1>1, <1>5 DEF Ids
    <3> QED
      BY <1>1, <1>2, <1>5, <2>2, <3>1
  <2> QED
    BY <1>1, <1>2, <2>1, <2>2
<1> QED
  BY <1>1, <1>4, <1>5 DEF longer, Distinct

\* add() takes every entry it is given, none under an id it has; into an empty collection all.
LEMMA AddFacts ==
    ASSUME NEW list \in Seq(PlayEntries), taken \in Seq(PlayEntries),
           Distinct(taken), Distinct(list), Add(list)
    PROVE  /\ taken' \in Seq(PlayEntries) /\ Distinct(taken')
           /\ Ids(taken') = Ids(taken) \union Ids(list)
           /\ taken = <<>> => Len(taken') = Len(list)
<1> DEFINE N == Len(list)
           Has(before, e) == \E k \in DOMAIN before : before[k].id = e.id
           next == [before \in Seq(PlayEntries) |-> [n \in Nat |->
                       IF n \in 1..N /\ ~Has(before, list[n]) THEN Append(before, list[n]) ELSE before]]
           added[n \in 0..N] ==
              IF n = 0 THEN taken
              ELSE LET before == added[n - 1]
                   IN  IF Has(before, list[n]) THEN before ELSE Append(before, list[n])
<1>1. N \in Nat /\ DOMAIN list = 1..N /\ \A n \in 1..N : list[n] \in PlayEntries
  OBVIOUS
<1>2. next \in [Seq(PlayEntries) -> [Nat -> Seq(PlayEntries)]]
  <2> HIDE DEF Has, N
  <2> QED
    BY <1>1
<1>3. PICK g \in [0..N -> Seq(PlayEntries)] : GoesOn(g, taken, next, N)
  <2> HIDE DEF next, N
  <2> QED
    BY <1>1, <1>2, Recursion
<1>4. \A n \in 1..N : g[n] = IF Has(g[n - 1], list[n]) THEN g[n - 1] ELSE Append(g[n - 1], list[n])
  <2> TAKE n \in 1..N
  <2>1. n - 1 \in 0..N /\ n \in Nat
    BY <1>1
  <2>2. g[n - 1] \in Seq(PlayEntries)
    BY <2>1
  <2>3. g[n] = next[g[n - 1]][n]
    BY <1>3 DEF GoesOn
  <2> HIDE DEF Has
  <2> QED
    BY <2>1, <2>2, <2>3
<1>5. /\ added[0] = taken
      /\ \A n \in 1..N : added[n] = IF Has(added[n - 1], list[n]) THEN added[n - 1]
                                    ELSE Append(added[n - 1], list[n])
  <2> HIDE DEF next, N
  <2>1. 0 \in 0..N /\ \A n \in 1..N : n \in 0..N /\ n # 0
    BY <1>1
  <2>2. \A n \in 0..N : n # 0 => n \in 1..N
    BY <1>1
  <2>3. g = [n \in 0..N |-> IF n = 0 THEN taken
                            ELSE IF Has(g[n - 1], list[n]) THEN g[n - 1] ELSE Append(g[n - 1], list[n])]
    <3> HIDE DEF Has
    <3> QED
      BY <1>3, <1>4, <2>2 DEF GoesOn
  <2>4. added = [n \in 0..N |-> IF n = 0 THEN taken
                                ELSE IF Has(added[n - 1], list[n]) THEN added[n - 1]
                                     ELSE Append(added[n - 1], list[n])]
    BY <2>3
  <2> HIDE DEF added, Has
  <2> QED
    BY <2>1, <2>4
<1>6. taken' = added[N]
  BY DEF Add
<1>7. \A before : \A e : Has(before, e) <=> e.id \in Ids(before)
  BY DEF Ids
<1> DEFINE Good == {n \in Nat : n <= N =>
                       /\ added[n] \in Seq(PlayEntries) /\ Distinct(added[n])
                       /\ Ids(added[n]) = Ids(taken) \union {list[k].id : k \in 1..n}
                       /\ taken = <<>> => Len(added[n]) = n}
<1> HIDE DEF added, next, N, Has
<1>8. 0 \in Good
  <2>1. {list[k].id : k \in 1..0} = {}
    OBVIOUS
  <2> QED
    BY <1>5, <2>1
<1>9. \A n \in Nat : n \in Good => n + 1 \in Good
  <2> TAKE n \in Nat
  <2> HAVE n \in Good
  <2> DEFINE m == n + 1
  <2> SUFFICES ASSUME m <= N
               PROVE  /\ added[m] \in Seq(PlayEntries) /\ Distinct(added[m])
                      /\ Ids(added[m]) = Ids(taken) \union {list[k].id : k \in 1..m}
                      /\ taken = <<>> => Len(added[m]) = m
    OBVIOUS
  <2>1. n <= N /\ m \in 1..N /\ m - 1 = n
    BY <1>1
  <2>2. /\ added[n] \in Seq(PlayEntries) /\ Distinct(added[n])
        /\ Ids(added[n]) = Ids(taken) \union {list[k].id : k \in 1..n}
        /\ taken = <<>> => Len(added[n]) = n
    BY <2>1
  <2>3. added[m] = IF Has(added[n], list[m]) THEN added[n] ELSE Append(added[n], list[m])
    BY <1>5, <2>1, Zenon
  <2>4. {list[k].id : k \in 1..m} = {list[k].id : k \in 1..n} \union {list[m].id}
    <3>1. \A k \in 1..m : k \in 1..n \/ k = m
      OBVIOUS
    <3>2. (\A k \in 1..n : k \in 1..m) /\ m \in 1..m
      OBVIOUS
    <3> QED
      BY <3>1, <3>2
  <2>5. CASE Has(added[n], list[m])
    <3>1. list[m].id \in Ids(added[n])
      BY <1>7, <2>5
    <3>2. taken # <<>>
      <4>1. SUFFICES ASSUME taken = <<>> PROVE FALSE
        OBVIOUS
      <4>2. Ids(taken) = {}
        BY <4>1 DEF Ids
      <4>3. PICK k \in 1..n : list[m].id = list[k].id
        BY <2>2, <3>1, <4>2
      <4>4. k \in 1..N /\ k # m
        BY <1>1, <2>1
      <4> QED
        BY <1>1, <2>1, <4>3, <4>4 DEF Distinct
    <3> QED
      BY <2>2, <2>3, <2>4, <2>5, <3>1, <3>2
  <2>6. CASE ~Has(added[n], list[m])
    <3>1. added[m] = Append(added[n], list[m]) /\ list[m] \in PlayEntries /\ list[m].id \notin Ids(added[n])
      BY <1>1, <1>7, <2>1, <2>3, <2>6
    <3>2. /\ added[m] \in Seq(PlayEntries) /\ Len(added[m]) = Len(added[n]) + 1
          /\ Ids(added[m]) = Ids(added[n]) \union {list[m].id} /\ Distinct(added[m])
      BY <2>2, <3>1, AppendsEntry
    <3> QED
      BY <2>2, <2>4, <3>2
  <2> QED
    BY <2>5, <2>6
<1>10. N \in Good
  <2> HIDE DEF Good
  <2> QED
    BY <1>1, <1>8, <1>9, AllNumbers
<1>11. Ids(list) = {list[k].id : k \in 1..N}
  BY <1>1 DEF Ids
<1> QED
  BY <1>1, <1>6, <1>10, <1>11 DEF N

\* It holds at first.
LEMMA PlayBegins ==
    ASSUME PlayInit
    PROVE  PlayIInv
<1>1. PlayTyped
  BY DEF PlayInit, PlayTyped
<1>2. Ids(<<>>) = {} /\ Distinct(<<>>)
  BY DEF Ids, Distinct
<1>3. TakenInOrder
  BY <1>2 DEF PlayInit, TakenInOrder
<1>4. ASSUME NEW r \in PageRequests
      PROVE  Tracked(r, request[r], handler[r], r \in waiting, Ids(recorded), Attached)
  <2>1. request[r] = "unsent" /\ handler[r] = "none" /\ r \notin waiting /\ Ids(recorded) = {}
    BY <1>2 DEF PlayInit
  <2> QED
    BY <2>1 DEF Tracked
<1> QED
  BY <1>1, <1>3, <1>4 DEF PlayIInv

\* Every event of the page, every handler's step and every call keeps it.
LEMMA PlayStep ==
    ASSUME PlayIInv, PlayNext
    PROVE  PlayIInv'
<1>1. PlayTyped /\ TakenInOrder
  BY DEF PlayIInv
<1>2. \A d \in PageRequests : Tracked(d, request[d], handler[d], d \in waiting, Ids(recorded), Attached)
  BY DEF PlayIInv
<1>3. ASSUME NEW r \in PageRequests, RequestSent(r)
      PROVE  PlayIInv'
  <2>1. PlayTyped' /\ TakenInOrder'
    BY <1>1, <1>3 DEF RequestSent, PlayTyped, TakenInOrder
  <2>2. ASSUME NEW d \in PageRequests
        PROVE  Tracked(d, request'[d], handler'[d], d \in waiting', Ids(recorded)', Attached')
    BY <1>1, <1>2, <1>3 DEF RequestSent, PlayTyped, Tracked, Attached
  <2> QED
    BY <2>1, <2>2 DEF PlayIInv
<1>4. ASSUME NEW r \in PageRequests, ResponseComes(r)
      PROVE  PlayIInv'
  <2>1. PlayTyped' /\ TakenInOrder'
    BY <1>1, <1>4 DEF ResponseComes, PlayTyped, TakenInOrder
  <2>2. ASSUME NEW d \in PageRequests
        PROVE  Tracked(d, request'[d], handler'[d], d \in waiting', Ids(recorded)', Attached')
    BY <1>1, <1>2, <1>4 DEF ResponseComes, PlayTyped, Tracked, Attached
  <2> QED
    BY <2>1, <2>2 DEF PlayIInv
<1>5. ASSUME NEW r \in PageRequests, HeadersRead(r)
      PROVE  PlayIInv'
  <2>1. PlayTyped' /\ TakenInOrder'
    BY <1>1, <1>5 DEF HeadersRead, PlayTyped, TakenInOrder
  <2>2. ASSUME NEW d \in PageRequests
        PROVE  Tracked(d, request'[d], handler'[d], d \in waiting', Ids(recorded)', Attached')
    BY <1>1, <1>2, <1>5 DEF HeadersRead, PlayTyped, Tracked, Attached
  <2> QED
    BY <2>1, <2>2 DEF PlayIInv
<1>6. ASSUME NEW r \in PageRequests, ResponseRead(r)
      PROVE  PlayIInv'
  <2>1. PICK e \in PlayEntries : e.id = <<r, "response">> /\ recorded' = Append(recorded, e)
    <3>1. PICK hasBody \in BOOLEAN :
             recorded' = Append(recorded, [id |-> <<r, "response">>, failed |-> FALSE, body |-> hasBody])
      BY <1>1, <1>6 DEF ResponseRead, PlayTyped
    <3>2. [id |-> <<r, "response">>, failed |-> FALSE, body |-> hasBody] \in PlayEntries
      BY DEF PlayEntries
    <3> QED
      BY <3>1, <3>2
  <2>2. e.id \notin Ids(recorded)
    BY <1>2, <1>6, <2>1 DEF ResponseRead, Tracked
  <2>3. /\ recorded' \in Seq(PlayEntries) /\ Distinct(recorded')
        /\ Ids(recorded') = Ids(recorded) \union {<<r, "response">>}
    BY <1>1, <2>1, <2>2, AppendsEntry DEF PlayTyped, TakenInOrder
  <2>4. PlayTyped'
    BY <1>1, <1>6, <2>3 DEF ResponseRead, PlayTyped
  <2>5. TakenInOrder'
    BY <1>1, <1>6, <2>3 DEF ResponseRead, TakenInOrder
  <2>6. ASSUME NEW d \in PageRequests
        PROVE  Tracked(d, request'[d], handler'[d], d \in waiting', Ids(recorded'), Attached')
    <3>1. <<d, "failure">> # <<r, "response">> /\ (<<d, "response">> = <<r, "response">> <=> d = r)
      OBVIOUS
    <3>2. handler'[d] = IF d = r THEN "done" ELSE handler[d]
      BY <1>1, <1>6 DEF ResponseRead, PlayTyped
    <3>3. UNCHANGED <<request, waiting, pageAt>> /\ handler[r] = "body"
      BY <1>6 DEF ResponseRead
    <3> QED
      BY <1>2, <2>3, <3>1, <3>2, <3>3 DEF Tracked, Attached
  <2> QED
    BY <2>4, <2>5, <2>6 DEF PlayIInv
<1>7. ASSUME NEW r \in PageRequests, RequestFails(r)
      PROVE  PlayIInv'
  <2>1. FailureEntry(r) \in PlayEntries /\ FailureEntry(r).id = <<r, "failure">>
    BY DEF FailureEntry, PlayEntries
  <2>2. FailureEntry(r).id \notin Ids(recorded)
    BY <1>2, <1>7, <2>1 DEF RequestFails, Tracked
  <2>3. /\ recorded' \in Seq(PlayEntries) /\ Distinct(recorded')
        /\ Ids(recorded') = IF Attached THEN Ids(recorded) \union {<<r, "failure">>} ELSE Ids(recorded)
    <3>1. CASE Attached
      BY <1>1, <1>7, <2>1, <2>2, <3>1, AppendsEntry DEF PlayTyped, TakenInOrder, RequestFails
    <3>2. CASE ~Attached
      BY <1>1, <1>7, <3>2 DEF PlayTyped, TakenInOrder, RequestFails
    <3> QED
      BY <3>1, <3>2
  <2>4. PlayTyped'
    BY <1>1, <1>7, <2>3 DEF RequestFails, PlayTyped
  <2>5. TakenInOrder'
    BY <1>1, <1>7, <2>3 DEF RequestFails, TakenInOrder
  <2>6. ASSUME NEW d \in PageRequests
        PROVE  Tracked(d, request'[d], handler'[d], d \in waiting', Ids(recorded'), Attached')
    <3>1. <<d, "response">> # <<r, "failure">> /\ (<<d, "failure">> = <<r, "failure">> <=> d = r)
      OBVIOUS
    <3>2. /\ request'[d] = IF d = r THEN "failed" ELSE request[d]
          /\ request[r] \in {"sent", "answered"}
          /\ waiting' = IF Attached THEN waiting \ {r} ELSE waiting
          /\ UNCHANGED <<handler, pageAt>>
      BY <1>1, <1>7 DEF RequestFails, PlayTyped
    <3> QED
      BY <1>2, <2>3, <3>1, <3>2 DEF Tracked, Attached
  <2> QED
    BY <2>4, <2>5, <2>6 DEF PlayIInv
<1>8. CASE GotoSettles
  <2>1. PlayTyped' /\ TakenInOrder'
    BY <1>1, <1>8 DEF GotoSettles, PlayTyped, TakenInOrder
  <2>2. ASSUME NEW d \in PageRequests
        PROVE  Tracked(d, request'[d], handler'[d], d \in waiting', Ids(recorded)', Attached')
    BY <1>2, <1>8 DEF GotoSettles, Tracked, Attached
  <2> QED
    BY <2>1, <2>2 DEF PlayIInv
<1>9. CASE CaptureReturns
  <2>1. /\ taken' \in Seq(PlayEntries) /\ Distinct(taken')
        /\ Ids(taken') = Ids(taken) \union Ids(recorded)
        /\ taken = <<>> => Len(taken') = Len(recorded)
    BY <1>1, <1>9, AddFacts DEF CaptureReturns, PlayTyped, TakenInOrder
  <2>2. PlayTyped' /\ TakenInOrder'
    BY <1>1, <1>9, <2>1 DEF CaptureReturns, PlayTyped, TakenInOrder
  <2>3. ASSUME NEW d \in PageRequests
        PROVE  Tracked(d, request'[d], handler'[d], d \in waiting', Ids(recorded)', Attached')
    BY <1>2, <1>9 DEF CaptureReturns, Tracked, Attached
  <2> QED
    BY <2>2, <2>3 DEF PlayIInv
<1>10. CASE Pull
  <2>1. /\ taken' \in Seq(PlayEntries) /\ Distinct(taken') /\ Ids(taken') \subseteq Ids(recorded)
    <3>1. CASE Add(recorded)
      BY <1>1, <3>1, AddFacts DEF PlayTyped, TakenInOrder
    <3>2. CASE taken' = <<>>
      BY <3>2 DEF Distinct, Ids
    <3> QED
      BY <1>10, <3>1, <3>2 DEF Pull
  <2>2. PlayTyped' /\ TakenInOrder'
    BY <1>1, <1>10, <2>1 DEF Pull, PlayTyped, TakenInOrder
  <2>3. ASSUME NEW d \in PageRequests
        PROVE  Tracked(d, request'[d], handler'[d], d \in waiting', Ids(recorded)', Attached')
    BY <1>2, <1>10 DEF Pull, Tracked, Attached
  <2> QED
    BY <2>2, <2>3 DEF PlayIInv
<1> QED
  BY <1>3, <1>4, <1>5, <1>6, <1>7, <1>8, <1>9, <1>10 DEF PlayNext

\* Where a request has its entries follows from what is known of it; a HAR file gives an entry
\* back by what its status, its body and its error say.
LEMMA PlayTold ==
    ASSUME PlayIInv
    PROVE  CapturedOnce
<1>1. ASSUME NEW r \in PageRequests
      PROVE  /\ r \in waiting => request[r] = "sent" \/ ~Attached
             /\ <<r, "failure">> \in Ids(recorded) => request[r] = "failed"
             /\ request[r] = "answered" \/ handler[r] # "none" =>
                   (<<r, "response">> \in Ids(recorded) <=> handler[r] = "done")
             /\ Attached /\ request[r] # "unsent" =>
                   \/ r \in waiting \/ handler[r] \in {"headers", "body"}
                   \/ {<<r, "response">>, <<r, "failure">>} \intersect Ids(recorded) # {}
  BY DEF PlayIInv, PlayTyped, Tracked
<1>2. ASSUME NEW e \in HarEntries, Captured(e)
      PROVE  [FromHar(ToHar(e)) EXCEPT !.fromCache = e.fromCache] = e
  <2>1. e = [status |-> e.status, body |-> e.body, error |-> e.error, failed |-> e.failed,
             fromCache |-> e.fromCache, secret |-> e.secret]
    BY DEF HarEntries
  <2>2. /\ (IF e.failed THEN e.error ELSE FALSE) = e.error
        /\ (e.error \/ (e.status = 0 /\ e.body = NoBody)) = e.failed
    BY <1>2 DEF HarEntries, Captured
  <2>3. ToHar(e) = [status |-> e.status, text |-> e.body, error |-> e.error, redacted |-> e.secret]
    BY <2>2 DEF ToHar
  <2>4. FromHar(ToHar(e)) = [status |-> e.status, body |-> e.body, error |-> e.error, failed |-> e.failed,
                             fromCache |-> e.status = 304, secret |-> e.secret]
    BY <2>2, <2>3 DEF FromHar
  <2> QED
    BY <2>1, <2>4
<1> QED
  BY <1>1, <1>2 DEF PlayIInv, TakenInOrder, Distinct, CapturedOnce

-----------------------------------------------------------------------------
(* The sessions: their methods are steps of the abstract Outcome. *)

SessionStep == Commands!Next \/ UNCHANGED sessionVars

\* Nothing but the command of the caller is touched.
OthersStay(c) == \A d \in Callers \ {c} : command'[d] = command[d]

\* send asks.
LEMMA SendAsks ==
    ASSUME SessionTypeOK, NEW c \in Callers, NEW s \in Sessions, command[c].state # "waiting",
           Send(c, s), UNCHANGED connection
    PROVE  SessionTypeOK' /\ Commands!Next /\ OthersStay(c)
<1> DEFINE state == IF connection[s] = "open" THEN "waiting" ELSE "failed"
<1>1. command' = [command EXCEPT ![c] = [session |-> s, state |-> state]]
  BY DEF Send
<1>2. /\ command \in [Callers -> [session: Sessions \union {None}, state: States]]
      /\ command' \in [Callers -> [session: Sessions \union {None}, state: States]]
  BY <1>1 DEF SessionTypeOK, States
<1>3. \A d \in Callers : command'[d] = IF d = c THEN [session |-> s, state |-> state] ELSE command[d]
  BY <1>1, <1>2
<1>4. SessionTypeOK'
  BY <1>2, <1>3 DEF SessionTypeOK
<1>5. Commands!Ask(c)
  <2>1. [d \in Callers |-> command'[d].session] = [[d \in Callers |-> command[d].session] EXCEPT ![c] = s]
    <3>1. \A d \in Callers : command'[d].session = IF d = c THEN s ELSE command[d].session
      BY <1>3
    <3> QED
      BY <3>1
  <2>2. [d \in Callers |-> IF command'[d].state = "waiting" THEN "pending" ELSE command'[d].state]
        = [[d \in Callers |-> IF command[d].state = "waiting" THEN "pending" ELSE command[d].state]
             EXCEPT ![c] = IF s \in {t \in Sessions : connection[t] = "open"} THEN "pending" ELSE "failed"]
    <3> DEFINE o == IF s \in {t \in Sessions : connection[t] = "open"} THEN "pending" ELSE "failed"
    <3>1. ASSUME NEW d \in Callers
          PROVE  (IF command'[d].state = "waiting" THEN "pending" ELSE command'[d].state)
                 = IF d = c THEN o ELSE IF command[d].state = "waiting" THEN "pending" ELSE command[d].state
      BY <1>3
    <3> HIDE DEF o
    <3>2. [d \in Callers |-> IF command'[d].state = "waiting" THEN "pending" ELSE command'[d].state]
          = [[d \in Callers |-> IF command[d].state = "waiting" THEN "pending" ELSE command[d].state]
               EXCEPT ![c] = o]
      BY <3>1
    <3> QED
      BY <3>2 DEF o
  <2>3. (IF command[c].state = "waiting" THEN "pending" ELSE command[c].state) # "pending"
    BY <1>2 DEF States
  <2>4. {t \in Sessions : connection'[t] = "open"} = {t \in Sessions : connection[t] = "open"}
    OBVIOUS
  <2> QED
    BY <2>1, <2>2, <2>3, <2>4 DEF Commands!Ask
<1> QED
  BY <1>3, <1>4, <1>5 DEF Commands!Next, OthersStay

\* A reply or the timer settles.
LEMMA ReplySettles ==
    ASSUME SessionTypeOK, NEW c \in Callers, Dispatch(c) \/ CommandTimesOut(c)
    PROVE  /\ SessionTypeOK' /\ Commands!Next /\ OthersStay(c) /\ UNCHANGED connection
           /\ command[c].state = "waiting" /\ command'[c].state # "waiting"
<1>1. PICK o \in {"ok", "failed"} :
         command[c].state = "waiting" /\ command' = [command EXCEPT ![c].state = o] /\ UNCHANGED connection
  BY DEF Dispatch, CommandTimesOut
<1>2. command \in [Callers -> [session: Sessions \union {None}, state: States]]
  BY DEF SessionTypeOK
<1>3. command' = [command EXCEPT ![c] = [session |-> command[c].session, state |-> o]]
  <2> DEFINE r == command[c]
  <2>1. r \in [session: Sessions \union {None}, state: States]
    BY <1>2
  <2>2. [r EXCEPT !.state = o] = [session |-> r.session, state |-> o]
    BY <2>1
  <2>3. command' = [command EXCEPT ![c] = [r EXCEPT !.state = o]]
    BY <1>1
  <2> HIDE DEF r
  <2> QED
    BY <2>2, <2>3 DEF r
<1>4. command' \in [Callers -> [session: Sessions \union {None}, state: States]]
  <2> DEFINE settled == [session |-> command[c].session, state |-> o]
             Records == [session: Sessions \union {None}, state: States]
  <2>1. settled \in Records
    BY <1>1, <1>2 DEF States
  <2>2. command \in [Callers -> Records] /\ command' = [command EXCEPT ![c] = settled]
    BY <1>2, <1>3
  <2> HIDE DEF settled, Records
  <2>3. command' \in [Callers -> Records]
    BY <2>1, <2>2
  <2> QED
    BY <2>3 DEF Records
<1>5. \A d \in Callers : command'[d] = IF d = c THEN [session |-> command[c].session, state |-> o]
                                       ELSE command[d]
  BY <1>2, <1>3
<1>6. SessionTypeOK'
  BY <1>1, <1>4, <1>5 DEF SessionTypeOK
<1>7. Commands!Settle(c)
  <2>1. [d \in Callers |-> command'[d].session] = [d \in Callers |-> command[d].session]
    BY <1>5
  <2>2. [d \in Callers |-> IF command'[d].state = "waiting" THEN "pending" ELSE command'[d].state]
        = [[d \in Callers |-> IF command[d].state = "waiting" THEN "pending" ELSE command[d].state]
             EXCEPT ![c] = o]
    <3>1. ASSUME NEW d \in Callers
          PROVE  (IF command'[d].state = "waiting" THEN "pending" ELSE command'[d].state)
                 = IF d = c THEN o ELSE IF command[d].state = "waiting" THEN "pending" ELSE command[d].state
      BY <1>5
    <3> QED
      BY <3>1
  <2> QED
    BY <1>1, <2>1, <2>2 DEF Commands!Settle
<1> QED
  BY <1>1, <1>5, <1>6, <1>7 DEF Commands!Next, OthersStay

\* The end of a session fails what waits on it.
LEMMA AbortCloses ==
    ASSUME SessionTypeOK, NEW s \in Sessions, Abort(s)
    PROVE  /\ SessionTypeOK' /\ Commands!Next /\ connection' = [connection EXCEPT ![s] = "closed"]
           /\ \A c \in Callers : \/ command'[c] = command[c]
                                 \/ command[c].state = "waiting" /\ command'[c].state = "failed"
<1>1. /\ connection' = [connection EXCEPT ![s] = "closed"]
      /\ \A c \in Callers : command'[c] = IF command[c].session = s /\ command[c].state = "waiting"
                                          THEN [session |-> s, state |-> "failed"] ELSE command[c]
  BY DEF Abort
<1>2. /\ connection \in [Sessions -> {"unmade", "open", "closed"}]
      /\ command \in [Callers -> [session: Sessions \union {None}, state: States]]
  BY DEF SessionTypeOK
<1>3. command' \in [Callers -> [session: Sessions \union {None}, state: States]]
  BY <1>2 DEF Abort, States
<1>4. ASSUME NEW c \in Callers, command'[c].state = "waiting"
      PROVE  connection'[command'[c].session] = "open"
  <2>1. command'[c] = command[c] /\ command[c].session # s /\ connection[command[c].session] = "open"
    BY <1>1, <1>4 DEF SessionTypeOK
  <2>2. command[c].session \in Sessions \/ command[c].session = None
    BY <1>2
  <2> QED
    BY <1>1, <1>2, <2>1, <2>2
<1>5. SessionTypeOK'
  BY <1>1, <1>2, <1>3, <1>4 DEF SessionTypeOK
<1>6. Commands!Close(s)
  <2>1. {t \in Sessions : connection'[t] = "open"} = {t \in Sessions : connection[t] = "open"} \ {s}
    BY <1>1, <1>2
  <2>2. [c \in Callers |-> command'[c].session] = [c \in Callers |-> command[c].session]
    BY <1>1
  <2>3. [c \in Callers |-> IF command'[c].state = "waiting" THEN "pending" ELSE command'[c].state]
        = [c \in Callers |->
              IF /\ [d \in Callers |-> command[d].session][c] = s
                 /\ [d \in Callers |-> IF command[d].state = "waiting" THEN "pending"
                                       ELSE command[d].state][c] = "pending"
              THEN "failed"
              ELSE [d \in Callers |-> IF command[d].state = "waiting" THEN "pending"
                                      ELSE command[d].state][c]]
    <3> SUFFICES ASSUME NEW c \in Callers
                 PROVE  (IF command'[c].state = "waiting" THEN "pending" ELSE command'[c].state)
                        = IF /\ command[c].session = s
                             /\ (IF command[c].state = "waiting" THEN "pending" ELSE command[c].state) = "pending"
                          THEN "failed"
                          ELSE IF command[c].state = "waiting" THEN "pending" ELSE command[c].state
      OBVIOUS
    <3> QED
      BY <1>1, <1>2 DEF States
  <2> QED
    BY <2>1, <2>2, <2>3 DEF Commands!Close
<1> QED
  BY <1>1, <1>5, <1>6 DEF Commands!Next

\* The constructor opens.
LEMMA ConnectedOpens ==
    ASSUME SessionTypeOK, NEW s \in Sessions, Connected(s), UNCHANGED command
    PROVE  SessionTypeOK' /\ Commands!Next /\ connection' = [connection EXCEPT ![s] = "open"]
<1>1. /\ connection[s] = "unmade" /\ connection' = [connection EXCEPT ![s] = "open"]
      /\ connection \in [Sessions -> {"unmade", "open", "closed"}]
      /\ command \in [Callers -> [session: Sessions \union {None}, state: States]]
  BY DEF Connected, SessionTypeOK
<1>2. ASSUME NEW c \in Callers, command[c].state = "waiting"
      PROVE  connection'[command[c].session] = "open"
  <2>1. connection[command[c].session] = "open" /\ command[c].session \in Sessions \union {None}
    BY <1>1, <1>2 DEF SessionTypeOK
  <2> QED
    BY <1>1, <2>1
<1>3. SessionTypeOK'
  BY <1>1, <1>2 DEF SessionTypeOK
<1>4. Commands!Open(s)
  <2>1. {t \in Sessions : connection'[t] = "open"} = {t \in Sessions : connection[t] = "open"} \union {s}
    BY <1>1
  <2> QED
    BY <2>1 DEF Commands!Open
<1> QED
  BY <1>1, <1>3, <1>4 DEF Commands!Next

\* close, of a session that may be closed.
LEMMA CloseEnds ==
    ASSUME SessionTypeOK, NEW s \in Sessions, CloseSession(s)
    PROVE  /\ SessionTypeOK' /\ (Commands!Next \/ UNCHANGED sessionVars)
           /\ connection' = [connection EXCEPT ![s] = IF @ = "open" THEN "closed" ELSE @]
           /\ \A c \in Callers : \/ command'[c] = command[c]
                                 \/ command[c].state = "waiting" /\ command'[c].state = "failed"
<1>1. CASE connection[s] = "open"
  BY <1>1, AbortCloses DEF CloseSession
<1>2. CASE connection[s] # "open"
  <2>1. UNCHANGED sessionVars
    BY <1>2 DEF CloseSession
  <2> QED
    BY <1>2, <2>1 DEF SessionTypeOK, sessionVars
<1> QED
  BY <1>1, <1>2

-----------------------------------------------------------------------------
(* One task in a browser. *)

Asking == {"creating", "attaching", "enabling", "preparing", "navigating", "polling", "bodies",
           "rendering", "meta", "cookies", "closing"}

\* Where the task is, and what it has in hand there.
TaskPlace ==
    /\ at = "connecting" <=> connection[MySession] = "unmade" /\ at # "abandoned"
    /\ mine = "waiting" => at \in Asking
    /\ at = "cookies" => task.task = "cookies"
    /\ at = "closing" => target = "closing"
    /\ at = "bodies" => position \in DOMAIN records
    /\ TaskCleansUp

\* How the list of entries and the map of the last ones go together.
EntriesSound(list, last, hops, full) ==
    /\ \A r \in Requests : last[r] \in 0..Len(list) /\ (last[r] # 0 => list[last[r]].request = r)
    /\ \A r \in Requests \ full : last[r] # 0 => list[last[r]].hop = hops[r].hop
    /\ \A k \in DOMAIN list : list[k].request \notin full =>
          /\ list[k].redirected \/ last[list[k].request] = k
          /\ list[k].status \in {0, list[k].hop}
          /\ list[k].redirected \/ list[k].body \in {0, list[k].hop}

HopsSound ==
    \A r \in Requests : /\ page[r].phase = "none" => page[r].hop = 0 /\ byRequestId[r] = 0
                        /\ page[r].phase # "none" => page[r].hop # 0
                        /\ r \in Sockets /\ page[r].phase = "sent" => page[r].hop = 1

TaskIInv ==
    /\ SessionTypeOK /\ TaskTypeOK /\ TaskPlace /\ HopsSound
    /\ EntriesSound(records, byRequestId, page, crowded)

PageTyped ==
    /\ page \in [Requests -> [hop: 0..MaxHops,
                              phase: {"none", "sent", "responded", "finished", "failed"}]]
    /\ records \in Seq(Entries) /\ Len(records) <= MaxEntries
    /\ byRequestId \in [Requests -> 0..MaxEntries] /\ crowded \subseteq Requests

PlaceTyped ==
    /\ task \in Tasks /\ at \in Steps /\ ended \in {"", "ok", "failed"}
    /\ position \in 0..(MaxEntries + 1) /\ loaded \in BOOLEAN
    /\ target \in {"none", "open", "closing"}

\* The invariant in parts.
LEMMA TaskParts ==
    TaskIInv <=> /\ SessionTypeOK /\ PageTyped /\ PlaceTyped /\ TaskPlace /\ HopsSound
                 /\ EntriesSound(records, byRequestId, page, crowded)
BY DEF TaskIInv, TaskTypeOK, PageTyped, PlaceTyped, EntriesSound

\* An entry that tells of the same hop as another, and bears what is its own.
Alike(e, f, full) ==
    /\ f.request = e.request /\ f.hop = e.hop /\ (e.redirected => f.redirected)
    /\ e.request \notin full => f.status \in {0, f.hop} /\ (f.redirected \/ f.body \in {0, f.hop})

\* A list of such entries goes together with the map as the list did.
LEMMA AlikeSound ==
    ASSUME NEW list \in Seq(Entries), NEW last, NEW hops, NEW full, EntriesSound(list, last, hops, full),
           NEW other \in Seq(Entries), Len(other) = Len(list),
           \A k \in DOMAIN list : Alike(list[k], other[k], full)
    PROVE  EntriesSound(other, last, hops, full)
<1>1. DOMAIN other = DOMAIN list /\ DOMAIN list = 1..Len(list) /\ Len(list) \in Nat
  OBVIOUS
<1>2. \A k \in 0..Len(list) : k # 0 => k \in DOMAIN list
  BY <1>1
<1>3. ASSUME NEW r \in Requests
      PROVE  /\ last[r] \in 0..Len(other) /\ (last[r] # 0 => other[last[r]].request = r)
             /\ r \notin full /\ last[r] # 0 => other[last[r]].hop = hops[r].hop
  <2>1. last[r] \in 0..Len(list) /\ (last[r] # 0 => list[last[r]].request = r)
    BY DEF EntriesSound
  <2>2. r \notin full /\ last[r] # 0 => list[last[r]].hop = hops[r].hop
    BY DEF EntriesSound
  <2>3. last[r] # 0 => Alike(list[last[r]], other[last[r]], full)
    BY <1>2, <2>1
  <2> QED
    BY <2>1, <2>2, <2>3 DEF Alike
<1>4. ASSUME NEW k \in DOMAIN other, other[k].request \notin full
      PROVE  /\ other[k].redirected \/ last[other[k].request] = k
             /\ other[k].status \in {0, other[k].hop}
             /\ other[k].redirected \/ other[k].body \in {0, other[k].hop}
  <2>1. Alike(list[k], other[k], full) /\ k \in DOMAIN list
    BY <1>1
  <2>2. list[k].request \notin full /\ list[k].request = other[k].request
    BY <1>4, <2>1 DEF Alike
  <2>3. list[k].redirected \/ last[list[k].request] = k
    BY <2>1, <2>2 DEF EntriesSound
  <2> QED
    BY <2>1, <2>2, <2>3 DEF Alike
<1> QED
  BY <1>3, <1>4 DEF EntriesSound

\* An entry of a list that goes together is like itself.
LEMMA AlikeItself ==
    ASSUME NEW list, NEW last, NEW hops, NEW full, EntriesSound(list, last, hops, full),
           NEW k \in DOMAIN list
    PROVE  Alike(list[k], list[k], full)
BY DEF EntriesSound, Alike

With(list, k, e) == [list EXCEPT ![k] = e]

\* The same for one entry that is changed.
LEMMA ChangeSound ==
    ASSUME NEW list \in Seq(Entries), NEW last, NEW hops, NEW full, EntriesSound(list, last, hops, full),
           NEW k \in DOMAIN list, NEW e \in Entries, Alike(list[k], e, full)
    PROVE  /\ With(list, k, e) \in Seq(Entries) /\ Len(With(list, k, e)) = Len(list)
           /\ EntriesSound(With(list, k, e), last, hops, full)
<1> DEFINE other == [list EXCEPT ![k] = e]
<1>1. other \in Seq(Entries) /\ Len(other) = Len(list)
  OBVIOUS
<1>2. \A j \in DOMAIN list : other[j] = IF j = k THEN e ELSE list[j]
  OBVIOUS
<1>3. ASSUME NEW j \in DOMAIN list PROVE Alike(list[j], other[j], full)
  <2>1. Alike(list[j], list[j], full)
    BY AlikeItself
  <2> QED
    BY <1>2, <2>1
<1> HIDE DEF other
<1>4. EntriesSound(other, last, hops, full)
  BY <1>1, <1>3, AlikeSound
<1> QED
  BY <1>1, <1>4 DEF other, With

\* The fields of an entry.
LEMMA EntryFields ==
    ASSUME NEW e \in Entries
    PROVE  /\ e.request \in Requests /\ e.hop \in 1..MaxHops /\ e.status \in 0..MaxHops
           /\ e.mime \in {"", "text", "binary"} /\ e.done \in BOOLEAN /\ e.failed \in BOOLEAN
           /\ e.big \in BOOLEAN /\ e.body \in 0..MaxHops /\ e.truncated \in BOOLEAN
           /\ e.redirected \in BOOLEAN /\ e.frames \in 0..MaxFramesPerSocket
BY DEF Entries

\* What the handlers make of an entry.
AsRedirected(e, n) == [e EXCEPT !.status = n, !.done = TRUE, !.redirected = TRUE]
AsAnswered(e, n, m) == [e EXCEPT !.status = n, !.mime = m]
AsFinished(e, b) == [e EXCEPT !.done = TRUE, !.big = b]
AsFailed(e) == [e EXCEPT !.failed = TRUE, !.done = TRUE]
AsTruncated(e) == [e EXCEPT !.truncated = TRUE]
AsFramed(e) == [e EXCEPT !.frames = @ + 1]
AsBodied(e, n, b) == [e EXCEPT !.body = n, !.truncated = b]

\* It is one of the same request and hop: after a redirect,
LEMMA EntryRedirected ==
    ASSUME NEW e \in Entries, NEW n \in 0..MaxHops
    PROVE  LET f == AsRedirected(e, n)
           IN  /\ f \in Entries /\ f.request = e.request /\ f.hop = e.hop
               /\ f.status = n /\ f.redirected
BY EntryFields, CdpCaptureAssumption DEF Entries, AsRedirected

\* a response,
LEMMA EntryAnswered ==
    ASSUME NEW e \in Entries, NEW n \in 0..MaxHops, NEW m \in {"text", "binary"}
    PROVE  LET f == AsAnswered(e, n, m)
           IN  /\ f \in Entries /\ f.request = e.request /\ f.hop = e.hop
               /\ f.status = n /\ f.redirected = e.redirected /\ f.body = e.body
BY EntryFields, CdpCaptureAssumption DEF Entries, AsAnswered

\* the end of its body,
LEMMA EntryFinished ==
    ASSUME NEW e \in Entries, NEW b \in BOOLEAN
    PROVE  LET f == AsFinished(e, b)
           IN  /\ f \in Entries /\ f.request = e.request /\ f.hop = e.hop
               /\ f.status = e.status /\ f.redirected = e.redirected /\ f.body = e.body
BY EntryFields, CdpCaptureAssumption DEF Entries, AsFinished

\* a failure,
LEMMA EntryFailed ==
    ASSUME NEW e \in Entries
    PROVE  LET f == AsFailed(e)
           IN  /\ f \in Entries /\ f.request = e.request /\ f.hop = e.hop
               /\ f.status = e.status /\ f.redirected = e.redirected /\ f.body = e.body
BY EntryFields, CdpCaptureAssumption DEF Entries, AsFailed

\* what is too large or too many,
LEMMA EntryTruncated ==
    ASSUME NEW e \in Entries
    PROVE  LET f == AsTruncated(e)
           IN  /\ f \in Entries /\ f.request = e.request /\ f.hop = e.hop
               /\ f.status = e.status /\ f.redirected = e.redirected /\ f.body = e.body
BY EntryFields, CdpCaptureAssumption DEF Entries, AsTruncated

\* one more frame,
LEMMA EntryFramed ==
    ASSUME NEW e \in Entries, e.frames < MaxFramesPerSocket
    PROVE  LET f == AsFramed(e)
           IN  /\ f \in Entries /\ f.request = e.request /\ f.hop = e.hop
               /\ f.status = e.status /\ f.redirected = e.redirected /\ f.body = e.body
<1> DEFINE more == e.frames + 1
<1>1. more \in 0..MaxFramesPerSocket
  <2>1. e.frames \in 0..MaxFramesPerSocket /\ MaxFramesPerSocket \in Nat
    BY EntryFields, CdpCaptureAssumption
  <2> QED
    BY <2>1
<1>2. AsFramed(e) = [e EXCEPT !.frames = more]
  BY DEF more, AsFramed
<1> HIDE DEF more
<1> QED
  BY <1>1, <1>2, EntryFields DEF Entries

\* and with its body, or that it cannot be had.
LEMMA EntryBodied ==
    ASSUME NEW e \in Entries, NEW n \in 0..MaxHops, NEW b \in BOOLEAN
    PROVE  LET f == AsBodied(e, n, b)
           IN  /\ f \in Entries /\ f.request = e.request /\ f.hop = e.hop
               /\ f.status = e.status /\ f.redirected = e.redirected /\ f.body = n
BY EntryFields, CdpCaptureAssumption DEF Entries, AsBodied

\* A list that may be longer and a changed map, with all else where it was.
LEMMA EventKeeps ==
    ASSUME TaskIInv, PageTyped', HopsSound', EntriesSound(records', byRequestId', page', crowded'),
           Len(records) <= Len(records'), loaded' \in BOOLEAN,
           UNCHANGED <<task, at, ended, position, target, sessionVars>>
    PROVE  TaskIInv' /\ SessionStep
<1>1. /\ SessionTypeOK /\ PageTyped /\ PlaceTyped /\ TaskPlace
  BY TaskParts
<1>2. SessionTypeOK' /\ PlaceTyped' /\ SessionStep
  BY <1>1 DEF SessionTypeOK, PlaceTyped, sessionVars, SessionStep
<1>3. DOMAIN records \subseteq DOMAIN records'
  BY <1>1 DEF PageTyped
<1>4. TaskPlace'
  <2>1. UNCHANGED <<connection, command>>
    BY DEF sessionVars
  <2>2. mine' = mine
    BY <2>1 DEF mine
  <2> QED
    BY <1>1, <1>3, <2>1, <2>2 DEF TaskPlace, TaskCleansUp
<1>5. (SessionTypeOK /\ PageTyped /\ PlaceTyped /\ TaskPlace /\ HopsSound
         /\ EntriesSound(records, byRequestId, page, crowded))'
  BY <1>2, <1>4
<1> QED
  BY <1>2, <1>5, TaskParts DEF TaskIInv, TaskTypeOK, PageTyped, PlaceTyped, EntriesSound

\* A record is added to the list, whose entry of the request before was redirected, and is the
\* one of its request from then on, or the request is crowded.
LEMMA RecordKeeps ==
    ASSUME PageTyped, NEW list \in Seq(Entries), Len(list) = Len(records), NEW r \in Requests,
           EntriesSound(list, byRequestId, page, crowded), Record(list, r),
           byRequestId[r] # 0 => list[byRequestId[r]].redirected,
           page[r].hop + 1 \in 1..MaxHops, page'[r].hop = page[r].hop + 1,
           \A q \in Requests \ {r} : page'[q] = page[q]
    PROVE  /\ records' \in Seq(Entries) /\ Len(records') <= MaxEntries /\ Len(records) <= Len(records')
           /\ byRequestId' \in [Requests -> 0..MaxEntries] /\ crowded' \subseteq Requests
           /\ EntriesSound(records', byRequestId', page', crowded')
<1>1. Len(list) \in Nat /\ MaxEntries \in Nat /\ Len(list) <= MaxEntries /\ DOMAIN list = 1..Len(list)
  BY CdpCaptureAssumption DEF PageTyped
<1>2. CASE Len(list) >= MaxEntries
  <2>1. records' = list /\ crowded' = crowded \union {r} /\ byRequestId' = byRequestId
    BY <1>2 DEF Record
  <2>2. EntriesSound(list, byRequestId, page', crowded \union {r})
    BY DEF EntriesSound
  <2> QED
    BY <1>1, <2>1, <2>2 DEF PageTyped
<1>3. CASE ~(Len(list) >= MaxEntries)
  <2> DEFINE e == Entry(r, page[r].hop + 1)
             longer == Append(list, e)
             n == Len(list) + 1
             last == [byRequestId EXCEPT ![r] = n]
  <2>1. records' = longer /\ byRequestId' = last /\ crowded' = crowded
    BY <1>3 DEF Record
  <2>2. /\ e \in Entries /\ e.request = r /\ e.hop = page'[r].hop /\ e.status = 0 /\ e.body = 0
        /\ e.redirected = FALSE
    <3> DEFINE h == page[r].hop + 1
    <3>1. h \in 1..MaxHops /\ 0 \in 0..MaxHops /\ 0 \in 0..MaxFramesPerSocket /\ h = page'[r].hop
      BY CdpCaptureAssumption
    <3> HIDE DEF h
    <3>2. /\ Entry(r, h) \in Entries /\ Entry(r, h).request = r /\ Entry(r, h).hop = h
          /\ Entry(r, h).status = 0 /\ Entry(r, h).body = 0 /\ Entry(r, h).redirected = FALSE
      BY <3>1 DEF Entries, Entry
    <3> QED
      BY <3>1, <3>2 DEF h
  <2> HIDE DEF e
  <2>3. /\ longer \in Seq(Entries) /\ Len(longer) = n /\ DOMAIN longer = 1..n /\ longer[n] = e
        /\ \A k \in DOMAIN list : longer[k] = list[k]
    BY <1>1, <2>2
  <2>4. /\ last \in [Requests -> 0..MaxEntries] /\ last[r] = n
        /\ \A q \in Requests \ {r} : last[q] = byRequestId[q]
    BY <1>1, <1>3 DEF PageTyped
  <2>5. n \in Nat /\ n # 0 /\ n \in 0..n /\ DOMAIN list \subseteq 1..n /\ n \notin DOMAIN list
        /\ (\A k \in 1..n : k = n \/ k \in DOMAIN list) /\ 0..Len(list) \subseteq 0..n
        /\ \A k \in 0..Len(list) : k # 0 => k \in DOMAIN list
    BY <1>1
  <2> HIDE DEF longer, last, n
  <2>6. ASSUME NEW q \in Requests
        PROVE  /\ last[q] \in 0..Len(longer) /\ (last[q] # 0 => longer[last[q]].request = q)
               /\ q \notin crowded /\ last[q] # 0 => longer[last[q]].hop = page'[q].hop
    <3>1. CASE q = r
      BY <2>2, <2>3, <2>4, <2>5, <3>1
    <3>2. CASE q # r
      <4>1. /\ byRequestId[q] \in 0..Len(list) /\ (byRequestId[q] # 0 => list[byRequestId[q]].request = q)
            /\ q \notin crowded /\ byRequestId[q] # 0 => list[byRequestId[q]].hop = page[q].hop
        BY DEF EntriesSound
      <4> QED
        BY <2>3, <2>4, <2>5, <3>2, <4>1
    <3> QED
      BY <3>1, <3>2
  <2>7. ASSUME NEW k \in DOMAIN longer, longer[k].request \notin crowded
        PROVE  /\ longer[k].redirected \/ last[longer[k].request] = k
               /\ longer[k].status \in {0, longer[k].hop}
               /\ longer[k].redirected \/ longer[k].body \in {0, longer[k].hop}
    <3>1. CASE k = n
      BY <2>2, <2>3, <2>4, <3>1
    <3>2. CASE k # n
      <4>1. k \in DOMAIN list /\ longer[k] = list[k]
        BY <2>3, <2>5, <3>2
      <4>2. /\ list[k].redirected \/ byRequestId[list[k].request] = k
            /\ list[k].status \in {0, list[k].hop}
            /\ list[k].redirected \/ list[k].body \in {0, list[k].hop}
        BY <2>7, <4>1 DEF EntriesSound
      <4>3. list[k].request \in Requests
        <5>1. list[k] \in Entries
          BY <4>1
        <5> QED
          BY <5>1, EntryFields
      <4>4. list[k].redirected \/ last[list[k].request] = k
        <5>1. CASE list[k].request = r
          BY <2>5, <4>1, <4>2, <5>1
        <5>2. CASE list[k].request # r
          BY <2>4, <4>2, <4>3, <5>2
        <5> QED
          BY <5>1, <5>2
      <4> QED
        BY <4>1, <4>2, <4>4
    <3> QED
      BY <3>1, <3>2
  <2>8. EntriesSound(longer, last, page', crowded)
    BY <2>6, <2>7 DEF EntriesSound
  <2> QED
    BY <1>1, <1>3, <2>1, <2>3, <2>4, <2>8 DEF PageTyped, n
<1> QED
  BY <1>2, <1>3

\* The entry of a request is changed, or there is none.
LEMMA ChangeKeeps ==
    ASSUME PageTyped, EntriesSound(records, byRequestId, page, crowded), NEW r \in Requests,
           NEW changed, Change(r, changed),
           byRequestId[r] # 0 => changed \in Entries /\ Alike(RecordOf(r), changed, crowded),
           \A q \in Requests : page'[q].hop = page[q].hop
    PROVE  /\ records' \in Seq(Entries) /\ Len(records') = Len(records)
           /\ UNCHANGED <<byRequestId, crowded>>
           /\ EntriesSound(records', byRequestId', page', crowded')
<1>1. UNCHANGED <<byRequestId, crowded>>
  BY DEF Change
<1>2. byRequestId[r] # 0 => byRequestId[r] \in DOMAIN records
  BY DEF EntriesSound, PageTyped
<1>3. /\ records' \in Seq(Entries) /\ Len(records') = Len(records)
      /\ EntriesSound(records', byRequestId, page, crowded)
  <2>1. CASE byRequestId[r] = 0
    BY <2>1 DEF Change, PageTyped
  <2>2. CASE byRequestId[r] # 0
    <3>1. records' = [records EXCEPT ![byRequestId[r]] = changed]
      BY <2>2 DEF Change
    <3>2. Alike(records[byRequestId[r]], changed, crowded) /\ changed \in Entries
      BY <2>2 DEF RecordOf
    <3>3. records \in Seq(Entries) /\ byRequestId[r] \in DOMAIN records
      BY <1>2, <2>2 DEF PageTyped
    <3> DEFINE k == byRequestId[r]
               other == With(records, k, changed)
    <3>4. /\ other \in Seq(Entries) /\ Len(other) = Len(records)
          /\ EntriesSound(other, byRequestId, page, crowded)
      <4> HIDE DEF k
      <4>1. k \in DOMAIN records /\ Alike(records[k], changed, crowded)
        BY <3>2, <3>3 DEF k
      <4> QED
        BY <3>2, <3>3, <4>1, ChangeSound
    <3> QED
      BY <3>1, <3>4 DEF With
  <2> QED
    BY <2>1, <2>2
<1>4. EntriesSound(records', byRequestId, page', crowded)
  BY <1>3 DEF EntriesSound
<1> QED
  BY <1>1, <1>3, <1>4

\* A request goes on: the hops, and nothing else of the page.
LEMMA HappensFacts ==
    ASSUME PageTyped, HopsSound, NEW r \in Requests, NEW n \in 1..MaxHops,
           NEW phase \in {"sent", "responded", "finished", "failed"}, Happens(r, n, phase),
           r \in Sockets /\ phase = "sent" => n = 1,
           \A q \in Requests \ {r} : byRequestId'[q] = byRequestId[q]
    PROVE  /\ page' \in [Requests -> [hop: 0..MaxHops, phase: {"none", "sent", "responded", "finished", "failed"}]]
           /\ page'[r].hop = n /\ (\A q \in Requests \ {r} : page'[q] = page[q]) /\ HopsSound'
           /\ UNCHANGED <<task, at, ended, position, loaded, target, sessionVars>>
<1> DEFINE there == [hop |-> n, phase |-> phase]
<1>1. /\ page' = [page EXCEPT ![r] = there]
      /\ UNCHANGED <<task, at, ended, position, loaded, target, sessionVars>>
  BY DEF Happens
<1>2. /\ there \in [hop: 0..MaxHops, phase: {"none", "sent", "responded", "finished", "failed"}]
      /\ there.hop = n /\ there.phase = phase
  BY CdpCaptureAssumption
<1> HIDE DEF there
<1>3. /\ page' \in [Requests -> [hop: 0..MaxHops, phase: {"none", "sent", "responded", "finished", "failed"}]]
      /\ page'[r] = there /\ \A q \in Requests \ {r} : page'[q] = page[q]
  BY <1>1, <1>2 DEF PageTyped
<1>4. HopsSound'
  <2> SUFFICES ASSUME NEW q \in Requests
               PROVE  /\ page'[q].phase = "none" => page'[q].hop = 0 /\ byRequestId'[q] = 0
                      /\ page'[q].phase # "none" => page'[q].hop # 0
                      /\ q \in Sockets /\ page'[q].phase = "sent" => page'[q].hop = 1
    BY DEF HopsSound
  <2>1. CASE q = r
    BY <1>2, <1>3, <2>1
  <2>2. CASE q # r
    BY <1>3, <2>2 DEF HopsSound
  <2> QED
    BY <2>1, <2>2
<1> QED
  BY <1>1, <1>2, <1>3, <1>4

\* An event that changes the entry of its request, in the hop the request is in.
LEMMA ChangingEvent ==
    ASSUME TaskIInv, NEW r \in Requests, NEW changed, Change(r, changed),
           NEW phase \in {"sent", "responded", "finished", "failed"}, Happens(r, page[r].hop, phase),
           page[r].phase # "none", r \in Sockets /\ phase = "sent" => page[r].hop = 1,
           page[r].hop \in 1..MaxHops,
           byRequestId[r] # 0 => changed \in Entries /\ Alike(RecordOf(r), changed, crowded)
    PROVE  TaskIInv' /\ SessionStep
<1>1. /\ PageTyped /\ HopsSound /\ PlaceTyped /\ EntriesSound(records, byRequestId, page, crowded)
  BY TaskParts
<1>2. /\ page' \in [Requests -> [hop: 0..MaxHops, phase: {"none", "sent", "responded", "finished", "failed"}]]
      /\ page'[r].hop = page[r].hop /\ (\A q \in Requests \ {r} : page'[q] = page[q]) /\ HopsSound'
      /\ UNCHANGED <<task, at, ended, position, loaded, target, sessionVars>>
  BY <1>1, HappensFacts DEF Change
<1>3. \A q \in Requests : page'[q].hop = page[q].hop
  BY <1>2
<1>4. /\ records' \in Seq(Entries) /\ Len(records') = Len(records)
      /\ UNCHANGED <<byRequestId, crowded>>
      /\ EntriesSound(records', byRequestId', page', crowded')
  BY <1>1, <1>3, ChangeKeeps
<1>5. PageTyped' /\ loaded' \in BOOLEAN /\ Len(records) <= Len(records')
  <2>1. Len(records) \in Nat
    BY <1>1 DEF PageTyped
  <2>2. Len(records) <= Len(records')
    BY <1>4, <2>1
  <2> QED
    BY <1>1, <1>2, <1>4, <2>2 DEF PageTyped, PlaceTyped
<1> QED
  BY <1>2, <1>4, <1>5, EventKeeps

\* Every event of the page keeps the invariant.
LEMMA EventStep ==
    ASSUME TaskIInv, PageEvent
    PROVE  TaskIInv' /\ SessionStep
<1>1. /\ PageTyped /\ HopsSound /\ PlaceTyped /\ EntriesSound(records, byRequestId, page, crowded)
      /\ MaxHops \in Nat /\ MaxHops # 0
  BY TaskParts, CdpCaptureAssumption
<1>2. ASSUME NEW r \in Requests
      PROVE  /\ page[r].hop \in 0..MaxHops
             /\ byRequestId[r] # 0 => byRequestId[r] \in DOMAIN records /\ RecordOf(r) \in Entries
             /\ byRequestId[r] # 0 /\ r \notin crowded => RecordOf(r).hop = page[r].hop
             /\ byRequestId[r] # 0 => RecordOf(r).request = r /\ Alike(RecordOf(r), RecordOf(r), crowded)
  <2>1. byRequestId[r] # 0 => byRequestId[r] \in DOMAIN records
    BY <1>1 DEF EntriesSound, PageTyped
  <2>2. byRequestId[r] # 0 => records[byRequestId[r]] \in Entries
    BY <1>1, <2>1 DEF PageTyped
  <2>3. byRequestId[r] # 0 => Alike(records[byRequestId[r]], records[byRequestId[r]], crowded)
    BY <1>1, <2>1, AlikeItself
  <2>4. page[r].hop \in 0..MaxHops
    BY <1>1 DEF PageTyped
  <2> QED
    BY <1>1, <2>1, <2>2, <2>3, <2>4 DEF EntriesSound, RecordOf
<1>3. ASSUME NEW r \in Requests, RequestWillBeSent(r)
      PROVE  TaskIInv' /\ SessionStep
  <2> DEFINE previous == byRequestId[r]
             e == [records[previous] EXCEPT !.status = page[r].hop, !.done = TRUE, !.redirected = TRUE]
             list == IF previous = 0 THEN records ELSE [records EXCEPT ![previous] = e]
  <2>1. /\ page[r].hop < MaxHops /\ r \notin Sockets /\ Record(list, r) /\ Happens(r, page[r].hop + 1, "sent")
    BY <1>3 DEF RequestWillBeSent
  <2>2. page[r].hop \in 0..MaxHops /\ page[r].hop + 1 \in 1..MaxHops
    BY <1>1, <1>2, <2>1
  <2>3. /\ page' \in [Requests -> [hop: 0..MaxHops, phase: {"none", "sent", "responded", "finished", "failed"}]]
        /\ page'[r].hop = page[r].hop + 1 /\ (\A q \in Requests \ {r} : page'[q] = page[q]) /\ HopsSound'
        /\ UNCHANGED <<task, at, ended, position, loaded, target, sessionVars>>
    <3>1. \A q \in Requests \ {r} : byRequestId'[q] = byRequestId[q]
      BY <1>1, <2>1 DEF Record, PageTyped
    <3> QED
      BY <1>1, <2>1, <2>2, <3>1, HappensFacts
  <2>4. /\ list \in Seq(Entries) /\ Len(list) = Len(records)
        /\ EntriesSound(list, byRequestId, page, crowded)
        /\ previous # 0 => list[previous].redirected
    <3>1. CASE previous = 0
      BY <1>1, <3>1 DEF PageTyped
    <3>2. CASE previous # 0
      <4>1. previous \in DOMAIN records /\ records[previous] \in Entries /\ records[previous].request = r
            /\ (r \notin crowded => records[previous].hop = page[r].hop)
        BY <1>2, <3>2 DEF RecordOf
      <4>2. /\ e \in Entries /\ e.request = r /\ e.hop = records[previous].hop
            /\ e.status = page[r].hop /\ e.redirected
        <5> DEFINE o == records[previous]
                   h == page[r].hop
        <5>1. /\ o \in Entries /\ h \in 0..MaxHops
              /\ e = AsRedirected(o, h)
          BY <1>2, <4>1 DEF AsRedirected
        <5> HIDE DEF o, e, h
        <5>2. e \in Entries /\ e.request = o.request /\ e.hop = o.hop /\ e.status = h /\ e.redirected
          BY <5>1, EntryRedirected
        <5> QED
          BY <4>1, <5>2 DEF o, h
      <4>3. Alike(records[previous], e, crowded)
        BY <4>1, <4>2 DEF Alike
      <4>4. list = With(records, previous, e) /\ records \in Seq(Entries)
        BY <1>1, <3>2 DEF PageTyped, With
      <4>5. previous \in DOMAIN records /\ e \in Entries /\ Alike(records[previous], e, crowded)
        BY <4>1, <4>2, <4>3
      <4> HIDE DEF e, previous, list
      <4>6. /\ list \in Seq(Entries) /\ Len(list) = Len(records)
            /\ EntriesSound(list, byRequestId, page, crowded)
        BY <1>1, <4>4, <4>5, ChangeSound
      <4>7. list[previous] = e
        BY <4>1, <4>4 DEF With
      <4> QED
        BY <4>2, <4>6, <4>7
    <3> QED
      BY <3>1, <3>2
  <2> HIDE DEF list
  <2>5. /\ records' \in Seq(Entries) /\ Len(records') <= MaxEntries /\ Len(records) <= Len(records')
        /\ byRequestId' \in [Requests -> 0..MaxEntries] /\ crowded' \subseteq Requests
        /\ EntriesSound(records', byRequestId', page', crowded')
    BY <1>1, <2>1, <2>2, <2>3, <2>4, RecordKeeps
  <2>6. PageTyped' /\ loaded' \in BOOLEAN
    BY <1>1, <2>3, <2>5 DEF PageTyped, PlaceTyped
  <2> QED
    BY <2>3, <2>5, <2>6, EventKeeps
<1>4. ASSUME NEW r \in Requests, WebSocketCreated(r)
      PROVE  TaskIInv' /\ SessionStep
  <2>1. /\ r \in Sockets /\ page[r].phase = "none" /\ Record(records, r) /\ Happens(r, 1, "sent")
    BY <1>4 DEF WebSocketCreated
  <2>2. page[r].hop = 0 /\ page[r].hop + 1 = 1 /\ 1 \in 1..MaxHops
    BY <1>1, <2>1 DEF HopsSound
  <2>3. /\ page' \in [Requests -> [hop: 0..MaxHops, phase: {"none", "sent", "responded", "finished", "failed"}]]
        /\ page'[r].hop = 1 /\ (\A q \in Requests \ {r} : page'[q] = page[q]) /\ HopsSound'
        /\ UNCHANGED <<task, at, ended, position, loaded, target, sessionVars>>
    <3>1. \A q \in Requests \ {r} : byRequestId'[q] = byRequestId[q]
      BY <1>1, <2>1 DEF Record, PageTyped
    <3> QED
      BY <1>1, <2>1, <2>2, <3>1, HappensFacts
  <2>4. byRequestId[r] = 0
    BY <2>1 , <1>1 DEF HopsSound
  <2>5. /\ records' \in Seq(Entries) /\ Len(records') <= MaxEntries /\ Len(records) <= Len(records')
        /\ byRequestId' \in [Requests -> 0..MaxEntries] /\ crowded' \subseteq Requests
        /\ EntriesSound(records', byRequestId', page', crowded')
    BY <1>1, <2>1, <2>2, <2>3, <2>4, RecordKeeps DEF PageTyped
  <2>6. PageTyped' /\ loaded' \in BOOLEAN
    BY <1>1, <2>3, <2>5 DEF PageTyped, PlaceTyped
  <2> QED
    BY <2>3, <2>5, <2>6, EventKeeps
<1>5. ASSUME NEW r \in Requests, ResponseReceived(r)
      PROVE  TaskIInv' /\ SessionStep
  <2> DEFINE mime == IF task.answers[page[r].hop] = "binary" THEN "binary" ELSE "text"
             changed == [RecordOf(r) EXCEPT !.status = page[r].hop, !.mime = mime]
  <2>1. /\ page[r].phase = "sent" /\ r \notin Sockets /\ Change(r, changed)
        /\ Happens(r, page[r].hop, "responded")
    BY <1>5 DEF ResponseReceived
  <2>2. ASSUME byRequestId[r] # 0 PROVE changed \in Entries /\ Alike(RecordOf(r), changed, crowded)
    <3>1. /\ changed \in Entries /\ changed.request = RecordOf(r).request /\ changed.hop = RecordOf(r).hop
          /\ changed.status = page[r].hop /\ changed.redirected = RecordOf(r).redirected
          /\ changed.body = RecordOf(r).body
      <4>1. mime \in {"text", "binary"}
        OBVIOUS
      <4> DEFINE o == RecordOf(r)
                 h == page[r].hop
      <4>2. o \in Entries /\ h \in 0..MaxHops /\ changed = AsAnswered(o, h, mime)
        BY <1>2, <2>2 DEF AsAnswered
      <4> HIDE DEF mime, o, changed, h
      <4>3. /\ changed \in Entries /\ changed.request = o.request /\ changed.hop = o.hop
            /\ changed.status = h /\ changed.redirected = o.redirected /\ changed.body = o.body
        BY <4>1, <4>2, EntryAnswered
      <4> QED
        BY <4>3 DEF o, h
    <3> HIDE DEF changed
    <3> QED
      BY <1>2, <2>2, <3>1 DEF Alike
  <2>3. page[r].hop \in 1..MaxHops
    BY <1>1, <1>2, <2>1 DEF HopsSound
  <2> HIDE DEF changed
  <2> QED
    BY <2>1, <2>2, <2>3, ChangingEvent
<1>6. ASSUME NEW r \in Requests, LoadingFinished(r)
      PROVE  TaskIInv' /\ SessionStep
  <2> DEFINE large == (task.answers[page[r].hop] = "big")
             changed == [RecordOf(r) EXCEPT !.done = TRUE, !.big = large]
  <2>1. /\ page[r].phase = "responded" /\ Change(r, changed)
        /\ Happens(r, page[r].hop, "finished")
    BY <1>6 DEF LoadingFinished
  <2>2. ASSUME byRequestId[r] # 0 PROVE changed \in Entries /\ Alike(RecordOf(r), changed, crowded)
    <3>1. /\ changed \in Entries /\ changed.request = RecordOf(r).request /\ changed.hop = RecordOf(r).hop
          /\ changed.status = RecordOf(r).status /\ changed.redirected = RecordOf(r).redirected
          /\ changed.body = RecordOf(r).body
      <4>1. large \in BOOLEAN
        OBVIOUS
      <4> DEFINE o == RecordOf(r)
      <4>2. o \in Entries /\ changed = AsFinished(o, large)
        BY <1>2, <2>2 DEF AsFinished
      <4> HIDE DEF large, o, changed
      <4>3. page[r].hop \in 0..MaxHops
        BY <1>2
      <4> QED
        BY <4>1, <4>2, <4>3, EntryFinished DEF o
    <3> HIDE DEF changed
    <3> QED
      BY <1>2, <2>2, <3>1 DEF Alike
  <2>3. page[r].hop \in 1..MaxHops
    BY <1>1, <1>2, <2>1 DEF HopsSound
  <2> HIDE DEF changed
  <2> QED
    BY <2>1, <2>2, <2>3, ChangingEvent
<1>7. ASSUME NEW r \in Requests, LoadingFailed(r)
      PROVE  TaskIInv' /\ SessionStep
  <2> DEFINE changed == [RecordOf(r) EXCEPT !.failed = TRUE, !.done = TRUE]
  <2>1. /\ page[r].phase \in {"sent", "responded"} /\ Change(r, changed)
        /\ Happens(r, page[r].hop, "failed")
    BY <1>7 DEF LoadingFailed
  <2>2. ASSUME byRequestId[r] # 0 PROVE changed \in Entries /\ Alike(RecordOf(r), changed, crowded)
    <3>1. /\ changed \in Entries /\ changed.request = RecordOf(r).request /\ changed.hop = RecordOf(r).hop
          /\ changed.status = RecordOf(r).status /\ changed.redirected = RecordOf(r).redirected
          /\ changed.body = RecordOf(r).body
      <4> DEFINE o == RecordOf(r)
      <4>1. o \in Entries /\ changed = AsFailed(o)
        BY <1>2, <2>2 DEF AsFailed
      <4> HIDE DEF o, changed
      <4> QED
        BY <4>1, EntryFailed DEF o
    <3> HIDE DEF changed
    <3> QED
      BY <1>2, <2>2, <3>1 DEF Alike
  <2>3. page[r].hop \in 1..MaxHops
    BY <1>1, <1>2, <2>1 DEF HopsSound
  <2> HIDE DEF changed
  <2> QED
    BY <2>1, <2>2, <2>3, ChangingEvent
<1>8. ASSUME NEW r \in Requests, Frame(r)
      PROVE  TaskIInv' /\ SessionStep
  <2> DEFINE changed == IF RecordOf(r).frames >= MaxFramesPerSocket
                        THEN [RecordOf(r) EXCEPT !.truncated = TRUE]
                        ELSE [RecordOf(r) EXCEPT !.frames = @ + 1]
  <2>1. /\ page[r].phase = "sent" /\ r \in Sockets /\ Change(r, changed) /\ Happens(r, 1, "sent")
    BY <1>8 DEF Frame
  <2>2. ASSUME byRequestId[r] # 0 PROVE changed \in Entries /\ Alike(RecordOf(r), changed, crowded)
    <3>1. RecordOf(r).frames \in 0..MaxFramesPerSocket /\ MaxFramesPerSocket \in Nat
      BY <1>2, <2>2, EntryFields, CdpCaptureAssumption
    <3>2. /\ changed \in Entries /\ changed.request = RecordOf(r).request /\ changed.hop = RecordOf(r).hop
          /\ changed.status = RecordOf(r).status /\ changed.redirected = RecordOf(r).redirected
          /\ changed.body = RecordOf(r).body
      <4> DEFINE o == RecordOf(r)
      <4>1. /\ o \in Entries /\ o.frames \in 0..MaxFramesPerSocket
            /\ changed = IF o.frames >= MaxFramesPerSocket THEN AsTruncated(o) ELSE AsFramed(o)
        BY <1>2, <2>2, <3>1 DEF AsTruncated, AsFramed
      <4> HIDE DEF o, changed
      <4>2. CASE o.frames >= MaxFramesPerSocket
        BY <4>1, <4>2, EntryTruncated DEF o
      <4>3. CASE ~(o.frames >= MaxFramesPerSocket)
        <5>1. o.frames < MaxFramesPerSocket
          BY <3>1, <4>1, <4>3
        <5> QED
          BY <4>1, <4>3, <5>1, EntryFramed DEF o
      <4> QED
        BY <4>2, <4>3
    <3> HIDE DEF changed
    <3> QED
      BY <1>2, <2>2, <3>2 DEF Alike
  <2>3. page[r].hop = 1 /\ 1 \in 1..MaxHops
    BY <1>1, <1>2, <2>1 DEF HopsSound
  <2> HIDE DEF changed
  <2> QED
    BY <2>1, <2>2, <2>3, ChangingEvent
<1>9. ASSUME LoadEvent
      PROVE  TaskIInv' /\ SessionStep
  <2>1. /\ loaded' = TRUE
        /\ UNCHANGED <<task, at, ended, page, records, byRequestId, position, target, crowded, sessionVars>>
    BY <1>9 DEF LoadEvent
  <2>2. /\ PageTyped' /\ HopsSound' /\ EntriesSound(records', byRequestId', page', crowded')
        /\ Len(records) <= Len(records')
    BY <1>1, <2>1 DEF PageTyped, HopsSound, EntriesSound
  <2> QED
    BY <2>1, <2>2, EventKeeps
<1> QED
  BY <1>3, <1>4, <1>5, <1>6, <1>7, <1>8, <1>9 DEF PageEvent

\* The task is at another place, while the page stays as it is but for what entries tell.
LEMMA PageStays ==
    ASSUME TaskIInv, UNCHANGED <<page, byRequestId, crowded>>,
           records' \in Seq(Entries), Len(records') = Len(records),
           EntriesSound(records', byRequestId, page, crowded),
           SessionTypeOK', PlaceTyped', TaskPlace'
    PROVE  TaskIInv'
<1>1. PageTyped /\ HopsSound
  BY TaskParts
<1>2. PageTyped' /\ HopsSound' /\ EntriesSound(records', byRequestId', page', crowded')
  BY <1>1 DEF PageTyped, HopsSound
<1> QED
  BY <1>2 DEF TaskIInv, TaskTypeOK, PageTyped, PlaceTyped, EntriesSound

\* The next command is asked for.
LEMMA TaskAsks ==
    ASSUME TaskIInv, Ask, mine # "waiting", UNCHANGED connection
    PROVE  SessionTypeOK' /\ SessionStep
<1>1. SessionTypeOK /\ Me \in Callers /\ MySession \in Sessions
  BY TaskParts, CdpCaptureAssumption
<1>2. command[Me].state # "waiting" /\ Send(Me, MySession)
  BY DEF mine, Ask
<1> QED
  BY <1>1, <1>2, SendAsks DEF SessionStep

\* The task goes on with another command.
LEMMA GoesOnAsking ==
    ASSUME TaskIInv, Ask, mine # "waiting", UNCHANGED <<task, position, records, connection, pageVars>>,
           at \notin {"connecting", "abandoned"}, at' \in Asking \ {"bodies"},
           ended' \in {"", "ok", "failed"}, target' \in {"none", "open", "closing"},
           at' = "cookies" => task.task = "cookies", at' = "closing" => target' = "closing"
    PROVE  TaskIInv' /\ SessionStep
<1>1. PageTyped /\ PlaceTyped /\ TaskPlace /\ EntriesSound(records, byRequestId, page, crowded)
  BY TaskParts
<1>2. SessionTypeOK' /\ SessionStep
  BY TaskAsks
<1>3. PlaceTyped' /\ UNCHANGED <<page, byRequestId, crowded>>
  BY <1>1 DEF PlaceTyped, pageVars, Asking, Steps
<1>4. TaskPlace'
  BY <1>1 DEF TaskPlace, TaskCleansUp, Asking
<1> QED
  BY <1>1, <1>2, <1>3, <1>4, PageStays DEF PageTyped

\* It goes on without one.
LEMMA GoesOnQuietly ==
    ASSUME TaskIInv, mine # "waiting", UNCHANGED <<task, position, records, target, sessionVars, pageVars>>,
           at \notin {"connecting", "abandoned"},
           at' \in Steps \ {"connecting", "bodies", "cookies", "closing", "done"},
           ended' \in {"", "ok", "failed"}
    PROVE  TaskIInv' /\ SessionStep
<1>1. /\ SessionTypeOK /\ PageTyped /\ PlaceTyped /\ TaskPlace
      /\ EntriesSound(records, byRequestId, page, crowded)
  BY TaskParts
<1>2. SessionTypeOK' /\ SessionStep /\ mine' = mine
  BY <1>1 DEF SessionTypeOK, sessionVars, SessionStep, mine
<1>3. PlaceTyped' /\ UNCHANGED <<page, byRequestId, crowded>>
  BY <1>1 DEF PlaceTyped, pageVars
<1>4. TaskPlace'
  BY <1>1, <1>2 DEF TaskPlace, TaskCleansUp, sessionVars
<1> QED
  BY <1>1, <1>2, <1>3, <1>4, PageStays DEF PageTyped

\* It closes its session, and is done.
LEMMA EndsClosed ==
    ASSUME TaskIInv, mine # "waiting", CloseSession(MySession), UNCHANGED <<task, position, records, target, pageVars>>,
           at \notin {"connecting", "abandoned"}, at' = "done", ended' \in {"", "ok", "failed"},
           task.task = "cookies" \/ target = "closing"
    PROVE  TaskIInv' /\ SessionStep
<1>1. /\ SessionTypeOK /\ PageTyped /\ PlaceTyped /\ TaskPlace
      /\ EntriesSound(records, byRequestId, page, crowded) /\ Me \in Callers /\ MySession \in Sessions
  BY TaskParts, CdpCaptureAssumption
<1>2. /\ SessionTypeOK' /\ (Commands!Next \/ UNCHANGED sessionVars)
      /\ connection' = [connection EXCEPT ![MySession] = IF @ = "open" THEN "closed" ELSE @]
      /\ \A c \in Callers : \/ command'[c] = command[c]
                            \/ command[c].state = "waiting" /\ command'[c].state = "failed"
  BY <1>1, CloseEnds
<1>3. connection[MySession] \in {"open", "closed"}
  BY <1>1 DEF TaskPlace, SessionTypeOK
<1>4. connection'[MySession] = "closed"
  BY <1>1, <1>2, <1>3 DEF SessionTypeOK
<1>5. mine' # "waiting"
  BY <1>1, <1>2 DEF mine
<1>6. PlaceTyped' /\ UNCHANGED <<page, byRequestId, crowded>>
  BY <1>1 DEF PlaceTyped, pageVars, Steps
<1>7. TaskPlace'
  BY <1>4, <1>5, <1>6 DEF TaskPlace, TaskCleansUp
<1> QED
  BY <1>1, <1>2, <1>6, <1>7, PageStays DEF PageTyped, SessionStep

\* fetchBodies passes over entries that are too large, which are truncated, and asks for the
\* body of the next, if there is one.
LEMMA AskBodyKeeps ==
    ASSUME TaskIInv, NEW list \in Seq(Entries), Len(list) = Len(records),
           EntriesSound(list, byRequestId, page, crowded), NEW from \in Nat, AskBody(list, from),
           mine # "waiting", at \in {"idle", "bodies"}, UNCHANGED <<task, ended, target, connection, pageVars>>
    PROVE  TaskIInv' /\ SessionStep
<1> DEFINE asked == {k \in DOMAIN list : k >= from /\ Wanted(list[k]) /\ ~list[k].big}
           next == IF asked = {} THEN Len(list) + 1 ELSE CHOOSE k \in asked : \A j \in asked : k <= j
<1>1. /\ SessionTypeOK /\ PageTyped /\ PlaceTyped /\ TaskPlace
      /\ MaxEntries \in Nat /\ Len(list) \in Nat /\ Len(list) <= MaxEntries /\ DOMAIN list = 1..Len(list)
  BY TaskParts, CdpCaptureAssumption DEF PageTyped
<1>2. /\ records' = [k \in DOMAIN list |->
                       IF k >= from /\ k < next /\ Wanted(list[k]) THEN [list[k] EXCEPT !.truncated = TRUE]
                       ELSE list[k]]
      /\ position' = next /\ at' = (IF asked = {} THEN "meta" ELSE "bodies") /\ Ask
  BY DEF AskBody
<1>3. next \in 1..(Len(list) + 1) /\ (asked # {} => next \in DOMAIN list)
  <2>1. CASE asked = {}
    BY <1>1, <2>1
  <2>2. CASE asked # {}
    <3>1. asked \in SUBSET Nat /\ asked \subseteq DOMAIN list
      BY <1>1
    <3>2. \E k \in asked : \A j \in asked : k <= j
      <4> HIDE DEF asked
      <4> QED
        BY <2>2, <3>1, LeastOf
    <3>3. next \in asked
      <4> HIDE DEF asked
      <4> QED
        BY <2>2, <3>2
    <3>4. next \in DOMAIN list
      <4> HIDE DEF asked, next
      <4> QED
        BY <3>1, <3>3
    <3> HIDE DEF asked, next
    <3> QED
      BY <1>1, <3>4
  <2> QED
    BY <2>1, <2>2
<1> HIDE DEF next
<1>4. ASSUME NEW k \in DOMAIN list
      PROVE  records'[k] \in Entries /\ Alike(list[k], records'[k], crowded)
  <2> DEFINE e == list[k]
  <2>1. e \in Entries /\ Alike(e, e, crowded)
    BY <1>1, AlikeItself
  <2>2. records'[k] = AsTruncated(e) \/ records'[k] = e
    BY <1>2 DEF AsTruncated
  <2> HIDE DEF e
  <2>3. /\ AsTruncated(e) \in Entries /\ AsTruncated(e).request = e.request /\ AsTruncated(e).hop = e.hop
        /\ AsTruncated(e).status = e.status /\ AsTruncated(e).redirected = e.redirected
        /\ AsTruncated(e).body = e.body
    BY <2>1, EntryTruncated
  <2>4. Alike(e, AsTruncated(e), crowded)
    BY <2>1, <2>3 DEF Alike
  <2> QED
    BY <2>1, <2>2, <2>3, <2>4 DEF e
<1>5. records' \in Seq(Entries) /\ Len(records') = Len(list)
  <2>1. DOMAIN records' = 1..Len(list) /\ records' = [k \in 1..Len(list) |-> records'[k]]
    BY <1>1, <1>2
  <2>2. \A k \in 1..Len(list) : records'[k] \in Entries
    BY <1>1, <1>4
  <2>3. records' \in [1..Len(list) -> Entries]
    BY <2>1, <2>2
  <2> QED
    BY <1>1, <2>3
<1>6. EntriesSound(records', byRequestId, page, crowded)
  BY <1>4, <1>5, AlikeSound
<1>7. SessionTypeOK' /\ SessionStep
  BY <1>2, TaskAsks
<1>8. PlaceTyped'
  <2>1. position' \in 0..(MaxEntries + 1)
    BY <1>1, <1>2, <1>3
  <2> QED
    BY <1>1, <1>2, <2>1 DEF PlaceTyped, Steps, pageVars
<1>9. TaskPlace'
  <2>1. at' \in {"meta", "bodies"} /\ (at' = "bodies" => position' \in DOMAIN records')
    <3>1. DOMAIN records' = DOMAIN list
      BY <1>2
    <3> HIDE DEF asked
    <3> QED
      BY <1>2, <1>3, <3>1
  <2>2. connection[MySession] # "unmade" /\ connection' = connection
    BY <1>1 DEF TaskPlace
  <2> QED
    BY <2>1, <2>2 DEF TaskPlace, TaskCleansUp, Asking
<1> QED
  BY <1>5, <1>6, <1>7, <1>8, <1>9, PageStays DEF pageVars

\* Every step of a task keeps its invariant, and is a step of Outcome or none.
LEMMA TaskGoes ==
    ASSUME TaskIInv, TaskNext
    PROVE  TaskIInv' /\ SessionStep
<1>1. /\ SessionTypeOK /\ PageTyped /\ PlaceTyped /\ TaskPlace
      /\ EntriesSound(records, byRequestId, page, crowded)
      /\ Me \in Callers /\ MySession \in Sessions /\ MaxHops \in Nat
  BY TaskParts, CdpCaptureAssumption
<1>2. mine = "waiting" => at \in Asking
  BY <1>1 DEF TaskPlace
<1>3. task.task \in {"capture", "render", "cookies"} /\ ended \in {"", "ok", "failed"}
      /\ target \in {"none", "open", "closing"}
  <2>1. \A t \in Tasks : t.task \in {"capture", "render", "cookies"}
    BY CdpCaptureAssumption
  <2> QED
    BY <1>1, <2>1 DEF PlaceTyped
<1>4. CASE Connect
  <2>1. /\ at = "connecting" /\ mine # "waiting" /\ connection[MySession] = "unmade"
        /\ UNCHANGED <<task, position, records, target, command, pageVars>>
    BY <1>1, <1>2, <1>4 DEF Connect, TaskPlace, Asking
  <2>2. UNCHANGED <<page, byRequestId, crowded>> /\ mine' = mine
    BY <2>1 DEF pageVars, mine
  <2>3. CASE Connected(MySession) /\ at' = "creating" /\ UNCHANGED ended
    <3>1. SessionTypeOK' /\ Commands!Next /\ connection' = [connection EXCEPT ![MySession] = "open"]
      BY <1>1, <2>1, <2>3, ConnectedOpens
    <3>2. PlaceTyped'
      BY <1>1, <2>1, <2>3 DEF PlaceTyped, pageVars, Steps
    <3>3. connection'[MySession] = "open"
      BY <1>1, <3>1 DEF SessionTypeOK
    <3>4. TaskPlace'
      BY <2>1, <2>2, <2>3, <3>3 DEF TaskPlace, TaskCleansUp, Asking
    <3> QED
      BY <1>1, <2>1, <2>2, <3>1, <3>2, <3>4, PageStays DEF PageTyped, SessionStep
  <2>4. CASE at' = "abandoned" /\ ended' = "failed" /\ UNCHANGED connection
    <3>1. SessionTypeOK' /\ PlaceTyped' /\ SessionStep
      BY <1>1, <2>1, <2>4 DEF PlaceTyped, pageVars, Steps, SessionTypeOK, SessionStep, sessionVars
    <3>2. TaskPlace'
      BY <2>1, <2>2, <2>4 DEF TaskPlace, TaskCleansUp, Asking
    <3> QED
      BY <1>1, <2>1, <2>2, <3>1, <3>2, PageStays DEF PageTyped
  <2> QED
    BY <1>4, <2>3, <2>4 DEF Connect
<1>5. CASE Begin
  BY <1>1, <1>3, <1>5, GoesOnAsking DEF Begin, Asking, PlaceTyped
<1>6. CASE OpenFails
  BY <1>6, GoesOnQuietly DEF OpenFails, Steps
<1>7. CASE GoOn
  <2>1. /\ at \in {"creating", "attaching", "enabling", "preparing"} /\ mine = "ok"
        /\ at' \in {"attaching", "enabling", "preparing", "navigating"}
    BY <1>7 DEF GoOn, Following
  <2> QED
    BY <1>3, <1>7, <2>1, GoesOnAsking DEF GoOn, Asking
<1>8. CASE Navigated
  BY <1>3, <1>8, GoesOnQuietly DEF Navigated, Steps
<1>9. CASE Loaded
  <2>1. at = "loading" /\ mine # "waiting" /\ UNCHANGED <<task, ended, position, records, target, connection, pageVars>>
    BY <1>2, <1>9 DEF Loaded, Asking
  <2>2. CASE at' = "polling" /\ Ask
    BY <1>3, <2>1, <2>2, GoesOnAsking DEF Asking
  <2>3. CASE at' = "idle" /\ UNCHANGED command
    BY <1>3, <2>1, <2>3, GoesOnQuietly DEF Steps, sessionVars
  <2> QED
    BY <1>9, <2>2, <2>3 DEF Loaded
<1>10. CASE SelectorPolled
  BY <1>3, <1>10, GoesOnQuietly DEF SelectorPolled, Steps
<1>11. CASE SelectorAgain \/ SelectorMissing
  <2>1. at = "pausing" /\ mine # "waiting"
    BY <1>2, <1>11 DEF SelectorAgain, SelectorMissing, Asking
  <2> QED
    BY <1>3, <1>11, <2>1, GoesOnAsking DEF SelectorAgain, SelectorMissing, Finally, Asking
<1>12. CASE IdleOver
  <2>1. at = "idle" /\ mine # "waiting" /\ UNCHANGED <<task, ended, target, connection, pageVars>>
    BY <1>2, <1>12 DEF IdleOver, Asking
  <2>2. CASE AskBody(records, 1)
    BY <1>1, <2>1, <2>2, AskBodyKeeps DEF PageTyped
  <2>3. CASE at' \in {"meta", "rendering"} /\ Ask /\ UNCHANGED <<records, position>>
    BY <1>3, <2>1, <2>3, GoesOnAsking DEF Asking
  <2> QED
    BY <1>12, <2>2, <2>3 DEF IdleOver
<1>13. CASE BodyAnswered
  <2> DEFINE o == records[position]
             r == o.request
             n == IF mine = "ok" /\ page[r].phase = "finished" THEN page[r].hop ELSE o.body
             b == (o.truncated \/ mine = "failed")
             e == AsBodied(o, n, b)
  <2>1. at = "bodies" /\ mine # "waiting" /\ position \in DOMAIN records /\ position + 1 \in Nat
    <3>1. at = "bodies" /\ mine # "waiting" /\ position \in DOMAIN records /\ records \in Seq(Entries)
      BY <1>1, <1>13 DEF BodyAnswered, TaskPlace, PageTyped
    <3> QED
      BY <3>1
  <2>2. AskBody(With(records, position, e), position + 1) /\ UNCHANGED <<task, ended, target, connection, pageVars>>
    BY <1>13 DEF BodyAnswered, With, AsBodied
  <2>3. /\ o \in Entries /\ r \in Requests /\ page[r].hop \in 0..MaxHops /\ o.body \in 0..MaxHops
        /\ o.truncated \in BOOLEAN
    <3>1. o \in Entries
      BY <1>1, <2>1 DEF PageTyped
    <3> HIDE DEF o
    <3>2. r \in Requests /\ o.body \in 0..MaxHops /\ o.truncated \in BOOLEAN
      BY <3>1, EntryFields
    <3> HIDE DEF r
    <3>3. page[r].hop \in 0..MaxHops
      BY <1>1, <3>2 DEF PageTyped
    <3> QED
      BY <3>1, <3>2, <3>3
  <2>4. n \in 0..MaxHops /\ b \in BOOLEAN
    BY <2>3
  <2>5. /\ e \in Entries /\ e.request = o.request /\ e.hop = o.hop
        /\ e.status = o.status /\ e.redirected = o.redirected /\ e.body = n
    <3> HIDE DEF o, n, b
    <3> QED
      BY <2>3, <2>4, EntryBodied
  <2>6. Alike(o, e, crowded)
    <3>1. Alike(o, o, crowded)
      BY <1>1, <2>1, AlikeItself
    <3>2. r \notin crowded => o.redirected \/ page[r].hop = o.hop
      <4>1. r \notin crowded => o.redirected \/ byRequestId[r] = position
        BY <1>1, <2>1 DEF EntriesSound
      <4>2. r \notin crowded /\ byRequestId[r] = position => page[r].hop = o.hop
        <5>1. position # 0
          BY <1>1, <2>1 DEF PageTyped
        <5> QED
          BY <1>1, <2>3, <5>1 DEF EntriesSound
      <4> QED
        BY <4>1, <4>2
    <3>3. n = page[r].hop \/ n = o.body
      OBVIOUS
    <3> HIDE DEF o, n, e
    <3> QED
      BY <2>5, <3>1, <3>2, <3>3 DEF Alike
  <2>7. /\ With(records, position, e) \in Seq(Entries) /\ Len(With(records, position, e)) = Len(records)
        /\ EntriesSound(With(records, position, e), byRequestId, page, crowded)
    <3>1. records \in Seq(Entries) /\ Alike(records[position], e, crowded)
      BY <1>1, <2>6 DEF PageTyped
    <3> HIDE DEF e
    <3> QED
      BY <1>1, <2>1, <2>5, <3>1, ChangeSound
  <2> HIDE DEF e
  <2> QED
    BY <2>1, <2>2, <2>7, AskBodyKeeps
<1>14. CASE Rendered
  BY <1>3, <1>14, GoesOnAsking DEF Rendered, Finally, Asking
<1>15. CASE MetaAnswered
  BY <1>15, GoesOnAsking DEF MetaAnswered, Finally, Asking
<1>16. CASE CommandRejected
  BY <1>16, GoesOnAsking DEF CommandRejected, Finally, Asking
<1>17. CASE CookiesAnswered
  BY <1>1, <1>17, EndsClosed DEF CookiesAnswered, TaskPlace
<1>18. CASE TargetClosed
  BY <1>1, <1>3, <1>18, EndsClosed DEF TargetClosed, TaskPlace
<1>19. CASE PageEvent
  BY <1>19, EventStep
<1>20. CASE BrowserSide
  <2>1. UNCHANGED taskVars
    BY <1>20 DEF BrowserSide
  <2>2. UNCHANGED <<task, at, ended, page, records, byRequestId, position, loaded, target, crowded>>
    BY <2>1 DEF taskVars
  <2>3. PlaceTyped'
    BY <1>1, <2>2 DEF PlaceTyped
  <2>4. CASE Dispatch(Me) \/ CommandTimesOut(Me)
    <3>1. SessionTypeOK' /\ Commands!Next /\ UNCHANGED connection /\ mine' # "waiting"
      BY <1>1, <2>4, ReplySettles DEF mine
    <3>2. TaskPlace'
      BY <1>1, <2>2, <3>1 DEF TaskPlace, TaskCleansUp
    <3> QED
      BY <1>1, <2>2, <2>3, <3>1, <3>2, PageStays DEF PageTyped, SessionStep
  <2>5. CASE ClientCloses(MySession)
    <3>1. connection[MySession] = "open" /\ Abort(MySession)
      BY <2>5 DEF ClientCloses
    <3>2. /\ SessionTypeOK' /\ Commands!Next /\ connection' = [connection EXCEPT ![MySession] = "closed"]
          /\ \A c \in Callers : \/ command'[c] = command[c]
                                \/ command[c].state = "waiting" /\ command'[c].state = "failed"
      BY <1>1, <3>1, AbortCloses
    <3>3. connection'[MySession] = "closed" /\ (mine' = "waiting" => mine = "waiting")
      BY <1>1, <3>2 DEF SessionTypeOK, mine
    <3>4. TaskPlace'
      BY <1>1, <2>2, <3>1, <3>3 DEF TaskPlace, TaskCleansUp
    <3> QED
      BY <1>1, <2>2, <2>3, <3>2, <3>4, PageStays DEF PageTyped, SessionStep
  <2> QED
    BY <1>20, <2>4, <2>5 DEF BrowserSide
<1> QED
  BY <1>4, <1>5, <1>6, <1>7, <1>8, <1>9, <1>10, <1>11, <1>12, <1>13, <1>14, <1>15, <1>16, <1>17, <1>18,
     <1>19, <1>20 DEF TaskNext, TaskStep

\* The types hold at first.
LEMMA PageBegins ==
    ASSUME TaskInit
    PROVE  PageTyped /\ PlaceTyped
<1>1. 0 \in 0..MaxHops /\ 0 \in 0..MaxEntries /\ 0 \in 0..(MaxEntries + 1) /\ 0 <= MaxEntries
  BY CdpCaptureAssumption
<1>2. page \in [Requests -> [hop: 0..MaxHops, phase: {"none", "sent", "responded", "finished", "failed"}]]
  <2> DEFINE fresh == [hop |-> 0, phase |-> "none"]
             Kinds == [hop: 0..MaxHops, phase: {"none", "sent", "responded", "finished", "failed"}]
  <2>1. fresh \in Kinds
    BY <1>1
  <2>2. page = [r \in Requests |-> fresh]
    BY DEF TaskInit
  <2> HIDE DEF fresh, Kinds
  <2>3. page \in [Requests -> Kinds]
    BY <2>1, <2>2
  <2> QED
    BY <2>3 DEF Kinds
<1>3. records = <<>> /\ records \in Seq(Entries) /\ Len(records) = 0
  <2>1. records = <<>>
    BY DEF TaskInit
  <2>2. <<>> \in Seq(Entries) /\ Len(<<>>) = 0
    OBVIOUS
  <2> QED
    BY <2>1, <2>2
<1>4. byRequestId \in [Requests -> 0..MaxEntries] /\ crowded \subseteq Requests
  BY <1>1 DEF TaskInit
<1>5. PlaceTyped
  BY <1>1 DEF TaskInit, PlaceTyped, Steps
<1>6. Len(records) <= MaxEntries
  BY <1>1, <1>3
<1> QED
  BY <1>2, <1>3, <1>4, <1>5, <1>6 DEF PageTyped

\* It holds at first.
LEMMA TaskBegins ==
    ASSUME SessionInit, TaskInit
    PROVE  TaskIInv
<1>1. /\ SessionTypeOK /\ MaxHops \in Nat /\ MaxEntries \in Nat /\ Me \in Callers /\ MySession \in Sessions
  <2>1. SessionTypeOK
    BY DEF SessionInit, SessionTypeOK, States
  <2> QED
    BY <2>1, CdpCaptureAssumption
<1>2. PageTyped /\ PlaceTyped
  BY PageBegins
<1>3. /\ records = <<>> /\ DOMAIN records = {} /\ Len(records) = 0
      /\ \A r \in Requests : byRequestId[r] = 0 /\ page[r].phase = "none" /\ page[r].hop = 0
  <2>1. records = <<>> /\ DOMAIN records = {} /\ Len(records) = 0
    <3>1. records = <<>>
      BY DEF TaskInit
    <3>2. DOMAIN <<>> = {} /\ Len(<<>>) = 0
      OBVIOUS
    <3> QED
      BY <3>1, <3>2
  <2>2. /\ page = [r \in Requests |-> [hop |-> 0, phase |-> "none"]]
        /\ byRequestId = [r \in Requests |-> 0]
    BY DEF TaskInit
  <2> QED
    BY <2>1, <2>2
<1>4. EntriesSound(records, byRequestId, page, crowded)
  BY <1>3 DEF EntriesSound
<1>5. HopsSound
  BY <1>3 DEF HopsSound
<1>6. TaskPlace
  <2>1. connection[MySession] = "unmade" /\ mine = "none" /\ at = "connecting"
    BY <1>1 DEF SessionInit, TaskInit, mine
  <2> QED
    BY <2>1 DEF TaskPlace, TaskCleansUp
<1> QED
  BY <1>1, <1>2, <1>4, <1>5, <1>6, TaskParts

\* What it says of the properties.
LEMMA TaskTold ==
    ASSUME TaskIInv
    PROVE  TaskTypeOK /\ SessionTypeOK /\ EntryBearsItsOwnAnswer /\ TaskCleansUp
BY DEF TaskIInv, TaskPlace, EntriesSound, EntryBearsItsOwnAnswer

-----------------------------------------------------------------------------
(* The calls on a browser. *)

\* The session that a call of open() is making.
Making(c) == IF call[c].at \in {"greeting", "preparing"} THEN {call[c].session} ELSE {}

\* An open session is in use, being made, or lost.
SessionsKnown ==
    \A s \in Sessions : connection[s] = "open" =>
       s \in lost \/ (\E c \in Callers : s \in Making(c)) \/ (s = lastSession /\ ~browserClosed)

\* What a call that is at a place has.
CallSound(k, state) ==
    /\ k.at \in {"greeting", "preparing", "bound"} => k.session \in Sessions
    /\ state = "waiting" =>
          k.at \in {"preparing", "asking", "navigating"} \/ (k.at = "pressing" /\ k.session = None)

BrowserIInv ==
    /\ SessionTypeOK /\ BrowserTypeOK /\ SessionsKnown
    /\ \A c \in Callers : CallSound(call[c], command[c].state)

CallStates == [op: Ops \union {None}, at: Places, session: Sessions \union {None}]

SharedTyped ==
    /\ plan \in Plans
    /\ opened \in Sessions \union {None} /\ lastSession \in Sessions \union {None}
    /\ browserClosed \in BOOLEAN
    /\ ops \in 0..plan.most
    /\ timers \in [Callers -> Sessions \union {None}]
    /\ arrived \subseteq Callers /\ lost \subseteq Sessions

\* The types of a browser in two parts.
LEMMA BrowserTypes ==
    BrowserTypeOK <=> SharedTyped /\ call \in [Callers -> CallStates]
BY DEF BrowserTypeOK, SharedTyped, CallStates

\* What a plan is.
LEMMA PlanFacts ==
    ASSUME plan \in Plans
    PROVE  plan.calls \subseteq Ops /\ plan.most \in Nat
<1>1. plan \in [calls: SUBSET Ops, most: Nat]
  BY BrowserAssumption
<1> QED
  BY <1>1

\* A call goes on to another place.
LEMMA AtFacts ==
    ASSUME call \in [Callers -> CallStates], NEW c \in Callers, NEW place \in Places, At(c, place)
    PROVE  /\ call' \in [Callers -> CallStates] /\ \A d \in Callers \ {c} : call'[d] = call[d]
           /\ call'[c].at = place /\ call'[c].op = call[c].op /\ call'[c].session = call[c].session
<1> DEFINE k == call[c]
           moved == [op |-> k.op, at |-> place, session |-> k.session]
<1>1. k \in CallStates
  OBVIOUS
<1>2. [k EXCEPT !.at = place] = moved /\ moved \in CallStates
  BY <1>1 DEF CallStates
<1>3. call' = [call EXCEPT ![c] = [k EXCEPT !.at = place]]
  BY DEF At
<1>4. call' = [call EXCEPT ![c] = moved]
  <2> HIDE DEF k, moved
  <2> QED
    BY <1>2, <1>3
<1>5. call' \in [Callers -> CallStates] /\ call'[c] = moved /\ \A d \in Callers \ {c} : call'[d] = call[d]
  <2> HIDE DEF moved
  <2> QED
    BY <1>2, <1>4
<1> QED
  BY <1>5

\* The same with a session.
LEMMA OnSessionFacts ==
    ASSUME call \in [Callers -> CallStates], NEW c \in Callers, NEW place \in Places,
           NEW s \in Sessions \union {None}, OnSession(c, place, s)
    PROVE  /\ call' \in [Callers -> CallStates] /\ \A d \in Callers \ {c} : call'[d] = call[d]
           /\ call'[c].at = place /\ call'[c].op = call[c].op /\ call'[c].session = s
<1> DEFINE k == call[c]
           moved == [op |-> k.op, at |-> place, session |-> s]
<1>1. k \in CallStates
  OBVIOUS
<1>2. [k EXCEPT !.at = place, !.session = s] = moved /\ moved \in CallStates
  <2> DEFINE o == k.op
             placed == [op |-> o, at |-> place, session |-> k.session]
  <2>1. moved \in CallStates /\ [k EXCEPT !.at = place] = placed
    BY <1>1 DEF CallStates
  <2>2. [k EXCEPT !.at = place, !.session = s] = moved
    <3>1. [k EXCEPT !.at = place, !.session = s] = [[k EXCEPT !.at = place] EXCEPT !.session = s]
      BY <1>1 DEF CallStates
    <3>2. [placed EXCEPT !.session = s] = [op |-> o, at |-> place, session |-> s]
      OBVIOUS
    <3> QED
      BY <2>1, <3>1, <3>2
  <2> QED
    BY <2>1, <2>2
<1>3. call' = [call EXCEPT ![c] = [k EXCEPT !.at = place, !.session = s]]
  BY DEF OnSession
<1>4. call' = [call EXCEPT ![c] = moved]
  <2> HIDE DEF k, moved
  <2> QED
    BY <1>2, <1>3
<1>5. call' \in [Callers -> CallStates] /\ call'[c] = moved /\ \A d \in Callers \ {c} : call'[d] = call[d]
  <2> HIDE DEF moved
  <2> QED
    BY <1>2, <1>4
<1> QED
  BY <1>5

\* A step of one call, while commands of others may be settled.
LEMMA BrowserKeeps ==
    ASSUME BrowserIInv, NEW c \in Callers,
           SharedTyped', SessionTypeOK', SessionsKnown', call' \in [Callers -> CallStates],
           \A d \in Callers \ {c} :
              call'[d] = call[d] /\ (command'[d] = command[d] \/ command'[d].state # "waiting"),
           CallSound(call'[c], command'[c].state)
    PROVE  BrowserIInv'
<1>1. BrowserTypeOK'
  BY DEF BrowserTypeOK, SharedTyped, CallStates
<1>2. ASSUME NEW d \in Callers PROVE CallSound(call'[d], command'[d].state)
  <2>1. CASE d = c
    BY <2>1
  <2>2. CASE d # c
    BY <2>2 DEF BrowserIInv, CallSound
  <2> QED
    BY <2>1, <2>2
<1> QED
  BY <1>1, <1>2 DEF BrowserIInv

\* No session becomes unknown while none is opened and those in use or being made stay so.
LEMMA KnownStays ==
    ASSUME SessionsKnown, lost \subseteq lost', UNCHANGED <<lastSession, browserClosed>>,
           \A s \in Sessions : connection'[s] = "open" => connection[s] = "open",
           \A d \in Callers : Making(d) \subseteq Making(d)' \union lost'
    PROVE  SessionsKnown'
<1> SUFFICES ASSUME NEW s \in Sessions, connection'[s] = "open", s \notin lost'
             PROVE  (\E d \in Callers : s \in Making(d)') \/ (s = lastSession' /\ ~browserClosed')
  BY DEF SessionsKnown
<1>1. (\E d \in Callers : s \in Making(d)) \/ (s = lastSession /\ ~browserClosed)
  BY DEF SessionsKnown
<1> QED
  BY <1>1

\* A call that has its answer, and makes no session, goes on by itself.
LEMMA PlaceMoves ==
    ASSUME BrowserIInv, NEW c \in Callers, NEW place \in Places \ {"greeting", "preparing", "bound"},
           At(c, place), call[c].at \notin {"greeting", "preparing"}, Answer(c) # "waiting",
           UNCHANGED <<shared, ops, loads, lost, sessionVars>>
    PROVE  BrowserIInv' /\ SessionStep
<1>1. /\ SessionTypeOK /\ SharedTyped /\ SessionsKnown /\ call \in [Callers -> CallStates]
  BY BrowserTypes DEF BrowserIInv
<1>2. /\ call' \in [Callers -> CallStates] /\ \A d \in Callers \ {c} : call'[d] = call[d]
      /\ call'[c].at = place
  BY <1>1, AtFacts
<1>3. SessionTypeOK' /\ SharedTyped' /\ SessionStep
  BY <1>1 DEF SessionTypeOK, SharedTyped, sessionVars, shared, loads, SessionStep
<1>4. ASSUME NEW d \in Callers PROVE Making(d) \subseteq Making(d)'
  BY <1>2 DEF Making
<1>5. SessionsKnown'
  BY <1>1, <1>4, KnownStays DEF sessionVars, shared
<1>6. CallSound(call'[c], command'[c].state)
  BY <1>2 DEF CallSound, Answer, sessionVars
<1> QED
  BY <1>1, <1>2, <1>3, <1>5, <1>6, BrowserKeeps DEF sessionVars

\* The types hold at first.
LEMMA CallsBegin ==
    ASSUME BrowserInit
    PROVE  SharedTyped /\ call \in [Callers -> CallStates]
<1>1. SharedTyped
  <2>1. plan.most \in Nat /\ ops \in 0..plan.most
    BY PlanFacts DEF BrowserInit
  <2> QED
    BY <2>1 DEF BrowserInit, SharedTyped
<1>2. call \in [Callers -> CallStates]
  BY DEF BrowserInit, CallStates, Places
<1> QED
  BY <1>1, <1>2

\* It holds at first.
LEMMA BrowserBegins ==
    ASSUME SessionInit, BrowserInit
    PROVE  BrowserIInv
<1>1. SessionTypeOK
  BY DEF SessionInit, SessionTypeOK, States
<1>2. SharedTyped /\ call \in [Callers -> CallStates]
  BY CallsBegin
<1>3. SessionsKnown
  BY DEF SessionInit, SessionsKnown
<1>4. ASSUME NEW c \in Callers PROVE CallSound(call[c], command[c].state)
  BY DEF BrowserInit, SessionInit, CallSound
<1> QED
  BY <1>1, <1>2, <1>3, <1>4, BrowserTypes DEF BrowserIInv

\* Every step of a call keeps it, and is a step of Outcome or none.
LEMMA CallSteps ==
    ASSUME BrowserIInv, NEW c \in Callers, CallStep(c) \/ PrepareNext(c) \/ PollAgain(c) \/ PollDeadline(c)
    PROVE  BrowserIInv' /\ SessionStep
<1>1. /\ SessionTypeOK /\ SharedTyped /\ SessionsKnown /\ call \in [Callers -> CallStates]
      /\ \A d \in Callers : CallSound(call[d], command[d].state)
  BY BrowserTypes DEF BrowserIInv
<1>2. CallSound(call[c], command[c].state) /\ call[c] \in CallStates /\ call[c].session \in Sessions \union {None}
  BY <1>1 DEF CallStates
<1>3. {"asking", "pressing", "pausing", "entering", "failed", "connecting", "ok", "loading", "navigating"}
        \subseteq Places \ {"greeting", "preparing", "bound"}
  BY DEF Places
<1>4. CASE \/ Evaluated(c) \/ Polled(c) \/ PollAgain(c) \/ PollDeadline(c) \/ Pressed(c)
           \/ NavigateAnswered(c) \/ LoadEnds(c)
  <2>1. PICK place \in Places \ {"greeting", "preparing", "bound"} : At(c, place)
    BY <1>3, <1>4 DEF Evaluated, Polled, PollAgain, PollDeadline, Pressed, NavigateAnswered, LoadEnds
  <2>2. /\ call[c].at \notin {"greeting", "preparing"} /\ Answer(c) # "waiting"
        /\ UNCHANGED <<shared, ops, loads, lost, sessionVars>>
    BY <1>2, <1>4 DEF Evaluated, Polled, PollAgain, PollDeadline, Pressed, NavigateAnswered, LoadEnds,
       CallSound, Answer
  <2> QED
    BY <2>1, <2>2, PlaceMoves
<1>5. CASE Enter(c)
  <2>1. /\ call[c].at = "entering" /\ command[c].state # "waiting"
        /\ UNCHANGED <<shared, ops, loads, lost, sessionVars>>
    BY <1>2, <1>5 DEF Enter, CallSound
  <2>2. CASE opened = None
    <3>1. PICK place \in {"failed", "connecting"} : At(c, place)
      BY <1>5, <2>2 DEF Enter
    <3> QED
      BY <1>3, <2>1, <3>1, PlaceMoves DEF Answer
  <2>3. CASE opened # None
    <3>1. OnSession(c, "bound", opened) /\ opened \in Sessions
      BY <1>1, <1>5, <2>3 DEF Enter, SharedTyped
    <3>2. /\ call' \in [Callers -> CallStates] /\ \A d \in Callers \ {c} : call'[d] = call[d]
          /\ call'[c].at = "bound" /\ call'[c].session = opened
      BY <1>1, <3>1, OnSessionFacts DEF Places
    <3>3. SessionTypeOK' /\ SharedTyped' /\ SessionStep
      BY <1>1, <2>1 DEF SessionTypeOK, SharedTyped, sessionVars, shared, loads, SessionStep
    <3>4. ASSUME NEW d \in Callers PROVE Making(d) \subseteq Making(d)'
      BY <2>1, <3>2 DEF Making
    <3>5. SessionsKnown'
      BY <1>1, <2>1, <3>4, KnownStays DEF sessionVars, shared
    <3>6. CallSound(call'[c], command'[c].state)
      BY <2>1, <3>1, <3>2 DEF CallSound, sessionVars
    <3> QED
      BY <1>1, <2>1, <3>2, <3>3, <3>5, <3>6, BrowserKeeps DEF sessionVars
  <2> QED
    BY <2>2, <2>3
<1>6. CASE ConnectBrowser(c)
  <2>1. /\ call[c].at = "connecting" /\ command[c].state # "waiting"
        /\ UNCHANGED <<shared, ops, loads, lost, command>>
    BY <1>2, <1>6 DEF ConnectBrowser, CallSound
  <2>2. CASE At(c, "failed") /\ UNCHANGED connection
    BY <1>3, <2>1, <2>2, PlaceMoves DEF Answer, sessionVars
  <2>3. CASE \E s \in Sessions : Connected(s) /\ OnSession(c, "greeting", s)
    <3>1. PICK s \in Sessions : Connected(s) /\ OnSession(c, "greeting", s)
      BY <2>3
    <3>2. /\ call' \in [Callers -> CallStates] /\ \A d \in Callers \ {c} : call'[d] = call[d]
          /\ call'[c].at = "greeting" /\ call'[c].session = s
      BY <1>1, <3>1, OnSessionFacts DEF Places
    <3>3. SessionTypeOK' /\ Commands!Next /\ connection' = [connection EXCEPT ![s] = "open"]
      BY <1>1, <2>1, <3>1, ConnectedOpens
    <3>4. SharedTyped'
      BY <1>1, <2>1 DEF SharedTyped, shared, loads
    <3>5. SessionsKnown'
      <4> SUFFICES ASSUME NEW t \in Sessions, connection'[t] = "open"
                   PROVE  \/ t \in lost' \/ (\E d \in Callers : t \in Making(d)')
                          \/ (t = lastSession' /\ ~browserClosed')
        BY DEF SessionsKnown
      <4>1. CASE t = s
        BY <3>2, <4>1 DEF Making
      <4>2. CASE t # s
        <5>1. connection[t] = "open"
          BY <1>1, <3>3, <4>2 DEF SessionTypeOK
        <5>2. t \in lost \/ (\E d \in Callers : t \in Making(d)) \/ (t = lastSession /\ ~browserClosed)
          BY <1>1, <5>1 DEF SessionsKnown
        <5>3. \A d \in Callers : Making(d) \subseteq Making(d)'
          BY <2>1, <3>2 DEF Making
        <5> QED
          BY <2>1, <5>2, <5>3 DEF shared
      <4> QED
        BY <4>1, <4>2
    <3>6. CallSound(call'[c], command'[c].state)
      BY <2>1, <3>2 DEF CallSound
    <3> QED
      BY <2>1, <3>2, <3>3, <3>4, <3>5, <3>6, BrowserKeeps DEF SessionStep
  <2> QED
    BY <1>6, <2>2, <2>3 DEF ConnectBrowser
<1>7. CASE Greet(c) \/ PrepareNext(c)
  <2>1. /\ call[c].at \in {"greeting", "preparing"} /\ call[c].session \in Sessions
        /\ command[c].state # "waiting" /\ Send(c, call[c].session)
        /\ UNCHANGED <<shared, ops, loads, lost, connection>>
    BY <1>2, <1>7 DEF Greet, PrepareNext, CallSound, Answer
  <2>2. SessionTypeOK' /\ Commands!Next /\ OthersStay(c)
    BY <1>1, <2>1, SendAsks
  <2>3. /\ call' \in [Callers -> CallStates] /\ \A d \in Callers \ {c} : call'[d] = call[d]
        /\ call'[c].at = "preparing" /\ call'[c].session = call[c].session
    <3>1. CASE At(c, "preparing")
      BY <1>1, <3>1, AtFacts DEF Places
    <3>2. CASE PrepareNext(c)
      BY <1>1, <3>2 DEF PrepareNext
    <3> QED
      BY <1>7, <3>1, <3>2 DEF Greet
  <2>4. SharedTyped'
    BY <1>1, <2>1 DEF SharedTyped, shared, loads
  <2>5. ASSUME NEW d \in Callers PROVE Making(d) \subseteq Making(d)'
    BY <2>1, <2>3 DEF Making
  <2>6. SessionsKnown'
    BY <1>1, <2>1, <2>5, KnownStays DEF shared
  <2>7. CallSound(call'[c], command'[c].state)
    BY <2>1, <2>3 DEF CallSound
  <2> QED
    BY <2>2, <2>3, <2>4, <2>6, <2>7, BrowserKeeps DEF SessionStep, OthersStay
<1>8. CASE OpenReturns(c)
  <2>1. /\ call[c].at = "preparing" /\ call[c].session \in Sessions /\ command[c].state # "waiting"
        /\ opened' = call[c].session /\ lastSession' = call[c].session /\ At(c, "bound")
        /\ lost' = lost \union (IF lastSession # None THEN {lastSession} ELSE {})
                        \union (IF browserClosed THEN {call[c].session} ELSE {})
        /\ UNCHANGED <<plan, browserClosed, ops, loads, sessionVars>>
    BY <1>2, <1>8 DEF OpenReturns, CallSound, Answer
  <2>2. /\ call' \in [Callers -> CallStates] /\ \A d \in Callers \ {c} : call'[d] = call[d]
        /\ call'[c].at = "bound" /\ call'[c].session = call[c].session
    BY <1>1, <2>1, AtFacts DEF Places
  <2>3. SharedTyped' /\ SessionTypeOK' /\ SessionStep
    BY <1>1, <2>1 DEF SharedTyped, loads, SessionTypeOK, sessionVars, SessionStep
  <2>4. SessionsKnown'
    <3> SUFFICES ASSUME NEW t \in Sessions, connection'[t] = "open"
                 PROVE  \/ t \in lost' \/ (\E d \in Callers : t \in Making(d)')
                        \/ (t = lastSession' /\ ~browserClosed')
      BY DEF SessionsKnown
    <3>1. t \in lost \/ (\E d \in Callers : t \in Making(d)) \/ (t = lastSession /\ ~browserClosed)
      BY <1>1, <2>1 DEF SessionsKnown, sessionVars
    <3>2. CASE t \in lost \/ (t = lastSession /\ ~browserClosed)
      BY <2>1, <3>2, CdpSessionAssumption
    <3>3. ASSUME NEW d \in Callers, t \in Making(d)
          PROVE  t \in Making(d)' \/ t \in lost' \/ (t = lastSession' /\ ~browserClosed')
      <4>1. CASE d = c
        BY <2>1, <3>3, <4>1 DEF Making
      <4>2. CASE d # c
        BY <2>2, <3>3, <4>2 DEF Making
      <4> QED
        BY <4>1, <4>2
    <3> QED
      BY <3>1, <3>2, <3>3
  <2>5. CallSound(call'[c], command'[c].state)
    BY <2>1, <2>2 DEF CallSound, sessionVars
  <2> QED
    BY <2>1, <2>2, <2>3, <2>4, <2>5, BrowserKeeps DEF sessionVars
<1>9. CASE OpenRejects(c)
  <2>1. /\ call[c].at = "preparing" /\ call[c].session \in Sessions /\ command[c].state # "waiting"
        /\ At(c, "failed") /\ lost' = lost \union {call[c].session}
        /\ UNCHANGED <<shared, ops, loads, sessionVars>>
    BY <1>2, <1>9 DEF OpenRejects, CallSound, Answer
  <2>2. /\ call' \in [Callers -> CallStates] /\ \A d \in Callers \ {c} : call'[d] = call[d]
        /\ call'[c].at = "failed"
    BY <1>1, <2>1, AtFacts DEF Places
  <2>3. SharedTyped' /\ SessionTypeOK' /\ SessionStep
    BY <1>1, <2>1 DEF SharedTyped, shared, loads, SessionTypeOK, sessionVars, SessionStep
  <2>4. ASSUME NEW d \in Callers PROVE Making(d) \subseteq Making(d)' \union lost'
    BY <2>1, <2>2 DEF Making
  <2>5. SessionsKnown'
    BY <1>1, <2>1, <2>4, KnownStays DEF shared, sessionVars
  <2>6. CallSound(call'[c], command'[c].state)
    BY <2>1, <2>2 DEF CallSound, sessionVars
  <2> QED
    BY <2>1, <2>2, <2>3, <2>5, <2>6, BrowserKeeps DEF sessionVars
<1>10. CASE GoAhead(c)
  <2>1. /\ call[c].at = "bound" /\ call[c].session \in Sessions /\ command[c].state # "waiting"
        /\ UNCHANGED <<shared, ops, lost, connection>>
    BY <1>2, <1>10 DEF GoAhead, CallSound
  <2>2. CASE call[c].op = "goto" /\ opened = None
    <3>1. At(c, "failed") /\ UNCHANGED <<loads, command>>
      BY <1>10, <2>2 DEF GoAhead
    <3> QED
      BY <1>3, <2>1, <3>1, PlaceMoves DEF Answer, sessionVars
  <2>3. CASE call[c].op # "goto" \/ opened # None
    <3>1. PICK s \in Sessions, place \in {"asking", "navigating"} :
             /\ Send(c, s) /\ call' \in [Callers -> CallStates] /\ call'[c].at = place
             /\ \A d \in Callers \ {c} : call'[d] = call[d]
             /\ timers' \in [Callers -> Sessions \union {None}] /\ arrived' \subseteq arrived
      <4>1. CASE call[c].op # "goto"
        <5>1. At(c, "asking") /\ Send(c, call[c].session) /\ UNCHANGED loads
          BY <1>10, <4>1 DEF GoAhead
        <5> QED
          BY <1>1, <2>1, <5>1, AtFacts DEF Places, SharedTyped, loads
      <4>2. CASE call[c].op = "goto" /\ opened # None
        <5>1. /\ OnSession(c, "navigating", opened) /\ Send(c, opened) /\ opened \in Sessions
              /\ timers' = [timers EXCEPT ![c] = opened] /\ arrived' = arrived \ {c}
          BY <1>1, <1>10, <4>2 DEF GoAhead, SharedTyped
        <5> QED
          BY <1>1, <5>1, OnSessionFacts DEF Places, SharedTyped
      <4> QED
        BY <2>3, <4>1, <4>2
    <3>2. SessionTypeOK' /\ Commands!Next /\ OthersStay(c)
      BY <1>1, <2>1, <3>1, SendAsks
    <3>3. SharedTyped'
      BY <1>1, <2>1, <3>1 DEF SharedTyped, shared
    <3>4. ASSUME NEW d \in Callers PROVE Making(d) \subseteq Making(d)'
      BY <2>1, <3>1 DEF Making
    <3>5. SessionsKnown'
      BY <1>1, <2>1, <3>4, KnownStays DEF shared
    <3>6. CallSound(call'[c], command'[c].state)
      BY <3>1 DEF CallSound
    <3> QED
      BY <3>1, <3>2, <3>3, <3>5, <3>6, BrowserKeeps DEF SessionStep, OthersStay
  <2> QED
    BY <2>2, <2>3
<1>11. CASE Press(c)
  <2>1. /\ call[c].at = "pressing" /\ command[c].state # "waiting"
        /\ UNCHANGED <<shared, ops, loads, lost, connection>>
    BY <1>2, <1>11 DEF Press, CallSound
  <2>2. CASE opened = None
    <3>1. At(c, "failed") /\ UNCHANGED command
      BY <1>11, <2>2 DEF Press
    <3> QED
      BY <1>3, <2>1, <3>1, PlaceMoves DEF Answer, sessionVars
  <2>3. CASE opened # None
    <3>1. OnSession(c, "pressing", None) /\ Send(c, opened) /\ opened \in Sessions
      BY <1>1, <1>11, <2>3 DEF Press, SharedTyped
    <3>2. /\ call' \in [Callers -> CallStates] /\ \A d \in Callers \ {c} : call'[d] = call[d]
          /\ call'[c].at = "pressing" /\ call'[c].session = None
      BY <1>1, <3>1, OnSessionFacts DEF Places
    <3>3. SessionTypeOK' /\ Commands!Next /\ OthersStay(c)
      BY <1>1, <2>1, <3>1, SendAsks
    <3>4. SharedTyped'
      BY <1>1, <2>1 DEF SharedTyped, shared, loads
    <3>5. ASSUME NEW d \in Callers PROVE Making(d) \subseteq Making(d)'
      BY <2>1, <3>2 DEF Making
    <3>6. SessionsKnown'
      BY <1>1, <2>1, <3>5, KnownStays DEF shared
    <3>7. CallSound(call'[c], command'[c].state)
      BY <3>2 DEF CallSound
    <3> QED
      BY <3>2, <3>3, <3>4, <3>6, <3>7, BrowserKeeps DEF SessionStep, OthersStay
  <2> QED
    BY <2>2, <2>3
<1>12. CASE GotoTimer(c)
  <2>1. /\ timers[c] \in Sessions /\ CloseSession(timers[c]) /\ timers' = [timers EXCEPT ![c] = None]
        /\ UNCHANGED <<shared, call, ops, arrived, lost>>
    BY <1>1, <1>12 DEF GotoTimer, SharedTyped
  <2>2. /\ SessionTypeOK' /\ SessionStep
        /\ connection' = [connection EXCEPT ![timers[c]] = IF @ = "open" THEN "closed" ELSE @]
        /\ \A d \in Callers : \/ command'[d] = command[d]
                              \/ command[d].state = "waiting" /\ command'[d].state = "failed"
    BY <1>1, <2>1, CloseEnds DEF SessionStep
  <2>3. SharedTyped'
    BY <1>1, <2>1 DEF SharedTyped, shared
  <2>4. ASSUME NEW d \in Callers PROVE Making(d) \subseteq Making(d)'
    BY <2>1 DEF Making
  <2>5. \A s \in Sessions : connection'[s] = "open" => connection[s] = "open"
    BY <1>1, <2>1, <2>2 DEF SessionTypeOK
  <2>6. SessionsKnown'
    BY <1>1, <2>1, <2>4, <2>5, KnownStays DEF shared
  <2>7. CallSound(call'[c], command'[c].state)
    BY <1>2, <2>1, <2>2 DEF CallSound
  <2>8. \A d \in Callers \ {c} : /\ call'[d] = call[d]
                                 /\ command'[d] = command[d] \/ command'[d].state # "waiting"
    BY <2>1, <2>2
  <2> QED
    BY <1>1, <2>1, <2>2, <2>3, <2>6, <2>7, <2>8, BrowserKeeps
<1> QED
  BY <1>4, <1>5, <1>6, <1>7, <1>8, <1>9, <1>10, <1>11, <1>12 DEF CallStep

\* Every step of the browser does.
LEMMA BrowserStep ==
    ASSUME BrowserIInv, BrowserNext
    PROVE  BrowserIInv' /\ SessionStep
<1>1. /\ SessionTypeOK /\ SharedTyped /\ SessionsKnown /\ call \in [Callers -> CallStates]
      /\ \A d \in Callers : CallSound(call[d], command[d].state)
  BY BrowserTypes DEF BrowserIInv
<1>2. plan.calls \subseteq Ops /\ plan.most \in Nat /\ ops \in 0..plan.most
  BY <1>1, PlanFacts DEF SharedTyped
<1>3. ASSUME NEW c \in Callers, NEW op \in plan.calls, Call(c, op)
      PROVE  BrowserIInv' /\ SessionStep
  <2>1. /\ call[c].at \in {"idle", "ok", "failed"} /\ ops < plan.most /\ ops' = ops + 1
        /\ call' = [call EXCEPT ![c] = [op |-> op, at |-> "entering", session |-> None]]
        /\ UNCHANGED <<shared, loads, lost, sessionVars>>
    BY <1>3 DEF Call
  <2>2. [op |-> op, at |-> "entering", session |-> None] \in CallStates
    BY <1>2 DEF CallStates, Places
  <2>3. /\ call' \in [Callers -> CallStates] /\ \A d \in Callers \ {c} : call'[d] = call[d]
        /\ call'[c].at = "entering"
    BY <1>1, <2>1, <2>2
  <2>4. ops' \in 0..plan.most
    BY <1>2, <2>1
  <2>5. SharedTyped' /\ SessionTypeOK' /\ SessionStep
    BY <1>1, <2>1, <2>4 DEF SharedTyped, shared, loads, SessionTypeOK, sessionVars, SessionStep
  <2>6. ASSUME NEW d \in Callers PROVE Making(d) \subseteq Making(d)'
    BY <2>1, <2>3 DEF Making
  <2>7. SessionsKnown'
    BY <1>1, <2>1, <2>6, KnownStays DEF shared, sessionVars
  <2>8. CallSound(call'[c], command'[c].state)
    BY <1>1, <2>1, <2>3 DEF CallSound, sessionVars
  <2> QED
    BY <2>1, <2>3, <2>5, <2>7, <2>8, BrowserKeeps DEF sessionVars
<1>4. ASSUME NEW c \in Callers, Close(c)
      PROVE  BrowserIInv' /\ SessionStep
  <2>1. /\ ops < plan.most /\ ops' = ops + 1 /\ UNCHANGED <<plan, lastSession, call, loads, lost>>
    BY <1>4 DEF Close
  <2>2. ops' \in 0..plan.most
    BY <1>2, <2>1
  <2>3. CASE browserClosed
    <3>1. UNCHANGED <<opened, browserClosed, sessionVars>>
      BY <1>4, <2>3 DEF Close
    <3>2. SharedTyped' /\ SessionTypeOK' /\ SessionStep
      BY <1>1, <2>1, <2>2, <3>1 DEF SharedTyped, loads, SessionTypeOK, sessionVars, SessionStep
    <3>3. SessionsKnown'
      BY <1>1, <2>1, <3>1 DEF SessionsKnown, Making, sessionVars
    <3> QED
      BY <1>1, <2>1, <3>1, <3>2, <3>3, BrowserTypes, BrowserKeeps DEF sessionVars, CallSound
  <2>4. CASE ~browserClosed
    <3>1. /\ browserClosed' = TRUE /\ opened' = None
          /\ IF lastSession # None THEN CloseSession(lastSession) ELSE UNCHANGED sessionVars
      BY <1>4, <2>4 DEF Close
    <3>2. /\ SessionTypeOK' /\ SessionStep
          /\ \A s \in Sessions : connection'[s] = "open" => connection[s] = "open" /\ s # lastSession
          /\ \A d \in Callers : command'[d] = command[d] \/ command'[d].state # "waiting"
      <4>1. CASE lastSession = None
        BY <1>1, <3>1, <4>1, CdpSessionAssumption DEF SessionTypeOK, sessionVars, SessionStep
      <4>2. CASE lastSession # None
        <5>1. lastSession \in Sessions /\ CloseSession(lastSession)
          BY <1>1, <3>1, <4>2 DEF SharedTyped
        <5>2. /\ SessionTypeOK' /\ SessionStep
              /\ connection' = [connection EXCEPT ![lastSession] = IF @ = "open" THEN "closed" ELSE @]
              /\ \A d \in Callers : \/ command'[d] = command[d]
                                    \/ command[d].state = "waiting" /\ command'[d].state = "failed"
          BY <1>1, <5>1, CloseEnds DEF SessionStep
        <5> QED
          BY <1>1, <5>1, <5>2 DEF SessionTypeOK
      <4> QED
        BY <4>1, <4>2
    <3>3. SharedTyped'
      BY <1>1, <2>1, <2>2, <3>1 DEF SharedTyped, loads
    <3>4. SessionsKnown'
      BY <1>1, <2>1, <3>2 DEF SessionsKnown, Making
    <3>5. CallSound(call'[c], command'[c].state)
      BY <1>1, <2>1, <3>2 DEF CallSound
    <3> QED
      BY <1>1, <2>1, <3>2, <3>3, <3>4, <3>5, BrowserKeeps
  <2> QED
    BY <2>3, <2>4
<1>5. ASSUME NEW s \in Sessions, PageLoads(s)
      PROVE  BrowserIInv' /\ SessionStep
  <2>1. /\ UNCHANGED <<shared, call, ops, lost, sessionVars>>
        /\ timers' \in [Callers -> Sessions \union {None}] /\ arrived' \subseteq Callers
    BY <1>1, <1>5 DEF PageLoads, SharedTyped
  <2>2. SharedTyped' /\ SessionTypeOK' /\ SessionStep
    BY <1>1, <2>1 DEF SharedTyped, shared, SessionTypeOK, sessionVars, SessionStep
  <2>3. SessionsKnown'
    BY <1>1, <2>1 DEF SessionsKnown, Making, shared, sessionVars
  <2> QED
    BY <1>1, <2>1, <2>2, <2>3, BrowserTypes DEF BrowserIInv, BrowserTypeOK, SharedTyped, CallStates,
       CallSound, sessionVars
<1>6. ASSUME NEW c \in Callers, Dispatch(c) \/ CommandTimesOut(c), UNCHANGED browserVars
      PROVE  BrowserIInv' /\ SessionStep
  <2>1. /\ SessionTypeOK' /\ Commands!Next /\ OthersStay(c) /\ UNCHANGED connection
        /\ command'[c].state # "waiting"
    BY <1>1, <1>6, ReplySettles
  <2>2. SharedTyped' /\ call' \in [Callers -> CallStates]
    BY <1>1, <1>6 DEF SharedTyped, browserVars
  <2>3. SessionsKnown'
    BY <1>1, <1>6, <2>1 DEF SessionsKnown, Making, browserVars
  <2>4. CallSound(call'[c], command'[c].state)
    BY <1>1, <1>6, <2>1 DEF CallSound, browserVars
  <2> QED
    BY <1>6, <2>1, <2>2, <2>3, <2>4, BrowserKeeps DEF SessionStep, OthersStay, browserVars
<1>7. ASSUME NEW s \in Sessions, ClientCloses(s), UNCHANGED browserVars
      PROVE  BrowserIInv' /\ SessionStep
  <2>1. /\ SessionTypeOK' /\ Commands!Next /\ connection' = [connection EXCEPT ![s] = "closed"]
        /\ \A d \in Callers : command'[d] = command[d] \/ command'[d].state # "waiting"
    BY <1>1, <1>7, AbortCloses DEF ClientCloses
  <2>2. BrowserTypeOK'
    BY <1>1, <1>7, BrowserTypes DEF browserVars, BrowserTypeOK, SharedTyped, CallStates
  <2>3. \A t \in Sessions : connection'[t] = "open" => connection[t] = "open"
    BY <1>1, <2>1 DEF SessionTypeOK
  <2>4. SessionsKnown'
    BY <1>1, <1>7, <2>3 DEF SessionsKnown, Making, browserVars
  <2>5. ASSUME NEW d \in Callers PROVE CallSound(call'[d], command'[d].state)
    BY <1>1, <1>7, <2>1 DEF CallSound, browserVars
  <2> QED
    BY <2>1, <2>2, <2>4, <2>5 DEF BrowserIInv, SessionStep
<1> QED
  BY <1>3, <1>4, <1>5, <1>6, <1>7, CallSteps DEF BrowserNext

\* A browser that is closed has let go of what is neither lost nor being made.
LEMMA BrowserTold ==
    ASSUME BrowserIInv
    PROVE  ClosedBrowserLetsGo
<1> SUFFICES ASSUME browserClosed, NEW s \in Sessions, connection[s] = "open"
             PROVE  \/ s \in lost
                    \/ \E c \in Callers : call[c].at \in {"greeting", "preparing"} /\ call[c].session = s
  BY DEF ClosedBrowserLetsGo
<1>1. s \in lost \/ \E c \in Callers : s \in Making(c)
  BY DEF BrowserIInv, SessionsKnown
<1> QED
  BY <1>1 DEF Making

-----------------------------------------------------------------------------
(* The composition. *)

CaptureIInv ==
    /\ part \in {"task", "browser", "socket", "proxy", "playwright"}
    /\ IF part = "task" THEN TaskIInv ELSE TaskInit
    /\ IF part = "browser" THEN BrowserIInv ELSE BrowserInit
    /\ part \notin {"task", "browser"} => SessionInit
    /\ ProxyIInv /\ PlayIInv

\* What a part has at first, and what it keeps, it has while none of its variables changes.
LEMMA SessionStays == ASSUME SessionInit, UNCHANGED sessionVars PROVE SessionInit'
BY DEF SessionInit, sessionVars

\* The same for a task,
LEMMA TaskStays ==
    ASSUME UNCHANGED taskVars
    PROVE  /\ TaskInit => TaskInit'
           /\ TaskIInv /\ UNCHANGED sessionVars => TaskIInv'
<1>1. /\ UNCHANGED <<task, at, ended, page, records, byRequestId, position, loaded, target, crowded>>
  BY DEF taskVars
<1>2. ASSUME TaskIInv, UNCHANGED sessionVars PROVE TaskIInv'
  <2>1. UNCHANGED <<connection, command>> /\ mine' = mine
    BY <1>2 DEF sessionVars, mine
  <2>2. SessionTypeOK /\ TaskTypeOK /\ TaskPlace /\ HopsSound /\ EntriesSound(records, byRequestId, page, crowded)
    BY <1>2 DEF TaskIInv
  <2>3. SessionTypeOK' /\ TaskTypeOK'
    BY <1>1, <2>1, <2>2 DEF SessionTypeOK, TaskTypeOK
  <2>4. TaskPlace' /\ HopsSound'
    BY <1>1, <2>1, <2>2 DEF TaskPlace, TaskCleansUp, HopsSound
  <2>5. EntriesSound(records', byRequestId', page', crowded')
    BY <1>1, <2>2
  <2> QED
    BY <2>3, <2>4, <2>5 DEF TaskIInv
<1> QED
  BY <1>1, <1>2 DEF TaskInit

\* the calls on a browser,
LEMMA BrowserStays ==
    ASSUME UNCHANGED browserVars
    PROVE  /\ BrowserInit => BrowserInit'
           /\ BrowserIInv /\ UNCHANGED sessionVars => BrowserIInv'
<1>1. UNCHANGED <<plan, opened, lastSession, browserClosed, call, ops, timers, arrived, lost>>
  BY DEF browserVars, shared, loads
<1>2. ASSUME BrowserIInv, UNCHANGED sessionVars PROVE BrowserIInv'
  <2>1. UNCHANGED <<connection, command>>
    BY <1>2 DEF sessionVars
  <2>2. SessionTypeOK' /\ BrowserTypeOK'
    BY <1>1, <1>2, <2>1 DEF BrowserIInv, SessionTypeOK, BrowserTypeOK
  <2>3. SessionsKnown'
    BY <1>1, <1>2, <2>1 DEF BrowserIInv, SessionsKnown, Making
  <2>4. \A c \in Callers : CallSound(call'[c], command'[c].state)
    BY <1>1, <1>2, <2>1 DEF BrowserIInv
  <2> QED
    BY <2>2, <2>3, <2>4 DEF BrowserIInv
<1> QED
  BY <1>1, <1>2 DEF BrowserInit

\* the proxy,
LEMMA ProxyStays == ASSUME ProxyIInv, UNCHANGED proxyVars PROVE ProxyIInv'
BY DEF ProxyIInv, ProxyTypeOK, ExchangeSound, proxyVars

\* and a capture with Playwright.
LEMMA PlayStays == ASSUME PlayIInv, UNCHANGED playVars PROVE PlayIInv'
BY DEF PlayIInv, PlayTyped, TakenInOrder, Attached, playVars

\* A task that has not begun, and a browser that was not called, are of their types.
LEMMA TaskAtFirst ==
    ASSUME TaskInit
    PROVE  TaskTypeOK /\ EntryBearsItsOwnAnswer /\ TaskCleansUp
<1>1. PageTyped /\ PlaceTyped
  BY PageBegins
<1>2. TaskTypeOK
  BY <1>1 DEF TaskInit, TaskTypeOK, PageTyped, PlaceTyped
<1>3. records = <<>> /\ at = "connecting"
  BY DEF TaskInit
<1> QED
  BY <1>2, <1>3 DEF EntryBearsItsOwnAnswer, TaskCleansUp

\* The same for a browser.
LEMMA BrowserAtFirst ==
    ASSUME BrowserInit
    PROVE  BrowserTypeOK /\ ClosedBrowserLetsGo
<1>1. SharedTyped /\ call \in [Callers -> CallStates]
  BY CallsBegin
<1> QED
  BY <1>1, BrowserTypes DEF BrowserInit, ClosedBrowserLetsGo

\* It holds at first.
LEMMA CaptureBegins ==
    ASSUME Init
    PROVE  CaptureIInv
BY TaskBegins, BrowserBegins, ProxyBegins, PlayBegins DEF Init, CaptureIInv

\* A step is one of the part that runs: it keeps the invariant, and as to the sessions it is a
\* step of Outcome or none.
LEMMA CaptureStep ==
    ASSUME CaptureIInv, [Next]_vars
    PROVE  CaptureIInv' /\ SessionStep
<1>1. CASE Task /\ TaskNext
  <2>1. /\ part = "task" /\ UNCHANGED <<part, browserVars, wsVars, proxyVars, playVars>>
    BY <1>1 DEF Task
  <2>2. TaskIInv' /\ SessionStep
    BY <1>1, <2>1, TaskGoes DEF CaptureIInv
  <2>3. BrowserInit' /\ ProxyIInv' /\ PlayIInv'
    BY <2>1, BrowserStays, ProxyStays, PlayStays DEF CaptureIInv
  <2> QED
    BY <2>1, <2>2, <2>3 DEF CaptureIInv
<1>2. CASE InBrowser /\ BrowserNext
  <2>1. /\ part = "browser" /\ UNCHANGED <<part, taskVars, wsVars, proxyVars, playVars>>
    BY <1>2 DEF InBrowser
  <2>2. BrowserIInv' /\ SessionStep
    BY <1>2, <2>1, BrowserStep DEF CaptureIInv
  <2>3. TaskInit' /\ ProxyIInv' /\ PlayIInv'
    BY <2>1, TaskStays, ProxyStays, PlayStays DEF CaptureIInv
  <2> QED
    BY <2>1, <2>2, <2>3 DEF CaptureIInv
<1>3. CASE Proxy /\ ProxyNext
  <2>1. /\ part = "proxy" /\ UNCHANGED <<part, sessionVars, taskVars, browserVars, wsVars, playVars>>
    BY <1>3 DEF Proxy
  <2>2. ProxyIInv'
    BY <1>3, ProxyStep DEF CaptureIInv
  <2>3. TaskInit' /\ BrowserInit' /\ SessionInit' /\ PlayIInv'
    BY <2>1, TaskStays, BrowserStays, SessionStays, PlayStays DEF CaptureIInv
  <2> QED
    BY <2>1, <2>2, <2>3 DEF CaptureIInv, SessionStep
<1>4. CASE Playwright /\ PlayNext
  <2>1. /\ part = "playwright" /\ UNCHANGED <<part, sessionVars, taskVars, browserVars, wsVars, proxyVars>>
    BY <1>4 DEF Playwright
  <2>2. PlayIInv'
    BY <1>4, PlayStep DEF CaptureIInv
  <2>3. TaskInit' /\ BrowserInit' /\ SessionInit' /\ ProxyIInv'
    BY <2>1, TaskStays, BrowserStays, SessionStays, ProxyStays DEF CaptureIInv
  <2> QED
    BY <2>1, <2>2, <2>3 DEF CaptureIInv, SessionStep
<1>5. CASE Socket /\ WsNext
  <2>1. /\ part = "socket" /\ UNCHANGED <<part, sessionVars, taskVars, browserVars, proxyVars, playVars>>
    BY <1>5 DEF Socket
  <2>2. TaskInit' /\ BrowserInit' /\ SessionInit' /\ ProxyIInv' /\ PlayIInv'
    BY <2>1, TaskStays, BrowserStays, SessionStays, ProxyStays, PlayStays DEF CaptureIInv
  <2> QED
    BY <2>1, <2>2 DEF CaptureIInv, SessionStep
<1>6. CASE UNCHANGED vars
  <2>1. UNCHANGED <<part, sessionVars, taskVars, browserVars, proxyVars, playVars>>
    BY <1>6 DEF vars
  <2>2. /\ ProxyIInv' /\ PlayIInv' /\ (part = "task" => TaskIInv') /\ (part = "browser" => BrowserIInv')
        /\ (part # "task" => TaskInit') /\ (part # "browser" => BrowserInit')
        /\ (part \notin {"task", "browser"} => SessionInit')
    BY <2>1, TaskStays, BrowserStays, SessionStays, ProxyStays, PlayStays DEF CaptureIInv
  <2> QED
    BY <2>1, <2>2 DEF CaptureIInv, SessionStep
<1> QED
  BY <1>1, <1>2, <1>3, <1>4, <1>5, <1>6 DEF Next

\* The parts of the capture keep their invariants, whichever of them runs.
THEOREM CaptureInvariance == Spec => []CaptureIInv
<1>1. CaptureIInv /\ [Next]_vars => CaptureIInv'
  BY CaptureStep
<1> QED
  BY CaptureBegins, <1>1, PTL DEF Spec

\* Whatever order events, replies, timers and the end of a connection come in, an entry of a
\* capture bears the status and the body of its own hop, and an entry of the proxy is of what
\* the proxy passed on.
THEOREM EntriesAlwaysTrue == Spec => []EntriesAreTrue
<1>1. CaptureIInv => EntriesAreTrue
  <2> SUFFICES ASSUME CaptureIInv PROVE EntriesAreTrue
    OBVIOUS
  <2>1. ProxyTypeOK /\ ProxyTellsWhatItPassed
    BY ProxyTold DEF CaptureIInv, ProxyIInv
  <2>2. BrowserTypeOK
    BY BrowserAtFirst DEF CaptureIInv, BrowserIInv
  <2>3. SessionTypeOK
    <3>1. SessionInit => SessionTypeOK
      BY DEF SessionInit, SessionTypeOK, States
    <3> QED
      BY <3>1 DEF CaptureIInv, BrowserIInv, TaskIInv
  <2>4. TaskTypeOK /\ EntryBearsItsOwnAnswer
    BY TaskAtFirst, TaskTold DEF CaptureIInv
  <2> QED
    BY <2>1, <2>2, <2>3, <2>4 DEF EntriesAreTrue, TypesOK
<1> QED
  BY <1>1, CaptureInvariance, PTL

\* A task that is done has closed its session and asked for its target to be closed, and a
\* closed browser has no session open but those that were lost or are being made.
THEOREM AlwaysLetsGo == Spec => []LetsGo
<1>1. CaptureIInv => LetsGo
  BY TaskAtFirst, TaskTold, BrowserAtFirst, BrowserTold DEF CaptureIInv, LetsGo
<1> QED
  BY <1>1, CaptureInvariance, PTL

\* A response and a failure that Playwright reports make one entry each, and the collection
\* has each entry once however often it is pulled.
THEOREM AlwaysCapturedOnce == Spec => []CapturedOnce
<1>1. CaptureIInv => CapturedOnce
  BY PlayTold DEF CaptureIInv
<1> QED
  BY <1>1, CaptureInvariance, PTL

\* A command of a task or of a call on a browser is settled once, as Outcome has it, by its
\* reply, its timer or the end of its session; the safety part of CommandsSettleOnce.
THEOREM CommandsFollowOutcome == Spec => Commands!Init /\ [][Commands!Next]_(Commands!vars)
<1>1. Init => Commands!Init
  BY DEF Init, SessionInit, Commands!Init
<1>2. CaptureIInv /\ [Next]_vars => [Commands!Next]_(Commands!vars)
  <2> SUFFICES ASSUME CaptureIInv, [Next]_vars PROVE Commands!Next \/ UNCHANGED Commands!vars
    OBVIOUS
  <2>1. SessionStep
    BY CaptureStep
  <2>2. UNCHANGED sessionVars => UNCHANGED Commands!vars
    BY DEF sessionVars, Commands!vars
  <2> QED
    BY <2>1, <2>2 DEF SessionStep
<1> QED
  BY <1>1, <1>2, CaptureInvariance, PTL DEF Spec
-----------------------------------------------------------------------------
(* The WebSocket client: sequences put together, and cut. *)

\* Each value of g is the one before it with one of the sequences put at its end.
Joins(g, seqs, n) == g[0] = <<>> /\ \A k \in 1..n : g[k] = g[k - 1] \o seqs[k]

\* There is one way to do so.
LEMMA SameJoins ==
    ASSUME NEW N \in Nat, NEW f, NEW g, NEW seqs, Joins(f, seqs, N), Joins(g, seqs, N)
    PROVE  \A k \in 0..N : f[k] = g[k]
<1> DEFINE Same == {k \in Nat : k <= N => f[k] = g[k]}
<1>1. 0 \in Same
  BY DEF Joins
<1>2. \A k \in Nat : k \in Same => k + 1 \in Same
  <2> TAKE k \in Nat
  <2> HAVE k \in Same
  <2> SUFFICES ASSUME k + 1 <= N PROVE f[k + 1] = g[k + 1]
    OBVIOUS
  <2>1. k + 1 \in 1..N /\ (k + 1) - 1 = k /\ f[k] = g[k]
    OBVIOUS
  <2>2. f[k + 1] = f[(k + 1) - 1] \o seqs[k + 1] /\ g[k + 1] = g[(k + 1) - 1] \o seqs[k + 1]
    BY <2>1, Zenon DEF Joins
  <2> QED
    BY <2>1, <2>2
<1> HIDE DEF Same
<1>3. Nat \subseteq Same
  BY <1>1, <1>2, AllNumbers
<1> QED
  BY <1>3 DEF Same

\* FlattenSeq puts one sequence after the other.
LEMMA FlattenGoesOn ==
    ASSUME NEW T, NEW seqs \in Seq(Seq(T))
    PROVE  \E g \in [0..Len(seqs) -> Seq(T)] : Joins(g, seqs, Len(seqs)) /\ FlattenSeq(seqs) = g[Len(seqs)]
<1> DEFINE N == Len(seqs)
           next == [s \in Seq(T) |-> [k \in Nat |-> IF k \in 1..N THEN s \o seqs[k] ELSE s]]
           flatten[i \in 1..N] == IF i = 1 THEN seqs[i] ELSE flatten[i - 1] \o seqs[i]
<1>1. N \in Nat /\ \A k \in 1..N : seqs[k] \in Seq(T)
  OBVIOUS
<1>2. next \in [Seq(T) -> [Nat -> Seq(T)]] /\ <<>> \in Seq(T)
  <2> HIDE DEF N
  <2> QED
    BY <1>1, ConcatProperties
<1>3. PICK g \in [0..N -> Seq(T)] : GoesOn(g, <<>>, next, N)
  <2> HIDE DEF next, N
  <2> QED
    BY <1>1, <1>2, Recursion
<1>4. Joins(g, seqs, N)
  <2>1. \A k \in 1..N : k - 1 \in 0..N /\ k \in Nat
    BY <1>1
  <2>2. \A k \in 1..N : g[k - 1] \in Seq(T)
    BY <2>1
  <2> QED
    BY <1>3, <2>1, <2>2 DEF GoesOn, Joins
<1>5. CASE N = 0
  <2>1. seqs = <<>> /\ FlattenSeq(seqs) = seqs
    BY <1>5 DEF FlattenSeq
  <2>2. g[0] = <<>>
    BY <1>4 DEF Joins
  <2> QED
    BY <1>4, <1>5, <2>1, <2>2
<1>6. CASE N > 0
  <2>1. flatten = [i \in 1..N |-> IF i = 1 THEN seqs[i] ELSE flatten[i - 1] \o seqs[i]]
    <3> DEFINE h == [i \in 1..N |-> g[i]]
    <3>1. h = [i \in 1..N |-> IF i = 1 THEN seqs[i] ELSE h[i - 1] \o seqs[i]]
      <4>1. ASSUME NEW i \in 1..N PROVE g[i] = IF i = 1 THEN seqs[i] ELSE h[i - 1] \o seqs[i]
        <5>1. g[i] = g[i - 1] \o seqs[i] /\ seqs[i] \in Seq(T)
          BY <1>1, <1>4, Zenon DEF Joins
        <5>2. CASE i = 1
          <6>1. g[i - 1] = <<>>
            BY <1>4, <5>2 DEF Joins
          <6> QED
            BY <5>1, <5>2, <6>1, ConcatEmptySeq
        <5>3. CASE i # 1
          <6>1. i - 1 \in 1..N
            BY <1>1, <5>3
          <6> QED
            BY <5>1, <5>3, <6>1
        <5> QED
          BY <5>2, <5>3
      <4> QED
        BY <4>1
    <3> HIDE DEF h
    <3> QED
      BY <3>1
  <2>2. FlattenSeq(seqs) = flatten[N]
    BY <1>6 DEF FlattenSeq
  <2> DEFINE f == [k \in 0..N |-> IF k = 0 THEN <<>> ELSE flatten[k]]
  <2> HIDE DEF flatten, N, next
  <2>3. Joins(f, seqs, N)
    <3>1. f[0] = <<>>
      BY <1>1
    <3>2. ASSUME NEW k \in 1..N PROVE f[k] = f[k - 1] \o seqs[k]
      <4>1. k - 1 \in 0..N /\ k \in 0..N /\ k # 0 /\ f[k] = flatten[k]
        BY <1>1
      <4>2. CASE k = 1
        <5>1. flatten[1] = seqs[1] /\ f[k - 1] = <<>> /\ seqs[1] \in Seq(T)
          BY <1>1, <2>1, <3>1, <4>2
        <5> QED
          BY <4>1, <4>2, <5>1, ConcatEmptySeq
      <4>3. CASE k # 1
        <5>1. flatten[k] = flatten[k - 1] \o seqs[k]
          BY <2>1, <4>3, Zenon
        <5>2. k - 1 # 0 /\ f[k - 1] = flatten[k - 1]
          BY <4>1, <4>3
        <5> QED
          BY <4>1, <5>1, <5>2, Zenon
      <4> QED
        BY <4>2, <4>3
    <3> HIDE DEF f
    <3> QED
      BY <3>1, <3>2 DEF Joins
  <2>4. f[N] = flatten[N] /\ N \in 0..N
    BY <1>1, <1>6
  <2> HIDE DEF f
  <2>5. \A k \in 0..N : f[k] = g[k]
    BY <1>1, <1>4, <2>3, SameJoins
  <2>6. FlattenSeq(seqs) = g[N]
    BY <2>2, <2>4, <2>5
  <2> QED
    BY <1>4, <2>6 DEF N
<1> QED
  BY <1>1, <1>5, <1>6

\* It makes a sequence; a sequence more makes it longer by so much.
LEMMA FlattenFacts ==
    ASSUME NEW T, NEW seqs \in Seq(Seq(T))
    PROVE  /\ FlattenSeq(seqs) \in Seq(T)
           /\ \A s \in Seq(T) : FlattenSeq(Append(seqs, s)) = FlattenSeq(seqs) \o s
<1> DEFINE N == Len(seqs)
<1>1. PICK g \in [0..N -> Seq(T)] : Joins(g, seqs, N) /\ FlattenSeq(seqs) = g[N]
  BY FlattenGoesOn
<1>2. N \in Nat /\ N \in 0..N
  OBVIOUS
<1>3. FlattenSeq(seqs) \in Seq(T)
  BY <1>1, <1>2
<1>4. ASSUME NEW s \in Seq(T) PROVE FlattenSeq(Append(seqs, s)) = FlattenSeq(seqs) \o s
  <2> DEFINE more == Append(seqs, s)
  <2>1. /\ more \in Seq(Seq(T)) /\ Len(more) = N + 1 /\ more[N + 1] = s
        /\ \A k \in 1..N : more[k] = seqs[k]
    BY AppendProperties
  <2> HIDE DEF more, N
  <2>2. PICK f \in [0..N + 1 -> Seq(T)] : Joins(f, more, N + 1) /\ FlattenSeq(more) = f[N + 1]
    <3>1. \E f \in [0..Len(more) -> Seq(T)] : Joins(f, more, Len(more)) /\ FlattenSeq(more) = f[Len(more)]
      BY <2>1, FlattenGoesOn
    <3> QED
      BY <2>1, <3>1
  <2>3. Joins(f, seqs, N)
    <3>1. \A k \in 1..N : k \in 1..N + 1
      BY <1>2
    <3>2. \A k \in 1..N : f[k] = f[k - 1] \o more[k]
      BY <2>2, <3>1, Zenon DEF Joins
    <3>3. \A k \in 1..N : f[k] = f[k - 1] \o seqs[k]
      BY <2>1, <3>2, Zenon
    <3> QED
      BY <2>2, <3>3, Zenon DEF Joins
  <2>4. \A k \in 0..N : f[k] = g[k]
    BY <1>1, <1>2, <2>3, SameJoins
  <2>5. N + 1 \in 1..N + 1 /\ (N + 1) - 1 = N
    BY <1>2
  <2>6. f[N + 1] = f[N] \o s
    BY <2>1, <2>2, <2>5, Zenon DEF Joins
  <2> QED
    BY <1>1, <1>2, <2>2, <2>4, <2>6 DEF more
<1> QED
  BY <1>3, <1>4

Grouped(a, b, c) == (a \o b) \o c = a \o (b \o c)

\* It does not matter which two of three are put together first.
LEMMA Grouping ==
    ASSUME NEW S, NEW a \in Seq(S), NEW b \in Seq(S), NEW c \in Seq(S)
    PROVE  Grouped(a, b, c)
BY ConcatAssociative DEF Grouped

\* What a sequence begins with, and what it ends with, is a sequence.
LEMMA CutTyped ==
    ASSUME NEW S, NEW s \in Seq(S), NEW n \in 0..Len(s)
    PROVE  /\ SubSeq(s, 1, n) \in Seq(S) /\ Len(SubSeq(s, 1, n)) = n
           /\ \A k \in 1..n : SubSeq(s, 1, n)[k] = s[k]
           /\ SubSeq(s, n + 1, Len(s)) \in Seq(S) /\ Len(SubSeq(s, n + 1, Len(s))) = Len(s) - n
           /\ \A k \in 1..Len(s) - n : SubSeq(s, n + 1, Len(s))[k] = s[n + k]
           /\ SubSeq(s, 1, n) \o SubSeq(s, n + 1, Len(s)) = s
<1>1. Len(s) \in Nat /\ n \in Nat
  OBVIOUS
<1>2. /\ SubSeq(s, 1, n) \in Seq(S) /\ Len(SubSeq(s, 1, n)) = n
      /\ \A k \in 1..n : SubSeq(s, 1, n)[k] = s[k]
  BY <1>1
<1>3. /\ SubSeq(s, n + 1, Len(s)) \in Seq(S) /\ Len(SubSeq(s, n + 1, Len(s))) = Len(s) - n
      /\ \A k \in 1..Len(s) - n : SubSeq(s, n + 1, Len(s))[k] = s[n + k]
  BY <1>1
<1>4. SubSeq(s, 1, n) \o SubSeq(s, n + 1, Len(s)) = s
  <2>1. 1 \in 1..Len(s) + 1 /\ n \in 1 - 1..Len(s) /\ Len(s) \in n..Len(s)
    BY <1>1
  <2>2. SubSeq(s, 1, n) \o SubSeq(s, n + 1, Len(s)) = SubSeq(s, 1, Len(s))
    BY <2>1, ConcatAdjacentSubSeq
  <2> QED
    BY <2>2, SubSeqFull
<1> QED
  BY <1>2, <1>3, <1>4

\* What is put together in two parts is put together.
LEMMA FlattenParts ==
    ASSUME NEW T, NEW a \in Seq(Seq(T)), NEW b \in Seq(Seq(T))
    PROVE  FlattenSeq(a \o b) = FlattenSeq(a) \o FlattenSeq(b)
<1> DEFINE N == Len(b)
           Good == {n \in Nat : n <= N => FlattenSeq(a \o SubSeq(b, 1, n)) =
                                             FlattenSeq(a) \o FlattenSeq(SubSeq(b, 1, n))}
<1>1. N \in Nat /\ \A k \in 1..N : b[k] \in Seq(T)
  OBVIOUS
<1>2. FlattenSeq(<<>>) = <<>>
  BY DEF FlattenSeq
<1>3. FlattenSeq(a) \in Seq(T)
  BY FlattenFacts
<1>4. 0 \in Good
  <2>1. SubSeq(b, 1, 0) = <<>>
    BY SubSeqEmpty
  <2>2. a \o <<>> = a /\ FlattenSeq(a) \o <<>> = FlattenSeq(a)
    BY <1>3, ConcatEmptySeq
  <2> QED
    BY <1>2, <2>1, <2>2
<1>5. \A n \in Nat : n \in Good => n + 1 \in Good
  <2> TAKE n \in Nat
  <2> HAVE n \in Good
  <2> SUFFICES ASSUME n + 1 <= N
               PROVE  FlattenSeq(a \o SubSeq(b, 1, n + 1)) = FlattenSeq(a) \o FlattenSeq(SubSeq(b, 1, n + 1))
    OBVIOUS
  <2>1. n + 1 \in 1..Len(b) /\ 1 \in 1..Len(b) /\ n + 1 \in 1..N /\ n \in Nat /\ (n + 1) - 1 = n
    BY <1>1
  <2>2. PICK head \in Seq(Seq(T)) : head = SubSeq(b, 1, n)
    <3>1. n \in 0..Len(b)
      BY <2>1
    <3> HIDE DEF Good
    <3> QED
      BY <3>1, CutTyped
  <2>3. PICK s \in Seq(T) : s = b[n + 1]
    BY <1>1, <2>1
  <2>4. SubSeq(b, 1, n + 1) = head \o <<s>>
    BY <2>1, <2>2, <2>3, SubSeqRecursiveSecond
  <2>5. head \o <<s>> = Append(head, s) /\ (a \o head) \in Seq(Seq(T))
    BY AppendIsConcat, ConcatProperties
  <2>6. a \o (head \o <<s>>) = Append(a \o head, s)
    <3>1. <<s>> \in Seq(Seq(T))
      OBVIOUS
    <3>2. Append(a \o head, s) = (a \o head) \o <<s>>
      BY <2>5, AppendIsConcat
    <3> QED
      BY <3>1, <3>2, ConcatAssociative, SMTT(30)
  <2>7. FlattenSeq(a \o head) = FlattenSeq(a) \o FlattenSeq(head)
    BY <2>1, <2>2
  <2>8. FlattenSeq(head) \in Seq(T) /\ FlattenSeq(Append(head, s)) = FlattenSeq(head) \o s
    BY FlattenFacts
  <2>9. FlattenSeq(Append(a \o head, s)) = FlattenSeq(a \o head) \o s
    <3>1. \A both \in Seq(Seq(T)) : FlattenSeq(Append(both, s)) = FlattenSeq(both) \o s
      BY FlattenFacts
    <3> QED
      BY <2>5, <3>1, Zenon
  <2>10. (FlattenSeq(a) \o FlattenSeq(head)) \o s = FlattenSeq(a) \o (FlattenSeq(head) \o s)
    <3>1. Grouped(FlattenSeq(a), FlattenSeq(head), s)
      BY <1>3, <2>3, <2>8, Grouping
    <3> QED
      BY <3>1 DEF Grouped
  <2> HIDE DEF N, Good
  <2> QED
    BY <2>4, <2>5, <2>6, <2>7, <2>8, <2>9, <2>10
<1>6. N \in Good
  <2> HIDE DEF Good, N
  <2> QED
    BY <1>1, <1>4, <1>5, AllNumbers
<1>7. SubSeq(b, 1, N) = b
  BY SubSeqFull
<1>8. FlattenSeq(a \o SubSeq(b, 1, N)) = FlattenSeq(a) \o FlattenSeq(SubSeq(b, 1, N))
  <2> HIDE DEF N
  <2> QED
    BY <1>1, <1>6
<1> HIDE DEF N, Good
<1> QED
  BY <1>7, <1>8, Zenon

\* One sequence put together is itself.
LEMMA FlattenOne ==
    ASSUME NEW T, NEW s \in Seq(T)
    PROVE  FlattenSeq(<<s>>) = s /\ FlattenSeq(<<>>) = <<>>
<1>1. <<>> \in Seq(Seq(T)) /\ Append(<<>>, s) = <<s>>
  OBVIOUS
<1>2. FlattenSeq(<<>>) = <<>>
  BY DEF FlattenSeq
<1>3. FlattenSeq(<<s>>) = <<>> \o s
  BY <1>1, <1>2, FlattenFacts
<1> QED
  BY <1>2, <1>3, ConcatEmptySeq

-----------------------------------------------------------------------------
(* The WebSocket client: frames, and the bytes they are written in. *)

Bytes == 0..255
Writable == {frame \in Frames : Len(frame.payload) < 256}
Encoded(frames, mask) == FlattenSeq([k \in DOMAIN frames |-> EncodeFrame(frames[k], mask)])

\* How many bytes a length has beyond the second, and where the payload comes.
Extended(length) == IF length < Inline THEN 0 ELSE IF length < Word THEN 2 ELSE 8
Before(length, mask) == 2 + Extended(length) + (IF mask THEN 4 ELSE 0)

\* What the bytes of a frame are.
Spells(bytes, frame, mask) ==
    LET length == Len(frame.payload)
        long == Extended(length)
    IN  /\ bytes \in Seq(Bytes) /\ Len(bytes) = Before(length, mask) + length
        /\ bytes[1] = (IF frame.fin THEN 128 ELSE 0) + frame.opcode
        /\ bytes[2] = (CASE long = 0 -> length [] long = 2 -> Inline [] long = 8 -> Inline + 1)
                          + (IF mask THEN 128 ELSE 0)
        /\ \A k \in 1..long : bytes[2 + k] = IF k = long THEN length ELSE 0
        /\ mask => \A k \in 1..4 : bytes[2 + long + k] = Key[k]
        /\ \A k \in 1..length : bytes[Before(length, mask) + k] =
              IF mask THEN (frame.payload[k] + Key[((k - 1) % 4) + 1]) % 2 ELSE frame.payload[k]

\* A masked payload is one of bits, as long.
LEMMA MaskedFacts ==
    ASSUME NEW payload \in Seq({0, 1}), NEW key \in Seq({0, 1}), Len(key) = 4
    PROVE  /\ Masked(payload, key) \in Seq({0, 1}) /\ Len(Masked(payload, key)) = Len(payload)
           /\ \A k \in 1..Len(payload) : Masked(payload, key)[k] = (payload[k] + key[((k - 1) % 4) + 1]) % 2
<1>1. Len(payload) \in Nat /\ DOMAIN payload = 1..Len(payload)
  OBVIOUS
<1>2. ASSUME NEW k \in 1..Len(payload) PROVE (payload[k] + key[((k - 1) % 4) + 1]) % 2 \in {0, 1}
  <2>1. payload[k] \in {0, 1}
    OBVIOUS
  <2>2. (k - 1) % 4 \in 0..3
    BY <1>1
  <2>3. ((k - 1) % 4) + 1 \in 1..4
    BY <2>2
  <2>4. key[((k - 1) % 4) + 1] \in {0, 1}
    <3>1. PICK m \in 1..4 : m = ((k - 1) % 4) + 1
      BY <2>3, Zenon
    <3>2. key[m] \in {0, 1}
      BY ElementOfSeq
    <3> QED
      BY <3>1, <3>2, Zenon
  <2>5. \A p, q \in {0, 1} : (p + q) % 2 \in {0, 1}
    OBVIOUS
  <2> QED
    BY <2>1, <2>4, <2>5
<1>3. Masked(payload, key) = [k \in 1..Len(payload) |-> (payload[k] + key[((k - 1) % 4) + 1]) % 2]
  BY <1>1 DEF Masked
<1>4. Masked(payload, key) \in [1..Len(payload) -> {0, 1}]
  BY <1>2, <1>3
<1> QED
  BY <1>1, <1>3, <1>4

\* Masked twice, it is what it was.
LEMMA MaskedTwice ==
    ASSUME NEW payload \in Seq({0, 1}), NEW key \in Seq({0, 1}), Len(key) = 4
    PROVE  Masked(Masked(payload, key), key) = payload
<1> DEFINE once == Masked(payload, key)
           twice == Masked(once, key)
<1>1. /\ once \in Seq({0, 1}) /\ Len(once) = Len(payload) /\ Len(payload) \in Nat
      /\ \A k \in 1..Len(payload) : once[k] = (payload[k] + key[((k - 1) % 4) + 1]) % 2
  BY MaskedFacts
<1> HIDE DEF once
<1>2. /\ twice \in Seq({0, 1}) /\ Len(twice) = Len(once)
      /\ \A k \in 1..Len(once) : twice[k] = (once[k] + key[((k - 1) % 4) + 1]) % 2
  BY <1>1, MaskedFacts
<1> HIDE DEF twice
<1>3. ASSUME NEW k \in 1..Len(payload) PROVE twice[k] = payload[k]
  <2>1. payload[k] \in {0, 1}
    OBVIOUS
  <2>2. (k - 1) % 4 \in 0..3
    BY <1>1
  <2>3. ((k - 1) % 4) + 1 \in 1..4
    BY <2>2
  <2>4. PICK q \in {0, 1} : q = key[((k - 1) % 4) + 1]
    <3>1. PICK m \in 1..4 : m = ((k - 1) % 4) + 1
      BY <2>3, Zenon
    <3>2. key[m] \in {0, 1}
      BY ElementOfSeq
    <3> QED
      BY <3>1, <3>2, Zenon
  <2>5. once[k] = (payload[k] + q) % 2 /\ twice[k] = (once[k] + q) % 2
    BY <1>1, <1>2, <2>4
  <2>6. \A p, r \in {0, 1} : (((p + r) % 2) + r) % 2 = p
    OBVIOUS
  <2> QED
    BY <2>1, <2>5, <2>6
<1>4. twice = payload
  BY <1>1, <1>2, <1>3, SeqEqual
<1> QED
  BY <1>4 DEF twice, once

\* A length in so many bytes.
LEMMA BigEndianFacts ==
    ASSUME NEW length \in Bytes, NEW width \in Nat
    PROVE  /\ BigEndian(length, width) \in Seq(Bytes) /\ Len(BigEndian(length, width)) = width
           /\ \A k \in 1..width : BigEndian(length, width)[k] = IF k = width THEN length ELSE 0
BY DEF BigEndian, Bytes

\* Two rows, one after the other.
IsConcat(row, a, b, S) ==
    /\ row \in Seq(S) /\ Len(row) = Len(a) + Len(b)
    /\ \A k \in 1..Len(a) : row[k] = a[k]
    /\ \A k \in 1..Len(b) : row[Len(a) + k] = b[k]

\* What is put together has the one, and then the other.
LEMMA ConcatIs ==
    ASSUME NEW S, NEW a \in Seq(S), NEW b \in Seq(S)
    PROVE  IsConcat(a \o b, a, b, S)
<1>1. /\ a \o b \in Seq(S) /\ Len(a) \in Nat /\ Len(b) \in Nat
      /\ Len(a \o b) = Len(a) + Len(b)
  OBVIOUS
<1>2. ASSUME NEW k \in 1..Len(a) PROVE (a \o b)[k] = a[k]
  BY <1>1
<1>3. ASSUME NEW k \in 1..Len(b) PROVE (a \o b)[Len(a) + k] = b[k]
  BY <1>1
<1> QED
  BY <1>1, <1>2, <1>3, Zenon DEF IsConcat

\* encodeFrame spells a frame as Spells has it, in no more than bytes.
LEMMA EncodeSpells ==
    ASSUME NEW frame \in Writable, NEW mask \in BOOLEAN
    PROVE  Spells(EncodeFrame(frame, mask), frame, mask)
<1> DEFINE length == Len(frame.payload)
           long == Extended(length)
           second == IF long = 0 THEN length ELSE IF long = 2 THEN Inline ELSE Inline + 1
           opening == <<(IF frame.fin THEN 128 ELSE 0) + frame.opcode, second + (IF mask THEN 128 ELSE 0)>>
           size == BigEndian(length, long)
           body == IF mask THEN Key \o Masked(frame.payload, Key) ELSE frame.payload
<1>1. /\ Inline \in Nat \ {0} /\ Word \in Nat /\ Inline < Word /\ Inline <= 126
      /\ Key \in Seq({0, 1}) /\ Len(Key) = 4
  BY WebSocketAssumption
<1>2. /\ frame.fin \in BOOLEAN /\ frame.opcode \in OPCODES /\ frame.payload \in Seq({0, 1})
      /\ length \in Nat /\ length < 256
  BY DEF Writable, Frames
<1>3. long \in {0, 2, 8} /\ (long = 0 <=> length < Inline) /\ (long = 2 => length < Word)
  BY <1>1, <1>2 DEF Extended
<1>4. EncodeFrame(frame, mask) = (opening \o size) \o body
  <2> DEFINE form == IF length < Inline THEN <<length, 0>>
                     ELSE IF length < Word THEN <<Inline, 2>> ELSE <<Inline + 1, 8>>
  <2>1. form[1] = second /\ form[2] = long
    BY <1>1, <1>2 DEF Extended
  <2>2. EncodeFrame(frame, mask) =
           (<<(IF frame.fin THEN 128 ELSE 0) + frame.opcode, form[1] + (IF mask THEN 128 ELSE 0)>>
              \o BigEndian(length, form[2])) \o body
    BY Zenon DEF EncodeFrame
  <2> HIDE DEF form, body, long, second
  <2> QED
    BY <2>1, <2>2, Zenon
<1>5. opening \in Seq(Bytes) /\ Len(opening) = 2
  <2>1. (IF frame.fin THEN 128 ELSE 0) + frame.opcode \in Bytes
    <3>1. PICK opcode \in 0..10 : opcode = frame.opcode
      BY <1>2 DEF OPCODES, CONTINUATION, TEXT, BINARY, CLOSE, PING, PONG
    <3>2. 128 + opcode \in Bytes /\ 0 + opcode \in Bytes
      BY DEF Bytes
    <3> QED
      BY <3>1, <3>2, Zenon
  <2>2. second + (IF mask THEN 128 ELSE 0) \in Bytes
    <3> HIDE DEF length, long
    <3>1. second \in 0..127
      BY <1>1, <1>2, <1>3
    <3> HIDE DEF second
    <3>2. second + 128 \in Bytes /\ second + 0 \in Bytes
      BY <3>1 DEF Bytes
    <3> QED
      BY <3>2, Zenon
  <2> HIDE DEF second
  <2> QED
    BY <2>1, <2>2
<1>6. /\ size \in Seq(Bytes) /\ Len(size) = long
      /\ \A k \in 1..long : size[k] = IF k = long THEN length ELSE 0
  <2> HIDE DEF length, long
  <2>1. length \in Bytes /\ long \in Nat
    BY <1>2, <1>3 DEF Bytes
  <2> QED
    BY <2>1, BigEndianFacts
<1> DEFINE key == IF mask THEN 4 ELSE 0
<1>7. /\ body \in Seq(Bytes) /\ Len(body) = key + length
      /\ mask => \A k \in 1..4 : body[k] = Key[k]
      /\ \A k \in 1..length : body[key + k] =
            IF mask THEN (frame.payload[k] + Key[((k - 1) % 4) + 1]) % 2 ELSE frame.payload[k]
  <2>1. CASE mask
    <3>1. PICK hidden \in Seq({0, 1}) :
             /\ hidden = Masked(frame.payload, Key) /\ Len(hidden) = length
             /\ \A k \in 1..length : hidden[k] = (frame.payload[k] + Key[((k - 1) % 4) + 1]) % 2
      BY <1>1, <1>2, MaskedFacts
    <3>2. /\ Key \o hidden \in Seq({0, 1}) /\ Len(Key \o hidden) = 4 + length
          /\ \A k \in 1..4 : (Key \o hidden)[k] = Key[k]
          /\ \A k \in 1..length : (Key \o hidden)[4 + k] = hidden[k]
      <4>1. IsConcat(Key \o hidden, Key, hidden, {0, 1})
        BY <1>1, ConcatIs
      <4> QED
        BY <1>1, <3>1, <4>1, Zenon DEF IsConcat
    <3>3. Key \o hidden \in Seq(Bytes)
      BY <3>2, SeqMonotonic DEF Bytes
    <3>4. body = Key \o hidden /\ key = 4
      BY <2>1, <3>1
    <3> HIDE DEF body, key
    <3> QED
      BY <2>1, <3>1, <3>2, <3>3, <3>4
  <2>2. CASE ~mask
    <3>1. frame.payload \in Seq(Bytes)
      BY <1>2, SeqMonotonic DEF Bytes
    <3> QED
      BY <1>2, <2>2, <3>1
  <2> QED
    BY <2>1, <2>2
<1> DEFINE bytes == EncodeFrame(frame, mask)
<1>8. Before(length, mask) = 2 + long + key /\ key \in {0, 4}
  BY DEF Before
<1> HIDE DEF opening, size, body, key, long, length
<1>9. /\ bytes \in Seq(Bytes) /\ Len(bytes) = 2 + long + key + length
      /\ bytes[1] = opening[1] /\ bytes[2] = opening[2]
      /\ \A k \in 1..long : bytes[2 + k] = size[k]
      /\ \A k \in 1..key + length : bytes[2 + long + k] = body[k]
  <2> HIDE DEF bytes
  <2>1. IsConcat(opening \o size, opening, size, Bytes)
    BY <1>5, <1>6, ConcatIs
  <2>2. PICK front \in Seq(Bytes) : front = opening \o size /\ IsConcat(front, opening, size, Bytes)
    BY <2>1, Zenon DEF IsConcat
  <2>3. bytes = front \o body
    BY <1>4, <2>2, Zenon DEF bytes
  <2>4. IsConcat(bytes, front, body, Bytes)
    BY <1>7, <2>3, ConcatIs
  <2>5. /\ Len(front) = 2 + long /\ \A k \in 1..2 : front[k] = opening[k]
        /\ \A k \in 1..long : front[2 + k] = size[k]
    BY <1>5, <1>6, <2>2, Zenon DEF IsConcat
  <2>6. /\ bytes \in Seq(Bytes) /\ Len(bytes) = (2 + long) + (key + length)
        /\ \A k \in 1..2 + long : bytes[k] = front[k]
        /\ \A k \in 1..key + length : bytes[2 + long + k] = body[k]
    BY <1>7, <2>4, <2>5, Zenon DEF IsConcat
  <2>7. /\ \A k \in 1..long : 2 + k \in 1..2 + long
        /\ 1 \in 1..2 + long /\ 2 \in 1..2 + long /\ 1 \in 1..2 /\ 2 \in 1..2
        /\ (2 + long) + (key + length) = 2 + long + key + length
    BY <1>2, <1>3, <1>8
  <2>8. bytes[1] = opening[1] /\ bytes[2] = opening[2]
    <3>1. bytes[1] = front[1] /\ bytes[2] = front[2]
      BY <2>6, <2>7, Zenon
    <3>2. front[1] = opening[1] /\ front[2] = opening[2]
      BY <2>5, <2>7, Zenon
    <3> QED
      BY <3>1, <3>2, Zenon
  <2>9. \A k \in 1..long : bytes[2 + k] = size[k]
    BY <2>5, <2>6, <2>7, Zenon
  <2>10. Len(bytes) = 2 + long + key + length
    BY <2>6, <2>7, Zenon
  <2> QED
    BY <2>6, <2>8, <2>9, <2>10, Zenon
<1>10. /\ \A k \in 1..length : bytes[2 + long + key + k] = body[key + k]
       /\ mask => \A k \in 1..4 : bytes[2 + long + k] = Key[k]
  <2>1. \A k \in 1..length : key + k \in 1..key + length /\ 2 + long + (key + k) = 2 + long + key + k
    BY <1>2, <1>3, <1>8
  <2>2. mask => \A k \in 1..4 : k \in 1..key + length
    BY <1>2, <1>8 DEF key
  <2> HIDE DEF bytes
  <2>3. \A k \in 1..length : bytes[2 + long + (key + k)] = body[key + k]
    BY <1>9, <2>1
  <2> QED
    BY <1>7, <1>9, <2>1, <2>2, <2>3
<1>11. /\ opening[1] = (IF frame.fin THEN 128 ELSE 0) + frame.opcode
       /\ opening[2] = (CASE long = 0 -> length [] long = 2 -> Inline [] long = 8 -> Inline + 1)
                          + (IF mask THEN 128 ELSE 0)
  BY <1>3 DEF opening
<1> HIDE DEF bytes
<1> QED
  BY <1>6, <1>7, <1>8, <1>9, <1>10, <1>11, ZenonT(40) DEF Spells, bytes, length, long

\* The bytes of a frame are bytes.
LEMMA EncodeTyped ==
    ASSUME NEW mask \in BOOLEAN
    PROVE  \A frame \in Writable : EncodeFrame(frame, mask) \in Seq(Bytes)
<1> TAKE frame \in Writable
<1>1. Spells(EncodeFrame(frame, mask), frame, mask)
  BY EncodeSpells
<1> QED
  BY <1>1, Zenon DEF Spells

\* Each frame by itself.
Rows(frames, mask) == [k \in DOMAIN frames |-> EncodeFrame(frames[k], mask)]

\* Each row of bytes is that of its frame.
LEMMA RowsTyped ==
    ASSUME NEW frames \in Seq(Writable), NEW mask \in BOOLEAN
    PROVE  /\ Rows(frames, mask) \in Seq(Seq(Bytes)) /\ Len(Rows(frames, mask)) = Len(frames)
           /\ \A k \in 1..Len(frames) : Rows(frames, mask)[k] = EncodeFrame(frames[k], mask)
<1>1. Len(frames) \in Nat /\ DOMAIN frames = 1..Len(frames)
  OBVIOUS
<1>2. \A k \in 1..Len(frames) : frames[k] \in Writable
  OBVIOUS
<1>3. \A k \in 1..Len(frames) : EncodeFrame(frames[k], mask) \in Seq(Bytes)
  BY <1>2, EncodeTyped, Zenon
<1>4. Rows(frames, mask) = [k \in 1..Len(frames) |-> EncodeFrame(frames[k], mask)]
  BY <1>1, Zenon DEF Rows
<1> QED
  BY <1>1, <1>3, <1>4

\* What is written in two parts is written one after the other.
LEMMA EncodedParts ==
    ASSUME NEW a \in Seq(Writable), NEW b \in Seq(Writable), NEW mask \in BOOLEAN
    PROVE  /\ Encoded(a, mask) \in Seq(Bytes) /\ Encoded(b, mask) \in Seq(Bytes)
           /\ Encoded(a \o b, mask) = Encoded(a, mask) \o Encoded(b, mask)
<1>1. /\ Rows(a, mask) \in Seq(Seq(Bytes)) /\ Len(Rows(a, mask)) = Len(a)
      /\ \A k \in 1..Len(a) : Rows(a, mask)[k] = EncodeFrame(a[k], mask)
  BY RowsTyped
<1>2. /\ Rows(b, mask) \in Seq(Seq(Bytes)) /\ Len(Rows(b, mask)) = Len(b)
      /\ \A k \in 1..Len(b) : Rows(b, mask)[k] = EncodeFrame(b[k], mask)
  BY RowsTyped
<1>3. PICK both \in Seq(Writable) : both = a \o b /\ IsConcat(both, a, b, Writable)
  BY ConcatIs, ConcatProperties
<1>4. /\ Rows(both, mask) \in Seq(Seq(Bytes)) /\ Len(Rows(both, mask)) = Len(both)
      /\ \A k \in 1..Len(both) : Rows(both, mask)[k] = EncodeFrame(both[k], mask)
  BY RowsTyped
<1>5. PICK joined \in Seq(Seq(Bytes)) :
         joined = Rows(a, mask) \o Rows(b, mask) /\ IsConcat(joined, Rows(a, mask), Rows(b, mask), Seq(Bytes))
  <2>1. IsConcat(Rows(a, mask) \o Rows(b, mask), Rows(a, mask), Rows(b, mask), Seq(Bytes))
    BY <1>1, <1>2, ConcatIs
  <2> QED
    BY <2>1, Zenon DEF IsConcat
<1>6. Len(a) \in Nat /\ Len(b) \in Nat
  OBVIOUS
<1>7. Rows(both, mask) = joined
  <2>1. Len(joined) = Len(a) + Len(b) /\ Len(both) = Len(a) + Len(b)
    BY <1>1, <1>2, <1>3, <1>5, Zenon DEF IsConcat
  <2>2. ASSUME NEW k \in 1..Len(a) + Len(b) PROVE Rows(both, mask)[k] = joined[k]
    <3>1. Rows(both, mask)[k] = EncodeFrame(both[k], mask)
      BY <1>4, <2>1, Zenon
    <3>2. CASE k <= Len(a)
      <4>1. k \in 1..Len(a)
        BY <1>6, <3>2
      <4>2. both[k] = a[k] /\ joined[k] = Rows(a, mask)[k]
        BY <1>1, <1>3, <1>5, <4>1, Zenon DEF IsConcat
      <4> QED
        BY <1>1, <3>1, <4>1, <4>2, Zenon
    <3>3. CASE ~(k <= Len(a))
      <4>1. PICK j \in 1..Len(b) : k = Len(a) + j
        <5>1. k - Len(a) \in 1..Len(b) /\ k = Len(a) + (k - Len(a))
          BY <1>6, <3>3
        <5> QED
          BY <5>1, Zenon
      <4>2. both[k] = b[j] /\ joined[k] = Rows(b, mask)[j]
        BY <1>1, <1>2, <1>3, <1>5, <4>1, Zenon DEF IsConcat
      <4> QED
        BY <1>2, <3>1, <4>1, <4>2, Zenon
    <3> QED
      BY <3>2, <3>3
  <2> HIDE DEF Rows
  <2> QED
    BY <1>4, <2>1, <2>2, SeqEqual
<1>8. /\ FlattenSeq(Rows(a, mask)) \in Seq(Bytes) /\ FlattenSeq(Rows(b, mask)) \in Seq(Bytes)
      /\ FlattenSeq(Rows(a, mask) \o Rows(b, mask)) = FlattenSeq(Rows(a, mask)) \o FlattenSeq(Rows(b, mask))
  BY <1>1, <1>2, FlattenFacts, FlattenParts
<1> QED
  BY <1>3, <1>5, <1>7, <1>8, Zenon DEF Encoded, Rows

\* One frame, and none.
LEMMA EncodedOne ==
    ASSUME NEW frame \in Writable, NEW mask \in BOOLEAN
    PROVE  Encoded(<<frame>>, mask) = EncodeFrame(frame, mask) /\ Encoded(<<>>, mask) = <<>>
<1>1. EncodeFrame(frame, mask) \in Seq(Bytes)
  BY EncodeTyped
<1>2. Rows(<<frame>>, mask) = <<EncodeFrame(frame, mask)>> /\ Rows(<<>>, mask) = <<>>
  BY DEF Rows
<1>3. FlattenSeq(<<EncodeFrame(frame, mask)>>) = EncodeFrame(frame, mask) /\ FlattenSeq(<<>>) = <<>>
  BY <1>1, FlattenOne
<1> QED
  BY <1>2, <1>3, Zenon DEF Encoded, Rows

\* What the bytes of a length are worth: the value goes on from byte to byte.
LEMMA ValueGoesOn ==
    ASSUME NEW bytes \in Seq(Bytes)
    PROVE  \E g \in [0..Len(bytes) -> Nat] :
              /\ g[0] = 0 /\ Value(bytes) = g[Len(bytes)]
              /\ \A k \in 1..Len(bytes) : g[k] = g[k - 1] * 256 + bytes[k]
<1> DEFINE N == Len(bytes)
           next == [v \in Nat |-> [k \in Nat |-> IF k \in 1..N THEN v * 256 + bytes[k] ELSE v]]
           value[k \in 0..N] == IF k = 0 THEN 0 ELSE value[k - 1] * 256 + bytes[k]
<1>1. N \in Nat /\ \A k \in 1..N : bytes[k] \in Nat
  <2>1. \A k \in 1..N : bytes[k] \in Bytes
    OBVIOUS
  <2>2. \A byte \in Bytes : byte \in Nat
    BY DEF Bytes
  <2> HIDE DEF N
  <2>3. \A k \in 1..N : bytes[k] \in Nat
    BY <2>1, <2>2, Zenon
  <2> QED
    BY <2>3 DEF N
<1>2. next \in [Nat -> [Nat -> Nat]] /\ 0 \in Nat
  <2> HIDE DEF N
  <2> QED
    BY <1>1
<1>3. PICK g \in [0..N -> Nat] : GoesOn(g, 0, next, N)
  <2> HIDE DEF next, N
  <2> QED
    BY <1>1, <1>2, Recursion
<1>4. g[0] = 0 /\ \A k \in 1..N : g[k] = g[k - 1] * 256 + bytes[k]
  <2>1. \A k \in 1..N : k - 1 \in 0..N /\ k \in Nat /\ g[k - 1] \in Nat
    BY <1>1
  <2> QED
    BY <1>3, <2>1 DEF GoesOn
<1>5. value = [k \in 0..N |-> IF k = 0 THEN 0 ELSE value[k - 1] * 256 + bytes[k]]
  <2>1. g = [k \in 0..N |-> IF k = 0 THEN 0 ELSE g[k - 1] * 256 + bytes[k]]
    <3>1. \A k \in 0..N : g[k] = IF k = 0 THEN 0 ELSE g[k - 1] * 256 + bytes[k]
      BY <1>1, <1>4
    <3> QED
      BY <3>1
  <2> QED
    BY <2>1
<1>6. Value(bytes) = value[N]
  BY DEF Value
<1> HIDE DEF value, next, N
<1>7. value \in [0..N -> Nat]
  <2> DEFINE Same == {k \in Nat : k <= N => value[k] = g[k]}
  <2>1. 0 \in Same
    BY <1>1, <1>4, <1>5
  <2>2. \A k \in Nat : k \in Same => k + 1 \in Same
    <3> TAKE k \in Nat
    <3> HAVE k \in Same
    <3> SUFFICES ASSUME k + 1 <= N PROVE value[k + 1] = g[k + 1]
      OBVIOUS
    <3>1. k + 1 \in 1..N /\ k + 1 \in 0..N /\ (k + 1) - 1 = k /\ k + 1 # 0 /\ value[k] = g[k]
      BY <1>1
    <3>2. g[k + 1] = g[(k + 1) - 1] * 256 + bytes[k + 1]
      BY <1>4, <3>1, Zenon
    <3>3. value[k + 1] = IF k + 1 = 0 THEN 0 ELSE value[(k + 1) - 1] * 256 + bytes[k + 1]
      BY <1>5, <3>1, Zenon
    <3> QED
      BY <3>1, <3>2, <3>3
  <2> HIDE DEF Same
  <2>3. Nat \subseteq Same
    BY <2>1, <2>2, AllNumbers
  <2>4. \A k \in 0..N : value[k] = g[k]
    BY <1>1, <2>3 DEF Same
  <2> QED
    BY <1>5, <2>4
<1>8. value[0] = 0 /\ \A k \in 1..N : value[k] = value[k - 1] * 256 + bytes[k]
  BY <1>1, <1>5
<1> QED
  BY <1>6, <1>7, <1>8 DEF N

\* A length in bytes is worth that length.
LEMMA ValueOfLength ==
    ASSUME NEW bytes \in Seq(Bytes), NEW length \in Bytes, Len(bytes) > 0,
           \A k \in 1..Len(bytes) : bytes[k] = IF k = Len(bytes) THEN length ELSE 0
    PROVE  Value(bytes) = length
<1> DEFINE N == Len(bytes)
<1>1. N \in Nat /\ N > 0 /\ length \in Nat
  BY DEF Bytes
<1>2. PICK g \in [0..N -> Nat] :
         g[0] = 0 /\ Value(bytes) = g[N] /\ \A k \in 1..N : g[k] = g[k - 1] * 256 + bytes[k]
  BY ValueGoesOn
<1> DEFINE Null == {k \in Nat : k < N => g[k] = 0}
<1>3. \A k \in 1..N : bytes[k] = IF k = N THEN length ELSE 0
  OBVIOUS
<1> HIDE DEF N
<1>4. 0 \in Null
  BY <1>2
<1>5. \A k \in Nat : k \in Null => k + 1 \in Null
  <2> TAKE k \in Nat
  <2> HAVE k \in Null
  <2> SUFFICES ASSUME k + 1 < N PROVE g[k + 1] = 0
    OBVIOUS
  <2>1. k + 1 \in 1..N /\ (k + 1) - 1 = k /\ k + 1 # N /\ g[k] = 0
    BY <1>1
  <2> QED
    BY <1>2, <1>3, <2>1
<1> HIDE DEF Null
<1>6. Nat \subseteq Null
  BY <1>4, <1>5, AllNumbers
<1>7. N - 1 \in Nat /\ N - 1 < N /\ N \in 1..N
  BY <1>1
<1>8. g[N - 1] = 0
  BY <1>6, <1>7 DEF Null
<1> QED
  BY <1>1, <1>2, <1>3, <1>7, <1>8

\* A value is a number.
LEMMA ValueTyped ==
    ASSUME NEW bytes \in Seq(Bytes)
    PROVE  Value(bytes) \in Nat
<1>1. PICK g \in [0..Len(bytes) -> Nat] : Value(bytes) = g[Len(bytes)]
  BY ValueGoesOn
<1>2. Len(bytes) \in 0..Len(bytes)
  OBVIOUS
<1> QED
  BY <1>1, <1>2

\* A buffer that holds, as far as it goes, what is spelled.
Begins(buf, spelled) == \A k \in 1..Len(buf) : k <= Len(spelled) => buf[k] = spelled[k]

\* What the header of a frame tells, as far as it is there.
LEMMA HeaderTells ==
    ASSUME NEW buf \in Seq(Bytes), NEW frame \in Writable, NEW mask \in BOOLEAN, NEW spelled,
           Spells(spelled, frame, mask), Begins(buf, spelled), Len(buf) >= 2
    PROVE  LET length == Len(frame.payload)
               long == Extended(length)
               marker == buf[2] % 128
           IN  /\ (buf[1] >= 128) <=> frame.fin
               /\ buf[1] % 16 = frame.opcode
               /\ (buf[2] >= 128) <=> mask
               /\ long \in {0, 2, 8}
               /\ (marker = Inline) <=> (long = 2)
               /\ (marker = Inline + 1) <=> (long = 8)
               /\ long = 0 => marker = length
<1> DEFINE length == Len(frame.payload)
           long == Extended(length)
           marker == buf[2] % 128
           second == CASE long = 0 -> length [] long = 2 -> Inline [] long = 8 -> Inline + 1
<1>1. Inline \in Nat \ {0} /\ Word \in Nat /\ Inline < Word /\ Inline <= 126
  BY WebSocketAssumption
<1>2. frame.fin \in BOOLEAN /\ frame.opcode \in OPCODES /\ frame.payload \in Seq({0, 1}) /\ length \in Nat
  BY DEF Writable, Frames
<1>3. long \in {0, 2, 8} /\ (long = 0 <=> length < Inline)
  BY <1>1, <1>2 DEF Extended
<1> HIDE DEF length, long
<1>4. /\ Len(spelled) = Before(length, mask) + length
      /\ spelled[1] = (IF frame.fin THEN 128 ELSE 0) + frame.opcode
      /\ spelled[2] = second + (IF mask THEN 128 ELSE 0)
  BY DEF Spells, length, long
<1>5. Len(spelled) \in Nat /\ Len(spelled) >= 2 /\ Len(buf) \in Nat
  <2>1. Before(length, mask) \in Nat /\ Before(length, mask) >= 2
    BY <1>3 DEF Before, long
  <2>2. Len(buf) \in Nat
    OBVIOUS
  <2> QED
    BY <1>2, <1>4, <2>1, <2>2
<1>6. buf[1] = spelled[1] /\ buf[2] = spelled[2]
  <2>1. 1 \in 1..Len(buf) /\ 2 \in 1..Len(buf) /\ 1 <= Len(spelled) /\ 2 <= Len(spelled)
    BY <1>5
  <2> QED
    BY <2>1, Zenon DEF Begins
<1>7. PICK opcode \in 0..10 : opcode = frame.opcode
  BY <1>2 DEF OPCODES, CONTINUATION, TEXT, BINARY, CLOSE, PING, PONG
<1>8. second \in 0..127 /\ (second = Inline <=> long = 2) /\ (second = Inline + 1 <=> long = 8)
      /\ (long = 0 => second = length)
  <2>1. CASE long = 0
    <3>1. second = length
      BY <2>1
    <3> HIDE DEF second
    <3> QED
      BY <1>1, <1>2, <1>3, <2>1, <3>1
  <2>2. CASE long = 2
    <3>1. second = Inline
      BY <2>2
    <3> HIDE DEF second
    <3> QED
      BY <1>1, <2>2, <3>1
  <2>3. CASE long = 8
    <3>1. second = Inline + 1
      BY <2>3
    <3> HIDE DEF second
    <3> QED
      BY <1>1, <2>3, <3>1
  <2> QED
    BY <1>3, <2>1, <2>2, <2>3, Zenon
<1> HIDE DEF second
<1>9. /\ 128 + opcode >= 128 /\ ~(0 + opcode >= 128) /\ (128 + opcode) % 16 = opcode /\ (0 + opcode) % 16 = opcode
  BY <1>7, SMTT(30)
<1>10. /\ second + 128 >= 128 /\ ~(second + 0 >= 128) /\ (second + 128) % 128 = second /\ (second + 0) % 128 = second
  BY <1>8
<1>11. /\ (buf[1] >= 128) <=> frame.fin
       /\ buf[1] % 16 = frame.opcode
  <2>1. CASE frame.fin
    <3>1. buf[1] = 128 + opcode
      BY <1>4, <1>6, <1>7, <2>1, Zenon
    <3> QED
      BY <1>7, <1>9, <2>1, <3>1, Zenon
  <2>2. CASE ~frame.fin
    <3>1. buf[1] = 0 + opcode
      BY <1>4, <1>6, <1>7, <2>2, Zenon
    <3> QED
      BY <1>7, <1>9, <2>2, <3>1, Zenon
  <2> QED
    BY <2>1, <2>2, Zenon
<1>12. /\ (buf[2] >= 128) <=> mask
       /\ marker = second
  <2>1. CASE mask
    <3>1. buf[2] = second + 128
      BY <1>4, <1>6, <2>1, Zenon
    <3> QED
      BY <1>10, <2>1, <3>1, Zenon
  <2>2. CASE ~mask
    <3>1. buf[2] = second + 0
      BY <1>4, <1>6, <2>2, Zenon
    <3> QED
      BY <1>10, <2>2, <3>1, Zenon
  <2> QED
    BY <2>1, <2>2, Zenon
<1> HIDE DEF marker
<1> QED
  BY <1>3, <1>8, <1>11, <1>12, Zenon DEF marker, length, long

\* A stretch of a buffer.
LEMMA Stretch ==
    ASSUME NEW S, NEW s \in Seq(S), NEW m \in Nat, NEW n \in Nat, m <= n, n <= Len(s)
    PROVE  /\ SubSeq(s, m + 1, n) \in Seq(S) /\ Len(SubSeq(s, m + 1, n)) = n - m
           /\ \A k \in 1..n - m : SubSeq(s, m + 1, n)[k] = s[m + k]
<1>1. Len(s) \in Nat
  OBVIOUS
<1>2. /\ SubSeq(s, m + 1, n) \in Seq(S) /\ Len(SubSeq(s, m + 1, n)) = n - m
  BY <1>1
<1>3. ASSUME NEW k \in 1..n - m PROVE SubSeq(s, m + 1, n)[k] = s[m + k]
  BY <1>1
<1> QED
  BY <1>2, <1>3

\* The length in a header whose bytes are all there, and the key and the payload of a frame that is.
LEMMA BodyTells ==
    ASSUME NEW buf \in Seq(Bytes), NEW frame \in Writable, NEW mask \in BOOLEAN, NEW spelled,
           Spells(spelled, frame, mask), Begins(buf, spelled)
    PROVE  LET length == Len(frame.payload)
               long == Extended(length)
               start == Before(length, mask)
           IN  /\ long # 0 /\ Len(buf) >= 2 + long => Value(SubSeq(buf, 3, 2 + long)) = length
               /\ mask /\ Len(buf) >= start + length =>
                     /\ SubSeq(buf, start - 3, start) = Key
                     /\ SubSeq(buf, start + 1, start + length) = Masked(frame.payload, Key)
               /\ ~mask /\ Len(buf) >= start + length =>
                     SubSeq(buf, start + 1, start + length) = frame.payload
<1> DEFINE length == Len(frame.payload)
           long == Extended(length)
           start == Before(length, mask)
<1>1. /\ Inline \in Nat \ {0} /\ Word \in Nat /\ Key \in Seq({0, 1}) /\ Len(Key) = 4
  BY WebSocketAssumption
<1>2. frame.payload \in Seq({0, 1}) /\ length \in Nat /\ length < 256
  BY DEF Writable, Frames
<1>3. long \in {0, 2, 8}
  BY DEF Extended
<1> HIDE DEF length, long
<1>4. start = 2 + long + (IF mask THEN 4 ELSE 0)
  BY DEF Before, long
<1> HIDE DEF start
<1>5. /\ Len(spelled) = start + length
      /\ \A k \in 1..long : spelled[2 + k] = IF k = long THEN length ELSE 0
      /\ mask => \A k \in 1..4 : spelled[2 + long + k] = Key[k]
      /\ \A k \in 1..length : spelled[start + k] =
              IF mask THEN (frame.payload[k] + Key[((k - 1) % 4) + 1]) % 2 ELSE frame.payload[k]
  BY DEF Spells, length, long, start
<1>6. start \in Nat /\ start >= 2 + long /\ Len(buf) \in Nat /\ (mask => start = 2 + long + 4)
  BY <1>3, <1>4
<1>7. \A k \in 1..Len(buf) : k <= start + length => buf[k] = spelled[k]
  BY <1>5, Zenon DEF Begins
<1>8. ASSUME long # 0, Len(buf) >= 2 + long PROVE Value(SubSeq(buf, 3, 2 + long)) = length
  <2>1. 2 \in Nat /\ 2 + long \in Nat /\ 2 <= 2 + long /\ 2 + long <= Len(buf) /\ 2 + 1 = 3 /\ (2 + long) - 2 = long
    BY <1>3, <1>8
  <2> DEFINE size == SubSeq(buf, 2 + 1, 2 + long)
  <2>2. /\ size \in Seq(Bytes) /\ Len(size) = (2 + long) - 2
        /\ \A k \in 1..(2 + long) - 2 : size[k] = buf[2 + k]
    BY <2>1, Stretch
  <2> HIDE DEF size
  <2>3. \A k \in 1..long : 2 + k \in 1..Len(buf) /\ 2 + k <= start + length
    BY <1>2, <1>3, <1>6, <1>8
  <2>4. \A k \in 1..Len(size) : size[k] = IF k = Len(size) THEN length ELSE 0
    <3>1. Len(size) = long
      BY <2>1, <2>2
    <3>2. \A k \in 1..long : size[k] = buf[2 + k] /\ buf[2 + k] = spelled[2 + k]
      BY <1>7, <2>1, <2>2, <2>3, Zenon
    <3>3. \A k \in 1..long : size[k] = IF k = long THEN length ELSE 0
      BY <1>5, <3>2
    <3> QED
      BY <3>1, <3>3, Zenon
  <2>5. length \in Bytes /\ Len(size) > 0
    BY <1>2, <1>3, <1>8, <2>1, <2>2 DEF Bytes
  <2>6. Value(size) = length
    BY <2>2, <2>4, <2>5, ValueOfLength
  <2> QED
    BY <2>1, <2>6, Zenon DEF size
<1>9. ASSUME Len(buf) >= start + length
      PROVE  /\ SubSeq(buf, start + 1, start + length) \in Seq(Bytes)
             /\ Len(SubSeq(buf, start + 1, start + length)) = length
             /\ \A k \in 1..length : SubSeq(buf, start + 1, start + length)[k] = spelled[start + k]
  <2> DEFINE body == SubSeq(buf, start + 1, start + length)
  <2>1. start + length \in Nat /\ start <= start + length /\ start + length <= Len(buf) /\ (start + length) - start = length
    BY <1>2, <1>6, <1>9
  <2>2. /\ body \in Seq(Bytes) /\ Len(body) = (start + length) - start
        /\ \A k \in 1..(start + length) - start : body[k] = buf[start + k]
    BY <1>6, <2>1, Stretch
  <2> HIDE DEF body
  <2>3. \A k \in 1..length : start + k \in 1..Len(buf) /\ start + k <= start + length
    BY <1>2, <1>6, <1>9
  <2>4. \A k \in 1..length : body[k] = spelled[start + k]
    BY <1>7, <2>1, <2>2, <2>3, Zenon
  <2> QED
    BY <2>1, <2>2, <2>4, Zenon DEF body
<1>10. ASSUME mask, Len(buf) >= start + length
       PROVE  /\ SubSeq(buf, start - 3, start) = Key
              /\ SubSeq(buf, start + 1, start + length) = Masked(frame.payload, Key)
  <2>1. SubSeq(buf, start - 3, start) = Key
    <3> DEFINE from == 2 + long
               key == SubSeq(buf, from + 1, start)
    <3>1. from \in Nat /\ from <= start /\ start <= Len(buf) /\ start - from = 4 /\ from + 1 = start - 3
      BY <1>2, <1>3, <1>6, <1>10
    <3> HIDE DEF from
    <3>2. /\ key \in Seq(Bytes) /\ Len(key) = start - from
          /\ \A k \in 1..start - from : key[k] = buf[from + k]
      BY <1>6, <3>1, Stretch
    <3> HIDE DEF key
    <3>3. \A k \in 1..4 : from + k \in 1..Len(buf) /\ from + k <= start + length
      BY <1>2, <1>6, <3>1
    <3>4. \A k \in 1..4 : key[k] = Key[k]
      <4> TAKE k \in 1..4
      <4>1. key[k] = buf[from + k]
        BY <3>1, <3>2
      <4>2. buf[from + k] = spelled[from + k]
        BY <1>7, <3>3, Zenon
      <4>3. spelled[2 + long + k] = Key[k]
        BY <1>5, <1>10, Zenon
      <4> QED
        BY <4>1, <4>2, <4>3, Zenon DEF from
    <3>5. key = Key
      <4>1. Len(key) = 4 /\ Key \in Seq(Bytes)
        BY <1>1, <3>1, <3>2, SeqMonotonic DEF Bytes
      <4> QED
        BY <1>1, <3>2, <3>4, <4>1, SeqEqual
    <3> QED
      BY <3>1, <3>5, Zenon DEF key
  <2>2. PICK body \in Seq(Bytes) : /\ body = SubSeq(buf, start + 1, start + length) /\ Len(body) = length
                                   /\ \A k \in 1..length : body[k] = spelled[start + k]
    BY <1>9, <1>10, Zenon
  <2>3. PICK hidden \in Seq({0, 1}) :
           /\ hidden = Masked(frame.payload, Key) /\ Len(hidden) = length
           /\ \A k \in 1..length : hidden[k] = (frame.payload[k] + Key[((k - 1) % 4) + 1]) % 2
    BY <1>1, <1>2, MaskedFacts DEF length
  <2>4. \A k \in 1..length : body[k] = hidden[k]
    <3> TAKE k \in 1..length
    <3>1. body[k] = (frame.payload[k] + Key[((k - 1) % 4) + 1]) % 2
      BY <1>5, <1>10, <2>2, Zenon
    <3> QED
      BY <2>3, <3>1, Zenon
  <2>5. hidden \in Seq(Bytes)
    BY SeqMonotonic DEF Bytes
  <2>6. body = hidden
    BY <2>2, <2>3, <2>4, <2>5, SeqEqual
  <2> QED
    BY <2>1, <2>2, <2>3, <2>6, Zenon
<1>11. ASSUME ~mask, Len(buf) >= start + length
       PROVE  SubSeq(buf, start + 1, start + length) = frame.payload
  <2>1. PICK body \in Seq(Bytes) : /\ body = SubSeq(buf, start + 1, start + length) /\ Len(body) = length
                                   /\ \A k \in 1..length : body[k] = spelled[start + k]
    BY <1>9, <1>11, Zenon
  <2>2. \A k \in 1..length : body[k] = frame.payload[k]
    BY <1>5, <1>11, <2>1, Zenon
  <2>3. frame.payload \in Seq(Bytes)
    BY <1>2, SeqMonotonic DEF Bytes
  <2>4. body = frame.payload
    BY <2>1, <2>2, <2>3, SeqEqual DEF length
  <2> QED
    BY <2>1, <2>4, Zenon
<1> QED
  BY <1>8, <1>10, <1>11, Zenon DEF length, long, start

Partial == [state |-> "partial"]
Oversize == [state |-> "oversize"]

\* FirstFrame reads the frame that a buffer begins with, once there is enough of it.
LEMMA FirstFrameReads ==
    ASSUME NEW buf \in Seq(Bytes), NEW frame \in Writable, NEW mask \in BOOLEAN, NEW spelled,
           Spells(spelled, frame, mask), Begins(buf, spelled)
    PROVE  LET length == Len(frame.payload)
               need == 2 + Extended(length)
           IN  /\ Len(buf) < need => FirstFrame(buf) = Partial
               /\ Len(buf) >= need /\ length > MaxPayload => FirstFrame(buf) = Oversize
               /\ Len(buf) < Len(spelled) /\ length <= MaxPayload => FirstFrame(buf) = Partial
               /\ Len(buf) >= Len(spelled) /\ length <= MaxPayload =>
                     FirstFrame(buf) = [state |-> "whole", size |-> Len(spelled), frame |-> frame]
<1> DEFINE size == Len(frame.payload)
           long == Extended(size)
           before == Before(size, mask)
           marker == buf[2] % 128
           masked == buf[2] >= 128
           extended == IF marker = Inline THEN 2 ELSE IF marker = Inline + 1 THEN 8 ELSE 0
           known == Len(buf) >= 2 /\ Len(buf) >= 2 + extended
           length == IF extended = 0 THEN marker ELSE Value(SubSeq(buf, 3, 2 + extended))
           start == 2 + extended + (IF masked THEN 4 ELSE 0)
           body == SubSeq(buf, start + 1, start + length)
           payload == IF masked THEN Masked(body, SubSeq(buf, start - 3, start)) ELSE body
           read == [fin |-> buf[1] >= 128, opcode |-> buf[1] % 16, payload |-> payload]
<1>1. /\ Inline \in Nat \ {0} /\ MaxPayload \in Nat /\ Key \in Seq({0, 1}) /\ Len(Key) = 4
  BY WebSocketAssumption
<1>2. /\ frame.payload \in Seq({0, 1}) /\ size \in Nat /\ long \in {0, 2, 8} /\ Len(buf) \in Nat
      /\ frame = [fin |-> frame.fin, opcode |-> frame.opcode, payload |-> frame.payload]
      /\ frame.fin \in BOOLEAN
  BY DEF Writable, Frames, Extended
<1>3. FirstFrame(buf) = IF ~known THEN Partial
                        ELSE IF length > MaxPayload THEN Oversize
                        ELSE IF Len(buf) < start + length THEN Partial
                        ELSE [state |-> "whole", size |-> start + length, frame |-> read]
  BY Zenon DEF FirstFrame, Partial, Oversize
<1>4. ASSUME Len(buf) >= 2
      PROVE  /\ (buf[1] >= 128) <=> frame.fin
             /\ buf[1] % 16 = frame.opcode
             /\ masked <=> mask
             /\ extended = long
             /\ long = 0 => marker = size
  <2>1. /\ (buf[1] >= 128) <=> frame.fin
        /\ buf[1] % 16 = frame.opcode
        /\ masked <=> mask
        /\ (marker = Inline) <=> (long = 2)
        /\ (marker = Inline + 1) <=> (long = 8)
        /\ long = 0 => marker = size
    <3> HIDE DEF marker, masked, long, size
    <3>1. LET l == Len(frame.payload)
              e == Extended(l)
              m == buf[2] % 128
          IN  /\ (buf[1] >= 128) <=> frame.fin
              /\ buf[1] % 16 = frame.opcode
              /\ (buf[2] >= 128) <=> mask
              /\ (m = Inline) <=> (e = 2)
              /\ (m = Inline + 1) <=> (e = 8)
              /\ e = 0 => m = l
      BY <1>4, HeaderTells
    <3> QED
      BY <3>1, Zenon DEF marker, masked, long, size
  <2>2. extended = long
    <3> HIDE DEF marker, long
    <3> QED
      BY <1>2, <2>1
  <2> QED
    BY <2>1, <2>2, Zenon
<1>5. /\ long # 0 /\ Len(buf) >= 2 + long => Value(SubSeq(buf, 3, 2 + long)) = size
      /\ mask /\ Len(buf) >= before + size =>
            /\ SubSeq(buf, before - 3, before) = Key
            /\ SubSeq(buf, before + 1, before + size) = Masked(frame.payload, Key)
      /\ ~mask /\ Len(buf) >= before + size =>
            SubSeq(buf, before + 1, before + size) = frame.payload
  BY BodyTells, Zenon
<1>6. before = 2 + long + (IF mask THEN 4 ELSE 0) /\ Len(spelled) = before + size
  BY DEF Before, Spells
<1> HIDE DEF size, long, before, marker, masked
<1>7. ASSUME Len(buf) < 2 + long PROVE FirstFrame(buf) = Partial
  <2>1. ~known
    BY <1>2, <1>4, <1>7
  <2> HIDE DEF known
  <2> QED
    BY <1>3, <2>1, Zenon
<1>8. ASSUME Len(buf) >= 2 + long
      PROVE  /\ Len(buf) >= 2 /\ known /\ length = size /\ start = before
  <2>1. Len(buf) >= 2
    BY <1>2, <1>8
  <2>2. extended = long /\ (masked <=> mask)
    BY <1>4, <2>1
  <2>3. length = size
    <3>1. CASE long = 0
      BY <1>4, <2>1, <2>2, <3>1
    <3>2. CASE long # 0
      <4>1. Value(SubSeq(buf, 3, 2 + long)) = size
        BY <1>5, <1>8, <3>2, Zenon
      <4> HIDE DEF extended
      <4> QED
        BY <2>2, <3>2, <4>1
    <3> QED
      BY <3>1, <3>2
  <2>4. start = before
    <3> HIDE DEF extended
    <3> QED
      BY <1>6, <2>2, Zenon
  <2> HIDE DEF length, start
  <2> QED
    BY <1>8, <2>1, <2>2, <2>3, <2>4
<1>9. ASSUME Len(buf) >= 2 + long, size <= MaxPayload, Len(buf) >= Len(spelled)
      PROVE  read = frame
  <2>1. Len(buf) >= 2 /\ length = size /\ start = before
    BY <1>8, <1>9
  <2>2. /\ (buf[1] >= 128) <=> frame.fin
        /\ buf[1] % 16 = frame.opcode
        /\ masked <=> mask
    BY <1>4, <2>1
  <2>3. body = SubSeq(buf, before + 1, before + size) /\ Len(buf) >= before + size
    <3> HIDE DEF length, start
    <3> QED
      BY <1>6, <1>9, <2>1
  <2>4. payload = frame.payload
    <3> HIDE DEF body, length, start
    <3>1. CASE mask
      <4>1. body = Masked(frame.payload, Key) /\ SubSeq(buf, start - 3, start) = Key
        BY <1>5, <2>1, <2>3, <3>1, Zenon
      <4>2. payload = Masked(Masked(frame.payload, Key), Key)
        BY <2>2, <3>1, <4>1, Zenon
      <4>3. Masked(Masked(frame.payload, Key), Key) = frame.payload
        BY <1>1, <1>2, MaskedTwice
      <4> QED
        BY <4>2, <4>3, Zenon
    <3>2. CASE ~mask
      BY <1>5, <2>2, <2>3, <3>2, Zenon
    <3> QED
      BY <3>1, <3>2
  <2>5. (buf[1] >= 128) = frame.fin
    <3>1. (buf[1] >= 128) \in BOOLEAN
      OBVIOUS
    <3> QED
      BY <1>2, <2>2, <3>1, Zenon
  <2> HIDE DEF payload, length, start, body
  <2>6. read = [fin |-> frame.fin, opcode |-> frame.opcode, payload |-> frame.payload]
    BY <2>2, <2>4, <2>5, Zenon
  <2> QED
    BY <1>2, <2>6, Zenon
<1> HIDE DEF known, length, start, read, extended
<1>10. Len(spelled) >= 2 + long /\ Len(spelled) \in Nat /\ Len(spelled) = before + size
  BY <1>2, <1>6
<1>11. ASSUME Len(buf) >= 2 + long, size > MaxPayload PROVE FirstFrame(buf) = Oversize
  BY <1>3, <1>8, <1>11, Zenon
<1>12. ASSUME Len(buf) < Len(spelled), size <= MaxPayload PROVE FirstFrame(buf) = Partial
  <2>1. CASE Len(buf) < 2 + long
    BY <1>7, <2>1
  <2>2. CASE Len(buf) >= 2 + long
    <3>1. known /\ length = size /\ start = before /\ ~(size > MaxPayload)
      BY <1>1, <1>2, <1>8, <1>12, <2>2
    <3>2. Len(buf) < start + length
      BY <1>10, <1>12, <3>1, Zenon
    <3> QED
      BY <1>3, <3>1, <3>2, Zenon
  <2> QED
    BY <1>2, <2>1, <2>2
<1>13. ASSUME Len(buf) >= Len(spelled), size <= MaxPayload
       PROVE  FirstFrame(buf) = [state |-> "whole", size |-> Len(spelled), frame |-> frame]
  <2>1. Len(buf) >= 2 + long
    BY <1>2, <1>10, <1>13
  <2>2. known /\ length = size /\ start = before /\ ~(size > MaxPayload)
    BY <1>1, <1>2, <1>8, <1>13, <2>1
  <2>3. ~(Len(buf) < start + length) /\ start + length = Len(spelled)
    <3>1. start + length = Len(spelled)
      BY <1>10, <2>2, Zenon
    <3>2. ~(Len(buf) < Len(spelled))
      BY <1>2, <1>10, <1>13
    <3> QED
      BY <3>1, <3>2, Zenon
  <2>4. read = frame
    BY <1>9, <1>13, <2>1
  <2> QED
    BY <1>3, <2>2, <2>3, <2>4, Zenon
<1> QED
  BY <1>7, <1>11, <1>12, <1>13, Zenon DEF size, long

\* The first frame is in the buffer when it is whole; what is whole, or too large, stays so
\* when more bytes come.
LEMMA FirstFrameStays ==
    ASSUME NEW buf \in Seq(Bytes)
    PROVE  /\ FirstFrame(buf).state \in {"whole", "partial", "oversize"}
           /\ FirstFrame(buf).state = "whole" => FirstFrame(buf).size \in 2..Len(buf)
           /\ \A more \in Seq(Bytes) : FirstFrame(buf).state \in {"whole", "oversize"} =>
                 FirstFrame(buf \o more) = FirstFrame(buf)
           /\ Len(buf) = 0 => FirstFrame(buf) = Partial
<1> DEFINE marker(b) == b[2] % 128
           masked(b) == b[2] >= 128
           extended(b) == IF marker(b) = Inline THEN 2 ELSE IF marker(b) = Inline + 1 THEN 8 ELSE 0
           known(b) == Len(b) >= 2 /\ Len(b) >= 2 + extended(b)
           length(b) == IF extended(b) = 0 THEN marker(b) ELSE Value(SubSeq(b, 3, 2 + extended(b)))
           start(b) == 2 + extended(b) + (IF masked(b) THEN 4 ELSE 0)
           body(b) == SubSeq(b, start(b) + 1, start(b) + length(b))
           payload(b) == IF masked(b) THEN Masked(body(b), SubSeq(b, start(b) - 3, start(b))) ELSE body(b)
           read(b) == [fin |-> b[1] >= 128, opcode |-> b[1] % 16, payload |-> payload(b)]
           whole(b) == [state |-> "whole", size |-> start(b) + length(b), frame |-> read(b)]
           Is(b) == FirstFrame(b) = IF ~known(b) THEN Partial
                                    ELSE IF length(b) > MaxPayload THEN Oversize
                                    ELSE IF Len(b) < start(b) + length(b) THEN Partial
                                    ELSE whole(b)
<1>1. MaxPayload \in Nat /\ Len(buf) \in Nat
  BY WebSocketAssumption
<1>2. ASSUME NEW b PROVE Is(b)
  BY Zenon DEF FirstFrame, Partial, Oversize
<1>3. extended(buf) \in {0, 2, 8} /\ start(buf) \in Nat /\ start(buf) >= 2 + extended(buf)
      /\ (masked(buf) => start(buf) = 2 + extended(buf) + 4)
  <2>1. extended(buf) \in {0, 2, 8}
    OBVIOUS
  <2> HIDE DEF extended
  <2> QED
    BY <2>1
<1>4. ASSUME known(buf) PROVE length(buf) \in Nat
  <2>1. CASE extended(buf) = 0
    <3>1. 2 \in 1..Len(buf)
      BY <1>1, <1>4
    <3>2. buf[2] \in Bytes
      BY <3>1
    <3>3. marker(buf) \in Nat
      <4>1. \A byte \in Bytes : byte % 128 \in Nat
        BY DEF Bytes
      <4> QED
        BY <3>2, <4>1, Zenon
    <3> HIDE DEF extended, marker
    <3> QED
      BY <2>1, <3>3
  <2>2. CASE extended(buf) # 0
    <3> HIDE DEF extended
    <3>1. 2 \in Nat /\ 2 + extended(buf) \in Nat /\ 2 <= 2 + extended(buf) /\ 2 + extended(buf) <= Len(buf) /\ 2 + 1 = 3
      BY <1>3, <1>4
    <3>2. SubSeq(buf, 2 + 1, 2 + extended(buf)) \in Seq(Bytes)
      BY <3>1, Stretch
    <3>3. Value(SubSeq(buf, 3, 2 + extended(buf))) \in Nat
      BY <3>1, <3>2, ValueTyped
    <3> QED
      BY <2>2, <3>3
  <2> QED
    BY <2>1, <2>2
<1>5. whole(buf).state = "whole" /\ whole(buf).size = start(buf) + length(buf)
      /\ Partial.state = "partial" /\ Oversize.state = "oversize"
  <2> HIDE DEF start, length, read
  <2> QED
    BY DEF Partial, Oversize
<1>6. ASSUME Len(buf) = 0 PROVE FirstFrame(buf) = Partial
  <2>1. ~known(buf)
    BY <1>6
  <2>2. Is(buf)
    BY <1>2
  <2> HIDE DEF known, length, start, whole
  <2> QED
    BY <2>1, <2>2, Zenon
<1>7. ASSUME NEW more \in Seq(Bytes), known(buf)
      PROVE  /\ Len(buf \o more) >= Len(buf) /\ Len(buf \o more) \in Nat
             /\ known(buf \o more) /\ length(buf \o more) = length(buf) /\ start(buf \o more) = start(buf)
             /\ Len(buf) >= start(buf) + length(buf) => whole(buf \o more) = whole(buf)
  <2>1. PICK both \in Seq(Bytes) : both = buf \o more /\ IsConcat(both, buf, more, Bytes)
    BY ConcatIs, ConcatProperties
  <2>2. Len(both) \in Nat /\ Len(both) >= Len(buf) /\ \A k \in 1..Len(buf) : both[k] = buf[k]
    BY <1>1, <2>1 DEF IsConcat
  <2>3. both[1] = buf[1] /\ both[2] = buf[2]
    <3>1. 1 \in 1..Len(buf) /\ 2 \in 1..Len(buf)
      BY <1>1, <1>7
    <3> QED
      BY <2>2, <3>1, Zenon
  <2>4. marker(both) = marker(buf) /\ (masked(both) = masked(buf))
    BY <2>3, Zenon
  <2>5. extended(both) = extended(buf)
    BY <2>4, Zenon
  <2>6. start(both) = start(buf)
    BY <2>4, <2>5, Zenon
  <2>7. known(both)
    <3> HIDE DEF extended
    <3> QED
      BY <1>1, <1>3, <1>7, <2>2, <2>5
  <2>8. \A m, n \in Nat : m <= n /\ n <= Len(buf) => SubSeq(both, m + 1, n) = SubSeq(buf, m + 1, n)
    <3> TAKE m, n \in Nat
    <3> HAVE m <= n /\ n <= Len(buf)
    <3>1. n <= Len(both)
      BY <1>1, <2>2
    <3>2. /\ SubSeq(both, m + 1, n) \in Seq(Bytes) /\ Len(SubSeq(both, m + 1, n)) = n - m
          /\ \A k \in 1..n - m : SubSeq(both, m + 1, n)[k] = both[m + k]
      BY <3>1, Stretch
    <3>3. /\ SubSeq(buf, m + 1, n) \in Seq(Bytes) /\ Len(SubSeq(buf, m + 1, n)) = n - m
          /\ \A k \in 1..n - m : SubSeq(buf, m + 1, n)[k] = buf[m + k]
      BY Stretch
    <3>4. \A k \in 1..n - m : m + k \in 1..Len(buf)
      BY <1>1
    <3>5. \A k \in 1..n - m : SubSeq(both, m + 1, n)[k] = SubSeq(buf, m + 1, n)[k]
      BY <2>2, <3>2, <3>3, <3>4, Zenon
    <3> QED
      BY <3>2, <3>3, <3>5, SeqEqual
  <2> HIDE DEF marker, masked, extended, start
  <2>9. length(both) = length(buf)
    <3>1. CASE extended(buf) = 0
      BY <2>4, <2>5, <3>1, Zenon
    <3>2. CASE extended(buf) # 0
      <4>1. 2 \in Nat /\ 2 + extended(buf) \in Nat /\ 2 <= 2 + extended(buf) /\ 2 + extended(buf) <= Len(buf) /\ 2 + 1 = 3
        BY <1>3, <1>7
      <4>2. SubSeq(both, 2 + 1, 2 + extended(buf)) = SubSeq(buf, 2 + 1, 2 + extended(buf))
        BY <2>8, <4>1, Zenon
      <4>3. SubSeq(both, 3, 2 + extended(buf)) = SubSeq(buf, 3, 2 + extended(buf))
        BY <4>1, <4>2
      <4> QED
        BY <2>5, <3>2, <4>3, Zenon
    <3> QED
      BY <3>1, <3>2
  <2>10. ASSUME Len(buf) >= start(buf) + length(buf) PROVE whole(both) = whole(buf)
    <3>1. length(buf) \in Nat
      BY <1>4, <1>7
    <3> HIDE DEF length
    <3>2. /\ start(buf) + length(buf) \in Nat /\ start(buf) <= start(buf) + length(buf)
          /\ start(buf) + length(buf) <= Len(buf)
      BY <1>1, <1>3, <2>10, <3>1
    <3>3. body(both) = body(buf)
      <4>1. SubSeq(both, start(buf) + 1, start(buf) + length(buf)) = SubSeq(buf, start(buf) + 1, start(buf) + length(buf))
        BY <1>3, <2>8, <3>2, Zenon
      <4> QED
        BY <2>6, <2>9, <4>1, Zenon
    <3> HIDE DEF body
    <3>4. payload(both) = payload(buf)
      <4>1. CASE masked(buf)
        <5>1. /\ start(buf) - 4 \in Nat /\ start(buf) - 4 <= start(buf) /\ start(buf) <= Len(buf)
              /\ (start(buf) - 4) + 1 = start(buf) - 3
          BY <1>1, <1>3, <3>1, <3>2, <4>1
        <5>2. SubSeq(both, (start(buf) - 4) + 1, start(buf)) = SubSeq(buf, (start(buf) - 4) + 1, start(buf))
          BY <1>3, <2>8, <5>1, Zenon
        <5>3. SubSeq(both, start(both) - 3, start(both)) = SubSeq(buf, start(buf) - 3, start(buf))
          BY <2>6, <5>1, <5>2, Zenon
        <5> QED
          BY <2>4, <3>3, <4>1, <5>3, Zenon
      <4>2. CASE ~masked(buf)
        BY <2>4, <3>3, <4>2, Zenon
      <4> QED
        BY <4>1, <4>2
    <3> HIDE DEF payload
    <3> QED
      BY <2>3, <2>6, <2>9, <3>4, Zenon
  <2> HIDE DEF known, length, whole
  <2> QED
    BY <2>1, <2>2, <2>6, <2>7, <2>9, <2>10, Zenon
<1>8. Is(buf) /\ \A more \in Seq(Bytes) : Is(buf \o more)
  BY <1>2
<1> HIDE DEF known, length, start, whole, extended, masked
<1>9. FirstFrame(buf).state \in {"whole", "partial", "oversize"}
  BY <1>5, <1>8, Zenon
<1>10. ASSUME FirstFrame(buf).state = "whole"
       PROVE  /\ known(buf) /\ ~(length(buf) > MaxPayload) /\ ~(Len(buf) < start(buf) + length(buf))
              /\ FirstFrame(buf) = whole(buf)
  <2>1. Partial.state # "whole" /\ Oversize.state # "whole"
    BY <1>5
  <2> QED
    BY <1>8, <1>10, <2>1, Zenon
<1>11. ASSUME FirstFrame(buf).state = "oversize"
       PROVE  known(buf) /\ length(buf) > MaxPayload /\ FirstFrame(buf) = Oversize
  <2>1. Partial.state # "oversize" /\ whole(buf).state # "oversize"
    BY <1>5
  <2> QED
    BY <1>8, <1>11, <2>1, Zenon
<1>12. ASSUME FirstFrame(buf).state = "whole" PROVE FirstFrame(buf).size \in 2..Len(buf)
  <2>1. known(buf) /\ ~(Len(buf) < start(buf) + length(buf)) /\ FirstFrame(buf) = whole(buf)
    BY <1>10, <1>12
  <2>2. length(buf) \in Nat /\ FirstFrame(buf).size = start(buf) + length(buf)
    BY <1>4, <1>5, <2>1, Zenon
  <2> QED
    BY <1>1, <1>3, <2>1, <2>2
<1>13. ASSUME NEW more \in Seq(Bytes), FirstFrame(buf).state = "whole"
       PROVE  FirstFrame(buf \o more) = FirstFrame(buf)
  <2>1. known(buf) /\ ~(length(buf) > MaxPayload) /\ ~(Len(buf) < start(buf) + length(buf)) /\ FirstFrame(buf) = whole(buf)
    BY <1>10, <1>13
  <2>2. length(buf) \in Nat
    BY <1>4, <2>1
  <2>3. Len(buf) >= start(buf) + length(buf)
    BY <1>1, <1>3, <2>1, <2>2
  <2>4. /\ Len(buf \o more) >= Len(buf) /\ Len(buf \o more) \in Nat
        /\ known(buf \o more) /\ length(buf \o more) = length(buf) /\ start(buf \o more) = start(buf)
        /\ whole(buf \o more) = whole(buf)
    BY <1>7, <2>1, <2>3
  <2>5. ~(Len(buf \o more) < start(buf) + length(buf))
    <3>1. start(buf) + length(buf) \in Nat
      BY <1>3, <2>2
    <3> QED
      BY <1>1, <2>3, <2>4, <3>1
  <2>6. Is(buf \o more)
    BY <1>8
  <2> QED
    BY <2>1, <2>4, <2>5, <2>6, Zenon
<1>14. ASSUME NEW more \in Seq(Bytes), FirstFrame(buf).state = "oversize"
       PROVE  FirstFrame(buf \o more) = FirstFrame(buf)
  <2>1. known(buf) /\ length(buf) > MaxPayload /\ FirstFrame(buf) = Oversize
    BY <1>11, <1>14
  <2>2. known(buf \o more) /\ length(buf \o more) = length(buf)
    BY <1>7, <2>1
  <2>3. Is(buf \o more)
    BY <1>8
  <2> QED
    BY <2>1, <2>2, <2>3, Zenon
<1> QED
  BY <1>6, <1>9, <1>12, <1>13, <1>14, Zenon

\* The decoding of a buffer, from each of its places: it goes on after a whole frame.
GoesThrough(g, buf) ==
    \A i \in 1..Len(buf) + 1 :
       LET first == FirstFrame(SubSeq(buf, i, Len(buf)))
       IN  g[i] = IF first.state = "whole"
                  THEN [g[i + first.size] EXCEPT !.frames = <<first.frame>> \o @]
                  ELSE [state |-> first.state, frames |-> <<>>, rest |-> SubSeq(buf, i, Len(buf))]

\* DecodeFrames goes through its buffer.
LEMMA DecodeGoesThrough ==
    ASSUME NEW buf \in Seq(Bytes)
    PROVE  \E g : GoesThrough(g, buf) /\ DecodeFrames(buf) = g[1]
<1> DEFINE N == Len(buf)
           first(i) == FirstFrame(SubSeq(buf, i, N))
           Next1(g, i) == IF first(i).state = "whole"
                          THEN [g[i + first(i).size] EXCEPT !.frames = <<first(i).frame>> \o @]
                          ELSE [state |-> first(i).state, frames |-> <<>>, rest |-> SubSeq(buf, i, N)]
           from[start \in 1..N + 1] ==
               LET rest == SubSeq(buf, start, N)
                   head == FirstFrame(rest)
               IN  IF head.state = "whole"
                   THEN [from[start + head.size] EXCEPT !.frames = <<head.frame>> \o @]
                   ELSE [state |-> head.state, frames |-> <<>>, rest |-> rest]
           Works(g, m) == \A i \in m..N + 1 : g[i] = Next1(g, i)
           Far == {n \in Nat : n <= N => \E g : Works(g, N + 1 - n)}
<1>1. N \in Nat
  OBVIOUS
<1>2. ASSUME NEW i \in 1..N + 1, first(i).state = "whole" PROVE i + first(i).size \in i + 1..N + 1
  <2>1. i - 1 \in Nat /\ N \in Nat /\ i - 1 <= N /\ N <= Len(buf) /\ (i - 1) + 1 = i
    OBVIOUS
  <2>2. SubSeq(buf, (i - 1) + 1, N) \in Seq(Bytes) /\ Len(SubSeq(buf, (i - 1) + 1, N)) = N - (i - 1)
    BY <2>1, Stretch
  <2> DEFINE rest == SubSeq(buf, i, N)
  <2>3. rest \in Seq(Bytes) /\ Len(rest) = N - (i - 1)
    BY <2>1, <2>2
  <2>4. FirstFrame(rest).state = "whole"
    BY <1>2
  <2> HIDE DEF rest
  <2>5. FirstFrame(rest).size \in 2..Len(rest)
    BY <2>3, <2>4, FirstFrameStays
  <2>6. first(i).size \in 2..N - (i - 1)
    BY <2>3, <2>5, Zenon DEF rest
  <2> HIDE DEF first, N
  <2> QED
    BY <1>1, <2>6
<1> HIDE DEF N, first
<1>3. ASSUME NEW g, NEW h, NEW i \in 1..N + 1, \A j \in i + 1..N + 1 : g[j] = h[j]
      PROVE  Next1(g, i) = Next1(h, i)
  <2>1. CASE first(i).state = "whole"
    <3>1. g[i + first(i).size] = h[i + first(i).size]
      BY <1>2, <1>3, <2>1
    <3> QED
      BY <2>1, <3>1, Zenon
  <2>2. CASE first(i).state # "whole"
    BY <2>2, Zenon
  <2> QED
    BY <2>1, <2>2
<1>4. 0 \in Far
  <2> DEFINE g == [i \in 1..N + 1 |-> [state |-> first(i).state, frames |-> <<>>, rest |-> SubSeq(buf, i, N)]]
  <2>1. \A i \in N + 1 - 0..N + 1 : i \in 1..N + 1 /\ i = N + 1
    BY <1>1
  <2>2. \A i \in 1..N + 1 : i = N + 1 => first(i).state # "whole"
    <3> TAKE i \in 1..N + 1
    <3> HAVE i = N + 1
    <3> SUFFICES ASSUME first(i).state = "whole" PROVE FALSE
      OBVIOUS
    <3>1. i + first(i).size \in i + 1..N + 1
      BY <1>2
    <3> QED
      BY <1>1, <3>1
  <2>3. \A i \in N + 1 - 0..N + 1 : g[i] = Next1(g, i)
    BY <2>1, <2>2
  <2> HIDE DEF g, Next1
  <2> QED
    BY <2>3
<1> HIDE DEF Next1
<1>5. \A n \in Nat : n \in Far => n + 1 \in Far
  <2> TAKE n \in Nat
  <2> HAVE n \in Far
  <2> SUFFICES ASSUME n + 1 <= N PROVE \E g : Works(g, N + 1 - (n + 1))
    OBVIOUS
  <2>1. PICK g : Works(g, N + 1 - n)
    BY <1>1
  <2> DEFINE m == N + 1 - (n + 1)
             h == [i \in 1..N + 1 |-> IF i = m THEN Next1(g, m) ELSE g[i]]
  <2>2. m \in 1..N + 1 /\ N + 1 - n = m + 1
    BY <1>1
  <2> HIDE DEF m
  <2>3. h[m] = Next1(g, m) /\ \A i \in m + 1..N + 1 : i \in 1..N + 1 /\ i # m /\ h[i] = g[i]
    BY <1>1, <2>2
  <2> HIDE DEF h
  <2>4. ASSUME NEW i \in m..N + 1 PROVE h[i] = Next1(h, i)
    <3>1. i \in 1..N + 1 /\ \A j \in i + 1..N + 1 : j \in m + 1..N + 1
      BY <1>1, <2>2
    <3>2. \A j \in i + 1..N + 1 : g[j] = h[j]
      BY <2>3, <3>1, Zenon
    <3>3. Next1(g, i) = Next1(h, i)
      BY <1>3, <3>1, <3>2
    <3>4. CASE i = m
      BY <2>3, <3>3, <3>4, Zenon
    <3>5. CASE i # m
      <4>1. i \in m + 1..N + 1
        BY <1>1, <2>2, <3>5
      <4>2. g[i] = Next1(g, i)
        BY <2>1, <2>2, <4>1, Zenon
      <4> QED
        BY <2>3, <3>3, <4>1, <4>2, Zenon
    <3> QED
      BY <3>4, <3>5
  <2>5. Works(h, m)
    BY <2>4
  <2> HIDE DEF Works
  <2> QED
    BY <2>5 DEF m
<1>6. PICK g : Works(g, 1)
  <2>1. N \in Far
    <3> HIDE DEF Far
    <3> QED
      BY <1>1, <1>4, <1>5, AllNumbers
  <2>2. \E g : Works(g, N + 1 - N)
    BY <1>1, <2>1
  <2>3. N + 1 - N = 1
    BY <1>1
  <2> HIDE DEF Works
  <2> QED
    BY <2>2, <2>3
<1>7. from = [i \in 1..N + 1 |-> Next1(from, i)]
  <2> DEFINE h == [i \in 1..N + 1 |-> g[i]]
  <2>1. \A i \in 1..N + 1 : h[i] = g[i]
    OBVIOUS
  <2> HIDE DEF h
  <2>2. \A i \in 1..N + 1 : h[i] = Next1(h, i)
    <3> TAKE i \in 1..N + 1
    <3>1. \A j \in i + 1..N + 1 : j \in 1..N + 1
      BY <1>1
    <3>2. \A j \in i + 1..N + 1 : g[j] = h[j]
      BY <2>1, <3>1, Zenon
    <3>3. Next1(g, i) = Next1(h, i)
      BY <1>3, <3>2
    <3> QED
      BY <1>6, <2>1, <3>3, Zenon
  <2>3. h = [i \in 1..N + 1 |-> Next1(h, i)]
    BY <2>2 DEF h
  <2> QED
    BY <2>3 DEF Next1, first
<1>8. DecodeFrames(buf) = from[1]
  BY DEF DecodeFrames, N
<1> HIDE DEF from
<1>9. \A i \in 1..N + 1 : from[i] = Next1(from, i)
  BY <1>7, Zenon
<1>10. GoesThrough(from, buf)
  BY <1>9, Zenon DEF GoesThrough, Next1, first, N
<1> QED
  BY <1>8, <1>10, Zenon

\* How the bytes of a buffer and those that come after it are cut where something that is spelled ends.
LEMMA CutHead ==
    ASSUME NEW rest \in Seq(Bytes), NEW more \in Seq(Bytes), NEW spelled \in Seq(Bytes), NEW tail \in Seq(Bytes),
           rest \o more = spelled \o tail
    PROVE  /\ Begins(rest, spelled)
           /\ Len(rest) + Len(more) = Len(spelled) + Len(tail)
           /\ Len(rest) >= Len(spelled) => SubSeq(rest, Len(spelled) + 1, Len(rest)) \o more = tail
<1>1. PICK all \in Seq(Bytes) : /\ all = rest \o more /\ all = spelled \o tail
                                /\ IsConcat(all, rest, more, Bytes) /\ IsConcat(all, spelled, tail, Bytes)
  <2>1. IsConcat(rest \o more, rest, more, Bytes) /\ IsConcat(spelled \o tail, spelled, tail, Bytes)
    BY ConcatIs
  <2>2. rest \o more \in Seq(Bytes)
    BY <2>1, Zenon DEF IsConcat
  <2> QED
    BY <2>1, <2>2, Zenon
<1>2. Len(rest) \in Nat /\ Len(more) \in Nat /\ Len(spelled) \in Nat /\ Len(tail) \in Nat
  OBVIOUS
<1>3. Len(rest) + Len(more) = Len(spelled) + Len(tail)
  BY <1>1, Zenon DEF IsConcat
<1>4. Begins(rest, spelled)
  <2>1. \A k \in 1..Len(rest) : k <= Len(spelled) => k \in 1..Len(spelled)
    BY <1>2
  <2> QED
    BY <1>1, <2>1, Zenon DEF IsConcat, Begins
<1>5. ASSUME Len(rest) >= Len(spelled) PROVE SubSeq(rest, Len(spelled) + 1, Len(rest)) \o more = tail
  <2> DEFINE piece == SubSeq(rest, Len(spelled) + 1, Len(rest))
             n == Len(spelled)
  <2>1. /\ piece \in Seq(Bytes) /\ Len(piece) = Len(rest) - n
        /\ \A k \in 1..Len(rest) - n : piece[k] = rest[n + k]
    BY <1>2, <1>5, Stretch
  <2> HIDE DEF piece
  <2>2. PICK both \in Seq(Bytes) : both = piece \o more /\ IsConcat(both, piece, more, Bytes)
    <3>1. IsConcat(piece \o more, piece, more, Bytes)
      BY <2>1, ConcatIs
    <3> QED
      BY <3>1, Zenon DEF IsConcat
  <2>3. Len(both) = Len(tail)
    <3>1. Len(both) = Len(piece) + Len(more)
      BY <2>2, Zenon DEF IsConcat
    <3> QED
      BY <1>2, <1>3, <2>1, <3>1
  <2>4. ASSUME NEW k \in 1..Len(tail) PROVE both[k] = tail[k]
    <3>1. all[n + k] = tail[k]
      BY <1>1, Zenon DEF IsConcat
    <3>2. CASE k <= Len(piece)
      <4>1. k \in 1..Len(piece) /\ k \in 1..Len(rest) - n /\ n + k \in 1..Len(rest)
        BY <1>2, <1>5, <2>1, <3>2
      <4>2. both[k] = piece[k] /\ piece[k] = rest[n + k] /\ all[n + k] = rest[n + k]
        BY <1>1, <2>1, <2>2, <4>1, Zenon DEF IsConcat
      <4> QED
        BY <3>1, <4>2, Zenon
    <3>3. CASE ~(k <= Len(piece))
      <4>1. PICK j \in 1..Len(more) : k = Len(piece) + j
        <5>1. k - Len(piece) \in 1..Len(more) /\ k = Len(piece) + (k - Len(piece))
          BY <1>2, <1>3, <1>5, <2>1, <3>3
        <5> QED
          BY <5>1, Zenon
      <4>2. n + k = Len(rest) + j
        BY <1>2, <2>1, <4>1
      <4>3. both[k] = more[j] /\ all[Len(rest) + j] = more[j]
        BY <1>1, <2>2, <4>1, Zenon DEF IsConcat
      <4> QED
        BY <3>1, <4>2, <4>3, Zenon
    <3> QED
      BY <3>2, <3>3
  <2>5. both = tail
    BY <2>3, <2>4, SeqEqual
  <2> QED
    BY <2>2, <2>5, Zenon DEF piece
<1> QED
  BY <1>3, <1>4, <1>5

\* What is left of a buffer from one place is cut again.
LEMMA CutAgain ==
    ASSUME NEW buf \in Seq(Bytes), NEW i \in 1..Len(buf) + 1, NEW n \in Nat, n <= Len(buf) + 1 - i
    PROVE  LET rest == SubSeq(buf, i, Len(buf))
           IN  /\ rest \in Seq(Bytes) /\ Len(rest) = Len(buf) + 1 - i
               /\ SubSeq(rest, n + 1, Len(rest)) = SubSeq(buf, i + n, Len(buf))
<1> DEFINE rest == SubSeq(buf, i, Len(buf))
           N == Len(buf)
<1>1. N \in Nat /\ i - 1 \in Nat /\ i - 1 <= N /\ (i - 1) + 1 = i /\ N - (i - 1) = N + 1 - i
      /\ (i - 1) + n \in Nat /\ (i - 1) + n <= N /\ ((i - 1) + n) + 1 = i + n
      /\ N - ((i - 1) + n) = (N + 1 - i) - n
  OBVIOUS
<1>2. /\ rest \in Seq(Bytes) /\ Len(rest) = N + 1 - i
      /\ \A k \in 1..N + 1 - i : rest[k] = buf[(i - 1) + k]
  <2> DEFINE piece == SubSeq(buf, (i - 1) + 1, N)
  <2>1. N <= Len(buf)
    BY <1>1
  <2>2. /\ piece \in Seq(Bytes) /\ Len(piece) = N - (i - 1)
        /\ \A k \in 1..N - (i - 1) : piece[k] = buf[(i - 1) + k]
    BY <1>1, <2>1, Stretch
  <2>3. piece = rest
    BY <1>1
  <2> HIDE DEF piece, rest, N
  <2> QED
    BY <1>1, <2>2, <2>3
<1> HIDE DEF rest
<1>3. /\ SubSeq(rest, n + 1, Len(rest)) \in Seq(Bytes) /\ Len(SubSeq(rest, n + 1, Len(rest))) = Len(rest) - n
      /\ \A k \in 1..Len(rest) - n : SubSeq(rest, n + 1, Len(rest))[k] = rest[n + k]
  BY <1>1, <1>2, Stretch
<1>4. /\ SubSeq(buf, ((i - 1) + n) + 1, N) \in Seq(Bytes)
      /\ Len(SubSeq(buf, ((i - 1) + n) + 1, N)) = N - ((i - 1) + n)
      /\ \A k \in 1..N - ((i - 1) + n) : SubSeq(buf, ((i - 1) + n) + 1, N)[k] = buf[((i - 1) + n) + k]
  BY <1>1, Stretch
<1>5. SubSeq(rest, n + 1, Len(rest)) = SubSeq(buf, ((i - 1) + n) + 1, N)
  <2> DEFINE a == SubSeq(rest, n + 1, Len(rest))
             b == SubSeq(buf, ((i - 1) + n) + 1, N)
  <2>1. Len(a) = Len(b) /\ Len(a) = (N + 1 - i) - n
    BY <1>1, <1>2, <1>3, <1>4
  <2>2. ASSUME NEW k \in 1..Len(a) PROVE a[k] = b[k]
    <3>1. k \in 1..Len(rest) - n /\ k \in 1..N - ((i - 1) + n) /\ n + k \in 1..N + 1 - i
          /\ (i - 1) + (n + k) = ((i - 1) + n) + k
      BY <1>1, <1>2, <2>1
    <3>2. a[k] = rest[n + k] /\ rest[n + k] = buf[(i - 1) + (n + k)] /\ b[k] = buf[((i - 1) + n) + k]
      BY <1>2, <1>3, <1>4, <3>1, Zenon
    <3> QED
      BY <3>1, <3>2
  <2> HIDE DEF a, b
  <2>3. a \in Seq(Bytes) /\ b \in Seq(Bytes)
    BY <1>3, <1>4 DEF a, b
  <2>4. a = b
    BY <2>1, <2>2, <2>3, SeqEqual
  <2> QED
    BY <2>4 DEF a, b
<1> QED
  BY <1>1, <1>2, <1>5 DEF rest

\* What decoding gives of frames of which so many are whole.
Reads(result, frames, more, mask, m, state, rest) ==
    /\ result = [state |-> state, frames |-> SubSeq(frames, 1, m), rest |-> rest]
    /\ state \in {"partial", "oversize"} /\ rest \in Seq(Bytes)
    /\ rest \o more = Encoded(SubSeq(frames, m + 1, Len(frames)), mask)
    /\ \A k \in 1..m : Len(frames[k].payload) <= MaxPayload
    /\ state = "oversize" => m < Len(frames) /\ Len(frames[m + 1].payload) > MaxPayload
    /\ state = "partial" /\ Len(more) = 0 => m = Len(frames)

Parsed(result, frames, more, mask) ==
    \E m \in 0..Len(frames), state \in {"partial", "oversize"}, rest \in Seq(Bytes) : Reads(result, frames, more, mask, m, state, rest)

\* Where the first frame is not whole, decoding ends.
LEMMA ParsedEnd ==
    ASSUME NEW frames \in Seq(Writable), NEW more \in Seq(Bytes), NEW mask \in BOOLEAN,
           NEW rest \in Seq(Bytes), NEW state \in {"partial", "oversize"},
           rest \o more = Encoded(frames, mask),
           state = "oversize" => Len(frames) > 0 /\ Len(frames[1].payload) > MaxPayload,
           state = "partial" /\ Len(more) = 0 => Len(frames) = 0
    PROVE  Parsed([state |-> state, frames |-> <<>>, rest |-> rest], frames, more, mask)
<1>1. Len(frames) \in Nat /\ 0 \in 0..Len(frames)
  OBVIOUS
<1>2. SubSeq(frames, 1, 0) = <<>> /\ SubSeq(frames, 0 + 1, Len(frames)) = frames
  BY SubSeqEmpty, SubSeqFull
<1>3. /\ [state |-> state, frames |-> <<>>, rest |-> rest] = [state |-> state, frames |-> SubSeq(frames, 1, 0), rest |-> rest]
      /\ rest \o more = Encoded(SubSeq(frames, 0 + 1, Len(frames)), mask)
  BY <1>2, Zenon
<1>4. /\ \A k \in 1..0 : Len(frames[k].payload) <= MaxPayload
      /\ state = "oversize" => 0 < Len(frames) /\ Len(frames[0 + 1].payload) > MaxPayload
      /\ state = "partial" /\ Len(more) = 0 => 0 = Len(frames)
  BY <1>1
<1>5. Reads([state |-> state, frames |-> <<>>, rest |-> rest], frames, more, mask, 0, state, rest)
  BY <1>3, <1>4, Zenon DEF Reads
<1> QED
  BY <1>1, <1>5, Zenon DEF Parsed

\* Behind a whole frame, it goes on.
LEMMA ParsedOn ==
    ASSUME NEW frames \in Seq(Writable), NEW more \in Seq(Bytes), NEW mask \in BOOLEAN,
           Len(frames) > 0, Len(frames[1].payload) <= MaxPayload,
           NEW result, Parsed(result, SubSeq(frames, 2, Len(frames)), more, mask)
    PROVE  Parsed([result EXCEPT !.frames = <<frames[1]>> \o @], frames, more, mask)
<1> DEFINE tail == SubSeq(frames, 2, Len(frames))
           first == frames[1]
           N == Len(frames)
<1>1. N \in Nat /\ N > 0 /\ 1 \in 0..N /\ first \in Writable
  OBVIOUS
<1>2. /\ tail \in Seq(Writable) /\ Len(tail) = N - 1
      /\ \A k \in 1..N - 1 : tail[k] = frames[1 + k]
  <2>1. /\ SubSeq(frames, 1 + 1, N) \in Seq(Writable) /\ Len(SubSeq(frames, 1 + 1, N)) = N - 1
        /\ \A k \in 1..N - 1 : SubSeq(frames, 1 + 1, N)[k] = frames[1 + k]
    <3>1. 1 \in Nat /\ 1 <= N /\ N <= Len(frames)
      BY <1>1
    <3> HIDE DEF N
    <3> QED
      BY <1>1, <3>1, Stretch
  <2> QED
    BY <2>1
<1>3. PICK m \in 0..Len(tail), state \in {"partial", "oversize"}, rest \in Seq(Bytes) : Reads(result, tail, more, mask, m, state, rest)
  BY Zenon DEF Parsed
<1>4. m \in Nat /\ m + 1 \in 0..N /\ m <= N - 1
  BY <1>1, <1>2, <1>3
<1> HIDE DEF tail, N, first
<1>5. <<first>> \o SubSeq(tail, 1, m) = SubSeq(frames, 1, m + 1)
  <2>1. m \in 0..Len(tail) /\ m + 1 \in 0..Len(frames)
    BY <1>1, <1>2, <1>4 DEF N
  <2>2. PICK a \in Seq(Writable) : /\ a = SubSeq(tail, 1, m) /\ Len(a) = m
                                   /\ \A k \in 1..m : a[k] = tail[k]
    <3>1. /\ SubSeq(tail, 1, m) \in Seq(Writable) /\ Len(SubSeq(tail, 1, m)) = m
          /\ \A k \in 1..m : SubSeq(tail, 1, m)[k] = tail[k]
      BY <1>2, <2>1, CutTyped
    <3> QED
      BY <3>1, Zenon
  <2>4. PICK b \in Seq(Writable) : /\ b = SubSeq(frames, 1, m + 1) /\ Len(b) = m + 1
                                   /\ \A k \in 1..m + 1 : b[k] = frames[k]
    <3>1. /\ SubSeq(frames, 1, m + 1) \in Seq(Writable) /\ Len(SubSeq(frames, 1, m + 1)) = m + 1
          /\ \A k \in 1..m + 1 : SubSeq(frames, 1, m + 1)[k] = frames[k]
      BY <2>1, CutTyped
    <3> QED
      BY <3>1, Zenon
  <2>5. PICK c \in Seq(Writable) : c = <<first>> \o a /\ IsConcat(c, <<first>>, a, Writable)
    <3>1. <<first>> \in Seq(Writable)
      BY <1>1
    <3>2. IsConcat(<<first>> \o a, <<first>>, a, Writable)
      BY <3>1, ConcatIs
    <3> QED
      BY <3>2, Zenon DEF IsConcat
  <2>6. Len(<<first>>) = 1 /\ <<first>>[1] = first
    OBVIOUS
  <2>7. /\ Len(c) = 1 + m /\ c[1] = first /\ \A k \in 1..m : c[1 + k] = a[k]
    <3>1. 1 \in 1..1
      OBVIOUS
    <3> QED
      BY <2>2, <2>5, <2>6, <3>1, Zenon DEF IsConcat
  <2>8. ASSUME NEW k \in 1..m + 1 PROVE c[k] = b[k]
    <3>1. CASE k = 1
      BY <1>4, <2>4, <2>7, <3>1 DEF first
    <3>2. CASE k # 1
      <4>1. PICK j \in 1..m : k = 1 + j
        <5>1. k - 1 \in 1..m /\ k = 1 + (k - 1)
          BY <1>4, <3>2
        <5> QED
          BY <5>1, Zenon
      <4>2. j \in 1..N - 1
        BY <1>1, <1>4
      <4>3. c[k] = a[j] /\ a[j] = tail[j] /\ tail[j] = frames[1 + j] /\ b[k] = frames[k]
        BY <1>2, <2>2, <2>4, <2>7, <4>1, <4>2, Zenon
      <4> QED
        BY <4>1, <4>3
    <3> QED
      BY <3>1, <3>2
  <2>9. c = b
    <3>1. Len(c) = Len(b) /\ Len(c) = m + 1
      BY <1>4, <2>4, <2>7
    <3> QED
      BY <2>8, <3>1, SeqEqual
  <2> QED
    BY <2>2, <2>4, <2>5, <2>9, Zenon
<1>6. SubSeq(tail, m + 1, Len(tail)) = SubSeq(frames, (m + 1) + 1, N)
  <2>1. /\ SubSeq(tail, m + 1, Len(tail)) \in Seq(Writable) /\ Len(SubSeq(tail, m + 1, Len(tail))) = Len(tail) - m
        /\ \A k \in 1..Len(tail) - m : SubSeq(tail, m + 1, Len(tail))[k] = tail[m + k]
    <3>1. Len(tail) \in Nat /\ m <= Len(tail)
      BY <1>1, <1>2, <1>4
    <3> QED
      BY <1>2, <1>4, <3>1, Stretch
  <2>2. /\ SubSeq(frames, (m + 1) + 1, N) \in Seq(Writable) /\ Len(SubSeq(frames, (m + 1) + 1, N)) = N - (m + 1)
        /\ \A k \in 1..N - (m + 1) : SubSeq(frames, (m + 1) + 1, N)[k] = frames[(m + 1) + k]
    <3>1. m + 1 \in Nat /\ m + 1 <= N /\ N <= Len(frames)
      BY <1>1, <1>4 DEF N
    <3> QED
      BY <1>1, <3>1, Stretch
  <2>3. Len(tail) - m = N - (m + 1)
    BY <1>1, <1>2, <1>4
  <2> DEFINE a == SubSeq(tail, m + 1, Len(tail))
             b == SubSeq(frames, (m + 1) + 1, N)
  <2>4. ASSUME NEW k \in 1..N - (m + 1) PROVE a[k] = b[k]
    <3>1. m + k \in 1..N - 1 /\ 1 + (m + k) = (m + 1) + k
      BY <1>1, <1>4
    <3>2. a[k] = tail[m + k] /\ tail[m + k] = frames[1 + (m + k)] /\ b[k] = frames[(m + 1) + k]
      BY <1>2, <2>1, <2>2, <2>3, <3>1, Zenon
    <3> QED
      BY <3>1, <3>2
  <2> HIDE DEF a, b
  <2>5. a \in Seq(Writable) /\ b \in Seq(Writable) /\ Len(a) = N - (m + 1) /\ Len(b) = N - (m + 1)
    BY <2>1, <2>2, <2>3 DEF a, b
  <2>6. a = b
    BY <2>4, <2>5, SeqEqual
  <2> QED
    BY <2>6 DEF a, b
<1>7. /\ result = [state |-> state, frames |-> SubSeq(tail, 1, m), rest |-> rest]
      /\ state \in {"partial", "oversize"} /\ rest \in Seq(Bytes)
      /\ rest \o more = Encoded(SubSeq(tail, m + 1, Len(tail)), mask)
      /\ \A k \in 1..m : Len(tail[k].payload) <= MaxPayload
      /\ state = "oversize" => m < Len(tail) /\ Len(tail[m + 1].payload) > MaxPayload
      /\ state = "partial" /\ Len(more) = 0 => m = Len(tail)
  BY <1>3, Zenon DEF Reads
<1>8. [result EXCEPT !.frames = <<first>> \o @] =
          [state |-> state, frames |-> SubSeq(frames, 1, m + 1), rest |-> rest]
  <2>1. PICK a : a = SubSeq(tail, 1, m)
    OBVIOUS
  <2>2. PICK b : b = SubSeq(frames, 1, m + 1) /\ b = <<first>> \o a
    BY <1>5, <2>1, Zenon
  <2>3. result = [state |-> state, frames |-> a, rest |-> rest]
    BY <1>7, <2>1, Zenon
  <2>4. result.frames = a
    BY <2>3
  <2>5. [result EXCEPT !.frames = <<first>> \o @] = [result EXCEPT !.frames = b]
    BY <2>2, <2>4
  <2>6. [result EXCEPT !.frames = b] = [state |-> state, frames |-> b, rest |-> rest]
    BY <2>3
  <2> QED
    BY <2>2, <2>5, <2>6
<1>9. \A k \in 1..m + 1 : Len(frames[k].payload) <= MaxPayload
  <2> TAKE k \in 1..m + 1
  <2>1. CASE k = 1
    BY <2>1
  <2>2. CASE k # 1
    <3>1. PICK j \in 1..m : k = 1 + j
      <4>1. k - 1 \in 1..m /\ k = 1 + (k - 1)
        BY <1>4, <2>2
      <4> QED
        BY <4>1, Zenon
    <3>2. j \in 1..N - 1
      BY <1>1, <1>4
    <3>3. tail[j] = frames[k]
      BY <1>2, <3>1, <3>2, Zenon
    <3> QED
      BY <1>7, <3>3, Zenon
  <2> QED
    BY <2>1, <2>2
<1>10. /\ state = "oversize" => m + 1 < N /\ Len(frames[(m + 1) + 1].payload) > MaxPayload
       /\ state = "partial" /\ Len(more) = 0 => m + 1 = N
  <2>1. ASSUME state = "oversize" PROVE m + 1 < N /\ Len(frames[(m + 1) + 1].payload) > MaxPayload
    <3>1. m < Len(tail) /\ Len(tail[m + 1].payload) > MaxPayload
      BY <1>7, <2>1
    <3>2. m + 1 < N /\ m + 1 \in 1..N - 1 /\ 1 + (m + 1) = (m + 1) + 1
      BY <1>1, <1>2, <1>4, <3>1
    <3>3. tail[m + 1] = frames[1 + (m + 1)]
      BY <1>2, <3>2, Zenon
    <3> QED
      BY <3>1, <3>2, <3>3
  <2>2. ASSUME state = "partial", Len(more) = 0 PROVE m + 1 = N
    <3>1. m = Len(tail)
      BY <1>7, <2>2
    <3> QED
      BY <1>1, <1>2, <1>4, <3>1
  <2> QED
    BY <2>1, <2>2
<1>11. rest \o more = Encoded(SubSeq(frames, (m + 1) + 1, N), mask)
  BY <1>6, <1>7, Zenon
<1>12. Reads([result EXCEPT !.frames = <<first>> \o @], frames, more, mask, m + 1, state, rest)
  BY <1>7, <1>8, <1>9, <1>10, <1>11, Zenon DEF Reads, N
<1> QED
  BY <1>3, <1>4, <1>12, Zenon DEF Parsed, N, first

\* DecodeFrames reads the frames that a buffer and the bytes after it are of: whole ones, in
\* order, as far as the buffer goes.
LEMMA DecodeReads ==
    ASSUME NEW buf \in Seq(Bytes), NEW more \in Seq(Bytes), NEW frames \in Seq(Writable), NEW mask \in BOOLEAN,
           buf \o more = Encoded(frames, mask)
    PROVE  Parsed(DecodeFrames(buf), frames, more, mask)
<1> DEFINE N == Len(buf)
           rest(i) == SubSeq(buf, i, N)
<1>1. N \in Nat /\ MaxPayload \in Nat
  BY WebSocketAssumption
<1>2. PICK g : GoesThrough(g, buf) /\ DecodeFrames(buf) = g[1]
  BY DecodeGoesThrough
<1> DEFINE Reading(n) == \A i \in 1..N + 1, fs \in Seq(Writable) :
                            N + 1 - i <= n /\ rest(i) \o more = Encoded(fs, mask) => Parsed(g[i], fs, more, mask)
           Good == {n \in Nat : Reading(n)}
<1>3. ASSUME NEW i \in 1..N + 1, NEW fs \in Seq(Writable), rest(i) \o more = Encoded(fs, mask),
             \A j \in i + 1..N + 1, tail \in Seq(Writable) :
                rest(j) \o more = Encoded(tail, mask) => Parsed(g[j], tail, more, mask)
      PROVE  Parsed(g[i], fs, more, mask)
  <2> DEFINE first == FirstFrame(rest(i))
  <2>1. g[i] = IF first.state = "whole"
               THEN [g[i + first.size] EXCEPT !.frames = <<first.frame>> \o @]
               ELSE [state |-> first.state, frames |-> <<>>, rest |-> rest(i)]
    BY <1>2, Zenon DEF GoesThrough
  <2>2. rest(i) \in Seq(Bytes) /\ Len(rest(i)) = N + 1 - i
    <3>1. 0 \in Nat /\ 0 <= Len(buf) + 1 - i
      BY <1>1
    <3> QED
      BY <3>1, CutAgain
  <2>3. first.state \in {"whole", "partial", "oversize"}
    BY <2>2, FirstFrameStays
  <2>4. Partial.state = "partial" /\ Oversize.state = "oversize" /\ Len(more) \in Nat /\ Len(rest(i)) \in Nat
    BY <2>2 DEF Partial, Oversize
  <2>5. CASE Len(fs) = 0
    <3>1. fs = <<>>
      BY <2>5, EmptySeq
    <3>2. Encoded(fs, mask) = <<>>
      <4>1. Rows(<<>>, mask) = <<>> /\ FlattenSeq(<<>>) = <<>>
        BY DEF Rows, FlattenSeq
      <4> QED
        BY <3>1, <4>1, Zenon DEF Encoded, Rows
    <3>3. Len(rest(i) \o more) = Len(rest(i)) + Len(more)
      <4>1. IsConcat(rest(i) \o more, rest(i), more, Bytes)
        BY <2>2, ConcatIs
      <4> QED
        BY <4>1, Zenon DEF IsConcat
    <3>4. Len(rest(i)) = 0
      <4> HIDE DEF rest
      <4> QED
        BY <1>3, <2>4, <3>2, <3>3
    <3>5. first = Partial
      BY <2>2, <3>4, FirstFrameStays
    <3> HIDE DEF first, rest
    <3>6. g[i] = [state |-> "partial", frames |-> <<>>, rest |-> rest(i)]
      BY <2>1, <2>4, <3>5
    <3>7. Parsed([state |-> "partial", frames |-> <<>>, rest |-> rest(i)], fs, more, mask)
      BY <1>3, <2>2, <2>5, ParsedEnd
    <3> QED
      BY <3>6, <3>7, Zenon
  <2>6. CASE Len(fs) # 0
    <3> DEFINE frame == fs[1]
               tail == SubSeq(fs, 2, Len(fs))
               spelled == EncodeFrame(frame, mask)
    <3>1. frame \in Writable /\ Len(fs) > 0
      BY <2>6
    <3>2. Spells(spelled, frame, mask)
      BY <3>1, EncodeSpells
    <3>3. tail \in Seq(Writable) /\ fs = <<frame>> \o tail
      <4>1. PICK n \in 0..Len(fs) : n = 1
        BY <2>6
      <4>2. /\ SubSeq(fs, 1, n) \in Seq(Writable) /\ Len(SubSeq(fs, 1, n)) = n
            /\ \A k \in 1..n : SubSeq(fs, 1, n)[k] = fs[k]
        BY CutTyped
      <4>3. SubSeq(fs, n + 1, Len(fs)) \in Seq(Writable)
        BY CutTyped
      <4>4. SubSeq(fs, 1, n) \o SubSeq(fs, n + 1, Len(fs)) = fs
        BY CutTyped
      <4>5. n + 1 = 2
        BY <4>1
      <4>6. SubSeq(fs, 1, n) = <<frame>>
        <5> DEFINE head == SubSeq(fs, 1, n)
        <5>1. head \in Seq(Writable) /\ Len(head) = 1 /\ head[1] = frame
          BY <4>1, <4>2
        <5> HIDE DEF head, frame
        <5>2. head = <<frame>>
          BY <3>1, <5>1
        <5> QED
          BY <5>2 DEF head
      <4> HIDE DEF tail, frame
      <4> QED
        BY <4>3, <4>4, <4>5, <4>6, Zenon DEF tail
    <3>4. /\ spelled \in Seq(Bytes) /\ Encoded(tail, mask) \in Seq(Bytes)
          /\ Encoded(fs, mask) = spelled \o Encoded(tail, mask)
      <4>1. <<frame>> \in Seq(Writable)
        BY <3>1
      <4> HIDE DEF tail, frame
      <4>2. /\ Encoded(<<frame>>, mask) \in Seq(Bytes) /\ Encoded(tail, mask) \in Seq(Bytes)
            /\ Encoded(<<frame>> \o tail, mask) = Encoded(<<frame>>, mask) \o Encoded(tail, mask)
        BY <3>3, <4>1, EncodedParts
      <4>3. Encoded(<<frame>>, mask) = spelled
        BY <3>1, EncodedOne
      <4> QED
        BY <3>3, <4>2, <4>3, Zenon
    <3> DEFINE length == Len(frame.payload)
               need == 2 + Extended(length)
    <3>5. /\ Begins(rest(i), spelled)
          /\ Len(rest(i)) + Len(more) = Len(spelled) + Len(Encoded(tail, mask))
          /\ Len(rest(i)) >= Len(spelled) => SubSeq(rest(i), Len(spelled) + 1, Len(rest(i))) \o more = Encoded(tail, mask)
      <4> HIDE DEF rest, spelled, tail
      <4>1. PICK r \in Seq(Bytes) : r = rest(i)
        BY <2>2, Zenon
      <4>2. PICK e \in Seq(Bytes) : e = Encoded(tail, mask)
        BY <3>4, Zenon
      <4>3. r \o more = spelled \o e
        BY <1>3, <3>4, <4>1, <4>2, Zenon
      <4>4. /\ Begins(r, spelled)
            /\ Len(r) + Len(more) = Len(spelled) + Len(e)
            /\ Len(r) >= Len(spelled) => SubSeq(r, Len(spelled) + 1, Len(r)) \o more = e
        BY <3>4, <4>3, CutHead
      <4> QED
        BY <4>1, <4>2, <4>4, Zenon
    <3>6. /\ Len(rest(i)) < need => first = Partial
          /\ Len(rest(i)) >= need /\ length > MaxPayload => first = Oversize
          /\ Len(rest(i)) < Len(spelled) /\ length <= MaxPayload => first = Partial
          /\ Len(rest(i)) >= Len(spelled) /\ length <= MaxPayload =>
                first = [state |-> "whole", size |-> Len(spelled), frame |-> frame]
      <4> HIDE DEF rest, spelled, frame
      <4> QED
        BY <2>2, <3>1, <3>2, <3>5, FirstFrameReads
    <3>7. Len(spelled) \in Nat /\ length \in Nat /\ need \in Nat /\ need <= Len(spelled)
      <4>1. length \in Nat
        BY <3>1 DEF Writable, Frames
      <4>2. Extended(length) \in {0, 2, 8}
        BY DEF Extended
      <4>3. Len(spelled) = Before(length, mask) + length
        BY <3>2 DEF Spells
      <4>4. Before(length, mask) \in Nat /\ need <= Before(length, mask)
        <5> HIDE DEF length
        <5> QED
          BY <4>2 DEF Before
      <4> HIDE DEF length, spelled
      <4> QED
        BY <4>1, <4>2, <4>3, <4>4
    <3> HIDE DEF rest, first, length, need, spelled, tail, frame
    <3>8. CASE first.state = "oversize"
      <4>1. length > MaxPayload
        <5> SUFFICES ASSUME ~(length > MaxPayload) PROVE FALSE
          OBVIOUS
        <5>1. length <= MaxPayload
          BY <1>1, <3>7
        <5>2. CASE Len(rest(i)) < Len(spelled)
          BY <2>4, <3>6, <3>8, <5>1, <5>2
        <5>3. CASE Len(rest(i)) >= Len(spelled)
          BY <3>6, <3>8, <5>1, <5>3
        <5> QED
          BY <2>4, <3>7, <5>2, <5>3
      <4>2. g[i] = [state |-> "oversize", frames |-> <<>>, rest |-> rest(i)]
        BY <2>1, <3>8
      <4>3. Parsed([state |-> "oversize", frames |-> <<>>, rest |-> rest(i)], fs, more, mask)
        <5>1. Len(fs[1].payload) > MaxPayload
          BY <4>1 DEF length, frame
        <5> QED
          BY <1>3, <2>2, <3>1, <5>1, ParsedEnd
      <4> QED
        BY <4>2, <4>3, Zenon
    <3>9. CASE first.state = "partial"
      <4>1. g[i] = [state |-> "partial", frames |-> <<>>, rest |-> rest(i)]
        BY <2>1, <3>9
      <4>2. Len(rest(i)) < Len(spelled)
        <5> SUFFICES ASSUME Len(rest(i)) >= Len(spelled) PROVE FALSE
          BY <2>4, <3>7
        <5>1. CASE length <= MaxPayload
          BY <3>6, <3>9, <5>1
        <5>2. CASE length > MaxPayload
          <6>1. Len(rest(i)) >= need
            BY <2>4, <3>7
          <6>2. first = Oversize
            BY <3>6, <5>2, <6>1, Zenon
          <6> QED
            BY <2>4, <3>9, <6>2
        <5> QED
          BY <1>1, <3>7, <5>1, <5>2
      <4>3. Len(more) # 0
        <5>1. Len(Encoded(tail, mask)) \in Nat
          BY <3>4
        <5> QED
          BY <2>4, <3>5, <3>7, <4>2, <5>1
      <4>4. Parsed([state |-> "partial", frames |-> <<>>, rest |-> rest(i)], fs, more, mask)
        BY <1>3, <2>2, <4>3, ParsedEnd
      <4> QED
        BY <4>1, <4>4, Zenon
    <3>10. CASE first.state = "whole"
      <4>1. first = [state |-> "whole", size |-> Len(spelled), frame |-> frame]
            /\ length <= MaxPayload /\ Len(rest(i)) >= Len(spelled)
        <5>1. CASE length > MaxPayload
          <6>1. CASE Len(rest(i)) < need
            BY <2>4, <3>6, <3>10, <6>1
          <6>2. CASE Len(rest(i)) >= need
            BY <2>4, <3>6, <3>10, <5>1, <6>2
          <6> QED
            BY <2>4, <3>7, <6>1, <6>2
        <5>2. CASE length <= MaxPayload
          <6>1. CASE Len(rest(i)) < Len(spelled)
            BY <2>4, <3>6, <3>10, <5>2, <6>1
          <6>2. CASE Len(rest(i)) >= Len(spelled)
            BY <3>6, <5>2, <6>2
          <6> QED
            BY <2>4, <3>7, <6>1, <6>2
        <5> QED
          BY <1>1, <3>7, <5>1, <5>2
      <4>2. first.size = Len(spelled) /\ first.frame = frame
        BY <4>1
      <4>3. g[i] = [g[i + Len(spelled)] EXCEPT !.frames = <<frame>> \o @]
        BY <2>1, <3>10, <4>2, Zenon
      <4>4. first.size \in 2..Len(rest(i))
        BY <2>2, <3>10, FirstFrameStays DEF first
      <4>5. i + Len(spelled) \in i + 1..N + 1 /\ Len(spelled) <= N + 1 - i
        <5> HIDE DEF N
        <5> QED
          BY <1>1, <2>2, <3>7, <4>2, <4>4
      <4>6. rest(i + Len(spelled)) = SubSeq(rest(i), Len(spelled) + 1, Len(rest(i)))
        <5>1. SubSeq(SubSeq(buf, i, Len(buf)), Len(spelled) + 1, Len(SubSeq(buf, i, Len(buf)))) =
                 SubSeq(buf, i + Len(spelled), Len(buf))
          BY <3>7, <4>5, CutAgain
        <5> QED
          BY <5>1 DEF rest
      <4>7. rest(i + Len(spelled)) \o more = Encoded(tail, mask)
        BY <3>5, <4>1, <4>6, Zenon
      <4>8. Parsed(g[i + Len(spelled)], tail, more, mask)
        BY <1>3, <3>3, <4>5, <4>7, Zenon
      <4>9. Parsed([g[i + Len(spelled)] EXCEPT !.frames = <<fs[1]>> \o @], fs, more, mask)
        <5>1. Len(fs[1].payload) <= MaxPayload /\ Parsed(g[i + Len(spelled)], SubSeq(fs, 2, Len(fs)), more, mask)
          BY <4>1, <4>8 DEF length, frame, tail
        <5> QED
          BY <3>1, <5>1, ParsedOn
      <4> QED
        BY <4>3, <4>9, Zenon DEF frame
    <3> QED
      BY <2>3, <3>8, <3>9, <3>10
  <2> QED
    BY <2>5, <2>6
<1> HIDE DEF rest, N
<1>4. 0 \in Good
  <2> SUFFICES ASSUME NEW i \in 1..N + 1, NEW fs \in Seq(Writable),
                      N + 1 - i <= 0, rest(i) \o more = Encoded(fs, mask)
               PROVE  Parsed(g[i], fs, more, mask)
    OBVIOUS
  <2>1. \A j \in i + 1..N + 1 : FALSE
    BY <1>1
  <2> QED
    BY <1>3, <2>1
<1>5. \A n \in Nat : n \in Good => n + 1 \in Good
  <2> TAKE n \in Nat
  <2> HAVE n \in Good
  <2>1. Reading(n)
    OBVIOUS
  <2>2. ASSUME NEW i \in 1..N + 1, NEW fs \in Seq(Writable),
               N + 1 - i <= n + 1, rest(i) \o more = Encoded(fs, mask)
        PROVE  Parsed(g[i], fs, more, mask)
    <3>1. \A j \in i + 1..N + 1 : j \in 1..N + 1 /\ N + 1 - j <= n
      BY <1>1, <2>2
    <3>2. \A j \in i + 1..N + 1, tail \in Seq(Writable) :
             rest(j) \o more = Encoded(tail, mask) => Parsed(g[j], tail, more, mask)
      BY <2>1, <3>1, Zenon
    <3> QED
      BY <1>3, <2>2, <3>2
  <2>3. Reading(n + 1)
    BY <2>2
  <2> HIDE DEF Reading
  <2> QED
    BY <2>3
<1>6. N \in Good
  <2> HIDE DEF Good
  <2> QED
    BY <1>1, <1>4, <1>5, AllNumbers
<1>7. rest(1) = buf
  BY SubSeqFull DEF rest, N
<1>8. 1 \in 1..N + 1 /\ N + 1 - 1 <= N
  BY <1>1
<1>9. Reading(N)
  BY <1>6
<1>10. Parsed(g[1], frames, more, mask)
  BY <1>7, <1>8, <1>9, Zenon
<1> QED
  BY <1>2, <1>10, Zenon

\* What decoding comes to is a record.
Result(result) == \E state, frames, rest : result = [state |-> state, frames |-> frames, rest |-> rest]

\* A result with one frame more before it is as good.
LEMMA ResultOn ==
    ASSUME NEW result, Result(result), NEW first
    PROVE  /\ Result([result EXCEPT !.frames = <<first>> \o @])
           /\ [result EXCEPT !.frames = <<first>> \o @].state = result.state
<1>1. PICK state, frames, rest : result = [state |-> state, frames |-> frames, rest |-> rest]
  BY DEF Result
<1>2. PICK more : more = <<first>> \o result.frames
  OBVIOUS
<1>3. [result EXCEPT !.frames = <<first>> \o @] = [result EXCEPT !.frames = more]
  BY <1>2, Zenon
<1>4. [result EXCEPT !.frames = more] = [state |-> state, frames |-> more, rest |-> rest]
  BY <1>1
<1>5. [result EXCEPT !.frames = <<first>> \o @] = [state |-> state, frames |-> more, rest |-> rest]
  BY <1>3, <1>4, Zenon
<1>6. result.state = state /\ [state |-> state, frames |-> more, rest |-> rest].state = state
  BY <1>1
<1> QED
  BY <1>5, <1>6, Zenon DEF Result

\* The rest of a longer buffer from one place is that of the shorter one, and what came.
LEMMA RestOfBoth ==
    ASSUME NEW buf \in Seq(Bytes), NEW more \in Seq(Bytes), NEW i \in 1..Len(buf) + 1
    PROVE  SubSeq(buf \o more, i, Len(buf \o more)) = SubSeq(buf, i, Len(buf)) \o more
<1>1. PICK both \in Seq(Bytes) : both = buf \o more /\ IsConcat(both, buf, more, Bytes)
  BY ConcatIs, ConcatProperties
<1>2. /\ Len(both) = Len(buf) + Len(more) /\ Len(buf) \in Nat /\ Len(more) \in Nat /\ Len(both) \in Nat
      /\ \A k \in 1..Len(buf) : both[k] = buf[k]
      /\ \A k \in 1..Len(more) : both[Len(buf) + k] = more[k]
  BY <1>1 DEF IsConcat
<1>3. PICK m \in Nat : m = i - 1 /\ m + 1 = i /\ m <= Len(buf) /\ m <= Len(both)
  <2>1. i - 1 \in Nat /\ (i - 1) + 1 = i /\ i - 1 <= Len(buf) /\ i - 1 <= Len(both)
    BY <1>2
  <2> QED
    BY <2>1, Zenon
<1>4. PICK a \in Seq(Bytes) : /\ a = SubSeq(both, i, Len(both)) /\ Len(a) = Len(both) - m
                              /\ \A k \in 1..Len(both) - m : a[k] = both[m + k]
  <2> DEFINE x == SubSeq(both, m + 1, Len(both))
  <2>1. /\ x \in Seq(Bytes) /\ Len(x) = Len(both) - m /\ \A k \in 1..Len(both) - m : x[k] = both[m + k]
    <3>1. Len(both) <= Len(both)
      BY <1>2
    <3> QED
      BY <1>2, <1>3, <3>1, Stretch
  <2>2. x = SubSeq(both, i, Len(both))
    BY <1>3, Zenon
  <2> HIDE DEF x
  <2> QED
    BY <2>1, <2>2, Zenon
<1>5. PICK b \in Seq(Bytes) : /\ b = SubSeq(buf, i, Len(buf)) /\ Len(b) = Len(buf) - m
                              /\ \A k \in 1..Len(buf) - m : b[k] = buf[m + k]
  <2> DEFINE x == SubSeq(buf, m + 1, Len(buf))
  <2>1. /\ x \in Seq(Bytes) /\ Len(x) = Len(buf) - m /\ \A k \in 1..Len(buf) - m : x[k] = buf[m + k]
    <3>1. Len(buf) <= Len(buf)
      BY <1>2
    <3> QED
      BY <1>2, <1>3, <3>1, Stretch
  <2>2. x = SubSeq(buf, i, Len(buf))
    BY <1>3, Zenon
  <2> HIDE DEF x
  <2> QED
    BY <2>1, <2>2, Zenon
<1>6. PICK c \in Seq(Bytes) : c = b \o more /\ IsConcat(c, b, more, Bytes)
  <2>1. IsConcat(b \o more, b, more, Bytes)
    BY ConcatIs
  <2> QED
    BY <2>1, Zenon DEF IsConcat
<1>7. /\ Len(c) = Len(b) + Len(more) /\ Len(a) = Len(c)
      /\ \A k \in 1..Len(b) : c[k] = b[k]
      /\ \A k \in 1..Len(more) : c[Len(b) + k] = more[k]
  <2>1. /\ Len(c) = Len(b) + Len(more)
        /\ \A k \in 1..Len(b) : c[k] = b[k]
        /\ \A k \in 1..Len(more) : c[Len(b) + k] = more[k]
    BY <1>6, Zenon DEF IsConcat
  <2>2. Len(a) = Len(c)
    BY <1>2, <1>3, <1>4, <1>5, <2>1
  <2> QED
    BY <2>1, <2>2
<1>8. ASSUME NEW k \in 1..Len(a) PROVE a[k] = c[k]
  <2>1. a[k] = both[m + k]
    BY <1>4, Zenon
  <2>2. CASE k <= Len(b)
    <3>1. k \in 1..Len(b) /\ k \in 1..Len(buf) - m /\ m + k \in 1..Len(buf)
      BY <1>2, <1>3, <1>5, <2>2
    <3> QED
      BY <1>2, <1>5, <1>7, <2>1, <3>1, Zenon
  <2>3. CASE ~(k <= Len(b))
    <3>1. PICK j \in 1..Len(more) : k = Len(b) + j
      <4>1. k - Len(b) \in 1..Len(more) /\ k = Len(b) + (k - Len(b))
        BY <1>2, <1>3, <1>5, <1>7, <2>3
      <4> QED
        BY <4>1, Zenon
    <3>2. m + k = Len(buf) + j
      BY <1>2, <1>3, <1>5, <3>1
    <3> QED
      BY <1>2, <1>7, <2>1, <3>1, <3>2, Zenon
  <2> QED
    BY <2>2, <2>3
<1>9. a = c
  BY <1>7, <1>8, SeqEqual
<1> QED
  BY <1>1, <1>4, <1>5, <1>6, <1>9, Zenon

\* A frame that is too large stays so when more bytes come.
LEMMA OversizeStays ==
    ASSUME NEW buf \in Seq(Bytes), NEW more \in Seq(Bytes), DecodeFrames(buf).state = "oversize"
    PROVE  DecodeFrames(buf \o more).state = "oversize"
<1> DEFINE N == Len(buf)
           rest(i) == SubSeq(buf, i, N)
<1>1. PICK both \in Seq(Bytes) : both = buf \o more /\ IsConcat(both, buf, more, Bytes)
  BY ConcatIs, ConcatProperties
<1> DEFINE M == Len(both)
<1>2. N \in Nat /\ M \in Nat /\ N <= M
  BY <1>1 DEF IsConcat
<1>3. PICK g : GoesThrough(g, buf) /\ DecodeFrames(buf) = g[1]
  BY DecodeGoesThrough
<1>4. PICK h : GoesThrough(h, both) /\ DecodeFrames(both) = h[1]
  BY DecodeGoesThrough
<1>5. \A i \in 1..N + 1 : SubSeq(both, i, M) = rest(i) \o more
  BY <1>1, RestOfBoth, Zenon
<1> DEFINE Same(i) == /\ Result(g[i]) /\ Result(h[i])
                      /\ g[i].state = "oversize" => h[i].state = "oversize"
           Whole(n) == \A i \in 1..M + 1 : M + 1 - i <= n => Result(h[i])
           Good(n) == \A i \in 1..N + 1 : N + 1 - i <= n => Same(i)
<1>6. ASSUME NEW b \in Seq(Bytes), NEW f, GoesThrough(f, b), NEW i \in 1..Len(b) + 1
      PROVE  LET first == FirstFrame(SubSeq(b, i, Len(b)))
             IN  /\ first.state # "whole" => Result(f[i]) /\ f[i].state = first.state
                 /\ first.state = "whole" =>
                       /\ i + first.size \in i + 1..Len(b) + 1
                       /\ Result(f[i + first.size]) => Result(f[i]) /\ f[i].state = f[i + first.size].state
  <2> DEFINE piece == SubSeq(b, i, Len(b))
             first == FirstFrame(piece)
  <2>1. f[i] = IF first.state = "whole"
               THEN [f[i + first.size] EXCEPT !.frames = <<first.frame>> \o @]
               ELSE [state |-> first.state, frames |-> <<>>, rest |-> piece]
    BY <1>6, Zenon DEF GoesThrough
  <2>2. piece \in Seq(Bytes) /\ Len(piece) = Len(b) + 1 - i /\ Len(b) \in Nat
    <3>1. 0 \in Nat /\ 0 <= Len(b) + 1 - i
      OBVIOUS
    <3> QED
      BY <3>1, CutAgain
  <2> HIDE DEF piece
  <2>3. first.state = "whole" => first.size \in 2..Len(piece)
    BY <2>2, FirstFrameStays
  <2> HIDE DEF first
  <2>4. first.state # "whole" => Result(f[i]) /\ f[i].state = first.state
    <3> SUFFICES ASSUME first.state # "whole" PROVE Result(f[i]) /\ f[i].state = first.state
      OBVIOUS
    <3>1. f[i] = [state |-> first.state, frames |-> <<>>, rest |-> piece]
      BY <2>1, Zenon
    <3>2. f[i].state = first.state
      BY <3>1
    <3>3. Result(f[i])
      BY <3>1, Zenon DEF Result
    <3> QED
      BY <3>2, <3>3
  <2>5. ASSUME first.state = "whole"
        PROVE  /\ i + first.size \in i + 1..Len(b) + 1
               /\ Result(f[i + first.size]) => Result(f[i]) /\ f[i].state = f[i + first.size].state
    <3>1. i + first.size \in i + 1..Len(b) + 1
      BY <2>2, <2>3, <2>5
    <3>2. f[i] = [f[i + first.size] EXCEPT !.frames = <<first.frame>> \o @]
      BY <2>1, <2>5, Zenon
    <3>3. ASSUME Result(f[i + first.size]) PROVE Result(f[i]) /\ f[i].state = f[i + first.size].state
      <4>1. PICK r : r = f[i + first.size]
        OBVIOUS
      <4>2. PICK x : x = first.frame
        OBVIOUS
      <4>3. Result([r EXCEPT !.frames = <<x>> \o @]) /\ [r EXCEPT !.frames = <<x>> \o @].state = r.state
        BY <3>3, <4>1, ResultOn
      <4> QED
        BY <3>2, <4>1, <4>2, <4>3, Zenon
    <3> QED
      BY <3>1, <3>3
  <2> QED
    BY <2>4, <2>5 DEF first, piece
<1> HIDE DEF N, M, rest
<1>7. \A i \in 1..M + 1 : Result(h[i])
  <2> DEFINE S == {n \in Nat : Whole(n)}
  <2>1. ASSUME NEW i \in 1..M + 1, \A j \in i + 1..M + 1 : Result(h[j]) PROVE Result(h[i])
    BY <1>4, <1>6, <2>1 DEF M
  <2>2. 0 \in S
    <3>1. \A i \in 1..M + 1 : M + 1 - i <= 0 => \A j \in i + 1..M + 1 : FALSE
      BY <1>2
    <3>2. \A i \in 1..M + 1 : M + 1 - i <= 0 => Result(h[i])
      BY <2>1, <3>1
    <3> QED
      BY <3>2
  <2>3. \A n \in Nat : n \in S => n + 1 \in S
    <3> TAKE n \in Nat
    <3> HAVE n \in S
    <3>1. Whole(n)
      OBVIOUS
    <3>2. ASSUME NEW i \in 1..M + 1, M + 1 - i <= n + 1 PROVE Result(h[i])
      <4>1. \A j \in i + 1..M + 1 : j \in 1..M + 1 /\ M + 1 - j <= n
        BY <1>2, <3>2
      <4> QED
        BY <2>1, <3>1, <4>1
    <3>3. Whole(n + 1)
      BY <3>2
    <3> HIDE DEF Whole
    <3> QED
      BY <3>3
  <2>4. M \in S
    <3> HIDE DEF S
    <3> QED
      BY <1>2, <2>2, <2>3, AllNumbers
  <2>5. \A i \in 1..M + 1 : M + 1 - i <= M
    BY <1>2
  <2> QED
    BY <2>4, <2>5
<1>8. ASSUME NEW i \in 1..N + 1, \A j \in i + 1..N + 1 : Same(j) PROVE Same(i)
  <2> DEFINE first == FirstFrame(rest(i))
             second == FirstFrame(rest(i) \o more)
  <2>1. i \in 1..M + 1 /\ SubSeq(both, i, M) = rest(i) \o more
    BY <1>2, <1>5
  <2>2. rest(i) \in Seq(Bytes)
    <3>1. 0 \in Nat /\ 0 <= Len(buf) + 1 - i
      BY <1>2 DEF N
    <3> QED
      BY <3>1, CutAgain DEF rest, N
  <2>3. first.state \in {"whole", "oversize"} => second = first
    BY <2>2, FirstFrameStays
  <2>4. /\ first.state # "whole" => Result(g[i]) /\ g[i].state = first.state
        /\ first.state = "whole" =>
              /\ i + first.size \in i + 1..N + 1
              /\ Result(g[i + first.size]) => Result(g[i]) /\ g[i].state = g[i + first.size].state
    BY <1>3, <1>6 DEF N, rest
  <2>5. /\ second.state # "whole" => Result(h[i]) /\ h[i].state = second.state
        /\ second.state = "whole" =>
              /\ Result(h[i + second.size]) => Result(h[i]) /\ h[i].state = h[i + second.size].state
    <3>1. PICK third : third = FirstFrame(SubSeq(both, i, Len(both)))
      OBVIOUS
    <3>2. /\ third.state # "whole" => Result(h[i]) /\ h[i].state = third.state
          /\ third.state = "whole" =>
              /\ Result(h[i + third.size]) => Result(h[i]) /\ h[i].state = h[i + third.size].state
      BY <1>4, <1>6, <2>1, <3>1, Zenon DEF M
    <3>3. third = second
      BY <2>1, <3>1, Zenon DEF M
    <3> QED
      BY <3>2, <3>3, Zenon
  <2> HIDE DEF first, second
  <2>6. Result(h[i])
    BY <1>7, <2>1
  <2>7. CASE first.state = "whole"
    <3>1. Same(i + first.size) /\ second = first
      BY <1>8, <2>3, <2>4, <2>7
    <3> QED
      BY <2>4, <2>5, <2>6, <2>7, <3>1, Zenon
  <2>8. CASE first.state # "whole"
    <3>1. Result(g[i]) /\ g[i].state = first.state
      BY <2>4, <2>8
    <3>2. ASSUME g[i].state = "oversize" PROVE h[i].state = "oversize"
      <4>1. first.state = "oversize" /\ second = first
        BY <2>3, <3>1, <3>2
      <4> QED
        BY <2>5, <2>8, <4>1, Zenon
    <3> QED
      BY <2>6, <3>1, <3>2
  <2> QED
    BY <2>7, <2>8
<1> DEFINE S == {n \in Nat : Good(n)}
<1>9. 0 \in S
  <2> HIDE DEF Same
  <2>1. \A i \in 1..N + 1 : N + 1 - i <= 0 => \A j \in i + 1..N + 1 : FALSE
    BY <1>2
  <2>2. \A i \in 1..N + 1 : N + 1 - i <= 0 => Same(i)
    BY <1>8, <2>1
  <2> QED
    BY <2>2
<1>10. \A n \in Nat : n \in S => n + 1 \in S
  <2> HIDE DEF Same
  <2> TAKE n \in Nat
  <2> HAVE n \in S
  <2>1. Good(n)
    OBVIOUS
  <2>2. ASSUME NEW i \in 1..N + 1, N + 1 - i <= n + 1 PROVE Same(i)
    <3>1. \A j \in i + 1..N + 1 : j \in 1..N + 1 /\ N + 1 - j <= n
      BY <1>2, <2>2
    <3> QED
      BY <1>8, <2>1, <3>1
  <2>3. Good(n + 1)
    BY <2>2
  <2> HIDE DEF Good
  <2> QED
    BY <2>3
<1>11. Same(1)
  <2> HIDE DEF Same
  <2>1. N \in S
    <3> HIDE DEF S
    <3> QED
      BY <1>2, <1>9, <1>10, AllNumbers
  <2>2. 1 \in 1..N + 1 /\ N + 1 - 1 <= N
    BY <1>2
  <2> QED
    BY <2>1, <2>2
<1> QED
  BY <1>1, <1>3, <1>4, <1>11, Zenon

-----------------------------------------------------------------------------
(* The WebSocket client: what frames do to it. *)

Sendable == {frame \in Frames : Len(frame.payload) <= MaxPayload}
Accounts == [fragments: Seq(Seq({0, 1})), fragmentOpcode: OPCODES \union {NoOpcode},
             delivered: Seq(Delivery), pongs: Seq(Sendable), closed: BOOLEAN]

\* Beside the pongs, nothing has changed.
Same(acc, next) ==
    /\ next.fragments = acc.fragments /\ next.fragmentOpcode = acc.fragmentOpcode
    /\ next.delivered = acc.delivered

\* What a frame of data does.
Handles(acc, next, frame) ==
    /\ frame.opcode = CONTINUATION /\ acc.fragmentOpcode = NoOpcode => Same(acc, next)
    /\ frame.opcode = CONTINUATION /\ acc.fragmentOpcode # NoOpcode /\ frame.fin =>
          /\ next.fragmentOpcode = NoOpcode /\ next.fragments = <<>>
          /\ next.delivered = Append(acc.delivered,
                [opcode |-> acc.fragmentOpcode, payload |-> FlattenSeq(Append(acc.fragments, frame.payload))])
    /\ frame.opcode = CONTINUATION /\ acc.fragmentOpcode # NoOpcode /\ ~frame.fin =>
          /\ next.fragmentOpcode = acc.fragmentOpcode /\ next.delivered = acc.delivered
          /\ next.fragments = Append(acc.fragments, frame.payload)
    /\ frame.opcode # CONTINUATION /\ frame.fin =>
          /\ next.fragmentOpcode = acc.fragmentOpcode /\ next.fragments = acc.fragments
          /\ next.delivered = Append(acc.delivered, [opcode |-> frame.opcode, payload |-> frame.payload])
    /\ frame.opcode # CONTINUATION /\ ~frame.fin =>
          /\ next.fragmentOpcode = frame.opcode /\ next.fragments = <<frame.payload>>
          /\ next.delivered = acc.delivered

\* An account, field by field.
LEMMA AccountFields ==
    ASSUME NEW acc \in Accounts
    PROVE  /\ acc.fragments \in Seq(Seq({0, 1})) /\ acc.fragmentOpcode \in OPCODES \union {NoOpcode}
           /\ acc.delivered \in Seq(Delivery) /\ acc.pongs \in Seq(Sendable) /\ acc.closed \in BOOLEAN
BY DEF Accounts

\* _handleDataFrame, case by case.
LEMMA HandleDataDoes ==
    ASSUME NEW acc \in Accounts, NEW frame \in Sendable
    PROVE  LET next == HandleDataFrame(acc, frame)
           IN  next \in Accounts /\ next.closed = acc.closed /\ next.pongs = acc.pongs /\ Handles(acc, next, frame)
<1> DEFINE next == HandleDataFrame(acc, frame)
           parts == Append(acc.fragments, frame.payload)
<1>1. /\ frame.fin \in BOOLEAN /\ frame.opcode \in OPCODES /\ frame.payload \in Seq({0, 1})
  BY DEF Sendable, Frames
<1>2. /\ acc.fragments \in Seq(Seq({0, 1})) /\ acc.fragmentOpcode \in OPCODES \union {NoOpcode}
      /\ acc.delivered \in Seq(Delivery) /\ acc.pongs \in Seq(Sendable) /\ acc.closed \in BOOLEAN
  BY AccountFields
<1>3. parts \in Seq(Seq({0, 1})) /\ FlattenSeq(parts) \in Seq({0, 1})
  BY <1>1, <1>2, AppendProperties, FlattenFacts
<1> HIDE DEF parts
<1>4. NoOpcode \in OPCODES \union {NoOpcode} /\ NoOpcode \notin OPCODES
  BY DEF NoOpcode, OPCODES, CONTINUATION, TEXT, BINARY, CLOSE, PING, PONG
<1>5. CASE frame.opcode = CONTINUATION /\ acc.fragmentOpcode = NoOpcode
  <2>1. next = acc
    BY <1>5, Zenon DEF HandleDataFrame
  <2> HIDE DEF next
  <2> QED
    BY <1>5, <2>1 DEF next, Handles, Same
<1>6. CASE frame.opcode = CONTINUATION /\ acc.fragmentOpcode # NoOpcode /\ frame.fin
  <2> DEFINE message == [opcode |-> acc.fragmentOpcode, payload |-> FlattenSeq(parts)]
             whole == [acc EXCEPT !.fragmentOpcode = NoOpcode, !.fragments = <<>>]
  <2>1. next = [whole EXCEPT !.delivered = Append(@, message)]
    BY <1>6, Zenon DEF HandleDataFrame, Delivered, parts
  <2>2. whole \in Accounts /\ whole.delivered = acc.delivered /\ whole.fragmentOpcode = NoOpcode /\ whole.fragments = <<>>
        /\ whole.closed = acc.closed /\ whole.pongs = acc.pongs
    <3>1. <<>> \in Seq(Seq({0, 1}))
      OBVIOUS
    <3> QED
      BY <1>2, <1>4, <3>1 DEF Accounts
  <2>3. message \in Delivery
    BY <1>2, <1>3, <1>6 DEF Delivery
  <2> HIDE DEF message, whole, next
  <2>4. Append(acc.delivered, message) \in Seq(Delivery)
    BY <1>2, <2>3, AppendProperties
  <2>5. PICK more \in Seq(Delivery) : more = Append(acc.delivered, message)
    BY <2>4, Zenon
  <2>6. next = [whole EXCEPT !.delivered = more]
    BY <2>1, <2>2, <2>5
  <2>7. next \in Accounts /\ next.delivered = more /\ next.fragmentOpcode = NoOpcode /\ next.fragments = <<>>
        /\ next.closed = acc.closed /\ next.pongs = acc.pongs
    BY <2>2, <2>6 DEF Accounts
  <2> QED
    BY <1>6, <2>5, <2>7, Zenon DEF next, Handles, Same, message, parts
<1>7. CASE frame.opcode = CONTINUATION /\ acc.fragmentOpcode # NoOpcode /\ ~frame.fin
  <2>1. next = [acc EXCEPT !.fragments = parts]
    BY <1>7, Zenon DEF HandleDataFrame, parts
  <2> HIDE DEF next
  <2>2. next \in Accounts /\ next.delivered = acc.delivered /\ next.fragmentOpcode = acc.fragmentOpcode
        /\ next.fragments = parts /\ next.closed = acc.closed /\ next.pongs = acc.pongs
    BY <1>3, <2>1 DEF Accounts
  <2> QED
    BY <1>7, <2>2, Zenon DEF next, Handles, Same, parts
<1>8. CASE frame.opcode # CONTINUATION /\ frame.fin
  <2> DEFINE message == [opcode |-> frame.opcode, payload |-> frame.payload]
  <2>1. next = [acc EXCEPT !.delivered = Append(@, message)]
    BY <1>8, Zenon DEF HandleDataFrame, Delivered
  <2>2. message \in Delivery
    BY <1>1 DEF Delivery
  <2> HIDE DEF message, next
  <2>3. PICK more \in Seq(Delivery) : more = Append(acc.delivered, message)
    BY <1>2, <2>2, AppendProperties
  <2>4. next = [acc EXCEPT !.delivered = more]
    BY <2>1, <2>3
  <2>5. next \in Accounts /\ next.delivered = more /\ next.fragmentOpcode = acc.fragmentOpcode
        /\ next.fragments = acc.fragments /\ next.closed = acc.closed /\ next.pongs = acc.pongs
    BY <2>4 DEF Accounts
  <2> QED
    BY <1>8, <2>3, <2>5, Zenon DEF next, Handles, Same, message
<1>9. CASE frame.opcode # CONTINUATION /\ ~frame.fin
  <2>1. next = [acc EXCEPT !.fragmentOpcode = frame.opcode, !.fragments = <<frame.payload>>]
    BY <1>9, Zenon DEF HandleDataFrame
  <2> HIDE DEF next
  <2>2. PICK one \in Seq(Seq({0, 1})) : one = <<frame.payload>>
    <3>1. \A T : \A p \in T : <<p>> \in Seq(T)
      OBVIOUS
    <3>2. <<frame.payload>> \in Seq(Seq({0, 1}))
      BY <1>1, <3>1, Zenon
    <3> QED
      BY <3>2, Zenon
  <2>3. next = [acc EXCEPT !.fragmentOpcode = frame.opcode, !.fragments = one]
    BY <2>1, <2>2
  <2>4. next \in Accounts /\ next.delivered = acc.delivered /\ next.fragmentOpcode = frame.opcode
        /\ next.fragments = one /\ next.closed = acc.closed /\ next.pongs = acc.pongs
    BY <1>1, <1>2, <2>3 DEF Accounts
  <2> QED
    BY <1>9, <2>2, <2>4, Zenon DEF next, Handles, Same
<1> QED
  BY <1>1, <1>5, <1>6, <1>7, <1>8, <1>9

\* What one frame does.
HandlesFrame(acc, next, frame) ==
    /\ acc.closed \/ frame.opcode \in {PING, PONG} => Same(acc, next) /\ next.closed = acc.closed
    /\ frame.opcode = CLOSE => Same(acc, next) /\ next.closed
    /\ ~acc.closed /\ frame.opcode \in DataOpcodes => Handles(acc, next, frame) /\ ~next.closed

\* A frame, of whatever kind, and the account that it leaves.
LEMMA HandleFrameDoes ==
    ASSUME NEW acc \in Accounts, NEW frame \in Sendable
    PROVE  HandleFrame(acc, frame) \in Accounts /\ HandlesFrame(acc, HandleFrame(acc, frame), frame)
<1> DEFINE next == HandleFrame(acc, frame)
<1>1. /\ frame.fin \in BOOLEAN /\ frame.opcode \in OPCODES /\ frame.payload \in Seq({0, 1})
      /\ Len(frame.payload) <= MaxPayload
  BY DEF Sendable, Frames
<1>2. /\ acc.fragments \in Seq(Seq({0, 1})) /\ acc.fragmentOpcode \in OPCODES \union {NoOpcode}
      /\ acc.delivered \in Seq(Delivery) /\ acc.pongs \in Seq(Sendable) /\ acc.closed \in BOOLEAN
  BY AccountFields
<1>3. /\ PING \notin DataOpcodes /\ PONG \notin DataOpcodes /\ CLOSE \notin DataOpcodes
      /\ PING # PONG /\ PING # CLOSE /\ PONG # CLOSE
      /\ OPCODES = DataOpcodes \union {CLOSE, PING, PONG}
  BY DEF OPCODES, DataOpcodes, CONTINUATION, TEXT, BINARY, CLOSE, PING, PONG
<1>4. CASE acc.closed \/ frame.opcode = PONG
  <2>1. next = acc
    BY <1>4, Zenon DEF HandleFrame
  <2> HIDE DEF next
  <2> QED
    BY <1>3, <1>4, <2>1 DEF next, HandlesFrame, Same
<1>5. CASE ~acc.closed /\ frame.opcode = PING
  <2> DEFINE pong == [fin |-> TRUE, opcode |-> PONG, payload |-> frame.payload]
  <2>1. next = [acc EXCEPT !.pongs = Append(@, pong)]
    BY <1>3, <1>5, Zenon DEF HandleFrame
  <2>2. pong \in Sendable
    <3>1. pong \in Frames
      BY <1>1, <1>3 DEF Frames
    <3>2. pong.payload = frame.payload
      OBVIOUS
    <3> HIDE DEF pong
    <3> QED
      BY <1>1, <3>1, <3>2 DEF Sendable
  <2> HIDE DEF pong, next
  <2>3. PICK pongs \in Seq(Sendable) : pongs = Append(acc.pongs, pong)
    BY <1>2, <2>2, AppendProperties
  <2>4. next = [acc EXCEPT !.pongs = pongs]
    BY <2>1, <2>3
  <2>5. next \in Accounts /\ next.delivered = acc.delivered /\ next.fragmentOpcode = acc.fragmentOpcode
        /\ next.fragments = acc.fragments /\ next.closed = acc.closed
    BY <2>4 DEF Accounts
  <2> QED
    BY <1>3, <1>5, <2>5, Zenon DEF next, HandlesFrame, Same
<1>6. CASE ~acc.closed /\ frame.opcode = CLOSE
  <2>1. next = [acc EXCEPT !.closed = TRUE]
    BY <1>3, <1>6, Zenon DEF HandleFrame
  <2> HIDE DEF next
  <2>2. next \in Accounts /\ next.delivered = acc.delivered /\ next.fragmentOpcode = acc.fragmentOpcode
        /\ next.fragments = acc.fragments /\ next.closed
    BY <2>1 DEF Accounts
  <2> QED
    BY <1>3, <1>6, <2>2, Zenon DEF next, HandlesFrame, Same
<1>7. CASE ~acc.closed /\ frame.opcode \in DataOpcodes
  <2>1. next = HandleDataFrame(acc, frame)
    BY <1>3, <1>7, Zenon DEF HandleFrame
  <2> HIDE DEF next
  <2>2. next \in Accounts /\ next.closed = acc.closed /\ Handles(acc, next, frame)
    BY <2>1, HandleDataDoes
  <2> QED
    BY <1>3, <1>7, <2>2, Zenon DEF next, HandlesFrame
<1> QED
  BY <1>1, <1>2, <1>3, <1>4, <1>5, <1>6, <1>7, Zenon

\* The loop of _onData, frame by frame.
Loops(g, frames) ==
    /\ g[0] = Client
    /\ \A k \in 1..Len(frames) : g[k] \in Accounts /\ HandlesFrame(g[k - 1], g[k], frames[k])

\* HandleFrames goes through the decoded frames one by one.
LEMMA HandleGoesOn ==
    ASSUME NEW frames \in Seq(Sendable), Client \in Accounts
    PROVE  \E g \in [0..Len(frames) -> Accounts] : Loops(g, frames) /\ HandleFrames(frames) = g[Len(frames)]
<1> DEFINE N == Len(frames)
           next == [acc \in Accounts |-> [k \in Nat |-> IF k \in 1..N THEN HandleFrame(acc, frames[k]) ELSE acc]]
           after[k \in 0..N] == IF k = 0 THEN Client ELSE HandleFrame(after[k - 1], frames[k])
<1>1. N \in Nat /\ \A k \in 1..N : frames[k] \in Sendable
  OBVIOUS
<1>2. \A acc \in Accounts, k \in 1..N : HandleFrame(acc, frames[k]) \in Accounts /\ HandlesFrame(acc, HandleFrame(acc, frames[k]), frames[k])
  BY <1>1, HandleFrameDoes, Zenon
<1>3. next \in [Accounts -> [Nat -> Accounts]]
  <2> HIDE DEF N
  <2> QED
    BY <1>2
<1>4. PICK g \in [0..N -> Accounts] : GoesOn(g, Client, next, N)
  <2> HIDE DEF next, N
  <2> QED
    BY <1>1, <1>3, Recursion
<1> HIDE DEF N
<1>5. /\ g[0] = Client
      /\ \A k \in 1..N : k - 1 \in 0..N /\ k \in 0..N /\ g[k - 1] \in Accounts /\ g[k] \in Accounts
                         /\ g[k] = HandleFrame(g[k - 1], frames[k])
  <2>1. \A k \in 1..N : k - 1 \in 0..N /\ k \in 0..N /\ k \in Nat
    BY <1>1
  <2>2. \A k \in 1..N : g[k - 1] \in Accounts /\ g[k] \in Accounts
    BY <2>1
  <2> QED
    BY <1>4, <2>1, <2>2 DEF GoesOn
<1>6. after = [k \in 0..N |-> IF k = 0 THEN Client ELSE HandleFrame(after[k - 1], frames[k])]
  <2>1. g = [k \in 0..N |-> IF k = 0 THEN Client ELSE HandleFrame(g[k - 1], frames[k])]
    <3>1. \A k \in 0..N : g[k] = IF k = 0 THEN Client ELSE HandleFrame(g[k - 1], frames[k])
      <4> TAKE k \in 0..N
      <4>1. CASE k = 0
        BY <1>5, <4>1
      <4>2. CASE k # 0
        <5>1. k \in 1..N
          BY <1>1, <4>2
        <5> QED
          BY <1>5, <4>2, <5>1
      <4> QED
        BY <4>1, <4>2
    <3> QED
      BY <3>1
  <2> QED
    BY <2>1
<1>7. HandleFrames(frames) = after[N]
  BY DEF HandleFrames, N
<1> HIDE DEF after, next
<1>8. \A k \in 0..N : after[k] = g[k]
  <2> DEFINE S == {k \in Nat : k <= N => after[k] = g[k]}
  <2>1. 0 \in S
    <3>1. 0 \in 0..N
      BY <1>1
    <3>2. after[0] = Client
      BY <1>6, <3>1
    <3> QED
      BY <1>5, <3>2
  <2>2. \A k \in Nat : k \in S => k + 1 \in S
    <3> TAKE k \in Nat
    <3> HAVE k \in S
    <3> SUFFICES ASSUME k + 1 <= N PROVE after[k + 1] = g[k + 1]
      OBVIOUS
    <3>1. k + 1 \in 1..N /\ k + 1 \in 0..N /\ (k + 1) - 1 = k /\ k + 1 # 0 /\ after[k] = g[k]
      BY <1>1
    <3>2. after[k + 1] = IF k + 1 = 0 THEN Client ELSE HandleFrame(after[(k + 1) - 1], frames[k + 1])
      BY <1>6, <3>1, Zenon
    <3>3. after[k + 1] = HandleFrame(g[k], frames[k + 1])
      BY <3>1, <3>2, Zenon
    <3>4. g[k + 1] = HandleFrame(g[(k + 1) - 1], frames[k + 1])
      BY <1>5, <3>1, Zenon
    <3> QED
      BY <3>1, <3>3, <3>4, Zenon
  <2> HIDE DEF S
  <2>3. Nat \subseteq S
    BY <2>1, <2>2, AllNumbers
  <2> QED
    BY <1>1, <2>3 DEF S
<1>9. Loops(g, frames)
  BY <1>2, <1>5, Zenon DEF Loops, N
<1>10. N \in 0..N
  BY <1>1
<1> QED
  BY <1>7, <1>8, <1>9, <1>10, Zenon DEF N

\* A set of numbers with a bound has a largest one.
LEMMA MaxOf ==
    ASSUME NEW N \in Nat, NEW S \in SUBSET (0..N), S # {}
    PROVE  Max(S) \in S /\ \A j \in S : j <= Max(S)
<1> DEFINE Rev == {N - j : j \in S}
<1>1. Rev \in SUBSET Nat /\ Rev # {}
  <2>1. \A j \in S : j \in Nat /\ j <= N /\ N - j \in Nat
    OBVIOUS
  <2>2. PICK j \in S : TRUE
    OBVIOUS
  <2>3. N - j \in Rev
    OBVIOUS
  <2> QED
    BY <2>1, <2>3
<1>2. PICK r \in Rev : \A q \in Rev : r <= q
  <2> HIDE DEF Rev
  <2> QED
    BY <1>1, LeastOf
<1>3. PICK m \in S : r = N - m
  BY <1>2
<1>4. \A j \in S : m >= j
  <2> TAKE j \in S
  <2>1. N - j \in Rev
    OBVIOUS
  <2>2. r <= N - j
    BY <1>2, <2>1
  <2> QED
    BY <1>3, <2>2
<1>5. \E x \in S : \A y \in S : x >= y
  BY <1>4
<1>6. Max(S) \in S /\ \A y \in S : Max(S) >= y
  BY <1>5 DEF Max
<1> QED
  BY <1>6

\* The largest is the one that is largest.
LEMMA MaxIs ==
    ASSUME NEW N \in Nat, NEW S \in SUBSET (0..N), NEW m \in S, \A j \in S : j <= m
    PROVE  Max(S) = m
<1>1. Max(S) \in S /\ \A j \in S : j <= Max(S)
  <2>1. S # {}
    OBVIOUS
  <2> QED
    BY <2>1, MaxOf
<1>2. Max(S) <= m /\ m <= Max(S) /\ Max(S) \in 0..N /\ m \in 0..N
  BY <1>1
<1> QED
  BY <1>2

-----------------------------------------------------------------------------
(* The WebSocket client: the messages of a script. *)

Starts(script, k) == {j \in 1..k : script[j].opcode \in {TEXT, BINARY}}
Part(script, k, j) ==
    IF j >= Max(Starts(script, k)) /\ script[j].opcode \in DataOpcodes THEN script[j].payload ELSE <<>>
Gathered(script, k) == FlattenSeq([j \in 1..k |-> Part(script, k, j)])

\* The last frame of data is not the last of its message.
Unfinished(script, k) ==
    \E j \in 1..k : /\ script[j].opcode \in DataOpcodes /\ ~script[j].fin
                    /\ \A i \in j + 1..k : script[i].opcode \notin DataOpcodes

MessagesTo(script, k) == FlattenSeq([j \in 1..k |-> MessageAt(script, j)])

\* A script, frame by frame.
LEMMA ScriptFacts ==
    ASSUME NEW script \in Scripts
    PROVE  /\ script \in Seq(Writable) /\ Len(script) \in Nat /\ DOMAIN script = 1..Len(script)
           /\ \A k \in 1..Len(script) : /\ script[k] \in Writable /\ script[k].fin \in BOOLEAN
                                        /\ script[k].opcode \in OPCODES /\ script[k].payload \in Seq({0, 1})
           /\ \A k \in 1..Len(script) : script[k].opcode = CLOSE => k = Len(script)
           /\ \A i, k \in 1..Len(script) :
                 i < k /\ script[i].opcode \in DataOpcodes /\ script[k].opcode = CONTINUATION
                 /\ (\A j \in i + 1..k - 1 : script[j].opcode \notin DataOpcodes) => ~script[i].fin
<1>1. /\ script \in Seq(Frames) /\ Lawful(script)
      /\ \A k \in DOMAIN script : Len(script[k].payload) < 256
  BY WebSocketAssumption
<1>2. Len(script) \in Nat /\ DOMAIN script = 1..Len(script)
  BY <1>1
<1>3. \A k \in 1..Len(script) : script[k] \in Frames
  BY <1>1, <1>2
<1>4. \A k \in 1..Len(script) : script[k] \in Writable
  BY <1>1, <1>2, <1>3 DEF Writable
<1>5. script \in Seq(Writable)
  BY <1>1, <1>2, <1>4
<1>6. \A k \in 1..Len(script) : /\ script[k].fin \in BOOLEAN
                                /\ script[k].opcode \in OPCODES /\ script[k].payload \in Seq({0, 1})
  BY <1>3 DEF Frames
<1>7. \A k \in 1..Len(script) : script[k].opcode = CLOSE => k = Len(script)
  BY <1>1, <1>2 DEF Lawful
<1>8. \A i, k \in 1..Len(script) :
         i < k /\ script[i].opcode \in DataOpcodes /\ script[k].opcode = CONTINUATION
         /\ (\A j \in i + 1..k - 1 : script[j].opcode \notin DataOpcodes) => ~script[i].fin
  BY <1>1, <1>2, Zenon DEF Lawful
<1> QED
  BY <1>2, <1>4, <1>5, <1>6, <1>7, <1>8

\* A row that is longer by one ends with that one.
LEMMA RowOn ==
    ASSUME NEW T, NEW a \in Seq(T), NEW b \in Seq(T), NEW last \in T, Len(b) = Len(a) + 1,
           \A j \in 1..Len(a) : b[j] = a[j], b[Len(a) + 1] = last
    PROVE  b = Append(a, last)
<1>1. Len(a) \in Nat
  OBVIOUS
<1>2. PICK c \in Seq(T) : /\ c = Append(a, last) /\ Len(c) = Len(a) + 1 /\ c[Len(a) + 1] = last
                          /\ \A j \in 1..Len(a) : c[j] = a[j]
  BY AppendProperties
<1>3. ASSUME NEW j \in 1..Len(a) + 1 PROVE b[j] = c[j]
  <2>1. CASE j = Len(a) + 1
    BY <1>2, <2>1
  <2>2. CASE j # Len(a) + 1
    <3>1. j \in 1..Len(a)
      BY <1>1, <2>2
    <3> QED
      BY <1>2, <3>1
  <2> QED
    BY <2>1, <2>2
<1>4. b = c
  BY <1>2, <1>3, SeqEqual
<1> QED
  BY <1>2, <1>4

\* Nothing put together is nothing.
LEMMA FlattenNothing ==
    ASSUME NEW T, NEW rows \in Seq(Seq(T)), \A k \in 1..Len(rows) : rows[k] = <<>>
    PROVE  FlattenSeq(rows) = <<>>
<1> DEFINE N == Len(rows)
<1>1. PICK g \in [0..N -> Seq(T)] : Joins(g, rows, N) /\ FlattenSeq(rows) = g[N]
  BY FlattenGoesOn
<1>2. N \in Nat
  OBVIOUS
<1> DEFINE S == {k \in Nat : k <= N => g[k] = <<>>}
<1>3. 0 \in S
  BY <1>1 DEF Joins
<1>4. \A k \in Nat : k \in S => k + 1 \in S
  <2> TAKE k \in Nat
  <2> HAVE k \in S
  <2> SUFFICES ASSUME k + 1 <= N PROVE g[k + 1] = <<>>
    OBVIOUS
  <2>1. k + 1 \in 1..N /\ (k + 1) - 1 = k /\ g[k] = <<>>
    BY <1>2
  <2>2. g[k + 1] = g[(k + 1) - 1] \o rows[k + 1] /\ rows[k + 1] = <<>>
    BY <1>1, <2>1, Zenon DEF Joins
  <2>3. <<>> \o <<>> = <<>>
    OBVIOUS
  <2> QED
    BY <2>1, <2>2, <2>3
<1> HIDE DEF S, N
<1>5. Nat \subseteq S
  BY <1>3, <1>4, AllNumbers
<1>6. g[N] = <<>>
  BY <1>2, <1>5 DEF S
<1> QED
  BY <1>1, <1>6

\* The starts of messages, and the payloads since the last one.
LEMMA StartsFacts ==
    ASSUME NEW script \in Scripts, NEW k \in 0..Len(script)
    PROVE  /\ Starts(script, k) \in SUBSET (0..k)
           /\ Starts(script, k) # {} =>
                 /\ Max(Starts(script, k)) \in 1..k
                 /\ script[Max(Starts(script, k))].opcode \in {TEXT, BINARY}
                 /\ script[Max(Starts(script, k))].opcode \in OPCODES
           /\ [j \in 1..k |-> Part(script, k, j)] \in Seq(Seq({0, 1}))
           /\ Len([j \in 1..k |-> Part(script, k, j)]) = k
           /\ Gathered(script, k) \in Seq({0, 1})
<1>1. /\ Len(script) \in Nat
      /\ \A j \in 1..Len(script) : script[j].opcode \in OPCODES /\ script[j].payload \in Seq({0, 1})
  BY ScriptFacts
<1>2. k \in Nat /\ \A j \in 1..k : j \in 1..Len(script) /\ j \in 0..k
  BY <1>1
<1>3. Starts(script, k) \in SUBSET (0..k)
  BY <1>2 DEF Starts
<1>4. ASSUME Starts(script, k) # {}
      PROVE  /\ Max(Starts(script, k)) \in 1..k
             /\ script[Max(Starts(script, k))].opcode \in {TEXT, BINARY}
             /\ script[Max(Starts(script, k))].opcode \in OPCODES
  <2>1. Max(Starts(script, k)) \in Starts(script, k)
    BY <1>2, <1>3, <1>4, MaxOf
  <2>2. PICK m : m = Max(Starts(script, k))
    OBVIOUS
  <2>3. m \in 1..k /\ script[m].opcode \in {TEXT, BINARY}
    BY <2>1, <2>2 DEF Starts
  <2>4. script[m].opcode \in OPCODES
    BY <1>1, <1>2, <2>3
  <2> QED
    BY <2>2, <2>3, <2>4, Zenon
<1>5. \A j \in 1..k : Part(script, k, j) \in Seq({0, 1})
  <2> TAKE j \in 1..k
  <2>1. script[j].payload \in Seq({0, 1}) /\ <<>> \in Seq({0, 1})
    BY <1>1, <1>2
  <2> QED
    BY <2>1, Zenon DEF Part
<1> DEFINE row == [j \in 1..k |-> Part(script, k, j)]
<1>6. row \in Seq(Seq({0, 1})) /\ Len(row) = k
  BY <1>2, <1>5
<1> HIDE DEF row
<1>7. FlattenSeq(row) \in Seq({0, 1})
  BY <1>6, FlattenFacts
<1> QED
  BY <1>3, <1>4, <1>6, <1>7 DEF Gathered, row

\* The message that ends with a frame.
LEMMA MessageAtIs ==
    ASSUME NEW script \in Scripts, NEW k \in 1..Len(script)
    PROVE  /\ MessageAt(script, k) \in Seq(Delivery)
           /\ script[k].opcode \in DataOpcodes /\ script[k].fin /\ Starts(script, k) # {} =>
                 MessageAt(script, k) =
                    <<[opcode |-> script[Max(Starts(script, k))].opcode, payload |-> Gathered(script, k)]>>
           /\ ~(script[k].opcode \in DataOpcodes /\ script[k].fin /\ Starts(script, k) # {}) =>
                 MessageAt(script, k) = <<>>
<1> DEFINE message == [opcode |-> script[Max(Starts(script, k))].opcode, payload |-> Gathered(script, k)]
<1>1. MessageAt(script, k) = IF script[k].opcode \in DataOpcodes /\ script[k].fin /\ Starts(script, k) # {}
                             THEN <<message>> ELSE <<>>
  BY Zenon DEF MessageAt, Starts, Gathered, Part
<1>2. k \in 0..Len(script)
  BY ScriptFacts
<1>3. ASSUME Starts(script, k) # {} PROVE message \in Delivery
  <2>1. script[Max(Starts(script, k))].opcode \in OPCODES /\ Gathered(script, k) \in Seq({0, 1})
    BY <1>2, <1>3, StartsFacts
  <2> QED
    BY <2>1 DEF Delivery
<1> HIDE DEF message
<1>4. <<>> \in Seq(Delivery)
  OBVIOUS
<1>5. Starts(script, k) # {} => <<message>> \in Seq(Delivery)
  BY <1>3
<1> QED
  BY <1>1, <1>4, <1>5, Zenon DEF message

\* The messages up to a frame, and those up to the next.
LEMMA MessagesOn ==
    ASSUME NEW script \in Scripts, NEW k \in 0..Len(script)
    PROVE  /\ MessagesTo(script, k) \in Seq(Delivery)
           /\ k < Len(script) => MessagesTo(script, k + 1) = MessagesTo(script, k) \o MessageAt(script, k + 1)
<1> DEFINE row(n) == [j \in 1..n |-> MessageAt(script, j)]
<1>1. Len(script) \in Nat /\ k \in Nat
  BY ScriptFacts
<1>2. \A j \in 1..Len(script) : MessageAt(script, j) \in Seq(Delivery)
  BY MessageAtIs
<1>3. ASSUME NEW n \in 0..Len(script)
      PROVE row(n) \in Seq(Seq(Delivery)) /\ Len(row(n)) = n /\ \A j \in 1..n : row(n)[j] = MessageAt(script, j)
  <2>1. n \in Nat /\ \A j \in 1..n : j \in 1..Len(script)
    BY <1>1
  <2>2. \A j \in 1..n : MessageAt(script, j) \in Seq(Delivery)
    BY <1>2, <2>1
  <2> QED
    BY <2>1, <2>2
<1> HIDE DEF row
<1>4. FlattenSeq(row(k)) \in Seq(Delivery)
  BY <1>3, FlattenFacts
<1>5. ASSUME k < Len(script)
      PROVE  FlattenSeq(row(k + 1)) = FlattenSeq(row(k)) \o MessageAt(script, k + 1)
  <2>1. k + 1 \in 0..Len(script) /\ k + 1 \in 1..Len(script) /\ k + 1 \in 1..k + 1 /\ \A j \in 1..k : j \in 1..k + 1
    BY <1>1, <1>5
  <2>2. PICK a \in Seq(Seq(Delivery)) : a = row(k) /\ Len(a) = k /\ \A j \in 1..k : a[j] = MessageAt(script, j)
    BY <1>3, Zenon
  <2>3. PICK b \in Seq(Seq(Delivery)) : b = row(k + 1) /\ Len(b) = k + 1 /\ \A j \in 1..k + 1 : b[j] = MessageAt(script, j)
    BY <1>3, <2>1, Zenon
  <2>4. PICK last \in Seq(Delivery) : last = MessageAt(script, k + 1)
    BY <1>2, <2>1, Zenon
  <2>5. b[k + 1] = last /\ \A j \in 1..k : b[j] = a[j]
    BY <2>1, <2>2, <2>3, <2>4, Zenon
  <2>6. b = Append(a, last)
    BY <2>2, <2>3, <2>5, RowOn
  <2>7. FlattenSeq(Append(a, last)) = FlattenSeq(a) \o last
    BY FlattenFacts
  <2> QED
    BY <2>2, <2>3, <2>4, <2>6, <2>7, Zenon
<1> QED
  BY <1>4, <1>5 DEF row, MessagesTo

\* The messages of a script are those up to its end.
LEMMA MessagesAre ==
    ASSUME NEW script \in Scripts
    PROVE  Messages(script) = MessagesTo(script, Len(script)) /\ Messages(script) \in Seq(Delivery)
           /\ MessagesTo(script, 0) = <<>>
<1>1. DOMAIN script = 1..Len(script) /\ Len(script) \in Nat
  BY ScriptFacts
<1>2. Messages(script) = MessagesTo(script, Len(script))
  BY <1>1, Zenon DEF Messages, MessagesTo
<1>3. Len(script) \in 0..Len(script)
  BY <1>1
<1>4. MessagesTo(script, Len(script)) \in Seq(Delivery)
  BY <1>3, MessagesOn
<1>5. [j \in 1..0 |-> MessageAt(script, j)] = <<>>
  OBVIOUS
<1>6. FlattenSeq(<<>>) = <<>>
  BY DEF FlattenSeq
<1> QED
  BY <1>2, <1>4, <1>5, <1>6, Zenon DEF MessagesTo

\* The starts up to the next frame.
LEMMA StartsOn ==
    ASSUME NEW script \in Scripts, NEW k \in 0..Len(script), k < Len(script)
    PROVE  /\ k + 1 \in 0..Len(script) /\ k + 1 \in 1..Len(script)
           /\ script[k + 1].opcode \notin {TEXT, BINARY} => Starts(script, k + 1) = Starts(script, k)
           /\ script[k + 1].opcode \in {TEXT, BINARY} =>
                 Starts(script, k + 1) # {} /\ Max(Starts(script, k + 1)) = k + 1
<1>1. Len(script) \in Nat /\ k \in Nat
  BY ScriptFacts
<1>2. k + 1 \in 0..Len(script) /\ k + 1 \in 1..Len(script) /\ k + 1 \in Nat
  BY <1>1
<1>3. \A j : j \in 1..k + 1 <=> (j \in 1..k \/ j = k + 1)
  BY <1>1
<1>4. ASSUME script[k + 1].opcode \notin {TEXT, BINARY} PROVE Starts(script, k + 1) = Starts(script, k)
  BY <1>3, <1>4, Zenon DEF Starts
<1>5. ASSUME script[k + 1].opcode \in {TEXT, BINARY}
      PROVE  Starts(script, k + 1) # {} /\ Max(Starts(script, k + 1)) = k + 1
  <2>1. k + 1 \in Starts(script, k + 1)
    BY <1>3, <1>5, Zenon DEF Starts
  <2>2. Starts(script, k + 1) \in SUBSET (0..k + 1)
    BY <1>2, StartsFacts
  <2>3. \A j \in Starts(script, k + 1) : j <= k + 1
    BY <1>2, <2>2
  <2>4. Max(Starts(script, k + 1)) = k + 1
    BY <1>2, <2>1, <2>2, <2>3, MaxIs
  <2> QED
    BY <2>1, <2>4, Zenon
<1> QED
  BY <1>2, <1>4, <1>5

\* What is gathered with the next frame.
LEMMA GatheredOn ==
    ASSUME NEW script \in Scripts, NEW k \in 0..Len(script), k < Len(script)
    PROVE  /\ script[k + 1].opcode \in {TEXT, BINARY} => Gathered(script, k + 1) = script[k + 1].payload
           /\ script[k + 1].opcode \notin {TEXT, BINARY} /\ Starts(script, k) # {} =>
                 Gathered(script, k + 1) = Gathered(script, k) \o
                    (IF script[k + 1].opcode \in DataOpcodes THEN script[k + 1].payload ELSE <<>>)
<1>1. Len(script) \in Nat /\ k \in Nat
  BY ScriptFacts
<1>2. /\ k + 1 \in 0..Len(script) /\ k + 1 \in 1..Len(script)
      /\ script[k + 1].opcode \notin {TEXT, BINARY} => Starts(script, k + 1) = Starts(script, k)
      /\ script[k + 1].opcode \in {TEXT, BINARY} =>
            Starts(script, k + 1) # {} /\ Max(Starts(script, k + 1)) = k + 1
  BY StartsOn
<1>3. script[k + 1].payload \in Seq({0, 1}) /\ <<>> \in Seq({0, 1})
  BY <1>2, ScriptFacts
<1> DEFINE row == [j \in 1..k + 1 |-> Part(script, k + 1, j)]
<1>4. row \in Seq(Seq({0, 1})) /\ Len(row) = k + 1 /\ Gathered(script, k + 1) = FlattenSeq(row)
  BY <1>2, StartsFacts DEF Gathered
<1>5. \A j \in 1..k + 1 : row[j] = Part(script, k + 1, j)
  OBVIOUS
<1> HIDE DEF row
<1>6. k + 1 \in 1..k + 1 /\ \A j \in 1..k : j \in 1..k + 1 /\ ~(j >= k + 1)
  BY <1>1
<1>7. TEXT \in DataOpcodes /\ BINARY \in DataOpcodes /\ \A n \in Nat : n >= n
  BY DEF DataOpcodes
<1>8. ASSUME script[k + 1].opcode \in {TEXT, BINARY} PROVE Gathered(script, k + 1) = script[k + 1].payload
  <2>1. Max(Starts(script, k + 1)) = k + 1 /\ k + 1 >= k + 1 /\ script[k + 1].opcode \in DataOpcodes
    BY <1>1, <1>2, <1>7, <1>8
  <2>2. row[k + 1] = script[k + 1].payload
    BY <1>5, <1>6, <2>1, Zenon DEF Part
  <2>3. \A j \in 1..k : row[j] = <<>>
    BY <1>5, <1>6, <2>1, Zenon DEF Part
  <2> DEFINE none == [j \in 1..k |-> <<>>]
  <2>4. none \in Seq(Seq({0, 1})) /\ Len(none) = k /\ \A j \in 1..k : none[j] = <<>>
    BY <1>1, <1>3
  <2> HIDE DEF none
  <2>5. PICK last \in Seq({0, 1}) : last = script[k + 1].payload
    BY <1>3
  <2>6. row = Append(none, last)
    <3>1. \A j \in 1..k : row[j] = none[j]
      BY <2>3, <2>4, Zenon
    <3>2. row[k + 1] = last
      BY <2>2, <2>5
    <3> QED
      BY <1>4, <2>4, <3>1, <3>2, RowOn
  <2>7. FlattenSeq(none) = <<>>
    BY <2>4, FlattenNothing
  <2>8. FlattenSeq(Append(none, last)) = FlattenSeq(none) \o last
    BY <2>4, FlattenFacts
  <2>9. <<>> \o last = last
    BY ConcatEmptySeq
  <2> QED
    BY <1>4, <2>5, <2>6, <2>7, <2>8, <2>9, Zenon
<1>9. ASSUME script[k + 1].opcode \notin {TEXT, BINARY}, Starts(script, k) # {}
      PROVE  Gathered(script, k + 1) = Gathered(script, k) \o
                (IF script[k + 1].opcode \in DataOpcodes THEN script[k + 1].payload ELSE <<>>)
  <2> DEFINE old == [j \in 1..k |-> Part(script, k, j)]
  <2>1. old \in Seq(Seq({0, 1})) /\ Len(old) = k /\ Gathered(script, k) = FlattenSeq(old)
    BY StartsFacts DEF Gathered
  <2>2. \A j \in 1..k : old[j] = Part(script, k, j)
    OBVIOUS
  <2> HIDE DEF old
  <2>3. Starts(script, k + 1) = Starts(script, k)
    BY <1>2, <1>9
  <2>4. \A j \in 1..k : row[j] = old[j]
    BY <1>5, <1>6, <2>2, <2>3, Zenon DEF Part
  <2>5. PICK last \in Seq({0, 1}) : last = IF script[k + 1].opcode \in DataOpcodes THEN script[k + 1].payload ELSE <<>>
    BY <1>3, Zenon
  <2>6. row[k + 1] = last
    <3>1. Max(Starts(script, k)) \in 1..k
      BY <1>9, StartsFacts
    <3>2. k + 1 >= Max(Starts(script, k + 1))
      BY <1>1, <2>3, <3>1
    <3> QED
      BY <1>5, <1>6, <2>5, <3>2, Zenon DEF Part
  <2>7. row = Append(old, last)
    BY <1>4, <2>1, <2>4, <2>6, RowOn
  <2>8. FlattenSeq(Append(old, last)) = FlattenSeq(old) \o last
    BY <2>1, FlattenFacts
  <2> QED
    BY <1>4, <2>1, <2>5, <2>7, <2>8, Zenon
<1> QED
  BY <1>8, <1>9

\* Whether the last frame of data ends its message, with the next frame; and a continuation comes
\* only where it does not.
LEMMA UnfinishedOn ==
    ASSUME NEW script \in Scripts, NEW k \in 0..Len(script), k < Len(script)
    PROVE  /\ script[k + 1].opcode \notin DataOpcodes /\ Unfinished(script, k + 1) => Unfinished(script, k)
           /\ script[k + 1].opcode \in DataOpcodes /\ script[k + 1].fin => ~Unfinished(script, k + 1)
           /\ script[k + 1].opcode = CONTINUATION /\ Starts(script, k) # {} => Unfinished(script, k)
<1>1. Len(script) \in Nat /\ k \in Nat /\ k + 1 \in 1..Len(script)
  BY ScriptFacts
<1>2. ASSUME script[k + 1].opcode \notin DataOpcodes, Unfinished(script, k + 1) PROVE Unfinished(script, k)
  <2>1. PICK j \in 1..k + 1 : /\ script[j].opcode \in DataOpcodes /\ ~script[j].fin
                              /\ \A i \in j + 1..k + 1 : script[i].opcode \notin DataOpcodes
    BY <1>2 DEF Unfinished
  <2>2. j # k + 1
    BY <1>2, <2>1, Zenon
  <2>3. j \in 1..k /\ \A i \in j + 1..k : i \in j + 1..k + 1
    BY <1>1, <2>2
  <2> QED
    BY <2>1, <2>3, Zenon DEF Unfinished
<1>3. ASSUME script[k + 1].opcode \in DataOpcodes, script[k + 1].fin, Unfinished(script, k + 1) PROVE FALSE
  <2>1. PICK j \in 1..k + 1 : /\ script[j].opcode \in DataOpcodes /\ ~script[j].fin
                              /\ \A i \in j + 1..k + 1 : script[i].opcode \notin DataOpcodes
    BY <1>3 DEF Unfinished
  <2>2. j # k + 1
    BY <1>3, <2>1, Zenon
  <2>3. k + 1 \in j + 1..k + 1
    BY <1>1, <2>2
  <2> QED
    BY <1>3, <2>1, <2>3, Zenon
<1>4. ASSUME script[k + 1].opcode = CONTINUATION, Starts(script, k) # {} PROVE Unfinished(script, k)
  <2> DEFINE Data == {j \in 1..k : script[j].opcode \in DataOpcodes}
  <2>1. Data # {}
    <3>1. PICK j : j \in Starts(script, k)
      BY <1>4
    <3>2. j \in Data
      BY <3>1 DEF Starts, DataOpcodes
    <3> QED
      BY <3>2, Zenon
  <2>2. Data \in SUBSET (0..k)
    BY <1>1
  <2>3. PICK i \in Data : \A j \in Data : j <= i
    <3> HIDE DEF Data
    <3>1. Max(Data) \in Data /\ \A j \in Data : j <= Max(Data)
      BY <1>1, <2>1, <2>2, MaxOf
    <3> QED
      BY <3>1, Zenon
  <2>4. i \in 1..k /\ script[i].opcode \in DataOpcodes /\ i \in 1..Len(script) /\ i < k + 1
    BY <1>1, <2>3
  <2>5. \A j \in i + 1..k : script[j].opcode \notin DataOpcodes
    <3> SUFFICES ASSUME NEW j \in i + 1..k, script[j].opcode \in DataOpcodes PROVE FALSE
      OBVIOUS
    <3>1. j \in 1..k /\ ~(j <= i)
      BY <1>1, <2>4
    <3>2. j \in Data
      BY <3>1, Zenon
    <3> QED
      BY <2>3, <3>1, <3>2, Zenon
  <2>6. (k + 1) - 1 = k
    BY <1>1
  <2>7. \A j \in i + 1..(k + 1) - 1 : script[j].opcode \notin DataOpcodes
    BY <2>5, <2>6, Zenon
  <2>8. \A p, q \in 1..Len(script) :
           p < q /\ script[p].opcode \in DataOpcodes /\ script[q].opcode = CONTINUATION
           /\ (\A j \in p + 1..q - 1 : script[j].opcode \notin DataOpcodes) => ~script[p].fin
    BY ScriptFacts
  <2>9. ~script[i].fin
    BY <1>1, <1>4, <2>4, <2>7, <2>8, Zenon
  <2> QED
    BY <2>4, <2>5, <2>9, Zenon DEF Unfinished
<1> QED
  BY <1>2, <1>3, <1>4

\* The client's fragments and messages after so many frames of a script.
Follows(script, k, acc) ==
    /\ acc.delivered = MessagesTo(script, k)
    /\ Starts(script, k) = {} => acc.fragmentOpcode = NoOpcode
    /\ Starts(script, k) # {} /\ Unfinished(script, k) =>
          /\ acc.fragmentOpcode = script[Max(Starts(script, k))].opcode
          /\ FlattenSeq(acc.fragments) = Gathered(script, k)

\* One frame more.
LEMMA FollowsOn ==
    ASSUME NEW script \in Scripts, NEW k \in 0..Len(script), k < Len(script),
           NEW acc \in Accounts, NEW next \in Accounts,
           Follows(script, k, acc), HandlesFrame(acc, next, script[k + 1]), ~acc.closed
    PROVE  Follows(script, k + 1, next) /\ (next.closed => k + 1 = Len(script))
<1> DEFINE frame == script[k + 1]
           starts == Starts(script, k)
<1>1. Len(script) \in Nat /\ k \in Nat /\ k + 1 \in 1..Len(script) /\ k + 1 \in 0..Len(script)
  BY ScriptFacts
<1>2. /\ frame.fin \in BOOLEAN /\ frame.opcode \in OPCODES /\ frame.payload \in Seq({0, 1})
      /\ frame.opcode = CLOSE => k + 1 = Len(script)
  BY <1>1, ScriptFacts
<1>3. /\ frame.opcode \notin {TEXT, BINARY} => Starts(script, k + 1) = starts
      /\ frame.opcode \in {TEXT, BINARY} => Starts(script, k + 1) # {} /\ Max(Starts(script, k + 1)) = k + 1
  BY StartsOn
<1>4. /\ frame.opcode \in {TEXT, BINARY} => Gathered(script, k + 1) = frame.payload
      /\ frame.opcode \notin {TEXT, BINARY} /\ starts # {} =>
            Gathered(script, k + 1) = Gathered(script, k) \o
               (IF frame.opcode \in DataOpcodes THEN frame.payload ELSE <<>>)
  BY GatheredOn
<1>5. /\ frame.opcode \notin DataOpcodes /\ Unfinished(script, k + 1) => Unfinished(script, k)
      /\ frame.opcode \in DataOpcodes /\ frame.fin => ~Unfinished(script, k + 1)
      /\ frame.opcode = CONTINUATION /\ starts # {} => Unfinished(script, k)
  BY UnfinishedOn
<1>6. /\ MessagesTo(script, k) \in Seq(Delivery)
      /\ MessagesTo(script, k + 1) = MessagesTo(script, k) \o MessageAt(script, k + 1)
  BY MessagesOn
<1>7. /\ frame.opcode \in DataOpcodes /\ frame.fin /\ Starts(script, k + 1) # {} =>
            MessageAt(script, k + 1) =
               <<[opcode |-> script[Max(Starts(script, k + 1))].opcode, payload |-> Gathered(script, k + 1)]>>
      /\ ~(frame.opcode \in DataOpcodes /\ frame.fin /\ Starts(script, k + 1) # {}) => MessageAt(script, k + 1) = <<>>
  BY <1>1, MessageAtIs
<1>8. /\ DataOpcodes = {CONTINUATION, TEXT, BINARY} /\ OPCODES = DataOpcodes \union {CLOSE, PING, PONG}
      /\ CONTINUATION \notin {TEXT, BINARY} /\ {CLOSE, PING, PONG} \cap DataOpcodes = {}
      /\ CLOSE \notin {PING, PONG} /\ NoOpcode \notin {TEXT, BINARY}
  BY DEF DataOpcodes, OPCODES, CONTINUATION, TEXT, BINARY, CLOSE, PING, PONG, NoOpcode
<1>9. Gathered(script, k) \in Seq({0, 1}) /\ acc.fragments \in Seq(Seq({0, 1}))
      /\ (starts # {} => script[Max(starts)].opcode \in {TEXT, BINARY})
  BY StartsFacts, AccountFields
<1>10. MessagesTo(script, k) \o <<>> = MessagesTo(script, k) /\ Gathered(script, k) \o <<>> = Gathered(script, k)
  BY <1>6, <1>9, ConcatEmptySeq
<1>11. ASSUME NEW message, message \in Delivery
       PROVE  Append(MessagesTo(script, k), message) = MessagesTo(script, k) \o <<message>>
  BY <1>6, <1>11, AppendIsConcat
<1>12. /\ acc.delivered = MessagesTo(script, k)
       /\ starts = {} => acc.fragmentOpcode = NoOpcode
       /\ starts # {} /\ Unfinished(script, k) =>
             /\ acc.fragmentOpcode = script[Max(starts)].opcode
             /\ FlattenSeq(acc.fragments) = Gathered(script, k)
  BY DEF Follows
<1>13. /\ acc.closed \/ frame.opcode \in {PING, PONG} => Same(acc, next) /\ next.closed = acc.closed
       /\ frame.opcode = CLOSE => Same(acc, next) /\ next.closed
       /\ ~acc.closed /\ frame.opcode \in DataOpcodes => Handles(acc, next, frame) /\ ~next.closed
  BY DEF HandlesFrame
<1> HIDE DEF frame, starts
<1>14. CASE frame.opcode \notin DataOpcodes
  <2>1. Same(acc, next) /\ (next.closed => frame.opcode = CLOSE)
    <3>1. frame.opcode \in {PING, PONG} \/ frame.opcode = CLOSE
      BY <1>2, <1>8, <1>14
    <3> QED
      BY <1>13, <3>1, Zenon
  <2>2. frame.opcode \notin {TEXT, BINARY}
    BY <1>8, <1>14
  <2>3. MessagesTo(script, k + 1) = MessagesTo(script, k)
    BY <1>6, <1>7, <1>10, <1>14, Zenon
  <2>4. /\ next.fragments = acc.fragments /\ next.fragmentOpcode = acc.fragmentOpcode
        /\ next.delivered = acc.delivered
    BY <2>1 DEF Same
  <2>5. Starts(script, k + 1) = starts /\ (starts # {} => Gathered(script, k + 1) = Gathered(script, k))
    BY <1>3, <1>4, <1>10, <1>14, <2>2, Zenon
  <2>6. Follows(script, k + 1, next)
    <3>1. next.delivered = MessagesTo(script, k + 1)
      BY <1>12, <2>3, <2>4, Zenon
    <3>2. Starts(script, k + 1) = {} => next.fragmentOpcode = NoOpcode
      BY <1>12, <2>4, <2>5, Zenon
    <3>3. ASSUME Starts(script, k + 1) # {}, Unfinished(script, k + 1)
          PROVE  /\ next.fragmentOpcode = script[Max(Starts(script, k + 1))].opcode
                 /\ FlattenSeq(next.fragments) = Gathered(script, k + 1)
      BY <1>5, <1>12, <1>14, <2>4, <2>5, <3>3, Zenon
    <3> QED
      BY <3>1, <3>2, <3>3, Zenon DEF Follows
  <2> QED
    BY <1>2, <2>1, <2>6, Zenon
<1>15. CASE frame.opcode = CONTINUATION
  <2>1. Handles(acc, next, frame) /\ ~next.closed /\ frame.opcode \in DataOpcodes /\ frame.opcode \notin {TEXT, BINARY}
    BY <1>8, <1>13, <1>15
  <2>2. Starts(script, k + 1) = starts
    BY <1>3, <2>1
  <2>3. CASE starts = {}
    <3>1. Same(acc, next)
      BY <1>12, <1>15, <2>1, <2>3, Zenon DEF Handles
    <3>2. MessagesTo(script, k + 1) = MessagesTo(script, k)
      BY <1>6, <1>7, <1>10, <2>2, <2>3, Zenon
    <3> QED
      BY <1>12, <2>1, <2>2, <2>3, <3>1, <3>2, Zenon DEF Follows, Same
  <2>4. CASE starts # {}
    <3>1. /\ Unfinished(script, k) /\ acc.fragmentOpcode = script[Max(starts)].opcode
          /\ FlattenSeq(acc.fragments) = Gathered(script, k) /\ acc.fragmentOpcode # NoOpcode
      BY <1>5, <1>8, <1>9, <1>12, <1>15, <2>4
    <3>2. Gathered(script, k + 1) = Gathered(script, k) \o frame.payload
      BY <1>4, <2>1, <2>4, Zenon
    <3>3. FlattenSeq(Append(acc.fragments, frame.payload)) = FlattenSeq(acc.fragments) \o frame.payload
      BY <1>2, <1>9, FlattenFacts
    <3>4. FlattenSeq(Append(acc.fragments, frame.payload)) = Gathered(script, k + 1)
      BY <3>1, <3>2, <3>3, Zenon
    <3>5. CASE frame.fin
      <4> DEFINE message == [opcode |-> acc.fragmentOpcode, payload |-> FlattenSeq(Append(acc.fragments, frame.payload))]
      <4>1. next.delivered = Append(acc.delivered, message)
        BY <1>15, <2>1, <3>1, <3>5, Zenon DEF Handles
      <4>2. message = [opcode |-> script[Max(Starts(script, k + 1))].opcode, payload |-> Gathered(script, k + 1)]
        BY <2>2, <3>1, <3>4, Zenon
      <4> HIDE DEF message
      <4>3. MessageAt(script, k + 1) = <<message>>
        BY <1>7, <2>1, <2>2, <2>4, <3>5, <4>2, Zenon
      <4>4. message \in Delivery
        <5>1. script[Max(Starts(script, k + 1))].opcode \in OPCODES /\ Gathered(script, k + 1) \in Seq({0, 1})
          BY <1>1, <2>2, <2>4, StartsFacts
        <5> QED
          BY <4>2, <5>1 DEF Delivery
      <4>5. next.delivered = MessagesTo(script, k + 1)
        BY <1>6, <1>11, <1>12, <4>1, <4>3, <4>4, Zenon
      <4>6. ~Unfinished(script, k + 1)
        BY <1>5, <2>1, <3>5
      <4> QED
        BY <2>1, <2>2, <2>4, <4>5, <4>6, Zenon DEF Follows
    <3>6. CASE ~frame.fin
      <4>1. /\ next.fragmentOpcode = acc.fragmentOpcode /\ next.delivered = acc.delivered
            /\ next.fragments = Append(acc.fragments, frame.payload)
        BY <1>15, <2>1, <3>1, <3>6, Zenon DEF Handles
      <4>2. MessagesTo(script, k + 1) = MessagesTo(script, k)
        BY <1>6, <1>7, <1>10, <3>6, Zenon
      <4>3. next.delivered = MessagesTo(script, k + 1)
        BY <1>12, <4>1, <4>2, Zenon
      <4>4. next.fragmentOpcode = script[Max(Starts(script, k + 1))].opcode
        BY <2>2, <3>1, <4>1, Zenon
      <4>5. FlattenSeq(next.fragments) = Gathered(script, k + 1)
        BY <3>4, <4>1, Zenon
      <4> QED
        BY <2>1, <2>2, <2>4, <4>3, <4>4, <4>5, Zenon DEF Follows
    <3> QED
      BY <3>5, <3>6
  <2> QED
    BY <2>3, <2>4
<1>16. CASE frame.opcode \in {TEXT, BINARY}
  <2>1. Handles(acc, next, frame) /\ ~next.closed /\ frame.opcode \in DataOpcodes /\ frame.opcode # CONTINUATION
    BY <1>8, <1>13, <1>16
  <2>2. Starts(script, k + 1) # {} /\ Max(Starts(script, k + 1)) = k + 1 /\ Gathered(script, k + 1) = frame.payload
    BY <1>3, <1>4, <1>16
  <2>3. script[Max(Starts(script, k + 1))].opcode = frame.opcode
    BY <2>2, Zenon DEF frame
  <2>4. CASE frame.fin
    <3> DEFINE message == [opcode |-> frame.opcode, payload |-> frame.payload]
    <3>1. next.delivered = Append(acc.delivered, message)
      BY <2>1, <2>4, Zenon DEF Handles
    <3>2. message = [opcode |-> script[Max(Starts(script, k + 1))].opcode, payload |-> Gathered(script, k + 1)]
      BY <2>2, <2>3, Zenon
    <3> HIDE DEF message
    <3>3. MessageAt(script, k + 1) = <<message>>
      BY <1>7, <2>1, <2>2, <2>4, <3>2, Zenon
    <3>4. message \in Delivery
      BY <1>2 DEF Delivery, message
    <3>5. next.delivered = MessagesTo(script, k + 1)
      BY <1>6, <1>11, <1>12, <3>1, <3>3, <3>4, Zenon
    <3>6. ~Unfinished(script, k + 1)
      BY <1>5, <2>1, <2>4
    <3> QED
      BY <2>1, <2>2, <3>5, <3>6, Zenon DEF Follows
  <2>5. CASE ~frame.fin
    <3>1. /\ next.fragmentOpcode = frame.opcode /\ next.fragments = <<frame.payload>>
          /\ next.delivered = acc.delivered
      BY <2>1, <2>5, Zenon DEF Handles
    <3>2. MessagesTo(script, k + 1) = MessagesTo(script, k)
      BY <1>6, <1>7, <1>10, <2>5, Zenon
    <3>3. next.delivered = MessagesTo(script, k + 1)
      BY <1>12, <3>1, <3>2, Zenon
    <3>4. FlattenSeq(<<frame.payload>>) = frame.payload
      BY <1>2, FlattenOne
    <3>5. FlattenSeq(next.fragments) = Gathered(script, k + 1)
      BY <2>2, <3>1, <3>4, Zenon
    <3>6. next.fragmentOpcode = script[Max(Starts(script, k + 1))].opcode
      BY <2>3, <3>1, Zenon
    <3> QED
      BY <2>1, <2>2, <3>3, <3>5, <3>6, Zenon DEF Follows
  <2> QED
    BY <2>4, <2>5
<1> QED
  BY <1>8, <1>14, <1>15, <1>16

-----------------------------------------------------------------------------
(* The WebSocket client: what a behaviour keeps. *)

\* How far the client has come in a script: the bytes it holds and those under way are of the
\* frames after the first so many, and those have done what they should.
Stands(script, k) ==
    /\ sent = Messages(script)
    /\ buffer \o incoming = Encoded(SubSeq(script, k + 1, Len(script)), FALSE)
    /\ Follows(script, k, Client)

\* Types are not enough: what was written is of frames that the other end takes, what arrives is
\* of a script, and a frame that was too large is still at the head of the buffer's rest.
SocketIInv ==
    /\ WsTypeOK /\ outgoing \in Seq(Sendable) /\ output = Encoded(outgoing, TRUE)
    /\ oversize => DecodeFrames(buffer).state = "oversize"
    /\ \E script \in Scripts : \E k \in 0..Len(script) : Stands(script, k)

\* What may be sent may be written.
LEMMA SendableWritable == Sendable \subseteq Writable /\ \A frames \in Seq(Sendable) : frames \in Seq(Writable)
<1>1. MaxPayload \in 0..255
  BY WebSocketAssumption
<1>2. Sendable \subseteq Writable
  <2> SUFFICES ASSUME NEW frame \in Sendable PROVE frame \in Writable
    OBVIOUS
  <2>1. frame \in Frames /\ Len(frame.payload) <= MaxPayload /\ frame.payload \in Seq({0, 1})
    BY DEF Sendable, Frames
  <2>2. Len(frame.payload) < 256
    BY <1>1, <2>1
  <2> QED
    BY <2>1, <2>2 DEF Writable
<1> QED
  BY <1>2, SeqMonotonic, Zenon

\* The frames that were sent, and those of pongs, of a close and of data.
LEMMA WriteKeeps ==
    ASSUME NEW frames \in Seq(Sendable), Write(frames),
           outgoing \in Seq(Sendable), output = Encoded(outgoing, TRUE)
    PROVE  outgoing' \in Seq(Sendable) /\ output' = Encoded(outgoing', TRUE)
<1>1. CASE wsClosed \/ socket = "destroyed"
  BY <1>1 DEF Write
<1>2. CASE ~(wsClosed \/ socket = "destroyed")
  <2>1. output' = output \o Encoded(frames, TRUE) /\ outgoing' = outgoing \o frames
    BY <1>2, Zenon DEF Write, Encoded
  <2>2. outgoing \in Seq(Writable) /\ frames \in Seq(Writable)
    BY SendableWritable
  <2>3. outgoing \o frames \in Seq(Sendable)
    BY ConcatProperties
  <2>4. Encoded(outgoing \o frames, TRUE) = Encoded(outgoing, TRUE) \o Encoded(frames, TRUE)
    BY <2>2, EncodedParts
  <2>5. outgoing' \in Seq(Sendable)
    BY <2>1, <2>3, Zenon
  <2>6. output' = Encoded(outgoing', TRUE)
    BY <2>1, <2>4, Zenon
  <2> QED
    BY <2>5, <2>6
<1> QED
  BY <1>1, <1>2

\* One frame is a row of frames.
LEMMA OneSendable ==
    ASSUME NEW frame \in Sendable
    PROVE  <<frame>> \in Seq(Sendable)
OBVIOUS

\* close() writes its frame, and ends a socket that is open.
LEMMA CloseKeeps ==
    ASSUME CloseClient, WsTypeOK, outgoing \in Seq(Sendable), output = Encoded(outgoing, TRUE)
    PROVE  /\ outgoing' \in Seq(Sendable) /\ output' = Encoded(outgoing', TRUE)
           /\ wsClosed' \in BOOLEAN /\ socket' \in {"open", "ending", "destroyed"}
           /\ socket' = "destroyed" <=> socket = "destroyed"
<1>1. wsClosed \in BOOLEAN /\ socket \in {"open", "ending", "destroyed"}
  BY DEF WsTypeOK
<1>2. CASE wsClosed
  <2>1. UNCHANGED <<output, outgoing, wsClosed, socket>>
    BY <1>2 DEF CloseClient
  <2> QED
    BY <1>1, <2>1
<1>3. CASE ~wsClosed
  <2>1. /\ Write(<<CloseFrame>>) /\ wsClosed' = TRUE
        /\ socket' = IF socket = "open" THEN "ending" ELSE socket
    BY <1>3, Zenon DEF CloseClient
  <2>2. CloseFrame \in Sendable
    <3>1. MaxPayload \in 0..255
      BY WebSocketAssumption
    <3>2. <<>> \in Seq({0, 1}) /\ Len(<<>>) = 0 /\ CLOSE \in OPCODES
      BY DEF OPCODES
    <3>3. CloseFrame \in Frames
      BY <3>2 DEF CloseFrame, Frames
    <3>4. CloseFrame.payload = <<>>
      BY DEF CloseFrame
    <3>5. Len(CloseFrame.payload) <= MaxPayload
      BY <3>1, <3>2, <3>4
    <3> QED
      BY <3>3, <3>5, Zenon DEF Sendable
  <2>3. <<CloseFrame>> \in Seq(Sendable)
    BY <2>2, OneSendable
  <2>4. outgoing' \in Seq(Sendable) /\ output' = Encoded(outgoing', TRUE)
    BY <2>1, <2>3, WriteKeeps
  <2> QED
    BY <1>1, <2>1, <2>4
<1> QED
  BY <1>1, <1>2, <1>3

\* At first nothing has come.
LEMMA SocketFirst ==
    ASSUME WsInit
    PROVE  SocketIInv
<1>1. PICK script \in Scripts :
         /\ sent = Messages(script)
         /\ incoming = FlattenSeq([k \in DOMAIN script |-> EncodeFrame(script[k], FALSE)])
  BY DEF WsInit
<1>2. /\ buffer = <<>> /\ fragments = <<>> /\ fragmentOpcode = NoOpcode
      /\ delivered = <<>> /\ output = <<>> /\ outgoing = <<>>
      /\ wsClosed = FALSE /\ socket = "open" /\ oversize = FALSE
  BY DEF WsInit
<1>3. script \in Seq(Writable) /\ Len(script) \in Nat /\ FALSE \in BOOLEAN /\ TRUE \in BOOLEAN
  BY ScriptFacts
<1>4. incoming = Encoded(script, FALSE) /\ incoming \in Seq(Bytes)
  <2>1. incoming = Encoded(script, FALSE)
    BY <1>1, Zenon DEF Encoded
  <2>2. Encoded(script, FALSE) \in Seq(Bytes)
    BY <1>3, EncodedParts
  <2> QED
    BY <2>1, <2>2, Zenon
<1>5. /\ Messages(script) = MessagesTo(script, Len(script)) /\ Messages(script) \in Seq(Delivery)
      /\ MessagesTo(script, 0) = <<>>
  BY MessagesAre
<1>6. outgoing \in Seq(Sendable) /\ output = Encoded(outgoing, TRUE)
  <2>1. Rows(<<>>, TRUE) = <<>> /\ FlattenSeq(<<>>) = <<>>
    BY DEF Rows, FlattenSeq
  <2>2. Encoded(<<>>, TRUE) = <<>>
    BY <2>1, Zenon DEF Encoded, Rows
  <2>3. <<>> \in Seq(Sendable)
    OBVIOUS
  <2> QED
    BY <1>2, <2>2, <2>3, Zenon
<1>7. WsTypeOK
  <2>1. /\ buffer \in Seq(0..255) /\ fragments \in Seq(Seq({0, 1})) /\ delivered \in Seq(Delivery)
        /\ outgoing \in Seq(Frames)
    BY <1>2
  <2> QED
    BY <1>1, <1>2, <1>4, <1>5, <2>1 DEF WsTypeOK, Bytes
<1>8. Stands(script, 0)
  <2>1. buffer \o incoming = Encoded(SubSeq(script, 0 + 1, Len(script)), FALSE)
    <3>1. SubSeq(script, 1, Len(script)) = script /\ 0 + 1 = 1
      BY <1>3, SubSeqFull
    <3>2. <<>> \o incoming = incoming
      BY <1>4, ConcatEmptySeq
    <3> QED
      BY <1>2, <1>4, <3>1, <3>2, Zenon
  <2>2. Starts(script, 0) = {}
    BY DEF Starts
  <2>3. Client.delivered = <<>> /\ Client.fragmentOpcode = NoOpcode
    BY <1>2 DEF Client
  <2>4. Follows(script, 0, Client)
    BY <1>5, <2>2, <2>3, Zenon DEF Follows
  <2> QED
    BY <1>1, <2>1, <2>4, Zenon DEF Stands
<1>9. 0 \in 0..Len(script)
  BY <1>3
<1> QED
  BY <1>2, <1>6, <1>7, <1>8, <1>9, Zenon DEF SocketIInv

\* While what arrives is left alone, it stays where it is.
LEMMA SocketWaits ==
    ASSUME SocketIInv, UNCHANGED <<sent, incoming, buffer, fragments, fragmentOpcode, delivered, oversize>>,
           outgoing' \in Seq(Sendable), output' = Encoded(outgoing', TRUE),
           wsClosed' \in BOOLEAN, socket' \in {"open", "ending", "destroyed"}
    PROVE  SocketIInv'
<1>0. PICK script \in Scripts : \E k \in 0..Len(script) : Stands(script, k)
  BY DEF SocketIInv
<1>1. PICK k \in 0..Len(script) : Stands(script, k)
  BY <1>0
<1>2. Client' = Client
  BY DEF Client
<1>3. Stands(script, k)'
  BY <1>1, <1>2, Zenon DEF Stands
<1>4. WsTypeOK'
  <2>1. outgoing' \in Seq(Frames)
    <3>1. Sendable \subseteq Frames
      BY DEF Sendable
    <3> QED
      BY <3>1, SeqMonotonic
  <2> QED
    BY <2>1 DEF SocketIInv, WsTypeOK
<1>5. oversize' => (DecodeFrames(buffer).state = "oversize")'
  BY DEF SocketIInv
<1> QED
  BY <1>1, <1>3, <1>4, <1>5, Zenon DEF SocketIInv

\* Frames that are taken one by one follow the script.
LEMMA LoopFollows ==
    ASSUME NEW script \in Scripts, NEW k \in 0..Len(script), Follows(script, k, Client), Client \in Accounts,
           NEW frames \in Seq(Sendable), k + Len(frames) <= Len(script),
           \A j \in 1..Len(frames) : frames[j] = script[k + j]
    PROVE  Follows(script, k + Len(frames), HandleFrames(frames)) /\ HandleFrames(frames) \in Accounts
<1> DEFINE N == Len(frames)
<1>1. PICK g \in [0..N -> Accounts] : Loops(g, frames) /\ HandleFrames(frames) = g[N]
  BY HandleGoesOn
<1>2. N \in Nat /\ k \in Nat /\ Len(script) \in Nat
  BY ScriptFacts
<1>3. g[0] = Client /\ \A j \in 1..N : g[j] \in Accounts /\ HandlesFrame(g[j - 1], g[j], frames[j])
  BY <1>1 DEF Loops
<1> DEFINE S == {j \in Nat : j <= N => Follows(script, k + j, g[j]) /\ (g[j].closed => k + j = Len(script))}
<1>4. 0 \in S
  <2>1. Client.closed = FALSE /\ k + 0 = k
    BY <1>2 DEF Client
  <2> QED
    BY <1>3, <2>1
<1>5. \A j \in Nat : j \in S => j + 1 \in S
  <2> TAKE j \in Nat
  <2> HAVE j \in S
  <2> SUFFICES ASSUME j + 1 <= N
               PROVE  Follows(script, k + (j + 1), g[j + 1]) /\ (g[j + 1].closed => k + (j + 1) = Len(script))
    OBVIOUS
  <2>1. j + 1 \in 1..N /\ (j + 1) - 1 = j /\ j \in 0..N /\ k + j \in 0..Len(script) /\ k + j < Len(script)
        /\ (k + j) + 1 = k + (j + 1) /\ k + j # Len(script)
    BY <1>2
  <2>2. Follows(script, k + j, g[j]) /\ ~g[j].closed
    BY <2>1
  <2> HIDE DEF S
  <2>3. g[j] \in Accounts /\ g[j + 1] \in Accounts
    BY <1>1, <1>3, <2>1
  <2>4. HandlesFrame(g[j], g[j + 1], script[(k + j) + 1])
    <3>1. HandlesFrame(g[(j + 1) - 1], g[j + 1], frames[j + 1])
      BY <1>3, <2>1, Zenon
    <3>2. frames[j + 1] = script[k + (j + 1)]
      BY <2>1
    <3> QED
      BY <2>1, <3>1, <3>2
  <2>5. PICK now \in 0..Len(script) : now = k + j /\ now < Len(script)
    BY <2>1
  <2>6. PICK old \in Accounts, new \in Accounts : old = g[j] /\ new = g[j + 1]
    BY <2>3
  <2>7. Follows(script, now, old) /\ HandlesFrame(old, new, script[now + 1]) /\ ~old.closed
    BY <2>2, <2>4, <2>5, <2>6, Zenon
  <2>8. Follows(script, now + 1, new) /\ (new.closed => now + 1 = Len(script))
    BY <2>5, <2>7, FollowsOn
  <2> QED
    BY <2>1, <2>5, <2>6, <2>8, Zenon
<1> HIDE DEF S
<1>6. Nat \subseteq S
  BY <1>4, <1>5, AllNumbers
<1>7. Follows(script, k + N, g[N]) /\ N \in 0..N
  BY <1>2, <1>6 DEF S
<1>8. g[N] \in Accounts
  BY <1>1, <1>7
<1> QED
  BY <1>1, <1>7, <1>8, Zenon DEF N

\* What a chunk adds to the buffer is cut off what is under way.
LEMMA ChunkFacts ==
    ASSUME NEW held \in Seq(Bytes), NEW way \in Seq(Bytes), NEW n \in 0..Len(way)
    PROVE  LET both == held \o SubSeq(way, 1, n)
               left == SubSeq(way, n + 1, Len(way))
           IN  both \in Seq(Bytes) /\ left \in Seq(Bytes) /\ both \o left = held \o way
<1>1. PICK chunk \in Seq(Bytes) : chunk = SubSeq(way, 1, n)
  <2>1. SubSeq(way, 1, n) \in Seq(Bytes)
    BY CutTyped
  <2> QED
    BY <2>1, Zenon
<1>2. PICK left \in Seq(Bytes) : left = SubSeq(way, n + 1, Len(way))
  <2>1. SubSeq(way, n + 1, Len(way)) \in Seq(Bytes)
    BY CutTyped
  <2> QED
    BY <2>1, Zenon
<1>3. SubSeq(way, 1, n) \o SubSeq(way, n + 1, Len(way)) = way
  BY CutTyped
<1>4. chunk \o left = way
  BY <1>1, <1>2, <1>3, Zenon
<1>5. Grouped(held, chunk, left)
  BY Grouping
<1>6. (held \o chunk) \o left = held \o way
  BY <1>4, <1>5, Zenon DEF Grouped
<1>7. held \o chunk \in Seq(Bytes)
  BY ConcatProperties
<1> QED
  BY <1>1, <1>2, <1>6, <1>7, Zenon

\* The rest of a script after some more of its frames.
LEMMA ScriptCut ==
    ASSUME NEW script \in Scripts, NEW k \in 0..Len(script)
    PROVE  LET remaining == SubSeq(script, k + 1, Len(script))
           IN  /\ remaining \in Seq(Writable) /\ Len(remaining) = Len(script) - k
               /\ \A m \in 0..Len(remaining) :
                     /\ k + m \in 0..Len(script)
                     /\ SubSeq(remaining, m + 1, Len(remaining)) = SubSeq(script, (k + m) + 1, Len(script))
                     /\ SubSeq(remaining, 1, m) \in Seq(Writable) /\ Len(SubSeq(remaining, 1, m)) = m
                     /\ \A j \in 1..m : /\ SubSeq(remaining, 1, m)[j] = script[k + j]
                                        /\ SubSeq(remaining, 1, m)[j] = remaining[j]
<1> DEFINE remaining == SubSeq(script, k + 1, Len(script))
           L == Len(script)
<1>1. script \in Seq(Writable) /\ L \in Nat /\ k \in Nat /\ k <= L /\ L <= Len(script)
  BY ScriptFacts
<1>2. /\ remaining \in Seq(Writable) /\ Len(remaining) = L - k
      /\ \A j \in 1..L - k : remaining[j] = script[k + j]
  BY <1>1, Stretch
<1> HIDE DEF remaining, L
<1>3. ASSUME NEW m \in 0..Len(remaining)
      PROVE  /\ k + m \in 0..L
             /\ SubSeq(remaining, m + 1, Len(remaining)) = SubSeq(script, (k + m) + 1, L)
             /\ SubSeq(remaining, 1, m) \in Seq(Writable) /\ Len(SubSeq(remaining, 1, m)) = m
             /\ \A j \in 1..m : /\ SubSeq(remaining, 1, m)[j] = script[k + j]
                                /\ SubSeq(remaining, 1, m)[j] = remaining[j]
  <2>1. k + m \in 0..L /\ m \in Nat /\ k + m \in Nat /\ k + m <= L /\ m <= Len(remaining) /\ Len(remaining) \in Nat
    BY <1>1, <1>2
  <2>2. /\ SubSeq(remaining, 1, m) \in Seq(Writable) /\ Len(SubSeq(remaining, 1, m)) = m
        /\ \A j \in 1..m : SubSeq(remaining, 1, m)[j] = remaining[j]
    BY <1>2, CutTyped
  <2>3. \A j \in 1..m : j \in 1..L - k
    BY <1>1, <1>2, <2>1
  <2>4. \A j \in 1..m : SubSeq(remaining, 1, m)[j] = script[k + j]
    BY <1>2, <2>2, <2>3, Zenon
  <2> DEFINE a == SubSeq(remaining, m + 1, Len(remaining))
             b == SubSeq(script, (k + m) + 1, L)
  <2>5. /\ a \in Seq(Writable) /\ Len(a) = Len(remaining) - m
        /\ \A j \in 1..Len(remaining) - m : a[j] = remaining[m + j]
    <3>1. Len(remaining) <= Len(remaining)
      BY <2>1
    <3> QED
      BY <1>2, <2>1, <3>1, Stretch
  <2>6. /\ b \in Seq(Writable) /\ Len(b) = L - (k + m)
        /\ \A j \in 1..L - (k + m) : b[j] = script[(k + m) + j]
    BY <1>1, <2>1, Stretch
  <2> HIDE DEF a, b
  <2>7. Len(remaining) - m = L - (k + m)
    BY <1>1, <1>2, <2>1
  <2>8. ASSUME NEW j \in 1..L - (k + m) PROVE a[j] = b[j]
    <3>1. m + j \in 1..L - k /\ k + (m + j) = (k + m) + j
      BY <1>1, <2>1
    <3>2. a[j] = remaining[m + j] /\ remaining[m + j] = script[k + (m + j)] /\ b[j] = script[(k + m) + j]
      BY <1>2, <2>5, <2>6, <2>7, <3>1, Zenon
    <3> QED
      BY <3>1, <3>2
  <2>9. a = b
    BY <2>5, <2>6, <2>7, <2>8, SeqEqual
  <2> QED
    BY <2>1, <2>2, <2>4, <2>9, Zenon DEF a, b
<1> QED
  BY <1>2, <1>3, Zenon DEF remaining, L

\* More frames make the messages no fewer: the earlier ones stay where they are.
LEMMA MessagesGrow ==
    ASSUME NEW script \in Scripts, NEW k \in 0..Len(script), NEW m \in Nat, k + m <= Len(script)
    PROVE  \E more \in Seq(Delivery) : MessagesTo(script, k + m) = MessagesTo(script, k) \o more
<1> DEFINE Grows(n) == \E more \in Seq(Delivery) : MessagesTo(script, k + n) = MessagesTo(script, k) \o more
           S == {n \in Nat : k + n <= Len(script) => Grows(n)}
<1>1. Len(script) \in Nat /\ k \in Nat
  BY ScriptFacts
<1>2. MessagesTo(script, k) \in Seq(Delivery)
  BY MessagesOn
<1>3. 0 \in S
  <2>1. <<>> \in Seq(Delivery) /\ k + 0 = k /\ MessagesTo(script, k) \o <<>> = MessagesTo(script, k)
    BY <1>1, <1>2, ConcatEmptySeq
  <2>2. MessagesTo(script, k + 0) = MessagesTo(script, k) \o <<>>
    BY <2>1, Zenon
  <2>3. Grows(0)
    BY <2>1, <2>2, Zenon
  <2> HIDE DEF Grows
  <2> QED
    BY <2>3
<1>4. \A n \in Nat : n \in S => n + 1 \in S
  <2> TAKE n \in Nat
  <2> HAVE n \in S
  <2>1. ASSUME k + (n + 1) <= Len(script) PROVE Grows(n + 1)
    <3>1. k + n \in 0..Len(script) /\ k + n < Len(script) /\ k + n <= Len(script) /\ (k + n) + 1 = k + (n + 1)
          /\ k + (n + 1) \in 1..Len(script)
      BY <1>1, <2>1
    <3>2. PICK more \in Seq(Delivery) : MessagesTo(script, k + n) = MessagesTo(script, k) \o more
      BY <3>1
    <3>3. MessagesTo(script, (k + n) + 1) = MessagesTo(script, k + n) \o MessageAt(script, (k + n) + 1)
      BY <3>1, MessagesOn
    <3>4. PICK last \in Seq(Delivery) : last = MessageAt(script, k + (n + 1))
      BY <3>1, MessageAtIs
    <3>5. PICK first \in Seq(Delivery) : first = MessagesTo(script, k)
      BY <1>2
    <3>6. Grouped(first, more, last)
      BY Grouping
    <3>7. more \o last \in Seq(Delivery)
      BY ConcatProperties
    <3>8. MessagesTo(script, k + (n + 1)) = MessagesTo(script, k) \o (more \o last)
      BY <3>1, <3>2, <3>3, <3>4, <3>5, <3>6, Zenon DEF Grouped
    <3> QED
      BY <3>7, <3>8, Zenon
  <2> HIDE DEF Grows
  <2> QED
    BY <2>1
<1>5. m \in S
  <2> HIDE DEF S
  <2> QED
    BY <1>3, <1>4, AllNumbers
<1> QED
  BY <1>5

\* What was delivered, and what is next, as a channel has it.
Advances == delivered' = delivered \/ \E n \in Len(delivered) + 1..Len(sent) : delivered' = SubSeq(sent, 1, n)

\* What is delivered goes on along the messages of the script.
LEMMA DeliveredAdvances ==
    ASSUME NEW script \in Scripts, NEW k \in 0..Len(script), NEW m \in Nat, k + m <= Len(script),
           sent = Messages(script), delivered = MessagesTo(script, k), delivered' = MessagesTo(script, k + m)
    PROVE  Advances
<1>1. Len(script) \in Nat /\ k \in Nat
  BY ScriptFacts
<1>2. PICK more \in Seq(Delivery) : delivered' = delivered \o more
  <2>1. PICK s \in Seq(Delivery) : MessagesTo(script, k + m) = MessagesTo(script, k) \o s
    BY MessagesGrow
  <2> QED
    BY <2>1, Zenon
<1>3. PICK left \in Seq(Delivery) : sent = delivered' \o left
  <2>1. k + m \in 0..Len(script) /\ Len(script) - (k + m) \in Nat /\ (k + m) + (Len(script) - (k + m)) = Len(script)
    BY <1>1
  <2>2. PICK now \in 0..Len(script), n \in Nat : now = k + m /\ now + n = Len(script)
    BY <2>1
  <2>3. Len(script) <= Len(script)
    BY <1>1
  <2>4. PICK s \in Seq(Delivery) : MessagesTo(script, now + n) = MessagesTo(script, now) \o s
    BY <2>2, <2>3, MessagesGrow
  <2>5. Messages(script) = MessagesTo(script, Len(script))
    BY MessagesAre
  <2>6. sent = delivered' \o s
    BY <2>2, <2>4, <2>5, Zenon
  <2> QED
    BY <2>6, Zenon
<1>4. PICK old \in Seq(Delivery) : old = delivered
  BY MessagesOn
<1>5. PICK new \in Seq(Delivery) : new = delivered'
  BY <1>1, MessagesOn
<1>6. PICK all \in Seq(Delivery) : all = sent
  BY MessagesAre
<1>7. new = old \o more /\ all = new \o left
  BY <1>2, <1>3, <1>4, <1>5, <1>6, Zenon
<1>8. new = old \/ \E n \in Len(old) + 1..Len(all) : new = SubSeq(all, 1, n)
  <2>1. CASE more = <<>>
    <3>1. old \o <<>> = old
      BY ConcatEmptySeq
    <3> QED
      BY <1>7, <2>1, <3>1, Zenon
  <2>2. CASE more # <<>>
    <3>1. Len(more) \in Nat /\ Len(more) # 0 /\ Len(old) \in Nat /\ Len(new) \in Nat /\ Len(left) \in Nat
      BY <2>2, EmptySeq
    <3>2. IsConcat(new, old, more, Delivery) /\ IsConcat(all, new, left, Delivery)
      BY <1>7, ConcatIs
    <3>3. Len(new) = Len(old) + Len(more) /\ Len(all) = Len(new) + Len(left)
      BY <3>2, Zenon DEF IsConcat
    <3>4. Len(new) \in Len(old) + 1..Len(all) /\ Len(new) \in 0..Len(all)
      BY <3>1, <3>3
    <3>5. /\ SubSeq(all, 1, Len(new)) \in Seq(Delivery) /\ Len(SubSeq(all, 1, Len(new))) = Len(new)
          /\ \A j \in 1..Len(new) : SubSeq(all, 1, Len(new))[j] = all[j]
      BY <3>4, CutTyped
    <3>6. \A j \in 1..Len(new) : all[j] = new[j]
      BY <3>2, Zenon DEF IsConcat
    <3>7. PICK cut \in Seq(Delivery) : cut = SubSeq(all, 1, Len(new)) /\ Len(cut) = Len(new)
                                       /\ \A j \in 1..Len(new) : cut[j] = all[j]
      BY <3>5, Zenon
    <3>8. cut = new
      BY <3>6, <3>7, SeqEqual
    <3> QED
      BY <3>4, <3>7, <3>8, Zenon
  <2> QED
    BY <2>1, <2>2
<1> QED
  BY <1>4, <1>5, <1>6, <1>8, Zenon DEF Advances

\* A sequence whose elements are of a set is of that set.
LEMMA ElementsTyped ==
    ASSUME NEW S, NEW T, NEW s \in Seq(S), \A j \in 1..Len(s) : s[j] \in T
    PROVE  s \in Seq(T)
<1>1. Len(s) \in Nat /\ s = [j \in 1..Len(s) |-> s[j]]
  OBVIOUS
<1>2. [j \in 1..Len(s) |-> s[j]] \in Seq(T)
  BY <1>1
<1> QED
  BY <1>1, <1>2, Zenon

\* What a step of the client is to a channel.
Delivers ==
    /\ sent' = sent
    /\ \/ oversize' = TRUE /\ delivered' = delivered /\ (socket' = "destroyed" <=> socket = "destroyed")
       \/ ~oversize /\ UNCHANGED <<oversize, socket>> /\ Advances

\* A chunk with a frame that is too large ends it; what was decoded with it is gone.
LEMMA ChunkTooLarge ==
    ASSUME SocketIInv, NEW chunk \in Seq(Bytes), NEW left \in Seq(Bytes), chunk \o left = buffer \o incoming,
           DecodeFrames(chunk).state = "oversize",
           incoming' = left, buffer' = chunk, oversize' = TRUE, CloseClient,
           UNCHANGED <<sent, fragments, fragmentOpcode, delivered>>
    PROVE  SocketIInv' /\ Delivers
<1>0. PICK script \in Scripts : \E k \in 0..Len(script) : Stands(script, k)
  BY DEF SocketIInv
<1>1. PICK k \in 0..Len(script) : Stands(script, k)
  BY <1>0
<1>2. Client' = Client
  BY DEF Client
<1>3. buffer' \o incoming' = buffer \o incoming
  BY Zenon
<1>4. Stands(script, k)'
  BY <1>1, <1>2, <1>3, Zenon DEF Stands
<1>5. /\ outgoing' \in Seq(Sendable) /\ output' = Encoded(outgoing', TRUE)
      /\ wsClosed' \in BOOLEAN /\ socket' \in {"open", "ending", "destroyed"}
      /\ socket' = "destroyed" <=> socket = "destroyed"
  BY CloseKeeps DEF SocketIInv
<1>6. WsTypeOK'
  <2>1. outgoing' \in Seq(Frames)
    <3>1. Sendable \subseteq Frames
      BY DEF Sendable
    <3> QED
      BY <1>5, <3>1, SeqMonotonic
  <2> QED
    BY <1>5, <2>1 DEF SocketIInv, WsTypeOK, Bytes
<1>7. DecodeFrames(buffer').state = "oversize"
  BY Zenon
<1>8. SocketIInv'
  BY <1>1, <1>4, <1>5, <1>6, <1>7, Zenon DEF SocketIInv
<1>9. Delivers
  BY <1>5 DEF Delivers
<1> QED
  BY <1>8, <1>9

\* A chunk whose frames are taken.
LEMMA ChunkTaken ==
    ASSUME SocketIInv, NEW chunk \in Seq(Bytes), NEW left \in Seq(Bytes), chunk \o left = buffer \o incoming,
           NEW decoded, decoded = DecodeFrames(chunk), decoded.state # "oversize",
           NEW done, done = HandleFrames(decoded.frames),
           incoming' = left, buffer' = decoded.rest,
           fragments' = done.fragments, fragmentOpcode' = done.fragmentOpcode, delivered' = done.delivered,
           Write(done.pongs), wsClosed' = (wsClosed \/ done.closed), UNCHANGED <<sent, socket, oversize>>,
           ~oversize
    PROVE  SocketIInv' /\ Delivers
<1>0. PICK script \in Scripts : \E k \in 0..Len(script) : Stands(script, k)
  BY DEF SocketIInv
<1>1. PICK k \in 0..Len(script) : Stands(script, k)
  BY <1>0
<1>2. PICK remaining \in Seq(Writable) :
         /\ remaining = SubSeq(script, k + 1, Len(script))
         /\ \A m \in 0..Len(remaining) :
               /\ k + m \in 0..Len(script)
               /\ SubSeq(remaining, m + 1, Len(remaining)) = SubSeq(script, (k + m) + 1, Len(script))
               /\ SubSeq(remaining, 1, m) \in Seq(Writable) /\ Len(SubSeq(remaining, 1, m)) = m
               /\ \A j \in 1..m : /\ SubSeq(remaining, 1, m)[j] = script[k + j]
                                  /\ SubSeq(remaining, 1, m)[j] = remaining[j]
  BY ScriptCut, Zenon
<1>3. sent = Messages(script) /\ chunk \o left = Encoded(remaining, FALSE) /\ Follows(script, k, Client)
  BY <1>1, <1>2, Zenon DEF Stands
<1>4. Parsed(decoded, remaining, left, FALSE)
  <2>1. FALSE \in BOOLEAN
    OBVIOUS
  <2>2. Parsed(DecodeFrames(chunk), remaining, left, FALSE)
    BY <1>3, <2>1, DecodeReads
  <2> QED
    BY <2>2, Zenon
<1>5. PICK m \in 0..Len(remaining), state \in {"partial", "oversize"}, rest \in Seq(Bytes) : Reads(decoded, remaining, left, FALSE, m, state, rest)
  BY <1>4, Zenon DEF Parsed
<1>6. /\ decoded = [state |-> state, frames |-> SubSeq(remaining, 1, m), rest |-> rest]
      /\ rest \in Seq(Bytes) /\ rest \o left = Encoded(SubSeq(remaining, m + 1, Len(remaining)), FALSE)
      /\ \A j \in 1..m : Len(remaining[j].payload) <= MaxPayload
  BY <1>5, Zenon DEF Reads
<1>7. PICK frames \in Seq(Writable) : frames = SubSeq(remaining, 1, m) /\ Len(frames) = m
  BY <1>2, Zenon
<1>8. decoded.frames = frames /\ decoded.rest = rest
  BY <1>6, <1>7
<1>9. \A j \in 1..m : frames[j] = script[k + j] /\ frames[j] = remaining[j]
  BY <1>2, <1>7, Zenon
<1>10. frames \in Seq(Sendable)
  <2>1. \A j \in 1..Len(frames) : frames[j] \in Sendable
    <3> TAKE j \in 1..Len(frames)
    <3>1. frames[j] \in Frames
      BY DEF Writable
    <3>2. Len(frames[j].payload) <= MaxPayload
      BY <1>6, <1>7, <1>9, Zenon
    <3> QED
      BY <3>1, <3>2 DEF Sendable
  <2> QED
    BY <2>1, ElementsTyped
<1>11. k + m \in 0..Len(script) /\ k + Len(frames) = k + m /\ m \in Nat /\ k + m <= Len(script) /\ k \in Nat
  <2>1. k + m \in 0..Len(script)
    BY <1>2, Zenon
  <2>2. Len(remaining) \in Nat /\ Len(script) \in Nat
    BY ScriptFacts
  <2> QED
    BY <1>7, <2>1, <2>2
<1>12. Client \in Accounts
  BY DEF SocketIInv, WsTypeOK, Client, Accounts
<1>13. PICK new \in Accounts : new = HandleFrames(frames) /\ Follows(script, k + m, new)
  <2>1. k + Len(frames) <= Len(script) /\ \A j \in 1..Len(frames) : frames[j] = script[k + j]
    BY <1>7, <1>9, <1>11
  <2>2. Follows(script, k + Len(frames), HandleFrames(frames)) /\ HandleFrames(frames) \in Accounts
    BY <1>3, <1>10, <1>12, <2>1, LoopFollows
  <2> QED
    BY <1>11, <2>2, Zenon
<1>14. done = new
  BY <1>8, <1>13, Zenon
<1>15. /\ new.fragments \in Seq(Seq({0, 1})) /\ new.fragmentOpcode \in OPCODES \union {NoOpcode}
       /\ new.delivered \in Seq(Delivery) /\ new.pongs \in Seq(Sendable) /\ new.closed \in BOOLEAN
  BY AccountFields
<1>16. outgoing' \in Seq(Sendable) /\ output' = Encoded(outgoing', TRUE)
  <2>1. PICK pongs \in Seq(Sendable) : pongs = new.pongs
    BY <1>15
  <2>2. Write(pongs)
    BY <1>14, <2>1, Zenon
  <2>3. outgoing \in Seq(Sendable) /\ output = Encoded(outgoing, TRUE)
    BY DEF SocketIInv
  <2> QED
    BY <2>2, <2>3, WriteKeeps
<1>17. /\ Client'.fragments = new.fragments /\ Client'.fragmentOpcode = new.fragmentOpcode
       /\ Client'.delivered = new.delivered
  BY <1>14 DEF Client
<1>18. Follows(script, k + m, Client')
  BY <1>13, <1>17, Zenon DEF Follows
<1>19. Stands(script, k + m)'
  <2>1. buffer' \o incoming' = Encoded(SubSeq(script, (k + m) + 1, Len(script)), FALSE)
    BY <1>2, <1>6, <1>8, Zenon
  <2>2. sent' = Messages(script)
    BY <1>3
  <2> QED
    BY <1>18, <2>1, <2>2, Zenon DEF Stands
<1>20. WsTypeOK'
  <2>1. outgoing' \in Seq(Frames)
    <3>1. Sendable \subseteq Frames
      BY DEF Sendable
    <3> QED
      BY <1>16, <3>1, SeqMonotonic
  <2>2. /\ sent' \in Seq(Delivery) /\ incoming' \in Seq(0..255) /\ buffer' \in Seq(0..255)
    BY <1>6, <1>8 DEF SocketIInv, WsTypeOK, Bytes
  <2>3. /\ fragments' \in Seq(Seq({0, 1})) /\ fragmentOpcode' \in OPCODES \union {NoOpcode}
        /\ delivered' \in Seq(Delivery) /\ wsClosed' \in BOOLEAN
        /\ socket' \in {"open", "ending", "destroyed"} /\ oversize' \in BOOLEAN
    BY <1>14, <1>15 DEF SocketIInv, WsTypeOK
  <2> QED
    BY <2>1, <2>2, <2>3 DEF WsTypeOK
<1>21. SocketIInv'
  <2>1. ~oversize'
    OBVIOUS
  <2>2. \E q \in 0..Len(script) : Stands(script, q)'
    BY <1>11, <1>19, Zenon
  <2> QED
    BY <1>16, <1>20, <2>1, <2>2, Zenon DEF SocketIInv
<1>22. Advances
  <2>1. delivered = MessagesTo(script, k)
    BY <1>3, Zenon DEF Follows, Client
  <2>2. delivered' = MessagesTo(script, k + m)
    BY <1>13, <1>14, Zenon DEF Follows
  <2> QED
    BY <1>3, <1>11, <2>1, <2>2, DeliveredAdvances
<1>23. Delivers
  BY <1>22 DEF Delivers
<1> QED
  BY <1>21, <1>23

\* A chunk that arrives.
LEMMA DataArrives ==
    ASSUME SocketIInv, NEW n \in 1..Len(incoming), OnData(n)
    PROVE  SocketIInv' /\ Delivers
<1>1. PICK held \in Seq(Bytes), way \in Seq(Bytes) : held = buffer /\ way = incoming
  BY DEF SocketIInv, WsTypeOK, Bytes
<1>2. n \in 0..Len(way)
  BY <1>1
<1>3. PICK chunk \in Seq(Bytes), left \in Seq(Bytes) :
         /\ chunk = held \o SubSeq(way, 1, n) /\ left = SubSeq(way, n + 1, Len(way))
         /\ chunk \o left = held \o way
  BY <1>2, ChunkFacts
<1>4. chunk \o left = buffer \o incoming
  BY <1>1, <1>3, Zenon
<1>5. incoming' = left /\ sent' = sent
  BY <1>1, <1>3, Zenon DEF OnData
<1>6. PICK decoded : /\ decoded = DecodeFrames(chunk)
                     /\ \/ /\ decoded.state = "oversize"
                           /\ buffer' = chunk /\ oversize' = TRUE /\ CloseClient
                           /\ UNCHANGED <<fragments, fragmentOpcode, delivered>>
                        \/ /\ decoded.state # "oversize"
                           /\ \E done \in {HandleFrames(decoded.frames)} :
                                 /\ buffer' = decoded.rest
                                 /\ fragments' = done.fragments /\ fragmentOpcode' = done.fragmentOpcode
                                 /\ delivered' = done.delivered
                                 /\ Write(done.pongs)
                                 /\ wsClosed' = (wsClosed \/ done.closed)
                                 /\ UNCHANGED <<socket, oversize>>
  BY <1>1, <1>3, Zenon DEF OnData
<1>7. CASE decoded.state = "oversize"
  <2>1. /\ buffer' = chunk /\ oversize' = TRUE /\ CloseClient
        /\ UNCHANGED <<fragments, fragmentOpcode, delivered>>
    BY <1>6, <1>7, Zenon
  <2>2. UNCHANGED <<sent, fragments, fragmentOpcode, delivered>>
    BY <1>5, <2>1
  <2>3. DecodeFrames(chunk).state = "oversize"
    BY <1>6, <1>7, Zenon
  <2> QED
    BY <1>4, <1>5, <2>1, <2>2, <2>3, ChunkTooLarge
<1>8. CASE decoded.state # "oversize"
  <2>1. PICK done \in {HandleFrames(decoded.frames)} :
           /\ buffer' = decoded.rest
           /\ fragments' = done.fragments /\ fragmentOpcode' = done.fragmentOpcode
           /\ delivered' = done.delivered
           /\ Write(done.pongs)
           /\ wsClosed' = (wsClosed \/ done.closed)
           /\ UNCHANGED <<socket, oversize>>
    BY <1>6, <1>8, Zenon
  <2>2. ~oversize
    <3>1. SubSeq(way, 1, n) \in Seq(Bytes)
      BY <1>2, CutTyped
    <3>2. PICK more \in Seq(Bytes) : more = SubSeq(way, 1, n)
      BY <3>1, Zenon
    <3>3. DecodeFrames(held).state = "oversize" => DecodeFrames(held \o more).state = "oversize"
      BY OversizeStays
    <3>4. oversize => DecodeFrames(held).state = "oversize"
      BY <1>1, Zenon DEF SocketIInv
    <3> QED
      BY <1>3, <1>6, <1>8, <3>2, <3>3, <3>4, Zenon
  <2>3. UNCHANGED <<sent, socket, oversize>> /\ done = HandleFrames(decoded.frames)
    BY <1>5, <2>1
  <2> QED
    BY <1>4, <1>5, <1>6, <1>8, <2>1, <2>2, <2>3, ChunkTaken
<1> QED
  BY <1>7, <1>8

\* No step of the client leaves the invariant, and each is one that a channel may take.
LEMMA SocketKeeps ==
    ASSUME SocketIInv, [WsNext]_wsVars
    PROVE  SocketIInv' /\ [Incoming!Deliver \/ Incoming!Stop]_(Incoming!vars)
<1>0. /\ outgoing \in Seq(Sendable) /\ output = Encoded(outgoing, TRUE)
      /\ wsClosed \in BOOLEAN /\ socket \in {"open", "ending", "destroyed"} /\ oversize \in BOOLEAN /\ WsTypeOK
  BY DEF SocketIInv, WsTypeOK
<1>1. ASSUME NEW n \in 1..Len(incoming), OnData(n)
      PROVE  SocketIInv' /\ [Incoming!Deliver \/ Incoming!Stop]_(Incoming!vars)
  <2>1. SocketIInv' /\ Delivers /\ socket # "destroyed"
    BY <1>1, DataArrives DEF OnData
  <2>2. CASE oversize' = TRUE /\ delivered' = delivered /\ (socket' = "destroyed" <=> socket = "destroyed")
    BY <1>0, <2>1, <2>2 DEF Incoming!Deliver, Incoming!Stop, Incoming!vars, Delivers
  <2>3. CASE ~oversize /\ UNCHANGED <<oversize, socket>> /\ Advances
    BY <1>0, <2>1, <2>3 DEF Incoming!Deliver, Incoming!Stop, Incoming!vars, Delivers, Advances
  <2> QED
    BY <2>1, <2>2, <2>3 DEF Delivers
<1>2. CASE LocalClose
  <2>1. /\ CloseClient
        /\ UNCHANGED <<sent, incoming, buffer, fragments, fragmentOpcode, delivered, oversize>>
    BY <1>2 DEF LocalClose
  <2>2. /\ outgoing' \in Seq(Sendable) /\ output' = Encoded(outgoing', TRUE)
        /\ wsClosed' \in BOOLEAN /\ socket' \in {"open", "ending", "destroyed"}
        /\ socket' = "destroyed" <=> socket = "destroyed"
    BY <1>0, <2>1, CloseKeeps
  <2>3. SocketIInv'
    BY <2>1, <2>2, SocketWaits
  <2> QED
    BY <1>0, <2>1, <2>2, <2>3 DEF Incoming!vars
<1>3. CASE SocketCloses
  <2>1. /\ socket # "destroyed" /\ socket' = "destroyed" /\ wsClosed' = TRUE
        /\ UNCHANGED <<sent, incoming, buffer, fragments, fragmentOpcode, delivered, oversize>>
        /\ UNCHANGED <<output, outgoing>>
    BY <1>3 DEF SocketCloses
  <2>2. outgoing' \in Seq(Sendable) /\ output' = Encoded(outgoing', TRUE)
    BY <1>0, <2>1
  <2>3. SocketIInv'
    BY <2>1, <2>2, SocketWaits
  <2> QED
    BY <1>0, <2>1, <2>3 DEF Incoming!vars, Incoming!Stop
<1>4. ASSUME NEW p \in Outgoing, SendData(p)
      PROVE  SocketIInv' /\ [Incoming!Deliver \/ Incoming!Stop]_(Incoming!vars)
  <2> DEFINE frame == [fin |-> TRUE, opcode |-> BINARY, payload |-> p]
  <2>1. /\ Write(<<frame>>)
        /\ UNCHANGED <<sent, incoming, buffer, fragments, fragmentOpcode, delivered, oversize>>
        /\ UNCHANGED <<wsClosed, socket>>
    BY <1>4 DEF SendData
  <2>2. frame \in Sendable
    <3>1. p \in Seq({0, 1}) /\ Len(p) <= MaxPayload
      BY WebSocketAssumption
    <3>2. BINARY \in OPCODES
      BY DEF OPCODES
    <3> QED
      BY <3>1, <3>2 DEF Sendable, Frames
  <2> HIDE DEF frame
  <2>3. <<frame>> \in Seq(Sendable)
    BY <2>2, OneSendable
  <2>4. outgoing' \in Seq(Sendable) /\ output' = Encoded(outgoing', TRUE)
    BY <1>0, <2>1, <2>3, WriteKeeps
  <2>5. wsClosed' \in BOOLEAN /\ socket' \in {"open", "ending", "destroyed"}
    BY <1>0, <2>1
  <2>6. SocketIInv'
    BY <2>1, <2>4, <2>5, SocketWaits
  <2> QED
    BY <2>1, <2>6 DEF Incoming!vars
<1>5. CASE UNCHANGED wsVars
  <2>1. /\ UNCHANGED <<sent, incoming, buffer, fragments, fragmentOpcode, delivered, oversize>>
        /\ UNCHANGED <<output, outgoing, wsClosed, socket>>
    BY <1>5 DEF wsVars
  <2>2. /\ outgoing' \in Seq(Sendable) /\ output' = Encoded(outgoing', TRUE)
        /\ wsClosed' \in BOOLEAN /\ socket' \in {"open", "ending", "destroyed"}
    BY <1>0, <2>1
  <2>3. SocketIInv'
    BY <2>1, <2>2, SocketWaits
  <2> QED
    BY <2>1, <2>3 DEF Incoming!vars
<1> QED
  BY <1>1, <1>2, <1>3, <1>4, <1>5 DEF WsNext, Arrives

\* What was written is what is read.
LEMMA WrittenDecodes ==
    ASSUME SocketIInv
    PROVE  WritesDecode
<1>1. WsTypeOK /\ outgoing \in Seq(Sendable) /\ output = Encoded(outgoing, TRUE)
  BY DEF SocketIInv
<1>2. PICK frames \in Seq(Sendable) : frames = outgoing
  BY <1>1
<1>3. frames \in Seq(Writable) /\ Len(frames) \in Nat
  BY SendableWritable
<1>4. PICK buf \in Seq(Bytes) : buf = Encoded(frames, TRUE)
  <2>1. TRUE \in BOOLEAN
    OBVIOUS
  <2> QED
    BY <1>3, <2>1, EncodedParts
<1>5. Parsed(DecodeFrames(buf), frames, <<>>, TRUE)
  <2>1. <<>> \in Seq(Bytes) /\ TRUE \in BOOLEAN /\ buf \o <<>> = buf
    BY ConcatEmptySeq
  <2>2. buf \o <<>> = Encoded(frames, TRUE)
    BY <1>4, <2>1, Zenon
  <2> QED
    BY <1>3, <2>1, <2>2, DecodeReads
<1>6. PICK m \in 0..Len(frames), state \in {"partial", "oversize"}, rest \in Seq(Bytes) : Reads(DecodeFrames(buf), frames, <<>>, TRUE, m, state, rest)
  BY <1>5, Zenon DEF Parsed
<1>7. /\ DecodeFrames(buf) = [state |-> state, frames |-> SubSeq(frames, 1, m), rest |-> rest]
      /\ state \in {"partial", "oversize"} /\ rest \in Seq(Bytes)
      /\ rest \o <<>> = Encoded(SubSeq(frames, m + 1, Len(frames)), TRUE)
      /\ state = "oversize" => m < Len(frames) /\ Len(frames[m + 1].payload) > MaxPayload
      /\ state = "partial" /\ Len(<<>>) = 0 => m = Len(frames)
  BY <1>6, Zenon DEF Reads
<1>8. state = "partial"
  <2> SUFFICES ASSUME state = "oversize" PROVE FALSE
    BY <1>7
  <2>1. m + 1 \in 1..Len(frames) /\ Len(frames[m + 1].payload) > MaxPayload
    BY <1>3, <1>7
  <2>2. frames[m + 1] \in Sendable
    BY <2>1
  <2>3. Len(frames[m + 1].payload) <= MaxPayload /\ Len(frames[m + 1].payload) \in Nat /\ MaxPayload \in Nat
    BY <2>2, WebSocketAssumption DEF Sendable, Frames
  <2> QED
    BY <2>1, <2>3
<1>9. m = Len(frames) /\ SubSeq(frames, 1, m) = frames
  <2>1. m = Len(frames)
    BY <1>7, <1>8
  <2> QED
    BY <1>3, <2>1, SubSeqFull
<1>10. rest = <<>>
  <2>1. SubSeq(frames, m + 1, Len(frames)) = <<>>
    BY <1>3, <1>9, SubSeqEmpty
  <2>2. Encoded(<<>>, TRUE) = <<>>
    <3>1. Rows(<<>>, TRUE) = <<>> /\ FlattenSeq(<<>>) = <<>>
      BY DEF Rows, FlattenSeq
    <3> QED
      BY <3>1, Zenon DEF Encoded, Rows
  <2>3. rest \o <<>> = rest
    BY <1>7, ConcatEmptySeq
  <2> QED
    BY <1>7, <2>1, <2>2, <2>3, Zenon
<1>11. DecodeFrames(output) = [state |-> "partial", frames |-> outgoing, rest |-> <<>>]
  BY <1>1, <1>2, <1>4, <1>7, <1>8, <1>9, <1>10, Zenon
<1>12. /\ DecodeFrames(output).state = "partial" /\ DecodeFrames(output).frames = outgoing
       /\ DecodeFrames(output).rest = <<>>
  BY <1>11
<1> QED
  BY <1>1, <1>12, Zenon DEF WritesDecode

\* The client is as it is at first while another part runs.
LEMMA SocketInCapture ==
    ASSUME SocketIInv, [Next]_vars
    PROVE  SocketIInv' /\ [Incoming!Deliver \/ Incoming!Stop]_(Incoming!vars)
<1>1. CASE Socket /\ WsNext
  BY <1>1, SocketKeeps
<1>2. CASE UNCHANGED wsVars
  BY <1>2, SocketKeeps
<1>3. (Socket /\ WsNext) \/ UNCHANGED wsVars
  BY DEF Next, vars, Task, InBrowser, Proxy, Playwright
<1> QED
  BY <1>1, <1>2, <1>3

\* However the bytes of a server are cut into chunks, the client holds the rest of its script
\* and has done with each whole frame what it should.
THEOREM SocketInvariance == Spec => []SocketIInv
<1>1. Init => SocketIInv
  BY SocketFirst DEF Init
<1>2. SocketIInv /\ [Next]_vars => SocketIInv'
  BY SocketInCapture
<1> QED
  BY <1>1, <1>2, PTL DEF Spec

\* What the client wrote decodes to the frames it sent, at whatever lengths, masked or not.
THEOREM AlwaysDecodes == Spec => []WritesDecode
<1>1. SocketIInv => WritesDecode
  BY WrittenDecodes
<1> QED
  BY <1>1, SocketInvariance, PTL

\* The messages of a server are delivered whole, in order and once, however its frames are
\* fragmented and cut into chunks, until the client is over; the safety part of
\* MessagesInOrder.
THEOREM MessagesFollowChannel ==
    Spec => Incoming!Init /\ [][Incoming!Deliver \/ Incoming!Stop]_(Incoming!vars)
<1>1. Init => Incoming!Init
  BY DEF Init, WsInit, Incoming!Init
<1>2. SocketIInv /\ [Next]_vars => [Incoming!Deliver \/ Incoming!Stop]_(Incoming!vars)
  BY SocketInCapture
<1> QED
  BY <1>1, <1>2, SocketInvariance, PTL DEF Spec
=============================================================================
