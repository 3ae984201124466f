---------------------------- MODULE CaptureProxy ----------------------------
(***************************************************************************)
(* The recording proxy, src/src/capture/CaptureProxy.js: a client connects *)
(* and sends a request that is passed on upstream, or opens a tunnel; each *)
(* exchange leaves an entry.  Node's server has stopped once every         *)
(* connection is gone, and stop() awaits that before it destroys the       *)
(* connections it knows.  Sizes are counted in chunks.                     *)
(***************************************************************************)
EXTENDS Naturals, FiniteSets

CONSTANTS
    Clients,         \* connections, with one exchange each
    CaptureTunnels,  \* captureTunnels
    MaxBodyBytes,    \* maxBodyBytes, in chunks
    MaxChunks        \* bound: chunks of an answer or through a tunnel

ASSUME CaptureProxyAssumption ==
    /\ IsFiniteSet(Clients) /\ CaptureTunnels \in BOOLEAN
    /\ MaxBodyBytes \in Nat /\ MaxChunks \in Nat

VARIABLES
    server,          \* none, starting, listening, dead (the port is taken), closing, stopped
    sockets,         \* the connections that are open
    exchange,        \* of a client: how far it is, whether its answer is text, its size so far
    client,          \* what the client has of its answer: how many chunks, and whether its end
    entry            \* of a client: its entries, how many, and what the last one says

proxyVars == <<server, sockets, exchange, client, entry>>

Phases == {"none", "reading", "asked", "answering", "cut", "dialling", "tunnel", "over"}

ProxyTypeOK ==
    /\ server \in {"none", "starting", "listening", "dead", "closing", "stopped"}
    /\ sockets \subseteq Clients
    /\ exchange \in [Clients -> [phase: Phases, text: BOOLEAN, size: 0..MaxChunks]]
    /\ client \in [Clients -> [chunks: 0..MaxChunks, state: {"waiting", "head", "ended"}]]
    /\ entry \in [Clients -> [count: Nat, failed: BOOLEAN, size: Nat, body: Nat]]

ProxyInit ==
    /\ server = "none" /\ sockets = {}
    /\ exchange = [c \in Clients |-> [phase |-> "none", text |-> FALSE, size |-> 0]]
    /\ client = [c \in Clients |-> [chunks |-> 0, state |-> "waiting"]]
    /\ entry = [c \in Clients |-> [count |-> 0, failed |-> FALSE, size |-> 0, body |-> 0]]

-----------------------------------------------------------------------------
Phase(c, phase) == exchange' = [exchange EXCEPT ![c].phase = phase]

others == <<sockets, exchange, client, entry>>

\* start: its server listens, or its port is taken, after which this.server stays set and
\* start() does nothing until stop() was called.
Start == server = "none" /\ server' = "starting" /\ UNCHANGED others

Listens == server = "starting" /\ server' \in {"listening", "dead"} /\ UNCHANGED others

\* stop gives up the server, which takes no more connections.
Stop ==
    /\ server \in {"starting", "listening", "dead"} /\ server' = "closing"
    /\ UNCHANGED others

\* The server has closed when its connections are gone; only then stop destroys those left.
StopReturns ==
    /\ server = "closing" /\ sockets = {}
    /\ server' = "stopped"
    /\ UNCHANGED others

\* A client connects and sends a request or CONNECT; an address that is not absolute is
\* answered at once.
Connects(c) ==
    /\ server = "listening" /\ exchange[c].phase = "none"
    /\ sockets' = sockets \union {c}
    /\ \/ Phase(c, "reading") /\ UNCHANGED client
       \/ Phase(c, "dialling") /\ UNCHANGED client
       \/ Phase(c, "over") /\ client' = [client EXCEPT ![c].state = "ended"]
    /\ UNCHANGED <<server, entry>>

\* _readBody ends, or its stream fails: the request goes upstream with what there is.
BodyRead(c) ==
    /\ exchange[c].phase = "reading" /\ Phase(c, "asked")
    /\ UNCHANGED <<server, sockets, client, entry>>

\* A client goes away.  The server notices; a tunnel is finished with it, while a request
\* that was passed on is answered to nobody.
Leaves(c) ==
    /\ c \in sockets /\ sockets' = sockets \ {c}
    /\ IF exchange[c].phase \in {"dialling", "tunnel"} THEN Phase(c, "over") ELSE UNCHANGED exchange
    /\ UNCHANGED <<server, client>>
    /\ entry' = IF exchange[c].phase = "tunnel" /\ CaptureTunnels
                THEN [entry EXCEPT ![c].size = exchange[c].size] ELSE entry

Recorded(c, failed, size, body) ==
    entry' = [entry EXCEPT ![c] =
                 [count |-> @.count + 1, failed |-> failed, size |-> size, body |-> body]]

\* How much of a text is kept: the chunks up to the limit.
Kept(c) == IF ~exchange[c].text THEN 0
           ELSE IF exchange[c].size <= MaxBodyBytes THEN exchange[c].size ELSE MaxBodyBytes

\* The head of the answer.
AnswerBegins(c) ==
    /\ exchange[c].phase = "asked"
    /\ \E text \in BOOLEAN :
          exchange' = [exchange EXCEPT ![c] = [phase |-> "answering", text |-> text, size |-> 0]]
    /\ client' = [client EXCEPT ![c].state = "head"]
    /\ UNCHANGED <<server, sockets, entry>>

\* A chunk of the answer, which is passed on.
Chunk(c) ==
    /\ exchange[c].phase = "answering" /\ exchange[c].size < MaxChunks
    /\ exchange' = [exchange EXCEPT ![c].size = @ + 1]
    /\ client' = IF c \in sockets THEN [client EXCEPT ![c].chunks = @ + 1] ELSE client
    /\ UNCHANGED <<server, sockets, entry>>

\* The answer ends: the entry is recorded.
Ends(c) ==
    /\ exchange[c].phase = "answering"
    /\ Phase(c, "over")
    /\ client' = IF c \in sockets THEN [client EXCEPT ![c].state = "ended"] ELSE client
    /\ Recorded(c, FALSE, exchange[c].size, Kept(c))
    /\ UNCHANGED <<server, sockets>>

\* The request fails upstream: 502, or the end of what was begun, and a failed entry.
UpstreamFails(c) ==
    /\ exchange[c].phase \in {"asked", "answering"}
    /\ Phase(c, "over")
    /\ client' = IF c \in sockets THEN [client EXCEPT ![c].state = "ended"] ELSE client
    /\ Recorded(c, TRUE, 0, 0)
    /\ UNCHANGED <<server, sockets>>

\* The server behind closes in the middle of an answer without an error: nothing listens.
UpstreamCuts(c) ==
    /\ exchange[c].phase = "answering" /\ Phase(c, "cut")
    /\ UNCHANGED <<server, sockets, client, entry>>

\* _handleConnect: the tunnel is through, or its socket is destroyed.
TunnelOpens(c) ==
    /\ exchange[c].phase = "dialling"
    /\ \/ /\ Phase(c, "tunnel")
          /\ IF CaptureTunnels THEN Recorded(c, FALSE, 0, 0) ELSE UNCHANGED entry
          /\ UNCHANGED sockets
       \/ /\ Phase(c, "over")
          /\ sockets' = sockets \ {c} /\ UNCHANGED entry
    /\ UNCHANGED <<server, client>>

TunnelCarries(c) ==
    /\ exchange[c].phase = "tunnel" /\ exchange[c].size < MaxChunks
    /\ exchange' = [exchange EXCEPT ![c].size = @ + 1]
    /\ UNCHANGED <<server, sockets, client, entry>>

\* The far end closes or fails: finalize, and the client's socket goes too.
TunnelEnds(c) ==
    /\ exchange[c].phase = "tunnel"
    /\ Phase(c, "over") /\ sockets' = sockets \ {c}
    /\ entry' = IF CaptureTunnels THEN [entry EXCEPT ![c].size = exchange[c].size] ELSE entry
    /\ UNCHANGED <<server, client>>

ProxyNext ==
    \/ Start \/ Listens \/ Stop \/ StopReturns
    \/ \E c \in Clients :
          \/ Connects(c) \/ BodyRead(c) \/ Leaves(c) \/ AnswerBegins(c) \/ Chunk(c) \/ Ends(c)
          \/ UpstreamFails(c) \/ UpstreamCuts(c)
          \/ TunnelOpens(c) \/ TunnelCarries(c) \/ TunnelEnds(c)

-----------------------------------------------------------------------------
\* An exchange leaves one entry and no second one.  A client that has the end of an answer
\* without having left finds its entry, which tells of as many chunks as the client got and,
\* when it failed, of none; of a text no more is kept than the limit allows.
ProxyTellsWhatItPassed ==
    \A c \in Clients :
       LET e == entry[c]
       IN  /\ e.count <= 1 /\ e.body <= MaxBodyBytes
           /\ client[c].state = "ended" /\ exchange[c].phase = "over" /\ e.count = 0 =>
                 client[c].chunks = 0 /\ exchange[c].size = 0
           /\ e.count = 1 /\ ~e.failed /\ exchange[c].phase = "over" => e.size = exchange[c].size
           /\ e.count = 1 /\ client[c].state = "ended" /\ ~e.failed => e.size = client[c].chunks
           /\ exchange[c].phase \in {"asked", "answering", "cut"} => e.count = 0

\* stop() returns when the last client has gone.
ProxyStops == server = "closing" /\ sockets = {} ~> server = "stopped"
=============================================================================
