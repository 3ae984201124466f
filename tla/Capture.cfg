SPECIFICATION Spec
CONSTANTS
    None = None
    Callers = {c1, c2}
    Sessions = {s1, s2}
    Me = c1
    MySession = s1
    Tasks <- MCTasks
    Requests = {r1, w}
    Sockets = {w}
    MaxEntries = 2
    MaxFramesPerSocket = 1
    MaxHops = 3
    Plans <- MCPlans
    Scripts <- MCScripts
    Inline = 3
    Word = 5
    MaxPayload = 6
    Key <- MCKey
    Outgoing <- MCOutgoing
    MaxSends = 1
    Clients = {p1, p2}
    CaptureTunnels = TRUE
    MaxBodyBytes = 1
    MaxChunks = 2
    PageRequests = {r1, r2}
    MaxPulls = 2
    NoBody = NoBody
INVARIANT EntriesAreTrue
 
 
INVARIANT WritesDecode
PROPERTY CommandsSettleOnce
PROPERTY MessagesInOrder
PROPERTY EverythingEnds
\* Every part comes to an end.
CHECK_DEADLOCK FALSE
