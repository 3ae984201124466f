----------------------------- MODULE CdpSession -----------------------------
(***************************************************************************)
(* DevTools sessions, the class CdpSession of                              *)
(* src/src/capture/CdpCapture.js.  A command is a promise that is listed   *)
(* in _pending under its id until a message with that id, its timer or the *)
(* end of the session settles it; a reply that comes later finds no entry  *)
(* and is dropped.  A caller awaits one command at a time, so a command is *)
(* named by its caller, and the entry in _pending is the command waiting.  *)
(***************************************************************************)
CONSTANTS
    Callers,     \* the calls that send commands
    Sessions,    \* the sessions that may be made
    None

ASSUME CdpSessionAssumption == None \notin Sessions

VARIABLES
    connection,  \* of a session: not made yet, open, closed
    command      \* the last command of a caller: its session and its promise

sessionVars == <<connection, command>>

States == {"none", "waiting", "ok", "failed"}

SessionTypeOK ==
    /\ connection \in [Sessions -> {"unmade", "open", "closed"}]
    /\ command \in [Callers -> [session: Sessions \union {None}, state: States]]
    /\ \A c \in Callers :
          command[c].state = "waiting" => connection[command[c].session] = "open"

SessionInit ==
    /\ connection = [s \in Sessions |-> "unmade"]
    /\ command = [c \in Callers |-> [session |-> None, state |-> "none"]]

-----------------------------------------------------------------------------
\* The constructor: the session follows its client from now on.
Connected(s) == connection[s] = "unmade" /\ connection' = [connection EXCEPT ![s] = "open"]

\* send: a closed session rejects at once.
Send(c, s) ==
    command' = [command EXCEPT ![c] =
        [session |-> s, state |-> IF connection[s] = "open" THEN "waiting" ELSE "failed"]]

\* The part of _dispatch that settles a command; the result itself is the caller's to choose.
Dispatch(c) ==
    /\ command[c].state = "waiting"
    /\ \E o \in {"ok", "failed"} : command' = [command EXCEPT ![c].state = o]
    /\ UNCHANGED connection

\* The timer of send.
CommandTimesOut(c) ==
    /\ command[c].state = "waiting"
    /\ command' = [command EXCEPT ![c].state = "failed"]
    /\ UNCHANGED connection

\* The slip of an abort that only clears the list.
ClearPending(s) ==
    /\ connection' = [connection EXCEPT ![s] = "closed"]
    /\ UNCHANGED command

\* _abort: every command that waits on the session is rejected.
Abort(s) ==
    /\ connection' = [connection EXCEPT ![s] = "closed"]
    /\ command' = [c \in Callers |->
                      IF command[c].session = s /\ command[c].state = "waiting"
                      THEN [session |-> s, state |-> "failed"] ELSE command[c]]

\* The client reports that its connection is gone.
ClientCloses(s) == connection[s] = "open" /\ Abort(s)

\* close, for a session that may be closed already.
CloseSession(s) == IF connection[s] = "open" THEN Abort(s) ELSE UNCHANGED sessionVars

-----------------------------------------------------------------------------
\* What a command promises to the one that sent it.
Commands == INSTANCE Outcome WITH
    Connections <- Sessions,
    open <- {s \in Sessions : connection[s] = "open"},
    asked <- [c \in Callers |-> command[c].session],
    outcome <- [c \in Callers |->
                   IF command[c].state = "waiting" THEN "pending" ELSE command[c].state]

\* A command is settled once, by its reply, its timer or the end of its session, whichever
\* comes first; no command waits on a session that has ended, and none waits for ever.
CommandsSettleOnce == Commands!Spec
=============================================================================
