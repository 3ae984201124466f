------------------------------- MODULE Outcome -------------------------------
(***************************************************************************)
(* What a caller is promised who asks through one of several connections:  *)
(* while a connection is open an answer is awaited and comes, good or bad, *)
(* once for each time something was asked; closing the connection fails    *)
(* whatever is awaited on it, and what is asked afterwards fails at once.  *)
(***************************************************************************)
CONSTANTS Callers, Connections, None

VARIABLES
    open,       \* the connections that are open
    asked,      \* the connection a caller asked through last, or None
    outcome     \* what became of it

vars == <<open, asked, outcome>>

Init ==
    /\ open \subseteq Connections
    /\ asked = [c \in Callers |-> None]
    /\ outcome = [c \in Callers |-> "none"]

Ask(c) ==
    /\ outcome[c] # "pending"
    /\ \E n \in Connections :
          /\ asked' = [asked EXCEPT ![c] = n]
          /\ outcome' = [outcome EXCEPT ![c] = IF n \in open THEN "pending" ELSE "failed"]
    /\ UNCHANGED open

Settle(c) ==
    /\ outcome[c] = "pending"
    /\ \E o \in {"ok", "failed"} : outcome' = [outcome EXCEPT ![c] = o]
    /\ UNCHANGED <<open, asked>>

Open(n) == open' = open \union {n} /\ UNCHANGED <<asked, outcome>>

Close(n) ==
    /\ open' = open \ {n}
    /\ outcome' = [c \in Callers |->
                      IF asked[c] = n /\ outcome[c] = "pending" THEN "failed" ELSE outcome[c]]
    /\ UNCHANGED asked

Next ==
    \/ \E c \in Callers : Ask(c) \/ Settle(c)
    \/ \E n \in Connections : Open(n) \/ Close(n)

Spec == Init /\ [][Next]_vars /\ \A c \in Callers : WF_vars(Settle(c))
=============================================================================
