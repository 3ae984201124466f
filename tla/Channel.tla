------------------------------- MODULE Channel -------------------------------
(***************************************************************************)
(* What the receiver of a message channel is promised: the messages in the *)
(* order they were sent, each once, until the channel is over; as long as  *)
(* it is not, every message comes.                                         *)
(***************************************************************************)
EXTENDS Naturals, Sequences

VARIABLES
    sent,        \* the messages, which are settled from the start
    delivered,   \* those that arrived
    over         \* no more messages come

vars == <<sent, delivered, over>>

Init == delivered = <<>> /\ over = FALSE

Deliver ==
    /\ ~over
    /\ \E n \in Len(delivered) + 1 .. Len(sent) : delivered' = SubSeq(sent, 1, n)
    /\ UNCHANGED sent /\ over' \in BOOLEAN

Stop == ~over /\ over' = TRUE /\ UNCHANGED <<sent, delivered>>

Spec == Init /\ [][Deliver \/ Stop]_vars /\ WF_vars(Deliver)
=============================================================================
