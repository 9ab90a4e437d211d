------------------------------ MODULE ConnLife ------------------------------
(***************************************************************************)
(* What the server promises about one connection, seen from its client: a  *)
(* request is read, worked on, answered.  The server may drop a connection *)
(* while it reads or while it answers (the peer left, the deadline         *)
(* passed), but never a request it has taken on, and it takes each on      *)
(* once.  EventLoop implements this specification (http_event.cpp: the     *)
(* states read_head, read_body, compute and write).                        *)
(***************************************************************************)
CONSTANT Conns

VARIABLE phase    \* how far each connection is

Phases == {"idle", "reading", "working", "answering", "answered", "dropped"}

Init == phase = [c \in Conns |-> "idle"]

Move(c, from, to) ==
    /\ phase[c] \in from
    /\ phase' = [phase EXCEPT ![c] = to]

Open(c)   == Move(c, {"idle"}, "reading")
TakeOn(c) == Move(c, {"reading"}, "working")
Answer(c) == Move(c, {"working"}, "answering")
Finish(c) == Move(c, {"answering"}, "answered")
Drop(c)   == Move(c, {"reading", "answering"}, "dropped")

Next == \E c \in Conns : Open(c) \/ TakeOn(c) \/ Answer(c) \/ Finish(c) \/ Drop(c)

Spec == Init /\ [][Next]_phase
=============================================================================
