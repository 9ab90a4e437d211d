------------------------------ MODULE DocStore ------------------------------
(***************************************************************************)
(* What the index promises about one file, seen from the uishell: once the *)
(* master has accepted it for indexing, the file is found and can be       *)
(* fetched in the end, and stays so.  Indexing implements this             *)
(* specification.                                                          *)
(***************************************************************************)
CONSTANT Files

VARIABLES accepted,    \* files a put was answered for
          available    \* files that are in the index and can be fetched

vars == <<accepted, available>>

Init == accepted = {} /\ available = {}

Accept(f) == accepted' = accepted \cup {f} /\ UNCHANGED available

Publish(f) ==
    /\ f \in accepted \ available
    /\ available' = available \cup {f}
    /\ UNCHANGED accepted

Next == \E f \in Files : Accept(f) \/ Publish(f)

Spec == Init /\ [][Next]_vars /\ \A f \in Files : WF_vars(Publish(f))
=============================================================================
