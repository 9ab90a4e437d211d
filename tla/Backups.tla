------------------------------ MODULE Backups ------------------------------
(***************************************************************************)
(* What the slave masters promise about the index, seen from who asks one  *)
(* of them: a slave holds a part of what the master holds, and what it     *)
(* holds only grows until its process ends.  Replication implements this   *)
(* specification, whatever messages are lost, late or broken.              *)
(***************************************************************************)
CONSTANTS Entries, Slaves

VARIABLES held,    \* the master's entries
          copy     \* those of each slave

vars == <<held, copy>>

Init == held = {} /\ copy = [s \in Slaves |-> {}]

Learn(e) == held' = held \cup {e} /\ UNCHANGED copy

Follow(s) ==
    /\ \E part \in SUBSET held : copy' = [copy EXCEPT ![s] = @ \cup part]
    /\ UNCHANGED held

Forget(s) == copy' = [copy EXCEPT ![s] = {}] /\ UNCHANGED held

Next ==
    \/ \E e \in Entries : Learn(e)
    \/ \E s \in Slaves : Follow(s) \/ Forget(s)

Spec == Init /\ [][Next]_vars
=============================================================================
