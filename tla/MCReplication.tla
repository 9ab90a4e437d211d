--------------------------- MODULE MCReplication ---------------------------
(* Small instances of Replication for TLC.                                 *)
EXTENDS Replication, TLC

CONSTANTS f1, f2, a, b, k1, k2, r1, r2

\* Slaves are interchangeable.
Symmetry == Permutations(Slaves)

\* Two files that share a word; every group of the two tables is used.
MCWordsOf     == (f1 :> {a, b}) @@ (f2 :> {b})
MCLookupGroup == (f1 :> 1) @@ (f2 :> 2)
MCInvertGroup == (a :> 3) @@ (b :> 4)

\* Both words in one group of the invert table.
MCOneInvertGroup == [w \in Words |-> 3]

\* One report on each file, from different workers.
MCFileOf      == (r1 :> f1) @@ (r2 :> f2)
MCWorkerOf    == (r1 :> k1) @@ (r2 :> k2)
=============================================================================
