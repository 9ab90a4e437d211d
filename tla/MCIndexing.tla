----------------------------- MODULE MCIndexing -----------------------------
(* Small instances of Indexing for TLC: worker k1 has two consumer threads, *)
(* worker k2 has one.                                                       *)
EXTENDS Indexing, TLC

CONSTANTS c1, c2, c3, k1, k2

MCHomeOf == c1 :> k1 @@ c2 :> k1 @@ c3 :> k2

\* Files with a lock each, and files that share one.
MCOwnLock == CHOOSE lock \in [Files -> 1..Cardinality(Files)] : IsInjective(lock)
MCOneLock == [f \in Files |-> 0]

\* No definition names a file or a uishell thread, and the two consumers of k1
\* do the same.
Symmetry == Permutations(Files) \cup Permutations(Putters) \cup Permutations({c1, c2})
=============================================================================
