------------------------ MODULE MCReplicationFaults ------------------------
(* An instance of Replication under every fault.                           *)
EXTENDS Replication, TLC

CONSTANTS k1, k2, r1, r2, a

\* Two reports, from different workers, on one file; of its three words two are
\* in one group of the invert table.
MCWordsOf     == [f \in Files |-> Words]
MCLookupGroup == [f \in Files |-> 1]
MCInvertGroup == [w \in Words |-> IF w = a THEN 2 ELSE 3]
MCFileOf      == [r \in Reports |-> CHOOSE f \in Files : TRUE]
MCWorkerOf    == (r1 :> k1) @@ (r2 :> k2)
=============================================================================
