---------------------------- MODULE MCEventLoop ----------------------------
(* Small instances of EventLoop for TLC.                                   *)
EXTENDS EventLoop, TLC

\* Connections and computing threads are interchangeable: no definition names
\* one of them.
Symmetry == Permutations(Conns) \cup Permutations(Threads)
=============================================================================
