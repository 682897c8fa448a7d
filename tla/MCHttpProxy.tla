---------------------------- MODULE MCHttpProxy ----------------------------
(* Instances of HttpProxy for TLC. *)
EXTENDS HttpProxy, TLC

CONSTANTS t1, t2, u1, u2
TwoThreads == {t1, t2}
TwoUris == {u1, u2}
Symmetry == Permutations({t1, t2}) \cup Permutations({u1, u2})
=============================================================================
