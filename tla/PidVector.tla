------------------------------ MODULE PidVector ------------------------------
(***************************************************************************)
(* The std::vector<pid_t> in which libtcp and libudp keep their handlers.   *)
(***************************************************************************)
EXTENDS Integers, Sequences, FiniteSets

\* erase(remove(begin, end, pid), end) for every pid that is gone: the other
\* elements move up and keep their order.
Without(s, gone) ==
  LET kept == {i \in 1 .. Len(s) : s[i] \notin gone}
      Rank(i) == Cardinality({k \in kept : k <= i})
  IN  [n \in 1 .. Cardinality(kept) |-> s[CHOOSE i \in kept : Rank(i) = n]]
=============================================================================
