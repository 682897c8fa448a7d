---------------------------- MODULE MCSbcpServer ----------------------------
(* Instances of SbcpServer for TLC. *)
EXTENDS SbcpStreams, TLC

CONSTANTS h1, h2, h3
Three == {h1, h2, h3}
Symmetry == Permutations(Three)
=============================================================================
