----------------------------- MODULE MCSbcpChat -----------------------------
(* Instances of SbcpChat for TLC. *)
EXTENDS SbcpChat

CONSTANTS h1, h2
Two == {h1, h2}
=============================================================================
