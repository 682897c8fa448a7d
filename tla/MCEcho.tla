------------------------------- MODULE MCEcho -------------------------------
(* An instance of Echo for TLC: every text of at most MaxLen bytes. *)
EXTENDS Echo

CONSTANT MaxLen
Texts == UNION {[1 .. n -> {"text", "nl", "nul"}] : n \in 0 .. MaxLen}
=============================================================================
