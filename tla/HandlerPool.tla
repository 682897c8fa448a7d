----------------------------- MODULE HandlerPool -----------------------------
(***************************************************************************)
(* What libtcp and libudp promise to a program: a server that serves a      *)
(* bounded number of peers at a time.  Each peer is admitted to a slot,     *)
(* refused because every slot is taken, or lost to a failure of the system. *)
(* A slot is taken from the admission until it is released, which happens   *)
(* some time after the peer has been served.                                *)
(***************************************************************************)
EXTENDS Integers, FiniteSets

CONSTANTS Conns, Limits

VARIABLES
  up,      \* is the server open to peers?
  limit,   \* number of slots
  slots,   \* peers that hold a slot
  fate     \* what became of a peer

vars == <<up, limit, slots, fate>>

Init ==
  /\ up = FALSE
  /\ limit \in Limits
  /\ slots = {}
  /\ fate = [c \in Conns |-> "waiting"]

\* The number of slots is fixed while the server is open or serves a peer.
Configure ==
  /\ ~up
  /\ slots = {}
  /\ limit' \in Limits
  /\ UNCHANGED <<up, slots, fate>>

Open ==
  /\ ~up
  /\ limit > 0
  /\ up' = TRUE
  /\ UNCHANGED <<limit, slots, fate>>

Becomes(c, from, to) ==
  /\ fate[c] = from
  /\ fate' = [fate EXCEPT ![c] = to]

Admit(c) ==
  /\ up
  /\ Cardinality(slots) < limit
  /\ Becomes(c, "waiting", "served")
  /\ slots' = slots \cup {c}
  /\ UNCHANGED <<up, limit>>

Refuse(c) ==
  /\ up
  /\ Cardinality(slots) >= limit
  /\ Becomes(c, "waiting", "refused")
  /\ UNCHANGED <<up, limit, slots>>

Fail(c) ==
  /\ Becomes(c, "waiting", "failed")
  /\ UNCHANGED <<up, limit, slots>>

Finish(c) ==
  /\ Becomes(c, "served", "finished")
  /\ UNCHANGED <<up, limit, slots>>

\* Slots of finished peers, several at a time.
Release ==
  /\ slots' \in SUBSET slots
  /\ \A c \in slots \ slots' : fate[c] = "finished"
  /\ UNCHANGED <<up, limit, fate>>

\* The server takes no more peers.  Those that wait may be lost, those with
\* a slot are served to the end.
Close ==
  /\ up
  /\ up' = FALSE
  /\ \E lost \in SUBSET {c \in Conns : fate[c] = "waiting"} :
       fate' = [c \in Conns |-> IF c \in lost THEN "failed" ELSE fate[c]]
  /\ UNCHANGED <<limit, slots>>

\* The server is killed: nobody looks after the peers being served.
Abandon ==
  /\ up' = FALSE
  /\ slots' = {}
  /\ \E lost \in SUBSET {c \in Conns : fate[c] = "waiting"} :
       fate' = [c \in Conns |-> IF c \in lost THEN "failed" ELSE fate[c]]
  /\ UNCHANGED limit

Next == \/ Configure \/ Open \/ Release \/ Close \/ Abandon
        \/ \E c \in Conns : Admit(c) \/ Refuse(c) \/ Fail(c) \/ Finish(c)

Spec == Init /\ [][Next]_vars
=============================================================================
