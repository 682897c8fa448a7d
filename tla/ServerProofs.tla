---------------------------- MODULE ServerProofs ----------------------------
(***************************************************************************)
(* tcp::Server and udp::Server track their handlers and keep the promise of *)
(* HandlerPool, for every set of peers and every limit.                     *)
(***************************************************************************)
EXTENDS MCServers, FiniteSetTheorems, TLAPS

-----------------------------------------------------------------------------
(* The list of pids.                                                       *)

Elements(s) == {s[i] : i \in 1 .. Len(s)}
Distinct(s) == \A i, j \in 1 .. Len(s) : s[i] = s[j] => i = j

(* A list without repetitions is as long as it has elements.               *)
LEMMA DistinctLength ==
  ASSUME NEW S, NEW s \in Seq(S), Distinct(s)
  PROVE  IsFiniteSet(Elements(s)) /\ Cardinality(Elements(s)) = Len(s)
<1>1. Len(s) \in Nat /\ s \in [1 .. Len(s) -> Elements(s)]
  BY DEF Elements
<1>2. s \in Bijection(1 .. Len(s), Elements(s))
  BY <1>1 DEF Elements, Distinct, Bijection, Injection, IsInjective, Surjection
<1>3. ExistsBijection(1 .. Len(s), Elements(s))
  BY <1>2 DEF ExistsBijection
<1>4. IsFiniteSet(1 .. Len(s))
  BY <1>1, FS_Interval
<1> QED
  BY <1>1, <1>3, <1>4, FS_Bijection, FS_CountingElements

(* Counting the members up to each member numbers a finite set of places.  *)
LEMMA RanksNumber ==
  ASSUME NEW m \in Nat, NEW P \in SUBSET (1 .. m)
  PROVE  /\ IsFiniteSet(P) /\ Cardinality(P) \in Nat
         /\ \A i \in P : Cardinality({k \in P : k <= i}) \in 1 .. Cardinality(P)
         /\ \A i, j \in P :
              Cardinality({k \in P : k <= i}) = Cardinality({k \in P : k <= j}) => i = j
         /\ \A n \in 1 .. Cardinality(P) : \E i \in P : Cardinality({k \in P : k <= i}) = n
<1> DEFINE Low(i) == {k \in P : k <= i}
           r == [i \in P |-> Cardinality(Low(i))]
           N == 1 .. Cardinality(P)
<1>1. IsFiniteSet(P) /\ Cardinality(P) \in Nat
  <2>1. IsFiniteSet(1 .. m)
    BY FS_Interval
  <2> QED
    BY <2>1, FS_Subset, FS_CardinalityType
<1>2. ASSUME NEW i \in P
      PROVE  /\ IsFiniteSet(Low(i)) /\ Cardinality(Low(i)) \in N
  <2>1. Low(i) \in SUBSET P /\ i \in Low(i)
    OBVIOUS
  <2>2. IsFiniteSet(Low(i)) /\ Cardinality(Low(i)) <= Cardinality(P) /\ Cardinality(Low(i)) \in Nat
    BY <1>1, <2>1, FS_Subset, FS_CardinalityType
  <2>3. Cardinality(Low(i)) # 0
    BY <2>1, <2>2, FS_EmptySet
  <2> QED
    BY <1>1, <2>2, <2>3
<1>3. ASSUME NEW i \in P, NEW j \in P, i < j
      PROVE  Cardinality(Low(i)) # Cardinality(Low(j))
  <2>1. Low(i) \in SUBSET Low(j) /\ j \in Low(j) /\ j \notin Low(i)
    <3>1. i \in Int /\ j \in Int /\ \A k \in P : k \in Int
      OBVIOUS
    <3>2. \A k \in P : k <= i => k <= j
      BY <1>3, <3>1
    <3>3. j <= j /\ ~(j <= i)
      BY <1>3, <3>1
    <3> QED
      BY <3>2, <3>3
  <2> HIDE DEF Low
  <2> QED
    BY <1>2, <2>1, FS_Subset
<1>4. r \in [P -> N] /\ \A i, j \in P : r[i] = r[j] => i = j
  <2>1. \A i \in P : i \in Int
    OBVIOUS
  <2> HIDE DEF Low, N
  <2> QED
    BY <1>2, <1>3, <2>1
<1>5. r \in Injection(P, N)
  <2> HIDE DEF r, N
  <2> QED
    BY <1>4 DEF Injection, IsInjective
<1>6. IsFiniteSet(N) /\ Cardinality(N) = Cardinality(P)
  BY <1>1, FS_Interval
<1>7. r \in Surjection(P, N)
  <2> HIDE DEF r, N
  <2> QED
    BY <1>5, <1>6, FS_Injection
<1>8. \A n \in N : \E i \in P : r[i] = n
  <2> HIDE DEF r, N
  <2> QED
    BY <1>7 DEF Surjection
<1> QED
  BY <1>1, <1>2, <1>4, <1>8

(* Removing pids keeps the others, each as often as it was listed.         *)
LEMMA WithoutFacts ==
  ASSUME NEW S, NEW s \in Seq(S), NEW gone
  PROVE  /\ Without(s, gone) \in Seq(S)
         /\ Elements(Without(s, gone)) = Elements(s) \ gone
         /\ Distinct(s) => Distinct(Without(s, gone))
<1> DEFINE kept == {i \in 1 .. Len(s) : s[i] \notin gone}
           Rank(i) == Cardinality({k \in kept : k <= i})
           at == [n \in 1 .. Cardinality(kept) |-> CHOOSE i \in kept : Rank(i) = n]
           t == Without(s, gone)
<1>1. Len(s) \in Nat /\ kept \in SUBSET (1 .. Len(s)) /\ \A i \in kept : s[i] \in S
  OBVIOUS
<1>2. /\ Cardinality(kept) \in Nat
      /\ \A i \in kept : Rank(i) \in 1 .. Cardinality(kept)
      /\ \A i, j \in kept : Rank(i) = Rank(j) => i = j
      /\ \A n \in 1 .. Cardinality(kept) : \E i \in kept : Rank(i) = n
  <2> HIDE DEF kept
  <2> QED
    BY <1>1, RanksNumber
<1>3. t = [n \in 1 .. Cardinality(kept) |-> s[CHOOSE i \in kept : Rank(i) = n]]
  BY DEF Without
<1> HIDE DEF kept, Rank, t
<1>4. \A n \in 1 .. Cardinality(kept) : at[n] \in kept /\ Rank(at[n]) = n /\ t[n] = s[at[n]]
  BY <1>2, <1>3
<1> HIDE DEF at
<1>5. t \in Seq(S) /\ Len(t) = Cardinality(kept)
  BY <1>1, <1>2, <1>3, <1>4
<1>6. Elements(t) = {s[i] : i \in kept}
  <2>1. ASSUME NEW i \in kept PROVE \E n \in 1 .. Len(t) : t[n] = s[i]
    <3>1. at[Rank(i)] = i /\ t[Rank(i)] = s[i]
      BY <1>2, <1>4
    <3> QED
      BY <1>2, <1>5, <3>1
  <2> QED
    BY <1>4, <1>5, <2>1 DEF Elements
<1>7. {s[i] : i \in kept} = Elements(s) \ gone
  BY DEF kept, Elements
<1>8. ASSUME Distinct(s), NEW m \in 1 .. Len(t), NEW n \in 1 .. Len(t), t[m] = t[n]
      PROVE  m = n
  <2>1. at[m] \in 1 .. Len(s) /\ at[n] \in 1 .. Len(s) /\ s[at[m]] = s[at[n]]
    BY <1>1, <1>4, <1>5, <1>8
  <2>2. at[m] = at[n]
    BY <1>8, <2>1 DEF Distinct
  <2> QED
    BY <1>4, <1>5, <2>2
<1>9. Distinct(s) => Distinct(t)
  BY <1>8 DEF Distinct
<1> QED
  BY <1>5, <1>6, <1>7, <1>9 DEF t

-----------------------------------------------------------------------------
(* The inductive invariant.                                                *)

(* clients lists the children of a server process, each once.              *)
Listed ==
  /\ Distinct(clients)
  /\ Pids = IF use_thread THEN {} ELSE InState("running") \cup InState("zombie")

(* server_pid tells the program whether there is a server process: without *)
(* one there are no children, and max_clients may be set.                  *)
ServerKnown ==
  /\ use_thread => ~server_pid
  /\ ~use_thread /\ ~server_pid => srv \in {"none", "killed"}
  /\ ~use_thread /\ srv \notin Off => max_clients > 0
  /\ srv \in Off \cup {"bind"} => clients = <<>>

IInv == TypeOK /\ Listed /\ ServerKnown

ConnStates == {"new", "queued", "running", "zombie", "orphan", "done", "dropped", "failed"}

LEMMA EmptyList ==
  ASSUME NEW s \in Seq(Conns)
  PROVE  /\ Elements(s) = {} <=> s = <<>>
         /\ Distinct(<<>>) /\ Elements(<<>>) = {}
<1>1. Len(s) \in Nat /\ (Len(s) = 0 <=> s = <<>>)
  OBVIOUS
<1> QED
  BY <1>1 DEF Elements, Distinct

LEMMA PidsListed == Pids = Elements(clients)
BY DEF Pids, Elements

LEMMA InitIInv == Init => IInv
<1> SUFFICES ASSUME Init PROVE IInv
  OBVIOUS
<1>1. clients = <<>> /\ Distinct(clients) /\ Pids = {} /\ clients \in Seq(Conns)
  <2>1. clients = <<>> /\ <<>> \in Seq(Conns)
    BY DEF Init
  <2> QED
    BY <2>1, EmptyList, PidsListed
<1>2. TypeOK
  <2>1. server_pid \in BOOLEAN /\ timeout_count \in 0 .. MaxTimeouts
    <3>1. server_pid \in BOOLEAN
      BY DEF Init
    <3> QED
      BY <3>1, TimeoutsAssumption DEF Init
  <2> QED
    BY <1>1, <2>1 DEF Init, TypeOK, Off
<1>3. Listed
  BY <1>1 DEF Init, Listed, InState
<1>4. ServerKnown
  BY <1>1 DEF Init, ServerKnown, Off
<1> QED
  BY <1>2, <1>3, <1>4 DEF IInv

(* What IInv says of a server without a process of its own.                *)
LEMMA IInvFacts ==
  ASSUME IInv
  PROVE  /\ TypeOK /\ max_clients \in Nat /\ MaxTimeouts \in Nat
         /\ use_thread => clients = <<>> /\ Pids = {}
         /\ clients = <<>> => Pids = {}
         /\ Cardinality(Pids) = Len(clients) /\ IsFiniteSet(Pids) /\ Len(clients) \in Nat
<1>1. TypeOK /\ max_clients \in Nat /\ MaxTimeouts \in Nat /\ clients \in Seq(Conns)
  BY LimitsAssumption, TimeoutsAssumption DEF IInv, TypeOK
<1>2. use_thread => Pids = {}
  BY DEF IInv, Listed
<1>3. Cardinality(Pids) = Len(clients) /\ IsFiniteSet(Pids) /\ Len(clients) \in Nat
  <2>1. Distinct(clients) /\ Len(clients) \in Nat
    BY <1>1 DEF IInv, Listed
  <2> QED
    BY <1>1, <2>1, DistinctLength, PidsListed
<1> QED
  BY <1>1, <1>2, <1>3, EmptyList, PidsListed

(* reap_clients: the zombies leave the list and the process table together.*)
LEMMA ReapFacts ==
  ASSUME IInv, reap_clients, use_thread' = use_thread
  PROVE  /\ clients' \in Seq(Conns) /\ conn' \in [Conns -> ConnStates] /\ Listed'
         /\ Pids' = Pids \ InState("zombie")
<1>1. TypeOK /\ clients \in Seq(Conns) /\ conn \in [Conns -> ConnStates]
  BY DEF IInv, TypeOK, ConnStates
<1>2. /\ clients' \in Seq(Conns) /\ Elements(clients') = Elements(clients) \ InState("zombie")
      /\ Distinct(clients')
  <2>1. clients' = Without(clients, InState("zombie"))
    BY DEF reap_clients
  <2> QED
    BY <1>1, <2>1, WithoutFacts DEF IInv, Listed
<1>3. Pids' = Elements(clients')
  BY DEF Pids, Elements
<1>4. Pids' = Pids \ InState("zombie")
  BY <1>2, <1>3, PidsListed
<1>5. conn' \in [Conns -> ConnStates]
  BY <1>1 DEF reap_clients, ConnStates
<1>6. InState("running")' = InState("running") /\ InState("zombie")' = {}
  BY <1>1 DEF reap_clients, InState, ConnStates
<1>7. InState("running") \cap InState("zombie") = {}
  BY DEF InState
<1> QED
  BY <1>2, <1>4, <1>5, <1>6, <1>7 DEF IInv, Listed

(* The list stays right when the list and the children do not change.      *)
LEMMA ListKept ==
  ASSUME IInv, use_thread' = use_thread, clients' = clients,
         use_thread \/ InState("running")' \cup InState("zombie")'
                         = InState("running") \cup InState("zombie")
  PROVE  Listed'
BY DEF IInv, Listed, Pids, Distinct

(* start() and stop() leave an empty list and no children of the server.   *)
LEMMA ListEmptied ==
  ASSUME IInv, use_thread' = use_thread, clients' = <<>>,
         use_thread \/ InState("running")' \cup InState("zombie")' = {}
  PROVE  Listed'
<1>1. Distinct(clients') /\ Elements(clients') = {}
  BY EmptyList DEF IInv, TypeOK
<1>2. Pids' = {}
  BY <1>1 DEF Pids, Elements
<1> QED
  BY <1>1, <1>2 DEF Listed

-----------------------------------------------------------------------------
(* Steps of the program.                                                   *)

LEMMA OwnerStep == IInv /\ (Owner \/ exec_returns) => IInv'
<1> SUFFICES ASSUME IInv, Owner \/ exec_returns PROVE IInv'
  OBVIOUS
<1> USE DEF ownerVars, config
<1>0. /\ TypeOK /\ conn \in [Conns -> ConnStates]
      /\ use_thread => clients = <<>> /\ Pids = {}
      /\ clients = <<>> => Pids = {}
  BY IInvFacts DEF TypeOK, ConnStates
<1>1. ASSUME NEW n \in Limits, set_max_clients(n) PROVE IInv'
  <2>1. Listed'
    BY <1>1, ListKept DEF set_max_clients, InState
  <2>2. TypeOK' /\ ServerKnown'
    BY <1>0, <1>1 DEF set_max_clients, IInv, TypeOK, ServerKnown, Off
  <2> QED
    BY <2>1, <2>2 DEF IInv
<1>2. ASSUME NEW next \in {"free", "exec"}, start(next) PROVE IInv'
  <2>1. clients = <<>>
    BY <1>2 DEF start, IInv, ServerKnown
  <2>2. Listed'
    BY <1>2, <2>1, ListKept DEF start, InState
  <2>3. TypeOK'
    <3>1. server_pid' \in BOOLEAN
      BY <1>2 DEF start
    <3>2. timeout_count' \in 0 .. MaxTimeouts /\ clients' \in Seq(Conns)
      BY <1>0, <1>2, TimeoutsAssumption DEF start, TypeOK
    <3> QED
      BY <1>0, <1>2, <3>1, <3>2 DEF start, TypeOK, Off
  <2>4. ServerKnown'
    BY <1>0, <1>2 DEF start, IInv, ServerKnown, Off
  <2> QED
    BY <2>2, <2>3, <2>4 DEF IInv
<1>3. ASSUME fork_fails \/ exec_returns PROVE IInv'
  <2>1. UNCHANGED <<config, server_pid, max_clients, srv, conn, clients, timeout_count>> /\ owner' = "gone"
    BY <1>3 DEF fork_fails, exec_returns
  <2>2. Listed'
    BY <2>1, ListKept DEF InState
  <2> QED
    BY <1>0, <2>1, <2>2 DEF IInv, TypeOK, ServerKnown
<1>4. ASSUME start_again PROVE IInv'
  <2>1. use_thread
    BY <1>0, <1>4 DEF start_again, IInv, ServerKnown, Off, TypeOK
  <2>2. Listed'
    BY <1>4, <2>1, ListKept DEF start_again
  <2>3. TypeOK'
    BY <1>0, <1>4 DEF start_again, Exits, TypeOK, Off
  <2>4. ServerKnown'
    BY <1>0, <1>4, <2>1 DEF start_again, Exits, IInv, ServerKnown, Off
  <2> QED
    BY <2>2, <2>3, <2>4 DEF IInv
<1>5. ASSUME stop PROVE IInv'
  <2>1. conn' \in [Conns -> ConnStates] /\ InState("running")' = {} /\ InState("zombie")' = {}
    BY <1>0, <1>5 DEF stop, InState, ConnStates
  <2>2. Listed'
    BY <1>5, <2>1, ListEmptied DEF stop
  <2>3. TypeOK'
    <3>1. server_pid' \in BOOLEAN
      BY <1>5 DEF stop
    <3>2. clients' \in Seq(Conns)
      BY <1>5 DEF stop
    <3> QED
      BY <1>0, <1>5, <2>1, <3>1, <3>2 DEF stop, TypeOK, Off, ConnStates
  <2>4. ServerKnown'
    BY <1>0, <1>5 DEF stop, IInv, ServerKnown, Off
  <2> QED
    BY <2>2, <2>3, <2>4 DEF IInv
<1> QED
  BY <1>1, <1>2, <1>3, <1>4, <1>5 DEF Owner

-----------------------------------------------------------------------------
(* Steps of the server.                                                    *)

LEMMA LoopStep ==
  ASSUME IInv, Loop \/ SelectReady
  PROVE  IInv'
<1> USE DEF ownerVars, config
<1>1. /\ reap_clients /\ UNCHANGED ownerVars /\ srv \in {"loop", "select"}
      /\ srv' \in {"select", "accept"} /\ timeout_count' \in {0, timeout_count}
  BY DEF Loop, SelectReady
<1>2. clients' \in Seq(Conns) /\ conn' \in [Conns -> ConnStates] /\ Listed'
  BY <1>1, ReapFacts
<1>3. TypeOK'
  BY <1>1, <1>2, TimeoutsAssumption DEF IInv, TypeOK, ConnStates, Off
<1> QED
  BY <1>1, <1>2, <1>3 DEF IInv, ServerKnown, Off

LEMMA ServerStep ==
  ASSUME IInv, Bind \/ SelectTimeout \/ SelectFails \/ accept_fails
  PROVE  IInv'
<1> USE DEF ownerVars, config
<1>0. /\ TypeOK /\ conn \in [Conns -> ConnStates] /\ MaxTimeouts \in Nat
      /\ use_thread => clients = <<>> /\ Pids = {}
      /\ clients = <<>> => Pids = {}
  BY IInvFacts DEF TypeOK, ConnStates
<1>1. CASE Bind
  <2>1. clients = <<>> /\ Pids = {}
    BY <1>0, <1>1 DEF Bind, IInv, ServerKnown
  <2>2. /\ conn' \in [Conns -> ConnStates]
        /\ InState("zombie")' = InState("zombie") /\ InState("running")' \subseteq InState("running")
    BY <1>0, <1>1 DEF Bind, Exits, InState, ConnStates
  <2>3. Listed'
    BY <1>1, <2>1, <2>2, ListEmptied DEF Bind, IInv, Listed
  <2>4. TypeOK'
    BY <1>0, <1>1, <2>2 DEF Bind, Exits, TypeOK, Off, ConnStates
  <2>5. ServerKnown'
    BY <1>0, <1>1, <2>1 DEF Bind, Exits, IInv, ServerKnown, Off
  <2> QED
    BY <2>3, <2>4, <2>5 DEF IInv
<1>2. CASE SelectTimeout
  <2>1. Listed'
    BY <1>2, ListKept DEF SelectTimeout, InState
  <2>2. timeout_count' \in 0 .. MaxTimeouts
    BY <1>0, <1>2 DEF SelectTimeout, TypeOK
  <2>3. srv' \in {"join", "loop"} /\ srv = "select"
    BY <1>2 DEF SelectTimeout
  <2>4. TypeOK'
    BY <1>0, <1>2, <2>2, <2>3 DEF SelectTimeout, TypeOK
  <2>5. ServerKnown'
    BY <1>2, <2>3 DEF SelectTimeout, IInv, ServerKnown, Off
  <2> QED
    BY <2>1, <2>4, <2>5 DEF IInv
<1>3. CASE SelectFails \/ accept_fails
  <2>1. /\ UNCHANGED <<ownerVars, clients, timeout_count>>
        /\ srv \in {"select", "accept"} /\ srv' \in {"loop", "join"}
    BY <1>3 DEF SelectFails, accept_fails
  <2>2. /\ conn' \in [Conns -> ConnStates]
        /\ InState("running")' = InState("running") /\ InState("zombie")' = InState("zombie")
    BY <1>0, <1>3 DEF SelectFails, accept_fails, InState, ConnStates
  <2>3. Listed'
    BY <2>1, <2>2, ListKept
  <2>4. TypeOK'
    BY <1>0, <2>1, <2>2 DEF TypeOK, ConnStates
  <2>5. ServerKnown'
    BY <2>1 DEF IInv, ServerKnown, Off
  <2> QED
    BY <2>3, <2>4, <2>5 DEF IInv
<1> QED
  BY <1>1, <1>2, <1>3

LEMMA JoinStep ==
  ASSUME IInv, join_clients
  PROVE  IInv'
<1> USE DEF ownerVars, config
<1>0. TypeOK /\ conn \in [Conns -> ConnStates]
  BY IInvFacts DEF TypeOK, ConnStates
<1>1. conn' \in [Conns -> ConnStates]
  BY <1>0 DEF join_clients, ConnStates
<1>2. use_thread \/ InState("running")' \cup InState("zombie")' = {}
  BY <1>0 DEF join_clients, InState, IInv, Listed
<1>3. Listed'
  BY <1>2, ListEmptied DEF join_clients
<1>4. TypeOK'
  BY <1>0, <1>1 DEF join_clients, TypeOK, Off, ConnStates
<1> QED
  BY <1>3, <1>4 DEF join_clients, IInv, ServerKnown, Off

-----------------------------------------------------------------------------
(* Steps that concern one connection.                                      *)

LEMMA ServeStep ==
  ASSUME IInv, NEW c \in Conns, accept_serve(c)
  PROVE  IInv'
<1> USE DEF ownerVars, config
<1>0. TypeOK /\ conn \in [Conns -> ConnStates] /\ clients \in Seq(Conns)
  BY IInvFacts DEF TypeOK, ConnStates
<1>1. conn' \in [Conns -> ConnStates] /\ clients' \in Seq(Conns)
  BY <1>0 DEF accept_serve, ConnStates
<1>2. /\ InState("running")' = InState("running") \cup {c} /\ InState("zombie")' = InState("zombie")
      /\ c \notin InState("running") \cup InState("zombie")
  BY <1>0 DEF accept_serve, InState
<1>3. Listed'
  <2>1. CASE use_thread
    BY <2>1, ListKept DEF accept_serve
  <2>2. CASE ~use_thread
    <3>1. clients' = Append(clients, c) /\ c \notin Elements(clients)
      BY <1>2, <2>2, PidsListed DEF accept_serve, IInv, Listed
    <3>2. /\ Len(clients') = Len(clients) + 1 /\ clients'[Len(clients) + 1] = c
          /\ \A i \in 1 .. Len(clients) : clients'[i] = clients[i]
          /\ Len(clients) \in Nat
      BY <1>0, <3>1
    <3>3. Distinct(clients')
      BY <3>1, <3>2 DEF Distinct, Elements, IInv, Listed
    <3>4. Pids' = Pids \cup {c}
      BY <3>2 DEF Pids
    <3> QED
      BY <1>2, <2>2, <3>3, <3>4 DEF Listed, IInv, accept_serve
  <2> QED
    BY <2>1, <2>2 DEF IInv, TypeOK
<1>4. TypeOK'
  BY <1>0, <1>1 DEF accept_serve, TypeOK, ConnStates
<1> QED
  BY <1>3, <1>4 DEF accept_serve, IInv, ServerKnown, Off

LEMMA ConnStep ==
  ASSUME IInv, NEW c \in Conns, accept_drop(c) \/ Connect(c) \/ HandlerReturns(c)
  PROVE  IInv'
<1> USE DEF ownerVars, config
<1>0. TypeOK /\ conn \in [Conns -> ConnStates]
  BY IInvFacts DEF TypeOK, ConnStates
<1>1. /\ UNCHANGED <<ownerVars, clients, timeout_count>>
      /\ srv' = srv \/ (srv = "accept" /\ srv' = "loop")
  BY DEF accept_drop, Connect, HandlerReturns
<1>2. conn' \in [Conns -> ConnStates]
  BY <1>0 DEF accept_drop, Connect, HandlerReturns, ConnStates
<1>3. use_thread \/ InState("running")' \cup InState("zombie")'
                      = InState("running") \cup InState("zombie")
  BY <1>0 DEF accept_drop, Connect, HandlerReturns, InState
<1>4. Listed'
  BY <1>1, <1>3, ListKept
<1>5. TypeOK'
  BY <1>0, <1>1, <1>2 DEF TypeOK, ConnStates
<1> QED
  BY <1>1, <1>4, <1>5 DEF IInv, ServerKnown, Off

LEMMA TcpStep == IInv /\ [Next]_vars => IInv'
<1> SUFFICES ASSUME IInv, [Next]_vars PROVE IInv'
  OBVIOUS
<1>1. CASE UNCHANGED vars
  BY <1>1 DEF vars, ownerVars, config, IInv, TypeOK, Listed, Distinct, Pids, InState, ServerKnown
<1> QED
  BY <1>1, OwnerStep, LoopStep, ServerStep, JoinStep, ServeStep, ConnStep
  DEF Next, Server, Accepts

-----------------------------------------------------------------------------
(* udp::Server: each of its steps is one that tcp::Server without threads  *)
(* can take from the same state.                                           *)

LEMMA UdpWithout ==
  ASSUME NEW s, NEW gone
  PROVE  Udp!Without(s, gone) = Without(s, gone)
BY Zenon DEF Udp!Without, Without, Udp!Cardinality, Cardinality

LEMMA UdpStep ==
  ASSUME IInv, ~use_thread, Udp!Next, UNCHANGED use_thread
  PROVE  Next
<1> USE DEF ownerVars, config, Udp!ownerVars, Udp!config, InState, Udp!InState, Udp!Moved
<1>0. /\ TypeOK /\ conn \in [Conns -> ConnStates] /\ Pids = InState("running") \cup InState("zombie")
      /\ ~server_pid => srv \in Off
      /\ srv = "bind" => Pids = {}
  BY IInvFacts DEF IInv, Listed, ServerKnown, Off, TypeOK, ConnStates
<1>1. ASSUME NEW n \in Limits, Udp!set_max_clients(n) PROVE set_max_clients(n)
  BY <1>1 DEF Udp!set_max_clients, set_max_clients
<1>2. ASSUME NEW next \in {"free", "exec"}, Udp!start(next) PROVE start(next)
  <2>1. server_pid' = ~use_thread
    BY <1>2 DEF Udp!start
  <2> QED
    BY <1>0, <1>2, <2>1 DEF Udp!start, start
<1>3. Udp!fork_fails => fork_fails
  BY DEF Udp!fork_fails, fork_fails
<1>4. Udp!stop => stop
  BY DEF Udp!stop, stop
<1>5. Udp!exec_returns => exec_returns
  BY DEF Udp!exec_returns, exec_returns
<1>6. Udp!Bind => Bind
  <2> SUFFICES ASSUME Udp!Bind PROVE Bind
    OBVIOUS
  <2>1. conn = [c \in Conns |-> IF conn[c] \in {"running"} THEN "failed" ELSE conn[c]]
    BY <1>0 DEF Udp!Bind, ConnStates
  <2> QED
    BY <2>1 DEF Udp!Bind, Bind, Exits
<1>7. Udp!reap_clients => reap_clients
  BY UdpWithout DEF Udp!reap_clients, reap_clients
<1>8. Udp!Loop => Loop
  BY <1>7 DEF Udp!Loop, Loop
<1>9. Udp!SelectReady => SelectReady
  BY <1>7 DEF Udp!SelectReady, SelectReady
<1>10. Udp!SelectTimeout => SelectTimeout
  BY DEF Udp!SelectTimeout, SelectTimeout
<1>11. Udp!SelectFails => SelectFails
  BY DEF Udp!SelectFails, SelectFails
<1>12. ASSUME NEW c \in Conns, Udp!accept_drop(c) PROVE accept_drop(c)
  BY <1>12 DEF Udp!accept_drop, accept_drop
<1>13. ASSUME NEW c \in Conns, Udp!accept_serve(c) PROVE accept_serve(c)
  BY <1>13 DEF Udp!accept_serve, accept_serve
<1>14. Udp!accept_fails => accept_fails
  BY DEF Udp!accept_fails, accept_fails
<1>15. Udp!join_clients => join_clients
  <2> SUFFICES ASSUME Udp!join_clients PROVE join_clients
    OBVIOUS
  <2>1. \A c \in Pids : conn[c] = "zombie"
    BY DEF Udp!join_clients, Udp!Pids, Pids
  <2>2. \A c \in Conns : conn[c] = "zombie" <=> c \in Pids
    BY <1>0, <2>1
  <2>3. conn' = [c \in Conns |-> IF c \in Pids THEN "done" ELSE conn[c]]
    BY <2>2 DEF Udp!join_clients
  <2> QED
    BY <2>1, <2>3 DEF Udp!join_clients, join_clients
<1>16. ASSUME NEW c \in Conns, Udp!Packet(c) PROVE Connect(c)
  BY <1>16 DEF Udp!Packet, Udp!Up, Connect
<1>17. ASSUME NEW c \in Conns, Udp!HandlerReturns(c) PROVE HandlerReturns(c)
  BY <1>17 DEF Udp!HandlerReturns, HandlerReturns
<1> HIDE DEF ownerVars, config, Udp!ownerVars, Udp!config, InState, Udp!InState, Udp!Moved
<1> QED
  BY <1>1, <1>2, <1>3, <1>4, <1>5, <1>6, <1>8, <1>9, <1>10, <1>11, <1>12, <1>13, <1>14, <1>15,
     <1>16, <1>17
  DEF Udp!Next, Udp!Owner, Udp!Server, Udp!Accepts, Next, Owner, Server, Accepts

(* Either server starts as, and moves as, the TCP server does.             *)
BothInv == IInv /\ (transport = "udp" => ~use_thread)

LEMMA BothInit == ServersInit => Init /\ (transport = "udp" => ~use_thread)
<1> SUFFICES ASSUME ServersInit PROVE Init /\ (transport = "udp" => ~use_thread)
  OBVIOUS
<1>1. CASE transport = "tcp" /\ Init
  BY <1>1
<1>2. CASE transport = "udp" /\ Udp!Init /\ use_thread = FALSE
  <2>1. use_thread \in BOOLEAN
    BY <1>2
  <2> QED
    BY <1>2, <2>1 DEF Udp!Init, Init
<1> QED
  BY <1>1, <1>2 DEF ServersInit

LEMMA BothNext ==
  BothInv /\ [Either(Next, Udp!Next)]_allVars =>
    [Next]_vars /\ (transport' = "udp" => ~use_thread')
<1> SUFFICES ASSUME BothInv, [Either(Next, Udp!Next)]_allVars
             PROVE  [Next]_vars /\ (transport' = "udp" => ~use_thread')
  OBVIOUS
<1>1. CASE transport = "tcp" /\ Next /\ UNCHANGED transport
  BY <1>1
<1>2. CASE transport = "udp" /\ Udp!Next /\ UNCHANGED use_thread /\ UNCHANGED transport
  BY <1>2, UdpStep DEF BothInv
<1>3. CASE UNCHANGED allVars
  BY <1>3 DEF allVars, vars, ownerVars, config, BothInv
<1> QED
  BY <1>1, <1>2, <1>3 DEF Either

(* The invariant is inductive, for TCP with processes and threads and for  *)
(* UDP.                                                                    *)
THEOREM Invariance == ServersSpec => []BothInv
<1>1. ServersInit => BothInv
  BY BothInit, InitIInv DEF BothInv
<1>2. BothInv /\ [Either(Next, Udp!Next)]_allVars => BothInv'
  BY BothNext, TcpStep DEF BothInv
<1> QED
  BY <1>1, <1>2, PTL DEF ServersSpec

(* The server object and its connections keep their types.                 *)
THEOREM TypeCorrect == ServersSpec => []TypeOK
BY Invariance, PTL DEF BothInv, IInv

(* clients of tcp::Server and udp::Server holds exactly the handlers that  *)
(* have not been waited for, each once, whatever order handlers return in. *)
THEOREM ChildrenAreTracked == ServersSpec => []ChildrenTracked
<1>1. IInv => ChildrenTracked
  BY IInvFacts DEF IInv, Listed, ChildrenTracked
<1> QED
  BY <1>1, Invariance, PTL DEF BothInv

-----------------------------------------------------------------------------
(* The refinement: each step of the server is a step of HandlerPool, or     *)
(* changes nothing there.  Pool sees conn through Fate.                     *)

Seen == [c \in Conns |-> IF use_thread THEN "waiting" ELSE Fate(conn[c])]

PoolStep == [Pool!Next]_(Pool!vars)

LEMMA PoolCardinality == \A S : Pool!Cardinality(S) = Cardinality(S)
BY Zenon DEF Pool!Cardinality, Cardinality

(* A step that Pool does not see.                                          *)
LEMMA Unseen ==
  ASSUME Pids' = Pids, max_clients' = max_clients, Seen' = Seen,
         (Up /\ ~use_thread)' <=> (Up /\ ~use_thread)
  PROVE  PoolStep
<1>1. (Up /\ ~use_thread)' = (Up /\ ~use_thread)
  BY DEF Up
<1> QED
  BY <1>1 DEF PoolStep, Pool!vars, Seen

(* What Pool sees of a handler depends on its state alone.                 *)
LEMMA SeenSame ==
  ASSUME use_thread' = use_thread,
         use_thread \/ \A c \in Conns : Fate(conn[c])' = Fate(conn[c])
  PROVE  Seen' = Seen
BY DEF Seen

(* Threads: Pool stays closed.                                             *)
LEMMA ThreadPool ==
  ASSUME IInv, IInv', use_thread, [Next]_vars
  PROVE  PoolStep
<1> USE DEF ownerVars, config
<1>1. use_thread' = use_thread
  BY DEF vars, Next, Owner, Server, Accepts, set_max_clients, start, fork_fails, start_again, stop,
         exec_returns, Bind, Loop, SelectReady, SelectTimeout, SelectFails, accept_drop,
         accept_serve, accept_fails, join_clients, Connect, HandlerReturns
<1>2. Pids = {} /\ Pids' = {}
  BY <1>1 DEF IInv, Listed
<1>3. Seen' = Seen
  BY <1>1, SeenSame
<1>4. ASSUME max_clients' = max_clients PROVE PoolStep
  BY <1>1, <1>2, <1>3, <1>4, Unseen
<1>5. ASSUME NEW n \in Limits, set_max_clients(n) PROVE PoolStep
  <2>1. ~(Up /\ ~use_thread) /\ ~(Up /\ ~use_thread)'
    BY <1>1
  <2>2. (Up /\ ~use_thread)' = (Up /\ ~use_thread)
    BY <2>1 DEF Up
  <2>3. max_clients' \in Limits
    BY <1>5 DEF set_max_clients
  <2>4. Pool!Configure
    BY <1>2, <1>3, <2>1, <2>2, <2>3 DEF Pool!Configure, Seen
  <2> QED
    BY <2>4 DEF PoolStep, Pool!Next
<1>6. max_clients' = max_clients \/ \E n \in Limits : set_max_clients(n)
  BY DEF vars, Next, Owner, Server, Accepts, start, fork_fails, start_again, stop,
         exec_returns, Bind, Loop, SelectReady, SelectTimeout, SelectFails, accept_drop,
         accept_serve, accept_fails, join_clients, Connect, HandlerReturns
<1> QED
  BY <1>4, <1>5, <1>6

(* What Pool sees of a server with processes.                              *)
LEMMA ProcessFacts ==
  ASSUME IInv, IInv', ~use_thread, use_thread' = use_thread
  PROVE  /\ conn \in [Conns -> ConnStates] /\ conn' \in [Conns -> ConnStates]
         /\ Pids = InState("running") \cup InState("zombie")
         /\ Pids' = InState("running")' \cup InState("zombie")'
         /\ (Up /\ ~use_thread) = Up /\ (Up /\ ~use_thread)' = Up'
         /\ Seen = [c \in Conns |-> Fate(conn[c])]
         /\ Seen' = [c \in Conns |-> Fate(conn'[c])]
<1>1. (Up /\ ~use_thread) = Up /\ (Up /\ ~use_thread)' = Up'
  BY DEF Up
<1>2. Seen = [c \in Conns |-> Fate(conn[c])]
  BY DEF Seen
<1>3. Seen' = [c \in Conns |-> Fate(conn'[c])]
  <2>1. ~use_thread'
    OBVIOUS
  <2>2. ASSUME NEW c \in Conns PROVE Fate(conn[c])' = Fate(conn'[c])
    BY Zenon DEF Fate
  <2>3. Seen' = [c \in Conns |-> Fate(conn[c])']
    BY <2>1 DEF Seen
  <2> QED
    BY <2>2, <2>3
<1> QED
  BY <1>1, <1>2, <1>3 DEF IInv, TypeOK, ConnStates, Listed

(* Fate is the view of one state of a connection.                          *)
LEMMA FateFacts ==
  /\ Fate("new") = "waiting" /\ Fate("queued") = "waiting"
  /\ Fate("running") = "served" /\ Fate("orphan") = "served"
  /\ Fate("zombie") = "finished" /\ Fate("done") = "finished"
  /\ Fate("dropped") = "refused" /\ Fate("failed") = "failed"
<1>1. Fate("new") = "waiting" /\ Fate("queued") = "waiting"
  BY DEF Fate
<1>2. Fate("running") = "served" /\ Fate("orphan") = "served"
  BY DEF Fate
<1>3. Fate("zombie") = "finished" /\ Fate("done") = "finished"
  BY DEF Fate
<1>4. Fate("dropped") = "refused" /\ Fate("failed") = "failed"
  BY DEF Fate
<1> QED
  BY <1>1, <1>2, <1>3, <1>4

(* One connection moves on.                                                *)
LEMMA SeenBecomes ==
  ASSUME IInv, IInv', ~use_thread, use_thread' = use_thread, NEW c \in Conns,
         NEW p \in ConnStates, NEW q \in ConnStates,
         conn[c] = p, conn' = [conn EXCEPT ![c] = q]
  PROVE  Pool!Becomes(c, Fate(p), Fate(q))
<1>1. /\ conn \in [Conns -> ConnStates]
      /\ Seen = [d \in Conns |-> Fate(conn[d])]
      /\ Seen' = [d \in Conns |-> Fate(conn'[d])]
  BY ProcessFacts
<1>2. Seen[c] = Fate(p)
  BY <1>1
<1>3. Seen' = [Seen EXCEPT ![c] = Fate(q)]
  <2>1. \A d \in Conns : conn'[d] = IF d = c THEN q ELSE conn[d]
    BY <1>1
  <2>2. \A d \in Conns : Fate(conn'[d]) = IF d = c THEN Fate(q) ELSE Fate(conn[d])
    BY <2>1
  <2> QED
    BY <1>1, <2>2, Zenon
<1> QED
  BY <1>2, <1>3 DEF Pool!Becomes, Seen

(* The connections that wait in the queue are lost.                        *)
LEMMA SeenLost ==
  ASSUME IInv, IInv', ~use_thread, use_thread' = use_thread,
         \A c \in Conns :
           Fate(conn'[c]) = IF c \in InState("queued") THEN "failed" ELSE Fate(conn[c])
  PROVE  \E lost \in SUBSET {c \in Conns : Seen[c] = "waiting"} :
           Seen' = [c \in Conns |-> IF c \in lost THEN "failed" ELSE Seen[c]]
<1>1. /\ Seen = [c \in Conns |-> Fate(conn[c])]
      /\ Seen' = [c \in Conns |-> Fate(conn'[c])]
  BY ProcessFacts
<1>2. InState("queued") \in SUBSET {c \in Conns : Seen[c] = "waiting"}
  BY <1>1, FateFacts DEF InState
<1>3. Seen' = [c \in Conns |-> IF c \in InState("queued") THEN "failed" ELSE Seen[c]]
  BY <1>1
<1> QED
  BY <1>2, <1>3

LEMMA OwnerPool ==
  ASSUME IInv, IInv', ~use_thread, use_thread' = use_thread, Owner \/ exec_returns
  PROVE  PoolStep
<1> USE DEF ownerVars, config
<1>0. /\ conn \in [Conns -> ConnStates] /\ conn' \in [Conns -> ConnStates]
      /\ Pids = InState("running") \cup InState("zombie")
      /\ Pids' = InState("running")' \cup InState("zombie")'
      /\ (Up /\ ~use_thread) = Up /\ (Up /\ ~use_thread)' = Up'
      /\ Seen = [c \in Conns |-> Fate(conn[c])]
      /\ Seen' = [c \in Conns |-> Fate(conn'[c])]
  BY ProcessFacts
<1>1. ASSUME NEW n \in Limits, set_max_clients(n) PROVE PoolStep
  <2>1. ~Up /\ Pids = {} /\ Pids' = {}
    BY <1>1, IInvFacts DEF set_max_clients, IInv, ServerKnown, Up, Off, Pids
  <2>2. Up' = Up /\ Seen' = Seen /\ max_clients' \in Limits
    BY <1>0, <1>1 DEF set_max_clients, Up
  <2>3. Pool!Configure
    BY <1>0, <2>1, <2>2 DEF Pool!Configure, Seen
  <2> QED
    BY <2>3 DEF PoolStep, Pool!Next
<1>2. ASSUME NEW next \in {"free", "exec"}, start(next) PROVE PoolStep
  <2>1. ~Up /\ ~Up' /\ Seen' = Seen /\ max_clients' = max_clients
    BY <1>0, <1>2 DEF start, Up, Off
  <2>2. Pids' = Pids
    BY <1>0, <1>2 DEF start, InState
  <2> QED
    BY <1>0, <2>1, <2>2, Unseen
<1>3. ASSUME fork_fails \/ exec_returns PROVE PoolStep
  <2>1. (Up' <=> Up) /\ Seen' = Seen /\ max_clients' = max_clients /\ Pids' = Pids
    BY <1>0, <1>3 DEF fork_fails, exec_returns, Up, Pids
  <2> QED
    BY <1>0, <2>1, Unseen
<1>4. ~start_again
  BY DEF start_again, IInv, ServerKnown, Off
<1>5. ASSUME stop PROVE PoolStep
  <2>1. \A c \in Conns :
          conn'[c] = CASE conn[c] = "queued" -> "failed"
                       [] conn[c] = "running" -> "orphan"
                       [] conn[c] = "zombie" -> "done"
                       [] OTHER -> conn[c]
    BY <1>5, Zenon DEF stop
  <2>2. \A c \in Conns :
          Fate(conn'[c]) = IF c \in InState("queued") THEN "failed" ELSE Fate(conn[c])
    BY <2>1, FateFacts DEF InState
  <2>3. \E lost \in SUBSET {c \in Conns : Seen[c] = "waiting"} :
           Seen' = [c \in Conns |-> IF c \in lost THEN "failed" ELSE Seen[c]]
    BY <2>2, SeenLost
  <2>4. Pids' = {}
    BY <1>0, <2>1 DEF InState
  <2>5. ~Up' /\ max_clients' = max_clients
    BY <1>5 DEF stop, Up
  <2>6. (Up /\ ~use_thread)' = FALSE
    BY <1>0, <2>5
  <2>7. Pool!Abandon
    BY <2>3, <2>4, <2>5, <2>6 DEF Pool!Abandon, Seen
  <2> QED
    BY <2>7 DEF PoolStep, Pool!Next
<1> QED
  BY <1>1, <1>2, <1>3, <1>4, <1>5 DEF Owner

LEMMA ReleasePool ==
  ASSUME IInv, IInv', ~use_thread, use_thread' = use_thread, Loop \/ SelectReady \/ join_clients
  PROVE  PoolStep
<1> USE DEF ownerVars, config
<1>0. /\ conn \in [Conns -> ConnStates] /\ conn' \in [Conns -> ConnStates]
      /\ Pids = InState("running") \cup InState("zombie")
      /\ Pids' = InState("running")' \cup InState("zombie")'
      /\ (Up /\ ~use_thread) = Up /\ (Up /\ ~use_thread)' = Up'
      /\ Seen = [c \in Conns |-> Fate(conn[c])]
      /\ Seen' = [c \in Conns |-> Fate(conn'[c])]
  BY ProcessFacts
<1>1. \A c \in Conns :
        /\ conn'[c] = conn[c] \/ (conn[c] = "zombie" /\ conn'[c] = "done")
        /\ Fate(conn'[c]) = Fate(conn[c])
  <2>1. \A c \in Conns : conn'[c] = conn[c] \/ (conn[c] = "zombie" /\ conn'[c] = "done")
    BY <1>0 DEF Loop, SelectReady, join_clients, reap_clients
  <2> QED
    BY <2>1, FateFacts
<1>2. Seen' = Seen
  BY <1>0, <1>1
<1>3. Pids' \in SUBSET Pids /\ \A c \in Pids \ Pids' : Seen[c] = "finished"
  BY <1>0, <1>1, FateFacts DEF InState
<1>4. Up' = Up /\ max_clients' = max_clients
  BY DEF Loop, SelectReady, join_clients, Up
<1>5. Pool!Release
  BY <1>0, <1>2, <1>3, <1>4 DEF Pool!Release, Seen
<1> QED
  BY <1>5 DEF PoolStep, Pool!Next

LEMMA ServerPool ==
  ASSUME IInv, IInv', ~use_thread, use_thread' = use_thread, Bind \/ SelectTimeout \/ SelectFails
  PROVE  PoolStep
<1> USE DEF ownerVars, config
<1>0. /\ conn \in [Conns -> ConnStates] /\ conn' \in [Conns -> ConnStates]
      /\ Pids = InState("running") \cup InState("zombie")
      /\ Pids' = InState("running")' \cup InState("zombie")'
      /\ (Up /\ ~use_thread) = Up /\ (Up /\ ~use_thread)' = Up'
      /\ Seen = [c \in Conns |-> Fate(conn[c])]
      /\ Seen' = [c \in Conns |-> Fate(conn'[c])]
  BY ProcessFacts
<1>1. max_clients' = max_clients /\ clients' = clients /\ Pids' = Pids
  BY DEF Bind, Exits, SelectTimeout, SelectFails, Pids
<1>2. CASE Bind
  <2>1. \A c \in Conns : conn'[c] = conn[c]
    BY <1>0, <1>1, <1>2, IInvFacts DEF Bind, Exits, InState, IInv, ServerKnown
  <2>2. Seen' = Seen
    BY <1>0, <2>1
  <2>3. CASE srv' = "loop"
    <3>1. ~Up /\ Up' /\ max_clients > 0
      BY <1>2, <2>3 DEF Bind, Up, IInv, ServerKnown, Off
    <3>2. (Up /\ ~use_thread) = FALSE /\ (Up /\ ~use_thread)' = TRUE
      BY <1>0, <3>1 DEF Up
    <3>3. Pool!Open
      BY <1>1, <2>2, <3>1, <3>2 DEF Pool!Open, Seen
    <3> QED
      BY <3>3 DEF PoolStep, Pool!Next
  <2>4. CASE srv' = "over"
    <3>1. ~Up /\ ~Up'
      BY <1>2, <2>4 DEF Bind, Up
    <3> QED
      BY <1>0, <1>1, <2>2, <3>1, Unseen
  <2> QED
    BY <1>2, <2>3, <2>4 DEF Bind, Exits
<1>3. CASE SelectTimeout \/ SelectFails
  <2>1. srv = "select" /\ srv' \in {"loop", "join"} /\ Up
    BY <1>3 DEF SelectTimeout, SelectFails, Up
  <2>2. CASE srv' = "loop"
    <3>1. Up' /\ conn' = conn
      BY <1>3, <2>2 DEF SelectTimeout, SelectFails, Up
    <3>2. Seen' = Seen
      BY <1>0, <3>1
    <3> QED
      BY <1>0, <1>1, <2>1, <3>1, <3>2, Unseen
  <2>3. CASE srv' = "join"
    <3>1. \A c \in Conns :
            conn'[c] = IF c \in InState("queued") THEN "failed" ELSE conn[c]
      BY <1>0, <1>3, <2>3 DEF SelectTimeout, SelectFails, InState
    <3>2. \A c \in Conns :
            Fate(conn'[c]) = IF c \in InState("queued") THEN "failed" ELSE Fate(conn[c])
      BY <3>1, FateFacts
    <3>3. \E lost \in SUBSET {c \in Conns : Seen[c] = "waiting"} :
             Seen' = [c \in Conns |-> IF c \in lost THEN "failed" ELSE Seen[c]]
      BY <3>2, SeenLost
    <3>4. ~Up'
      BY <2>3 DEF Up
    <3>5. (Up /\ ~use_thread) = TRUE /\ (Up /\ ~use_thread)' = FALSE
      BY <1>0, <2>1, <3>4 DEF Up
    <3>6. Pool!Close
      BY <1>1, <3>3, <3>5 DEF Pool!Close, Seen
    <3> QED
      BY <3>6 DEF PoolStep, Pool!Next
  <2> QED
    BY <2>1, <2>2, <2>3
<1> QED
  BY <1>2, <1>3

LEMMA AcceptPool ==
  ASSUME IInv, IInv', ~use_thread, use_thread' = use_thread, Accepts \/ accept_fails
  PROVE  PoolStep
<1> USE DEF ownerVars, config
<1>0. /\ conn \in [Conns -> ConnStates] /\ conn' \in [Conns -> ConnStates]
      /\ Pids = InState("running") \cup InState("zombie")
      /\ Pids' = InState("running")' \cup InState("zombie")'
      /\ (Up /\ ~use_thread) = Up /\ (Up /\ ~use_thread)' = Up'
      /\ Seen = [c \in Conns |-> Fate(conn[c])]
      /\ Seen' = [c \in Conns |-> Fate(conn'[c])]
  BY ProcessFacts
<1>1. Up /\ Up' /\ max_clients' = max_clients
  BY DEF Accepts, accept_drop, accept_serve, accept_fails, Up
<1>2. (Up /\ ~use_thread) = TRUE /\ (Up /\ ~use_thread)' = TRUE
  BY <1>0, <1>1 DEF Up
<1>3. Pool!Cardinality(Pids) = Len(clients) /\ Len(clients) \in Nat /\ max_clients \in Nat
  BY PoolCardinality, IInvFacts
<1>4. "queued" \in ConnStates /\ "running" \in ConnStates /\ "dropped" \in ConnStates
      /\ "failed" \in ConnStates
  BY DEF ConnStates
<1>5. ASSUME NEW c \in Conns, accept_drop(c) PROVE PoolStep
  <2>1. conn[c] = "queued" /\ conn' = [conn EXCEPT ![c] = "dropped"] /\ Pids' = Pids
    BY <1>5 DEF accept_drop, Pids
  <2>2. Pool!Becomes(c, Fate("queued"), Fate("dropped"))
    BY <1>4, <2>1, SeenBecomes
  <2>3. Pool!Becomes(c, "waiting", "refused")
    BY <2>2, FateFacts
  <2>4. Pool!Refuse(c)
    BY <1>1, <1>2, <1>3, <1>5, <2>1, <2>3 DEF accept_drop, Pool!Refuse
  <2> QED
    BY <2>4 DEF PoolStep, Pool!Next
<1>6. ASSUME NEW c \in Conns, accept_serve(c) PROVE PoolStep
  <2>1. conn[c] = "queued" /\ conn' = [conn EXCEPT ![c] = "running"]
    BY <1>6 DEF accept_serve
  <2>2. Pool!Becomes(c, Fate("queued"), Fate("running"))
    BY <1>4, <2>1, SeenBecomes
  <2>3. Pool!Becomes(c, "waiting", "served")
    BY <2>2, FateFacts
  <2>4. Pids' = Pids \cup {c}
    BY <1>0, <2>1 DEF InState
  <2>5. Pool!Admit(c)
    BY <1>1, <1>2, <1>3, <1>6, <2>3, <2>4 DEF accept_serve, Pool!Admit
  <2> QED
    BY <2>5 DEF PoolStep, Pool!Next
<1>7. ASSUME accept_fails PROVE PoolStep
  <2>1. Pids' = Pids
    BY <1>7 DEF accept_fails, Pids
  <2>2. CASE conn' = conn
    <3>1. Seen' = Seen
      BY <1>0, <2>2
    <3> QED
      BY <1>2, <1>1, <2>1, <3>1, Unseen
  <2>3. CASE \E c \in InState("queued") : conn' = [conn EXCEPT ![c] = "failed"]
    <3>1. PICK c \in Conns : conn[c] = "queued" /\ conn' = [conn EXCEPT ![c] = "failed"]
      BY <2>3 DEF InState
    <3>2. Pool!Becomes(c, Fate("queued"), Fate("failed"))
      BY <1>4, <3>1, SeenBecomes
    <3>3. Pool!Becomes(c, "waiting", "failed")
      BY <3>2, FateFacts
    <3>4. Pool!Fail(c)
      BY <1>1, <1>2, <2>1, <3>3 DEF Pool!Fail
    <3> QED
      BY <3>4 DEF PoolStep, Pool!Next
  <2> QED
    BY <1>7, <2>2, <2>3 DEF accept_fails
<1> QED
  BY <1>5, <1>6, <1>7 DEF Accepts

LEMMA PeerPool ==
  ASSUME IInv, IInv', ~use_thread, use_thread' = use_thread,
         NEW c \in Conns, Connect(c) \/ HandlerReturns(c)
  PROVE  PoolStep
<1> USE DEF ownerVars, config
<1>0. /\ conn \in [Conns -> ConnStates] /\ conn' \in [Conns -> ConnStates]
      /\ Pids = InState("running") \cup InState("zombie")
      /\ Pids' = InState("running")' \cup InState("zombie")'
      /\ (Up /\ ~use_thread) = Up /\ (Up /\ ~use_thread)' = Up'
      /\ Seen = [d \in Conns |-> Fate(conn[d])]
      /\ Seen' = [d \in Conns |-> Fate(conn'[d])]
  BY ProcessFacts
<1>1. Up' = Up /\ max_clients' = max_clients /\ Pids' = Pids
  BY DEF Connect, HandlerReturns, Up, Pids
<1>2. {"new", "queued", "running", "zombie", "orphan", "done"} \subseteq ConnStates
  BY DEF ConnStates
<1>3. CASE Connect(c)
  <2>1. \A d \in Conns : conn'[d] = conn[d] \/ (conn[d] = "new" /\ conn'[d] = "queued")
    BY <1>0, <1>3 DEF Connect
  <2>2. \A d \in Conns : Fate(conn'[d]) = Fate(conn[d])
    BY <2>1, FateFacts
  <2>3. Seen' = Seen
    BY <1>0, <2>2
  <2> QED
    BY <1>0, <1>1, <2>3, Unseen
<1>4. ASSUME NEW p \in {"running", "orphan"}, NEW q \in {"zombie", "done"},
             conn[c] = p, conn' = [conn EXCEPT ![c] = q]
      PROVE  PoolStep
  <2>1. Pool!Becomes(c, Fate(p), Fate(q))
    BY <1>2, <1>4, SeenBecomes
  <2>2. Fate(p) = "served" /\ Fate(q) = "finished"
    BY FateFacts
  <2>3. Pool!Becomes(c, "served", "finished")
    BY <2>1, <2>2
  <2>4. Pool!Finish(c)
    BY <1>0, <1>1, <2>3 DEF Pool!Finish
  <2> QED
    BY <2>4 DEF PoolStep, Pool!Next
<1>5. CASE HandlerReturns(c)
  <2>1. \/ conn[c] = "running" /\ conn' = [conn EXCEPT ![c] = "zombie"]
        \/ conn[c] = "orphan" /\ conn' = [conn EXCEPT ![c] = "done"]
    BY <1>5 DEF HandlerReturns
  <2> QED
    BY <1>4, <2>1
<1> QED
  BY <1>3, <1>5

LEMMA RefinesPool ==
  ASSUME IInv, IInv', [Next]_vars
  PROVE  PoolStep
<1>1. use_thread' = use_thread
  BY DEF vars, ownerVars, config, Next, Owner, Server, Accepts, set_max_clients, start, fork_fails,
         start_again, stop, exec_returns, Bind, Loop, SelectReady, SelectTimeout, SelectFails,
         accept_drop, accept_serve, accept_fails, join_clients, Connect, HandlerReturns
<1>2. CASE use_thread
  BY <1>2, ThreadPool
<1>3. CASE ~use_thread /\ UNCHANGED vars
  <2>1. Pids' = Pids /\ max_clients' = max_clients /\ Seen' = Seen /\ (Up' <=> Up)
    BY <1>3 DEF vars, ownerVars, config, Pids, Up, Seen
  <2> QED
    BY <1>1, <2>1, Unseen
<1>4. CASE ~use_thread /\ Next
  BY <1>1, <1>4, OwnerPool, ReleasePool, ServerPool, AcceptPool, PeerPool DEF Next, Server
<1> QED
  BY <1>2, <1>3, <1>4 DEF IInv, TypeOK

(* libtcp and libudp implement HandlerPool: at most max_clients handlers    *)
(* are the server's at any time, a peer is turned away only when all of     *)
(* them are busy, and the limit cannot change while the server is open.     *)
THEOREM PoolIsImplemented == ServersSpec => ImplementsPool
<1>1. ServersInit => Pool!Init
  <2> SUFFICES ASSUME ServersInit PROVE Pool!Init
    OBVIOUS
  <2>1. Init /\ Pids = {}
    BY BothInit, InitIInv, IInvFacts DEF Init
  <2>2. (Up /\ ~use_thread) = FALSE
    BY <2>1 DEF Init, Up
  <2>3. Seen = [c \in Conns |-> "waiting"]
    BY <2>1, FateFacts DEF Init, Seen
  <2> QED
    BY <2>1, <2>2, <2>3 DEF Init, Pool!Init, Seen
<1>2. BothInv /\ BothInv' /\ [Either(Next, Udp!Next)]_allVars => [Pool!Next]_(Pool!vars)
  BY BothNext, RefinesPool DEF BothInv, PoolStep
<1> QED
  BY <1>1, <1>2, Invariance, PTL DEF ServersSpec, ImplementsPool, Pool!Spec
=============================================================================
