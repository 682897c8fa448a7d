--------------------------- MODULE TftpWriteProofs ---------------------------
(***************************************************************************)
(* An upload is stored completely and in step with the client, for any      *)
(* number of handlers and blocks and any modulus of the block numbers,      *)
(* whatever UDP loses, repeats and reorders.                                *)
(***************************************************************************)
EXTENDS TftpWrite, TLAPS

-----------------------------------------------------------------------------
(* Block numbers of 16 bits, for any modulus.                              *)

(* The only multiple of M among 0 .. M - 1 is 0.                           *)
LEMMA MultipleBelow ==
  ASSUME NEW M \in Nat \ {0}, NEW q \in Int, NEW d \in Nat, d < M, d = M * q
  PROVE  d = 0
<1>1. CASE q >= 1
  <2>1. M * q >= M
    BY <1>1
  <2> QED
    BY <2>1
<1>2. CASE q <= -1
  <2>1. M * q <= -M
    BY <1>2
  <2> QED
    BY <2>1
<1>3. CASE q = 0
  BY <1>3
<1> QED
  BY <1>1, <1>2, <1>3

(* Two counts less than M apart with the same number on the wire are the   *)
(* same count: what comparing block_num of 16 bits relies on.              *)
LEMMA SameNumber ==
  ASSUME NEW M \in Nat \ {0}, NEW a \in Nat, NEW b \in Nat, a <= b, b - a < M, a % M = b % M
  PROVE  a = b
<1> DEFINE q == b \div M - a \div M
           d == b - a
<1>1. a = M * (a \div M) + (a % M) /\ b = M * (b \div M) + (b % M)
  OBVIOUS
<1>2. a \div M \in Nat /\ b \div M \in Nat /\ a % M \in Nat
  OBVIOUS
<1>3. d = M * q /\ q \in Int /\ d \in Nat /\ d < M
  BY <1>1, <1>2
<1>4. d = 0
  <2> HIDE DEF q, d
  <2> QED
    BY <1>3, MultipleBelow
<1> QED
  BY <1>4

-----------------------------------------------------------------------------
(* The inductive invariant.                                                *)

Idle == {"none", "exists", "open", "aborted"}

WriteTypeOK ==
  /\ spc \in [Handlers -> Idle \cup {"wait", "gaveUp", "stopped", "finished"}]
  /\ block \in [Handlers -> Nat \ {0}]
  /\ held \in [Handlers -> SUBSET Nat]
  /\ ssGood \in [Handlers -> BOOLEAN]
  /\ fileGood \in [Handlers -> BOOLEAN]
  /\ cpc \in {"request", "run", "done", "gone"}
  /\ tid \in Handlers \cup {NoHandler}
  /\ acked \in Nat

\* Has handler h opened the file?
Began(h) == spc[h] \notin Idle

\* How many blocks handler h has received.
Top(h) == IF spc[h] = "finished" THEN block[h] ELSE block[h] - 1

FromHandler(p) ==
  \E h \in Handlers :
    \/ p = ERROR(h)
    \/ Began(h) /\ \E k \in 0 .. Top(h) : p = ACK(h, k)

FromClient(p) ==
  /\ tid \in Handlers
  /\ p = ERROR(tid) \/ \E k \in 1 .. Blocks : k <= acked + 1 /\ p = DATA(tid, k)

(* What is under way was really sent: ACKs of blocks that a handler has    *)
(* received, and blocks the client may send to the handler it talks to.    *)
PacketsGenuine ==
  /\ \A p \in toClient : FromHandler(p)
  /\ \A p \in toServer : FromClient(p)

(* The client is at most one block behind the handler it talks to, and no  *)
(* other handler ever receives a block.                                    *)
Counts ==
  /\ tid \in Handlers => Began(tid) /\ acked <= Top(tid) /\ Top(tid) <= acked + 1
  /\ tid = NoHandler => cpc \in {"request", "gone"} /\ acked = 0
  /\ cpc = "request" => tid = NoHandler
  /\ IF cpc = "done" THEN acked = Blocks ELSE acked < Blocks
  /\ \A h \in Handlers : /\ block[h] <= Blocks
                         /\ spc[h] = "finished" => block[h] = Blocks
                         /\ h # tid => Top(h) = 0

\* The blocks in S are the first of the upload, n of them at most.
Prefix(S, n) == \E k \in 0 .. n : S \ {Junk} = 1 .. k

(* As long as only one handler has opened the file, there are no gaps in   *)
(* it and none between it and what is held; and until one of the two       *)
(* streams fails, every block received is held or in the file.  The string *)
(* stream of a transfer in octet mode never fails.                         *)
PiecesKept ==
  \A h \in Handlers :
    /\ spc[h] # "wait" => held[h] = {}
    /\ mode = "octet" => ssGood[h]
    /\ OnlyWriter(h) => Prefix(file, Top(h)) /\ Prefix(held[h] \cup file, Top(h))
    /\ OnlyWriter(h) /\ Intact(h) => held[h] \cup file = 1 .. Top(h)

IInv == WriteTypeOK /\ PacketsGenuine /\ Counts /\ PiecesKept

LEMMA InitIInv == Init => IInv
<1> SUFFICES ASSUME Init PROVE IInv
  OBVIOUS
<1>1. WriteTypeOK
  BY DEF Init, WriteTypeOK, Idle
<1>2. \A h \in Handlers : Top(h) = 0 /\ Received(h) = {} /\ held[h] = {} /\ spc[h] = "none"
  BY DEF Init, Top, Received
<1>3. PiecesKept
  <2>1. {} \ {Junk} = 1 .. 0 /\ {} \cup {} = 1 .. 0 /\ 0 \in 0 .. 0
    OBVIOUS
  <2>2. Prefix({}, 0) /\ Prefix({} \cup {}, 0)
    BY <2>1 DEF Prefix
  <2> QED
    BY <1>2, <2>1, <2>2 DEF Init, PiecesKept
<1> QED
  BY <1>1, <1>2, <1>3, HandlersAssumption, BlocksAssumption
  DEF Init, IInv, PacketsGenuine, Counts

LEMMA TopFacts ==
  ASSUME WriteTypeOK, NEW h \in Handlers
  PROVE  Top(h) \in Nat /\ Received(h) = 1 .. Top(h)
BY DEF WriteTypeOK, Top, Received

LEMMA PacketFields ==
  ASSUME NEW h, NEW k
  PROVE  /\ ACK(h, k).op = "ACK" /\ ACK(h, k).h = h
         /\ ACK(h, k).num = k % BlockMod /\ ACK(h, k).count = k
         /\ DATA(h, k).op = "DATA" /\ DATA(h, k).h = h
         /\ DATA(h, k).num = k % BlockMod /\ DATA(h, k).count = k
         /\ ERROR(h).op = "ERROR" /\ ERROR(h).h = h
BY DEF ACK, DATA, ERROR

(* A packet that was really sent stays so: handlers never receive less,    *)
(* and the client never knows less.                                        *)
LEMMA PacketsStay ==
  ASSUME WriteTypeOK, WriteTypeOK', PacketsGenuine,
         \A h \in Handlers : Top(h) <= Top(h)' /\ (Began(h) => Began(h)'),
         acked' \in {acked, acked + 1}, tid \in Handlers => tid' = tid,
         \A p \in toClient' : p \in toClient \/ FromHandler(p)',
         \A p \in toServer' : p \in toServer \/ FromClient(p)'
  PROVE  PacketsGenuine'
<1>1. ASSUME NEW p, FromHandler(p) PROVE FromHandler(p)'
  <2>1. PICK h \in Handlers : p = ERROR(h) \/ (Began(h) /\ \E k \in 0 .. Top(h) : p = ACK(h, k))
    BY <1>1 DEF FromHandler
  <2>2. CASE p = ERROR(h)
    BY <2>2 DEF FromHandler, ERROR
  <2>3. CASE Began(h) /\ \E k \in 0 .. Top(h) : p = ACK(h, k)
    <3>1. PICK k \in 0 .. Top(h) : p = ACK(h, k)
      BY <2>3
    <3>2. k \in 0 .. Top(h)' /\ Began(h)'
      BY <2>3, TopFacts DEF WriteTypeOK, Top
    <3> QED
      BY <3>1, <3>2 DEF FromHandler, ACK
  <2> QED
    BY <2>1, <2>2, <2>3
<1>2. ASSUME NEW p, FromClient(p) PROVE FromClient(p)'
  <2>1. tid' = tid /\ tid \in Handlers
    BY <1>2 DEF FromClient
  <2>2. \A k \in 1 .. Blocks : k <= acked + 1 => k <= acked' + 1
    <3>1. Blocks \in Nat /\ acked \in Nat
      BY BlocksAssumption DEF WriteTypeOK
    <3>2. CASE acked' = acked
      BY <3>2
    <3>3. CASE acked' = acked + 1
      BY <3>1, <3>3
    <3> QED
      BY <3>2, <3>3
  <2> QED
    BY <1>2, <2>1, <2>2 DEF FromClient, ERROR, DATA
<1> QED
  BY <1>1, <1>2 DEF PacketsGenuine

-----------------------------------------------------------------------------
(* Steps of a handler that receive no new block.                           *)

\* Handler h had these pieces in hand: it holds them, or they are in the
\* file, or the ofstream has failed and they are lost.
Placed(h, pieces) ==
  \/ held' = [held EXCEPT ![h] = pieces] /\ UNCHANGED <<file, fileGood>>
  \/ held' = [held EXCEPT ![h] = {}] /\ file' = file \cup pieces /\ UNCHANGED fileGood
  \/ /\ held' = [held EXCEPT ![h] = {}]
     /\ UNCHANGED file
     /\ fileGood' = [fileGood EXCEPT ![h] = FALSE]

LEMMA PlacedKeeps ==
  ASSUME WriteTypeOK, NEW h \in Handlers, NEW pieces \in SUBSET Nat, NEW n \in Nat,
         Prefix(file, n), Prefix(pieces \cup file, n), Placed(h, pieces)
  PROVE  /\ Prefix(file', n) /\ Prefix(held'[h] \cup file', n)
         /\ fileGood'[h] /\ pieces \cup file = 1 .. n => held'[h] \cup file' = 1 .. n
<1>1. CASE held' = [held EXCEPT ![h] = pieces] /\ UNCHANGED <<file, fileGood>>
  <2>1. held'[h] = pieces
    BY <1>1 DEF WriteTypeOK
  <2> QED
    BY <1>1, <2>1
<1>2. CASE held' = [held EXCEPT ![h] = {}] /\ file' = file \cup pieces /\ UNCHANGED fileGood
  <2>1. file' = pieces \cup file /\ held'[h] \cup file' = pieces \cup file
    BY <1>2 DEF WriteTypeOK
  <2> QED
    BY <2>1
<1>3. CASE /\ held' = [held EXCEPT ![h] = {}]
           /\ UNCHANGED file
           /\ fileGood' = [fileGood EXCEPT ![h] = FALSE]
  <2>1. held'[h] \cup file' = file /\ ~fileGood'[h]
    BY <1>3 DEF WriteTypeOK
  <2> QED
    BY <1>3, <2>1
<1> QED
  BY <1>1, <1>2, <1>3 DEF Placed

LEMMA PlacedTypes ==
  ASSUME WriteTypeOK, NEW h \in Handlers, NEW pieces \in SUBSET Nat, Placed(h, pieces)
  PROVE  /\ held' \in [Handlers -> SUBSET Nat] /\ fileGood' \in [Handlers -> BOOLEAN]
         /\ \A g \in Handlers \ {h} : held'[g] = held[g] /\ fileGood'[g] = fileGood[g]
         /\ fileGood'[h] => fileGood[h]
BY DEF WriteTypeOK, Placed

(* What is written to the ofstream is placed.                              *)
LEMMA WriteFilePlaces ==
  ASSUME WriteTypeOK, NEW h \in Handlers, NEW pieces \in SUBSET Nat,
         WriteFile(h, pieces, {}) \/ Flush(h, pieces)
  PROVE  Placed(h, pieces)
<1>1. ASSUME NEW out \in {{}, pieces}, WriteFile(h, out, pieces \ out) PROVE Placed(h, pieces)
  BY <1>1 DEF WriteFile, Placed
<1> QED
  BY <1>1 DEF WriteFile, Placed, Flush

\* What handler h holds stays where it is, goes to the file, or the file is
\* opened or cannot be.
KeepsPieces(h, how) ==
  \/ UNCHANGED <<held, file, fileGood>> /\ (how = "wait" \/ spc[h] # "wait")
  \/ how \notin Idle \cup {"wait"} /\ WriteFile(h, held[h], {})
  \/ /\ spc[h] = "open" /\ how = "wait" /\ held' = held
     /\ \/ file' = {} /\ UNCHANGED fileGood
        \/ file' = file /\ fileGood' = [fileGood EXCEPT ![h] = FALSE]

LEMMA QuietStep ==
  ASSUME IInv, NEW h \in Handlers, NEW how \in Idle \cup {"wait", "gaveUp", "stopped"},
         spc[h] # "finished", spc' = [spc EXCEPT ![h] = how], block' = block,
         Began(h) => how \notin Idle, KeepsPieces(h, how), UNCHANGED <<ssGood, mode>>,
         UNCHANGED clientVars, toServer' \subseteq toServer,
         \A p \in toClient' : \/ p \in toClient \/ p = ERROR(h)
                              \/ how \notin Idle /\ p = ACK(h, block[h] - 1)
  PROVE  IInv'
<1>0. WriteTypeOK
  BY DEF IInv
<1>1. WriteTypeOK'
  <2>1. held' \in [Handlers -> SUBSET Nat] /\ fileGood' \in [Handlers -> BOOLEAN]
    BY <1>0 DEF WriteTypeOK, KeepsPieces, WriteFile
  <2> QED
    BY <1>0, <2>1 DEF WriteTypeOK, clientVars, Idle
<1>2. \A g \in Handlers : /\ Top(g)' = Top(g)
                          /\ Began(g) => Began(g)'
                          /\ spc'[g] = "finished" <=> spc[g] = "finished"
  BY <1>0 DEF WriteTypeOK, Top, Began, Idle
<1>3. PacketsGenuine'
  <2>1. Top(h) = block[h] - 1 /\ Top(h) \in 0 .. Top(h)'
    BY <1>0, <1>2, TopFacts DEF Top
  <2>2. how \notin Idle => Began(h)'
    BY <1>0 DEF WriteTypeOK, Began
  <2>3. ASSUME NEW p, p = ERROR(h) \/ (how \notin Idle /\ p = ACK(h, block[h] - 1))
        PROVE  FromHandler(p)'
    <3>1. CASE p = ERROR(h)
      BY <3>1 DEF FromHandler, ERROR
    <3>2. CASE how \notin Idle /\ \E k \in 0 .. Top(h)' : p = ACK(h, k)
      BY <2>2, <3>2 DEF FromHandler, ACK
    <3> QED
      BY <2>1, <2>3, <3>1, <3>2
  <2>4. \A p \in toClient' : p \in toClient \/ FromHandler(p)'
    BY <2>3
  <2>5. \A g \in Handlers : Top(g) <= Top(g)' /\ (Began(g) => Began(g)')
    BY <1>0, <1>2, TopFacts
  <2> QED
    BY <1>0, <1>1, <2>4, <2>5, PacketsStay DEF IInv, WriteTypeOK, clientVars
<1>4. Counts'
  BY <1>2 DEF IInv, Counts, clientVars
<1>5. PiecesKept'
  <2>0. /\ \A g \in Handlers : OnlyWriter(g)' => OnlyWriter(g)
        /\ how \notin Idle => \A g \in Handlers \ {h} : ~OnlyWriter(g)'
        /\ spc'[h] = how /\ \A g \in Handlers \ {h} : spc'[g] = spc[g]
    BY <1>0 DEF WriteTypeOK, OnlyWriter, Began, Idle
  <2>1. CASE UNCHANGED <<held, file, fileGood>> /\ (how = "wait" \/ spc[h] # "wait")
    BY <1>2, <2>0, <2>1 DEF IInv, PiecesKept, Intact
  <2>2. CASE how \notin Idle \cup {"wait"} /\ WriteFile(h, held[h], {})
    <3>1. held[h] \in SUBSET Nat /\ Top(h) \in Nat
      BY <1>0, TopFacts DEF WriteTypeOK
    <3>2. Placed(h, held[h])
      BY <1>0, <2>2, <3>1, WriteFilePlaces
    <3>3. held'[h] = {} /\ \A g \in Handlers \ {h} : held'[g] = held[g]
      BY <1>0, <2>2 DEF WriteTypeOK, WriteFile
    <3>4. OnlyWriter(h) =>
            /\ Prefix(file', Top(h)) /\ Prefix(held'[h] \cup file', Top(h))
            /\ fileGood'[h] /\ held[h] \cup file = 1 .. Top(h) =>
                 held'[h] \cup file' = 1 .. Top(h)
      BY <1>0, <3>1, <3>2, PlacedKeeps DEF IInv, PiecesKept
    <3>5. fileGood'[h] => fileGood[h]
      BY <1>0, <3>1, <3>2, PlacedTypes
    <3>6. OnlyWriter(h) /\ Intact(h) => held[h] \cup file = 1 .. Top(h)
      BY DEF IInv, PiecesKept
    <3>7. /\ OnlyWriter(h)' => Prefix(file', Top(h)') /\ Prefix(held'[h] \cup file', Top(h)')
          /\ OnlyWriter(h)' /\ Intact(h)' => held'[h] \cup file' = 1 .. Top(h)'
      BY <1>2, <2>0, <3>4, <3>5, <3>6 DEF Intact
    <3>8. \A g \in Handlers : /\ spc'[g] # "wait" => held'[g] = {}
                              /\ mode' = "octet" => ssGood'[g]
      BY <2>0, <3>3 DEF IInv, PiecesKept
    <3> QED
      BY <2>0, <2>2, <3>7, <3>8 DEF PiecesKept
  <2>3. CASE /\ spc[h] = "open" /\ how = "wait" /\ held' = held
             /\ \/ file' = {} /\ UNCHANGED fileGood
                \/ file' = file /\ fileGood' = [fileGood EXCEPT ![h] = FALSE]
    <3>1. h # tid /\ spc[h] # "wait" /\ how \notin Idle
      BY <2>3 DEF IInv, Counts, Began, Idle
    <3>2. Top(h) = 0 /\ held[h] = {} /\ Top(h)' = 0
      BY <1>2, <3>1 DEF IInv, Counts, PiecesKept
    <3>3. \A g \in Handlers : spc'[g] # "wait" => held'[g] = {}
      BY <2>0, <2>3 DEF IInv, PiecesKept
    <3>4. CASE file' = {} /\ UNCHANGED fileGood
      <4>1. file' \ {Junk} = 1 .. 0 /\ held'[h] \cup file' = file' /\ file' = 1 .. 0
        BY <2>3, <3>2, <3>4
      <4>2. Prefix(file', 0) /\ Prefix(held'[h] \cup file', 0)
        BY <4>1 DEF Prefix
      <4> QED
        BY <2>0, <3>1, <3>2, <3>3, <4>1, <4>2 DEF IInv, PiecesKept
    <3>5. CASE file' = file /\ fileGood' = [fileGood EXCEPT ![h] = FALSE]
      <4>1. ~Intact(h)'
        BY <1>0, <3>5 DEF WriteTypeOK, Intact
      <4> QED
        BY <1>2, <2>0, <2>3, <3>1, <3>3, <3>5, <4>1 DEF IInv, PiecesKept
    <3> QED
      BY <2>3, <3>4, <3>5
  <2> QED
    BY <2>1, <2>2, <2>3 DEF KeepsPieces
<1> QED
  BY <1>1, <1>3, <1>4, <1>5 DEF IInv

LEMMA QuietActions ==
  ASSUME IInv, NEW h \in Handlers, Check(h) \/ Open(h) \/ Timeout(h) \/ SelectFails(h)
  PROVE  IInv'
<1> USE DEF KeepsPieces, Send, Return, fileVars, Idle, Began
<1>0. WriteTypeOK /\ spc = [spc EXCEPT ![h] = spc[h]]
  BY DEF IInv, WriteTypeOK
<1>1. CASE Check(h)
  <2>1. PICK how \in {"exists", "open", "aborted"} : spc' = [spc EXCEPT ![h] = how]
    BY <1>1 DEF Check
  <2> QED
    BY <1>1, <2>1, QuietStep DEF Check
<1>2. CASE Open(h)
  <2>1. block[h] - 1 = 0
    <3>1. h # tid /\ Top(h) = block[h] - 1
      BY <1>2 DEF Open, IInv, Counts, Top
    <3> QED
      BY <3>1 DEF IInv, Counts
  <2>2. PICK how \in {"wait"} : spc' = [spc EXCEPT ![h] = how]
    BY <1>2 DEF Open
  <2>3. \A p \in toClient' : p \in toClient \/ p = ACK(h, block[h] - 1)
    BY <1>2, <2>1 DEF Open
  <2> QED
    BY <1>2, <2>2, <2>3, QuietStep DEF Open
<1>3. CASE Timeout(h)
  <2>1. CASE UNCHANGED <<spc, held, fileGood, fileVars>>
    <3>1. PICK how \in {"wait"} : spc' = [spc EXCEPT ![h] = how]
      BY <1>0, <1>3, <2>1 DEF Timeout
    <3> QED
      BY <1>3, <2>1, <3>1, QuietStep DEF Timeout
  <2>2. CASE Return(h, "gaveUp", held[h])
    <3>1. PICK how \in {"gaveUp"} : spc' = [spc EXCEPT ![h] = how]
      BY <2>2
    <3> QED
      BY <1>3, <2>2, <3>1, QuietStep DEF Timeout
  <2> QED
    BY <1>3, <2>1, <2>2 DEF Timeout
<1>4. CASE SelectFails(h)
  <2>1. PICK how \in {"stopped"} : spc' = [spc EXCEPT ![h] = how]
    BY <1>4 DEF SelectFails
  <2> QED
    BY <1>4, <2>1, QuietStep DEF SelectFails
<1> QED
  BY <1>1, <1>2, <1>3, <1>4

-----------------------------------------------------------------------------
(* Packets that a handler receives.                                        *)

(* A block with the number the handler waits for is the block it waits for.*)
LEMMA StoreStep ==
  ASSUME IInv, NEW p \in toServer, Alive(p, block[p.h]), spc[p.h] = "wait", Store(p.h, p),
         UNCHANGED <<mode, clientVars>>, toServer' \subseteq toServer
  PROVE  IInv'
<1>0. WriteTypeOK /\ BlockMod \in Nat \ {0} /\ Blocks \in Nat \ {0}
  BY BlocksAssumption DEF IInv
<1>1. PICK t \in Handlers, k \in 1 .. Blocks : t = tid /\ k <= acked + 1 /\ p = DATA(t, k)
  BY PacketFields DEF Store, IInv, PacketsGenuine, FromClient
<1>2. /\ p.h = t /\ tid' = t /\ p.count = k /\ block[t] - k < BlockMod
      /\ k % BlockMod = block[t] % BlockMod
  BY <1>1, PacketFields DEF Store, Alive, clientVars
<1>3. /\ k \in Nat /\ block[t] \in Nat /\ acked \in Nat /\ Top(t) = block[t] - 1
      /\ spc[t] = "wait"
  BY <1>0, <1>1, <1>2 DEF WriteTypeOK, Top
<1>4. k <= block[t]
  BY <1>1, <1>3 DEF IInv, Counts
<1>5. k = block[t]
  BY <1>0, <1>2, <1>3, <1>4, SameNumber
<1>6. PICK pieces \in {Written(t, p), Written(t, p) \cup {Junk}} :
        /\ toClient' = toClient \cup {ACK(t, k)}
        /\ Flush(t, pieces) \/ WriteFile(t, pieces, {})
        /\ \/ UNCHANGED ssGood /\ pieces = Written(t, p)
           \/ mode = "netascii" /\ ssGood' = [ssGood EXCEPT ![t] = FALSE]
        /\ \/ block' = [block EXCEPT ![t] = @ + 1] /\ k < Blocks /\ spc' = spc
           \/ /\ k = Blocks /\ spc' = [spc EXCEPT ![t] = "finished"] /\ block' = block
              /\ WriteFile(t, pieces, {})
  <2>1. Written(t, p) \cup {} = Written(t, p)
    OBVIOUS
  <2>2. toClient' = toClient \cup {ACK(t, k)}
    BY <1>2, <1>5 DEF Store, Send
  <2>3. CASE block' = [block EXCEPT ![t] = @ + 1] /\ k < Blocks /\ spc' = spc
    <3>1. (Flush(t, Written(t, p)) /\ UNCHANGED ssGood) \/ StreamFails(t, p)
      BY <1>2, <2>3 DEF Store
    <3> QED
      BY <2>1, <2>2, <2>3, <3>1 DEF StreamFails
  <2>4. CASE k = Blocks /\ Return(t, "finished", Written(t, p)) /\ UNCHANGED <<block, ssGood>>
    BY <2>2, <2>4 DEF Return
  <2> QED
    BY <1>2, <2>3, <2>4 DEF Store
<1>7. /\ pieces \in SUBSET Nat
      /\ OnlyWriter(t) => Prefix(file, k) /\ Prefix(pieces \cup file, k)
      /\ OnlyWriter(t) /\ Intact(t) /\ UNCHANGED ssGood => pieces \cup file = 1 .. k
  <2>1. Top(t) \in 0 .. k /\ Top(t) = k - 1 /\ k \in 0 .. k
    BY <1>0, <1>3, <1>5, TopFacts
  <2>2. ASSUME NEW S, Prefix(S, Top(t)) PROVE Prefix(S, k)
    BY <2>1, <2>2 DEF Prefix
  <2>3. OnlyWriter(t) => Prefix(file, k) /\ Prefix(held[t] \cup file, k)
    BY <2>2 DEF IInv, PiecesKept
  <2>4. (pieces \cup file) \ {Junk} = (Written(t, p) \cup file) \ {Junk}
    OBVIOUS
  <2>5. CASE Intact(t)
    <3>1. Written(t, p) = held[t] \cup {k} /\ held[t] \in SUBSET Nat
      BY <1>0, <1>2, <2>5 DEF Written, WriteTypeOK
    <3>2. OnlyWriter(t) => Written(t, p) \cup file = 1 .. k
      <4>1. OnlyWriter(t) => held[t] \cup file = 1 .. (k - 1)
        BY <2>1, <2>5 DEF IInv, PiecesKept
      <4> QED
        BY <1>3, <3>1, <4>1
    <3>3. (1 .. k) \ {Junk} = 1 .. k
      BY <1>3 DEF Junk
    <3>4. OnlyWriter(t) => Prefix(pieces \cup file, k)
      BY <2>1, <2>4, <3>2, <3>3 DEF Prefix
    <3>5. pieces \in SUBSET Nat
      BY <1>6, <1>3, <3>1 DEF Junk
    <3>6. UNCHANGED ssGood => pieces = Written(t, p)
      BY <1>0, <1>6, <2>5 DEF WriteTypeOK, Intact
    <3> QED
      BY <2>3, <3>2, <3>4, <3>5, <3>6
  <2>6. CASE ~Intact(t)
    <3>1. Written(t, p) = held[t] /\ held[t] \in SUBSET Nat
      BY <1>0, <2>6 DEF Written, WriteTypeOK
    <3>2. pieces \in SUBSET Nat
      BY <1>6, <3>1 DEF Junk
    <3>3. OnlyWriter(t) => Prefix(pieces \cup file, k)
      BY <2>3, <2>4, <3>1 DEF Prefix
    <3> QED
      BY <2>3, <2>6, <3>2, <3>3
  <2> QED
    BY <2>5, <2>6
<1>8. WriteTypeOK' /\ Placed(t, pieces)
  <2>1. Placed(t, pieces)
    BY <1>0, <1>6, <1>7, WriteFilePlaces
  <2>2. block' \in [Handlers -> Nat \ {0}]
    BY <1>0, <1>1, <1>6 DEF WriteTypeOK
  <2>3. ssGood' \in [Handlers -> BOOLEAN]
    BY <1>0, <1>6 DEF WriteTypeOK
  <2>4. held' \in [Handlers -> SUBSET Nat] /\ fileGood' \in [Handlers -> BOOLEAN]
    BY <1>0, <1>7, <2>1, PlacedTypes
  <2> QED
    BY <1>0, <1>1, <1>6, <2>1, <2>2, <2>3, <2>4 DEF WriteTypeOK, clientVars
<1>9. /\ Top(t)' = k /\ Began(t)' /\ Began(t)
      /\ \A h \in Handlers \ {t} : Top(h)' = Top(h) /\ (Began(h)' <=> Began(h))
  BY <1>0, <1>1, <1>3, <1>5, <1>6 DEF WriteTypeOK, Top, Began, Idle, clientVars
<1>10. PacketsGenuine'
  <2>1. \A h \in Handlers : Top(h) <= Top(h)' /\ (Began(h) => Began(h)')
    BY <1>0, <1>3, <1>5, <1>9, TopFacts
  <2>2. k \in 0 .. Top(t)'
    BY <1>3, <1>9
  <2>3. ASSUME NEW q, q = ACK(t, k) PROVE FromHandler(q)'
    BY <1>9, <2>2, <2>3 DEF FromHandler, ACK
  <2> QED
    BY <1>0, <1>6, <1>8, <2>1, <2>3, PacketsStay DEF IInv, WriteTypeOK, clientVars
<1>11. Counts'
  <2>1. \A h \in Handlers : block'[h] <= Blocks /\ (spc'[h] = "finished" => block'[h] = Blocks)
    BY <1>0, <1>1, <1>3, <1>5, <1>6 DEF IInv, Counts, WriteTypeOK
  <2>2. acked <= k
    BY <1>1, <1>3, <1>5 DEF IInv, Counts
  <2> QED
    BY <1>1, <1>2, <1>3, <1>9, <2>1, <2>2 DEF IInv, Counts, clientVars
<1>12. PiecesKept'
  <2>1. /\ \A h \in Handlers : OnlyWriter(h)' => OnlyWriter(h)
        /\ \A h \in Handlers \ {t} : ~OnlyWriter(h)' /\ spc'[h] = spc[h]
    BY <1>0, <1>1, <1>3, <1>6 DEF OnlyWriter, WriteTypeOK
  <2>2. /\ \A h \in Handlers \ {t} : held'[h] = held[h]
        /\ fileGood'[t] => fileGood[t]
    BY <1>0, <1>7, <1>8, PlacedTypes
  <2>3. OnlyWriter(t) =>
          /\ Prefix(file', k) /\ Prefix(held'[t] \cup file', k)
          /\ fileGood'[t] /\ pieces \cup file = 1 .. k => held'[t] \cup file' = 1 .. k
    BY <1>0, <1>3, <1>7, <1>8, PlacedKeeps
  <2>4. Intact(t)' => Intact(t) /\ UNCHANGED ssGood
    BY <1>0, <1>6, <2>2 DEF WriteTypeOK, Intact
  <2>5. spc'[t] # "wait" => held'[t] = {}
    BY <1>0, <1>1, <1>3, <1>6 DEF WriteTypeOK, WriteFile
  <2>6. ASSUME mode' = "octet", NEW h \in Handlers PROVE ssGood'[h]
    <3>1. mode = "octet" /\ UNCHANGED ssGood
      BY <1>6, <2>6
    <3> QED
      BY <3>1 DEF IInv, PiecesKept
  <2>7. /\ OnlyWriter(t)' => /\ Prefix(file', Top(t)')
                             /\ Prefix(held'[t] \cup file', Top(t)')
        /\ OnlyWriter(t)' /\ Intact(t)' => held'[t] \cup file' = 1 .. Top(t)'
    BY <1>7, <1>9, <2>1, <2>2, <2>3, <2>4 DEF Intact
  <2>8. \A h \in Handlers : spc'[h] # "wait" => held'[h] = {}
    BY <2>1, <2>2, <2>5 DEF IInv, PiecesKept
  <2> QED
    BY <2>1, <2>6, <2>7, <2>8 DEF PiecesKept
<1> QED
  BY <1>8, <1>10, <1>11, <1>12 DEF IInv

LEMMA HandlerReceiveStep ==
  ASSUME IInv, NEW p \in toServer, Alive(p, block[p.h]), NEW rest \in SUBSET toServer,
         HandlerReceive(p, rest)
  PROVE  IInv'
<1> USE DEF KeepsPieces, Send, Return, fileVars, Idle, Began
<1>0. /\ p.h \in Handlers /\ spc[p.h] = "wait"
      /\ UNCHANGED <<mode, clientVars>> /\ toServer' \subseteq toServer
      /\ spc = [spc EXCEPT ![p.h] = spc[p.h]]
  BY PacketFields DEF HandlerReceive, IInv, WriteTypeOK, PacketsGenuine, FromClient
<1>1. CASE NotData(p.h, p)
  BY <1>0, <1>1, QuietStep DEF NotData
<1>2. CASE Repeated(p.h, p)
  BY <1>0, <1>2, QuietStep DEF Repeated
<1>3. CASE Store(p.h, p)
  BY <1>0, <1>3, StoreStep
<1> QED
  BY <1>1, <1>2, <1>3 DEF HandlerReceive

LEMMA ReadFailsStep ==
  ASSUME IInv, NEW p \in toClient, ReadFails(p)
  PROVE  IInv'
<1> USE DEF KeepsPieces, Send, Return, fileVars, Idle, Began
<1>0. /\ p.h \in Handlers /\ spc[p.h] = "wait" /\ UNCHANGED clientVars /\ toServer' \subseteq toServer
      /\ spc = [spc EXCEPT ![p.h] = spc[p.h]]
  BY PacketFields DEF ReadFails, IInv, WriteTypeOK, PacketsGenuine, FromHandler
<1>1. CASE Return(p.h, "stopped", held[p.h]) /\ toClient' = toClient \ {p}
  BY <1>0, <1>1, QuietStep DEF ReadFails
<1>2. CASE /\ toClient' = (toClient \ {p}) \cup {ACK(p.h, block[p.h] - 1)}
           /\ UNCHANGED <<spc, held, fileGood, fileVars>>
  BY <1>0, <1>2, QuietStep DEF ReadFails
<1> QED
  BY <1>1, <1>2 DEF ReadFails

-----------------------------------------------------------------------------
(* Steps of the client and of UDP.                                         *)

LEMMA HandlersKept ==
  ASSUME UNCHANGED <<handlerVars, fileVars>>
  PROVE  /\ \A h : Top(h)' = Top(h) /\ (Began(h)' <=> Began(h))
         /\ UNCHANGED <<spc, block, held, ssGood, fileGood>>
         /\ PiecesKept => PiecesKept'
BY DEF handlerVars, fileVars, Top, Began, OnlyWriter, Intact, PiecesKept

LEMMA ClientReceiveStep ==
  ASSUME IInv, NEW p \in toClient, Alive(p, acked + 1), NEW rest \in SUBSET toClient,
         ClientReceive(p, rest)
  PROVE  IInv'
<1>0. /\ WriteTypeOK /\ BlockMod \in Nat \ {0} /\ Blocks \in Nat \ {0} /\ acked \in Nat
      /\ NoHandler \notin Handlers
  BY BlocksAssumption, HandlersAssumption DEF IInv, WriteTypeOK
<1>1. /\ UNCHANGED <<spc, block, held, ssGood, fileGood>> /\ PiecesKept' /\ toClient' \subseteq toClient
      /\ \A h : Top(h)' = Top(h) /\ (Began(h)' <=> Began(h))
  BY HandlersKept DEF ClientReceive, IInv
<1>2. \A h \in Handlers : Top(h) <= Top(h)' /\ (Began(h) => Began(h)')
  BY <1>0, <1>1, TopFacts
<1>3. CASE cpc = "request" /\ p.op = "ERROR" /\ cpc' = "gone" /\ UNCHANGED <<tid, acked, toServer>>
  <2>1. WriteTypeOK'
    BY <1>0, <1>1, <1>3 DEF WriteTypeOK
  <2>2. PacketsGenuine'
    BY <1>0, <1>1, <1>2, <1>3, <2>1, PacketsStay DEF IInv
  <2> QED
    BY <1>0, <1>1, <1>3, <2>1, <2>2 DEF IInv, Counts
<1>4. CASE /\ cpc = "request" /\ p.op = "ACK" /\ cpc' = "run" /\ tid' = p.h
           /\ toServer' = toServer \cup {DATA(p.h, 1)} /\ acked' = acked
  <2>1. PICK h \in Handlers : Began(h) /\ p.h = h
    BY <1>4, PacketFields DEF IInv, PacketsGenuine, FromHandler
  <2>2. tid = NoHandler /\ acked = 0 /\ \A g \in Handlers : Top(g) = 0
    BY <1>0, <1>4 DEF IInv, Counts
  <2>3. WriteTypeOK'
    BY <1>0, <1>1, <1>4, <2>1 DEF WriteTypeOK
  <2>4. ASSUME NEW q, q = DATA(p.h, 1) PROVE FromClient(q)'
    BY <1>0, <1>4, <2>1, <2>2, <2>4 DEF FromClient, DATA
  <2>5. PacketsGenuine'
    BY <1>0, <1>1, <1>2, <1>4, <2>2, <2>3, <2>4, PacketsStay DEF IInv
  <2>6. Counts'
    BY <1>0, <1>1, <1>4, <2>1, <2>2 DEF IInv, Counts
  <2> QED
    BY <1>1, <2>3, <2>5, <2>6 DEF IInv
<1>5. CASE /\ cpc = "run" /\ p.op = "ACK" /\ p.h = tid /\ p.num = (acked + 1) % BlockMod
           /\ acked' = acked + 1
           /\ \/ acked + 1 = Blocks /\ cpc' = "done" /\ toServer' = toServer
              \/ acked + 1 < Blocks /\ toServer' = toServer \cup {DATA(tid, acked + 2)} /\ cpc' = cpc
           /\ tid' = tid
  <2>1. tid \in Handlers
    BY <1>0, <1>5 DEF IInv, Counts, WriteTypeOK
  <2>2. PICK k \in 0 .. Top(tid) : p = ACK(tid, k)
    BY <1>5, PacketFields DEF IInv, PacketsGenuine, FromHandler
  <2>3. k % BlockMod = (acked + 1) % BlockMod /\ (acked + 1) - k < BlockMod
    BY <1>5, <2>2, PacketFields DEF Alive
  <2>4. k \in Nat /\ k <= acked + 1 /\ Top(tid) \in Nat /\ acked + 1 \in Nat
    BY <1>0, <2>1, <2>2, TopFacts DEF IInv, Counts
  <2>5. k = acked + 1
    BY <1>0, <2>3, <2>4, SameNumber
  <2>6. Top(tid) = acked + 1
    BY <2>1, <2>2, <2>4, <2>5, <1>0 DEF IInv, Counts
  <2>7. WriteTypeOK'
    BY <1>0, <1>1, <1>5 DEF WriteTypeOK
  <2>8. ASSUME NEW q, q = DATA(tid, acked + 2), acked + 1 < Blocks PROVE FromClient(q)'
    <3>1. acked + 2 \in 1 .. Blocks /\ acked + 2 <= acked' + 1
      BY <1>0, <1>5, <2>8
    <3> QED
      BY <1>5, <2>1, <2>8, <3>1 DEF FromClient, DATA
  <2>9. PacketsGenuine'
    <3>1. acked' \in {acked, acked + 1} /\ \A q \in toServer' : q \in toServer \/ FromClient(q)'
      BY <1>0, <1>5, <2>8
    <3> QED
      BY <1>0, <1>1, <1>2, <1>5, <2>7, <3>1, PacketsStay DEF IInv
  <2>10. Counts'
    BY <1>0, <1>1, <1>5, <2>1, <2>6 DEF IInv, Counts
  <2> QED
    BY <1>1, <2>7, <2>9, <2>10 DEF IInv
<1> QED
  BY <1>3, <1>4, <1>5 DEF ClientReceive

LEMMA OtherStep ==
  ASSUME IInv, ClientRepeats \/ ClientGivesUp \/ Lose \/ UNCHANGED vars
  PROVE  IInv'
<1>0. WriteTypeOK /\ Blocks \in Nat \ {0} /\ acked \in Nat /\ NoHandler \notin Handlers
  BY BlocksAssumption, HandlersAssumption DEF IInv, WriteTypeOK
<1>1. /\ UNCHANGED <<handlerVars, fileVars, tid, acked>> /\ toClient' \subseteq toClient
      /\ cpc' = cpc \/ (cpc = "run" /\ cpc' = "gone")
      /\ \A p \in toServer' :
           p \in toServer \/ (cpc = "run" /\ (p = ERROR(tid) \/ p = DATA(tid, acked + 1)))
  BY DEF ClientRepeats, ClientGivesUp, Lose, vars, clientVars
<1>2. /\ UNCHANGED <<spc, block, held, ssGood, fileGood>> /\ PiecesKept'
      /\ \A h : Top(h)' = Top(h) /\ (Began(h)' <=> Began(h))
  BY <1>1, HandlersKept DEF IInv
<1>3. WriteTypeOK'
  BY <1>0, <1>1, <1>2 DEF WriteTypeOK
<1>4. ASSUME NEW p, cpc = "run", p = ERROR(tid) \/ p = DATA(tid, acked + 1) PROVE FromClient(p)'
  <2>1. tid \in Handlers /\ acked + 1 \in 1 .. Blocks /\ acked + 1 <= acked + 1
    BY <1>0, <1>4 DEF IInv, Counts, WriteTypeOK
  <2> QED
    BY <1>1, <1>4, <2>1 DEF FromClient, ERROR, DATA
<1>5. PacketsGenuine'
  <2>1. \A h \in Handlers : Top(h) <= Top(h)' /\ (Began(h) => Began(h)')
    BY <1>0, <1>2, TopFacts
  <2>2. \A p \in toServer' : p \in toServer \/ FromClient(p)'
    BY <1>1, <1>4
  <2> QED
    BY <1>0, <1>1, <1>3, <2>1, <2>2, PacketsStay DEF IInv
<1>6. Counts'
  BY <1>0, <1>1, <1>2 DEF IInv, Counts
<1> QED
  BY <1>2, <1>3, <1>5, <1>6 DEF IInv

LEMMA IInvStep == IInv /\ [Next]_vars => IInv'
<1> SUFFICES ASSUME IInv, [Next]_vars PROVE IInv'
  OBVIOUS
<1>1. CASE Deliver
  <2>1. ASSUME NEW p \in toServer, Alive(p, block[p.h]), NEW rest \in {toServer, toServer \ {p}},
               HandlerReceive(p, rest)
        PROVE  IInv'
    BY <2>1, HandlerReceiveStep
  <2>2. ASSUME NEW p \in toClient, Alive(p, acked + 1), NEW rest \in {toClient, toClient \ {p}},
               ClientReceive(p, rest)
        PROVE  IInv'
    BY <2>2, ClientReceiveStep
  <2> QED
    BY <1>1, <2>1, <2>2 DEF Deliver
<1> QED
  BY <1>1, QuietActions, ReadFailsStep, OtherStep DEF Next

-----------------------------------------------------------------------------
(* The invariant is inductive.                                             *)
THEOREM Invariance == Spec => []IInv
BY InitIInv, IInvStep, PTL DEF Spec

(* Whatever UDP does, and whenever the file or the string stream fails, a  *)
(* handler that is alone with the file writes the first blocks of the      *)
(* upload without a gap, and loses none before one of the streams fails.   *)
THEOREM BlocksAreGenuine == Spec => []BlocksGenuine
<1>1. IInv => BlocksGenuine
  <2> SUFFICES ASSUME IInv, NEW h \in Handlers
               PROVE  /\ spc[h] = "finished" => block[h] = Blocks
                      /\ OnlyWriter(h) => \E k \in 0 .. Blocks : file \ {Junk} = 1 .. k
                      /\ spc[h] = "wait" /\ OnlyWriter(h) /\ Intact(h) =>
                           Received(h) = held[h] \cup file
    BY DEF BlocksGenuine
  <2>1. Top(h) \in Nat /\ Received(h) = 1 .. Top(h) /\ Top(h) <= Blocks /\ Blocks \in Nat
    BY TopFacts, BlocksAssumption DEF IInv, Counts, Top, WriteTypeOK
  <2>2. OnlyWriter(h) => \E k \in 0 .. Top(h) : file \ {Junk} = 1 .. k
    BY DEF IInv, PiecesKept, Prefix
  <2>3. 0 .. Top(h) \subseteq 0 .. Blocks
    BY <2>1
  <2> QED
    BY <2>1, <2>2, <2>3 DEF IInv, Counts, PiecesKept
<1> QED
  BY <1>1, Invariance, PTL

(* A client whose last block was acknowledged talked to a handler that has *)
(* the whole upload, and the two are never more than a block apart.        *)
THEOREM ClientInStep == Spec => []InStep
<1>1. IInv => InStep
  <2> SUFFICES ASSUME IInv PROVE InStep
    OBVIOUS
  <2>1. /\ cpc \in {"run", "done"} => tid \in Handlers
        /\ WriteTypeOK /\ Blocks \in Nat
    BY BlocksAssumption DEF IInv, Counts, WriteTypeOK
  <2>2. ASSUME cpc = "done" PROVE spc[tid] = "finished"
    BY <2>1, <2>2 DEF IInv, Counts, WriteTypeOK, Top
  <2>3. ASSUME cpc = "run", spc[tid] = "wait" PROVE block[tid] - acked \in {1, 2}
    BY <2>1, <2>3 DEF IInv, Counts, WriteTypeOK, Top
  <2> QED
    BY <2>2, <2>3 DEF InStep
<1> QED
  BY <1>1, Invariance, PTL

(* An upload that ended well for the client is in the file, whole, unless  *)
(* a second handler got past the check that the file does not exist, the   *)
(* file could not be opened or written, or, in netascii mode, the string   *)
(* stream was read to its end.                                             *)
THEOREM UploadIsStored == Spec => []UploadStored
<1>1. IInv /\ InStep => UploadStored
  <2> SUFFICES ASSUME IInv, InStep, cpc = "done", OnlyWriter(tid), fileGood[tid],
                      mode = "octet" \/ ssGood[tid]
               PROVE  file = 1 .. Blocks
    BY DEF UploadStored
  <2>1. tid \in Handlers /\ spc[tid] = "finished" /\ WriteTypeOK
    BY DEF IInv, Counts, WriteTypeOK, InStep
  <2>2. Top(tid) = Blocks /\ held[tid] = {} /\ Intact(tid)
    BY <2>1 DEF IInv, Counts, PiecesKept, Top, Intact
  <2> QED
    BY <2>1, <2>2 DEF IInv, PiecesKept
<1> QED
  BY <1>1, Invariance, ClientInStep, PTL
=============================================================================
