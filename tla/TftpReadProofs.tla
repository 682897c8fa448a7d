--------------------------- MODULE TftpReadProofs ---------------------------
(***************************************************************************)
(* A read request delivers the file in order and completely, for files of   *)
(* any length, any modulus of the block numbers and any number of timeouts, *)
(* whatever UDP loses, repeats and reorders.                                *)
(***************************************************************************)
EXTENDS TftpRead, TLAPS

-----------------------------------------------------------------------------
(* Block numbers of 16 bits, for any modulus.                              *)

(* The only multiple of M among 0 .. M - 1 is 0.                           *)
LEMMA MultipleBelow ==
  ASSUME NEW M \in Nat \ {0}, NEW q \in Int, NEW d \in Nat, d < M, d = M * q
  PROVE  d = 0
<1>1. CASE q >= 1
  <2>1. M * q >= M
    BY <1>1
  <2> QED
    BY <2>1
<1>2. CASE q <= -1
  <2>1. M * q <= -M
    BY <1>2
  <2> QED
    BY <2>1
<1>3. CASE q = 0
  BY <1>3
<1> QED
  BY <1>1, <1>2, <1>3

(* Two counts less than M apart with the same number on the wire are the   *)
(* same count: what comparing block_num of 16 bits relies on.              *)
LEMMA SameNumber ==
  ASSUME NEW M \in Nat \ {0}, NEW a \in Nat, NEW b \in Nat, a <= b, b - a < M, a % M = b % M
  PROVE  a = b
<1> DEFINE q == b \div M - a \div M
           d == b - a
<1>1. a = M * (a \div M) + (a % M) /\ b = M * (b \div M) + (b % M)
  OBVIOUS
<1>2. a \div M \in Nat /\ b \div M \in Nat /\ a % M \in Nat
  OBVIOUS
<1>3. d = M * q /\ q \in Int /\ d \in Nat /\ d < M
  BY <1>1, <1>2
<1>4. d = 0
  <2> HIDE DEF q, d
  <2> QED
    BY <1>3, MultipleBelow
<1> QED
  BY <1>4

-----------------------------------------------------------------------------
(* The inductive invariant.                                                *)

Returned == {"illegal", "notFound", "aborted", "finished", "gaveUp", "stopped"}

ReadTypeOK ==
  /\ full \in Nat /\ rest \in BOOLEAN
  /\ spc \in Returned \cup {"start", "wait"}
  /\ pos \in Nat /\ max_data \in BOOLEAN /\ block \in Nat \ {0}
  /\ got \in Seq(Nat) /\ cpc \in {"run", "done", "gone"}

\* The blocks sent at least once are 1 .. Sent.
Sent == IF spc \in {"wait", "gaveUp", "stopped"} THEN block ELSE block - 1

Block(k) == DATA(k, k, SizeOf(k))

(* What is under way was really sent: blocks of the file under their own   *)
(* number, and ACKs of what the client has stored.                         *)
PacketsGenuine ==
  /\ \A p \in toClient : p = ERROR \/ \E k \in 1 .. Sent : p = Block(k)
  /\ \A p \in toServer : p = ERROR \/ \E k \in 0 .. Len(got) : p = ACK(k)

(* The variables of send_file between two packets: the buffer holds block. *)
BufferHolds ==
  /\ spc = "start" => block = 1 /\ pos = 0 /\ ~max_data
  /\ spc = "wait" => pos = block /\ size = SizeOf(block) /\ max_data = (size = "full")
  /\ spc = "finished" => block = full + 2 \/ (block = 1 /\ full = 0 /\ ~rest)

(* The client is at most one block behind, and sees the end of the file    *)
(* where the server does.                                                  *)
Counts ==
  /\ Len(got) \in block - 1 .. Sent
  /\ Sent <= full + 1
  /\ cpc \in {"run", "gone"} => Len(got) <= full
  /\ cpc = "done" => Len(got) = full + 1

IInv == ReadTypeOK /\ PacketsGenuine /\ BufferHolds /\ Counts /\ InOrder

LEMMA InitIInv == Init => IInv
<1> SUFFICES ASSUME Init PROVE IInv
  OBVIOUS
<1>1. Sent = 0 /\ Len(got) = 0 /\ got \in Seq(Nat)
  BY DEF Init, Sent
<1>2. full \in Nat /\ rest \in BOOLEAN
  BY FileAssumption DEF Init
<1>3. max_data \in BOOLEAN
  BY DEF Init
<1>4. ReadTypeOK
  BY <1>1, <1>2, <1>3 DEF Init, ReadTypeOK, Returned
<1> QED
  BY <1>1, <1>2, <1>4 DEF Init, IInv, PacketsGenuine, BufferHolds, Counts, InOrder

(* The file does not change while it is sent.                              *)
LEMMA FileKept ==
  ASSUME UNCHANGED fileVars
  PROVE  \A k : SizeOf(k)' = SizeOf(k) /\ Block(k)' = Block(k)
BY DEF fileVars, SizeOf, Block, DATA

LEMMA PacketFields ==
  ASSUME NEW k
  PROVE  /\ Block(k).op = "DATA" /\ Block(k).num = k % BlockMod /\ Block(k).count = k
         /\ Block(k).piece = k /\ Block(k).size = SizeOf(k)
         /\ ACK(k).op = "ACK" /\ ACK(k).num = k % BlockMod /\ ACK(k).count = k
         /\ ERROR.op = "ERROR"
BY DEF Block, DATA, ACK, ERROR

(* A step that keeps what the client has and does not send a new block     *)
(* keeps the packets genuine.                                              *)
LEMMA PacketsKept ==
  ASSUME IInv, UNCHANGED fileVars, Sent \in Int, Sent' \in Int, Sent <= Sent',
         Len(got) <= Len(got'), Len(got) \in Nat, Len(got') \in Nat,
         \A p \in toClient' : p \in toClient \/ p = ERROR \/ \E k \in 1 .. Sent' : p = Block(k),
         \A p \in toServer' : p \in toServer \/ p = ERROR \/ \E k \in 0 .. Len(got') : p = ACK(k)
  PROVE  PacketsGenuine'
<1>1. \A k : Block(k)' = Block(k) /\ ACK(k)' = ACK(k) /\ ERROR' = ERROR
  BY FileKept DEF ACK, ERROR
<1>2. \A p \in toClient' : p = ERROR \/ \E k \in 1 .. Sent' : p = Block(k)
  BY DEF IInv, PacketsGenuine
<1>3. \A p \in toServer' : p = ERROR \/ \E k \in 0 .. Len(got') : p = ACK(k)
  BY DEF IInv, PacketsGenuine
<1> QED
  BY <1>1, <1>2, <1>3 DEF PacketsGenuine

LEMMA SentFacts ==
  ASSUME IInv
  PROVE  Sent \in Nat /\ Len(got) \in Nat /\ Sent \in {block - 1, block}
BY DEF IInv, ReadTypeOK, Sent

(* Reading and sending the next block, once the client has all before it.  *)
LEMMA SendsNext ==
  ASSUME IInv, NEW n \in Nat, n = pos + 1, SendNext(n), block' = n, Len(got) = n - 1,
         \/ spc = "start" /\ n = block
         \/ spc = "wait" /\ n = block + 1,
         UNCHANGED <<fileVars, clientVars>>, toServer' \subseteq toServer
  PROVE  IInv'
<1> USE SentFacts, FileKept
<1>1. ReadTypeOK'
  <2>1. /\ n \in Nat \ {0} /\ pos' = n /\ spc' \in {"finished", "wait"}
        /\ max_data' = max_data \/ max_data' = (SizeOf(n) = "full")
    BY DEF IInv, ReadTypeOK, SendNext
  <2>2. max_data' \in BOOLEAN
    BY <2>1 DEF IInv, ReadTypeOK
  <2> QED
    BY <2>1, <2>2 DEF IInv, ReadTypeOK, fileVars, clientVars, Returned
<1>2. Sent = n - 1 /\ Sent' = (IF spc' = "finished" THEN n - 1 ELSE n)
      /\ spc' \in {"finished", "wait"}
  BY DEF IInv, ReadTypeOK, Sent, SendNext, BufferHolds
<1>3. /\ max_data => n - 1 <= full
      /\ ~max_data => n = 1 \/ n - 1 = full + 1
  BY <1>2 DEF IInv, ReadTypeOK, BufferHolds, Counts, SizeOf
<1>4. CASE spc' = "finished"
  <2>1. SizeOf(n) = "empty" /\ ~max_data /\ toClient' = toClient
    BY <1>4 DEF SendNext
  <2>2. PacketsGenuine'
    BY <1>2, <1>4, <2>1, PacketsKept DEF clientVars
  <2>3. BufferHolds'
    BY <1>3, <1>4, <2>1 DEF BufferHolds, fileVars, SizeOf, IInv, ReadTypeOK
  <2>4. Counts'
    BY <1>2, <1>4 DEF Counts, IInv, ReadTypeOK, fileVars, clientVars
  <2> QED
    BY <1>1, <2>2, <2>3, <2>4 DEF IInv, InOrder, clientVars
<1>5. CASE spc' = "wait"
  <2>1. /\ ~(SizeOf(n) = "empty" /\ ~max_data) /\ pos' = n /\ size' = SizeOf(n)
        /\ max_data' = (SizeOf(n) = "full") /\ toClient' = toClient \cup {Block(n)}
    BY <1>5 DEF SendNext, Block
  <2>2. PacketsGenuine'
    BY <1>2, <1>5, <2>1, PacketsKept DEF clientVars
  <2>3. BufferHolds'
    BY <1>5, <2>1 DEF BufferHolds
  <2>4. n <= full + 1
    BY <1>3, <2>1 DEF SizeOf, IInv, ReadTypeOK
  <2>5. Counts'
    BY <1>2, <1>5, <2>4 DEF Counts, IInv, ReadTypeOK, fileVars, clientVars
  <2> QED
    BY <1>1, <2>2, <2>3, <2>5 DEF IInv, InOrder, clientVars
<1> QED
  BY <1>2, <1>4, <1>5

(* The request is refused, or the process ends, before anything is sent.   *)
LEMMA RefusedStep ==
  ASSUME IInv, IllegalOperation \/ NotFound \/ BadMode
  PROVE  IInv'
<1> USE DEF IllegalOperation, NotFound, BadMode
<1>1. /\ UNCHANGED fileVars /\ UNCHANGED clientVars /\ UNCHANGED <<pos, size, max_data, block, toServer>>
      /\ spc' \in {"illegal", "notFound", "aborted"} /\ spc = "start"
      /\ \A p \in toClient' : p \in toClient \/ p = ERROR
  OBVIOUS
<1> HIDE DEF IllegalOperation, NotFound, BadMode
<1>2. Sent' = Sent /\ got' = got
  BY <1>1 DEF Sent, clientVars
<1>3. PacketsGenuine'
  BY <1>1, <1>2, SentFacts, PacketsKept
<1> QED
  BY <1>1, <1>2, <1>3
  DEF IInv, ReadTypeOK, BufferHolds, Counts, InOrder, fileVars, clientVars, Returned

LEMMA TimeoutStep ==
  ASSUME IInv, Timeout
  PROVE  IInv'
<1>1. /\ UNCHANGED fileVars /\ UNCHANGED clientVars
      /\ UNCHANGED <<pos, size, max_data, block, toServer>>
      /\ spc' \in {"wait", "gaveUp"} /\ spc = "wait"
      /\ \A p \in toClient' : p \in toClient \/ p = DATA(block, pos, size)
  BY DEF Timeout
<1>2. Sent' = Sent /\ got' = got /\ Sent = block
  BY <1>1 DEF Sent, clientVars
<1>3. DATA(block, pos, size) = Block(block)
  BY <1>1 DEF Block, IInv, BufferHolds
<1>4. block \in 1 .. Sent'
  BY <1>2 DEF IInv, ReadTypeOK
<1>5. PacketsGenuine'
  BY <1>1, <1>2, <1>3, <1>4, SentFacts, PacketsKept
<1> QED
  BY <1>1, <1>2, <1>5, FileKept
  DEF IInv, ReadTypeOK, BufferHolds, Counts, InOrder, fileVars, clientVars, Returned

(* A packet of the server: only the ACK of the block it waits for counts.  *)
LEMMA ServerReceiveStep ==
  ASSUME IInv, NEW p \in toServer, Alive(p, block), NEW left \in SUBSET toServer,
         ServerReceive(p, left)
  PROVE  IInv'
<1>1. /\ UNCHANGED fileVars /\ UNCHANGED clientVars /\ toServer' = left /\ spc = "wait"
  BY DEF ServerReceive
<1>2. CASE UNCHANGED <<pos, size, max_data, block, toClient>> /\ spc' \in {"wait", "stopped"}
  <2>1. Sent' = Sent /\ got' = got
    BY <1>1, <1>2 DEF Sent, clientVars
  <2>2. PacketsGenuine'
    BY <1>1, <1>2, <2>1, SentFacts, PacketsKept
  <2> QED
    BY <1>1, <1>2, <2>1, <2>2, FileKept
    DEF IInv, ReadTypeOK, BufferHolds, Counts, InOrder, fileVars, clientVars, Returned
<1>3. CASE p.op = "ACK" /\ p.num = block % BlockMod /\ block' = block + 1 /\ SendNext(block + 1)
  <2>1. PICK k \in 0 .. Len(got) : p = ACK(k)
    BY <1>3, PacketFields DEF IInv, PacketsGenuine
  <2>2. block - k < BlockMod /\ k % BlockMod = block % BlockMod
    BY <1>3, <2>1, PacketFields DEF Alive
  <2>3. k <= block /\ k \in Nat /\ block \in Nat
    BY <2>1, SentFacts DEF IInv, ReadTypeOK, Counts
  <2>4. k = block
    <3>1. BlockMod \in Nat \ {0}
      BY BlockAssumption
    <3> QED
      BY <2>2, <2>3, <3>1, SameNumber
  <2>5. Len(got) = block /\ pos = block
    BY <1>1, <2>1, <2>4, SentFacts DEF IInv, ReadTypeOK, Counts, BufferHolds
  <2> QED
    BY <1>1, <1>3, <2>3, <2>5, SendsNext
<1> QED
  BY <1>1, <1>2, <1>3 DEF ServerReceive

LEMMA ClientReceiveStep ==
  ASSUME IInv, NEW p \in toClient, Alive(p, want), NEW left \in SUBSET toClient,
         ClientReceive(p, left)
  PROVE  IInv'
<1>1. UNCHANGED serverVars /\ UNCHANGED fileVars /\ toClient' = left /\ cpc = "run" /\ Sent' = Sent
  BY DEF ClientReceive, serverVars, fileVars, Sent
<1>2. CASE p.op = "ERROR" /\ cpc' = "gone" /\ UNCHANGED <<got, toServer>>
  <2>1. PacketsGenuine'
    BY <1>1, <1>2, SentFacts, PacketsKept
  <2> QED
    BY <1>1, <1>2, <2>1, FileKept
    DEF IInv, ReadTypeOK, BufferHolds, Counts, InOrder, serverVars, fileVars
<1>3. CASE p.op = "DATA" /\ toServer' = toServer \cup {ACK(want - 1)} /\ UNCHANGED <<got, cpc>>
  <2>1. want - 1 = Len(got) /\ Len(got) \in 0 .. Len(got')
    BY <1>3, SentFacts DEF want
  <2>2. PacketsGenuine'
    BY <1>1, <1>3, <2>1, SentFacts, PacketsKept
  <2> QED
    BY <1>1, <1>3, <2>2, FileKept
    DEF IInv, ReadTypeOK, BufferHolds, Counts, InOrder, serverVars, fileVars
<1>4. CASE /\ p.op = "DATA" /\ p.num = want % BlockMod /\ got' = Append(got, p.piece)
           /\ cpc' = (IF p.size = "full" THEN "run" ELSE "done")
           /\ toServer' = toServer \cup {ACK(want)}
  <2>1. PICK k \in 1 .. Sent : p = Block(k)
    BY <1>4, PacketFields DEF IInv, PacketsGenuine
  <2>2. want - k < BlockMod /\ k % BlockMod = want % BlockMod
    BY <1>4, <2>1, PacketFields DEF Alive
  <2>3. k \in Nat /\ want \in Nat /\ k <= want /\ k <= full + 1
    BY <2>1, SentFacts DEF IInv, ReadTypeOK, Counts, want
  <2>4. k = want
    <3>1. BlockMod \in Nat \ {0}
      BY BlockAssumption
    <3> QED
      BY <2>2, <2>3, <3>1, SameNumber
  <2>5. /\ got' = Append(got, want) /\ Len(got') = want /\ got' \in Seq(Nat)
        /\ \A i \in 1 .. Len(got) : got'[i] = got[i]
        /\ got'[want] = want /\ want = Len(got) + 1
    BY <1>4, <2>1, <2>3, <2>4, PacketFields, SentFacts DEF IInv, ReadTypeOK, want
  <2>6. InOrder'
    BY <2>5, SentFacts DEF InOrder, IInv
  <2>7. want \in 0 .. Len(got')
    BY <2>3, <2>5
  <2>8. PacketsGenuine'
    BY <1>1, <1>4, <2>5, <2>7, SentFacts, PacketsKept
  <2>9. p.size = SizeOf(want)
    BY <2>1, <2>4, PacketFields
  <2>10. Counts'
    BY <1>1, <1>4, <2>1, <2>3, <2>4, <2>5, <2>9, SentFacts
    DEF Counts, IInv, ReadTypeOK, serverVars, fileVars, SizeOf
  <2>11. ReadTypeOK' /\ BufferHolds'
    BY <1>1, <1>4, <2>5, FileKept DEF IInv, ReadTypeOK, BufferHolds, serverVars, fileVars
  <2> QED
    BY <2>6, <2>8, <2>10, <2>11 DEF IInv
<1> QED
  BY <1>2, <1>3, <1>4 DEF ClientReceive

(* Steps that send no block, store none and leave the handler where it is, *)
(* or stop it while it waits.                                              *)
LEMMA OtherStep ==
  ASSUME IInv,
         Bounce \/ SelectFails \/ ClientRepeats \/ ClientGivesUp \/ Lose \/ UNCHANGED vars
  PROVE  IInv'
<1>1. /\ UNCHANGED <<fileVars, pos, size, max_data, block, got>>
      /\ spc' = spc \/ (spc = "wait" /\ spc' = "stopped")
      /\ cpc' = cpc \/ (cpc = "run" /\ cpc' = "gone")
      /\ toClient' \subseteq toClient
      /\ \A p \in toServer' : p \in toServer \/ p = ERROR \/ p = ACK(want - 1)
  BY DEF Bounce, ReadFails, SelectFails, ClientRepeats, ClientGivesUp, Lose, vars,
         serverVars, clientVars
<1>2. Sent' = Sent /\ want - 1 = Len(got) /\ Len(got) \in 0 .. Len(got')
  BY <1>1, SentFacts DEF Sent, want
<1>3. PacketsGenuine'
  BY <1>1, <1>2, SentFacts, PacketsKept
<1> QED
  BY <1>1, <1>2, <1>3, FileKept
  DEF IInv, ReadTypeOK, BufferHolds, Counts, InOrder, fileVars, Returned

LEMMA IInvStep == IInv /\ [Next]_vars => IInv'
<1> SUFFICES ASSUME IInv, [Next]_vars PROVE IInv'
  OBVIOUS
<1>1. CASE Start
  <2>1. block = 1 /\ pos = 0 /\ Len(got) = 0
    BY <1>1, SentFacts DEF Start, IInv, BufferHolds, Counts, Sent
  <2> QED
    BY <1>1, <2>1, SendsNext DEF Start
<1>2. CASE Deliver
  <2>1. ASSUME NEW p \in toServer, Alive(p, block), NEW left \in {toServer, toServer \ {p}},
               ServerReceive(p, left)
        PROVE  IInv'
    BY <2>1, ServerReceiveStep
  <2>2. ASSUME NEW p \in toClient, Alive(p, want), NEW left \in {toClient, toClient \ {p}},
               ClientReceive(p, left)
        PROVE  IInv'
    BY <2>2, ClientReceiveStep
  <2> QED
    BY <1>2, <2>1, <2>2 DEF Deliver
<1> QED
  BY <1>1, <1>2, RefusedStep, TimeoutStep, OtherStep DEF Next

-----------------------------------------------------------------------------
(* The invariant is inductive.                                             *)
THEOREM Invariance == Spec => []IInv
BY InitIInv, IInvStep, PTL DEF Spec

(* However UDP loses, repeats and reorders packets, the client has stored  *)
(* the pieces of the file in order, each once, also when the block numbers *)
(* of send_file wrap around.                                               *)
THEOREM StoredInOrder == Spec => []InOrder
BY Invariance, PTL DEF IInv

(* A client that saw the last block has every piece of the file.           *)
THEOREM DoneHasAll == Spec => []DoneIsComplete
<1>1. IInv => DoneIsComplete
  BY DEF IInv, Counts, DoneIsComplete
<1> QED
  BY <1>1, Invariance, PTL

(* The server waits for the ACK of a block until the client has stored it, *)
(* and finishes with nothing outstanding.                                  *)
THEOREM ServerInStep == Spec => []InStep
<1>1. IInv => InStep
  BY SentFacts DEF IInv, ReadTypeOK, Counts, Sent, InStep
<1> QED
  BY <1>1, Invariance, PTL

(* A read request that ends well has delivered the file, unless the client *)
(* gave up or the file is empty.                                           *)
THEOREM FinishedHasDelivered == Spec => []FinishedIsDelivered
<1>1. IInv => FinishedIsDelivered
  BY SentFacts DEF IInv, ReadTypeOK, BufferHolds, Counts, Sent, FinishedIsDelivered
<1> QED
  BY <1>1, Invariance, PTL
=============================================================================
