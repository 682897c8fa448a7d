--------------------------- MODULE SbcpChatProofs ---------------------------
(***************************************************************************)
(* The invariants of SbcpServer, and of what main writes to the clients:    *)
(* the author of every message, the roster a reader is shown, the order of *)
(* a stream and that no message of another user is lost; and, from them,   *)
(* what server and clients do for each other (SbcpChat). All for every     *)
(* number of connections, names and messages and every capacity of fifos.  *)
(***************************************************************************)
EXTENDS SbcpChat, TLAPS

IInv == TypeOK /\ RegistryConsistent /\ Handshake

-----------------------------------------------------------------------------
(* Operators.                                                              *)

(* Every message main or a client builds is a Message.                     *)
LEMMA MessagesTyped ==
  /\ NAK \in Message
  /\ \A us \in SUBSET Names : ACK(us) \in Message
  /\ \A n \in Names : ONLINE(n) \in Message /\ OFFLINE(n) \in Message
  /\ \A m \in Message, n \in Names :
       change_to_fwd(m, n) \in Message /\ add_username(m, n) \in Message
  /\ \A n \in Names, id \in Ids : JOIN(n, id) \in Message
  /\ \A id \in Ids : SEND(id) \in Message /\ IDLE(id) \in Message
<1>1. NoId \in Ids
  BY DEF NoId, Ids
<1>2. NAK \in Message /\ \A us \in SUBSET Names : ACK(us) \in Message
  BY <1>1 DEF NAK, ACK, Message, Types
<1>3. \A n \in Names : ONLINE(n) \in Message /\ OFFLINE(n) \in Message
  BY <1>1 DEF ONLINE, OFFLINE, Message, Types
<1>4. \A m \in Message, n \in Names : change_to_fwd(m, n) \in Message
  BY DEF change_to_fwd, Message, Types
<1>5. \A m \in Message, n \in Names : add_username(m, n) \in Message
  BY DEF add_username, Message, Types
<1>6. \A n \in Names, id \in Ids : JOIN(n, id) \in Message
  BY DEF JOIN, Message, Types
<1>7. \A id \in Ids : SEND(id) \in Message /\ IDLE(id) \in Message
  BY DEF SEND, IDLE, Message, Types
<1> QED
  BY <1>2, <1>3, <1>4, <1>5, <1>6, <1>7

(* A message of a kind that names a user names one of Names.               *)
LEMMA MessageUser ==
  ASSUME NEW m \in Message
  PROVE  /\ m.users \in SUBSET Names
         /\ m.type \in {"JOIN", "ONLINE", "OFFLINE", "FWD"} => m.user \in Names
BY DEF Message

(* The first element of a queue and what is left of it.                    *)
LEMMA HeadTailFacts ==
  ASSUME NEW S, NEW s \in Seq(S), s # <<>>
  PROVE  /\ Head(s) \in S /\ Head(s) = s[1] /\ 1 \in 1 .. Len(s)
         /\ Tail(s) \in Seq(S) /\ Len(Tail(s)) = Len(s) - 1
         /\ \A k \in 1 .. Len(s) - 1 : Tail(s)[k] = s[k + 1]
OBVIOUS

LEMMA TailOfOne ==
  ASSUME NEW S, NEW s \in Seq(S), Len(s) = 1
  PROVE  Tail(s) = <<>>
<1>1. Tail(s) \in Seq(S) /\ Len(Tail(s)) = 0
  OBVIOUS
<1>2. \A t \in Seq(S) : Len(t) = 0 => t = <<>>
  OBVIOUS
<1> QED
  BY <1>1, <1>2, Zenon

(* Removing one position of a sequence keeps the others, in order.         *)
LEMMA RemoveIndexFacts ==
  ASSUME NEW S, NEW s \in Seq(S), NEW i \in 1 .. Len(s)
  PROVE  /\ RemoveIndex(s, i) \in Seq(S)
         /\ Len(RemoveIndex(s, i)) = Len(s) - 1
         /\ \A k \in 1 .. Len(s) - 1 :
              RemoveIndex(s, i)[k] = s[IF k < i THEN k ELSE k + 1]
BY DEF RemoveIndex

-----------------------------------------------------------------------------
(* Initially.                                                              *)

LEMMA InitIInv == Init => IInv
<1> SUFFICES ASSUME Init PROVE IInv
  OBVIOUS
<1> USE DEF Init
<1>1. TypeOK
  <2>1. NoOut \in [msg : Message, to : SUBSET Names]
    BY MessagesTyped DEF NoOut
  <2>2. NoJoin \in [h : Handlers \cup {NoFd}, name : Names \cup {NoName}]
    BY DEF NoJoin
  <2> QED
    BY <2>1, <2>2, LimitsAssumption DEF TypeOK
<1>2. RegistryConsistent
  BY LimitsAssumption DEF RegistryConsistent, Users, Registered
<1>3. Handshake
  BY DEF Handshake, PipeConsistent, MainConsistent
<1> QED
  BY <1>1, <1>2, <1>3 DEF IInv

-----------------------------------------------------------------------------
(* Type correctness is preserved.  It needs MainConsistent: what main works *)
(* on while it answers a JOIN is a real handler and a real name.           *)

(* The end of a handler process keeps the types.                           *)
LEMMA HandlerEndsTyped ==
  ASSUME TypeOK, NEW h \in Handlers, NEW how \in Gone, NEW b \in BOOLEAN,
         HandlerEnds(h, how, b)
  PROVE  TypeOK'
BY SMTT(30) DEF HandlerEnds, TypeOK, clientVars, handlerVars, regVars, mainVars

(* Starting or continuing a broadcast keeps the types of mpc and mout.      *)
LEMMA BroadcastTyped ==
  ASSUME NEW m \in Message, NEW to \in SUBSET Names, Broadcast(m, to)
  PROVE  /\ mpc' \in {"select", "openMain", "openHandler", "reply", "write", "dead"}
         /\ mout' \in [msg : Message, to : SUBSET Names]
BY MessagesTyped DEF Broadcast, NoOut

LEMMA TypeStep == IInv /\ [Next]_vars => TypeOK'
<1> SUFFICES ASSUME IInv, [Next]_vars PROVE TypeOK'
  OBVIOUS
<1> USE HandlersAssumption DEF IInv, TypeOK
<1> USE DEF clientVars, handlerVars, regVars, mainVars
<1>1. ASSUME NEW h \in Handlers, Accept(h) PROVE TypeOK'
  BY <1>1 DEF Accept
<1>2. ASSUME NEW h \in Handlers, Drop(h) PROVE TypeOK'
  BY <1>2 DEF Drop
<1>3. ASSUME NEW h \in Handlers, NEW m \in ClientMessages(h), ClientSend(h, m) PROVE TypeOK'
  <2>1. m \in Message
    <3> DEFINE id == <<h, sent[h] + 1>>
    <3>1. id \in Ids
      BY DEF Ids
    <3>2. (\E n \in Names : m = JOIN(n, id)) \/ m = SEND(id) \/ m = IDLE(id)
      BY DEF ClientMessages
    <3> HIDE DEF id
    <3> QED
      BY <3>1, <3>2, MessagesTyped
  <2>2. sock' \in [Handlers -> Seq(Message)] /\ sent' \in [Handlers -> Nat]
    BY <1>3, <2>1, SMTT(30) DEF ClientSend
  <2> QED
    BY <1>3, <2>2 DEF ClientSend
<1>4. ASSUME NEW h \in Handlers, ClientRead(h) PROVE TypeOK'
  <2> DEFINE m == Head(inbox[h])
  <2>1. m \in Message /\ inbox' \in [Handlers -> Seq(Message)]
    BY <1>4 DEF ClientRead
  <2>2. \A us \in SUBSET Names : Shown(us, m) \in SUBSET Names
    BY <2>1, MessageUser, SMTT(60) DEF Shown
  <2>3. view' \in [Handlers -> SUBSET Names]
    BY <1>4, <2>2 DEF ClientRead
  <2>4. told' \in [Handlers -> {"none", "ACK", "NAK"}]
    BY <1>4 DEF ClientRead
  <2> QED
    BY <1>4, <2>1, <2>3, <2>4 DEF ClientRead
<1>5. ASSUME NEW h \in Handlers, ClientClose(h) PROVE TypeOK'
  BY <1>5 DEF ClientClose
<1>6. ASSUME NEW h \in Handlers, HandlerJoin(h) PROVE TypeOK'
  <2>1. Head(sock[h]) \in Message /\ sock' \in [Handlers -> Seq(Message)]
    BY <1>6 DEF HandlerJoin
  <2>2. Head(sock[h]).user \in Names
    BY <1>6, <2>1, MessageUser DEF HandlerJoin
  <2>3. /\ user' \in [Handlers -> Names \cup {NoName}]
        /\ boot' \in Seq([h : Handlers, name : Names])
    BY <1>6, <2>2 DEF HandlerJoin
  <2> QED
    BY <1>6, <2>1, <2>3 DEF HandlerJoin
<1>7. ASSUME NEW h \in Handlers, HandlerRejoin(h) PROVE TypeOK'
  BY <1>7, HandlerEndsTyped DEF HandlerRejoin, Gone
<1>8. ASSUME NEW h \in Handlers, HandlerSigpipe(h) PROVE TypeOK'
  BY <1>8, HandlerEndsTyped DEF HandlerSigpipe, Gone
<1>9. ASSUME NEW h \in Handlers, HandlerEOF(h) PROVE TypeOK'
  BY <1>9, HandlerEndsTyped DEF HandlerEOF, Gone
<1>10. ASSUME NEW h \in Handlers, HandlerReset(h) PROVE TypeOK'
  BY <1>10, HandlerEndsTyped DEF HandlerReset, Gone
<1>11. ASSUME NEW h \in Handlers, HandlerMainEOF(h) PROVE TypeOK'
  BY <1>11, HandlerEndsTyped DEF HandlerMainEOF, Gone
<1>12. ASSUME NEW h \in Handlers, HandlerOpenMain(h) PROVE TypeOK'
  BY <1>12 DEF HandlerOpenMain
<1>13. ASSUME NEW h \in Handlers, HandlerOpenHandler(h) PROVE TypeOK'
  BY <1>13 DEF HandlerOpenHandler
<1>14. ASSUME NEW h \in Handlers, HandlerForward(h) PROVE TypeOK'
  <2>1. Head(sock[h]) \in Message /\ sock' \in [Handlers -> Seq(Message)]
    BY <1>14 DEF HandlerForward
  <2>2. hfifo' \in [Handlers -> Seq(Message)]
    BY <1>14, <2>1 DEF HandlerForward
  <2> QED
    BY <1>14, <2>1, <2>2 DEF HandlerForward
<1>15. ASSUME NEW h \in Handlers, HandlerDiscard(h) PROVE TypeOK'
  <2>1. sock[h] \in Seq(Message) /\ sock[h] # <<>>
    BY <1>15 DEF HandlerDiscard
  <2>2. Tail(sock[h]) \in Seq(Message)
    BY <2>1, HeadTailFacts
  <2>3. sock' \in [Handlers -> Seq(Message)]
    BY <1>15, <2>2 DEF HandlerDiscard
  <2> QED
    BY <1>15, <2>3 DEF HandlerDiscard
<1>16. ASSUME NEW h \in Handlers, HandlerRelay(h) PROVE TypeOK'
  BY <1>16, SMTT(30) DEF HandlerRelay
<1>17. ASSUME MainReadBootstrap PROVE TypeOK'
  <2>1. /\ boot' \in Seq([h : Handlers, name : Names])
        /\ Head(boot) \in [h : Handlers, name : Names]
    BY <1>17, HeadTailFacts DEF MainReadBootstrap
  <2>2. mcur' \in [h : Handlers \cup {NoFd}, name : Names \cup {NoName}]
    <3>1. mcur' = Head(boot)
      BY <1>17 DEF MainReadBootstrap
    <3>2. [h : Handlers, name : Names]
            \subseteq [h : Handlers \cup {NoFd}, name : Names \cup {NoName}]
      OBVIOUS
    <3> HIDE DEF IInv, TypeOK
    <3> QED
      BY <2>1, <3>1, <3>2, Zenon
  <2> QED
    BY <1>17, <2>1, <2>2 DEF MainReadBootstrap
<1>18. ASSUME MainOpenMain PROVE TypeOK'
  BY <1>18 DEF MainOpenMain
<1>19. ASSUME MainRefuse PROVE TypeOK'
  BY <1>19, MessagesTyped DEF MainRefuse, MainOpensHandlerFifo
<1>20. ASSUME MainRegister PROVE TypeOK'
  <2>1. mcur.h \in Handlers /\ mcur.name \in Names
    BY <1>20 DEF MainRegister, MainOpensHandlerFifo, Handshake, MainConsistent
  <2>2. Users \in SUBSET Names
    BY DEF Users
  <2>3. ACK(Users) \in Message
    BY <2>2, MessagesTyped
  <2>4. /\ rd_fifos' \in [Names -> Handlers \cup {NoFd}]
        /\ wr_fifos' \in [Names -> Handlers \cup {NoFd}]
        /\ online_users' \in Seq(Names)
    BY <1>20, <2>1 DEF MainRegister, Register
  <2>5. mout' \in [msg : Message, to : SUBSET Names]
    BY <1>20, <2>3 DEF MainRegister
  <2>6. mainEnd' \in [Handlers -> {"never", "half", "open", "closed"}]
    BY <1>20, <2>1 DEF MainRegister, MainOpensHandlerFifo
  <2> QED
    BY <1>20, <2>4, <2>5, <2>6 DEF MainRegister, MainOpensHandlerFifo
<1>21. ASSUME MainAckTooLong PROVE TypeOK'
  <2>1. mcur.h \in Handlers /\ mcur.name \in Names
    BY <1>21 DEF MainAckTooLong, MainOpensHandlerFifo, Handshake, MainConsistent
  <2> QED
    BY <1>21, <2>1 DEF MainAckTooLong, MainOpensHandlerFifo, Register, NoJoin
<1>22. ASSUME MainReply PROVE TypeOK'
  <2>1. mcur.h \in Handlers /\ mcur.name \in Names
    BY <1>22 DEF MainReply, Handshake, MainConsistent
  <2>2. mfifo' \in [Handlers -> Seq(Message)]
    BY <1>22, <2>1 DEF MainReply
  <2>3. NAK \in Message /\ ONLINE(mcur.name) \in Message
    BY <2>1, MessagesTyped
  <2>4. Registered \ {mcur.name} \in SUBSET Names
    BY DEF Registered
  <2>5. \/ mout.msg.type = "NAK" /\ Broadcast(NAK, {})
        \/ Broadcast(ONLINE(mcur.name), Registered \ {mcur.name})
    BY <1>22 DEF MainReply
  <2>6. /\ mpc' \in {"select", "openMain", "openHandler", "reply", "write", "dead"}
        /\ mout' \in [msg : Message, to : SUBSET Names]
    BY <2>3, <2>4, <2>5, BroadcastTyped
  <2>7. mainEnd' \in [Handlers -> {"never", "half", "open", "closed"}]
    BY <1>22 DEF MainReply
  <2>8. mcur' \in [h : Handlers \cup {NoFd}, name : Names \cup {NoName}]
    BY <1>22 DEF MainReply, NoJoin
  <2> QED
    BY <1>22, <2>2, <2>6, <2>7, <2>8 DEF MainReply
<1>23. ASSUME NEW n \in Names, MainWrite(n) PROVE TypeOK'
  <2>1. wr_fifos[n] \in Handlers
    BY <1>23 DEF MainWrite, Handshake, MainConsistent, Registered
  <2>2. mfifo' \in [Handlers -> Seq(Message)]
    BY <1>23, <2>1 DEF MainWrite
  <2>3. /\ mpc' \in {"select", "openMain", "openHandler", "reply", "write", "dead"}
        /\ mout' \in [msg : Message, to : SUBSET Names]
    BY <1>23, BroadcastTyped DEF MainWrite
  <2> QED
    BY <1>23, <2>2, <2>3 DEF MainWrite
<1>24. ASSUME MainSigpipe PROVE TypeOK'
  BY <1>24, MessagesTyped DEF MainSigpipe, NoJoin, NoOut
<1>25. ASSUME NEW n \in Names, MainForward(n) PROVE TypeOK'
  <2> DEFINE h == rd_fifos[n]
  <2>1. h \in Handlers
    BY <1>25 DEF MainForward, MainSelects, FifoReady
  <2>2. Head(hfifo[h]) \in Message /\ hfifo' \in [Handlers -> Seq(Message)]
    BY <1>25, <2>1 DEF MainForward
  <2>3. /\ change_to_fwd(Head(hfifo[h]), n) \in Message
        /\ add_username(Head(hfifo[h]), n) \in Message
        /\ Registered \ {n} \in SUBSET Names
    BY <2>2, MessagesTyped DEF Registered
  <2>4. \/ Broadcast(change_to_fwd(Head(hfifo[h]), n), Registered \ {n})
        \/ Broadcast(add_username(Head(hfifo[h]), n), Registered \ {n})
    BY <1>25 DEF MainForward
  <2>5. /\ mpc' \in {"select", "openMain", "openHandler", "reply", "write", "dead"}
        /\ mout' \in [msg : Message, to : SUBSET Names]
    BY <2>3, <2>4, BroadcastTyped
  <2> QED
    BY <1>25, <2>2, <2>5 DEF MainForward
<1>26. ASSUME NEW n \in Names, MainGoodbye(n) PROVE TypeOK'
  <2>1. online_users' \in Seq(Names)
    BY <1>26, RemoveIndexFacts DEF MainGoodbye
  <2>2. OFFLINE(n) \in Message /\ Registered \ {n} \in SUBSET Names
    BY MessagesTyped DEF Registered
  <2>3. /\ mpc' \in {"select", "openMain", "openHandler", "reply", "write", "dead"}
        /\ mout' \in [msg : Message, to : SUBSET Names]
    BY <1>26, <2>2, BroadcastTyped DEF MainGoodbye
  <2> QED
    BY <1>26, <2>1, <2>3 DEF MainGoodbye
<1>27. ASSUME UNCHANGED vars PROVE TypeOK'
  BY <1>27 DEF vars
<1>28. ASSUME NEW h \in Handlers, HandlerShortRead(h) PROVE TypeOK'
  BY <1>28, HandlerEndsTyped DEF HandlerShortRead, Gone
<1> QED
  BY <1>1, <1>2, <1>3, <1>4, <1>5, <1>6, <1>7, <1>8, <1>9, <1>10, <1>11, <1>12, <1>13, <1>14, <1>15, <1>16, <1>17, <1>18, <1>19, <1>20, <1>21, <1>22, <1>23, <1>24, <1>25, <1>26, <1>27, <1>28
  DEF Next, Main, Handler, Client

-----------------------------------------------------------------------------
(* The registry.                                                           *)

(* Only these steps touch the registry or the fifos main holds.            *)
LEMMA RegistryWriters ==
  [Next]_vars =>
    \/ UNCHANGED <<max_clients, rd_fifos, wr_fifos, online_users, mainEnd>>
    \/ MainOpenMain \/ MainRefuse \/ MainRegister \/ MainAckTooLong
    \/ MainReply \/ \E n \in Names : MainGoodbye(n)
<1> SUFFICES ASSUME [Next]_vars
             PROVE  \/ UNCHANGED <<max_clients, rd_fifos, wr_fifos, online_users, mainEnd>>
                    \/ MainOpenMain \/ MainRefuse \/ MainRegister \/ MainAckTooLong
                    \/ MainReply \/ \E n \in Names : MainGoodbye(n)
  OBVIOUS
<1> USE DEF clientVars, handlerVars, regVars, mainVars
<1>1. CASE UNCHANGED vars
  BY <1>1 DEF vars
<1>2. ASSUME NEW h \in Handlers, Handler(h)
      PROVE  UNCHANGED <<max_clients, rd_fifos, wr_fifos, online_users, mainEnd>>
  BY <1>2 DEF Handler, HandlerJoin, HandlerRejoin, HandlerOpenMain, HandlerOpenHandler,
              HandlerForward, HandlerSigpipe, HandlerDiscard, HandlerEOF, HandlerReset,
              HandlerShortRead, HandlerRelay, HandlerMainEOF, HandlerEnds
<1>3. ASSUME NEW h \in Handlers, Client(h)
      PROVE  UNCHANGED <<max_clients, rd_fifos, wr_fifos, online_users, mainEnd>>
  BY <1>3 DEF Client, Accept, Drop, ClientSend, ClientRead, ClientClose
<1>4. ASSUME NEW n \in Names, MainReadBootstrap \/ MainSigpipe \/ MainWrite(n) \/ MainForward(n)
      PROVE  UNCHANGED <<max_clients, rd_fifos, wr_fifos, online_users, mainEnd>>
  BY <1>4 DEF MainReadBootstrap, MainSigpipe, MainWrite, MainForward
<1>5. ASSUME MainReadBootstrap \/ MainSigpipe
      PROVE  UNCHANGED <<max_clients, rd_fifos, wr_fifos, online_users, mainEnd>>
  BY <1>5 DEF MainReadBootstrap, MainSigpipe
<1> QED
  BY <1>1, <1>2, <1>3, <1>4, <1>5 DEF Next, Main

(* Entering a new name with a handler main has just opened keeps the       *)
(* registry one table.                                                     *)
LEMMA RegisterKeeps ==
  ASSUME IInv, MainOpensHandlerFifo, ~Refused, Register(mcur.name, mcur.h)
  PROVE  RegistryConsistent'
<1> DEFINE n == mcur.name
           h == mcur.h
<1> USE HandlersAssumption
<1>1. h \in Handlers /\ n \in Names /\ mainEnd[h] = "half"
  BY DEF IInv, Handshake, MainConsistent, MainOpensHandlerFifo
<1>2. /\ rd_fifos \in [Names -> Handlers \cup {NoFd}]
      /\ wr_fifos \in [Names -> Handlers \cup {NoFd}]
      /\ online_users \in Seq(Names)
      /\ mainEnd \in [Handlers -> {"never", "half", "open", "closed"}]
  BY DEF IInv, TypeOK
<1>3. n \notin Registered /\ n \notin Users /\ Len(online_users) # max_clients
  BY DEF IInv, RegistryConsistent, Refused, Registered
<1>a. max_clients \in Nat /\ max_clients' = max_clients
  BY DEF IInv, TypeOK, MainOpensHandlerFifo
<1>4. rd_fifos' = wr_fifos'
  BY DEF IInv, RegistryConsistent, Register
<1>5. Registered' = Registered \cup {n}
  BY <1>1, <1>2 DEF Register, Registered
<1>6. /\ online_users' = Append(online_users, n)
      /\ Len(online_users') = Len(online_users) + 1
      /\ \A i \in 1 .. Len(online_users) : online_users'[i] = online_users[i]
      /\ online_users'[Len(online_users) + 1] = n
  BY <1>1, <1>2 DEF Register
<1>7. Users' = Users \cup {n}
  BY <1>2, <1>6 DEF Users
<1>8. \A i, j \in 1 .. Len(online_users') : online_users'[i] = online_users'[j] => i = j
  BY <1>2, <1>3, <1>6 DEF Users, IInv, RegistryConsistent
<1>9. Len(online_users') <= max_clients'
  BY <1>a, <1>2, <1>3, <1>6 DEF IInv, RegistryConsistent
<1>10. \A m \in Registered : wr_fifos[m] # h
  BY <1>1 DEF IInv, RegistryConsistent
<1>11. /\ wr_fifos'[n] = h
       /\ \A m \in Registered : wr_fifos'[m] = wr_fifos[m]
  BY <1>1, <1>2, <1>3 DEF Register, Registered
<1>12. \A k, m \in Registered' : wr_fifos'[k] = wr_fifos'[m] => k = m
  BY <1>5, <1>10, <1>11 DEF IInv, RegistryConsistent
<1>13. \A m \in Registered' : mainEnd'[wr_fifos'[m]] = "open"
  BY <1>1, <1>2, <1>5, <1>10, <1>11
  DEF IInv, RegistryConsistent, MainOpensHandlerFifo, Registered
<1>14. Users = Registered
  BY DEF IInv, RegistryConsistent
<1> HIDE DEF n, h
<1> QED
  BY <1>4, <1>5, <1>7, <1>8, <1>9, <1>12, <1>13, <1>14 DEF RegistryConsistent

LEMMA RegistryStep == IInv /\ [Next]_vars => RegistryConsistent'
<1> SUFFICES ASSUME IInv, [Next]_vars PROVE RegistryConsistent'
  OBVIOUS
<1> USE HandlersAssumption
<1> USE DEF clientVars, handlerVars, regVars, mainVars
<1>1. CASE UNCHANGED <<max_clients, rd_fifos, wr_fifos, online_users, mainEnd>>
  BY <1>1 DEF IInv, RegistryConsistent, Users, Registered
<1>2. CASE MainOpenMain
  <2>1. mcur.h \in Handlers /\ mainEnd[mcur.h] = "never"
    BY <1>2 DEF IInv, Handshake, MainConsistent, MainOpenMain
  <2>2. \A n \in Registered : mainEnd'[wr_fifos[n]] = "open"
    BY <1>2, <2>1 DEF IInv, TypeOK, RegistryConsistent, MainOpenMain, Registered
  <2> QED
    BY <1>2, <2>2 DEF IInv, RegistryConsistent, MainOpenMain, Users, Registered
<1>3. CASE MainRefuse
  <2>1. mcur.h \in Handlers
    BY <1>3 DEF IInv, Handshake, MainConsistent, MainRefuse, MainOpensHandlerFifo
  <2>2. \A n \in Registered : mainEnd'[wr_fifos[n]] = "open"
    BY <1>3, <2>1
    DEF IInv, TypeOK, RegistryConsistent, MainRefuse, MainOpensHandlerFifo, Registered
  <2> QED
    BY <1>3, <2>2
    DEF IInv, RegistryConsistent, MainRefuse, MainOpensHandlerFifo, Users, Registered
<1>4. CASE MainRegister
  BY <1>4, RegisterKeeps DEF MainRegister
<1>5. CASE MainAckTooLong
  BY <1>5, RegisterKeeps DEF MainAckTooLong
<1>6. CASE MainReply
  <2>1. /\ mcur.h \in Handlers
        /\ mout.msg.type = "NAK" => \A n \in Registered : wr_fifos[n] # mcur.h
    BY <1>6 DEF IInv, Handshake, MainConsistent, MainReply
  <2>2. \A n \in Registered : mainEnd'[wr_fifos[n]] = "open"
    BY <1>6, <2>1 DEF IInv, TypeOK, RegistryConsistent, MainReply, Registered
  <2> QED
    BY <1>6, <2>2 DEF IInv, RegistryConsistent, MainReply, Users, Registered
<1>7. ASSUME NEW n \in Names, MainGoodbye(n) PROVE RegistryConsistent'
  <2>1. n \in Registered /\ rd_fifos[n] = wr_fifos[n] /\ wr_fifos[n] \in Handlers
    BY <1>7 DEF IInv, TypeOK, RegistryConsistent, MainGoodbye, MainSelects, FifoReady, Registered
  <2>2. Registered' = Registered \ {n} /\ rd_fifos' = wr_fifos'
    BY <1>7 DEF IInv, TypeOK, RegistryConsistent, MainGoodbye, Registered
  <2>3. PICK i \in 1 .. Len(online_users) :
          online_users[i] = n /\ online_users' = RemoveIndex(online_users, i)
    BY <1>7 DEF MainGoodbye
  <2> HIDE DEF clientVars, handlerVars, regVars, mainVars
  <2>a. online_users \in Seq(Names)
    BY DEF IInv, TypeOK
  <2>4. /\ Len(online_users') = Len(online_users) - 1
        /\ \A k \in 1 .. Len(online_users) - 1 :
             online_users'[k] = online_users[IF k < i THEN k ELSE k + 1]
    BY <2>3, <2>a, RemoveIndexFacts
  <2>5. \A j, k \in 1 .. Len(online_users) : online_users[j] = online_users[k] => j = k
    BY DEF IInv, RegistryConsistent
  <2>6. \A j, k \in 1 .. Len(online_users') : online_users'[j] = online_users'[k] => j = k
    BY <2>3, <2>4, <2>5, <2>a
  <2>7. Users' = Users \ {n}
    <3>1. \A k \in 1 .. Len(online_users) :
            k # i => \E j \in 1 .. Len(online_users') : online_users'[j] = online_users[k]
      <4> TAKE k \in 1 .. Len(online_users)
      <4> HAVE k # i
      <4>1. CASE k < i
        BY <2>3, <2>4, <2>a, <4>1
      <4>2. CASE k > i
        <5>1. k - 1 \in 1 .. Len(online_users') /\ online_users'[k - 1] = online_users[k]
          BY <2>3, <2>4, <2>a, <4>2
        <5> QED
          BY <5>1
      <4> QED
        BY <2>3, <2>a, <4>1, <4>2
    <3>2. \A j \in 1 .. Len(online_users') : online_users'[j] \in Users \ {n}
      BY <2>3, <2>4, <2>5, <2>a DEF Users
    <3>3. ASSUME NEW u \in Users \ {n} PROVE u \in Users'
      <4>1. PICK k \in 1 .. Len(online_users) : online_users[k] = u
        BY DEF Users
      <4>2. k # i
        BY <2>3, <4>1
      <4>3. PICK j \in 1 .. Len(online_users') : online_users'[j] = u
        BY <3>1, <4>1, <4>2
      <4> QED
        BY <4>3 DEF Users
    <3>4. ASSUME NEW u \in Users' PROVE u \in Users \ {n}
      <4>1. PICK j \in 1 .. Len(online_users') : online_users'[j] = u
        BY DEF Users
      <4> QED
        BY <3>2, <4>1
    <3> QED
      BY <3>3, <3>4
  <2>8. \A m \in Registered' : wr_fifos'[m] = wr_fifos[m]
    BY <1>7, <2>2 DEF IInv, TypeOK, MainGoodbye
  <2>9. \A m \in Registered' : mainEnd'[wr_fifos'[m]] = "open"
    <3>1. /\ \A m \in Registered' : m \in Registered /\ wr_fifos[m] # wr_fifos[n]
          /\ \A m \in Registered' : wr_fifos[m] \in Handlers /\ mainEnd[wr_fifos[m]] = "open"
      BY <2>1, <2>2 DEF IInv, TypeOK, RegistryConsistent, Registered
    <3>2. mainEnd' = [mainEnd EXCEPT ![wr_fifos[n]] = "closed"]
      BY <1>7, <2>1 DEF MainGoodbye
    <3> QED
      BY <2>8, <3>1, <3>2 DEF IInv, TypeOK
  <2>10. Len(online_users') <= max_clients'
    <3>1. max_clients \in Nat /\ max_clients' = max_clients
      BY <1>7 DEF IInv, TypeOK, MainGoodbye
    <3> QED
      BY <2>4, <2>a, <3>1 DEF IInv, RegistryConsistent
  <2>11. \A k, m \in Registered' : wr_fifos'[k] = wr_fifos'[m] => k = m
    BY <2>2, <2>8 DEF IInv, RegistryConsistent
  <2>12. Users = Registered
    BY DEF IInv, RegistryConsistent
  <2> QED
    BY <2>2, <2>6, <2>7, <2>9, <2>10, <2>11, <2>12 DEF RegistryConsistent
<1> QED
  BY <1>1, <1>2, <1>3, <1>4, <1>5, <1>6, <1>7, RegistryWriters

-----------------------------------------------------------------------------
(* The pipe.                                                               *)

(* The types the handshake rests on.                                       *)
LEMMA HandshakeTypes ==
  ASSUME TypeOK
  PROVE  /\ hpc \in [Handlers -> {"none", "dropped", "select", "openMain", "openHandler"} \cup Gone]
         /\ mainEnd \in [Handlers -> {"never", "half", "open", "closed"}]
         /\ Len(boot) \in Nat
         /\ \A i \in 1 .. Len(boot) : boot[i].h \in Handlers /\ boot[i].name \in Names
<1>1. boot \in Seq([h : Handlers, name : Names])
  BY DEF TypeOK
<1>2. ASSUME NEW S, NEW s \in Seq(S) PROVE Len(s) \in Nat /\ \A i \in 1 .. Len(s) : s[i] \in S
  OBVIOUS
<1>3. Len(boot) \in Nat /\ \A i \in 1 .. Len(boot) : boot[i] \in [h : Handlers, name : Names]
  BY <1>1, <1>2
<1> QED
  BY <1>3 DEF TypeOK

(* Main changing what it holds of a handler it has met keeps the pipe.     *)
LEMMA MainEndKeepsPipe ==
  ASSUME IInv, UNCHANGED <<hpc, files, boot>>, NEW h \in Handlers, NEW end,
         mainEnd[h] # "never", mainEnd' = [mainEnd EXCEPT ![h] = end]
  PROVE  PipeConsistent'
BY HandshakeTypes DEF IInv, Handshake, PipeConsistent

(* A handler that leaves its select loop keeps the pipe.                   *)
LEMMA HandlerEndsKeepsPipe ==
  ASSUME IInv, NEW h \in Handlers, hpc[h] = "select", NEW how \in Gone, NEW b \in BOOLEAN,
         HandlerEnds(h, how, b)
  PROVE  PipeConsistent'
BY HandshakeTypes DEF IInv, Handshake, PipeConsistent, HandlerEnds, Gone, mainVars, regVars

LEMMA PipeStep == IInv /\ [Next]_vars => PipeConsistent'
<1> SUFFICES ASSUME IInv, [Next]_vars PROVE PipeConsistent'
  OBVIOUS
<1> DEFINE Same == UNCHANGED <<hpc, files, boot, mainEnd>>
<1> USE DEF clientVars, handlerVars, regVars, mainVars
<1>1. CASE Same
  BY <1>1, HandshakeTypes DEF IInv, Handshake, PipeConsistent
<1>2. ASSUME NEW h \in Handlers, Accept(h) \/ Drop(h) PROVE PipeConsistent'
  BY <1>2, HandshakeTypes DEF IInv, Handshake, PipeConsistent, Accept, Drop
<1>3. ASSUME NEW h \in Handlers, HandlerJoin(h) PROVE PipeConsistent'
  <2> DEFINE b == [h |-> h, name |-> Head(sock[h]).user]
  <2>1. /\ boot \in Seq([h : Handlers, name : Names])
        /\ hpc[h] = "select" /\ mainEnd[h] = "never"
    BY <1>3, HandshakeTypes DEF HandlerJoin, IInv, TypeOK, Handshake, PipeConsistent
  <2>2. \A i \in 1 .. Len(boot) : boot[i].h # h /\ boot[i].h \in Handlers
    BY <2>1, HandshakeTypes DEF IInv, Handshake, PipeConsistent
  <2>3. /\ boot' = Append(boot, b) /\ b.h = h
        /\ hpc' = [hpc EXCEPT ![h] = "openMain"] /\ files' = files \cup {h}
        /\ mainEnd' = mainEnd
    BY <1>3 DEF HandlerJoin
  <2> HIDE DEF b
  <2>4. /\ Len(boot') = Len(boot) + 1 /\ boot'[Len(boot) + 1] = b
        /\ \A i \in 1 .. Len(boot) : boot'[i] = boot[i]
    BY <2>1, <2>3
  <2>5. \A i \in 1 .. Len(boot') : hpc'[boot'[i].h] = "openMain" /\ mainEnd'[boot'[i].h] = "never"
    BY <2>1, <2>2, <2>3, <2>4, HandshakeTypes DEF IInv, Handshake, PipeConsistent
  <2>6. \A i, j \in 1 .. Len(boot') : boot'[i].h = boot'[j].h => i = j
    BY <2>1, <2>2, <2>3, <2>4, HandshakeTypes DEF IInv, Handshake, PipeConsistent
  <2>7. \A g \in Handlers :
          /\ hpc'[g] \in {"none", "select"} /\ g \notin files' => mainEnd'[g] = "never"
          /\ hpc'[g] \in {"openMain", "openHandler"} => g \in files'
    BY <2>3, HandshakeTypes DEF IInv, Handshake, PipeConsistent
  <2> QED
    BY <2>5, <2>6, <2>7, HandshakeTypes DEF PipeConsistent
<1>4. ASSUME NEW h \in Handlers,
             \/ HandlerRejoin(h) \/ HandlerSigpipe(h) \/ HandlerEOF(h)
             \/ HandlerReset(h) \/ HandlerShortRead(h) \/ HandlerMainEOF(h)
      PROVE  PipeConsistent'
  BY <1>4, HandlerEndsKeepsPipe
  DEF HandlerRejoin, HandlerSigpipe, HandlerEOF, HandlerReset, HandlerShortRead, HandlerMainEOF, Gone
<1>5. ASSUME NEW h \in Handlers, HandlerOpenMain(h) PROVE PipeConsistent'
  BY <1>5, HandshakeTypes DEF IInv, Handshake, PipeConsistent, HandlerOpenMain
<1>6. ASSUME NEW h \in Handlers, HandlerOpenHandler(h) PROVE PipeConsistent'
  BY <1>6, HandshakeTypes DEF IInv, Handshake, PipeConsistent, HandlerOpenHandler
<1>7. CASE MainReadBootstrap
  <2>1. /\ Len(boot') = Len(boot) - 1
        /\ \A k \in 1 .. Len(boot') : k + 1 \in 1 .. Len(boot) /\ boot'[k] = boot[k + 1]
    <3>1. boot \in Seq([h : Handlers, name : Names]) /\ boot # <<>> /\ boot' = Tail(boot)
      BY <1>7 DEF MainReadBootstrap, IInv, TypeOK
    <3>2. Len(Tail(boot)) = Len(boot) - 1 /\ \A k \in 1 .. Len(boot) - 1 : Tail(boot)[k] = boot[k + 1]
      BY <3>1, HeadTailFacts
    <3> QED
      BY <3>1, <3>2, HandshakeTypes DEF IInv
  <2>2. UNCHANGED <<hpc, files, mainEnd>>
    BY <1>7 DEF MainReadBootstrap
  <2>3. \A i, j \in 1 .. Len(boot') : boot'[i].h = boot'[j].h => i = j
    <3>1. \A i, j \in 1 .. Len(boot) : boot[i].h = boot[j].h => i = j
      BY DEF IInv, Handshake, PipeConsistent
    <3> TAKE i, j \in 1 .. Len(boot')
    <3>2. /\ i \in Nat /\ j \in Nat
          /\ boot'[i] = boot[i + 1] /\ boot'[j] = boot[j + 1]
          /\ i + 1 \in 1 .. Len(boot) /\ j + 1 \in 1 .. Len(boot)
      BY <2>1, HandshakeTypes DEF IInv
    <3> HAVE boot'[i].h = boot'[j].h
    <3>3. i + 1 = j + 1
      BY <3>1, <3>2
    <3> QED
      BY <3>2, <3>3
  <2> QED
    BY <2>1, <2>2, <2>3, HandshakeTypes, SMTT(30) DEF IInv, Handshake, PipeConsistent
<1>8. CASE MainOpenMain
  <2>1. /\ mcur.h \in Handlers /\ hpc[mcur.h] = "openMain"
        /\ \A i \in 1 .. Len(boot) : boot[i].h # mcur.h
    BY <1>8 DEF IInv, Handshake, MainConsistent, MainOpenMain
  <2>2. UNCHANGED <<hpc, files, boot>> /\ mainEnd' = [mainEnd EXCEPT ![mcur.h] = "half"]
    BY <1>8 DEF MainOpenMain
  <2> QED
    BY <2>1, <2>2, HandshakeTypes DEF IInv, Handshake, PipeConsistent
<1>9. CASE MainRefuse \/ MainRegister \/ MainAckTooLong
  <2>1. mcur.h \in Handlers /\ mainEnd[mcur.h] = "half" /\ UNCHANGED <<hpc, files, boot>>
    BY <1>9 DEF IInv, Handshake, MainConsistent, MainRefuse, MainRegister, MainAckTooLong,
                MainOpensHandlerFifo
  <2>2. mainEnd' = [mainEnd EXCEPT ![mcur.h] = "open"]
    BY <1>9 DEF MainRefuse, MainRegister, MainAckTooLong, MainOpensHandlerFifo
  <2> QED
    BY <2>1, <2>2, MainEndKeepsPipe
<1>10. CASE MainReply
  <2>1. mcur.h \in Handlers /\ mainEnd[mcur.h] = "open" /\ UNCHANGED <<hpc, files, boot>>
    BY <1>10 DEF IInv, Handshake, MainConsistent, MainReply
  <2>2. mainEnd' = mainEnd \/ mainEnd' = [mainEnd EXCEPT ![mcur.h] = "closed"]
    BY <1>10 DEF MainReply
  <2> QED
    BY <1>1, <2>1, <2>2, MainEndKeepsPipe
<1>11. ASSUME NEW n \in Names, MainGoodbye(n) PROVE PipeConsistent'
  <2>1. /\ rd_fifos[n] \in Handlers /\ mainEnd[rd_fifos[n]] = "open"
        /\ UNCHANGED <<hpc, files, boot>>
    BY <1>11 DEF IInv, TypeOK, RegistryConsistent, MainGoodbye, MainSelects, FifoReady, Registered
  <2>2. mainEnd' = [mainEnd EXCEPT ![rd_fifos[n]] = "closed"]
    BY <1>11 DEF MainGoodbye
  <2> QED
    BY <2>1, <2>2, MainEndKeepsPipe
<1>12. ASSUME NEW h \in Handlers,
              \/ \E m \in ClientMessages(h) : ClientSend(h, m)
              \/ ClientRead(h) \/ ClientClose(h)
              \/ HandlerForward(h) \/ HandlerDiscard(h) \/ HandlerRelay(h)
       PROVE  Same
  BY <1>12 DEF ClientSend, ClientRead, ClientClose, HandlerForward, HandlerDiscard, HandlerRelay
<1>13. ASSUME NEW n \in Names, MainWrite(n) \/ MainForward(n) PROVE Same
  BY <1>13 DEF MainWrite, MainForward
<1>14. CASE MainSigpipe
  BY <1>14, <1>1 DEF MainSigpipe
<1>15. CASE UNCHANGED vars
  BY <1>15, <1>1 DEF vars
<1> HIDE DEF Same
<1> QED
  BY <1>1, <1>2, <1>3, <1>4, <1>5, <1>6, <1>7, <1>8, <1>9, <1>10, <1>11, <1>12, <1>13, <1>14, <1>15
  DEF Next, Main, Handler, Client

-----------------------------------------------------------------------------
(* Main.                                                                   *)

(* Between two of its own steps main is not disturbed: the handler it waits *)
(* for stays in its first open.                                            *)
LEMMA OthersKeepMain ==
  ASSUME IInv, UNCHANGED <<mpc, mcur, mout, mainEnd, wr_fifos>>,
         mpc = "openMain" => hpc'[mcur.h] = "openMain",
         mpc = "openMain" => \A i \in 1 .. Len(boot') : boot'[i].h # mcur.h
  PROVE  MainConsistent'
BY DEF IInv, Handshake, MainConsistent, Registered

(* A broadcast addresses registered users only.                            *)
LEMMA BroadcastKeepsMain ==
  ASSUME NEW m, NEW to, Broadcast(m, to), to \subseteq Registered'
  PROVE  MainConsistent'
BY DEF Broadcast, MainConsistent

LEMMA MainStep == IInv /\ [Next]_vars => MainConsistent'
<1> SUFFICES ASSUME IInv, [Next]_vars PROVE MainConsistent'
  OBVIOUS
<1> USE HandlersAssumption
<1> USE DEF clientVars, handlerVars, regVars, mainVars
<1> DEFINE Waited(h) == mpc = "openMain" /\ mcur.h = h
<1>1. ASSUME NEW h \in Handlers, Waited(h)
      PROVE  hpc[h] = "openMain" /\ mainEnd[h] = "never"
  BY <1>1 DEF IInv, Handshake, MainConsistent
<1>2. /\ mpc = "openMain" => mcur.h \in Handlers /\ hpc[mcur.h] = "openMain"
      /\ mpc = "openMain" => \A i \in 1 .. Len(boot) : boot[i].h # mcur.h
  BY DEF IInv, Handshake, MainConsistent
<1>3. CASE UNCHANGED <<mpc, mcur, mout, mainEnd, wr_fifos, hpc, boot>>
  BY <1>2, <1>3, OthersKeepMain
<1>4. ASSUME NEW h \in Handlers, NEW how, hpc[h] # "openMain" \/ mainEnd[h] # "never",
             hpc' = [hpc EXCEPT ![h] = how], UNCHANGED <<mpc, mcur, mout, mainEnd, wr_fifos, boot>>
      PROVE  MainConsistent'
  BY <1>1, <1>2, <1>4, OthersKeepMain, HandshakeTypes DEF IInv
<1>5. ASSUME NEW h \in Handlers, Accept(h) \/ Drop(h) PROVE MainConsistent'
  BY <1>4, <1>5 DEF Accept, Drop
<1>6. ASSUME NEW h \in Handlers, HandlerJoin(h) PROVE MainConsistent'
  <2> DEFINE b == [h |-> h, name |-> Head(sock[h]).user]
  <2>1. /\ boot' = Append(boot, b) /\ b.h = h /\ hpc[h] = "select"
        /\ hpc' = [hpc EXCEPT ![h] = "openMain"]
        /\ UNCHANGED <<mpc, mcur, mout, mainEnd, wr_fifos>>
    BY <1>6 DEF HandlerJoin
  <2> HIDE DEF b
  <2>2. /\ Len(boot') = Len(boot) + 1 /\ boot'[Len(boot) + 1] = b
        /\ \A i \in 1 .. Len(boot) : boot'[i] = boot[i]
    BY <2>1 DEF IInv, TypeOK
  <2>3. mpc = "openMain" => hpc'[mcur.h] = "openMain"
    BY <1>2, <2>1, HandshakeTypes DEF IInv
  <2>4. mpc = "openMain" => \A i \in 1 .. Len(boot') : boot'[i].h # mcur.h
    BY <1>2, <2>1, <2>2, HandshakeTypes DEF IInv
  <2> QED
    BY <2>1, <2>3, <2>4, OthersKeepMain
<1>7. ASSUME NEW h \in Handlers,
             \/ HandlerRejoin(h) \/ HandlerSigpipe(h) \/ HandlerEOF(h)
             \/ HandlerReset(h) \/ HandlerShortRead(h) \/ HandlerMainEOF(h)
      PROVE  MainConsistent'
  BY <1>4, <1>7 DEF HandlerRejoin, HandlerSigpipe, HandlerEOF, HandlerReset, HandlerShortRead, HandlerMainEOF,
                    HandlerEnds
<1>8. ASSUME NEW h \in Handlers, HandlerOpenMain(h) \/ HandlerOpenHandler(h)
      PROVE  MainConsistent'
  BY <1>4, <1>8 DEF HandlerOpenMain, HandlerOpenHandler
<1>9. ASSUME NEW h \in Handlers,
             \/ \E m \in ClientMessages(h) : ClientSend(h, m)
             \/ ClientRead(h) \/ ClientClose(h)
             \/ HandlerForward(h) \/ HandlerDiscard(h) \/ HandlerRelay(h)
      PROVE  MainConsistent'
  BY <1>3, <1>9
  DEF ClientSend, ClientRead, ClientClose, HandlerForward, HandlerDiscard, HandlerRelay
<1>10. CASE MainReadBootstrap
  <2>1. /\ boot \in Seq([h : Handlers, name : Names]) /\ boot # <<>> /\ boot' = Tail(boot)
        /\ mcur' = Head(boot) /\ mpc' = "openMain" /\ UNCHANGED <<hpc, mainEnd>>
    BY <1>10 DEF MainReadBootstrap, IInv, TypeOK
  <2>2. /\ 1 \in 1 .. Len(boot) /\ mcur' = boot[1]
        /\ Len(boot') = Len(boot) - 1
        /\ \A k \in 1 .. Len(boot) - 1 : boot'[k] = boot[k + 1]
    BY <2>1, HeadTailFacts
  <2>3. /\ mcur'.h \in Handlers /\ mcur'.name \in Names
        /\ hpc'[mcur'.h] = "openMain" /\ mainEnd'[mcur'.h] = "never"
    BY <2>1, <2>2, HandshakeTypes DEF IInv, Handshake, PipeConsistent
  <2>4. \A k \in 1 .. Len(boot') : boot'[k].h # mcur'.h
    BY <2>2, HandshakeTypes DEF IInv, Handshake, PipeConsistent
  <2> QED
    BY <2>1, <2>3, <2>4 DEF MainConsistent
<1>11. CASE MainOpenMain
  BY <1>11, HandshakeTypes DEF IInv, Handshake, MainConsistent, MainOpenMain
<1>12. ASSUME MainRefuse \/ MainRegister PROVE MainConsistent'
  <2>1. mcur.h \in Handlers /\ mcur.name \in Names /\ mainEnd[mcur.h] = "half"
    BY <1>12 DEF IInv, Handshake, MainConsistent, MainRefuse, MainRegister, MainOpensHandlerFifo
  <2>2. mpc' = "reply" /\ mcur' = mcur /\ mainEnd' = [mainEnd EXCEPT ![mcur.h] = "open"]
    BY <1>12 DEF MainRefuse, MainRegister, MainOpensHandlerFifo
  <2>3. mainEnd'[mcur.h] = "open"
    BY <2>1, <2>2, HandshakeTypes DEF IInv
  <2>4. \/ mout'.msg.type = "NAK" /\ wr_fifos' = wr_fifos
        \/ mout'.msg.type = "ACK"
    BY <1>12 DEF MainRefuse, MainRegister, NAK, ACK
  <2>5. \A n \in Registered : wr_fifos[n] # mcur.h
    BY <2>1 DEF IInv, RegistryConsistent
  <2> QED
    BY <2>1, <2>2, <2>3, <2>4, <2>5 DEF MainConsistent, Registered
<1>13. CASE MainAckTooLong \/ MainSigpipe
  BY <1>13 DEF MainAckTooLong, MainSigpipe, MainConsistent
<1>14. CASE MainReply
  <2>1. Registered' = Registered
    BY <1>14 DEF MainReply, Registered
  <2>2. Broadcast(NAK, {}) \/ Broadcast(ONLINE(mcur.name), Registered \ {mcur.name})
    BY <1>14 DEF MainReply
  <2> QED
    BY <2>1, <2>2, BroadcastKeepsMain
<1>15. ASSUME NEW n \in Names, MainWrite(n) PROVE MainConsistent'
  <2>1. Registered' = Registered /\ mout.to \ {n} \subseteq Registered
    BY <1>15 DEF MainWrite, Registered, IInv, Handshake, MainConsistent
  <2> QED
    BY <1>15, <2>1, BroadcastKeepsMain DEF MainWrite
<1>16. ASSUME NEW n \in Names, MainForward(n) PROVE MainConsistent'
  <2>1. Registered' = Registered
    BY <1>16 DEF MainForward, Registered
  <2>2. \E m : Broadcast(m, Registered \ {n})
    BY <1>16 DEF MainForward
  <2> QED
    BY <2>1, <2>2, BroadcastKeepsMain
<1>17. ASSUME NEW n \in Names, MainGoodbye(n) PROVE MainConsistent'
  <2>1. Registered \ {n} \subseteq Registered'
    BY <1>17 DEF MainGoodbye, Registered, IInv, TypeOK
  <2> QED
    BY <1>17, <2>1, BroadcastKeepsMain DEF MainGoodbye
<1>18. CASE UNCHANGED vars
  BY <1>3, <1>18 DEF vars
<1> QED
  BY <1>5, <1>6, <1>7, <1>8, <1>9, <1>10, <1>11, <1>12, <1>13, <1>14, <1>15, <1>16, <1>17, <1>18
  DEF Next, Main, Handler, Client

-----------------------------------------------------------------------------
(* The invariant is inductive, hence holds in every reachable state.       *)
THEOREM Invariance == Spec => []IInv
<1>1. IInv /\ [Next]_vars => IInv'
  BY TypeStep, RegistryStep, PipeStep, MainStep DEF IInv, Handshake
<1> QED
  BY InitIInv, <1>1, PTL DEF Spec

(* Every variable of main and of the handlers keeps its type, whatever the *)
(* number of connections and the order of their steps.                     *)
THEOREM TypeCorrect == Spec => []TypeOK
BY Invariance, PTL DEF IInv

(* main's three tables name the same users, within max_clients, each with  *)
(* a handler of its own whose fifos main holds open.                       *)
THEOREM RegistryCorrect == Spec => []RegistryConsistent
BY Invariance, PTL DEF IInv

(* main and a handler never miss each other in the four open() calls of a  *)
(* join.                                                                   *)
THEOREM HandshakeCorrect == Spec => []Handshake
BY Invariance, PTL DEF IInv

(* A name in use is not taken over, and its user is forgotten only after   *)
(* its handler is gone and all it forwarded was handled.                   *)
THEOREM NamesAreKept == Spec => NoTakeover
<1> DEFINE A == \A n \in Names :
                  wr_fifos[n] # NoFd /\ wr_fifos'[n] # wr_fifos[n] =>
                    /\ wr_fifos'[n] = NoFd
                    /\ hpc[wr_fifos[n]] \in Gone
                    /\ hfifo[wr_fifos[n]] = <<>>
<1>1. ASSUME IInv, [Next]_vars PROVE A
  <2> USE HandlersAssumption
  <2>1. CASE wr_fifos' = wr_fifos
    BY <2>1
  <2>2. ASSUME MainRegister \/ MainAckTooLong PROVE A
    <3>1. wr_fifos' = [wr_fifos EXCEPT ![mcur.name] = mcur.h] /\ rd_fifos[mcur.name] = NoFd
      BY <2>2 DEF MainRegister, MainAckTooLong, Register, Refused
    <3> QED
      BY <1>1, <3>1 DEF IInv, TypeOK, RegistryConsistent
  <2>3. ASSUME NEW n \in Names, MainGoodbye(n) PROVE A
    <3>1. /\ wr_fifos' = [wr_fifos EXCEPT ![n] = NoFd] /\ hfifo[rd_fifos[n]] = <<>>
          /\ FifoReady(n)
      BY <2>3 DEF MainGoodbye, MainSelects
    <3> QED
      BY <1>1, <3>1 DEF IInv, TypeOK, RegistryConsistent, FifoReady
  <2>4. MainOpenMain \/ MainRefuse \/ MainReply => wr_fifos' = wr_fifos
    BY DEF MainOpenMain, MainRefuse, MainReply, regVars
  <2> HIDE DEF A
  <2> QED
    BY <1>1, <2>1, <2>2, <2>3, <2>4, RegistryWriters
<1> QED
  BY Invariance, <1>1, PTL DEF Spec, NoTakeover

-----------------------------------------------------------------------------
(* Whose messages are under way.  A message keeps the connection it came    *)
(* from; main adds the name it has registered for that connection.  That is *)
(* the name of its JOIN, and a connection with a registered name has no NAK *)
(* ahead of it.                                                            *)

Elems(s) == {s[i] : i \in 1 .. Len(s)}

InSock(h) == Elems(sock[h])
InHfifo(h) == Elems(hfifo[h])
InInbox(h) == Elems(inbox[h])
InMfifo(h) == Elems(mfifo[h])

\* main has answered the JOIN of g, and not with a NAK.
Accepted(g) ==
  /\ mainEnd[g] \in {"open", "closed"} /\ told[g] # "NAK"
  /\ \A m \in InInbox(g) \cup InMfifo(g) : m.type # "NAK"
  /\ ~(mpc = "reply" /\ mcur.h = g /\ mout.msg.type = "NAK")

\* A message of a user is from an accepted connection, under its name.
Signed(m) ==
  m.type \in {"FWD", "IDLE"} =>
    m.id[1] \in Handlers /\ Accepted(m.id[1]) /\ m.user = user[m.id[1]]

Underway ==
  \A h \in Handlers :
    /\ \A m \in InSock(h) \cup InHfifo(h) : m.id[1] = h
    /\ \A m \in InInbox(h) \cup InMfifo(h) : Signed(m)
    /\ mainEnd[h] \in {"never", "half"} => told[h] # "NAK" /\ inbox[h] = <<>> /\ mfifo[h] = <<>>

NamesKnown ==
  /\ \A i \in 1 .. Len(boot) : boot[i].name = user[boot[i].h]
  /\ mpc \in {"openMain", "openHandler", "reply"} => mcur.name = user[mcur.h]
  /\ \A n \in Names, g \in Handlers : wr_fifos[n] = g => Accepted(g) /\ user[g] = n
  /\ \A m \in Message : mpc = "write" /\ mout.msg = m => Signed(m) /\ m.type # "NAK"

StreamInv == IInv /\ Underway /\ NamesKnown

(* The members of a queue after a step on it.                              *)
LEMMA ElemsFacts ==
  /\ Elems(<<>>) = {}
  /\ \A s \in Seq(Message) : s # <<>> =>
       Head(s) \in Elems(s) /\ Elems(Tail(s)) \subseteq Elems(s)
  /\ \A s \in Seq(Message), m \in Message : Elems(Append(s, m)) = Elems(s) \cup {m}
  /\ \A s \in Seq(Message) : Elems(s) \subseteq Message
<1>1. Elems(<<>>) = {}
  BY DEF Elems
<1>2. ASSUME NEW s \in Seq(Message), s # <<>>
      PROVE  Head(s) \in Elems(s) /\ Elems(Tail(s)) \subseteq Elems(s)
  BY <1>2, HeadTailFacts DEF Elems
<1>3. ASSUME NEW s \in Seq(Message), NEW m \in Message
      PROVE  Elems(Append(s, m)) = Elems(s) \cup {m}
  <2>1. /\ Len(Append(s, m)) = Len(s) + 1 /\ Append(s, m)[Len(s) + 1] = m /\ Len(s) \in Nat
        /\ \A i \in 1 .. Len(s) : Append(s, m)[i] = s[i]
    OBVIOUS
  <2> HIDE DEF Elems
  <2> DEFINE t == Append(s, m)
  <2>2. /\ Len(t) = Len(s) + 1 /\ t[Len(s) + 1] = m /\ \A i \in 1 .. Len(s) : t[i] = s[i]
    BY <2>1
  <2> HIDE DEF t
  <2>3. Elems(t) = Elems(s) \cup {m}
    BY <2>1, <2>2 DEF Elems
  <2> QED
    BY <2>3 DEF t
<1>4. ASSUME NEW s \in Seq(Message) PROVE Elems(s) \subseteq Message
  BY DEF Elems
<1> QED
  BY <1>1, <1>2, <1>3, <1>4

LEMMA ElementTyped ==
  ASSUME NEW S, NEW s \in Seq(S), NEW i \in 1 .. Len(s) PROVE s[i] \in S
OBVIOUS

LEMMA ConcatElems ==
  ASSUME NEW s \in Seq(Message), NEW t \in Seq(Message)
  PROVE  /\ s \o t \in Seq(Message)
         /\ \A i \in DOMAIN (s \o t) : (s \o t)[i] \in Elems(s) \cup Elems(t)
<1>1. s \o t \in Seq(Message) /\ DOMAIN (s \o t) = 1 .. Len(s) + Len(t)
  OBVIOUS
<1>2. \A i \in 1 .. Len(s) + Len(t) :
        (s \o t)[i] = IF i <= Len(s) THEN s[i] ELSE t[i - Len(s)]
  OBVIOUS
<1>3. Len(s) \in Nat /\ Len(t) \in Nat
  OBVIOUS
<1>4. ASSUME NEW i \in 1 .. Len(s) + Len(t)
      PROVE  (s \o t)[i] \in Elems(s) \cup Elems(t)
  <2>1. CASE i <= Len(s)
    BY <1>2, <1>3, <2>1 DEF Elems
  <2>2. CASE i > Len(s)
    <3>1. i - Len(s) \in 1 .. Len(t) /\ (s \o t)[i] = t[i - Len(s)]
      BY <1>2, <1>3, <2>2
    <3> QED
      BY <3>1 DEF Elems
  <2> QED
    BY <1>3, <2>1, <2>2
<1> QED
  BY <1>1, <1>4

LEMMA PrimedElems ==
  ASSUME NEW h \in Handlers
  PROVE  /\ InSock(h)' = Elems(sock'[h]) /\ InHfifo(h)' = Elems(hfifo'[h])
         /\ InInbox(h)' = Elems(inbox'[h]) /\ InMfifo(h)' = Elems(mfifo'[h])
BY DEF InSock, InHfifo, InInbox, InMfifo, Elems

(* What a step does to the queues of one connection.                       *)
LEMMA SockShrinks ==
  ASSUME IInv, NEW h \in Handlers,
         \/ Main \/ UNCHANGED vars
         \/ \E g \in Handlers : \/ Handler(g) \/ Accept(g) \/ Drop(g) \/ ClientRead(g)
                               \/ ClientClose(g)
  PROVE  sock'[h] \in {sock[h], <<>>} \/ (sock[h] # <<>> /\ sock'[h] = Tail(sock[h]))
<1> USE DEF clientVars, handlerVars, mainVars, regVars
<1>0. TypeOK
  BY DEF IInv
<1>1. CASE Main \/ UNCHANGED vars
  BY <1>1 DEF vars, Main, MainReadBootstrap, MainOpenMain, MainRefuse, MainRegister,
              MainAckTooLong, MainOpensHandlerFifo, MainReply, MainSigpipe, MainWrite, MainForward,
              MainGoodbye
<1>2. ASSUME NEW g \in Handlers, Handler(g)
      PROVE  sock'[h] \in {sock[h], <<>>} \/ (sock[h] # <<>> /\ sock'[h] = Tail(sock[h]))
  <2>1. CASE HandlerJoin(g) \/ HandlerForward(g) \/ HandlerDiscard(g)
    <3>1. sock[g] # <<>> /\ sock' = [sock EXCEPT ![g] = Tail(@)]
      BY <2>1 DEF HandlerJoin, HandlerForward, HandlerDiscard
    <3> QED
      BY <1>0, <3>1 DEF TypeOK
  <2>2. CASE \/ HandlerRejoin(g) \/ HandlerSigpipe(g) \/ HandlerEOF(g)
             \/ HandlerReset(g) \/ HandlerShortRead(g) \/ HandlerMainEOF(g)
    <3>1. sock' = [sock EXCEPT ![g] = <<>>]
      BY <2>2 DEF HandlerRejoin, HandlerSigpipe, HandlerEOF, HandlerReset, HandlerShortRead,
                  HandlerMainEOF, HandlerEnds
    <3> QED
      BY <1>0, <3>1 DEF TypeOK
  <2>3. CASE HandlerOpenMain(g) \/ HandlerOpenHandler(g) \/ HandlerRelay(g)
    BY <2>3 DEF HandlerOpenMain, HandlerOpenHandler, HandlerRelay
  <2> QED
    BY <1>2, <2>1, <2>2, <2>3 DEF Handler
<1>3. ASSUME NEW g \in Handlers, Accept(g) \/ Drop(g) \/ ClientRead(g) \/ ClientClose(g)
      PROVE  sock'[h] = sock[h]
  BY <1>3 DEF Accept, Drop, ClientRead, ClientClose
<1> QED
  BY <1>1, <1>2, <1>3

LEMMA SockFlow ==
  ASSUME IInv, [Next]_vars, NEW h \in Handlers
  PROVE  \/ sock'[h] \in {sock[h], <<>>}
         \/ sock[h] # <<>> /\ sock'[h] = Tail(sock[h])
         \/ \E m \in Message : m.id[1] = h /\ sock'[h] = Append(sock[h], m)
<1>0. TypeOK
  BY DEF IInv
<1>1. ASSUME \/ Main \/ UNCHANGED vars
             \/ \E g \in Handlers : \/ Handler(g) \/ Accept(g) \/ Drop(g) \/ ClientRead(g)
                                   \/ ClientClose(g)
      PROVE  sock'[h] \in {sock[h], <<>>} \/ (sock[h] # <<>> /\ sock'[h] = Tail(sock[h]))
  BY <1>1, SockShrinks
<1>4. ASSUME NEW g \in Handlers, NEW m \in ClientMessages(g), ClientSend(g, m)
      PROVE  sock'[h] = sock[h] \/ (m \in Message /\ m.id[1] = h /\ sock'[h] = Append(sock[h], m))
  <2> DEFINE id == <<g, sent[g] + 1>>
  <2>1. id \in Ids /\ id[1] = g
    <3>1. sent[g] + 1 \in Nat
      BY <1>0, SMTT(30) DEF TypeOK
    <3> QED
      BY <3>1 DEF Ids
  <2>2. (\E n \in Names : m = JOIN(n, id)) \/ m = SEND(id) \/ m = IDLE(id)
    BY DEF ClientMessages
  <2> HIDE DEF id
  <2>3. m \in Message /\ m.id[1] = g
    <3>1. m \in Message
      BY <2>1, <2>2, MessagesTyped
    <3>2. m.id = id
      BY <2>2 DEF JOIN, SEND, IDLE
    <3> QED
      BY <2>1, <3>1, <3>2
  <2>4. sock' = [sock EXCEPT ![g] = Append(@, m)]
    BY <1>4 DEF ClientSend
  <2> QED
    BY <1>0, <2>3, <2>4 DEF TypeOK
<1> QED
  BY <1>1, <1>4 DEF Next, Client

LEMMA HfifoFlow ==
  ASSUME IInv, [Next]_vars, NEW h \in Handlers
  PROVE  \/ hfifo'[h] = hfifo[h]
         \/ hfifo[h] # <<>> /\ hfifo'[h] = Tail(hfifo[h])
         \/ /\ sock[h] # <<>> /\ Head(sock[h]).type \in {"SEND", "IDLE"}
            /\ hfifo'[h] = Append(hfifo[h], Head(sock[h]))
<1> USE DEF clientVars, handlerVars, mainVars, regVars
<1>0. TypeOK
  BY DEF IInv
<1>1. ASSUME NEW n \in Names, MainForward(n)
      PROVE  hfifo'[h] = hfifo[h] \/ (hfifo[h] # <<>> /\ hfifo'[h] = Tail(hfifo[h]))
  BY <1>0, <1>1 DEF TypeOK, MainForward
<1>2. ASSUME \/ UNCHANGED vars \/ MainReadBootstrap \/ MainOpenMain \/ MainRefuse \/ MainRegister
             \/ MainAckTooLong \/ MainReply \/ MainSigpipe
             \/ \E n \in Names : MainWrite(n) \/ MainGoodbye(n)
      PROVE  hfifo' = hfifo
  BY <1>2 DEF vars, MainReadBootstrap, MainOpenMain, MainRefuse, MainRegister,
              MainAckTooLong, MainOpensHandlerFifo, MainReply, MainSigpipe, MainWrite, MainGoodbye
<1>3. ASSUME NEW g \in Handlers, HandlerForward(g)
      PROVE  \/ hfifo'[h] = hfifo[h]
             \/ /\ sock[h] # <<>> /\ Head(sock[h]).type \in {"SEND", "IDLE"}
                /\ hfifo'[h] = Append(hfifo[h], Head(sock[h]))
  BY <1>0, <1>3 DEF TypeOK, HandlerForward
<1>4. ASSUME NEW g \in Handlers, Handler(g), ~HandlerForward(g) PROVE hfifo' = hfifo
  BY <1>4 DEF Handler, HandlerJoin, HandlerRejoin, HandlerOpenMain, HandlerOpenHandler,
              HandlerSigpipe, HandlerDiscard, HandlerEOF, HandlerReset,
              HandlerShortRead, HandlerRelay, HandlerMainEOF, HandlerEnds
<1>5. ASSUME NEW g \in Handlers, Client(g) PROVE hfifo' = hfifo
  BY <1>5 DEF Client, Accept, Drop, ClientSend, ClientRead, ClientClose
<1> QED
  BY <1>1, <1>2, <1>3, <1>4, <1>5 DEF Next, Main

LEMMA InboxFlow ==
  ASSUME IInv, [Next]_vars, NEW h \in Handlers
  PROVE  \/ inbox'[h] = inbox[h] /\ told'[h] = told[h]
         \/ /\ inbox[h] # <<>> /\ inbox'[h] = Tail(inbox[h])
            /\ told'[h] \in {told[h], Head(inbox[h]).type}
         \/ /\ mfifo[h] # <<>> /\ inbox'[h] = Append(inbox[h], Head(mfifo[h]))
            /\ told'[h] = told[h]
<1> USE DEF clientVars, handlerVars, mainVars, regVars
<1>0. TypeOK
  BY DEF IInv
<1>1. CASE Main \/ UNCHANGED vars
  BY <1>1 DEF vars, Main, MainReadBootstrap, MainOpenMain, MainRefuse, MainRegister,
              MainAckTooLong, MainOpensHandlerFifo, MainReply, MainSigpipe, MainWrite, MainForward,
              MainGoodbye
<1>2. ASSUME NEW g \in Handlers, HandlerRelay(g)
      PROVE  /\ told'[h] = told[h]
             /\ inbox'[h] = inbox[h] \/ (mfifo[h] # <<>> /\ inbox'[h] = Append(inbox[h], Head(mfifo[h])))
  BY <1>0, <1>2 DEF TypeOK, HandlerRelay
<1>3. ASSUME NEW g \in Handlers, Handler(g), ~HandlerRelay(g) PROVE inbox' = inbox /\ told' = told
  BY <1>3 DEF Handler, HandlerJoin, HandlerRejoin, HandlerOpenMain, HandlerOpenHandler,
              HandlerForward, HandlerSigpipe, HandlerDiscard, HandlerEOF, HandlerReset,
              HandlerShortRead, HandlerMainEOF, HandlerEnds
<1>4. ASSUME NEW g \in Handlers, ClientRead(g)
      PROVE  \/ inbox'[h] = inbox[h] /\ told'[h] = told[h]
             \/ /\ inbox[h] # <<>> /\ inbox'[h] = Tail(inbox[h])
                /\ told'[h] \in {told[h], Head(inbox[h]).type}
  BY <1>0, <1>4 DEF TypeOK, ClientRead
<1>5. ASSUME NEW g \in Handlers, Client(g), ~ClientRead(g) PROVE inbox' = inbox /\ told' = told
  BY <1>5 DEF Client, Accept, Drop, ClientSend, ClientClose
<1> QED
  BY <1>1, <1>2, <1>3, <1>4, <1>5 DEF Next

LEMMA MfifoFlow ==
  ASSUME IInv, [Next]_vars, NEW h \in Handlers
  PROVE  \/ mfifo'[h] \in {mfifo[h], <<>>}
         \/ mfifo[h] # <<>> /\ mfifo'[h] = Tail(mfifo[h])
         \/ /\ (mpc = "write" \/ (mpc = "reply" /\ mcur.h = h)) /\ mainEnd[h] = "open"
            /\ mfifo'[h] = Append(mfifo[h], mout.msg)
<1> USE DEF clientVars, handlerVars, mainVars, regVars
<1>0. TypeOK
  BY DEF IInv
<1>1. ASSUME MainReply
      PROVE  \/ mfifo'[h] = mfifo[h]
             \/ /\ mpc = "reply" /\ mcur.h = h /\ mainEnd[h] = "open"
                /\ mfifo'[h] = Append(mfifo[h], mout.msg)
  BY <1>0, <1>1 DEF TypeOK, MainReply, IInv, Handshake, MainConsistent
<1>2. ASSUME NEW n \in Names, MainWrite(n)
      PROVE  \/ mfifo'[h] = mfifo[h]
             \/ /\ mpc = "write" /\ mainEnd[h] = "open"
                /\ mfifo'[h] = Append(mfifo[h], mout.msg)
  <2>1. mainEnd[wr_fifos[n]] = "open"
    BY <1>2 DEF MainWrite, IInv, Handshake, MainConsistent, RegistryConsistent
  <2> QED
    BY <1>0, <1>2, <2>1 DEF TypeOK, MainWrite
<1>3. ASSUME \/ UNCHANGED vars \/ MainReadBootstrap \/ MainOpenMain \/ MainRefuse \/ MainRegister
             \/ MainAckTooLong \/ MainSigpipe
             \/ \E n \in Names : MainForward(n) \/ MainGoodbye(n)
      PROVE  mfifo' = mfifo
  BY <1>3 DEF vars, MainReadBootstrap, MainOpenMain, MainRefuse, MainRegister,
              MainAckTooLong, MainOpensHandlerFifo, MainSigpipe, MainForward, MainGoodbye
<1>4. ASSUME NEW g \in Handlers, Handler(g)
      PROVE  mfifo'[h] \in {mfifo[h], <<>>} \/ (mfifo[h] # <<>> /\ mfifo'[h] = Tail(mfifo[h]))
  <2>1. CASE HandlerRelay(g)
    BY <1>0, <2>1 DEF TypeOK, HandlerRelay
  <2>2. CASE \/ HandlerRejoin(g) \/ HandlerSigpipe(g) \/ HandlerEOF(g)
             \/ HandlerReset(g) \/ HandlerShortRead(g) \/ HandlerMainEOF(g)
    <3>1. mfifo' = [mfifo EXCEPT ![g] = <<>>]
      BY <2>2 DEF HandlerRejoin, HandlerSigpipe, HandlerEOF, HandlerReset, HandlerShortRead,
                  HandlerMainEOF, HandlerEnds
    <3> QED
      BY <1>0, <3>1 DEF TypeOK
  <2>3. CASE \/ HandlerJoin(g) \/ HandlerForward(g) \/ HandlerDiscard(g)
             \/ HandlerOpenMain(g) \/ HandlerOpenHandler(g)
    BY <2>3 DEF HandlerJoin, HandlerForward, HandlerDiscard, HandlerOpenMain, HandlerOpenHandler
  <2> QED
    BY <1>4, <2>1, <2>2, <2>3 DEF Handler
<1>5. ASSUME NEW g \in Handlers, Client(g) PROVE mfifo' = mfifo
  BY <1>5 DEF Client, Accept, Drop, ClientSend, ClientRead, ClientClose
<1> QED
  BY <1>1, <1>2, <1>3, <1>4, <1>5 DEF Next, Main

(* A handler learns its name before main knows of it.                      *)
LEMMA UserFlow ==
  ASSUME IInv, [Next]_vars, NEW h \in Handlers
  PROVE  user'[h] = user[h] \/ (HandlerJoin(h) /\ mainEnd[h] = "never" /\ hpc[h] = "select")
<1> USE DEF clientVars, handlerVars, mainVars, regVars
<1>0. TypeOK
  BY DEF IInv
<1>1. CASE Main \/ UNCHANGED vars
  BY <1>1 DEF vars, Main, MainReadBootstrap, MainOpenMain, MainRefuse, MainRegister,
              MainAckTooLong, MainOpensHandlerFifo, MainReply, MainSigpipe, MainWrite, MainForward,
              MainGoodbye
<1>2. ASSUME NEW g \in Handlers, HandlerJoin(g)
      PROVE  user'[h] = user[h] \/ (HandlerJoin(h) /\ mainEnd[h] = "never" /\ hpc[h] = "select")
  <2>1. CASE g = h
    BY <1>2, <2>1 DEF HandlerJoin, IInv, Handshake, PipeConsistent
  <2>2. CASE g # h
    BY <1>0, <1>2, <2>2 DEF HandlerJoin, TypeOK
  <2> QED
    BY <2>1, <2>2
<1>3. ASSUME NEW g \in Handlers, Handler(g), ~HandlerJoin(g) PROVE user' = user
  BY <1>3 DEF Handler, HandlerRejoin, HandlerOpenMain, HandlerOpenHandler,
              HandlerForward, HandlerSigpipe, HandlerDiscard, HandlerEOF, HandlerReset,
              HandlerShortRead, HandlerRelay, HandlerMainEOF, HandlerEnds
<1>4. ASSUME NEW g \in Handlers, Client(g) PROVE user' = user
  BY <1>4 DEF Client, Accept, Drop, ClientSend, ClientRead, ClientClose
<1> QED
  BY <1>1, <1>2, <1>3, <1>4 DEF Next

(* main's end of a handler's fifos only goes forward.                      *)
LEMMA EndFlow ==
  ASSUME IInv, [Next]_vars, NEW h \in Handlers
  PROVE  \/ mainEnd'[h] = mainEnd[h]
         \/ mainEnd[h] = "never" /\ mainEnd'[h] = "half"
         \/ mainEnd[h] = "half" /\ mainEnd'[h] = "open"
         \/ mainEnd[h] = "open" /\ mainEnd'[h] = "closed"
<1> USE DEF clientVars, handlerVars, mainVars, regVars
<1>0. TypeOK
  BY DEF IInv
<1>1. CASE MainOpenMain \/ MainRefuse \/ MainRegister \/ MainAckTooLong
  BY <1>0, <1>1 DEF MainOpenMain, MainRefuse, MainRegister, MainAckTooLong, MainOpensHandlerFifo,
         IInv, Handshake, MainConsistent, TypeOK
<1>2. CASE MainReply
  BY <1>0, <1>2 DEF MainReply, IInv, Handshake, MainConsistent, TypeOK
<1>3. ASSUME NEW n \in Names, MainGoodbye(n)
      PROVE  mainEnd'[h] = mainEnd[h] \/ (mainEnd[h] = "open" /\ mainEnd'[h] = "closed")
  <2>1. mainEnd[rd_fifos[n]] = "open"
    BY <1>3 DEF MainGoodbye, MainSelects, FifoReady, IInv, RegistryConsistent, Registered
  <2> QED
    BY <1>0, <1>3, <2>1 DEF MainGoodbye, TypeOK
<1> QED
  BY <1>1, <1>2, <1>3, RegistryWriters

(* What main writes after a step: what it wrote before, an announcement, or *)
(* a message from the fifo of a user, under the name of that user.         *)
LEMMA WriteFlow ==
  ASSUME IInv, [Next]_vars, mpc' = "write"
  PROVE  \/ mpc = "write" /\ mout'.msg = mout.msg
         \/ mout'.msg.type \in {"ONLINE", "OFFLINE"} /\ mout'.msg.id = NoId
         \/ \E n \in Registered :
              LET m == Head(hfifo[wr_fifos[n]]) IN
                /\ hfifo[wr_fifos[n]] # <<>>
                /\ mout'.msg \in {change_to_fwd(m, n), add_username(m, n)}
                /\ mout'.msg.type \in {"FWD", "IDLE"}
<1> USE DEF clientVars, handlerVars, mainVars, regVars
<1>0. TypeOK /\ rd_fifos = wr_fifos
  BY DEF IInv, RegistryConsistent
<1>1. CASE MainReply
  <2>1. mout'.msg = ONLINE(mcur.name) \/ mpc' = "select"
    BY <1>1 DEF MainReply, Broadcast
  <2> QED
    BY <2>1 DEF ONLINE
<1>2. ASSUME NEW n \in Names, MainWrite(n) PROVE mpc = "write" /\ mout'.msg = mout.msg
  BY <1>2 DEF MainWrite, Broadcast
<1>3. ASSUME NEW n \in Names, MainGoodbye(n) PROVE mout'.msg.type = "OFFLINE" /\ mout'.msg.id = NoId
  BY <1>3 DEF MainGoodbye, Broadcast, OFFLINE
<1>4. ASSUME NEW n \in Names, MainForward(n)
      PROVE  LET m == Head(hfifo[wr_fifos[n]]) IN
               /\ n \in Registered /\ hfifo[wr_fifos[n]] # <<>>
               /\ mout'.msg \in {change_to_fwd(m, n), add_username(m, n)}
               /\ mout'.msg.type \in {"FWD", "IDLE"}
  <2> DEFINE h == wr_fifos[n]
  <2> DEFINE m == Head(hfifo[h])
  <2>1. n \in Registered /\ h \in Handlers /\ hfifo[h] # <<>>
    BY <1>0, <1>4 DEF MainForward, MainSelects, FifoReady, Registered, TypeOK
  <2>2. m \in Message
    BY <1>0, <2>1, HeadTailFacts DEF TypeOK
  <2>3. \/ m.type = "SEND" /\ mout'.msg = change_to_fwd(m, n)
        \/ m.type = "IDLE" /\ mout'.msg = add_username(m, n)
    BY <1>0, <1>4 DEF MainForward, Broadcast
  <2>4. mout'.msg.type \in {"FWD", "IDLE"}
    <3> HIDE DEF m
    <3> QED
      BY <2>2, <2>3 DEF change_to_fwd, add_username, Message
  <2> QED
    BY <2>1, <2>3, <2>4
<1>5. CASE MainReadBootstrap \/ MainOpenMain \/ MainRefuse \/ MainRegister \/ MainAckTooLong \/ MainSigpipe
  BY <1>5 DEF MainReadBootstrap, MainOpenMain, MainRefuse, MainRegister, MainAckTooLong, MainSigpipe
<1>6. ASSUME (\E g \in Handlers : Handler(g)) \/ UNCHANGED vars PROVE mpc' = mpc /\ mout' = mout
  BY <1>6 DEF vars, Handler, HandlerJoin, HandlerRejoin, HandlerOpenMain, HandlerOpenHandler,
              HandlerForward, HandlerSigpipe, HandlerDiscard, HandlerEOF, HandlerReset,
              HandlerShortRead, HandlerRelay, HandlerMainEOF, HandlerEnds
<1>7. ASSUME NEW g \in Handlers, Client(g) PROVE mpc' = mpc /\ mout' = mout
  BY <1>7 DEF Client, Accept, Drop, ClientSend, ClientRead, ClientClose
<1> QED
  BY <1>1, <1>2, <1>3, <1>4, <1>5, <1>6, <1>7 DEF Next, Main

(* The JOIN main is working on after a step, and the answer to it.         *)
LEMMA JoinFlow ==
  ASSUME IInv, [Next]_vars, mpc' \in {"openMain", "openHandler", "reply"}
  PROVE  /\ \/ mpc \in {"openMain", "openHandler", "reply"} /\ mcur' = mcur
            \/ boot # <<>> /\ mcur' = Head(boot)
         /\ mpc' = "reply" =>
              \/ mpc = "reply" /\ mout' = mout
              \/ mpc = "openHandler" /\ mainEnd[mcur.h] = "half"
<1> USE DEF clientVars, handlerVars, mainVars, regVars
<1>1. CASE MainReply \/ \E n \in Names : MainWrite(n) \/ MainForward(n) \/ MainGoodbye(n)
  BY <1>1 DEF MainReply, MainWrite, MainForward, MainGoodbye, Broadcast
<1>2. CASE MainReadBootstrap \/ MainOpenMain \/ MainRefuse \/ MainRegister \/ MainAckTooLong \/ MainSigpipe
  BY <1>2 DEF MainReadBootstrap, MainOpenMain, MainRefuse, MainRegister, MainAckTooLong,
              MainSigpipe, MainOpensHandlerFifo, IInv, Handshake, MainConsistent
<1>3. ASSUME (\E g \in Handlers : Handler(g)) \/ UNCHANGED vars
      PROVE  mpc' = mpc /\ mout' = mout /\ mcur' = mcur
  BY <1>3 DEF vars, Handler, HandlerJoin, HandlerRejoin, HandlerOpenMain, HandlerOpenHandler,
              HandlerForward, HandlerSigpipe, HandlerDiscard, HandlerEOF, HandlerReset,
              HandlerShortRead, HandlerRelay, HandlerMainEOF, HandlerEnds
<1>4. ASSUME NEW g \in Handlers, Client(g) PROVE mpc' = mpc /\ mout' = mout /\ mcur' = mcur
  BY <1>4 DEF Client, Accept, Drop, ClientSend, ClientRead, ClientClose
<1> QED
  BY <1>1, <1>2, <1>3, <1>4 DEF Next, Main

(* The bootstrap pipe.                                                     *)
LEMMA BootFlow ==
  ASSUME IInv, [Next]_vars
  PROVE  \/ boot' = boot
         \/ boot # <<>> /\ boot' = Tail(boot)
         \/ \E h \in Handlers : HandlerJoin(h)
<1> USE DEF clientVars, handlerVars, mainVars, regVars
<1>1. CASE Main \/ UNCHANGED vars
  BY <1>1 DEF vars, Main, MainReadBootstrap, MainOpenMain, MainRefuse, MainRegister,
              MainAckTooLong, MainOpensHandlerFifo, MainReply, MainSigpipe, MainWrite, MainForward,
              MainGoodbye
<1>2. ASSUME NEW g \in Handlers, Handler(g), ~HandlerJoin(g) PROVE boot' = boot
  BY <1>2 DEF Handler, HandlerRejoin, HandlerOpenMain, HandlerOpenHandler,
              HandlerForward, HandlerSigpipe, HandlerDiscard, HandlerEOF, HandlerReset,
              HandlerShortRead, HandlerRelay, HandlerMainEOF, HandlerEnds
<1>3. ASSUME NEW g \in Handlers, Client(g) PROVE boot' = boot
  BY <1>3 DEF Client, Accept, Drop, ClientSend, ClientRead, ClientClose
<1> QED
  BY <1>1, <1>2, <1>3 DEF Next

(* What a connection is going to read after a step.                        *)
LEMMA ReadFlow ==
  ASSUME StreamInv, [Next]_vars, NEW h \in Handlers,
         NEW m, m \in InInbox(h)' \cup InMfifo(h)'
  PROVE  \/ m \in InInbox(h) \cup InMfifo(h)
         \/ mpc = "write" /\ m = mout.msg
         \/ mpc = "reply" /\ mcur.h = h /\ m = mout.msg
<1>0. IInv /\ TypeOK
  BY DEF StreamInv, IInv
<1>1. inbox[h] \in Seq(Message) /\ mfifo[h] \in Seq(Message) /\ mout.msg \in Message
  BY <1>0 DEF TypeOK
<1>2. InInbox(h)' \subseteq InInbox(h) \cup InMfifo(h)
  <2>1. mfifo[h] # <<>> => Head(mfifo[h]) \in Message /\ Head(mfifo[h]) \in Elems(mfifo[h])
    BY <1>1, ElemsFacts, HeadTailFacts
  <2>2. \/ inbox'[h] = inbox[h]
        \/ inbox[h] # <<>> /\ inbox'[h] = Tail(inbox[h])
        \/ mfifo[h] # <<>> /\ inbox'[h] = Append(inbox[h], Head(mfifo[h]))
    BY <1>0, InboxFlow
  <2>3. Elems(inbox'[h]) \subseteq Elems(inbox[h]) \cup Elems(mfifo[h])
    <3>1. CASE inbox[h] # <<>> /\ inbox'[h] = Tail(inbox[h])
      BY <1>1, <3>1, ElemsFacts
    <3>2. CASE mfifo[h] # <<>> /\ inbox'[h] = Append(inbox[h], Head(mfifo[h]))
      <4>1. Elems(inbox'[h]) = Elems(inbox[h]) \cup {Head(mfifo[h])}
        BY <1>1, <2>1, <3>2, ElemsFacts
      <4> QED
        BY <2>1, <3>2, <4>1
    <3> QED
      BY <2>2, <3>1, <3>2
  <2> QED
    BY <2>3, PrimedElems DEF InInbox, InMfifo
<1>3. \/ InMfifo(h)' \subseteq InMfifo(h)
      \/ /\ mpc = "write" \/ (mpc = "reply" /\ mcur.h = h)
         /\ InMfifo(h)' \subseteq InMfifo(h) \cup {mout.msg}
  <2>1. \/ mfifo'[h] \in {mfifo[h], <<>>}
        \/ mfifo[h] # <<>> /\ mfifo'[h] = Tail(mfifo[h])
        \/ /\ mpc = "write" \/ (mpc = "reply" /\ mcur.h = h)
           /\ mfifo'[h] = Append(mfifo[h], mout.msg)
    BY <1>0, MfifoFlow
  <2>2. \/ Elems(mfifo'[h]) \subseteq Elems(mfifo[h])
        \/ /\ mpc = "write" \/ (mpc = "reply" /\ mcur.h = h)
           /\ Elems(mfifo'[h]) \subseteq Elems(mfifo[h]) \cup {mout.msg}
    <3>1. CASE mfifo[h] # <<>> /\ mfifo'[h] = Tail(mfifo[h])
      BY <1>1, <3>1, ElemsFacts
    <3>2. CASE mfifo'[h] = <<>>
      BY <3>2, ElemsFacts
    <3>3. CASE mfifo'[h] = Append(mfifo[h], mout.msg)
      <4>1. Elems(mfifo'[h]) = Elems(mfifo[h]) \cup {mout.msg}
        BY <1>1, <3>3, ElemsFacts
      <4> QED
        BY <2>1, <3>1, <3>2, <4>1
    <3> QED
      BY <2>1, <3>1, <3>2, <3>3
  <2> QED
    BY <2>2, PrimedElems DEF InMfifo
<1> QED
  BY <1>2, <1>3

(* A connection that main has accepted stays accepted, under its name.     *)
LEMMA AcceptedStays ==
  ASSUME StreamInv, [Next]_vars, NEW g \in Handlers, Accepted(g)
  PROVE  Accepted(g)' /\ user'[g] = user[g]
<1>0. IInv /\ TypeOK
  BY DEF StreamInv, IInv
<1>1. mainEnd'[g] \in {"open", "closed"}
  BY <1>0, EndFlow DEF Accepted
<1>2. user'[g] = user[g]
  BY <1>0, UserFlow DEF Accepted
<1>3. told'[g] # "NAK"
  <2>1. inbox[g] # <<>> => Head(inbox[g]) \in InInbox(g)
    BY <1>0, ElemsFacts DEF TypeOK, InInbox
  <2>2. inbox[g] # <<>> => Head(inbox[g]).type # "NAK"
    BY <2>1 DEF Accepted
  <2>3. told[g] # "NAK"
    BY DEF Accepted
  <2> QED
    BY <1>0, <2>2, <2>3, InboxFlow
<1>4. ASSUME NEW m, m \in InInbox(g)' \cup InMfifo(g)' PROVE m.type # "NAK"
  <2>1. CASE m \in InInbox(g) \cup InMfifo(g)
    BY <2>1 DEF Accepted
  <2>2. CASE mpc = "write" /\ m = mout.msg
    BY <1>0, <2>2 DEF StreamInv, NamesKnown, TypeOK
  <2>3. CASE mpc = "reply" /\ mcur.h = g /\ m = mout.msg
    BY <2>3 DEF Accepted
  <2> QED
    BY <1>4, <2>1, <2>2, <2>3, ReadFlow
<1>5. ASSUME mpc' = "reply", mcur'.h = g, mout'.msg.type = "NAK" PROVE FALSE
  <2>1. \/ mpc = "reply" /\ mout' = mout
        \/ mpc = "openHandler" /\ mainEnd[mcur.h] = "half"
    BY <1>0, <1>5, JoinFlow
  <2>2. boot # <<>> /\ mcur' = Head(boot) => mainEnd[mcur'.h] = "never"
    <3>1. \A i \in 1 .. Len(boot) : mainEnd[boot[i].h] = "never"
      BY <1>0 DEF IInv, Handshake, PipeConsistent
    <3>2. boot # <<>> => Head(boot) = boot[1] /\ 1 \in 1 .. Len(boot)
      BY <1>0, HeadTailFacts DEF TypeOK
    <3> QED
      BY <3>1, <3>2
  <2>3. mcur' = mcur
    BY <1>0, <1>5, <2>2, JoinFlow DEF Accepted
  <2> QED
    BY <1>5, <2>1, <2>3 DEF Accepted
<1> QED
  BY <1>1, <1>2, <1>3, <1>4, <1>5 DEF Accepted

LEMMA SignedStays ==
  ASSUME StreamInv, [Next]_vars, NEW m, Signed(m)
  PROVE  Signed(m)'
<1>1. SUFFICES ASSUME m.type \in {"FWD", "IDLE"} PROVE Accepted(m.id[1])' /\ m.user = user'[m.id[1]]
  BY DEF Signed
<1>2. PICK g \in Handlers : g = m.id[1] /\ Accepted(g) /\ m.user = user[g]
  BY <1>1 DEF Signed
<1>3. Accepted(g)' /\ user'[g] = user[g]
  BY <1>2, AcceptedStays
<1> QED
  BY <1>2, <1>3

LEMMA UnderwayStep == StreamInv /\ [Next]_vars => Underway'
<1> SUFFICES ASSUME StreamInv, [Next]_vars, NEW h \in Handlers
             PROVE  /\ \A m \in InSock(h)' \cup InHfifo(h)' : m.id[1] = h
                    /\ \A m \in InInbox(h)' \cup InMfifo(h)' : Signed(m)'
                    /\ mainEnd'[h] \in {"never", "half"} =>
                         told'[h] # "NAK" /\ inbox'[h] = <<>> /\ mfifo'[h] = <<>>
  BY DEF Underway
<1>0. IInv /\ TypeOK /\ Underway /\ NamesKnown
  BY DEF StreamInv, IInv
<1>1. /\ sock[h] \in Seq(Message) /\ hfifo[h] \in Seq(Message)
      /\ inbox[h] \in Seq(Message) /\ mfifo[h] \in Seq(Message)
  BY <1>0 DEF TypeOK
<1>2. \A m \in Elems(sock[h]) \cup Elems(hfifo[h]) : m.id[1] = h
  BY <1>0 DEF Underway, InSock, InHfifo
<1>3. \A m \in Elems(sock'[h]) : m.id[1] = h
  <2>1. CASE sock'[h] \in {sock[h], <<>>} \/ (sock[h] # <<>> /\ sock'[h] = Tail(sock[h]))
    BY <1>1, <1>2, <2>1, ElemsFacts
  <2>2. ASSUME NEW m \in Message, m.id[1] = h, sock'[h] = Append(sock[h], m)
        PROVE  \A k \in Elems(sock'[h]) : k.id[1] = h
    <3>1. Elems(sock'[h]) = Elems(sock[h]) \cup {m}
      BY <1>1, <2>2, ElemsFacts
    <3> QED
      BY <1>2, <2>2, <3>1
  <2> QED
    BY <1>0, <2>1, <2>2, SockFlow
<1>4. \A m \in Elems(hfifo'[h]) : m.id[1] = h
  <2>1. CASE hfifo'[h] = hfifo[h] \/ (hfifo[h] # <<>> /\ hfifo'[h] = Tail(hfifo[h]))
    BY <1>1, <1>2, <2>1, ElemsFacts
  <2>2. CASE sock[h] # <<>> /\ hfifo'[h] = Append(hfifo[h], Head(sock[h]))
    <3>1. Head(sock[h]) \in Message /\ Head(sock[h]) \in Elems(sock[h])
      BY <1>1, <2>2, ElemsFacts, HeadTailFacts
    <3>2. Elems(hfifo'[h]) = Elems(hfifo[h]) \cup {Head(sock[h])}
      BY <1>1, <2>2, <3>1, ElemsFacts
    <3> QED
      BY <1>2, <3>1, <3>2
  <2> QED
    BY <1>0, <2>1, <2>2, HfifoFlow
<1>5. ASSUME NEW m, m \in InInbox(h)' \cup InMfifo(h)' PROVE Signed(m)'
  <2>1. Signed(m)
    <3>1. CASE m \in InInbox(h) \cup InMfifo(h)
      BY <1>0, <3>1 DEF Underway
    <3>2. CASE mpc = "write" /\ m = mout.msg
      BY <1>0, <3>2 DEF NamesKnown, TypeOK
    <3>3. CASE mpc = "reply" /\ m = mout.msg
      <4>1. m.type \in {"ACK", "NAK"}
        BY <1>0, <3>3 DEF IInv, Handshake, MainConsistent
      <4> QED
        BY <4>1 DEF Signed
    <3> QED
      BY <1>5, <3>1, <3>2, <3>3, ReadFlow
  <2> QED
    BY <2>1, SignedStays
<1>6. ASSUME mainEnd'[h] \in {"never", "half"}
      PROVE  told'[h] # "NAK" /\ inbox'[h] = <<>> /\ mfifo'[h] = <<>>
  <2>1. mainEnd[h] \in {"never", "half"}
    BY <1>0, <1>6, EndFlow
  <2>2. told[h] # "NAK" /\ inbox[h] = <<>> /\ mfifo[h] = <<>>
    BY <1>0, <2>1 DEF Underway
  <2>3. told'[h] = told[h] /\ inbox'[h] = inbox[h]
    BY <1>0, <2>2, InboxFlow
  <2>4. mfifo'[h] = <<>>
    BY <1>0, <2>1, <2>2, MfifoFlow
  <2> QED
    BY <2>2, <2>3, <2>4
<1> QED
  BY <1>3, <1>4, <1>5, <1>6, PrimedElems

LEMMA NamesStep == StreamInv /\ [Next]_vars => NamesKnown'
<1> SUFFICES ASSUME StreamInv, [Next]_vars PROVE NamesKnown'
  OBVIOUS
<1>0. IInv /\ TypeOK /\ Underway /\ NamesKnown /\ TypeOK'
  BY TypeStep DEF StreamInv, IInv
<1>1. ASSUME NEW i \in 1 .. Len(boot)
      PROVE  boot[i].name = user'[boot[i].h] /\ boot[i].h \in Handlers
  <2>1. boot[i].h \in Handlers /\ boot[i].name = user[boot[i].h] /\ hpc[boot[i].h] = "openMain"
    <3>1. boot[i].name = user[boot[i].h]
      BY <1>0 DEF NamesKnown
    <3>2. hpc[boot[i].h] = "openMain"
      BY <1>0 DEF IInv, Handshake, PipeConsistent
    <3>3. boot \in Seq([h : Handlers, name : Names])
      BY <1>0 DEF TypeOK
    <3>4. boot[i] \in [h : Handlers, name : Names]
      BY <3>3, ElementTyped
    <3> QED
      BY <3>1, <3>2, <3>4
  <2> QED
    BY <1>0, <2>1, UserFlow
<1>2. ASSUME NEW i \in 1 .. Len(boot') PROVE boot'[i].name = user'[boot'[i].h]
  <2>1. CASE boot' = boot
    BY <1>1, <2>1
  <2>2. CASE boot # <<>> /\ boot' = Tail(boot)
    <3>1. i + 1 \in 1 .. Len(boot) /\ boot'[i] = boot[i + 1]
      BY <1>0, <2>2, HeadTailFacts DEF TypeOK
    <3> QED
      BY <1>1, <3>1
  <2>3. ASSUME NEW h \in Handlers, HandlerJoin(h) PROVE boot'[i].name = user'[boot'[i].h]
    <3> DEFINE n == Head(sock[h]).user
    <3> DEFINE new == [h |-> h, name |-> n]
    <3>1. user' = [user EXCEPT ![h] = n] /\ boot' = Append(boot, new)
      BY <2>3 DEF HandlerJoin
    <3>2. user'[h] = n
      BY <1>0, <3>1 DEF TypeOK
    <3>3. new.h = h /\ new.name = n
      OBVIOUS
    <3> HIDE DEF new, n
    <3>4. boot'[i] = new \/ (i \in 1 .. Len(boot) /\ boot'[i] = boot[i])
      <4>1. boot \in Seq([h : Handlers, name : Names])
        BY <1>0 DEF TypeOK
      <4>2. Len(boot') = Len(boot) + 1 /\ Len(boot) \in Nat /\ boot'[Len(boot) + 1] = new
        BY <3>1, <4>1
      <4>3. \A k \in 1 .. Len(boot) : boot'[k] = boot[k]
        BY <3>1, <4>1
      <4>4. i = Len(boot) + 1 \/ i \in 1 .. Len(boot)
        BY <4>2
      <4> QED
        BY <4>2, <4>3, <4>4
    <3> QED
      BY <1>1, <3>2, <3>3, <3>4
  <2> QED
    BY <1>0, <2>1, <2>2, <2>3, BootFlow
<1>3. ASSUME mpc' \in {"openMain", "openHandler", "reply"} PROVE mcur'.name = user'[mcur'.h]
  <2>1. CASE boot # <<>> /\ mcur' = Head(boot)
    <3>1. 1 \in 1 .. Len(boot) /\ mcur' = boot[1]
      BY <1>0, <2>1, HeadTailFacts DEF TypeOK
    <3> QED
      BY <1>1, <3>1
  <2>2. CASE mpc \in {"openMain", "openHandler", "reply"} /\ mcur' = mcur
    <3>1. /\ mcur.h \in Handlers /\ mcur.name = user[mcur.h]
          /\ hpc[mcur.h] = "openMain" \/ mainEnd[mcur.h] \in {"half", "open"}
      BY <1>0, <2>2 DEF NamesKnown, IInv, Handshake, MainConsistent
    <3>2. user'[mcur.h] = user[mcur.h]
      BY <1>0, <3>1, UserFlow
    <3> QED
      BY <2>2, <3>1, <3>2
  <2> QED
    BY <1>0, <1>3, <2>1, <2>2, JoinFlow
<1>4. ASSUME NEW n \in Names, NEW g \in Handlers, wr_fifos'[n] = g
      PROVE  Accepted(g)' /\ user'[g] = n
  <2>1. CASE wr_fifos'[n] = wr_fifos[n]
    <3>1. Accepted(g) /\ user[g] = n
      BY <1>0, <1>4, <2>1 DEF NamesKnown
    <3> QED
      BY <3>1, AcceptedStays
  <2>2. CASE MainRegister \/ MainAckTooLong
    <3>1. /\ wr_fifos' = [wr_fifos EXCEPT ![mcur.name] = mcur.h] /\ mpc = "openHandler"
          /\ mainEnd' = [mainEnd EXCEPT ![mcur.h] = "open"]
          /\ told' = told /\ inbox' = inbox /\ mfifo' = mfifo /\ user' = user
          /\ mpc' = "dead" \/ mout'.msg.type = "ACK"
      BY <2>2 DEF MainRegister, MainAckTooLong, MainOpensHandlerFifo, Register, ACK,
                  clientVars, handlerVars
    <3>4. CASE n # mcur.name
      <4>1. wr_fifos'[n] = wr_fifos[n]
        BY <1>0, <3>1, <3>4 DEF TypeOK
      <4> QED
        BY <2>1, <4>1
    <3>5. CASE n = mcur.name
      <4>0. g = mcur.h
        BY <1>0, <1>4, <3>1, <3>5 DEF TypeOK
      <4> mainEnd[g] = "half" /\ mcur.name = user[g]
        BY <1>0, <3>1, <4>0 DEF NamesKnown, IInv, Handshake, MainConsistent
      <4>1. user'[g] = n /\ mainEnd'[g] = "open"
        BY <1>0, <3>1, <3>5, <4>0 DEF TypeOK
      <4>2. told[g] # "NAK" /\ inbox[g] = <<>> /\ mfifo[g] = <<>>
        BY <1>0 DEF Underway
      <4>3. InInbox(g)' = {} /\ InMfifo(g)' = {}
        BY <3>1, <4>2, ElemsFacts, PrimedElems
      <4>4. Accepted(g)'
        BY <3>1, <4>1, <4>2, <4>3 DEF Accepted
      <4> QED
        BY <4>1, <4>4
    <3> QED
      BY <3>4, <3>5
  <2>3. ASSUME NEW k \in Names, MainGoodbye(k)
        PROVE  wr_fifos'[n] = wr_fifos[n]
    BY <1>0, <1>4, <2>3, HandlersAssumption DEF MainGoodbye, TypeOK
  <2>4. ASSUME \/ UNCHANGED <<max_clients, rd_fifos, wr_fifos, online_users, mainEnd>>
               \/ MainOpenMain \/ MainRefuse \/ MainReply
        PROVE  wr_fifos'[n] = wr_fifos[n]
    BY <2>4 DEF MainOpenMain, MainRefuse, MainReply, regVars
  <2> QED
    BY <2>1, <2>2, <2>3, <2>4, RegistryWriters
<1>5. ASSUME NEW m \in Message, mpc' = "write", mout'.msg = m
      PROVE  Signed(m)' /\ m.type # "NAK"
  <2>2. Signed(m) /\ m.type # "NAK"
    <3>1. CASE mpc = "write" /\ m = mout.msg
      BY <1>0, <3>1 DEF NamesKnown
    <3>2. CASE m.type \in {"ONLINE", "OFFLINE"}
      BY <3>2 DEF Signed
    <3>3. ASSUME NEW n \in Registered, hfifo[wr_fifos[n]] # <<>>,
                 m \in {change_to_fwd(Head(hfifo[wr_fifos[n]]), n), add_username(Head(hfifo[wr_fifos[n]]), n)},
                 m.type \in {"FWD", "IDLE"}
          PROVE  Signed(m) /\ m.type # "NAK"
      <4>1. PICK g \in Handlers : g = wr_fifos[n]
        BY <1>0 DEF Registered, TypeOK
      <4>2. Accepted(g) /\ user[g] = n
        BY <1>0, <4>1 DEF NamesKnown, Registered
      <4>3. PICK k \in Message : k = Head(hfifo[g]) /\ k \in InHfifo(g)
        BY <1>0, <3>3, <4>1, ElemsFacts, HeadTailFacts DEF TypeOK, InHfifo
      <4>4. k.id[1] = g
        BY <1>0, <4>3 DEF Underway
      <4>5. m.id = k.id /\ m.user = n
        BY <3>3, <4>1, <4>3 DEF change_to_fwd, add_username, Message
      <4> QED
        BY <3>3, <4>2, <4>4, <4>5 DEF Signed
    <3> QED
      BY <1>0, <1>5, <3>1, <3>2, <3>3, WriteFlow
  <2> QED
    BY <2>2, SignedStays
<1> QED
  BY <1>2, <1>3, <1>4, <1>5 DEF NamesKnown

LEMMA InitStreamInv == Init => StreamInv
<1> SUFFICES ASSUME Init PROVE StreamInv
  OBVIOUS
<1>1. IInv
  BY InitIInv
<1>2. Underway
  BY ElemsFacts DEF Init, Underway, InSock, InHfifo, InInbox, InMfifo
<1>3. NamesKnown
  <2>1. boot = <<>> /\ Len(boot) = 0 /\ mpc = "select" /\ wr_fifos = [n \in Names |-> NoFd]
    BY DEF Init
  <2> QED
    BY <2>1, HandlersAssumption DEF NamesKnown
<1> QED
  BY <1>1, <1>2, <1>3 DEF StreamInv

(* Whatever a user reads under another user's name was sent by the          *)
(* connection that joined with that name, and main did not refuse it: the  *)
(* name main puts on a message is its own record, and that record is never *)
(* of a connection other than the one the fifo belongs to.                 *)
THEOREM MessagesAreAttributed == Spec => []Attribution
<1>1. StreamInv /\ [Next]_vars => StreamInv'
  <2>1. StreamInv /\ [Next]_vars => IInv'
    BY TypeStep, RegistryStep, PipeStep, MainStep DEF StreamInv, IInv, Handshake
  <2> QED
    BY <2>1, UnderwayStep, NamesStep DEF StreamInv
<1>2. StreamInv => Attribution
  <2> SUFFICES ASSUME StreamInv, NEW n \in Chatters, NEW i \in DOMAIN ToRead(n),
                      ToRead(n)[i].type \in {"FWD", "IDLE"}
               PROVE  LET m == ToRead(n)[i] IN m.user = user[m.id[1]] /\ told[m.id[1]] # "NAK"
    BY DEF Attribution
  <2>0. TypeOK
    BY DEF StreamInv, IInv
  <2>1. PICK h \in Handlers : h = wr_fifos[n]
    BY <2>0 DEF Chatters, Listening, Registered, TypeOK
  <2>2. \/ Pending(n) = <<>>
        \/ Pending(n) = <<mout.msg>> /\ mpc = "write"
        \/ Pending(n) = <<mout.msg>> /\ mpc = "reply" /\ mout.msg.type = "ACK"
        \/ Pending(n) = <<ONLINE(mcur.name)>> /\ mpc = "reply"
    BY DEF Pending
  <2>3. inbox[h] \in Seq(Message) /\ mfifo[h] \in Seq(Message)
    BY <2>0 DEF TypeOK
  <2>4. PICK m : m = ToRead(n)[i]
    OBVIOUS
  <2>5. Signed(m)
    <3>1. \/ m \in InInbox(h) \cup InMfifo(h)
          \/ mpc = "write" /\ m = mout.msg
      <4> DEFINE p == Pending(n)
      <4> DEFINE s == inbox[h] \o mfifo[h]
      <4>1. /\ p \in Seq(Message)
            /\ \A k \in Elems(p) : (mpc = "write" /\ k = mout.msg) \/ k.type \in {"ACK", "ONLINE"}
        <5>1. mout.msg \in Message
          BY <2>0 DEF TypeOK
        <5>2. CASE p = <<mout.msg>> /\ (mpc = "write" \/ mout.msg.type = "ACK")
          <6>1. Elems(<<mout.msg>>) = {mout.msg}
            BY DEF Elems
          <6> HIDE DEF p
          <6> QED
            BY <5>1, <5>2, <6>1
        <5>3. CASE p = <<ONLINE(mcur.name)>> /\ mpc = "reply"
          <6>1. ONLINE(mcur.name) \in Message
            BY <5>3, MessagesTyped DEF StreamInv, IInv, Handshake, MainConsistent
          <6>2. ONLINE(mcur.name).type = "ONLINE"
            BY DEF ONLINE
          <6> QED
            BY <5>3, <6>1, <6>2 DEF Elems
        <5>4. CASE p = <<>>
          BY <5>4, ElemsFacts
        <5> QED
          BY <2>2, <5>2, <5>3, <5>4
      <4>2. ToRead(n) = s \o p
        BY <2>1 DEF ToRead
      <4>3. s \in Seq(Message) /\ \A k \in DOMAIN s : s[k] \in InInbox(h) \cup InMfifo(h)
        BY <2>3, ConcatElems DEF InInbox, InMfifo
      <4> HIDE DEF p, s
      <4>4. m \in Elems(s) \cup Elems(p)
        BY <2>4, <4>1, <4>2, <4>3, ConcatElems
      <4>5. m \in Elems(s) => m \in InInbox(h) \cup InMfifo(h)
        BY <4>3 DEF Elems
      <4> QED
        BY <2>4, <4>1, <4>4, <4>5
    <3>2. CASE m \in InInbox(h) \cup InMfifo(h)
      BY <3>2 DEF StreamInv, Underway
    <3>3. CASE mpc = "write" /\ m = mout.msg
      BY <2>0, <3>3 DEF StreamInv, NamesKnown, TypeOK
    <3> QED
      BY <3>1, <3>2, <3>3
  <2>6. Accepted(m.id[1]) /\ m.user = user[m.id[1]]
    BY <2>4, <2>5 DEF Signed
  <2> QED
    BY <2>4, <2>6 DEF Accepted
<1> QED
  BY InitStreamInv, <1>1, <1>2, PTL DEF Spec

-----------------------------------------------------------------------------
(* Reading a stream.                                                       *)

LEMMA HeadTailAt ==
  ASSUME NEW s \in Seq(Message), s # <<>>
  PROVE  /\ Len(s) \in Nat \ {0} /\ Tail(s) \in Seq(Message) /\ Len(Tail(s)) = Len(s) - 1
         /\ Head(s) = s[1] /\ \A i \in 1 .. Len(s) - 1 : Tail(s)[i] = s[i + 1]
OBVIOUS

LEMMA AppendAt ==
  ASSUME NEW s \in Seq(Message), NEW m \in Message
  PROVE  /\ Append(s, m) \in Seq(Message) /\ Len(s) \in Nat /\ Len(Append(s, m)) = Len(s) + 1
         /\ Append(s, m)[Len(s) + 1] = m /\ \A i \in 1 .. Len(s) : Append(s, m)[i] = s[i]
OBVIOUS

LEMMA ShownBy ==
  ASSUME NEW us \in SUBSET Names, NEW m \in Message, NEW k \in Names
  PROVE  k \in Shown(us, m) <=> Shows(m, k) \/ (k \in us /\ ~Speaks(m, k))
<1>1. m.type \in Types /\ m.users \subseteq Names
  BY DEF Message
<1>2. CASE m.type = "ACK"
  BY <1>2 DEF Shown, Shows, Speaks
<1>3. CASE m.type = "ONLINE"
  BY <1>3 DEF Shown, Shows, Speaks
<1>4. CASE m.type = "OFFLINE"
  BY <1>4 DEF Shown, Shows, Speaks
<1>5. CASE m.type \notin {"ACK", "ONLINE", "OFFLINE"}
  BY <1>5 DEF Shown, Shows, Speaks
<1> QED
  BY <1>2, <1>3, <1>4, <1>5

LEMMA ShownTyped ==
  ASSUME NEW us \in SUBSET Names, NEW m \in Message
  PROVE  Shown(us, m) \in SUBSET Names
<1>1. m.users \subseteq Names /\ (m.type = "ONLINE" => m.user \in Names)
  BY DEF Message
<1> QED
  BY <1>1 DEF Shown

(* ViewAfter reads a stream message by message, as ClientRead does.        *)
LEMMA ViewNext ==
  ASSUME NEW us \in SUBSET Names, NEW s, NEW i \in Nat, s[i + 1] \in Message
  PROVE  ViewAfter(us, s, i + 1) = Shown(ViewAfter(us, s, i), s[i + 1])
<1> DEFINE m == s[i + 1]
           V == ViewAfter(us, s, i)
           W == ViewAfter(us, s, i + 1)
<1>1. V \in SUBSET Names /\ W \in SUBSET Names
  BY DEF ViewAfter
<1>2. \A k \in Names : Shows(m, k) => Speaks(m, k)
  BY DEF Shows, Speaks
<1>3. ASSUME NEW k \in Names
      PROVE  k \in W <=> Shows(m, k) \/ (k \in V /\ ~Speaks(m, k))
  <2>1. k \in V <=> \/ k \in us /\ \A j \in 1 .. i : ~Speaks(s[j], k)
                    \/ \E j \in 1 .. i : Shows(s[j], k) /\ \A l \in j + 1 .. i : ~Speaks(s[l], k)
    BY DEF ViewAfter
  <2>2. k \in W <=> \/ k \in us /\ \A j \in 1 .. i + 1 : ~Speaks(s[j], k)
                    \/ \E j \in 1 .. i + 1 :
                         Shows(s[j], k) /\ \A l \in j + 1 .. i + 1 : ~Speaks(s[l], k)
    BY DEF ViewAfter
  <2> HIDE DEF V, W
  <2>3. ASSUME Shows(m, k) PROVE k \in W
    BY <2>2, <2>3
  <2>4. ASSUME k \in V, ~Speaks(m, k) PROVE k \in W
    BY <2>1, <2>2, <2>4
  <2>5. ASSUME k \in W, ~Shows(m, k) PROVE k \in V /\ ~Speaks(m, k)
    BY <2>1, <2>2, <2>5, <1>2
  <2> QED
    BY <2>3, <2>4, <2>5
<1>4. \A k \in Names : k \in Shown(V, m) <=> Shows(m, k) \/ (k \in V /\ ~Speaks(m, k))
  BY <1>1, ShownBy
<1>5. Shown(V, m) \in SUBSET Names
  BY <1>1, ShownTyped
<1> QED
  BY <1>1, <1>3, <1>4, <1>5

LEMMA ViewAlike ==
  ASSUME NEW us, NEW s, NEW t, NEW i \in Nat, \A j \in 1 .. i : s[j] = t[j]
  PROVE  ViewAfter(us, s, i) = ViewAfter(us, t, i)
<1>1. \A k \in Names : \A j \in 1 .. i : /\ Shows(s[j], k) <=> Shows(t[j], k)
                                        /\ Speaks(s[j], k) <=> Speaks(t[j], k)
  OBVIOUS
<1>2. \A j \in 1 .. i : j + 1 .. i \subseteq 1 .. i
  OBVIOUS
<1> HIDE DEF Shows, Speaks
<1> QED
  BY <1>1, <1>2 DEF ViewAfter

LEMMA ViewTail ==
  ASSUME NEW us \in SUBSET Names, NEW s \in Seq(Message), s # <<>>, NEW i \in 0 .. Len(s) - 1
  PROVE  ViewAfter(Shown(us, Head(s)), Tail(s), i) = ViewAfter(us, s, i + 1)
<1> DEFINE m == Head(s)
           t == Tail(s)
           V == ViewAfter(Shown(us, m), t, i)
           W == ViewAfter(us, s, i + 1)
<1>0. m \in Message /\ m = s[1] /\ i \in Nat /\ \A j \in 1 .. i : t[j] = s[j + 1]
  BY HeadTailAt
<1>1. V \in SUBSET Names /\ W \in SUBSET Names
  BY DEF ViewAfter
<1>2. ASSUME NEW k \in Names PROVE k \in V <=> k \in W
  <2>1. k \in V <=> \/ k \in Shown(us, m) /\ \A j \in 1 .. i : ~Speaks(t[j], k)
                    \/ \E j \in 1 .. i : Shows(t[j], k) /\ \A l \in j + 1 .. i : ~Speaks(t[l], k)
    BY DEF ViewAfter
  <2>2. k \in W <=> \/ k \in us /\ \A j \in 1 .. i + 1 : ~Speaks(s[j], k)
                    \/ \E j \in 1 .. i + 1 :
                         Shows(s[j], k) /\ \A l \in j + 1 .. i + 1 : ~Speaks(s[l], k)
    BY DEF ViewAfter
  <2>3. k \in Shown(us, m) <=> Shows(m, k) \/ (k \in us /\ ~Speaks(m, k))
    BY <1>0, ShownBy
  <2> HIDE DEF V, W, m, t
  <2>4. ASSUME k \in V PROVE k \in W
    <3>1. CASE k \in Shown(us, m) /\ \A j \in 1 .. i : ~Speaks(t[j], k)
      <4>1. \A j \in 2 .. i + 1 : ~Speaks(s[j], k)
        <5>1. \A j \in 2 .. i + 1 : j - 1 \in 1 .. i /\ s[j] = t[j - 1]
          BY <1>0
        <5> QED
          BY <3>1, <5>1
      <4>2. CASE Shows(m, k)
        BY <1>0, <2>2, <4>1, <4>2
      <4>3. CASE k \in us /\ ~Speaks(m, k)
        BY <1>0, <2>2, <4>1, <4>3
      <4> QED
        BY <2>3, <3>1, <4>2, <4>3
    <3>2. ASSUME NEW j \in 1 .. i, Shows(t[j], k), \A l \in j + 1 .. i : ~Speaks(t[l], k)
          PROVE  k \in W
      <4>1. j + 1 \in 1 .. i + 1 /\ Shows(s[j + 1], k)
        BY <1>0, <3>2
      <4>2. ASSUME NEW l \in j + 1 + 1 .. i + 1 PROVE ~Speaks(s[l], k)
        <5>1. l - 1 \in j + 1 .. i /\ l - 1 \in 1 .. i /\ s[l] = t[l - 1]
          BY <1>0
        <5> QED
          BY <3>2, <5>1
      <4> QED
        BY <2>2, <4>1, <4>2
    <3> QED
      BY <2>1, <2>4, <3>1, <3>2
  <2>5. ASSUME k \in W PROVE k \in V
    <3>1. CASE k \in us /\ \A j \in 1 .. i + 1 : ~Speaks(s[j], k)
      <4>1. \A j \in 1 .. i : ~Speaks(t[j], k)
        BY <1>0, <3>1
      <4> QED
        BY <1>0, <2>1, <2>3, <3>1, <4>1
    <3>2. ASSUME NEW j \in 1 .. i + 1, Shows(s[j], k), \A l \in j + 1 .. i + 1 : ~Speaks(s[l], k)
          PROVE  k \in V
      <4>1. \A l \in j .. i : l \in 1 .. i /\ l + 1 \in j + 1 .. i + 1 /\ t[l] = s[l + 1]
        BY <1>0
      <4>2. \A l \in j .. i : ~Speaks(t[l], k)
        BY <3>2, <4>1
      <4>3. CASE j = 1
        BY <1>0, <2>1, <2>3, <3>2, <4>2, <4>3
      <4>4. CASE j # 1
        <5>1. j - 1 \in 1 .. i /\ t[j - 1] = s[j] /\ j - 1 + 1 = j
          BY <1>0, <4>4
        <5> QED
          BY <2>1, <3>2, <4>2, <5>1
      <4> QED
        BY <4>3, <4>4
    <3> QED
      BY <2>2, <2>5, <3>1, <3>2
  <2> QED
    BY <2>4, <2>5
<1> QED
  BY <1>1, <1>2

-----------------------------------------------------------------------------
(* Queues laid end to end.                                                 *)

LEMMA ConcatAt ==
  ASSUME NEW a \in Seq(Message), NEW b \in Seq(Message)
  PROVE  /\ a \o b \in Seq(Message) /\ Len(a \o b) = Len(a) + Len(b)
         /\ Len(a) \in Nat /\ Len(b) \in Nat
         /\ \A i \in 1 .. Len(a) : (a \o b)[i] = a[i]
         /\ \A i \in 1 .. Len(b) : (a \o b)[Len(a) + i] = b[i]
<1>1. /\ a \o b \in Seq(Message) /\ Len(a \o b) = Len(a) + Len(b) /\ Len(a) \in Nat /\ Len(b) \in Nat
      /\ \A i \in 1 .. Len(a) + Len(b) : (a \o b)[i] = IF i <= Len(a) THEN a[i] ELSE b[i - Len(a)]
  OBVIOUS
<1>2. ASSUME NEW i \in 1 .. Len(b) PROVE (a \o b)[Len(a) + i] = b[i]
  <2>1. /\ Len(a) + i \in 1 .. Len(a) + Len(b) /\ ~(Len(a) + i <= Len(a))
        /\ (Len(a) + i) - Len(a) = i
    BY <1>1
  <2> QED
    BY <1>1, <2>1
<1> QED
  BY <1>1, <1>2

LEMMA SameSeq ==
  ASSUME NEW a \in Seq(Message), NEW b \in Seq(Message), Len(a) = Len(b),
         \A i \in 1 .. Len(a) : a[i] = b[i]
  PROVE  a = b
OBVIOUS

LEMMA ConcatNone ==
  ASSUME NEW a \in Seq(Message)
  PROVE  a \o <<>> = a /\ <<>> \o a = a
OBVIOUS

LEMMA ConcatOne ==
  ASSUME NEW a \in Seq(Message), NEW m \in Message
  PROVE  a \o <<m>> = Append(a, m)
<1> DEFINE o == <<m>>
<1>1. o \in Seq(Message) /\ Len(o) = 1 /\ o[1] = m
  OBVIOUS
<1> HIDE DEF o
<1>2. /\ a \o o \in Seq(Message) /\ Len(a \o o) = Len(a) + 1 /\ (a \o o)[Len(a) + 1] = m
      /\ Len(a) \in Nat /\ \A i \in 1 .. Len(a) : (a \o o)[i] = a[i]
  <2>1. /\ a \o o \in Seq(Message) /\ Len(a \o o) = Len(a) + Len(o) /\ Len(a) \in Nat
        /\ \A i \in 1 .. Len(a) : (a \o o)[i] = a[i]
        /\ \A i \in 1 .. Len(o) : (a \o o)[Len(a) + i] = o[i]
    BY <1>1, ConcatAt
  <2>2. 1 \in 1 .. Len(o)
    BY <1>1
  <2> QED
    BY <1>1, <2>1, <2>2
<1>3. \A i \in 1 .. Len(a) + 1 : i \in 1 .. Len(a) \/ i = Len(a) + 1
  BY <1>2
<1>4. \A i \in 1 .. Len(a) + 1 : (a \o o)[i] = Append(a, m)[i]
  BY <1>2, <1>3, AppendAt
<1>5. a \o o = Append(a, m)
  BY <1>2, <1>4, AppendAt, SameSeq
<1> QED
  BY <1>5 DEF o

LEMMA ConcatAppend ==
  ASSUME NEW a \in Seq(Message), NEW b \in Seq(Message), NEW m \in Message
  PROVE  a \o Append(b, m) = Append(a \o b, m)
<1> DEFINE c == Append(b, m)
<1> DEFINE l == a \o c
<1> DEFINE d == a \o b
<1> DEFINE r == Append(d, m)
<1>1. /\ c \in Seq(Message) /\ Len(c) = Len(b) + 1 /\ c[Len(b) + 1] = m
      /\ \A i \in 1 .. Len(b) : c[i] = b[i]
  BY AppendAt
<1>2. /\ d \in Seq(Message) /\ Len(d) = Len(a) + Len(b) /\ Len(a) \in Nat /\ Len(b) \in Nat
      /\ \A i \in 1 .. Len(a) : d[i] = a[i]
      /\ \A i \in 1 .. Len(b) : d[Len(a) + i] = b[i]
  BY ConcatAt
<1> HIDE DEF c, d
<1>3. /\ l \in Seq(Message) /\ Len(l) = Len(a) + Len(c)
      /\ \A i \in 1 .. Len(a) : l[i] = a[i]
      /\ \A i \in 1 .. Len(c) : l[Len(a) + i] = c[i]
  BY <1>1, ConcatAt
<1>4. /\ r \in Seq(Message) /\ Len(r) = Len(d) + 1 /\ r[Len(d) + 1] = m
      /\ \A i \in 1 .. Len(d) : r[i] = d[i]
  BY <1>2, AppendAt
<1> HIDE DEF l, r
<1>5. ASSUME NEW i \in 1 .. Len(l) PROVE l[i] = r[i]
  <2>1. CASE i \in 1 .. Len(a)
    <3>1. i \in 1 .. Len(d)
      BY <1>2, <2>1
    <3> QED
      BY <1>2, <1>3, <1>4, <2>1, <3>1
  <2>2. ASSUME NEW j \in 1 .. Len(b), i = Len(a) + j PROVE l[i] = r[i]
    <3>1. i \in 1 .. Len(d) /\ j \in 1 .. Len(c)
      BY <1>1, <1>2, <2>2
    <3> QED
      BY <1>1, <1>2, <1>3, <1>4, <2>2, <3>1
  <2>3. CASE i = Len(a) + Len(b) + 1
    <3>1. Len(b) + 1 \in 1 .. Len(c) /\ i = Len(a) + (Len(b) + 1) /\ i = Len(d) + 1
      BY <1>1, <1>2, <2>3
    <3> QED
      BY <1>1, <1>3, <1>4, <3>1
  <2>4. i \in 1 .. Len(a) \/ i - Len(a) \in 1 .. Len(b) \/ i = Len(a) + Len(b) + 1
    <3>1. Len(l) = Len(a) + Len(b) + 1 /\ Len(a) \in Nat /\ Len(b) \in Nat
      BY <1>1, <1>2, <1>3
    <3> QED
      BY <3>1
  <2>5. i = Len(a) + (i - Len(a))
    BY <1>2
  <2> QED
    BY <2>1, <2>2, <2>3, <2>4, <2>5
<1>6. Len(l) = Len(r)
  BY <1>1, <1>2, <1>3, <1>4
<1>7. l = r
  BY <1>3, <1>4, <1>5, <1>6, SameSeq
<1> QED
  BY <1>7 DEF l, r, c, d

LEMMA ConcatTail ==
  ASSUME NEW a \in Seq(Message), NEW b \in Seq(Message), a # <<>>
  PROVE  a \o b # <<>> /\ Head(a \o b) = Head(a) /\ Tail(a) \o b = Tail(a \o b)
<1> DEFINE t == Tail(a)
<1> DEFINE d == a \o b
<1> DEFINE l == t \o b
<1> DEFINE r == Tail(d)
<1>1. /\ Len(a) \in Nat \ {0} /\ t \in Seq(Message) /\ Len(t) = Len(a) - 1 /\ Head(a) = a[1]
      /\ \A i \in 1 .. Len(a) - 1 : t[i] = a[i + 1]
  BY HeadTailAt
<1>2. /\ d \in Seq(Message) /\ Len(d) = Len(a) + Len(b) /\ Len(b) \in Nat
      /\ \A i \in 1 .. Len(a) : d[i] = a[i]
      /\ \A i \in 1 .. Len(b) : d[Len(a) + i] = b[i]
  BY ConcatAt
<1> HIDE DEF t, d
<1>3. d # <<>> /\ 1 \in 1 .. Len(a)
  <2>1. Len(d) # 0
    BY <1>1, <1>2
  <2> QED
    BY <1>1, <2>1
<1>4. /\ l \in Seq(Message) /\ Len(l) = Len(t) + Len(b)
      /\ \A i \in 1 .. Len(t) : l[i] = t[i]
      /\ \A i \in 1 .. Len(b) : l[Len(t) + i] = b[i]
  BY <1>1, ConcatAt
<1>5. /\ r \in Seq(Message) /\ Len(r) = Len(d) - 1 /\ Head(d) = d[1]
      /\ \A i \in 1 .. Len(d) - 1 : r[i] = d[i + 1]
  BY <1>2, <1>3, HeadTailAt
<1> HIDE DEF l, r
<1>6. ASSUME NEW i \in 1 .. Len(l) PROVE l[i] = r[i]
  <2>1. i \in 1 .. Len(d) - 1
    BY <1>1, <1>2, <1>4
  <2>2. CASE i \in 1 .. Len(t)
    <3>1. i + 1 \in 1 .. Len(a) /\ i \in 1 .. Len(a) - 1
      BY <1>1, <2>2
    <3> QED
      BY <1>1, <1>2, <1>4, <1>5, <2>1, <2>2, <3>1
  <2>3. ASSUME NEW j \in 1 .. Len(b), i = Len(t) + j PROVE l[i] = r[i]
    <3>1. i + 1 = Len(a) + j
      BY <1>1, <2>3
    <3> QED
      BY <1>2, <1>4, <1>5, <2>1, <2>3, <3>1
  <2>4. (i \in 1 .. Len(t) \/ i - Len(t) \in 1 .. Len(b)) /\ i = Len(t) + (i - Len(t))
    BY <1>1, <1>2, <1>4
  <2> QED
    BY <2>2, <2>3, <2>4
<1>7. Len(l) = Len(r)
  BY <1>1, <1>2, <1>4, <1>5
<1>8. l = r
  BY <1>4, <1>5, <1>6, <1>7, SameSeq
<1>9. Head(d) = Head(a)
  BY <1>1, <1>2, <1>3, <1>5
<1> QED
  BY <1>3, <1>8, <1>9 DEF l, r, t, d

(* Taking the head of one queue to the end of the queue before it.         *)
LEMMA MoveHead ==
  ASSUME NEW a \in Seq(Message), NEW b \in Seq(Message), b # <<>>
  PROVE  /\ Head(b) \in Message /\ Append(a, Head(b)) \in Seq(Message) /\ Tail(b) \in Seq(Message)
         /\ Append(a, Head(b)) \o Tail(b) = a \o b
<1> DEFINE t == Tail(b)
<1> DEFINE c == Append(a, Head(b))
<1> DEFINE l == c \o t
<1> DEFINE r == a \o b
<1>1. /\ Len(b) \in Nat \ {0} /\ t \in Seq(Message) /\ Len(t) = Len(b) - 1 /\ Head(b) = b[1]
      /\ \A i \in 1 .. Len(b) - 1 : t[i] = b[i + 1]
  BY HeadTailAt
<1>2. Head(b) \in Message
  OBVIOUS
<1>3. /\ c \in Seq(Message) /\ Len(a) \in Nat /\ Len(c) = Len(a) + 1 /\ c[Len(a) + 1] = b[1]
      /\ \A i \in 1 .. Len(a) : c[i] = a[i]
  BY <1>1, <1>2, AppendAt
<1> HIDE DEF t, c
<1>4. /\ l \in Seq(Message) /\ Len(l) = Len(c) + Len(t)
      /\ \A i \in 1 .. Len(c) : l[i] = c[i]
      /\ \A i \in 1 .. Len(t) : l[Len(c) + i] = t[i]
  BY <1>1, <1>3, ConcatAt
<1>5. /\ r \in Seq(Message) /\ Len(r) = Len(a) + Len(b)
      /\ \A i \in 1 .. Len(a) : r[i] = a[i]
      /\ \A i \in 1 .. Len(b) : r[Len(a) + i] = b[i]
  BY ConcatAt
<1> HIDE DEF l, r
<1>6. ASSUME NEW i \in 1 .. Len(l) PROVE l[i] = r[i]
  <2>1. CASE i \in 1 .. Len(a)
    <3>1. i \in 1 .. Len(c)
      BY <1>3, <2>1
    <3> QED
      BY <1>3, <1>4, <1>5, <2>1, <3>1
  <2>2. CASE i = Len(a) + 1
    <3>1. i \in 1 .. Len(c) /\ 1 \in 1 .. Len(b)
      BY <1>1, <1>3, <2>2
    <3> QED
      BY <1>3, <1>4, <1>5, <2>2, <3>1
  <2>3. ASSUME NEW j \in 1 .. Len(t), i = Len(c) + j PROVE l[i] = r[i]
    <3>1. j \in 1 .. Len(b) - 1 /\ j + 1 \in 1 .. Len(b) /\ i = Len(a) + (j + 1)
      BY <1>1, <1>3, <2>3
    <3>2. l[i] = t[j] /\ t[j] = b[j + 1] /\ r[Len(a) + (j + 1)] = b[j + 1]
      BY <1>1, <1>4, <1>5, <2>3, <3>1
    <3> QED
      BY <3>1, <3>2
  <2>4. /\ i \in 1 .. Len(a) \/ i = Len(a) + 1 \/ i - Len(c) \in 1 .. Len(t)
        /\ i = Len(c) + (i - Len(c))
    BY <1>1, <1>3, <1>4
  <2> QED
    BY <2>1, <2>2, <2>3, <2>4
<1>7. Len(l) = Len(r)
  BY <1>1, <1>3, <1>4, <1>5
<1>8. l = r
  BY <1>4, <1>5, <1>6, <1>7, SameSeq
<1> QED
  BY <1>1, <1>2, <1>3, <1>8 DEF l, r, t, c

-----------------------------------------------------------------------------
(* Numbers that follow each other.                                         *)

LEMMA TrailNone ==
  ASSUME NEW s, NEW g, NEW last, \A i \in DOMAIN s : s[i].id[1] # g
  PROVE  Trail(s, g, last)
BY DEF Trail

LEMMA TrailTail ==
  ASSUME NEW s \in Seq(Message), s # <<>>, NEW g, NEW last, Trail(s, g, last)
  PROVE  Trail(Tail(s), g, last)
<1> DEFINE t == Tail(s)
<1>1. /\ Len(s) \in Nat \ {0} /\ t \in Seq(Message) /\ Len(t) = Len(s) - 1
      /\ \A i \in 1 .. Len(s) - 1 : t[i] = s[i + 1]
  BY HeadTailAt
<1>2. DOMAIN s = 1 .. Len(s) /\ DOMAIN t = 1 .. Len(t)
  BY <1>1
<1> HIDE DEF t
<1>3. ASSUME NEW i \in 1 .. Len(t), t[i].id[1] = g
      PROVE  \/ t[i].id[2] = last /\ \A l \in i + 1 .. Len(t) : t[l].id[1] # g
             \/ \E j \in i + 1 .. Len(t) : /\ t[j].id = <<g, t[i].id[2] + 1>>
                                           /\ \A l \in i + 1 .. j - 1 : t[l].id[1] # g
  <2>1. i + 1 \in 1 .. Len(s) /\ t[i] = s[i + 1]
    BY <1>1
  <2>2. \A l \in i + 1 .. Len(t) : l + 1 \in i + 2 .. Len(s) /\ t[l] = s[l + 1]
    BY <1>1
  <2>3. CASE s[i + 1].id[2] = last /\ \A l \in i + 1 + 1 .. Len(s) : s[l].id[1] # g
    BY <2>1, <2>2, <2>3
  <2>4. ASSUME NEW j \in i + 1 + 1 .. Len(s), s[j].id = <<g, s[i + 1].id[2] + 1>>,
               \A l \in i + 1 + 1 .. j - 1 : s[l].id[1] # g
        PROVE  /\ j - 1 \in i + 1 .. Len(t) /\ t[j - 1].id = <<g, t[i].id[2] + 1>>
               /\ \A l \in i + 1 .. j - 1 - 1 : t[l].id[1] # g
    <3>1. j - 1 \in i + 1 .. Len(t) /\ j - 1 + 1 = j
      BY <1>1
    <3>2. t[j - 1] = s[j]
      BY <2>2, <3>1
    <3>3. \A l \in i + 1 .. j - 1 - 1 : l \in i + 1 .. Len(t) /\ l + 1 \in i + 1 + 1 .. j - 1
      BY <1>1
    <3> QED
      BY <2>1, <2>2, <2>4, <3>1, <3>2, <3>3
  <2>5. \/ s[i + 1].id[2] = last /\ \A l \in i + 1 + 1 .. Len(s) : s[l].id[1] # g
        \/ \E j \in i + 1 + 1 .. Len(s) : /\ s[j].id = <<g, s[i + 1].id[2] + 1>>
                                          /\ \A l \in i + 1 + 1 .. j - 1 : s[l].id[1] # g
    BY <1>2, <1>3, <2>1 DEF Trail
  <2> QED
    BY <2>3, <2>4, <2>5
<1>4. Trail(t, g, last)
  BY <1>2, <1>3 DEF Trail
<1> QED
  BY <1>4 DEF t

LEMMA TrailOther ==
  ASSUME NEW s \in Seq(Message), NEW m \in Message, NEW g, NEW last,
         Trail(s, g, last), m.id[1] # g
  PROVE  Trail(Append(s, m), g, last)
<1> DEFINE t == Append(s, m)
<1>1. /\ t \in Seq(Message) /\ Len(s) \in Nat /\ Len(t) = Len(s) + 1 /\ t[Len(s) + 1] = m
      /\ \A i \in 1 .. Len(s) : t[i] = s[i]
  BY AppendAt
<1>2. DOMAIN s = 1 .. Len(s) /\ DOMAIN t = 1 .. Len(t)
  BY <1>1
<1> HIDE DEF t
<1>3. ASSUME NEW i \in 1 .. Len(t), t[i].id[1] = g
      PROVE  \/ t[i].id[2] = last /\ \A l \in i + 1 .. Len(t) : t[l].id[1] # g
             \/ \E j \in i + 1 .. Len(t) : /\ t[j].id = <<g, t[i].id[2] + 1>>
                                           /\ \A l \in i + 1 .. j - 1 : t[l].id[1] # g
  <2>1. i \in 1 .. Len(s) /\ t[i] = s[i]
    BY <1>1, <1>3
  <2>2. \A l \in i + 1 .. Len(s) : l \in 1 .. Len(s) /\ t[l] = s[l]
    BY <1>1
  <2>3. CASE s[i].id[2] = last /\ \A l \in i + 1 .. Len(s) : s[l].id[1] # g
    <3>1. \A l \in i + 1 .. Len(t) : l \in i + 1 .. Len(s) \/ l = Len(s) + 1
      BY <1>1
    <3> QED
      BY <1>1, <2>1, <2>2, <2>3, <3>1
  <2>4. ASSUME NEW j \in i + 1 .. Len(s), s[j].id = <<g, s[i].id[2] + 1>>,
               \A l \in i + 1 .. j - 1 : s[l].id[1] # g
        PROVE  /\ j \in i + 1 .. Len(t) /\ t[j].id = <<g, t[i].id[2] + 1>>
               /\ \A l \in i + 1 .. j - 1 : t[l].id[1] # g
    <3>1. j \in i + 1 .. Len(t) /\ \A l \in i + 1 .. j - 1 : l \in i + 1 .. Len(s)
      BY <1>1
    <3> QED
      BY <2>1, <2>2, <2>4, <3>1
  <2>5. \/ s[i].id[2] = last /\ \A l \in i + 1 .. Len(s) : s[l].id[1] # g
        \/ \E j \in i + 1 .. Len(s) : /\ s[j].id = <<g, s[i].id[2] + 1>>
                                      /\ \A l \in i + 1 .. j - 1 : s[l].id[1] # g
    BY <1>2, <1>3, <2>1 DEF Trail
  <2> QED
    BY <2>3, <2>4, <2>5
<1>4. Trail(t, g, last)
  BY <1>2, <1>3 DEF Trail
<1> QED
  BY <1>4 DEF t

LEMMA TrailConcat ==
  ASSUME NEW s \in Seq(Message), NEW u \in Seq(Message), NEW g, NEW last \in Int,
         Trail(s, g, last), \A i \in 1 .. Len(u) : u[i].id = <<g, last + i>>
  PROVE  Trail(s \o u, g, last + Len(u))
<1> DEFINE w == s \o u
<1>1. /\ w \in Seq(Message) /\ Len(s) \in Nat /\ Len(u) \in Nat /\ Len(w) = Len(s) + Len(u)
      /\ \A i \in 1 .. Len(s) : w[i] = s[i]
      /\ \A i \in 1 .. Len(u) : w[Len(s) + i] = u[i]
  BY ConcatAt
<1>2. DOMAIN s = 1 .. Len(s) /\ DOMAIN w = 1 .. Len(w)
  BY <1>1
<1> HIDE DEF w
<1> DEFINE Good(i) == \/ w[i].id[2] = last + Len(u) /\ \A l \in i + 1 .. Len(w) : w[l].id[1] # g
                      \/ \E j \in i + 1 .. Len(w) : /\ w[j].id = <<g, w[i].id[2] + 1>>
                                                    /\ \A l \in i + 1 .. j - 1 : w[l].id[1] # g
<1>3. ASSUME NEW i \in 1 .. Len(s), w[i].id[1] = g PROVE Good(i)
  <2>1. w[i] = s[i] /\ \A l \in i + 1 .. Len(s) : l \in 1 .. Len(s) /\ w[l] = s[l]
    BY <1>1
  <2>2. CASE s[i].id[2] = last /\ \A l \in i + 1 .. Len(s) : s[l].id[1] # g
    <3>1. CASE Len(u) = 0
      <4>1. Len(w) = Len(s) /\ last + Len(u) = last
        BY <1>1, <3>1
      <4> QED
        BY <2>1, <2>2, <4>1
    <3>2. CASE Len(u) # 0
      <4> DEFINE j == Len(s) + 1
      <4>1. j \in i + 1 .. Len(w) /\ 1 \in 1 .. Len(u) /\ j - 1 = Len(s)
        BY <1>1, <3>2
      <4>2. w[j] = u[1] /\ u[1].id = <<g, last + 1>>
        BY <1>1, <4>1
      <4>3. w[j].id = <<g, w[i].id[2] + 1>> /\ \A l \in i + 1 .. j - 1 : w[l].id[1] # g
        BY <2>1, <2>2, <4>1, <4>2
      <4> QED
        BY <4>1, <4>3
    <3> QED
      BY <3>1, <3>2
  <2>3. ASSUME NEW j \in i + 1 .. Len(s), s[j].id = <<g, s[i].id[2] + 1>>,
               \A l \in i + 1 .. j - 1 : s[l].id[1] # g
        PROVE  Good(i)
    <3>1. /\ j \in i + 1 .. Len(w) /\ w[j] = s[j]
          /\ \A l \in i + 1 .. j - 1 : l \in i + 1 .. Len(s)
      BY <1>1, <2>1
    <3> QED
      BY <2>1, <2>3, <3>1
  <2>4. \/ s[i].id[2] = last /\ \A l \in i + 1 .. Len(s) : s[l].id[1] # g
        \/ \E j \in i + 1 .. Len(s) : /\ s[j].id = <<g, s[i].id[2] + 1>>
                                      /\ \A l \in i + 1 .. j - 1 : s[l].id[1] # g
    BY <1>2, <1>3, <2>1 DEF Trail
  <2> HIDE DEF Good
  <2> QED
    BY <2>2, <2>3, <2>4
<1>4. ASSUME NEW k \in 1 .. Len(u) PROVE Good(Len(s) + k)
  <2> DEFINE i == Len(s) + k
  <2>1. w[i].id = <<g, last + k>>
    BY <1>1
  <2>2. CASE k = Len(u)
    <3>1. \A l \in i + 1 .. Len(w) : FALSE
      BY <1>1, <2>2
    <3> QED
      BY <2>1, <2>2, <3>1
  <2>3. CASE k # Len(u)
    <3>1. /\ k + 1 \in 1 .. Len(u) /\ i + 1 = Len(s) + (k + 1) /\ i + 1 \in i + 1 .. Len(w)
          /\ (last + k) + 1 = last + (k + 1) /\ \A l \in i + 1 .. (i + 1) - 1 : FALSE
      BY <1>1, <2>3
    <3>2. w[i + 1].id = <<g, last + (k + 1)>>
      BY <1>1, <3>1
    <3>3. w[i + 1].id = <<g, w[i].id[2] + 1>>
      BY <2>1, <3>1, <3>2
    <3> QED
      BY <3>1, <3>3
  <2> QED
    BY <2>2, <2>3
<1>5. ASSUME NEW i \in 1 .. Len(w), w[i].id[1] = g PROVE Good(i)
  <2>1. i \in 1 .. Len(s) \/ (i - Len(s) \in 1 .. Len(u) /\ i = Len(s) + (i - Len(s)))
    BY <1>1
  <2> HIDE DEF Good
  <2> QED
    BY <1>3, <1>4, <1>5, <2>1
<1>6. Trail(w, g, last + Len(u))
  BY <1>2, <1>5 DEF Trail
<1> QED
  BY <1>6 DEF w

LEMMA TrailNext ==
  ASSUME NEW s \in Seq(Message), NEW m \in Message, NEW g, NEW last \in Int,
         Trail(s, g, last), m.id = <<g, last + 1>>
  PROVE  Trail(Append(s, m), g, last + 1)
<1> DEFINE u == <<m>>
<1>1. u \in Seq(Message) /\ Len(u) = 1 /\ \A i \in 1 .. Len(u) : u[i].id = <<g, last + i>>
  OBVIOUS
<1>2. s \o u = Append(s, m)
  BY ConcatOne
<1> HIDE DEF u
<1> QED
  BY <1>1, <1>2, TrailConcat

-----------------------------------------------------------------------------
(* The stream of one user: n was shown us and told t, has s to read, and    *)
(* the users in main's list are all.  As long as it was told nothing, an    *)
(* answer is ahead of it.                                                  *)

Reads(n, us, s, t, all) ==
  /\ ViewAfter(us, s, Len(s)) = all \ {n}
  /\ \A i \in DOMAIN s :
       /\ s[i].type = "ACK" <=> (i = 1 /\ t = "none")
       /\ s[i].type = "ONLINE" => s[i].user \notin ViewAfter(us, s, i - 1) \cup {n}
       /\ s[i].type \in {"FWD", "IDLE", "OFFLINE"} => s[i].user \in ViewAfter(us, s, i - 1)
  /\ t = "none" => s # <<>>

StreamsRead ==
  \A n \in Chatters : Reads(n, view[wr_fifos[n]], ToRead(n), told[wr_fifos[n]], Users)

LEMMA ReadsFirst ==
  ASSUME NEW n \in Names, NEW us \in SUBSET Names, NEW all \in SUBSET Names, n \notin all
  PROVE  Reads(n, us, <<ACK(all)>>, "none", all \cup {n})
<1> DEFINE m == ACK(all)
<1> DEFINE s == <<m>>
<1>1. m \in Message /\ m.type = "ACK" /\ m.users = all
  <2>1. m \in Message
    BY MessagesTyped
  <2> QED
    BY <2>1 DEF ACK
<1> HIDE DEF m
<1>2. s \in Seq(Message) /\ Len(s) = 1 /\ s[1] = m /\ DOMAIN s = {1} /\ s # <<>>
  BY <1>1
<1> HIDE DEF s
<1>3. ViewAfter(us, s, 0 + 1) = Shown(ViewAfter(us, s, 0), s[0 + 1])
  <2>1. s[0 + 1] \in Message /\ 0 \in Nat
    BY <1>1, <1>2
  <2> QED
    BY <2>1, ViewNext, ZenonT(30)
<1>4. ViewAfter(us, s, Len(s)) = all
  BY <1>1, <1>2, <1>3 DEF Shown
<1>5. Reads(n, us, s, "none", all \cup {n})
  BY <1>1, <1>2, <1>4 DEF Reads
<1> QED
  BY <1>5 DEF s, m

LEMMA ReadsTail ==
  ASSUME NEW n \in Names, NEW us \in SUBSET Names, NEW s \in Seq(Message), s # <<>>,
         NEW t, NEW all, Reads(n, us, s, t, all)
  PROVE  Reads(n, Shown(us, Head(s)), Tail(s),
               IF Head(s).type \in {"ACK", "NAK"} THEN Head(s).type ELSE t, all)
<1> DEFINE r == Tail(s)
<1> DEFINE v == Shown(us, Head(s))
<1> DEFINE a == IF Head(s).type \in {"ACK", "NAK"} THEN Head(s).type ELSE t
<1>1. /\ Len(s) \in Nat \ {0} /\ r \in Seq(Message) /\ Len(r) = Len(s) - 1 /\ Head(s) = s[1]
      /\ \A i \in 1 .. Len(s) - 1 : r[i] = s[i + 1]
  BY HeadTailAt
<1>2. DOMAIN s = 1 .. Len(s) /\ DOMAIN r = 1 .. Len(s) - 1
  BY <1>1
<1>3. \A i \in 0 .. Len(s) - 1 : ViewAfter(v, r, i) = ViewAfter(us, s, i + 1)
  BY ViewTail
<1>4. a # "none"
  <2>1. 1 \in DOMAIN s
    BY <1>1, <1>2
  <2>2. t = "none" => s[1].type = "ACK"
    BY <2>1 DEF Reads
  <2> QED
    BY <1>1, <2>2
<1> HIDE DEF r, v, a
<1>5. ViewAfter(v, r, Len(r)) = all \ {n}
  <2>1. Len(r) \in 0 .. Len(s) - 1 /\ Len(r) + 1 = Len(s)
    BY <1>1
  <2>2. ViewAfter(v, r, Len(r)) = ViewAfter(us, s, Len(r) + 1)
    BY <1>3, <2>1
  <2> QED
    BY <2>1, <2>2 DEF Reads
<1>6. ASSUME NEW i \in DOMAIN r
      PROVE  /\ r[i].type = "ACK" <=> (i = 1 /\ a = "none")
             /\ r[i].type = "ONLINE" => r[i].user \notin ViewAfter(v, r, i - 1) \cup {n}
             /\ r[i].type \in {"FWD", "IDLE", "OFFLINE"} => r[i].user \in ViewAfter(v, r, i - 1)
  <2>1. /\ i + 1 \in DOMAIN s /\ r[i] = s[i + 1] /\ i + 1 # 1 /\ i - 1 \in 0 .. Len(s) - 1
        /\ (i - 1) + 1 = (i + 1) - 1
    BY <1>1, <1>2
  <2>2. ViewAfter(v, r, i - 1) = ViewAfter(us, s, (i - 1) + 1)
    BY <1>3, <2>1
  <2>3. ViewAfter(v, r, i - 1) = ViewAfter(us, s, (i + 1) - 1)
    BY <2>1, <2>2
  <2>4. /\ s[i + 1].type = "ACK" <=> (i + 1 = 1 /\ t = "none")
        /\ s[i + 1].type = "ONLINE" => s[i + 1].user \notin ViewAfter(us, s, (i + 1) - 1) \cup {n}
        /\ s[i + 1].type \in {"FWD", "IDLE", "OFFLINE"} =>
             s[i + 1].user \in ViewAfter(us, s, (i + 1) - 1)
    BY <2>1 DEF Reads
  <2> QED
    BY <1>4, <2>1, <2>3, <2>4
<1>7. Reads(n, v, r, a, all)
  BY <1>4, <1>5, <1>6 DEF Reads
<1> QED
  BY <1>7 DEF r, v, a

LEMMA ReadsAppend ==
  ASSUME NEW n \in Names, NEW us \in SUBSET Names, NEW s \in Seq(Message), NEW t,
         NEW all \in SUBSET Names, NEW others, Reads(n, us, s, t, all),
         NEW m \in Message, m.type \in {"FWD", "IDLE", "ONLINE", "OFFLINE"},
         m.type = "ONLINE" => m.user \notin all \cup {n},
         m.type # "ONLINE" => m.user \in all \ {n},
         others \ {n} = Shown(all \ {n}, m)
  PROVE  Reads(n, us, Append(s, m), t, others)
<1> DEFINE r == Append(s, m)
<1>1. /\ r \in Seq(Message) /\ Len(s) \in Nat /\ Len(r) = Len(s) + 1 /\ r[Len(s) + 1] = m
      /\ \A i \in 1 .. Len(s) : r[i] = s[i]
  BY AppendAt
<1>2. DOMAIN s = 1 .. Len(s) /\ DOMAIN r = 1 .. Len(s) + 1
  BY <1>1
<1> HIDE DEF r
<1>3. ASSUME NEW i \in 0 .. Len(s) PROVE ViewAfter(us, r, i) = ViewAfter(us, s, i)
  <2>1. i \in Nat /\ \A j \in 1 .. i : r[j] = s[j]
    BY <1>1
  <2> QED
    BY <2>1, ViewAlike
<1>4. ViewAfter(us, r, Len(s)) = all \ {n}
  <2>1. Len(s) \in 0 .. Len(s)
    BY <1>1
  <2> QED
    BY <1>3, <2>1 DEF Reads
<1>5. ViewAfter(us, r, Len(r)) = others \ {n}
  <2>1. ViewAfter(us, r, Len(s) + 1) = Shown(ViewAfter(us, r, Len(s)), r[Len(s) + 1])
    BY <1>1, ViewNext
  <2> QED
    BY <1>1, <1>4, <2>1
<1>6. t = "none" => s # <<>> /\ Len(s) # 0
  BY <1>1 DEF Reads
<1>7. ASSUME NEW i \in DOMAIN r
      PROVE  /\ r[i].type = "ACK" <=> (i = 1 /\ t = "none")
             /\ r[i].type = "ONLINE" => r[i].user \notin ViewAfter(us, r, i - 1) \cup {n}
             /\ r[i].type \in {"FWD", "IDLE", "OFFLINE"} => r[i].user \in ViewAfter(us, r, i - 1)
  <2>1. CASE i \in 1 .. Len(s)
    <3>1. i - 1 \in 0 .. Len(s) /\ r[i] = s[i]
      BY <1>1, <2>1
    <3>2. ViewAfter(us, r, i - 1) = ViewAfter(us, s, i - 1)
      BY <1>3, <3>1
    <3>3. /\ s[i].type = "ACK" <=> (i = 1 /\ t = "none")
          /\ s[i].type = "ONLINE" => s[i].user \notin ViewAfter(us, s, i - 1) \cup {n}
          /\ s[i].type \in {"FWD", "IDLE", "OFFLINE"} => s[i].user \in ViewAfter(us, s, i - 1)
      BY <1>2, <2>1 DEF Reads
    <3> QED
      BY <3>1, <3>2, <3>3
  <2>2. CASE i = Len(s) + 1
    <3>1. r[i] = m /\ i - 1 = Len(s) /\ (t = "none" => i # 1)
      BY <1>1, <1>6, <2>2
    <3>2. ViewAfter(us, r, i - 1) = all \ {n}
      BY <1>4, <3>1
    <3> QED
      BY <3>1, <3>2
  <2> QED
    BY <1>1, <1>2, <2>1, <2>2
<1>8. r # <<>>
  BY <1>1
<1>9. Reads(n, us, r, t, others)
  BY <1>5, <1>7, <1>8 DEF Reads
<1> QED
  BY <1>9 DEF r

-----------------------------------------------------------------------------
(* Who is listening.  A connection main knows of was accepted, an accepted  *)
(* user is registered when its ACK goes out, and nobody was told anything   *)
(* before main opened its fifos.                                           *)

Settled ==
  /\ \A h \in Handlers : hpc[h] = "none" => mainEnd[h] = "never"
  /\ mpc = "reply" /\ mout.msg.type = "ACK" => wr_fifos[mcur.name] = mcur.h
  /\ \A h \in Handlers : mainEnd[h] \in {"never", "half"} => told[h] = "none"

LEMMA LifeFlow ==
  ASSUME TypeOK, [Next]_vars, NEW h \in Handlers
  PROVE  /\ hpc'[h] = "none" => hpc[h] = "none"
         /\ hpc'[h] \notin Gone => hpc[h] \notin Gone
         /\ Live(h)' => Live(h) \/ hpc[h] = "none"
         /\ peer'[h] = "open" => peer[h] = "open" \/ hpc[h] = "none"
         /\ mpc' # "dead" => mpc # "dead"
<1> USE DEF clientVars, handlerVars, mainVars, regVars, Live, Gone
<1>1. CASE UNCHANGED vars
  BY <1>1 DEF vars
<1>2. CASE Main
  <2>1. hpc' = hpc /\ peer' = peer
    BY <1>2 DEF Main, MainReadBootstrap, MainOpenMain, MainRefuse, MainRegister,
                MainAckTooLong, MainOpensHandlerFifo, MainReply, MainSigpipe, MainWrite, MainForward,
                MainGoodbye
  <2>2. mpc # "dead"
    BY <1>2 DEF Main, MainReadBootstrap, MainOpenMain, MainRefuse, MainRegister,
                MainAckTooLong, MainOpensHandlerFifo, MainReply, MainSigpipe, MainWrite, MainForward,
                MainGoodbye, MainSelects
  <2> QED
    BY <2>1, <2>2
<1>3. ASSUME NEW g \in Handlers, Handler(g)
      PROVE  /\ hpc[g] \in {"select", "openMain", "openHandler"} /\ peer' = peer /\ mpc' = mpc
             /\ \E p \in {"select", "openMain", "openHandler"} \cup Gone : hpc' = [hpc EXCEPT ![g] = p]
  <2>1. CASE \/ HandlerRejoin(g) \/ HandlerSigpipe(g) \/ HandlerEOF(g)
             \/ HandlerReset(g) \/ HandlerShortRead(g) \/ HandlerMainEOF(g)
    BY <2>1 DEF HandlerRejoin, HandlerSigpipe, HandlerEOF, HandlerReset, HandlerShortRead,
                HandlerMainEOF, HandlerEnds
  <2>2. CASE HandlerJoin(g) \/ HandlerOpenMain(g) \/ HandlerOpenHandler(g)
    BY <2>2 DEF HandlerJoin, HandlerOpenMain, HandlerOpenHandler
  <2>3. CASE HandlerForward(g) \/ HandlerDiscard(g) \/ HandlerRelay(g)
    <3>1. hpc' = hpc /\ hpc[g] = "select" /\ peer' = peer /\ mpc' = mpc
      BY <2>3 DEF HandlerForward, HandlerDiscard, HandlerRelay
    <3>2. hpc' = [hpc EXCEPT ![g] = "select"]
      BY <3>1 DEF TypeOK
    <3> QED
      BY <3>1, <3>2
  <2> QED
    BY <1>3, <2>1, <2>2, <2>3 DEF Handler
<1>4. ASSUME NEW g \in Handlers, Accept(g) \/ Drop(g)
      PROVE  /\ hpc[g] = "none" /\ mpc' = mpc
             /\ \E p \in {"select", "dropped"} : hpc' = [hpc EXCEPT ![g] = p]
             /\ peer' = peer \/ peer' = [peer EXCEPT ![g] = "open"]
  BY <1>4 DEF Accept, Drop
<1>5. ASSUME NEW g \in Handlers, ClientRead(g) \/ \E m \in ClientMessages(g) : ClientSend(g, m)
      PROVE  hpc' = hpc /\ peer' = peer /\ mpc' = mpc
  BY <1>5 DEF ClientRead, ClientSend
<1>6. ASSUME NEW g \in Handlers, ClientClose(g)
      PROVE  hpc' = hpc /\ mpc' = mpc /\ \E p \in {"fin", "rst"} : peer' = [peer EXCEPT ![g] = p]
  BY <1>6 DEF ClientClose
<1>7. ASSUME NEW g \in Handlers, Handler(g)
      PROVE  /\ hpc'[h] = "none" => hpc[h] = "none"
             /\ hpc'[h] \notin Gone => hpc[h] \notin Gone
             /\ Live(h)' => Live(h) \/ hpc[h] = "none"
             /\ peer' = peer /\ mpc' = mpc
  BY <1>3, <1>7, ZenonT(60) DEF TypeOK
<1>8. ASSUME NEW g \in Handlers, Client(g)
      PROVE  /\ hpc'[h] = "none" => hpc[h] = "none"
             /\ hpc'[h] \notin Gone => hpc[h] \notin Gone
             /\ Live(h)' => Live(h) \/ hpc[h] = "none"
             /\ peer'[h] = "open" => peer[h] = "open" \/ hpc[h] = "none"
             /\ mpc' = mpc
  <2>1. CASE Accept(g) \/ Drop(g)
    <3>1. PICK p \in {"select", "dropped"} : hpc' = [hpc EXCEPT ![g] = p]
      BY <1>4, <2>1
    <3>2. hpc'[h] = hpc[h] \/ (hpc[h] = "none" /\ hpc'[h] \in {"select", "dropped"})
      BY <1>4, <2>1, <3>1, ZenonT(60) DEF TypeOK
    <3>3. peer'[h] = peer[h] \/ hpc[h] = "none"
      BY <1>4, <2>1 DEF TypeOK
    <3> QED
      BY <1>4, <2>1, <3>2, <3>3
  <2>2. CASE ClientRead(g) \/ \E m \in ClientMessages(g) : ClientSend(g, m)
    BY <1>5, <2>2
  <2>3. CASE ClientClose(g)
    BY <1>6, <2>3 DEF TypeOK
  <2> QED
    BY <1>8, <2>1, <2>2, <2>3 DEF Client
<1> QED
  BY <1>1, <1>2, <1>7, <1>8 DEF Next

LEMMA SettledStep == StreamInv /\ Settled /\ [Next]_vars => Settled'
<1> SUFFICES ASSUME StreamInv, Settled, [Next]_vars PROVE Settled'
  OBVIOUS
<1>0. IInv /\ TypeOK /\ Underway
  BY DEF StreamInv, IInv
<1>1. ASSUME NEW h \in Handlers, hpc'[h] = "none" PROVE mainEnd'[h] = "never"
  <2>1. hpc[h] = "none" /\ mainEnd[h] = "never"
    BY <1>0, <1>1, LifeFlow DEF Settled
  <2>2. CASE MainOpenMain
    BY <1>0, <2>1, <2>2 DEF MainOpenMain, TypeOK
  <2>3. CASE MainRefuse \/ MainRegister \/ MainAckTooLong
    <3>1. mcur.h # h
      BY <1>0, <2>1, <2>3 DEF MainRefuse, MainRegister, MainAckTooLong, MainOpensHandlerFifo
    <3>2. mainEnd' = [mainEnd EXCEPT ![mcur.h] = "open"]
      BY <2>3 DEF MainRefuse, MainRegister, MainAckTooLong, MainOpensHandlerFifo
    <3> QED
      BY <1>0, <2>1, <3>1, <3>2 DEF TypeOK
  <2>4. CASE mainEnd'[h] = mainEnd[h]
    BY <2>1, <2>4
  <2>5. ASSUME MainReply \/ \E n \in Names : MainGoodbye(n)
        PROVE  mainEnd'[h] = mainEnd[h] \/ mainEnd[h] = "open"
    <3>1. CASE MainReply
      BY <1>0, <3>1 DEF MainReply, IInv, Handshake, MainConsistent, TypeOK
    <3>2. ASSUME NEW n \in Names, MainGoodbye(n)
          PROVE  mainEnd'[h] = mainEnd[h] \/ mainEnd[h] = "open"
      <4>1. mainEnd[rd_fifos[n]] = "open"
        BY <1>0, <3>2 DEF MainGoodbye, MainSelects, FifoReady, IInv, RegistryConsistent, Registered
      <4> QED
        BY <1>0, <3>2, <4>1 DEF MainGoodbye, TypeOK
    <3> QED
      BY <2>5, <3>1, <3>2
  <2> QED
    BY <2>1, <2>2, <2>3, <2>4, <2>5, RegistryWriters
<1>2. ASSUME mpc' = "reply", mout'.msg.type = "ACK" PROVE wr_fifos'[mcur'.name] = mcur'.h
  <2> USE DEF clientVars, handlerVars, mainVars, regVars
  <2>1. CASE MainRegister
    <3>1. wr_fifos' = [wr_fifos EXCEPT ![mcur.name] = mcur.h] /\ mcur' = mcur /\ mpc = "openHandler"
      BY <2>1 DEF MainRegister, Register, MainOpensHandlerFifo
    <3>2. mcur.name \in Names
      BY <1>0, <3>1 DEF IInv, Handshake, MainConsistent
    <3> QED
      BY <1>0, <3>1, <3>2 DEF TypeOK
  <2>2. CASE MainRefuse
    BY <1>2, <2>2 DEF MainRefuse, NAK
  <2>3. CASE MainReadBootstrap \/ MainOpenMain \/ MainAckTooLong \/ MainSigpipe
    BY <1>2, <2>3 DEF MainReadBootstrap, MainOpenMain, MainAckTooLong, MainSigpipe
  <2>4. CASE MainReply \/ \E n \in Names : MainWrite(n) \/ MainForward(n) \/ MainGoodbye(n)
    BY <1>2, <2>4 DEF MainReply, MainWrite, MainForward, MainGoodbye, Broadcast
  <2>5. ASSUME (\E g \in Handlers : Handler(g)) \/ UNCHANGED vars
        PROVE  mpc' = mpc /\ mout' = mout /\ mcur' = mcur /\ wr_fifos' = wr_fifos
    BY <2>5 DEF vars, Handler, HandlerJoin, HandlerRejoin, HandlerOpenMain, HandlerOpenHandler,
                HandlerForward, HandlerSigpipe, HandlerDiscard, HandlerEOF, HandlerReset,
                HandlerShortRead, HandlerRelay, HandlerMainEOF, HandlerEnds
  <2>6. ASSUME NEW g \in Handlers, Client(g)
        PROVE  mpc' = mpc /\ mout' = mout /\ mcur' = mcur /\ wr_fifos' = wr_fifos
    BY <2>6 DEF Client, Accept, Drop, ClientSend, ClientRead, ClientClose
  <2>7. mpc' = mpc /\ mout' = mout /\ mcur' = mcur /\ wr_fifos' = wr_fifos
        => wr_fifos'[mcur'.name] = mcur'.h
    BY <1>2 DEF Settled
  <2> QED
    BY <2>1, <2>2, <2>3, <2>4, <2>5, <2>6, <2>7 DEF Next, Main
<1>3. ASSUME NEW h \in Handlers, mainEnd'[h] \in {"never", "half"} PROVE told'[h] = "none"
  <2>1. mainEnd[h] \in {"never", "half"}
    BY <1>0, <1>3, EndFlow
  <2>2. told[h] = "none" /\ inbox[h] = <<>> /\ mfifo[h] = <<>>
    BY <1>0, <2>1 DEF Underway, Settled
  <2> QED
    BY <1>0, <2>2, InboxFlow
<1> QED
  BY <1>1, <1>2, <1>3 DEF Settled

(* What holds of a connection whose user is listening.                     *)
LEMMA ChatterFacts ==
  ASSUME IInv, NEW n \in Chatters
  PROVE  /\ n \in Names /\ n \in Registered /\ mpc # "dead"
         /\ wr_fifos[n] \in Handlers /\ wr_fifos[n] \in files
         /\ Live(wr_fifos[n]) /\ hpc[wr_fifos[n]] \notin Gone
         /\ peer[wr_fifos[n]] = "open" /\ mainEnd[wr_fifos[n]] = "open"
         /\ \A k \in Registered : wr_fifos[k] = wr_fifos[n] => k = n
<1>1. n \in Names /\ n \in Registered /\ mpc # "dead" /\ Live(wr_fifos[n]) /\ peer[wr_fifos[n]] = "open"
  BY DEF Chatters, Listening
<1>2. wr_fifos[n] \in Handlers
  BY <1>1 DEF IInv, TypeOK, Registered
<1>3. mainEnd[wr_fifos[n]] = "open" /\ \A k \in Registered : wr_fifos[k] = wr_fifos[n] => k = n
  BY <1>1 DEF IInv, RegistryConsistent
<1>4. wr_fifos[n] \in files
  BY <1>1, <1>2, <1>3 DEF IInv, Handshake, PipeConsistent, Live
<1>5. hpc[wr_fifos[n]] \notin Gone
  BY <1>1 DEF Live, Gone
<1> QED
  BY <1>1, <1>2, <1>3, <1>4, <1>5

(* A user starts to listen when main registers it, and no other way.       *)
LEMMA ChatterStays ==
  ASSUME IInv, Settled, [Next]_vars, NEW n \in Chatters'
  PROVE  \/ MainRegister /\ n = mcur.name
         \/ n \in Chatters /\ wr_fifos'[n] = wr_fifos[n]
<1>0. TypeOK
  BY DEF IInv
<1>1. /\ n \in Names /\ wr_fifos'[n] # NoFd /\ mpc' # "dead"
      /\ Live(wr_fifos[n])' /\ peer'[wr_fifos'[n]] = "open"
  BY DEF Chatters, Listening, Registered
<1>2. (MainRegister /\ n = mcur.name) \/ wr_fifos'[n] = wr_fifos[n]
  <2>1. CASE MainRegister
    BY <1>0, <1>1, <2>1 DEF MainRegister, Register, TypeOK
  <2>2. CASE MainAckTooLong
    BY <1>1, <2>2 DEF MainAckTooLong
  <2>3. ASSUME NEW k \in Names, MainGoodbye(k) PROVE wr_fifos'[n] = wr_fifos[n]
    BY <1>0, <1>1, <2>3 DEF MainGoodbye, TypeOK
  <2>4. MainOpenMain \/ MainRefuse \/ MainReply => wr_fifos' = wr_fifos
    BY DEF MainOpenMain, MainRefuse, MainReply, regVars
  <2> QED
    BY <2>1, <2>2, <2>3, <2>4, RegistryWriters
<1>3. ASSUME wr_fifos'[n] = wr_fifos[n] PROVE n \in Chatters
  <2>1. PICK h \in Handlers : h = wr_fifos[n]
    BY <1>0, <1>1, <1>3 DEF TypeOK
  <2>2. n \in Registered /\ mainEnd[h] = "open"
    BY <1>1, <1>3, <2>1 DEF Registered, IInv, RegistryConsistent
  <2>3. hpc[h] # "none"
    BY <2>2 DEF Settled
  <2>4. Live(h)' /\ peer'[h] = "open"
    BY <1>1, <1>3, <2>1 DEF Live
  <2>5. Live(h) /\ peer[h] = "open" /\ mpc # "dead"
    BY <1>0, <1>1, <2>3, <2>4, LifeFlow
  <2> QED
    BY <1>1, <2>1, <2>2, <2>5 DEF Chatters, Listening
<1> QED
  BY <1>2, <1>3

-----------------------------------------------------------------------------
(* What a step does to the stream of a user.                               *)

LEMMA PendingIs ==
  ASSUME NEW n
  PROVE  /\ mpc = "write" => Pending(n) = IF n \in mout.to THEN <<mout.msg>> ELSE <<>>
         /\ mpc = "reply" /\ mout.msg.type = "ACK" =>
              Pending(n) = IF n = mcur.name THEN <<mout.msg>> ELSE <<ONLINE(mcur.name)>>
         /\ mpc = "reply" /\ mout.msg.type # "ACK" => Pending(n) = <<>>
         /\ mpc \notin {"write", "reply"} => Pending(n) = <<>>
BY DEF Pending

LEMMA PendingNext ==
  ASSUME NEW n
  PROVE  /\ mpc' = "write" => Pending(n)' = IF n \in mout'.to THEN <<mout'.msg>> ELSE <<>>
         /\ mpc' = "reply" /\ mout'.msg.type = "ACK" =>
              Pending(n)' = IF n = mcur'.name THEN <<mout'.msg>> ELSE <<ONLINE(mcur'.name)>>
         /\ mpc' = "reply" /\ mout'.msg.type # "ACK" => Pending(n)' = <<>>
         /\ mpc' \notin {"write", "reply"} => Pending(n)' = <<>>
BY DEF Pending, ONLINE

LEMMA BroadcastPending ==
  ASSUME NEW n, NEW m, NEW to, Broadcast(m, to)
  PROVE  Pending(n)' = IF n \in to THEN <<m>> ELSE <<>>
<1>1. CASE to = {}
  <2>1. mpc' = "select"
    BY <1>1 DEF Broadcast
  <2> QED
    BY <1>1, <2>1, PendingNext
<1>2. CASE to # {}
  <2>1. mpc' = "write" /\ mout'.msg = m /\ mout'.to = to
    BY <1>2 DEF Broadcast
  <2> QED
    BY <2>1, PendingNext
<1> QED
  BY <1>1, <1>2

LEMMA PendingTyped ==
  ASSUME IInv, NEW n \in Names
  PROVE  Pending(n) \in Seq(Message)
<1>1. mout.msg \in Message
  BY DEF IInv, TypeOK
<1>2. mpc = "reply" => ONLINE(mcur.name) \in Message
  BY MessagesTyped DEF IInv, Handshake, MainConsistent
<1>3. \/ Pending(n) = <<>> \/ Pending(n) = <<mout.msg>>
      \/ mpc = "reply" /\ Pending(n) = <<ONLINE(mcur.name)>>
  BY PendingIs
<1>4. \A m \in Message : <<m>> \in Seq(Message)
  OBVIOUS
<1>5. <<>> \in Seq(Message)
  OBVIOUS
<1> QED
  BY <1>1, <1>2, <1>3, <1>4, <1>5

LEMMA ToReadTyped ==
  ASSUME IInv, NEW n \in Chatters
  PROVE  /\ inbox[wr_fifos[n]] \in Seq(Message) /\ mfifo[wr_fifos[n]] \in Seq(Message)
         /\ Pending(n) \in Seq(Message) /\ ToRead(n) \in Seq(Message)
         /\ view[wr_fifos[n]] \in SUBSET Names
<1>1. n \in Names /\ wr_fifos[n] \in Handlers
  BY ChatterFacts
<1>2. /\ inbox[wr_fifos[n]] \in Seq(Message) /\ mfifo[wr_fifos[n]] \in Seq(Message)
      /\ view[wr_fifos[n]] \in SUBSET Names
  BY <1>1 DEF IInv, TypeOK
<1>3. Pending(n) \in Seq(Message)
  BY <1>1, PendingTyped
<1> QED
  BY <1>2, <1>3, ConcatAt DEF ToRead

(* Steps that move messages along, or none: no user's stream changes.      *)
LEMMA QuietStep ==
  ASSUME StreamInv, Settled, [Next]_vars, NEW n \in Chatters, n \in Chatters',
         wr_fifos'[n] = wr_fifos[n], ~MainRegister,
         \A k \in Names : ~MainForward(k) /\ ~MainGoodbye(k),
         \A g \in Handlers : ~ClientRead(g)
  PROVE  /\ ToRead(n)' = ToRead(n)
         /\ view'[wr_fifos[n]] = view[wr_fifos[n]] /\ told'[wr_fifos[n]] = told[wr_fifos[n]]
         /\ Users' = Users
<1> DEFINE h == wr_fifos[n]
<1> DEFINE in == inbox[h]
<1> DEFINE mf == mfifo[h]
<1> DEFINE p == Pending(n)
<1>0. IInv /\ TypeOK
  BY DEF StreamInv, IInv
<1>1. /\ n \in Names /\ n \in Registered /\ h \in Handlers
      /\ \A k \in Registered : wr_fifos[k] = h => k = n
  BY <1>0, ChatterFacts
<1>2. in \in Seq(Message) /\ mf \in Seq(Message) /\ p \in Seq(Message)
  BY <1>0, ToReadTyped
<1>3. ToRead(n) = (in \o mf) \o p
  BY DEF ToRead
<1>4. ToRead(n)' = (inbox'[h] \o mfifo'[h]) \o Pending(n)'
  BY DEF ToRead
<1>5. mpc' # "dead" /\ hpc'[h] \notin Gone
  <2>1. Live(wr_fifos[n])' /\ mpc' # "dead"
    BY DEF Chatters, Listening
  <2> QED
    BY <2>1 DEF Live, Gone
<1>6. mout.msg \in Message
  BY <1>0 DEF TypeOK
<1>7. ASSUME NEW m \in Message, mfifo'[h] = Append(mf, m), inbox'[h] = in, p = <<m>>, Pending(n)' = <<>>
      PROVE  ToRead(n)' = ToRead(n)
  <2>1. in \o mf \in Seq(Message) /\ Append(mf, m) \in Seq(Message)
    BY <1>2, <1>7, ConcatAt, AppendAt
  <2>2. in \o Append(mf, m) = Append(in \o mf, m) /\ Append(in \o mf, m) \in Seq(Message)
    BY <1>2, <1>7, <2>1, ConcatAppend, AppendAt
  <2>3. (in \o mf) \o <<m>> = Append(in \o mf, m)
    BY <1>7, <2>1, ConcatOne
  <2>4. Append(in \o mf, m) \o <<>> = Append(in \o mf, m)
    BY <2>2, ConcatNone
  <2> HIDE DEF in, mf, p, h
  <2> QED
    BY <1>3, <1>4, <1>7, <2>2, <2>3, <2>4
<1>8. ASSUME inbox'[h] = in, mfifo'[h] = mf, Pending(n)' = p PROVE ToRead(n)' = ToRead(n)
  BY <1>3, <1>4, <1>8
<1>9. ASSUME UNCHANGED <<mpc, mout, mcur>> PROVE Pending(n)' = p
  BY <1>9 DEF Pending, ONLINE
<1> HIDE DEF h, in, mf, p
<1> DEFINE Same == ToRead(n)' = ToRead(n) /\ view'[h] = view[h] /\ told'[h] = told[h]
<1> USE DEF clientVars, handlerVars, mainVars, regVars
<1>10. ASSUME UNCHANGED vars PROVE Same
  <2>1. /\ UNCHANGED <<mpc, mout, mcur>> /\ inbox' = inbox /\ mfifo' = mfifo
        /\ view' = view /\ told' = told
    BY <1>10 DEF vars
  <2> QED
    BY <1>8, <1>9, <2>1 DEF in, mf
<1>11. ASSUME NEW g \in Handlers, HandlerRelay(g) PROVE Same
  <2>1. /\ UNCHANGED <<mpc, mout, mcur>> /\ view' = view /\ told' = told
        /\ inbox' = [inbox EXCEPT ![g] = Append(@, Head(mfifo[g]))]
        /\ mfifo' = [mfifo EXCEPT ![g] = Tail(@)] /\ mfifo[g] # <<>>
    BY <1>11 DEF HandlerRelay
  <2>2. CASE g # h
    <3>1. inbox'[h] = in /\ mfifo'[h] = mf
      BY <1>0, <1>1, <2>1, <2>2 DEF TypeOK, in, mf
    <3> QED
      BY <1>8, <1>9, <2>1, <3>1
  <2>3. CASE g = h
    <3>1. inbox'[h] = Append(in, Head(mf)) /\ mfifo'[h] = Tail(mf) /\ mf # <<>>
      BY <1>0, <1>1, <2>1, <2>3 DEF TypeOK, in, mf
    <3>2. inbox'[h] \o mfifo'[h] = in \o mf
      BY <1>2, <3>1, MoveHead
    <3> QED
      BY <1>3, <1>4, <1>9, <2>1, <3>2
  <2> QED
    BY <2>2, <2>3
<1>12. ASSUME NEW g \in Handlers, Handler(g), ~HandlerRelay(g) PROVE Same
  <2>1. UNCHANGED <<mpc, mout, mcur>> /\ view' = view /\ told' = told /\ inbox' = inbox
    BY <1>12 DEF Handler, HandlerJoin, HandlerRejoin, HandlerOpenMain, HandlerOpenHandler,
                HandlerForward, HandlerSigpipe, HandlerDiscard, HandlerEOF, HandlerReset,
                HandlerShortRead, HandlerMainEOF, HandlerEnds
  <2>2. ASSUME \/ HandlerRejoin(g) \/ HandlerSigpipe(g) \/ HandlerEOF(g)
               \/ HandlerReset(g) \/ HandlerShortRead(g) \/ HandlerMainEOF(g)
        PROVE  mfifo'[h] = mf
    <3>1. mfifo' = [mfifo EXCEPT ![g] = <<>>] /\ \E how \in Gone : hpc' = [hpc EXCEPT ![g] = how]
      BY <2>2 DEF HandlerRejoin, HandlerSigpipe, HandlerEOF, HandlerReset, HandlerShortRead,
                  HandlerMainEOF, HandlerEnds, Gone
    <3>2. g # h
      BY <1>0, <1>5, <3>1 DEF TypeOK
    <3> QED
      BY <1>0, <1>1, <3>1, <3>2 DEF TypeOK, mf
  <2>3. ASSUME \/ HandlerJoin(g) \/ HandlerOpenMain(g) \/ HandlerOpenHandler(g)
               \/ HandlerForward(g) \/ HandlerDiscard(g)
        PROVE  mfifo'[h] = mf
    BY <2>3 DEF HandlerJoin, HandlerOpenMain, HandlerOpenHandler, HandlerForward, HandlerDiscard, mf
  <2>4. mfifo'[h] = mf
    BY <1>12, <2>2, <2>3 DEF Handler
  <2> QED
    BY <1>8, <1>9, <2>1, <2>4 DEF in
<1>13. ASSUME NEW g \in Handlers, Client(g) PROVE Same
  <2>1. /\ UNCHANGED <<mpc, mout, mcur>> /\ view' = view /\ told' = told
        /\ inbox' = inbox /\ mfifo' = mfifo
    BY <1>13 DEF Client, Accept, Drop, ClientSend, ClientClose
  <2> QED
    BY <1>8, <1>9, <2>1 DEF in, mf
<1>14. ASSUME MainReadBootstrap \/ MainOpenMain \/ MainRefuse PROVE Same
  <2>1. view' = view /\ told' = told /\ inbox' = inbox /\ mfifo' = mfifo
    BY <1>14 DEF MainReadBootstrap, MainOpenMain, MainRefuse, MainOpensHandlerFifo
  <2>2. mpc \notin {"write", "reply"}
    BY <1>14 DEF MainReadBootstrap, MainOpenMain, MainRefuse, MainOpensHandlerFifo
  <2>3. mpc' \notin {"write", "reply"} \/ (mpc' = "reply" /\ mout'.msg.type # "ACK")
    BY <1>14 DEF MainReadBootstrap, MainOpenMain, MainRefuse, NAK
  <2>4. p = <<>> /\ Pending(n)' = <<>>
    BY <2>2, <2>3, PendingIs, PendingNext DEF p
  <2> QED
    BY <1>8, <2>1, <2>4 DEF in, mf
<1>15. ASSUME MainReply PROVE Same
  <2>1. /\ view' = view /\ told' = told /\ inbox' = inbox /\ mpc = "reply"
        /\ mfifo' = [mfifo EXCEPT ![mcur.h] = Append(@, mout.msg)]
    BY <1>15 DEF MainReply
  <2>2. /\ mcur.h \in Handlers /\ mcur.name \in Names
        /\ mout.msg.type = "NAK" => \A k \in Registered : wr_fifos[k] # mcur.h
    BY <1>0, <2>1 DEF IInv, Handshake, MainConsistent
  <2>3. CASE mout.msg.type = "NAK"
    <3>1. Broadcast(NAK, {})
      BY <1>15, <2>3 DEF MainReply
    <3>2. Pending(n)' = <<>> /\ p = <<>>
      BY <2>1, <2>3, <3>1, BroadcastPending, PendingIs DEF p
    <3>3. mfifo'[h] = mf
      BY <1>0, <1>1, <2>1, <2>2, <2>3 DEF TypeOK, mf, h
    <3> QED
      BY <1>8, <2>1, <3>2, <3>3 DEF in
  <2>4. CASE mout.msg.type = "ACK"
    <3>1. Broadcast(ONLINE(mcur.name), Registered \ {mcur.name}) /\ wr_fifos[mcur.name] = mcur.h
      BY <1>15, <2>1, <2>4 DEF MainReply, Settled
    <3>2. mcur.name \in Registered
      BY <2>2, <3>1, HandlersAssumption DEF Registered
    <3>3. CASE n = mcur.name
      <4>1. p = <<mout.msg>> /\ Pending(n)' = <<>>
        BY <2>1, <2>4, <3>1, <3>3, BroadcastPending, PendingIs DEF p
      <4>2. mfifo'[h] = Append(mf, mout.msg) /\ inbox'[h] = in
        BY <1>0, <2>1, <2>2, <3>1, <3>3 DEF TypeOK, mf, in, h
      <4> QED
        BY <1>6, <1>7, <2>1, <4>1, <4>2
    <3>4. CASE n # mcur.name
      <4>1. p = <<ONLINE(mcur.name)>> /\ Pending(n)' = <<ONLINE(mcur.name)>>
        BY <1>1, <2>1, <2>4, <3>1, <3>4, BroadcastPending, PendingIs, SMTT(30) DEF p
      <4>2. h # mcur.h
        BY <1>1, <3>1, <3>2, <3>4
      <4>3. mfifo'[h] = mf /\ inbox'[h] = in
        BY <1>0, <1>1, <2>1, <4>2 DEF TypeOK, mf, in
      <4> QED
        BY <1>8, <2>1, <4>1, <4>3
    <3> QED
      BY <3>3, <3>4
  <2> QED
    BY <1>15, <2>3, <2>4 DEF MainReply
<1>16. ASSUME NEW k \in Names, MainWrite(k) PROVE Same
  <2>1. /\ view' = view /\ told' = told /\ inbox' = inbox /\ mpc = "write" /\ k \in mout.to
        /\ mfifo' = [mfifo EXCEPT ![wr_fifos[k]] = Append(@, mout.msg)]
        /\ Broadcast(mout.msg, mout.to \ {k})
    BY <1>16 DEF MainWrite
  <2>2. k \in Registered
    BY <1>0, <2>1 DEF IInv, Handshake, MainConsistent
  <2>3. CASE k = n
    <3>1. p = <<mout.msg>> /\ Pending(n)' = <<>>
      BY <2>1, <2>3, BroadcastPending, PendingIs DEF p
    <3>2. mfifo'[h] = Append(mf, mout.msg) /\ inbox'[h] = in
      BY <1>0, <1>1, <2>1, <2>3 DEF TypeOK, mf, in, h
    <3> QED
      BY <1>6, <1>7, <2>1, <3>1, <3>2
  <2>4. CASE k # n
    <3>1. p = Pending(n)'
      BY <2>1, <2>4, BroadcastPending, PendingIs DEF p
    <3>2. h # wr_fifos[k]
      BY <1>1, <2>2, <2>4
    <3>3. mfifo'[h] = mf /\ inbox'[h] = in
      BY <1>0, <1>1, <2>1, <3>2 DEF TypeOK, mf, in
    <3> QED
      BY <1>8, <2>1, <3>1, <3>3
  <2> QED
    BY <2>3, <2>4
<1>17. ASSUME MainSigpipe \/ MainAckTooLong PROVE FALSE
  BY <1>5, <1>17 DEF MainSigpipe, MainAckTooLong
<1>18. Same
  <2> HIDE DEF Same
  <2> QED
    BY <1>10, <1>11, <1>12, <1>13, <1>14, <1>15, <1>16, <1>17 DEF Next, Main
<1>19. Users' = Users
  <2>1. MainOpenMain \/ MainRefuse \/ MainReply => online_users' = online_users
    BY DEF MainOpenMain, MainRefuse, MainReply
  <2>2. online_users' = online_users
    BY <1>17, <2>1, RegistryWriters
  <2> QED
    BY <2>2 DEF Users
<1> QED
  BY <1>18, <1>19 DEF h
(* The user's client reads a message.                                      *)
LEMMA ReadStep ==
  ASSUME IInv, NEW n \in Chatters, NEW g \in Handlers, ClientRead(g)
  PROVE  LET h == wr_fifos[n]
             s == ToRead(n)
         IN  /\ Users' = Users
             /\ g # h => ToRead(n)' = s /\ view'[h] = view[h] /\ told'[h] = told[h]
             /\ g = h => /\ s # <<>> /\ ToRead(n)' = Tail(s)
                         /\ view'[h] = Shown(view[h], Head(s))
                         /\ told'[h] = IF Head(s).type \in {"ACK", "NAK"}
                                       THEN Head(s).type ELSE told[h]
<1> DEFINE h == wr_fifos[n]
<1> DEFINE in == inbox[h]
<1> DEFINE mf == mfifo[h]
<1> DEFINE p == Pending(n)
<1> USE DEF clientVars, handlerVars, mainVars, regVars
<1>0. TypeOK
  BY DEF IInv
<1>1. n \in Names /\ h \in Handlers
  BY ChatterFacts
<1>2. in \in Seq(Message) /\ mf \in Seq(Message) /\ p \in Seq(Message)
  BY ToReadTyped
<1>3. ToRead(n) = (in \o mf) \o p
  BY DEF ToRead
<1>4. /\ UNCHANGED <<mpc, mout, mcur, mfifo, wr_fifos, online_users>>
      /\ inbox' = [inbox EXCEPT ![g] = Tail(@)] /\ inbox[g] # <<>>
      /\ view' = [view EXCEPT ![g] = Shown(@, Head(inbox[g]))]
      /\ told' = [told EXCEPT ![g] = IF Head(inbox[g]).type \in {"ACK", "NAK"}
                                     THEN Head(inbox[g]).type ELSE @]
  BY DEF ClientRead
<1>5. Pending(n)' = p
  BY <1>4 DEF Pending, ONLINE
<1>6. ToRead(n)' = (inbox'[h] \o mf) \o p
  BY <1>4, <1>5 DEF ToRead
<1>7. Users' = Users
  BY <1>4 DEF Users
<1> HIDE DEF in, mf, p
<1>8. ASSUME g # h PROVE ToRead(n)' = ToRead(n) /\ view'[h] = view[h] /\ told'[h] = told[h]
  <2>1. inbox'[h] = in /\ view'[h] = view[h] /\ told'[h] = told[h]
    BY <1>0, <1>1, <1>4, <1>8 DEF TypeOK, in
  <2> QED
    BY <1>3, <1>6, <2>1
<1>9. ASSUME g = h
      PROVE  /\ ToRead(n) # <<>> /\ ToRead(n)' = Tail(ToRead(n))
             /\ view'[h] = Shown(view[h], Head(ToRead(n)))
             /\ told'[h] = IF Head(ToRead(n)).type \in {"ACK", "NAK"}
                           THEN Head(ToRead(n)).type ELSE told[h]
  <2>1. /\ inbox'[h] = Tail(in) /\ in # <<>> /\ view'[h] = Shown(view[h], Head(in))
        /\ told'[h] = IF Head(in).type \in {"ACK", "NAK"} THEN Head(in).type ELSE told[h]
    BY <1>0, <1>1, <1>4, <1>9 DEF TypeOK, in
  <2>2. /\ in \o mf \in Seq(Message) /\ in \o mf # <<>> /\ Head(in \o mf) = Head(in)
        /\ Tail(in) \o mf = Tail(in \o mf)
    BY <1>2, <2>1, ConcatTail, ConcatAt
  <2>3. /\ (in \o mf) \o p # <<>> /\ Head((in \o mf) \o p) = Head(in \o mf)
        /\ Tail(in \o mf) \o p = Tail((in \o mf) \o p)
    BY <1>2, <2>2, ConcatTail
  <2> QED
    BY <1>3, <1>6, <2>1, <2>2, <2>3
<1> QED
  BY <1>7, <1>8, <1>9

(* main takes up a message for the user.                                   *)
LEMMA AddStep ==
  ASSUME IInv, NEW n \in Chatters, wr_fifos'[n] = wr_fifos[n], mpc \notin {"write", "reply"},
         inbox' = inbox, mfifo' = mfifo, NEW m \in Message, Pending(n)' = <<m>>
  PROVE  ToRead(n)' = Append(ToRead(n), m)
<1> DEFINE s == inbox[wr_fifos[n]] \o mfifo[wr_fifos[n]]
<1>1. s \in Seq(Message)
  BY ToReadTyped, ConcatAt
<1>2. ToRead(n) = s \o <<>>
  BY PendingIs DEF ToRead
<1>3. ToRead(n)' = s \o <<m>>
  BY DEF ToRead
<1> HIDE DEF s
<1>4. s \o <<>> = s /\ s \o <<m>> = Append(s, m)
  BY <1>1, ConcatNone, ConcatOne
<1> QED
  BY <1>2, <1>3, <1>4

LEMMA RegisterStep ==
  ASSUME StreamInv, Settled, MainRegister, [Next]_vars, NEW n \in Chatters'
  PROVE  /\ mcur.name \in Names /\ mcur.h \in Handlers /\ mcur.name \notin Users
         /\ Users' = Users \cup {mcur.name}
         /\ view' = view /\ told' = told
         /\ n = mcur.name => /\ wr_fifos'[n] = mcur.h /\ told[mcur.h] = "none"
                             /\ mainEnd[mcur.h] = "half" /\ ToRead(n)' = <<ACK(Users)>>
         /\ n # mcur.name => /\ n \in Chatters /\ wr_fifos'[n] = wr_fifos[n]
                             /\ ToRead(n)' = Append(ToRead(n), ONLINE(mcur.name))
<1> USE DEF clientVars, handlerVars, mainVars, regVars
<1>0. IInv /\ TypeOK /\ TypeOK' /\ RegistryConsistent /\ RegistryConsistent'
  BY TypeStep, RegistryStep DEF StreamInv, IInv
<1>1. /\ mpc = "openHandler" /\ mpc' = "reply" /\ mout' = [msg |-> ACK(Users), to |-> {}]
      /\ mcur' = mcur /\ inbox' = inbox /\ mfifo' = mfifo /\ view' = view /\ told' = told
      /\ wr_fifos' = [wr_fifos EXCEPT ![mcur.name] = mcur.h] /\ rd_fifos[mcur.name] = NoFd
  BY DEF MainRegister, MainOpensHandlerFifo, Register, Refused
<1>2. mcur.h \in Handlers /\ mcur.name \in Names /\ mainEnd[mcur.h] = "half"
  BY <1>0, <1>1 DEF IInv, Handshake, MainConsistent
<1>3. mcur.name \notin Users
  BY <1>0, <1>1 DEF RegistryConsistent, Registered
<1>4. Users' = Users \cup {mcur.name}
  <2>1. Registered' = Registered \cup {mcur.name}
    BY <1>0, <1>1, <1>2, HandlersAssumption DEF Registered, TypeOK
  <2> QED
    BY <1>0, <2>1 DEF RegistryConsistent
<1>5. told[mcur.h] = "none" /\ inbox[mcur.h] = <<>> /\ mfifo[mcur.h] = <<>>
  BY <1>2 DEF StreamInv, Underway, Settled
<1>6. mout'.msg = ACK(Users) /\ mout'.msg.type = "ACK"
  BY <1>1 DEF ACK
<1>7. ASSUME n = mcur.name
      PROVE  /\ wr_fifos'[n] = mcur.h
             /\ ToRead(n)' = <<ACK(Users)>>
  <2>1. wr_fifos'[n] = mcur.h
    BY <1>0, <1>1, <1>2, <1>7 DEF TypeOK
  <2>2. Pending(n)' = <<ACK(Users)>>
    BY <1>1, <1>6, <1>7, PendingNext
  <2>3. ToRead(n)' = (<<>> \o <<>>) \o <<ACK(Users)>>
    BY <1>1, <1>5, <2>1, <2>2 DEF ToRead
  <2>4. \A m : (<<>> \o <<>>) \o <<m>> = <<m>>
    OBVIOUS
  <2> QED
    BY <2>1, <2>3, <2>4
<1>8. ASSUME n # mcur.name
      PROVE  /\ n \in Chatters /\ wr_fifos'[n] = wr_fifos[n]
             /\ ToRead(n)' = Append(ToRead(n), ONLINE(mcur.name))
  <2>1. n \in Chatters /\ wr_fifos'[n] = wr_fifos[n]
    BY <1>0, <1>8, ChatterStays
  <2>2. Pending(n)' = <<ONLINE(mcur.name)>>
    BY <1>1, <1>6, <1>8, PendingNext
  <2>3. ONLINE(mcur.name) \in Message
    BY <1>2, MessagesTyped
  <2> QED
    BY <1>0, <1>1, <2>1, <2>2, <2>3, AddStep
<1> QED
  BY <1>1, <1>2, <1>3, <1>4, <1>5, <1>7, <1>8

LEMMA ForwardStep ==
  ASSUME StreamInv, Settled, [Next]_vars, NEW k \in Names, MainForward(k), NEW n \in Chatters'
  PROVE  /\ n \in Chatters /\ wr_fifos'[n] = wr_fifos[n] /\ view' = view /\ told' = told
         /\ Users' = Users /\ k \in Registered /\ hfifo[wr_fifos[k]] # <<>>
         /\ UNCHANGED <<sock, sent>> /\ hfifo' = [hfifo EXCEPT ![wr_fifos[k]] = Tail(@)]
         /\ n = k => ToRead(n)' = ToRead(n)
         /\ n # k => \E m \in Message : /\ ToRead(n)' = Append(ToRead(n), m)
                                        /\ m.type \in {"FWD", "IDLE"} /\ m.user = k
                                        /\ m.id = Head(hfifo[wr_fifos[k]]).id
<1> USE DEF clientVars, handlerVars, mainVars, regVars
<1>0. IInv /\ TypeOK /\ rd_fifos = wr_fifos
  BY DEF StreamInv, IInv, RegistryConsistent
<1>1. /\ mpc = "select" /\ UNCHANGED <<view, told, online_users, wr_fifos, inbox, mfifo, sock, sent>>
      /\ hfifo' = [hfifo EXCEPT ![wr_fifos[k]] = Tail(@)] /\ hfifo[wr_fifos[k]] # <<>>
      /\ rd_fifos[k] # NoFd
  BY <1>0 DEF MainForward, MainSelects, FifoReady
<1>2. n \in Chatters /\ wr_fifos'[n] = wr_fifos[n]
  <2>1. ~MainRegister
    BY <1>1 DEF MainRegister, MainOpensHandlerFifo
  <2> QED
    BY <1>0, <2>1, ChatterStays
<1>3. Users' = Users
  BY <1>1 DEF Users
<1>4. k \in Registered /\ wr_fifos[k] \in Handlers
  BY <1>0, <1>1 DEF Registered, TypeOK
<1>5. PICK q \in Message : q = Head(hfifo[wr_fifos[k]])
  BY <1>0, <1>1, <1>4, HeadTailFacts DEF TypeOK
<1>6. PICK m : /\ Broadcast(m, Registered \ {k})
               /\ \/ q.type = "SEND" /\ m = change_to_fwd(q, k)
                  \/ q.type = "IDLE" /\ m = add_username(q, k)
  BY <1>0, <1>5 DEF MainForward
<1>7. m \in Message
  BY <1>5, <1>6, MessagesTyped
<1>8. m.type \in {"FWD", "IDLE"} /\ m.user = k /\ m.id = q.id
  BY <1>5, <1>6 DEF change_to_fwd, add_username, Message
<1>9. Pending(n)' = IF n \in Registered \ {k} THEN <<m>> ELSE <<>>
  BY <1>6, BroadcastPending
<1>10. n \in Registered
  BY <1>0, <1>2, ChatterFacts
<1>11. ASSUME n = k PROVE ToRead(n)' = ToRead(n)
  <2>1. Pending(n)' = <<>> /\ Pending(n) = <<>>
    BY <1>1, <1>9, <1>11, PendingIs
  <2> QED
    BY <1>1, <2>1 DEF ToRead
<1>12. ASSUME n # k PROVE ToRead(n)' = Append(ToRead(n), m)
  <2>1. Pending(n)' = <<m>>
    BY <1>9, <1>10, <1>12
  <2> QED
    BY <1>0, <1>1, <1>2, <1>7, <2>1, AddStep
<1> QED
  BY <1>1, <1>2, <1>3, <1>4, <1>5, <1>7, <1>8, <1>11, <1>12

LEMMA GoodbyeStep ==
  ASSUME StreamInv, Settled, [Next]_vars, NEW k \in Names, MainGoodbye(k), NEW n \in Chatters'
  PROVE  /\ n \in Chatters /\ wr_fifos'[n] = wr_fifos[n] /\ view' = view /\ told' = told
         /\ n # k /\ k \in Users /\ Users' = Users \ {k}
         /\ ToRead(n)' = Append(ToRead(n), OFFLINE(k))
<1> USE DEF clientVars, handlerVars, mainVars, regVars
<1>0. IInv /\ TypeOK /\ TypeOK' /\ RegistryConsistent /\ RegistryConsistent'
  BY TypeStep, RegistryStep DEF StreamInv, IInv
<1>1. /\ mpc = "select" /\ UNCHANGED <<view, told, inbox, mfifo>>
      /\ wr_fifos' = [wr_fifos EXCEPT ![k] = NoFd] /\ rd_fifos[k] # NoFd
      /\ Broadcast(OFFLINE(k), Registered \ {k})
  BY DEF MainGoodbye, MainSelects, FifoReady
<1>2. n \in Chatters /\ wr_fifos'[n] = wr_fifos[n]
  <2>1. ~MainRegister
    BY <1>1 DEF MainRegister, MainOpensHandlerFifo
  <2> QED
    BY <1>0, <2>1, ChatterStays
<1>3. n \in Names /\ n \in Registered
  BY <1>0, <1>2, ChatterFacts
<1>4. n # k
  BY <1>0, <1>1, <1>2, <1>3 DEF TypeOK, Registered
<1>5. Registered' = Registered \ {k}
  BY <1>0, <1>1, HandlersAssumption DEF Registered, TypeOK
<1>6. k \in Users /\ Users' = Users \ {k}
  BY <1>0, <1>1, <1>5 DEF RegistryConsistent, Registered
<1>7. Pending(n)' = <<OFFLINE(k)>>
  BY <1>1, <1>3, <1>4, BroadcastPending
<1>8. OFFLINE(k) \in Message
  BY MessagesTyped
<1>9. ToRead(n)' = Append(ToRead(n), OFFLINE(k))
  BY <1>0, <1>1, <1>2, <1>7, <1>8, AddStep
<1> QED
  BY <1>1, <1>2, <1>4, <1>6, <1>9

-----------------------------------------------------------------------------
(* Rosters.                                                                *)

LEMMA StreamsReadStep == StreamInv /\ Settled /\ StreamsRead /\ [Next]_vars => StreamsRead'
<1> SUFFICES ASSUME StreamInv, Settled, StreamsRead, [Next]_vars, NEW n \in Chatters'
             PROVE  Reads(n, view'[wr_fifos'[n]], ToRead(n)', told'[wr_fifos'[n]], Users')
  BY DEF StreamsRead
<1>0. IInv /\ TypeOK /\ Users \in SUBSET Names
  <2>1. \A i \in 1 .. Len(online_users) : online_users[i] \in Names
    BY ElementTyped DEF StreamInv, IInv, TypeOK
  <2> QED
    BY <2>1 DEF StreamInv, IInv, Users
<1> DEFINE h == wr_fifos[n]
<1> DEFINE s == ToRead(n)
<1>1. ASSUME n \in Chatters
      PROVE  /\ n \in Names /\ view[h] \in SUBSET Names /\ s \in Seq(Message) /\ n \in Users
             /\ Reads(n, view[h], s, told[h], Users)
  <2>1. n \in Names /\ n \in Registered
    BY <1>0, <1>1, ChatterFacts
  <2>2. Users = Registered
    BY <1>0 DEF IInv, RegistryConsistent
  <2> QED
    BY <1>0, <1>1, <2>1, <2>2, ToReadTyped DEF StreamsRead
<1>2. CASE MainRegister
  <2>1. CASE n = mcur.name
    <3>1. /\ n \in Names /\ n \notin Users /\ wr_fifos'[n] = mcur.h /\ mcur.h \in Handlers
          /\ told'[mcur.h] = "none" /\ Users' = Users \cup {n} /\ ToRead(n)' = <<ACK(Users)>>
          /\ view' = view
      BY <1>2, <2>1, RegisterStep
    <3>2. view[mcur.h] \in SUBSET Names
      BY <1>0, <3>1 DEF TypeOK
    <3> QED
      BY <1>0, <3>1, <3>2, ReadsFirst
  <2>2. CASE n # mcur.name
    <3> DEFINE m == ONLINE(mcur.name)
    <3>1. /\ n \in Chatters /\ wr_fifos'[n] = h /\ view' = view /\ told' = told
          /\ Users' = Users \cup {mcur.name} /\ mcur.name \notin Users /\ mcur.name \in Names
          /\ ToRead(n)' = Append(s, m)
      BY <1>2, <2>2, RegisterStep
    <3>2. m \in Message
      BY <3>1, MessagesTyped
    <3>3. m.type = "ONLINE" /\ m.user = mcur.name
      BY DEF ONLINE
    <3> HIDE DEF m
    <3>4. Users' \ {n} = Shown(Users \ {n}, m)
      BY <2>2, <3>1, <3>3 DEF Shown
    <3>5. Reads(n, view[h], Append(s, m), told[h], Users')
      BY <1>0, <1>1, <2>2, <3>1, <3>2, <3>3, <3>4, ReadsAppend
    <3> QED
      BY <3>1, <3>5
  <2> QED
    BY <2>1, <2>2
<1>3. ASSUME NEW k \in Names, MainForward(k)
      PROVE  Reads(n, view'[wr_fifos'[n]], ToRead(n)', told'[wr_fifos'[n]], Users')
  <2>1. /\ n \in Chatters /\ wr_fifos'[n] = h /\ view' = view /\ told' = told /\ Users' = Users
        /\ k \in Registered
    BY <1>3, ForwardStep
  <2>2. CASE n = k
    <3>1. ToRead(n)' = s
      BY <1>3, <2>2, ForwardStep
    <3> QED
      BY <1>1, <2>1, <3>1
  <2>3. CASE n # k
    <3>1. PICK m \in Message : /\ ToRead(n)' = Append(s, m) /\ m.type \in {"FWD", "IDLE"}
                               /\ m.user = k
      BY <1>3, <2>3, ForwardStep
    <3>2. m.user \in Users \ {n}
      BY <1>0, <2>1, <2>3, <3>1 DEF IInv, RegistryConsistent
    <3>3. Users \ {n} = Shown(Users \ {n}, m)
      BY <3>1 DEF Shown
    <3>4. Reads(n, view[h], Append(s, m), told[h], Users)
      BY <1>0, <1>1, <2>1, <3>1, <3>2, <3>3, ReadsAppend
    <3> QED
      BY <2>1, <3>1, <3>4
  <2> QED
    BY <2>2, <2>3
<1>4. ASSUME NEW k \in Names, MainGoodbye(k)
      PROVE  Reads(n, view'[wr_fifos'[n]], ToRead(n)', told'[wr_fifos'[n]], Users')
  <2> DEFINE m == OFFLINE(k)
  <2>1. /\ n \in Chatters /\ wr_fifos'[n] = h /\ view' = view /\ told' = told
        /\ n # k /\ k \in Users /\ Users' = Users \ {k} /\ ToRead(n)' = Append(s, m)
    BY <1>4, GoodbyeStep
  <2>2. m \in Message
    BY MessagesTyped
  <2>3. m.type = "OFFLINE" /\ m.user = k
    BY DEF OFFLINE
  <2> HIDE DEF m
  <2>4. Users' \ {n} = Shown(Users \ {n}, m)
    BY <2>1, <2>3 DEF Shown
  <2>5. Reads(n, view[h], Append(s, m), told[h], Users')
    BY <1>0, <1>1, <2>1, <2>2, <2>3, <2>4, ReadsAppend
  <2> QED
    BY <2>1, <2>5
<1>5. ASSUME NEW g \in Handlers, ClientRead(g)
      PROVE  Reads(n, view'[wr_fifos'[n]], ToRead(n)', told'[wr_fifos'[n]], Users')
  <2>1. n \in Chatters /\ wr_fifos'[n] = h
    <3>1. ~MainRegister
      BY <1>5 DEF ClientRead, MainRegister, MainOpensHandlerFifo, clientVars, mainVars
    <3> QED
      BY <1>0, <3>1, ChatterStays
  <2>2. CASE g # h
    <3>1. ToRead(n)' = s /\ view'[h] = view[h] /\ told'[h] = told[h] /\ Users' = Users
      BY <1>0, <1>5, <2>1, <2>2, ReadStep
    <3> QED
      BY <1>1, <2>1, <3>1
  <2>3. CASE g = h
    <3>1. /\ s # <<>> /\ ToRead(n)' = Tail(s) /\ view'[h] = Shown(view[h], Head(s))
          /\ told'[h] = IF Head(s).type \in {"ACK", "NAK"} THEN Head(s).type ELSE told[h]
          /\ Users' = Users
      BY <1>0, <1>5, <2>1, <2>3, ReadStep
    <3> HIDE DEF s
    <3>2. Reads(n, Shown(view[h], Head(s)), Tail(s),
                IF Head(s).type \in {"ACK", "NAK"} THEN Head(s).type ELSE told[h], Users)
      BY <1>1, <2>1, <3>1, ReadsTail
    <3> QED
      BY <2>1, <3>1, <3>2
  <2> QED
    BY <2>2, <2>3
<1>6. CASE /\ ~MainRegister /\ \A k \in Names : ~MainForward(k) /\ ~MainGoodbye(k)
           /\ \A g \in Handlers : ~ClientRead(g)
  <2>1. n \in Chatters /\ wr_fifos'[n] = h
    BY <1>0, <1>6, ChatterStays
  <2>2. ToRead(n)' = s /\ view'[h] = view[h] /\ told'[h] = told[h] /\ Users' = Users
    BY <1>6, <2>1, QuietStep
  <2> QED
    BY <1>1, <2>1, <2>2
<1> QED
  BY <1>2, <1>3, <1>4, <1>5, <1>6

LEMMA InitStreams == Init => Settled /\ StreamsRead
<1> SUFFICES ASSUME Init PROVE Settled /\ StreamsRead
  OBVIOUS
<1>1. wr_fifos = [n \in Names |-> NoFd] /\ mpc = "select"
  BY DEF Init
<1>2. Chatters = {}
  BY <1>1 DEF Chatters, Listening, Registered
<1>3. Settled
  BY DEF Init, Settled
<1> QED
  BY <1>2, <1>3 DEF StreamsRead

LEMMA StreamsInvariant == Spec => [](StreamInv /\ Settled /\ StreamsRead)
<1>1. StreamInv /\ [Next]_vars => StreamInv'
  <2>1. StreamInv /\ [Next]_vars => IInv'
    BY TypeStep, RegistryStep, PipeStep, MainStep DEF StreamInv, IInv, Handshake
  <2> QED
    BY <2>1, UnderwayStep, NamesStep DEF StreamInv
<1> QED
  BY InitStreamInv, InitStreams, <1>1, SettledStep, StreamsReadStep, PTL DEF Spec

(* Once a user has read what is under way to it, it has been shown exactly *)
(* the other users in main's list: no join and no leave of anybody is lost *)
(* between the ACK and the announcements that follow it, however main's    *)
(* broadcast is interleaved with the handlers and the clients.             *)
THEOREM RostersAgree == Spec => []RosterAgreement
<1>1. StreamsRead => RosterAgreement
  BY DEF StreamsRead, RosterAgreement, Reads
<1> QED
  BY StreamsInvariant, <1>1, PTL

(* A user reads its ACK first and once, is told of a user's arrival before *)
(* it reads anything of that user and of nobody after the OFFLINE, and      *)
(* never gets its own messages back.                                       *)
THEOREM StreamsAreWellFormed == Spec => []StreamWellFormed
<1>1. StreamsRead => StreamWellFormed
  BY DEF StreamsRead, StreamWellFormed, Reads
<1> QED
  BY StreamsInvariant, <1>1, PTL

-----------------------------------------------------------------------------
(* Numbers.  What a client has sent and main has not taken is in its socket *)
(* and its fifo, numbered up to the last message sent; a message main has   *)
(* taken is of a connection it has answered.                               *)

Counted(g, f, s, c) ==
  /\ \A i \in 1 .. Len(f) : f[i].id = <<g, c - Len(s) - Len(f) + i>>
  /\ \A i \in 1 .. Len(s) : s[i].id = <<g, c - Len(s) + i>>

Taken(g) == sent[g] - Len(sock[g]) - Len(hfifo[g])

Numbered ==
  \A g \in Handlers : hpc[g] \notin Gone =>
    Counted(g, hfifo[g], sock[g], sent[g]) /\ (g \notin files => hfifo[g] = <<>>)

\* A message that names a connection names one main has answered.
FromAnswered(m) == m.id[1] \in Handlers => mainEnd[m.id[1]] \in {"open", "closed"}

Sources ==
  /\ \A h \in Handlers : \A m \in InInbox(h) \cup InMfifo(h) : FromAnswered(m)
  /\ mpc = "write" => FromAnswered(mout.msg)
  /\ mpc = "reply" => mout.msg.id = NoId

Trails ==
  \A m \in Chatters : \A n \in Chatters \ {m} :
    Trail(ToRead(n), wr_fifos[m], Taken(wr_fifos[m]))

LEMMA CountSend ==
  ASSUME NEW g, NEW f \in Seq(Message), NEW s \in Seq(Message), NEW c \in Nat,
         NEW m \in Message, m.id = <<g, c + 1>>, Counted(g, f, s, c)
  PROVE  Counted(g, f, Append(s, m), c + 1)
<1> DEFINE r == Append(s, m)
<1>1. /\ r \in Seq(Message) /\ Len(s) \in Nat /\ Len(r) = Len(s) + 1 /\ r[Len(s) + 1] = m
      /\ \A i \in 1 .. Len(s) : r[i] = s[i]
  BY AppendAt
<1>2. Len(f) \in Nat
  OBVIOUS
<1> HIDE DEF r
<1>3. (c + 1) - Len(r) = c - Len(s)
  BY <1>1
<1>4. ASSUME NEW i \in 1 .. Len(r) PROVE r[i].id = <<g, c - Len(s) + i>>
  <2>1. CASE i \in 1 .. Len(s)
    BY <1>1, <2>1 DEF Counted
  <2>2. CASE i = Len(s) + 1
    <3>1. c - Len(s) + i = c + 1
      BY <1>1, <2>2
    <3> QED
      BY <1>1, <2>2, <3>1
  <2> QED
    BY <1>1, <2>1, <2>2
<1>5. \A i \in 1 .. Len(f) : f[i].id = <<g, c - Len(s) - Len(f) + i>>
  BY DEF Counted
<1>6. Counted(g, f, r, c + 1)
  BY <1>3, <1>4, <1>5 DEF Counted
<1> QED
  BY <1>6 DEF r

LEMMA CountForward ==
  ASSUME NEW g, NEW f \in Seq(Message), NEW s \in Seq(Message), s # <<>>, NEW c \in Nat,
         Counted(g, f, s, c)
  PROVE  Counted(g, Append(f, Head(s)), Tail(s), c)
<1> DEFINE r == Append(f, Head(s))
<1> DEFINE t == Tail(s)
<1>1. /\ Len(s) \in Nat \ {0} /\ t \in Seq(Message) /\ Len(t) = Len(s) - 1 /\ Head(s) = s[1]
      /\ \A i \in 1 .. Len(s) - 1 : t[i] = s[i + 1]
  BY HeadTailAt
<1>2. Head(s) \in Message
  OBVIOUS
<1>3. /\ r \in Seq(Message) /\ Len(f) \in Nat /\ Len(r) = Len(f) + 1 /\ r[Len(f) + 1] = s[1]
      /\ \A i \in 1 .. Len(f) : r[i] = f[i]
  BY <1>1, <1>2, AppendAt
<1> HIDE DEF r, t
<1>4. c - Len(t) - Len(r) = c - Len(s) - Len(f)
  BY <1>1, <1>3
<1>5. ASSUME NEW i \in 1 .. Len(r) PROVE r[i].id = <<g, c - Len(s) - Len(f) + i>>
  <2>1. CASE i \in 1 .. Len(f)
    BY <1>3, <2>1 DEF Counted
  <2>2. CASE i = Len(f) + 1
    <3>1. c - Len(s) - Len(f) + i = c - Len(s) + 1 /\ 1 \in 1 .. Len(s)
      BY <1>1, <1>3, <2>2
    <3>2. s[1].id = <<g, c - Len(s) + 1>>
      BY <3>1 DEF Counted
    <3> QED
      BY <1>3, <2>2, <3>1, <3>2
  <2> QED
    BY <1>3, <2>1, <2>2
<1>6. ASSUME NEW i \in 1 .. Len(t) PROVE t[i].id = <<g, c - Len(t) + i>>
  <2>1. /\ i \in 1 .. Len(s) - 1 /\ i + 1 \in 1 .. Len(s)
        /\ c - Len(t) + i = c - Len(s) + (i + 1)
    BY <1>1
  <2>2. s[i + 1].id = <<g, c - Len(s) + (i + 1)>>
    BY <2>1 DEF Counted
  <2> QED
    BY <1>1, <2>1, <2>2
<1>7. Counted(g, r, t, c)
  BY <1>4, <1>5, <1>6 DEF Counted
<1> QED
  BY <1>7 DEF r, t

LEMMA CountDrop ==
  ASSUME NEW g, NEW s \in Seq(Message), s # <<>>, NEW c \in Nat, Counted(g, <<>>, s, c)
  PROVE  Counted(g, <<>>, Tail(s), c)
<1> DEFINE t == Tail(s)
<1>1. /\ Len(s) \in Nat \ {0} /\ t \in Seq(Message) /\ Len(t) = Len(s) - 1
      /\ \A i \in 1 .. Len(s) - 1 : t[i] = s[i + 1]
  BY HeadTailAt
<1> HIDE DEF t
<1>2. ASSUME NEW i \in 1 .. Len(t) PROVE t[i].id = <<g, c - Len(t) + i>>
  <2>1. /\ i \in 1 .. Len(s) - 1 /\ i + 1 \in 1 .. Len(s)
        /\ c - Len(t) + i = c - Len(s) + (i + 1)
    BY <1>1
  <2>2. s[i + 1].id = <<g, c - Len(s) + (i + 1)>>
    BY <2>1 DEF Counted
  <2> QED
    BY <1>1, <2>1, <2>2
<1>3. Counted(g, <<>>, t, c)
  BY <1>2 DEF Counted
<1> QED
  BY <1>3 DEF t

LEMMA CountTake ==
  ASSUME NEW g, NEW f \in Seq(Message), NEW s \in Seq(Message), f # <<>>, NEW c \in Nat,
         Counted(g, f, s, c)
  PROVE  /\ Counted(g, Tail(f), s, c) /\ Head(f).id = <<g, c - Len(s) - Len(f) + 1>>
         /\ c - Len(s) - Len(Tail(f)) = c - Len(s) - Len(f) + 1
<1> DEFINE t == Tail(f)
<1>1. /\ Len(f) \in Nat \ {0} /\ t \in Seq(Message) /\ Len(t) = Len(f) - 1 /\ Head(f) = f[1]
      /\ \A i \in 1 .. Len(f) - 1 : t[i] = f[i + 1]
  BY HeadTailAt
<1>2. Len(s) \in Nat
  OBVIOUS
<1> HIDE DEF t
<1>3. ASSUME NEW i \in 1 .. Len(t) PROVE t[i].id = <<g, c - Len(s) - Len(t) + i>>
  <2>1. /\ i \in 1 .. Len(f) - 1 /\ i + 1 \in 1 .. Len(f)
        /\ c - Len(s) - Len(t) + i = c - Len(s) - Len(f) + (i + 1)
    BY <1>1, <1>2
  <2>2. f[i + 1].id = <<g, c - Len(s) - Len(f) + (i + 1)>>
    BY <2>1 DEF Counted
  <2> QED
    BY <1>1, <2>1, <2>2
<1>4. Counted(g, t, s, c)
  BY <1>3 DEF Counted
<1>5. Head(f).id = <<g, c - Len(s) - Len(f) + 1>>
  <2>1. 1 \in 1 .. Len(f)
    BY <1>1
  <2> QED
    BY <1>1, <2>1 DEF Counted
<1>6. c - Len(s) - Len(t) = c - Len(s) - Len(f) + 1
  BY <1>1, <1>2
<1> QED
  BY <1>4, <1>5, <1>6 DEF t

(* What a step does to the messages of a connection that main has not taken. *)
LEMMA NumberFlow ==
  ASSUME IInv, [Next]_vars, NEW g \in Handlers, hpc'[g] \notin Gone
  PROVE  /\ g \notin files' => g \notin files
         /\ \/ UNCHANGED <<sock[g], hfifo[g], sent[g]>>
            \/ /\ sent'[g] = sent[g] + 1 /\ hfifo'[g] = hfifo[g]
               /\ \E m \in Message : m.id = <<g, sent[g] + 1>> /\ sock'[g] = Append(sock[g], m)
            \/ /\ sock[g] # <<>> /\ g \in files /\ sent'[g] = sent[g]
               /\ sock'[g] = Tail(sock[g]) /\ hfifo'[g] = Append(hfifo[g], Head(sock[g]))
            \/ /\ sock[g] # <<>> /\ g \notin files /\ sent'[g] = sent[g]
               /\ sock'[g] = Tail(sock[g]) /\ hfifo'[g] = hfifo[g]
            \/ /\ hfifo[g] # <<>> /\ hfifo'[g] = Tail(hfifo[g]) /\ sent'[g] = sent[g]
               /\ sock'[g] = sock[g] /\ \E k \in Names : MainForward(k) /\ wr_fifos[k] = g
<1> USE DEF clientVars, handlerVars, mainVars, regVars
<1>0. TypeOK /\ rd_fifos = wr_fifos
  BY DEF IInv, RegistryConsistent
<1> DEFINE Same == UNCHANGED <<sock[g], hfifo[g], sent[g]>> /\ (g \notin files' => g \notin files)
<1>1. ASSUME UNCHANGED vars PROVE Same
  BY <1>1 DEF vars
<1>2. ASSUME NEW k \in Names, MainForward(k)
      PROVE  \/ Same
             \/ /\ hfifo[g] # <<>> /\ hfifo'[g] = Tail(hfifo[g]) /\ sent'[g] = sent[g]
                /\ sock'[g] = sock[g] /\ wr_fifos[k] = g /\ files' = files
  BY <1>0, <1>2 DEF MainForward, TypeOK
<1>3. ASSUME Main, \A k \in Names : ~MainForward(k) PROVE Same
  BY <1>3 DEF Main, MainReadBootstrap, MainOpenMain, MainRefuse, MainRegister,
              MainAckTooLong, MainOpensHandlerFifo, MainReply, MainSigpipe, MainWrite, MainGoodbye
<1>4. ASSUME NEW w \in Handlers, HandlerForward(w)
      PROVE  \/ Same
             \/ /\ sock[g] # <<>> /\ g \in files /\ sent'[g] = sent[g] /\ files' = files
                /\ sock'[g] = Tail(sock[g]) /\ hfifo'[g] = Append(hfifo[g], Head(sock[g]))
  BY <1>0, <1>4 DEF HandlerForward, TypeOK
<1>5. ASSUME NEW w \in Handlers, HandlerJoin(w) \/ HandlerDiscard(w)
      PROVE  \/ Same
             \/ /\ sock[g] # <<>> /\ g \notin files /\ sent'[g] = sent[g]
                /\ sock'[g] = Tail(sock[g]) /\ hfifo'[g] = hfifo[g]
  <2>1. /\ sock[w] # <<>> /\ w \notin files /\ sent' = sent /\ hfifo' = hfifo
        /\ sock' = [sock EXCEPT ![w] = Tail(@)] /\ (files' = files \/ files' = files \cup {w})
    BY <1>5 DEF HandlerJoin, HandlerDiscard
  <2> QED
    BY <1>0, <2>1 DEF TypeOK
<1>6. ASSUME NEW w \in Handlers,
             \/ HandlerRejoin(w) \/ HandlerSigpipe(w) \/ HandlerEOF(w)
             \/ HandlerReset(w) \/ HandlerShortRead(w) \/ HandlerMainEOF(w)
      PROVE  Same
  <2>1. /\ sock' = [sock EXCEPT ![w] = <<>>] /\ hfifo' = hfifo /\ sent' = sent
        /\ \E how \in Gone : hpc' = [hpc EXCEPT ![w] = how]
        /\ files' = files \/ files' = files \ {w}
    BY <1>6 DEF HandlerRejoin, HandlerSigpipe, HandlerEOF, HandlerReset, HandlerShortRead,
                HandlerMainEOF, HandlerEnds, Gone
  <2>2. g # w
    BY <1>0, <2>1 DEF TypeOK
  <2> QED
    BY <1>0, <2>1, <2>2 DEF TypeOK
<1>7. ASSUME NEW w \in Handlers, HandlerOpenMain(w) \/ HandlerOpenHandler(w) \/ HandlerRelay(w)
      PROVE  Same
  BY <1>7 DEF HandlerOpenMain, HandlerOpenHandler, HandlerRelay
<1>8. ASSUME NEW w \in Handlers, Accept(w) \/ Drop(w) \/ ClientRead(w) \/ ClientClose(w)
      PROVE  Same
  BY <1>8 DEF Accept, Drop, ClientRead, ClientClose
<1>9. ASSUME NEW w \in Handlers, NEW m \in ClientMessages(w), ClientSend(w, m)
      PROVE  \/ Same
             \/ /\ sent'[g] = sent[g] + 1 /\ hfifo'[g] = hfifo[g] /\ files' = files
                /\ m \in Message /\ m.id = <<g, sent[g] + 1>> /\ sock'[g] = Append(sock[g], m)
  <2>1. /\ sock' = [sock EXCEPT ![w] = Append(@, m)] /\ sent' = [sent EXCEPT ![w] = @ + 1]
        /\ hfifo' = hfifo /\ files' = files
    BY <1>9 DEF ClientSend
  <2>2. CASE w # g
    BY <1>0, <2>1, <2>2 DEF TypeOK
  <2>3. CASE w = g
    <3> DEFINE id == <<g, sent[g] + 1>>
    <3>1. id \in Ids
      <4>1. sent[g] + 1 \in Nat
        BY <1>0, SMTT(30) DEF TypeOK
      <4> QED
        BY <4>1 DEF Ids
    <3>2. (\E n \in Names : m = JOIN(n, id)) \/ m = SEND(id) \/ m = IDLE(id)
      BY <2>3 DEF ClientMessages
    <3> HIDE DEF id
    <3>3. m \in Message
      BY <3>1, <3>2, MessagesTyped
    <3>4. m.id = id
      BY <3>2 DEF JOIN, SEND, IDLE
    <3>5. sock'[g] = Append(sock[g], m) /\ sent'[g] = sent[g] + 1
      BY <1>0, <2>1, <2>3 DEF TypeOK
    <3> QED
      BY <2>1, <3>3, <3>4, <3>5 DEF id
  <2> QED
    BY <2>2, <2>3
<1>10. ASSUME Same
       PROVE  (g \notin files' => g \notin files) /\ UNCHANGED <<sock[g], hfifo[g], sent[g]>>
  BY <1>10
<1> HIDE DEF Same
<1>11. ASSUME NEW w \in Handlers, Handler(w)
       PROVE  \/ Same
              \/ /\ sock[g] # <<>> /\ g \in files /\ sent'[g] = sent[g] /\ files' = files
                 /\ sock'[g] = Tail(sock[g]) /\ hfifo'[g] = Append(hfifo[g], Head(sock[g]))
              \/ /\ sock[g] # <<>> /\ g \notin files /\ sent'[g] = sent[g]
                 /\ sock'[g] = Tail(sock[g]) /\ hfifo'[g] = hfifo[g]
  BY <1>4, <1>5, <1>6, <1>7, <1>11 DEF Handler
<1>12. ASSUME NEW w \in Handlers, Client(w)
       PROVE  \/ Same
              \/ /\ sent'[g] = sent[g] + 1 /\ hfifo'[g] = hfifo[g] /\ files' = files
                 /\ \E m \in Message : m.id = <<g, sent[g] + 1>> /\ sock'[g] = Append(sock[g], m)
  BY <1>8, <1>9, <1>12 DEF Client
<1>13. ASSUME Main
       PROVE  \/ Same
              \/ /\ hfifo[g] # <<>> /\ hfifo'[g] = Tail(hfifo[g]) /\ sent'[g] = sent[g]
                 /\ sock'[g] = sock[g] /\ files' = files
                 /\ \E k \in Names : MainForward(k) /\ wr_fifos[k] = g
  BY <1>2, <1>3, <1>13
<1> QED
  BY <1>1, <1>10, <1>11, <1>12, <1>13 DEF Next
LEMMA NumberedStep == IInv /\ Numbered /\ [Next]_vars => Numbered'
<1> SUFFICES ASSUME IInv, Numbered, [Next]_vars, NEW g \in Handlers, hpc'[g] \notin Gone
             PROVE  /\ Counted(g, hfifo'[g], sock'[g], sent'[g])
                    /\ g \notin files' => hfifo'[g] = <<>>
  BY DEF Numbered
<1>0. /\ TypeOK /\ hfifo[g] \in Seq(Message) /\ sock[g] \in Seq(Message) /\ sent[g] \in Nat
      /\ hpc[g] \notin Gone
  BY LifeFlow DEF IInv, TypeOK
<1>1. Counted(g, hfifo[g], sock[g], sent[g]) /\ (g \notin files => hfifo[g] = <<>>)
  BY <1>0 DEF Numbered
<1>2. g \notin files' => g \notin files
  BY NumberFlow
<1>3. CASE UNCHANGED <<sock[g], hfifo[g], sent[g]>>
  BY <1>1, <1>2, <1>3
<1>4. ASSUME sent'[g] = sent[g] + 1, hfifo'[g] = hfifo[g], NEW m \in Message,
             m.id = <<g, sent[g] + 1>>, sock'[g] = Append(sock[g], m)
      PROVE  Counted(g, hfifo'[g], sock'[g], sent'[g]) /\ (g \notin files' => hfifo'[g] = <<>>)
  BY <1>0, <1>1, <1>2, <1>4, CountSend
<1>5. CASE /\ sock[g] # <<>> /\ g \in files /\ sent'[g] = sent[g]
           /\ sock'[g] = Tail(sock[g]) /\ hfifo'[g] = Append(hfifo[g], Head(sock[g]))
  BY <1>0, <1>1, <1>2, <1>5, CountForward
<1>6. CASE /\ sock[g] # <<>> /\ g \notin files /\ sent'[g] = sent[g]
           /\ sock'[g] = Tail(sock[g]) /\ hfifo'[g] = hfifo[g]
  <2>1. hfifo[g] = <<>> /\ hfifo'[g] = <<>>
    BY <1>1, <1>6
  <2> QED
    BY <1>0, <1>1, <1>6, <2>1, CountDrop
<1>7. CASE hfifo[g] # <<>> /\ hfifo'[g] = Tail(hfifo[g]) /\ sent'[g] = sent[g] /\ sock'[g] = sock[g]
  <2>1. Counted(g, Tail(hfifo[g]), sock[g], sent[g])
    BY <1>0, <1>1, <1>7, CountTake
  <2> QED
    BY <1>1, <1>2, <1>7, <2>1
<1> QED
  BY <1>3, <1>4, <1>5, <1>6, <1>7, NumberFlow

(* main takes a message of a listening user only by forwarding it.         *)
LEMMA TakenStays ==
  ASSUME IInv, [Next]_vars, NEW n \in Chatters, n \in Chatters', wr_fifos'[n] = wr_fifos[n],
         \A k \in Names : ~MainForward(k)
  PROVE  Taken(wr_fifos[n])' = Taken(wr_fifos[n])
<1>1. PICK g \in Handlers : g = wr_fifos[n] /\ g \in files
  BY ChatterFacts
<1>2. hpc'[g] \notin Gone
  BY <1>1 DEF Chatters, Listening, Live, Gone
<1>3. /\ Taken(wr_fifos[n]) = sent[g] - Len(sock[g]) - Len(hfifo[g])
      /\ Taken(wr_fifos[n])' = sent'[g] - Len(sock'[g]) - Len(hfifo'[g])
  BY <1>1 DEF Taken
<1>4. /\ hfifo[g] \in Seq(Message) /\ sock[g] \in Seq(Message) /\ sent[g] \in Nat
      /\ Len(hfifo[g]) \in Nat /\ Len(sock[g]) \in Nat
  BY <1>1, SMTT(30) DEF IInv, TypeOK
<1>5. CASE UNCHANGED <<sock[g], hfifo[g], sent[g]>>
  BY <1>3, <1>5
<1>6. ASSUME sent'[g] = sent[g] + 1, hfifo'[g] = hfifo[g], NEW m \in Message, sock'[g] = Append(sock[g], m)
      PROVE  Taken(wr_fifos[n])' = Taken(wr_fifos[n])
  <2>1. Len(sock'[g]) = Len(sock[g]) + 1
    BY <1>4, <1>6, AppendAt
  <2>2. sent'[g] - Len(sock'[g]) - Len(hfifo'[g]) = sent[g] - Len(sock[g]) - Len(hfifo[g])
    BY <1>4, <1>6, <2>1, SMTT(30)
  <2> QED
    BY <1>3, <2>2
<1>7. CASE /\ sock[g] # <<>> /\ sent'[g] = sent[g]
           /\ sock'[g] = Tail(sock[g]) /\ hfifo'[g] = Append(hfifo[g], Head(sock[g]))
  <2>1. Head(sock[g]) \in Message /\ Len(sock'[g]) = Len(sock[g]) - 1
    BY <1>4, <1>7, HeadTailFacts
  <2>2. Len(hfifo'[g]) = Len(hfifo[g]) + 1
    BY <1>4, <1>7, <2>1, AppendAt
  <2>3. sent'[g] - Len(sock'[g]) - Len(hfifo'[g]) = sent[g] - Len(sock[g]) - Len(hfifo[g])
    <3>1. PICK a \in Int, b \in Int, c \in Int :
            a = Len(sock[g]) /\ b = Len(hfifo[g]) /\ c = sent[g]
      BY <1>4
    <3>2. sent'[g] = c /\ Len(sock'[g]) = a - 1 /\ Len(hfifo'[g]) = b + 1
      BY <1>7, <2>1, <2>2, <3>1
    <3>3. c - (a - 1) - (b + 1) = c - a - b
      OBVIOUS
    <3> QED
      BY <3>1, <3>2, <3>3
  <2> QED
    BY <1>3, <2>3
<1> QED
  BY <1>1, <1>2, <1>5, <1>6, <1>7, NumberFlow

LEMMA AnswerFlow ==
  ASSUME [Next]_vars, mpc' = "reply"
  PROVE  \/ mpc = "reply" /\ mout' = mout
         \/ mout'.msg.id = NoId
<1> USE DEF clientVars, handlerVars, mainVars, regVars
<1>1. CASE MainReply \/ \E n \in Names : MainWrite(n) \/ MainForward(n) \/ MainGoodbye(n)
  BY <1>1 DEF MainReply, MainWrite, MainForward, MainGoodbye, Broadcast
<1>2. CASE MainReadBootstrap \/ MainOpenMain \/ MainAckTooLong \/ MainSigpipe
  BY <1>2 DEF MainReadBootstrap, MainOpenMain, MainAckTooLong, MainSigpipe
<1>3. CASE MainRefuse \/ MainRegister
  BY <1>3 DEF MainRefuse, MainRegister, NAK, ACK
<1>4. ASSUME (\E g \in Handlers : Handler(g)) \/ UNCHANGED vars PROVE mpc' = mpc /\ mout' = mout
  BY <1>4 DEF vars, Handler, HandlerJoin, HandlerRejoin, HandlerOpenMain, HandlerOpenHandler,
              HandlerForward, HandlerSigpipe, HandlerDiscard, HandlerEOF, HandlerReset,
              HandlerShortRead, HandlerRelay, HandlerMainEOF, HandlerEnds
<1>5. ASSUME NEW g \in Handlers, Client(g) PROVE mpc' = mpc /\ mout' = mout
  BY <1>5 DEF Client, Accept, Drop, ClientSend, ClientRead, ClientClose
<1> QED
  BY <1>1, <1>2, <1>3, <1>4, <1>5 DEF Next, Main

LEMMA SourcesStep == StreamInv /\ Sources /\ [Next]_vars => Sources'
<1> SUFFICES ASSUME StreamInv, Sources, [Next]_vars PROVE Sources'
  OBVIOUS
<1>0. IInv /\ TypeOK /\ Underway
  BY DEF StreamInv, IInv
<1>1. ASSUME NEW m, FromAnswered(m) PROVE FromAnswered(m)'
  BY <1>0, <1>1, EndFlow DEF FromAnswered
<1>2. ASSUME NEW m, m.id = NoId PROVE FromAnswered(m)
  BY <1>2, HandlersAssumption DEF FromAnswered, NoId
<1>3. ASSUME NEW h \in Handlers, NEW m, m \in InInbox(h)' \cup InMfifo(h)' PROVE FromAnswered(m)'
  <2>1. \/ m \in InInbox(h) \cup InMfifo(h)
        \/ mpc = "write" /\ m = mout.msg
        \/ mpc = "reply" /\ m = mout.msg
    BY <1>3, ReadFlow
  <2>2. FromAnswered(m)
    BY <1>2, <2>1 DEF Sources
  <2> QED
    BY <1>1, <2>2
<1>4. ASSUME mpc' = "write" PROVE FromAnswered(mout.msg)'
  <2>1. PICK m : m = mout'.msg
    OBVIOUS
  <2>2. ASSUME NEW k \in Registered, hfifo[wr_fifos[k]] # <<>>,
               mout'.msg \in {change_to_fwd(Head(hfifo[wr_fifos[k]]), k),
                              add_username(Head(hfifo[wr_fifos[k]]), k)}
        PROVE  FromAnswered(m)
    <3>1. PICK g \in Handlers : g = wr_fifos[k]
      BY <1>0 DEF Registered, TypeOK
    <3>2. mainEnd[g] = "open"
      BY <1>0, <3>1 DEF IInv, RegistryConsistent
    <3>3. PICK q \in Message : q = Head(hfifo[g]) /\ q \in InHfifo(g)
      BY <1>0, <2>2, <3>1, ElemsFacts, HeadTailFacts DEF TypeOK, InHfifo
    <3>4. q.id[1] = g
      BY <1>0, <3>3 DEF Underway
    <3>5. m.id = q.id
      BY <2>1, <2>2, <3>1, <3>3 DEF change_to_fwd, add_username, Message
    <3> QED
      BY <3>2, <3>4, <3>5 DEF FromAnswered
  <2>3. FromAnswered(m)
    <3>1. \/ mpc = "write" /\ mout'.msg = mout.msg
          \/ mout'.msg.id = NoId
          \/ \E k \in Registered :
               /\ hfifo[wr_fifos[k]] # <<>>
               /\ mout'.msg \in {change_to_fwd(Head(hfifo[wr_fifos[k]]), k),
                                 add_username(Head(hfifo[wr_fifos[k]]), k)}
      BY <1>0, <1>4, WriteFlow
    <3>2. mpc = "write" => FromAnswered(mout.msg)
      BY DEF Sources
    <3> QED
      BY <1>2, <2>1, <2>2, <3>1, <3>2
  <2>4. FromAnswered(m)'
    BY <1>1, <2>3
  <2> QED
    BY <2>1, <2>4 DEF FromAnswered
<1>5. ASSUME mpc' = "reply" PROVE mout'.msg.id = NoId
  BY <1>5, AnswerFlow DEF Sources
<1> QED
  BY <1>3, <1>4, <1>5 DEF Sources
(* What a user is going to read, apart from what main is working on.       *)
LEMMA ToReadElems ==
  ASSUME IInv, NEW n \in Chatters, mpc \notin {"write", "reply"}, NEW i \in DOMAIN ToRead(n)
  PROVE  ToRead(n)[i] \in InInbox(wr_fifos[n]) \cup InMfifo(wr_fifos[n])
<1> DEFINE s == inbox[wr_fifos[n]] \o mfifo[wr_fifos[n]]
<1>1. /\ s \in Seq(Message)
      /\ \A j \in DOMAIN s : s[j] \in InInbox(wr_fifos[n]) \cup InMfifo(wr_fifos[n])
  BY ToReadTyped, ConcatElems DEF InInbox, InMfifo
<1>2. ToRead(n) = s \o <<>>
  BY PendingIs DEF ToRead
<1> HIDE DEF s
<1>3. s \o <<>> = s
  BY <1>1, ConcatNone
<1> QED
  BY <1>1, <1>2, <1>3

LEMMA TrailsStep ==
  StreamInv /\ Settled /\ Numbered /\ Sources /\ Trails /\ [Next]_vars => Trails'
<1> SUFFICES ASSUME StreamInv, Settled, Numbered, Sources, Trails, [Next]_vars,
                    NEW m \in Chatters', NEW n \in Chatters', n # m
             PROVE  Trail(ToRead(n)', wr_fifos'[m], Taken(wr_fifos[m])')
  BY DEF Trails
<1> DEFINE g == wr_fifos[m]
<1> DEFINE s == ToRead(n)
<1> DEFINE Goal == Trail(ToRead(n)', wr_fifos'[m], Taken(wr_fifos[m])')
<1>0. IInv /\ TypeOK
  BY DEF StreamInv, IInv
<1>1. ASSUME m \in Chatters, n \in Chatters
      PROVE  /\ Trail(s, g, Taken(g)) /\ s \in Seq(Message) /\ g \in Handlers /\ g # NoFd
             /\ Taken(g) \in Int
  <2>1. s \in Seq(Message) /\ g \in Handlers
    BY <1>0, <1>1, ToReadTyped, ChatterFacts
  <2>2. sock[g] \in Seq(Message) /\ hfifo[g] \in Seq(Message) /\ sent[g] \in Nat
    BY <1>0, <2>1 DEF TypeOK
  <2>3. Len(sock[g]) \in Nat /\ Len(hfifo[g]) \in Nat
    BY <2>2
  <2>4. Taken(g) \in Int
    BY <2>2, <2>3 DEF Taken
  <2> QED
    BY <1>1, <2>1, <2>4, HandlersAssumption DEF Trails
<1>2. ASSUME NEW k \in Names, MainForward(k) PROVE Goal
  <2>1. /\ m \in Chatters /\ wr_fifos'[m] = g
        /\ UNCHANGED <<sock, sent>> /\ hfifo' = [hfifo EXCEPT ![wr_fifos[k]] = Tail(@)]
        /\ k \in Registered /\ hfifo[wr_fifos[k]] # <<>>
    BY <1>2, ForwardStep
  <2>2. n \in Chatters
    BY <1>2, ForwardStep
  <2>3. PICK w \in Handlers : w = wr_fifos[k]
    BY <1>0, <2>1 DEF Registered, TypeOK
  <2>4. Taken(wr_fifos[m])' = sent[g] - Len(sock[g]) - Len(hfifo'[g])
    BY <2>1 DEF Taken
  <2>5. ASSUME m # k PROVE w # g /\ Taken(wr_fifos[m])' = Taken(g)
    <3>1. w # g
      BY <1>0, <2>1, <2>3, <2>5, ChatterFacts
    <3>2. hfifo'[g] = hfifo[g]
      BY <1>0, <1>1, <2>1, <2>2, <2>3, <3>1 DEF TypeOK
    <3> QED
      BY <2>4, <3>1, <3>2 DEF Taken
  <2>6. CASE n = k
    <3>1. ToRead(n)' = s
      BY <1>2, <2>6, ForwardStep
    <3> QED
      BY <1>1, <2>1, <2>2, <2>5, <2>6, <3>1
  <2>7. CASE n # k
    <3>1. PICK q \in Message : ToRead(n)' = Append(s, q) /\ q.id = Head(hfifo[w]).id
      BY <1>2, <2>3, <2>7, ForwardStep
    <3>2. /\ hfifo[w] \in Seq(Message) /\ hfifo[w] # <<>> /\ sock[w] \in Seq(Message)
          /\ sent[w] \in Nat
      BY <1>0, <2>1, <2>3 DEF TypeOK
    <3>3. CASE m = k
      <4>1. w = g /\ hpc[w] \notin Gone
        BY <1>0, <2>1, <2>3, <3>3, ChatterFacts
      <4>2. Counted(w, hfifo[w], sock[w], sent[w])
        BY <4>1 DEF Numbered
      <4>3. /\ Head(hfifo[w]).id = <<w, sent[w] - Len(sock[w]) - Len(hfifo[w]) + 1>>
            /\ sent[w] - Len(sock[w]) - Len(Tail(hfifo[w]))
                 = sent[w] - Len(sock[w]) - Len(hfifo[w]) + 1
        <5>1. PICK f \in Seq(Message), u \in Seq(Message), c \in Nat :
                f = hfifo[w] /\ u = sock[w] /\ c = sent[w]
          BY <3>2
        <5>2. f # <<>> /\ Counted(w, f, u, c)
          BY <3>2, <4>2, <5>1
        <5>3. /\ Head(f).id = <<w, c - Len(u) - Len(f) + 1>>
              /\ c - Len(u) - Len(Tail(f)) = c - Len(u) - Len(f) + 1
          BY <5>2, CountTake
        <5> QED
          BY <5>1, <5>3
      <4>4. q.id = <<g, Taken(g) + 1>>
        BY <3>1, <4>1, <4>3 DEF Taken
      <4>5. hfifo'[g] = Tail(hfifo[g])
        BY <1>0, <2>1, <2>3, <4>1 DEF TypeOK
      <4>6. Taken(wr_fifos[m])' = Taken(g) + 1
        <5>1. Taken(wr_fifos[m])' = sent[w] - Len(sock[w]) - Len(Tail(hfifo[w]))
          BY <2>4, <4>1, <4>5
        <5>2. Taken(g) = sent[w] - Len(sock[w]) - Len(hfifo[w])
          BY <4>1 DEF Taken
        <5> QED
          BY <4>3, <5>1, <5>2
      <4>7. Trail(Append(s, q), g, Taken(g) + 1)
        BY <1>1, <2>1, <2>2, <3>1, <4>4, TrailNext
      <4> QED
        BY <2>1, <3>1, <4>6, <4>7
    <3>4. CASE m # k
      <4>1. Head(hfifo[w]) \in InHfifo(w)
        BY <3>2, ElemsFacts DEF InHfifo
      <4>2. Head(hfifo[w]).id[1] = w
        BY <4>1 DEF StreamInv, Underway
      <4>3. q.id[1] # g
        BY <2>5, <3>1, <3>4, <4>2
      <4>4. Trail(Append(s, q), g, Taken(g))
        BY <1>1, <2>1, <2>2, <3>1, <4>3, TrailOther
      <4> QED
        BY <2>1, <2>5, <3>1, <3>4, <4>4
    <3> QED
      BY <3>3, <3>4
  <2> QED
    BY <2>6, <2>7
<1>3. ASSUME \A k \in Names : ~MainForward(k), m \in Chatters, wr_fifos'[m] = wr_fifos[m]
      PROVE  Taken(wr_fifos[m])' = Taken(g)
  BY <1>0, <1>3, TakenStays
<1>4. ASSUME \A k \in Names : ~MainForward(k), m \in Chatters, wr_fifos'[m] = wr_fifos[m],
             n \in Chatters, NEW q \in Message, q.id = NoId, ToRead(n)' = Append(s, q)
      PROVE  Goal
  <2>1. q.id[1] # g
    BY <1>1, <1>4 DEF NoId
  <2>2. Trail(Append(s, q), g, Taken(g))
    BY <1>1, <1>4, <2>1, TrailOther
  <2> QED
    BY <1>3, <1>4, <2>2
<1>5. ASSUME \A k \in Names : ~MainForward(k), MainRegister PROVE Goal
  <2>1. mcur.name \in Names /\ mcur.h \in Handlers
    BY <1>5, RegisterStep
  <2>2. CASE n = mcur.name
    <3>1. ToRead(n)' = <<ACK(Users)>>
      BY <1>5, <2>2, RegisterStep
    <3>2. wr_fifos'[m] = g /\ m \in Chatters
      BY <1>5, <2>2, RegisterStep
    <3>3. g # NoFd
      BY <3>2, <1>0, ChatterFacts, HandlersAssumption
    <3>4. DOMAIN <<ACK(Users)>> = {1} /\ <<ACK(Users)>>[1] = ACK(Users)
      OBVIOUS
    <3>5. ACK(Users).id[1] = NoFd
      BY DEF ACK, NoId
    <3> QED
      BY <3>1, <3>2, <3>3, <3>4, <3>5, TrailNone
  <2>3. ASSUME n # mcur.name
        PROVE  n \in Chatters /\ ToRead(n)' = Append(s, ONLINE(mcur.name))
    BY <1>5, <2>3, RegisterStep
  <2>4. ONLINE(mcur.name) \in Message /\ ONLINE(mcur.name).id = NoId
    <3>1. ONLINE(mcur.name) \in Message
      BY <2>1, MessagesTyped
    <3> QED
      BY <3>1 DEF ONLINE
  <2>5. CASE m = mcur.name
    <3>1. wr_fifos'[m] = mcur.h /\ mainEnd[mcur.h] = "half"
      BY <1>5, <2>5, RegisterStep
    <3>2. n \in Chatters /\ ToRead(n)' = Append(s, ONLINE(mcur.name))
      BY <2>3, <2>5
    <3>3. mpc = "openHandler"
      BY <1>5 DEF MainRegister, MainOpensHandlerFifo
    <3>4. s \in Seq(Message) /\ wr_fifos[n] \in Handlers
      BY <1>0, <3>2, ToReadTyped, ChatterFacts
    <3>5. \A i \in DOMAIN s : s[i].id[1] # mcur.h
      <4>1. \A i \in DOMAIN s : FromAnswered(s[i])
        BY <1>0, <3>2, <3>3, <3>4, ToReadElems DEF Sources
      <4> QED
        BY <2>1, <3>1, <4>1 DEF FromAnswered
    <3> DEFINE x == Taken(wr_fifos[m])'
    <3> HIDE DEF x
    <3>6. Trail(s, mcur.h, x)
      BY <3>5, TrailNone
    <3>7. ONLINE(mcur.name).id[1] # mcur.h
      BY <2>1, <2>4, HandlersAssumption DEF NoId
    <3>8. Trail(Append(s, ONLINE(mcur.name)), mcur.h, x)
      BY <2>4, <3>4, <3>6, <3>7, TrailOther
    <3> QED
      BY <3>1, <3>2, <3>8 DEF x
  <2>6. CASE n # mcur.name /\ m # mcur.name
    <3>1. m \in Chatters /\ wr_fifos'[m] = wr_fifos[m]
      BY <1>5, <2>6, RegisterStep
    <3> QED
      BY <1>4, <1>5, <2>3, <2>4, <2>6, <3>1
  <2> QED
    BY <2>2, <2>5, <2>6
<1>6. ASSUME \A k \in Names : ~MainForward(k), NEW k \in Names, MainGoodbye(k) PROVE Goal
  <2>1. m \in Chatters /\ wr_fifos'[m] = g /\ n \in Chatters /\ ToRead(n)' = Append(s, OFFLINE(k))
    BY <1>6, GoodbyeStep
  <2>2. OFFLINE(k) \in Message /\ OFFLINE(k).id = NoId
    <3>1. OFFLINE(k) \in Message
      BY MessagesTyped
    <3> QED
      BY <3>1 DEF OFFLINE
  <2> QED
    BY <1>4, <1>6, <2>1, <2>2
<1>7. ASSUME \A k \in Names : ~MainForward(k), ~MainRegister, NEW w \in Handlers, ClientRead(w)
      PROVE  Goal
  <2>1. m \in Chatters /\ wr_fifos'[m] = g /\ n \in Chatters
    BY <1>0, <1>7, ChatterStays
  <2>2. Taken(wr_fifos[m])' = Taken(g)
    BY <1>3, <1>7, <2>1
  <2>3. ToRead(n)' = s \/ (s # <<>> /\ ToRead(n)' = Tail(s))
    BY <1>0, <1>7, <2>1, ReadStep
  <2>4. CASE ToRead(n)' = s
    BY <1>1, <2>1, <2>2, <2>4
  <2>5. CASE s # <<>> /\ ToRead(n)' = Tail(s)
    <3>1. Trail(Tail(s), g, Taken(g))
      BY <1>1, <2>1, <2>5, TrailTail
    <3> QED
      BY <2>1, <2>2, <2>5, <3>1
  <2> QED
    BY <2>3, <2>4, <2>5
<1>8. ASSUME ~MainRegister, \A k \in Names : ~MainForward(k) /\ ~MainGoodbye(k),
             \A w \in Handlers : ~ClientRead(w)
      PROVE  Goal
  <2>1. m \in Chatters /\ wr_fifos'[m] = g /\ n \in Chatters /\ wr_fifos'[n] = wr_fifos[n]
    BY <1>0, <1>8, ChatterStays
  <2>2. Taken(wr_fifos[m])' = Taken(g)
    BY <1>3, <1>8, <2>1
  <2>3. ToRead(n)' = s
    BY <1>8, <2>1, QuietStep
  <2> QED
    BY <1>1, <2>1, <2>2, <2>3
<1> HIDE DEF Goal
<1>9. Goal
  BY <1>2, <1>5, <1>6, <1>7, <1>8
<1> QED
  BY <1>9 DEF Goal

LEMMA InitTrails == Init => Numbered /\ Sources /\ Trails
<1> SUFFICES ASSUME Init PROVE Numbered /\ Sources /\ Trails
  OBVIOUS
<1>1. wr_fifos = [n \in Names |-> NoFd] /\ mpc = "select"
  BY DEF Init
<1>2. Chatters = {}
  BY <1>1 DEF Chatters, Listening, Registered
<1>3. Numbered
  BY DEF Init, Numbered, Counted
<1>4. Sources
  BY <1>1, ElemsFacts DEF Init, Sources, InInbox, InMfifo
<1> QED
  BY <1>2, <1>3, <1>4 DEF Trails

(* Between a speaking client and the client of every other user no message  *)
(* is lost, doubled or overtaken, through the socket, the two fifos, main's *)
(* broadcast and the other socket, as long as both users are there.        *)
THEOREM NoMessageIsLost == Spec => []NothingLost
<1>1. StreamInv /\ Numbered /\ Trails => NothingLost
  <2> SUFFICES ASSUME StreamInv, Numbered, Trails, NEW m \in Chatters, NEW n \in Chatters \ {m}
               PROVE  Trail(Onward(n, wr_fifos[m]), wr_fifos[m], sent[wr_fifos[m]])
    BY DEF NothingLost
  <2>0. IInv
    BY DEF StreamInv
  <2>1. PICK g \in Handlers : g = wr_fifos[m] /\ hpc[g] \notin Gone
    BY <2>0, ChatterFacts
  <2>2. ToRead(n) \in Seq(Message) /\ Trail(ToRead(n), g, Taken(g))
    BY <2>0, <2>1, ToReadTyped DEF Trails
  <2>3. hfifo[g] \in Seq(Message) /\ sock[g] \in Seq(Message) /\ sent[g] \in Nat
    BY <2>0 DEF IInv, TypeOK
  <2>4. Counted(g, hfifo[g], sock[g], sent[g])
    BY <2>1 DEF Numbered
  <2> DEFINE s == ToRead(n)
  <2> DEFINE f == hfifo[g]
  <2> DEFINE u == sock[g]
  <2> DEFINE c == sent[g]
  <2>5. Onward(n, wr_fifos[m]) = (s \o f) \o u
    BY <2>1 DEF Onward
  <2>6. /\ s \in Seq(Message) /\ f \in Seq(Message) /\ u \in Seq(Message) /\ c \in Nat
        /\ Trail(s, g, c - Len(u) - Len(f))
        /\ \A i \in 1 .. Len(f) : f[i].id = <<g, c - Len(u) - Len(f) + i>>
        /\ \A i \in 1 .. Len(u) : u[i].id = <<g, c - Len(u) + i>>
    BY <2>2, <2>3, <2>4 DEF Taken, Counted
  <2> HIDE DEF s, f, u, c
  <2>7. Len(f) \in Nat /\ Len(u) \in Nat /\ s \o f \in Seq(Message)
    BY <2>6, ConcatAt
  <2>8. c - Len(u) - Len(f) \in Int /\ c - Len(u) - Len(f) + Len(f) = c - Len(u)
        /\ c - Len(u) \in Int /\ c - Len(u) + Len(u) = c
    BY <2>6, <2>7
  <2>9. Trail(s \o f, g, c - Len(u) - Len(f) + Len(f))
    BY <2>6, <2>8, TrailConcat
  <2>10. Trail(s \o f, g, c - Len(u))
    BY <2>8, <2>9
  <2>11. Trail((s \o f) \o u, g, c - Len(u) + Len(u))
    BY <2>6, <2>7, <2>8, <2>10, TrailConcat
  <2> QED
    BY <2>1, <2>5, <2>8, <2>11 DEF c
<1>2. Spec => [](StreamInv /\ Settled /\ Numbered /\ Sources /\ Trails)
  <2>1. StreamInv /\ Settled /\ Numbered /\ Sources /\ Trails /\ [Next]_vars
        => Numbered' /\ Sources' /\ Trails'
    BY NumberedStep, SourcesStep, TrailsStep DEF StreamInv
  <2> QED
    BY StreamsInvariant, InitTrails, <2>1, PTL DEF Spec
<1> QED
  BY <1>1, <1>2, PTL

-----------------------------------------------------------------------------
(* SbcpChat: what the programs of MP2 do for each other when they run       *)
(* together: the clients' assumption on the first message they get, the    *)
(* answer to every JOIN, and that nobody outside the chat can end it.      *)
-----------------------------------------------------------------------------
(* The inductive invariant: how far the JOIN of a client has come.         *)

ChatTypes ==
  /\ cpc \in [Handlers -> {"join", "answer", "chat", "quit", "gone", "killed"}]
  /\ idle \in [Handlers -> BOOLEAN]

Answers == {"ACK", "NAK"}

\* main is about to write the answer to h.
Replying(h) == mpc = "reply" /\ mcur.h = h

\* Nothing is on the way to the client.
NothingToRead(h) == inbox[h] = <<>> /\ mfifo[h] = <<>>

\* The client has not sent anything.
Unjoined(h) ==
  /\ hpc[h] = "none" => cpc[h] = "join"
  /\ cpc[h] = "join" => /\ hpc[h] \in {"none", "dropped", "select"} /\ h \notin files
                        /\ mainEnd[h] = "never" /\ told[h] = "none"
                        /\ sock[h] = <<>> /\ NothingToRead(h)

\* The handler has not read a JOIN.
Unread(h) ==
  hpc[h] = "select" /\ h \notin files =>
    /\ cpc[h] \in {"join", "answer"} /\ peer[h] = "open" /\ NothingToRead(h)
    /\ cpc[h] = "answer" => Len(sock[h]) = 1 /\ Head(sock[h]).type = "JOIN"

\* main has not answered: the client waits and can do nothing else.
Unanswered(h) ==
  (h \in files /\ mainEnd[h] \in {"never", "half"}) \/ Replying(h) =>
    \/ mpc = "dead"
    \/ /\ cpc[h] = "answer" /\ NothingToRead(h)
       /\ hpc[h] \in {"openMain", "openHandler", "select"}
       /\ mainEnd[h] = "never" => hpc[h] = "openMain"
       /\ mainEnd[h] = "half" => hpc[h] # "select"

\* The client waits for its answer, which is the first it will get.
Waiting(h) ==
  cpc[h] = "answer" =>
    /\ peer[h] = "open" /\ told[h] = "none"
    /\ hpc[h] \notin {"none", "dropped"}
    /\ h \in files => sock[h] = <<>>
    /\ inbox[h] # <<>> => Head(inbox[h]).type \in Answers
    /\ inbox[h] = <<>> /\ mfifo[h] # <<>> => Head(mfifo[h]).type \in Answers
    /\ NothingToRead(h) /\ mainEnd[h] \in {"open", "closed"} =>
         hpc[h] \in Gone \/ Replying(h) \/ mpc = "dead"
    /\ hpc[h] \in {"exited", "killed"} /\ inbox[h] = <<>> => mpc = "dead"

\* The client has its answer, or left without one.
Answered(h) ==
  /\ cpc[h] \in {"chat", "quit"} => told[h] # "none"
  /\ cpc[h] = "gone" /\ told[h] = "none" =>
       hpc[h] \in {"dropped", "aborted"} \/ mpc = "dead"

Course(h) == Unjoined(h) /\ Unread(h) /\ Unanswered(h) /\ Waiting(h) /\ Answered(h)

\* A client that was killed waits for nothing.
Phase(h) == IF cpc[h] = "killed" THEN hpc[h] # "none" ELSE Course(h)

ChatInv == IInv /\ ChatTypes /\ \A h \in Handlers : Phase(h)

-----------------------------------------------------------------------------
(* The chat is an instance of what was proved of SbcpServer: arbitrary      *)
(* clients.                                                                *)

LEMMA ChatIsServer == [ChatNext]_chatVars => [Next]_vars
<1> SUFFICES ASSUME [ChatNext]_chatVars PROVE [Next]_vars
  OBVIOUS
<1>1. CASE UNCHANGED chatVars
  BY <1>1 DEF chatVars
<1>2. CASE ServerStep
  BY <1>2 DEF ServerStep, Next
<1>3. ASSUME NEW h \in Handlers, NEW m, ClientSend(h, m) PROVE Next
  <2>1. m \in ClientMessages(h)
    BY <1>3 DEF ClientSend
  <2> QED
    BY <1>3, <2>1 DEF Next, Client
<1>4. ASSUME NEW h \in Handlers, ClientProgram(h) PROVE [Next]_vars
  <2>1. ASSUME NEW n \in Names, CJoin(h, n) PROVE Next
    BY <1>3, <2>1 DEF CJoin
  <2>2. CAnswer(h) \/ CRead(h) => Next
    BY DEF CAnswer, CRead, Next, Client
  <2>3. CServerClosed(h) => UNCHANGED vars
    BY DEF CServerClosed
  <2>4. CClose(h) => [Next]_vars
    BY DEF CClose, Next, Client
  <2> QED
    BY <1>4, <2>1, <2>2, <2>3, <2>4 DEF ClientProgram
<1>5. ASSUME NEW h \in Handlers, CConnect(h) PROVE Next
  BY <1>5 DEF CConnect, Next, Client
<1>6. ASSUME NEW h \in Handlers, CIdle(h) \/ CSay(h) PROVE Next
  BY <1>3, <1>6 DEF CIdle, CSay
<1>7. ASSUME NEW h \in Handlers, CQuit(h) PROVE UNCHANGED vars
  BY <1>7 DEF CQuit
<1>8. ASSUME NEW h \in Handlers, CKilled(h) PROVE Next
  BY <1>8 DEF CKilled, Next, Client
<1> QED
  BY <1>1, <1>2, <1>4, <1>5, <1>6, <1>7, <1>8 DEF ChatNext

LEMMA ServerInvStep == IInv /\ [Next]_vars => IInv'
BY TypeStep, RegistryStep, PipeStep, MainStep DEF IInv, Handshake

-----------------------------------------------------------------------------
(* Steps that do not concern the connection g.                             *)

Same(g) ==
  /\ cpc'[g] = cpc[g] /\ hpc'[g] = hpc[g] /\ peer'[g] = peer[g] /\ told'[g] = told[g]
  /\ sock'[g] = sock[g] /\ inbox'[g] = inbox[g] /\ mfifo'[g] = mfifo[g]
  /\ mainEnd'[g] = mainEnd[g] /\ (g \in files' <=> g \in files)

LEMMA PhaseKept ==
  ASSUME NEW g \in Handlers, Phase(g), Same(g),
         mpc' = "dead" \/ (mpc # "dead" /\ mpc' # "dead" /\ (Replying(g)' <=> Replying(g)))
  PROVE  Phase(g)'
<1> USE DEF Same, NothingToRead, Replying
<1> SUFFICES ASSUME cpc[g] # "killed" PROVE Course(g)'
  BY DEF Phase
<1>1. Unjoined(g)' /\ Unread(g)'
  BY DEF Phase, Course, Unjoined, Unread
<1>2. Unanswered(g)'
  BY DEF Phase, Course, Unanswered
<1>3. Waiting(g)' /\ Answered(g)'
  BY DEF Phase, Course, Waiting, Answered
<1> QED
  BY <1>1, <1>2, <1>3 DEF Phase, Course

LEMMA PhaseTypes ==
  ASSUME ChatInv
  PROVE  /\ cpc \in [Handlers -> {"join", "answer", "chat", "quit", "gone", "killed"}]
         /\ hpc \in [Handlers -> {"none", "dropped", "select", "openMain", "openHandler"} \cup Gone]
         /\ peer \in [Handlers -> {"absent", "open", "fin", "rst"}]
         /\ told \in [Handlers -> {"none", "ACK", "NAK"}]
         /\ sock \in [Handlers -> Seq(Message)] /\ inbox \in [Handlers -> Seq(Message)]
         /\ mfifo \in [Handlers -> Seq(Message)]
         /\ mainEnd \in [Handlers -> {"never", "half", "open", "closed"}]
         /\ files \in SUBSET Handlers
         /\ \A h \in Handlers : Phase(h)
BY DEF ChatInv, ChatTypes, IInv, TypeOK

(* Initially.                                                              *)
LEMMA ChatInitInv == ChatInit => ChatInv
<1> SUFFICES ASSUME ChatInit PROVE ChatInv
  OBVIOUS
<1>1. IInv
  BY InitIInv DEF ChatInit
<1>2. ChatTypes
  BY DEF ChatInit, ChatTypes
<1>3. ASSUME NEW h \in Handlers PROVE Phase(h)
  BY DEF ChatInit, Init, Phase, Course, Unjoined, Unread, Unanswered, Waiting, Answered, NothingToRead,
         Replying, Gone
<1> QED
  BY <1>1, <1>2, <1>3 DEF ChatInv

-----------------------------------------------------------------------------
(* Steps of the client and of the handler of one connection.               *)

LEMMA OneMoves ==
  ASSUME ChatInv, NEW h \in Handlers, UNCHANGED <<mpc, mcur>>,
         \A g \in Handlers \ {h} : Same(g), Phase(h)'
  PROVE  \A g \in Handlers : Phase(g)'
<1> SUFFICES ASSUME NEW g \in Handlers PROVE Phase(g)'
  OBVIOUS
<1>1. mpc' = "dead" \/ (mpc # "dead" /\ mpc' # "dead" /\ (Replying(g)' <=> Replying(g)))
  BY DEF Replying
<1>2. Phase(g)
  BY DEF ChatInv
<1> QED
  BY <1>1, <1>2, PhaseKept

LEMMA ConnectPhase ==
  ASSUME ChatInv, NEW h \in Handlers, CConnect(h)
  PROVE  \A g \in Handlers : Phase(g)'
<1> USE DEF clientVars, handlerVars, mainVars, regVars
<1>1. /\ cpc[h] = "join" /\ hpc[h] = "none" /\ h \notin files /\ Unjoined(h) /\ Phase(h)
      /\ mainEnd[h] = "never" /\ told[h] = "none" /\ sock[h] = <<>> /\ NothingToRead(h)
  <2>1. hpc[h] = "none" /\ Phase(h)
    BY PhaseTypes DEF CConnect, Accept, Drop
  <2>2. Unjoined(h) /\ cpc[h] = "join"
    BY <2>1 DEF Phase, Course, Unjoined
  <2>3. h \notin files /\ mainEnd[h] = "never" /\ told[h] = "none" /\ sock[h] = <<>>
        /\ NothingToRead(h)
    BY <2>1, <2>2 DEF Unjoined
  <2> QED
    BY <2>1, <2>2, <2>3
<1>2. /\ hpc'[h] \in {"select", "dropped"} /\ (hpc'[h] = "select" => peer'[h] = "open")
      /\ UNCHANGED <<cpc, files, mainEnd, told, sock, inbox, mfifo, mpc, mcur>>
      /\ \A g \in Handlers \ {h} : hpc'[g] = hpc[g] /\ peer'[g] = peer[g]
  BY PhaseTypes DEF CConnect, Accept, Drop
<1>3. Phase(h)'
  <2>1. Unjoined(h)' /\ Unread(h)'
    BY <1>1, <1>2 DEF Unjoined, Unread, NothingToRead
  <2>2. ~Replying(h)
    BY <1>1 DEF Replying, ChatInv, IInv, Handshake, MainConsistent
  <2>3. Unanswered(h)' /\ Waiting(h)' /\ Answered(h)'
    BY <1>1, <1>2, <2>2 DEF Unanswered, Waiting, Answered, Replying
  <2> QED
    BY <1>1, <1>2, <2>1, <2>3 DEF Phase, Course
<1>4. \A g \in Handlers \ {h} : Same(g)
  BY <1>2 DEF Same
<1> QED
  BY <1>2, <1>3, <1>4, OneMoves

LEMMA JoinPhase ==
  ASSUME ChatInv, NEW h \in Handlers, NEW n \in Names, CJoin(h, n)
  PROVE  \A g \in Handlers : Phase(g)'
<1> USE DEF clientVars, handlerVars, mainVars, regVars
<1>1. /\ cpc[h] = "join" /\ hpc[h] = "select" /\ h \notin files /\ Phase(h) /\ peer[h] = "open"
      /\ mainEnd[h] = "never" /\ told[h] = "none" /\ sock[h] = <<>> /\ NothingToRead(h)
  BY PhaseTypes DEF CJoin, ClientSend, Live, Phase, Course, Unjoined
<1>2. /\ UNCHANGED <<hpc, peer, files, mainEnd, told, inbox, mfifo, mpc, mcur>>
      /\ cpc' = [cpc EXCEPT ![h] = "answer"]
      /\ sock' = [sock EXCEPT ![h] = Append(@, JOIN(n, <<h, sent[h] + 1>>))]
  BY DEF CJoin, ClientSend, Goto
<1>3. sock'[h] = <<JOIN(n, <<h, sent[h] + 1>>)>> /\ cpc'[h] = "answer"
  BY <1>1, <1>2, PhaseTypes
<1>4. Len(sock'[h]) = 1 /\ Head(sock'[h]).type = "JOIN"
  BY <1>3 DEF JOIN
<1>5. Phase(h)'
  <2>1. Unjoined(h)' /\ Unread(h)'
    BY <1>1, <1>2, <1>3, <1>4 DEF Unjoined, Unread, NothingToRead
  <2>2. ~Replying(h)
    BY <1>1 DEF Replying, ChatInv, IInv, Handshake, MainConsistent
  <2>3. Unanswered(h)' /\ Waiting(h)' /\ Answered(h)'
    BY <1>1, <1>2, <1>3, <2>2 DEF Unanswered, Waiting, Answered, Replying, NothingToRead, Gone
  <2> QED
    BY <1>3, <2>1, <2>3 DEF Phase, Course
<1>6. \A g \in Handlers \ {h} : Same(g)
  BY <1>2, PhaseTypes DEF Same
<1> QED
  BY <1>2, <1>5, <1>6, OneMoves

LEMMA AnswerPhase ==
  ASSUME ChatInv, NEW h \in Handlers, CAnswer(h)
  PROVE  \A g \in Handlers : Phase(g)'
<1> USE DEF clientVars, handlerVars, mainVars, regVars
<1>1. Phase(h) /\ cpc[h] = "answer" /\ inbox[h] # <<>> /\ Head(inbox[h]).type \in Answers
  BY PhaseTypes DEF CAnswer, ClientRead, Phase, Course, Waiting
<1>2. /\ UNCHANGED <<hpc, peer, files, mainEnd, sock, mfifo, mpc, mcur>>
      /\ cpc' = [cpc EXCEPT ![h] = "chat"] \/ cpc' = [cpc EXCEPT ![h] = "quit"]
      /\ told' = [told EXCEPT ![h] = IF Head(inbox[h]).type \in {"ACK", "NAK"}
                                     THEN Head(inbox[h]).type ELSE @]
      /\ inbox' = [inbox EXCEPT ![h] = Tail(@)]
  BY DEF CAnswer, ClientRead, Goto
<1>3. cpc'[h] \in {"chat", "quit"} /\ told'[h] # "none"
  BY <1>1, <1>2, PhaseTypes DEF Answers
<1>4. Phase(h)'
  <2>1. hpc[h] # "none" /\ ~(hpc[h] = "select" /\ h \notin files)
    BY <1>1 DEF Phase, Course, Waiting, Unread, NothingToRead
  <2>2. Unjoined(h)' /\ Unread(h)'
    BY <1>2, <1>3, <2>1 DEF Unjoined, Unread
  <2>3. Unanswered(h)'
    BY <1>1, <1>2 DEF Phase, Course, Unanswered, Replying, NothingToRead
  <2>4. Waiting(h)' /\ Answered(h)'
    BY <1>3 DEF Waiting, Answered
  <2> QED
    BY <1>3, <2>2, <2>3, <2>4 DEF Phase, Course
<1>5. \A g \in Handlers \ {h} : Same(g)
  BY <1>2, PhaseTypes DEF Same
<1> QED
  BY <1>2, <1>4, <1>5, OneMoves

(* Once it has its answer, a client concerns neither the handshake nor the  *)
(* answer.                                                                 *)
LEMMA LaterPhase ==
  ASSUME ChatInv, NEW h \in Handlers, cpc[h] \in {"chat", "quit", "gone"},
         cpc'[h] \in {"chat", "quit", "gone"}, UNCHANGED <<hpc, files, mainEnd, mpc, mcur>>,
         Answered(h)'
  PROVE  Phase(h)'
<1>1. Phase(h)
  BY DEF ChatInv
<1>2. Unjoined(h)' /\ Unread(h)' /\ Waiting(h)'
  BY <1>1 DEF Phase, Course, Unjoined, Unread, Waiting
<1>3. Unanswered(h)'
  BY <1>1 DEF Phase, Course, Unanswered, Replying
<1> QED
  BY <1>2, <1>3 DEF Phase, Course

LEMMA ChatPhase ==
  ASSUME ChatInv, NEW h \in Handlers, CRead(h) \/ CIdle(h) \/ CSay(h) \/ CQuit(h)
  PROVE  \A g \in Handlers : Phase(g)'
<1> USE DEF clientVars, handlerVars, mainVars, regVars
<1>1. Phase(h) /\ cpc[h] = "chat" /\ told[h] # "none"
  BY PhaseTypes DEF CRead, CIdle, CSay, CQuit, Phase, Course, Answered
<1>2. /\ UNCHANGED <<hpc, peer, files, mainEnd, mfifo, mpc, mcur>>
      /\ cpc' = cpc \/ cpc' = [cpc EXCEPT ![h] = "quit"]
  BY DEF CRead, ClientRead, CIdle, CSay, CQuit, ClientSend, Goto, vars
<1>3. /\ cpc'[h] \in {"chat", "quit"}
      /\ \A g \in Handlers \ {h} : cpc'[g] = cpc[g]
  BY <1>1, <1>2, PhaseTypes
<1>4. told'[h] # "none" /\ \A g \in Handlers \ {h} : told'[g] = told[g] /\ inbox'[g] = inbox[g]
  BY <1>1, PhaseTypes DEF CRead, ClientRead, CIdle, CSay, CQuit, ClientSend, vars
<1>5. \A g \in Handlers \ {h} : sock'[g] = sock[g]
  BY PhaseTypes DEF CRead, ClientRead, CIdle, CSay, CQuit, ClientSend, vars
<1>6. Phase(h)'
  BY <1>1, <1>2, <1>3, <1>4, LaterPhase DEF Answered
<1>7. \A g \in Handlers \ {h} : Same(g)
  BY <1>2, <1>3, <1>4, <1>5 DEF Same
<1> QED
  BY <1>2, <1>6, <1>7, OneMoves

(* CServerClosed: a client that waits for its answer is left alone only by  *)
(* a handler that aborted or a main that died.                             *)
LEMMA ClosedPhase ==
  ASSUME ChatInv, NEW h \in Handlers, CServerClosed(h)
  PROVE  \A g \in Handlers : Phase(g)'
<1>1. Phase(h) /\ cpc[h] \in {"join", "answer", "chat"} /\ hpc[h] \in Gone \cup {"dropped"} /\ inbox[h] = <<>>
  BY PhaseTypes DEF CServerClosed, ServerClosed
<1>2. cpc' = [cpc EXCEPT ![h] = "gone"] /\ UNCHANGED vars /\ cpc'[h] = "gone"
  BY PhaseTypes DEF CServerClosed, Goto
<1>3. UNCHANGED <<hpc, peer, files, mainEnd, told, sock, inbox, mfifo, mpc, mcur>>
  BY <1>2 DEF vars, clientVars, handlerVars, mainVars
<1>4. Phase(h)'
  <2>1. Unjoined(h)' /\ Unread(h)' /\ Waiting(h)'
    BY <1>1, <1>2, <1>3 DEF Unjoined, Unread, Waiting, Gone
  <2>2. Unanswered(h)'
    BY <1>1, <1>2, <1>3 DEF Phase, Course, Unanswered, Replying, Gone, NothingToRead
  <2>3. Answered(h)'
    BY <1>1, <1>2, <1>3 DEF Phase, Course, Unjoined, Waiting, Answered, Gone
  <2> QED
    BY <1>2, <2>1, <2>2, <2>3 DEF Phase, Course
<1>5. \A g \in Handlers \ {h} : Same(g)
  BY <1>2, <1>3, PhaseTypes DEF Same
<1> QED
  BY <1>3, <1>4, <1>5, OneMoves

LEMMA ClosePhase ==
  ASSUME ChatInv, NEW h \in Handlers, CClose(h)
  PROVE  \A g \in Handlers : Phase(g)'
<1> USE DEF clientVars, handlerVars, mainVars, regVars
<1>1. Phase(h) /\ cpc[h] = "quit" /\ told[h] # "none"
  BY PhaseTypes DEF CClose, Phase, Course, Answered
<1>2. /\ UNCHANGED <<hpc, files, mainEnd, told, sock, inbox, mfifo, mpc, mcur>>
      /\ cpc' = [cpc EXCEPT ![h] = "gone"]
  BY DEF CClose, ClientClose, Goto, vars
<1>3. cpc'[h] = "gone" /\ \A g \in Handlers \ {h} : cpc'[g] = cpc[g]
  BY <1>2, PhaseTypes
<1>4. \A g \in Handlers \ {h} : peer'[g] = peer[g]
  BY PhaseTypes DEF CClose, ClientClose, vars
<1>5. Phase(h)'
  BY <1>1, <1>2, <1>3, LaterPhase DEF Answered
<1>6. \A g \in Handlers \ {h} : Same(g)
  BY <1>2, <1>3, <1>4 DEF Same
<1> QED
  BY <1>2, <1>5, <1>6, OneMoves

LEMMA KilledPhase ==
  ASSUME ChatInv, NEW h \in Handlers, CKilled(h)
  PROVE  \A g \in Handlers : Phase(g)'
<1> USE DEF clientVars, handlerVars, mainVars, regVars
<1>1. /\ UNCHANGED <<mpc, mcur>> /\ cpc'[h] = "killed" /\ hpc'[h] # "none"
      /\ \A g \in Handlers \ {h} : Same(g)
  BY PhaseTypes DEF CKilled, ClientClose, Live, Goto, Same
<1> QED
  BY <1>1, OneMoves DEF Phase

(* The handler reads the JOIN: the client is waiting for its answer.        *)
LEMMA HandlerJoinPhase ==
  ASSUME ChatInv, NEW h \in Handlers, cpc[h] # "killed", HandlerJoin(h),
         UNCHANGED cpc
  PROVE  \A g \in Handlers : Phase(g)'
<1> USE DEF clientVars, handlerVars, mainVars, regVars
<1>1. /\ Phase(h) /\ hpc[h] = "select" /\ h \notin files /\ sock[h] # <<>>
      /\ mainEnd[h] = "never" /\ sock[h] \in Seq(Message)
  BY PhaseTypes DEF HandlerJoin, ChatInv, IInv, Handshake, PipeConsistent
<1>2. cpc[h] = "answer" /\ peer[h] = "open" /\ NothingToRead(h) /\ Len(sock[h]) = 1
  BY <1>1 DEF Phase, Course, Unjoined, Unread
<1>3. /\ UNCHANGED <<peer, mainEnd, told, inbox, mfifo, mpc, mcur>>
      /\ hpc' = [hpc EXCEPT ![h] = "openMain"] /\ files' = files \cup {h}
      /\ sock' = [sock EXCEPT ![h] = Tail(@)]
  BY DEF HandlerJoin
<1>4. hpc'[h] = "openMain" /\ sock'[h] = <<>> /\ h \in files'
  <2>1. Tail(sock[h]) = <<>>
    <3>1. PICK T, s : T = Message /\ s = sock[h]
      OBVIOUS
    <3>2. s \in Seq(T) /\ Len(s) = 1
      BY <1>1, <1>2, <3>1, Zenon
    <3>3. Tail(s) = <<>>
      BY <3>2, TailOfOne
    <3> QED
      BY <3>1, <3>3, Zenon
  <2>2. sock'[h] = Tail(sock[h])
    BY <1>3, PhaseTypes
  <2> QED
    BY <1>1, <1>2, <1>3, <2>1, <2>2, PhaseTypes
<1>5. Phase(h)'
  <2>1. Unjoined(h)' /\ Unread(h)' /\ Answered(h)'
    BY <1>2, <1>4 DEF Unjoined, Unread, Answered
  <2>2. ~Replying(h)
    BY <1>1 DEF Replying, ChatInv, IInv, Handshake, MainConsistent
  <2>3. Unanswered(h)'
    BY <1>1, <1>2, <1>3, <1>4 DEF Unanswered, NothingToRead
  <2>4. Waiting(h)'
    BY <1>1, <1>2, <1>3, <1>4 DEF Phase, Course, Waiting, NothingToRead, Gone
  <2> QED
    BY <2>1, <2>3, <2>4 DEF Phase, Course
<1>6. \A g \in Handlers \ {h} : Same(g)
  BY <1>3, PhaseTypes DEF Same
<1> QED
  BY <1>3, <1>5, <1>6, OneMoves

LEMMA HandlerOpensPhase ==
  ASSUME ChatInv, NEW h \in Handlers, cpc[h] # "killed", HandlerOpenMain(h) \/ HandlerOpenHandler(h),
         UNCHANGED cpc
  PROVE  \A g \in Handlers : Phase(g)'
<1> USE DEF clientVars, handlerVars, mainVars, regVars
<1>1. /\ Phase(h) /\ h \in files
      /\ UNCHANGED <<peer, files, mainEnd, told, sock, inbox, mfifo, mpc, mcur>>
      /\ \/ hpc[h] = "openMain" /\ mainEnd[h] # "never" /\ hpc' = [hpc EXCEPT ![h] = "openHandler"]
         \/ /\ hpc[h] = "openHandler" /\ mainEnd[h] \in {"open", "closed"}
            /\ hpc' = [hpc EXCEPT ![h] = "select"]
  BY PhaseTypes DEF HandlerOpenMain, HandlerOpenHandler, ChatInv, IInv, Handshake, PipeConsistent
<1>2. \/ hpc[h] = "openMain" /\ mainEnd[h] # "never" /\ hpc'[h] = "openHandler"
      \/ hpc[h] = "openHandler" /\ mainEnd[h] \in {"open", "closed"} /\ hpc'[h] = "select"
  BY <1>1, PhaseTypes
<1>3. Phase(h)'
  <2>1. Unjoined(h)' /\ Unread(h)'
    BY <1>1, <1>2 DEF Phase, Course, Unjoined, Unread
  <2>2. Unanswered(h)'
    BY <1>1, <1>2 DEF Phase, Course, Unanswered, Replying, NothingToRead
  <2>3. Waiting(h)' /\ Answered(h)'
    BY <1>1, <1>2 DEF Phase, Course, Waiting, Answered, Replying, NothingToRead, Gone
  <2> QED
    BY <2>1, <2>2, <2>3 DEF Phase, Course
<1>4. \A g \in Handlers \ {h} : Same(g)
  BY <1>1, PhaseTypes DEF Same
<1> QED
  BY <1>1, <1>3, <1>4, OneMoves

(* SEND and IDLE are no messages of a client that waits for its answer.     *)
LEMMA HandlerTakesPhase ==
  ASSUME ChatInv, NEW h \in Handlers, cpc[h] # "killed", HandlerForward(h) \/ HandlerDiscard(h),
         UNCHANGED cpc
  PROVE  \A g \in Handlers : Phase(g)'
<1> USE DEF clientVars, handlerVars, mainVars, regVars
<1>1. /\ Phase(h) /\ hpc[h] = "select" /\ sock[h] # <<>> /\ Head(sock[h]).type \in {"SEND", "IDLE"}
      /\ UNCHANGED <<hpc, peer, files, mainEnd, told, inbox, mfifo, mpc, mcur>>
      /\ sock' = [sock EXCEPT ![h] = Tail(@)]
  BY PhaseTypes DEF HandlerForward, HandlerDiscard
<1>2. cpc[h] \in {"chat", "quit", "gone"} /\ Answered(h)
  BY <1>1, PhaseTypes DEF Phase, Course, Unjoined, Unread, Waiting
<1>3. Answered(h)'
  BY <1>1, <1>2 DEF Answered
<1>4. Phase(h)'
  BY <1>1, <1>2, <1>3, LaterPhase
<1>5. \A g \in Handlers \ {h} : Same(g)
  BY <1>1, PhaseTypes DEF Same
<1> QED
  BY <1>1, <1>4, <1>5, OneMoves

LEMMA AppendFirst ==
  ASSUME NEW s \in Seq(Message), NEW m \in Message
  PROVE  /\ Append(s, m) # <<>>
         /\ s # <<>> => Head(Append(s, m)) = Head(s)
         /\ s = <<>> => Head(Append(s, m)) = m
OBVIOUS

LEMMA HandlerRelayPhase ==
  ASSUME ChatInv, NEW h \in Handlers, cpc[h] # "killed", HandlerRelay(h),
         UNCHANGED cpc
  PROVE  \A g \in Handlers : Phase(g)'
<1> USE DEF clientVars, handlerVars, mainVars, regVars
<1>1. /\ Phase(h) /\ hpc[h] = "select" /\ h \in files /\ mfifo[h] # <<>>
      /\ UNCHANGED <<hpc, peer, files, mainEnd, told, sock, mpc, mcur>>
      /\ inbox' = [inbox EXCEPT ![h] = Append(@, Head(mfifo[h]))]
      /\ mfifo' = [mfifo EXCEPT ![h] = Tail(@)]
      /\ inbox[h] \in Seq(Message)
  BY PhaseTypes DEF HandlerRelay
<1>2. inbox'[h] = Append(inbox[h], Head(mfifo[h]))
  BY <1>1, PhaseTypes
<1>3. /\ inbox'[h] # <<>>
      /\ inbox[h] # <<>> => Head(inbox'[h]) = Head(inbox[h])
      /\ inbox[h] = <<>> => Head(inbox'[h]) = Head(mfifo[h])
  <2> DEFINE s == inbox[h]
             m == Head(mfifo[h])
  <2>1. s \in Seq(Message) /\ mfifo[h] \in Seq(Message) /\ m \in Message
    BY <1>1, PhaseTypes
  <2> HIDE DEF s, m
  <2>2. /\ Append(s, m) # <<>>
        /\ s # <<>> => Head(Append(s, m)) = Head(s)
        /\ s = <<>> => Head(Append(s, m)) = m
    BY <2>1, AppendFirst
  <2> QED
    BY <1>2, <2>2 DEF s, m
<1>4. Phase(h)'
  <2>1. Unjoined(h)' /\ Unread(h)'
    BY <1>1 DEF Phase, Course, Unjoined, Unread, NothingToRead
  <2>2. Unanswered(h)'
    BY <1>1 DEF Phase, Course, Unanswered, Replying, NothingToRead
  <2>3. Waiting(h)' /\ Answered(h)'
    BY <1>1, <1>3 DEF Phase, Course, Waiting, Answered, Replying, NothingToRead
  <2> QED
    BY <2>1, <2>2, <2>3 DEF Phase, Course
<1>5. \A g \in Handlers \ {h} : Same(g)
  BY <1>1, PhaseTypes DEF Same
<1> QED
  BY <1>1, <1>4, <1>5, OneMoves

(* The handler of a client that waits ends only by an abort, with an        *)
(* answer delivered, or because main is dead.                              *)
LEMMA HandlerEndsPhase ==
  ASSUME ChatInv, NEW h \in Handlers, cpc[h] # "killed", UNCHANGED cpc,
         \/ HandlerRejoin(h) \/ HandlerSigpipe(h) \/ HandlerEOF(h)
         \/ HandlerReset(h) \/ HandlerShortRead(h) \/ HandlerMainEOF(h)
  PROVE  \A g \in Handlers : Phase(g)'
<1> USE DEF clientVars, handlerVars, mainVars, regVars
<1>1. /\ Phase(h) /\ hpc[h] = "select"
      /\ UNCHANGED <<peer, mainEnd, told, inbox, mpc, mcur>>
      /\ files' \in {files, files \ {h}}
      /\ sock' = [sock EXCEPT ![h] = <<>>] /\ mfifo' = [mfifo EXCEPT ![h] = <<>>]
      /\ \/ hpc' = [hpc EXCEPT ![h] = "aborted"]
         \/ hpc' = [hpc EXCEPT ![h] = "exited"] \/ hpc' = [hpc EXCEPT ![h] = "killed"]
  BY PhaseTypes DEF HandlerRejoin, HandlerSigpipe, HandlerEOF, HandlerReset, HandlerShortRead,
                    HandlerMainEOF, HandlerEnds
<1>2. hpc'[h] \in Gone /\ sock'[h] = <<>> /\ mfifo'[h] = <<>>
  BY <1>1, PhaseTypes DEF Gone
<1>3. cpc[h] # "join"
  BY <1>1 DEF HandlerRejoin, HandlerSigpipe, HandlerEOF, HandlerReset, HandlerShortRead,
              HandlerMainEOF, Phase, Course, Unjoined, Unread
<1>4. MainClosed(h) => mpc = "dead" \/ mainEnd[h] = "closed"
  BY DEF MainClosed
<1>5. Replying(h) => mainEnd[h] = "open" /\ mpc # "dead"
  BY DEF Replying, ChatInv, IInv, Handshake, MainConsistent
<1>6. cpc[h] = "answer" /\ hpc'[h] \in {"exited", "killed"} /\ inbox[h] = <<>> => mpc = "dead"
  <2> SUFFICES ASSUME cpc[h] = "answer", hpc'[h] \in {"exited", "killed"}, inbox[h] = <<>>
               PROVE  mpc = "dead"
    OBVIOUS
  <2>1. HandlerMainEOF(h)
    BY <1>1, PhaseTypes DEF HandlerRejoin, HandlerSigpipe, HandlerEOF, HandlerReset, HandlerShortRead,
            HandlerEnds, Phase, Course, Waiting
  <2> QED
    BY <1>1, <1>4, <1>5, <2>1 DEF HandlerMainEOF, Phase, Course, Waiting, NothingToRead, Gone
<1>7. (h \in files /\ mainEnd[h] \in {"never", "half"}) \/ Replying(h) => mpc = "dead"
  <2> SUFFICES ASSUME (h \in files /\ mainEnd[h] \in {"never", "half"}) \/ Replying(h), mpc # "dead"
               PROVE  FALSE
    OBVIOUS
  <2>0. h \notin files => mainEnd[h] = "never"
    BY <1>1 DEF ChatInv, IInv, Handshake, PipeConsistent
  <2>1. cpc[h] = "answer" /\ Replying(h)
    BY <1>1 DEF Phase, Course, Unanswered
  <2>2. h \in files /\ sock[h] = <<>> /\ peer[h] = "open"
    BY <1>1, <1>5, <2>0, <2>1 DEF Phase, Course, Waiting
  <2> QED
    BY <1>4, <1>5, <2>1, <2>2 DEF HandlerRejoin, HandlerSigpipe, HandlerEOF, HandlerReset,
              HandlerShortRead, HandlerMainEOF
<1>8. Phase(h)'
  <2>1. Unjoined(h)' /\ Unread(h)'
    BY <1>2, <1>3 DEF Unjoined, Unread, Gone
  <2>2. Unanswered(h)'
    BY <1>1, <1>7 DEF Unanswered, Replying
  <2>3. Waiting(h)'
    BY <1>1, <1>2, <1>6 DEF Phase, Course, Waiting, Gone
  <2>4. Answered(h)'
    BY <1>1 DEF Phase, Course, Answered
  <2> QED
    BY <2>1, <2>2, <2>3, <2>4 DEF Phase, Course
<1>9. \A g \in Handlers \ {h} : Same(g)
  BY <1>1, PhaseTypes DEF Same
<1> QED
  BY <1>1, <1>8, <1>9, OneMoves

(* Whatever the handler of a killed client does, it does alone.            *)
LEMMA HandlerOfKilledPhase ==
  ASSUME ChatInv, NEW h \in Handlers, cpc[h] = "killed", Handler(h), UNCHANGED cpc
  PROVE  \A g \in Handlers : Phase(g)'
<1> USE DEF clientVars, handlerVars, mainVars, regVars
<1>1. CASE HandlerJoin(h) \/ HandlerOpenMain(h) \/ HandlerOpenHandler(h)
  <2>1. UNCHANGED <<mpc, mcur>> /\ hpc'[h] # "none" /\ \A g \in Handlers \ {h} : Same(g)
    BY <1>1, PhaseTypes DEF HandlerJoin, HandlerOpenMain, HandlerOpenHandler, Same
  <2> QED
    BY <2>1, OneMoves DEF Phase
<1>2. CASE HandlerForward(h) \/ HandlerDiscard(h) \/ HandlerRelay(h)
  <2>1. UNCHANGED <<mpc, mcur>> /\ hpc'[h] # "none" /\ \A g \in Handlers \ {h} : Same(g)
    BY <1>2, PhaseTypes DEF HandlerForward, HandlerDiscard, HandlerRelay, Same
  <2> QED
    BY <2>1, OneMoves DEF Phase
<1>3. CASE \/ HandlerRejoin(h) \/ HandlerSigpipe(h) \/ HandlerEOF(h)
           \/ HandlerReset(h) \/ HandlerShortRead(h) \/ HandlerMainEOF(h)
  <2>1. UNCHANGED <<mpc, mcur>> /\ hpc'[h] # "none" /\ \A g \in Handlers \ {h} : Same(g)
    BY <1>3, PhaseTypes DEF HandlerRejoin, HandlerSigpipe, HandlerEOF, HandlerReset,
       HandlerShortRead, HandlerMainEOF, HandlerEnds, Same
  <2> QED
    BY <2>1, OneMoves DEF Phase
<1> QED
  BY <1>1, <1>2, <1>3 DEF Handler

-----------------------------------------------------------------------------
(* Steps of main.                                                          *)

(* Only the connection main works on, or main's death, matters to Phase, Course.    *)
LEMMA MainMoves ==
  ASSUME ChatInv, mpc # "dead", NEW h \in Handlers,
         \A g \in Handlers \ {h} : Same(g) /\ (mpc' = "dead" \/ (Replying(g)' <=> Replying(g))),
         Phase(h)'
  PROVE  \A g \in Handlers : Phase(g)'
<1> SUFFICES ASSUME NEW g \in Handlers, g # h PROVE Phase(g)'
  OBVIOUS
<1>1. Phase(g)
  BY DEF ChatInv
<1> QED
  BY <1>1, PhaseKept

(* main goes on, or dies, without touching a connection.                   *)
LEMMA MainElsewhere ==
  ASSUME ChatInv, UNCHANGED <<cpc, hpc, peer, told, sock, inbox, mfifo, mainEnd, files>>,
         mpc # "dead", mpc' = "dead" \/ \A g \in Handlers : Replying(g)' <=> Replying(g)
  PROVE  \A g \in Handlers : Phase(g)'
<1> SUFFICES ASSUME NEW g \in Handlers PROVE Phase(g)'
  OBVIOUS
<1>1. Phase(g) /\ Same(g)
  BY DEF ChatInv, Same
<1> QED
  BY <1>1, PhaseKept

LEMMA MainQuietPhase ==
  ASSUME ChatInv, UNCHANGED cpc,
         \/ MainReadBootstrap \/ MainSigpipe
         \/ \E n \in Names : MainForward(n)
  PROVE  \A g \in Handlers : Phase(g)'
<1> USE DEF clientVars, handlerVars, mainVars, regVars
<1>1. UNCHANGED <<cpc, hpc, peer, told, sock, inbox, mfifo, mainEnd, files>>
  BY DEF MainReadBootstrap, MainSigpipe, MainForward
<1>2. mpc # "dead"
  BY DEF MainReadBootstrap, MainSigpipe, MainForward, MainSelects
<1>3. mpc' = "dead" \/ (mpc = "select" /\ mpc' \in {"openMain", "select", "write"})
  BY DEF MainReadBootstrap, MainSigpipe, MainForward, MainSelects, Broadcast
<1> QED
  BY <1>1, <1>2, <1>3, MainElsewhere DEF Replying

LEMMA MainOpensPhase ==
  ASSUME ChatInv, UNCHANGED cpc, MainOpenMain \/ MainRefuse \/ MainRegister
  PROVE  \A g \in Handlers : Phase(g)'
<1> USE DEF clientVars, handlerVars, mainVars, regVars
<1>1. PICK h \in Handlers : h = mcur.h
  BY DEF ChatInv, IInv, Handshake, MainConsistent, MainOpenMain, MainRefuse, MainRegister,
         MainOpensHandlerFifo
<1>2. /\ UNCHANGED <<cpc, hpc, peer, told, sock, inbox, mfifo, files, mcur>>
      /\ \/ /\ mpc = "openMain" /\ mpc' = "openHandler" /\ mainEnd[h] = "never" /\ hpc[h] = "openMain"
            /\ mainEnd' = [mainEnd EXCEPT ![h] = "half"]
         \/ /\ mpc = "openHandler" /\ mpc' = "reply" /\ mainEnd[h] = "half" /\ hpc[h] = "openHandler"
            /\ mainEnd' = [mainEnd EXCEPT ![h] = "open"]
  BY <1>1 DEF MainOpenMain, MainRefuse, MainRegister, MainOpensHandlerFifo, ChatInv, IInv, Handshake,
              MainConsistent
<1>3. /\ \/ mainEnd'[h] = "half" /\ mpc' = "openHandler"
         \/ mainEnd'[h] = "open" /\ mpc' = "reply" /\ hpc[h] = "openHandler"
      /\ \A g \in Handlers \ {h} : mainEnd'[g] = mainEnd[g]
  BY <1>2, PhaseTypes
<1>4. h \in files /\ Phase(h)
  BY <1>2 DEF ChatInv, IInv, Handshake, PipeConsistent
<1>6. Phase(h)'
  <2> SUFFICES ASSUME cpc[h] # "killed" PROVE Course(h)'
    BY <1>2 DEF Phase
  <2>0. cpc[h] = "answer" /\ NothingToRead(h)
    BY <1>2, <1>4 DEF Phase, Course, Unanswered
  <2>1. Unjoined(h)' /\ Unread(h)'
    BY <1>2, <1>4, <2>0 DEF Unjoined, Unread
  <2>2. Unanswered(h)'
    BY <1>2, <1>3, <2>0 DEF Unanswered, NothingToRead
  <2>3. Waiting(h)' /\ Answered(h)'
    BY <1>1, <1>2, <1>3, <1>4, <2>0 DEF Phase, Course, Waiting, Answered, Replying, NothingToRead, Gone
  <2> QED
    BY <2>1, <2>2, <2>3 DEF Phase, Course
<1>7. \A g \in Handlers \ {h} : Same(g) /\ (Replying(g)' <=> Replying(g))
  BY <1>1, <1>2, <1>3 DEF Same, Replying
<1> QED
  BY <1>2, <1>6, <1>7, MainMoves

LEMMA MainAckTooLongPhase ==
  ASSUME ChatInv, UNCHANGED cpc, MainAckTooLong
  PROVE  \A g \in Handlers : Phase(g)'
<1> USE DEF clientVars, handlerVars, mainVars, regVars
<1>1. PICK h \in Handlers : h = mcur.h
  BY DEF ChatInv, IInv, Handshake, MainConsistent, MainAckTooLong, MainOpensHandlerFifo
<1>2. /\ UNCHANGED <<cpc, hpc, peer, told, sock, inbox, mfifo, files>>
      /\ mpc # "dead" /\ mpc' = "dead" /\ hpc[h] = "openHandler"
      /\ mainEnd' = [mainEnd EXCEPT ![h] = "open"]
  BY <1>1 DEF MainAckTooLong, MainOpensHandlerFifo
<1>3. Phase(h) /\ \A g \in Handlers \ {h} : mainEnd'[g] = mainEnd[g]
  BY <1>2, PhaseTypes
<1>4. Phase(h)'
  <2> SUFFICES ASSUME cpc[h] # "killed" PROVE Course(h)'
    BY <1>2 DEF Phase
  <2> QED
    BY <1>2, <1>3 DEF Phase, Course, Unjoined, Unread, Unanswered, Waiting, Answered, NothingToRead
<1>5. \A g \in Handlers \ {h} : Same(g)
  BY <1>2, <1>3 DEF Same
<1> QED
  BY <1>2, <1>4, <1>5, MainMoves

LEMMA MainReplyPhase ==
  ASSUME ChatInv, UNCHANGED cpc, MainReply
  PROVE  \A g \in Handlers : Phase(g)'
<1> USE DEF clientVars, handlerVars, mainVars, regVars
<1>1. PICK h \in Handlers : h = mcur.h
  BY DEF ChatInv, IInv, Handshake, MainConsistent, MainReply
<1>2. PICK a \in Message : a = mout.msg
  BY DEF ChatInv, IInv, TypeOK
<1>3. /\ UNCHANGED <<cpc, hpc, peer, told, sock, inbox, files>>
      /\ mpc = "reply" /\ mpc' \in {"select", "write"}
      /\ mfifo' = [mfifo EXCEPT ![h] = Append(@, a)] /\ a.type \in Answers
      /\ mainEnd' = mainEnd \/ mainEnd' = [mainEnd EXCEPT ![h] = "closed"]
      /\ mainEnd[h] = "open" /\ Replying(h)
  BY <1>1, <1>2 DEF MainReply, Broadcast, ChatInv, IInv, Handshake, MainConsistent, Answers, Replying
<1>4. Phase(h) /\ (cpc[h] # "killed" => cpc[h] = "answer" /\ inbox[h] = <<>> /\ mfifo[h] = <<>>)
  BY <1>3, PhaseTypes DEF Phase, Course, Unanswered, NothingToRead
<1>5. mfifo'[h] = Append(mfifo[h], a) /\ \A g \in Handlers \ {h} : mfifo'[g] = mfifo[g]
  BY <1>3, PhaseTypes
<1>6. cpc[h] # "killed" => mfifo'[h] # <<>> /\ Head(mfifo'[h]).type \in Answers
  <2> SUFFICES ASSUME cpc[h] # "killed" PROVE mfifo'[h] # <<>> /\ Head(mfifo'[h]).type \in Answers
    OBVIOUS
  <2>1. mfifo'[h] = <<a>>
    <3>1. mfifo'[h] = Append(<<>>, a)
      BY <1>4, <1>5
    <3> QED
      BY <3>1
  <2>2. Head(mfifo'[h]) = a /\ mfifo'[h] # <<>>
    BY <2>1
  <2> QED
    BY <1>3, <2>2
<1>7. mainEnd'[h] \in {"open", "closed"} /\ \A g \in Handlers \ {h} : mainEnd'[g] = mainEnd[g]
  BY <1>3, PhaseTypes
<1>8. Phase(h)'
  <2> SUFFICES ASSUME cpc[h] # "killed" PROVE Course(h)'
    BY <1>3, <1>4 DEF Phase
  <2>1. ~(hpc[h] = "select" /\ h \notin files)
    BY <1>3 DEF ChatInv, IInv, Handshake, PipeConsistent
  <2>2. Unjoined(h)' /\ Unread(h)'
    BY <1>3, <1>4, <2>1 DEF Phase, Course, Unjoined, Unread
  <2>3. Unanswered(h)'
    BY <1>3, <1>7 DEF Unanswered, Replying
  <2>4. Waiting(h)' /\ Answered(h)'
    BY <1>3, <1>4, <1>6, <1>7 DEF Phase, Course, Unanswered, Waiting, Answered, NothingToRead, Replying, Gone
  <2> QED
    BY <2>2, <2>3, <2>4 DEF Phase, Course
<1>9. \A g \in Handlers \ {h} : Same(g) /\ (Replying(g)' <=> Replying(g))
  BY <1>1, <1>3, <1>5, <1>7 DEF Same, Replying
<1> QED
  BY <1>3, <1>8, <1>9, MainMoves

(* A broadcast reaches users that have their answer, or have it under way.  *)
LEMMA MainWritePhase ==
  ASSUME ChatInv, UNCHANGED cpc, NEW n \in Names, MainWrite(n)
  PROVE  \A g \in Handlers : Phase(g)'
<1> USE DEF clientVars, handlerVars, mainVars, regVars
<1>1. n \in Registered /\ mainEnd[wr_fifos[n]] = "open" /\ wr_fifos[n] \in Handlers
  BY HandlersAssumption
  DEF MainWrite, ChatInv, IInv, TypeOK, Handshake, MainConsistent, RegistryConsistent, Registered
<1>2. PICK h \in Handlers : h = wr_fifos[n]
  BY <1>1
<1>3. PICK a \in Message : a = mout.msg
  BY DEF ChatInv, IInv, TypeOK
<1>4. /\ UNCHANGED <<cpc, hpc, peer, told, sock, inbox, files, mainEnd>>
      /\ mpc = "write" /\ mpc' \in {"select", "write"} /\ hpc[h] \notin Gone
      /\ mfifo' = [mfifo EXCEPT ![h] = Append(@, a)]
  BY <1>2, <1>3 DEF MainWrite, Broadcast
<1>5. Phase(h) /\ mainEnd[h] = "open"
  BY <1>1, <1>2, PhaseTypes
<1>6. mfifo'[h] = Append(mfifo[h], a) /\ \A g \in Handlers \ {h} : mfifo'[g] = mfifo[g]
  BY <1>4, PhaseTypes
<1>7. mfifo'[h] # <<>> /\ (mfifo[h] # <<>> => Head(mfifo'[h]) = Head(mfifo[h]))
  <2> DEFINE s == mfifo[h]
  <2>1. s \in Seq(Message)
    BY PhaseTypes
  <2> HIDE DEF s
  <2>2. Append(s, a) # <<>> /\ (s # <<>> => Head(Append(s, a)) = Head(s))
    BY <2>1
  <2> QED
    BY <1>6, <2>2 DEF s
<1>8. Phase(h)'
  <2> SUFFICES ASSUME cpc[h] # "killed" PROVE Course(h)'
    BY <1>4, <1>5 DEF Phase
  <2>1. ~(hpc[h] = "select" /\ h \notin files)
    BY <1>5 DEF ChatInv, IInv, Handshake, PipeConsistent
  <2>2. Unjoined(h)' /\ Unread(h)'
    BY <1>4, <1>5, <2>1 DEF Phase, Course, Unjoined, Unread
  <2>3. Unanswered(h)'
    BY <1>4, <1>5 DEF Unanswered, Replying
  <2>4. Waiting(h)' /\ Answered(h)'
    BY <1>4, <1>5, <1>7 DEF Phase, Course, Waiting, Answered, NothingToRead, Replying
  <2> QED
    BY <2>2, <2>3, <2>4 DEF Phase, Course
<1>9. \A g \in Handlers \ {h} : Same(g) /\ (Replying(g)' <=> Replying(g))
  BY <1>4, <1>6 DEF Same, Replying
<1> QED
  BY <1>4, <1>8, <1>9, MainMoves

LEMMA MainGoodbyePhase ==
  ASSUME ChatInv, UNCHANGED cpc, NEW n \in Names, MainGoodbye(n)
  PROVE  \A g \in Handlers : Phase(g)'
<1> USE DEF clientVars, handlerVars, mainVars, regVars
<1>1. /\ rd_fifos[n] \in Handlers /\ mainEnd[rd_fifos[n]] = "open"
      /\ hpc[rd_fifos[n]] \in Gone
  BY HandlersAssumption
  DEF MainGoodbye, MainSelects, FifoReady, ChatInv, IInv, TypeOK, RegistryConsistent, Registered
<1>2. PICK h \in Handlers : h = rd_fifos[n]
  BY <1>1
<1>3. /\ UNCHANGED <<cpc, hpc, peer, told, sock, inbox, mfifo, files, mcur>>
      /\ mpc = "select" /\ mpc' \in {"select", "write"} /\ hpc[h] \in Gone
      /\ mainEnd' = [mainEnd EXCEPT ![h] = "closed"]
  BY <1>1, <1>2 DEF MainGoodbye, MainSelects, Broadcast
<1>4. Phase(h) /\ mainEnd[h] = "open" /\ mainEnd'[h] = "closed"
      /\ \A g \in Handlers \ {h} : mainEnd'[g] = mainEnd[g]
  BY <1>1, <1>2, <1>3, PhaseTypes
<1>5. Phase(h)'
  <2> SUFFICES ASSUME cpc[h] # "killed" PROVE Course(h)'
    BY <1>3, <1>4 DEF Phase
  <2>1. Unjoined(h)' /\ Unread(h)' /\ Answered(h)'
    BY <1>3, <1>4 DEF Phase, Course, Unjoined, Unread, Answered, NothingToRead, Gone
  <2>2. Unanswered(h)'
    BY <1>3, <1>4 DEF Unanswered, Replying
  <2>3. Waiting(h)'
    BY <1>3, <1>4 DEF Phase, Course, Waiting, NothingToRead, Replying
  <2> QED
    BY <2>1, <2>2, <2>3 DEF Phase, Course
<1>6. \A g \in Handlers \ {h} : Same(g) /\ (Replying(g)' <=> Replying(g))
  BY <1>3, <1>4 DEF Same, Replying
<1> QED
  BY <1>3, <1>5, <1>6, MainMoves

-----------------------------------------------------------------------------
(* All steps.                                                              *)

LEMMA PhaseStep == ChatInv /\ [ChatNext]_chatVars => \A g \in Handlers : Phase(g)'
<1> SUFFICES ASSUME ChatInv, [ChatNext]_chatVars PROVE \A g \in Handlers : Phase(g)'
  OBVIOUS
<1>1. CASE UNCHANGED chatVars
  <2>1. UNCHANGED <<cpc, mpc, mcur>> /\ \A g \in Handlers : Same(g)
    BY <1>1 DEF chatVars, vars, clientVars, handlerVars, mainVars, Same
  <2> SUFFICES ASSUME NEW g \in Handlers PROVE Phase(g)'
    OBVIOUS
  <2>2. Phase(g)
    BY DEF ChatInv
  <2>3. mpc' = "dead" \/ (mpc # "dead" /\ mpc' # "dead" /\ (Replying(g)' <=> Replying(g)))
    BY <2>1 DEF Replying
  <2> QED
    BY <2>1, <2>2, <2>3, PhaseKept
<1>2. CASE Main /\ UNCHANGED <<cpc, idle>>
  BY <1>2, MainQuietPhase, MainOpensPhase, MainAckTooLongPhase, MainReplyPhase, MainWritePhase,
     MainGoodbyePhase DEF Main
<1>3. ASSUME NEW h \in Handlers, Handler(h), UNCHANGED <<cpc, idle>>
      PROVE  \A g \in Handlers : Phase(g)'
  BY <1>3, HandlerOfKilledPhase, HandlerJoinPhase, HandlerOpensPhase, HandlerTakesPhase, HandlerRelayPhase,
     HandlerEndsPhase DEF Handler
<1>4. ASSUME NEW h \in Handlers, ClientProgram(h) PROVE \A g \in Handlers : Phase(g)'
  BY <1>4, JoinPhase, AnswerPhase, ChatPhase, ClosedPhase, ClosePhase DEF ClientProgram
<1>5. ASSUME NEW h \in Handlers, CConnect(h) \/ CIdle(h) \/ CSay(h) \/ CQuit(h) \/ CKilled(h)
      PROVE  \A g \in Handlers : Phase(g)'
  BY <1>5, ConnectPhase, ChatPhase, KilledPhase
<1> QED
  BY <1>1, <1>2, <1>3, <1>4, <1>5 DEF ChatNext, ServerStep

LEMMA ChatTypesStep == ChatTypes /\ [ChatNext]_chatVars => ChatTypes'
<1> SUFFICES ASSUME ChatTypes, [ChatNext]_chatVars PROVE ChatTypes'
  OBVIOUS
<1>1. CASE UNCHANGED chatVars \/ ServerStep
  BY <1>1 DEF chatVars, ServerStep, ChatTypes
<1>2. ASSUME NEW h \in Handlers, ClientProgram(h) PROVE ChatTypes'
  BY <1>2 DEF ClientProgram, CJoin, CAnswer, CRead, CServerClosed, CClose, Goto, ChatTypes
<1>3. ASSUME NEW h \in Handlers, CConnect(h) PROVE ChatTypes'
  BY <1>3 DEF CConnect, ChatTypes
<1>4. ASSUME NEW h \in Handlers, CIdle(h) \/ CSay(h) \/ CQuit(h) \/ CKilled(h) PROVE ChatTypes'
  <2>1. \/ idle' = [idle EXCEPT ![h] = TRUE]
        \/ idle' = [idle EXCEPT ![h] = FALSE]
    BY <1>4 DEF CIdle, CSay, CQuit, CKilled
  <2>2. idle' \in [Handlers -> BOOLEAN]
    BY <2>1 DEF ChatTypes
  <2>3. cpc' \in [Handlers -> {"join", "answer", "chat", "quit", "gone", "killed"}]
    BY <1>4 DEF CIdle, CSay, CQuit, CKilled, Goto, ChatTypes
  <2> QED
    BY <2>2, <2>3 DEF ChatTypes
<1> QED
  BY <1>1, <1>2, <1>3, <1>4 DEF ChatNext

(* The invariant is inductive.                                             *)
THEOREM ChatInvariance == ChatSpec => []ChatInv
<1>1. ChatInv /\ [ChatNext]_chatVars => ChatInv'
  <2> SUFFICES ASSUME ChatInv, [ChatNext]_chatVars PROVE ChatInv'
    OBVIOUS
  <2>1. [Next]_vars
    BY ChatIsServer
  <2>2. IInv'
    BY <2>1, ServerInvStep DEF ChatInv
  <2>3. ChatTypes'
    BY ChatTypesStep DEF ChatInv
  <2>4. \A g \in Handlers : Phase(g)'
    BY PhaseStep
  <2> QED
    BY <2>2, <2>3, <2>4 DEF ChatInv
<1> QED
  BY ChatInitInv, <1>1, PTL DEF ChatSpec

(* The assertion of sbcp_client.cpp holds: whatever main is broadcasting    *)
(* when a client joins, the first message the client reads is ACK or NAK.   *)
THEOREM AnswerComesFirst == ChatSpec => []FirstIsAnswer
<1>1. ChatInv => FirstIsAnswer
  BY DEF ChatInv, Phase, Course, Waiting, FirstIsAnswer, Answers
<1> QED
  BY <1>1, ChatInvariance, PTL

(* No client of a living main is turned away without a NAK, except by the   *)
(* limit of libtcp or by an abort of its handler.                           *)
THEOREM RefusalsAreTold == ChatSpec => []RefusalIsTold
<1>1. ChatInv => RefusalIsTold
  BY DEF ChatInv, Phase, Course, Answered, RefusalIsTold
<1> QED
  BY <1>1, ChatInvariance, PTL

-----------------------------------------------------------------------------
(* Idle users.  An IDLE under way has the number of a message that was sent, *)
(* the message with the next number is no IDLE, and a client whose last      *)
(* message was an IDLE knows that it is idle.                               *)

Queued(h) == InSock(h) \cup InHfifo(h) \cup InInbox(h) \cup InMfifo(h)

\* All messages under way.
Afoot == {m \in Message : (\E h \in Handlers : m \in Queued(h)) \/ (mpc = "write" /\ m = mout.msg)}

IdleIds == {m.id : m \in {k \in Afoot : k.type = "IDLE"}}

IdleInv ==
  /\ \A id \in IdleIds : id[2] <= sent[id[1]] /\ <<id[1], id[2] + 1>> \notin IdleIds
  /\ \A g \in Handlers : <<g, sent[g]>> \in IdleIds =>
       cpc[g] \in {"quit", "gone", "killed"} \/ (cpc[g] = "chat" /\ idle[g])

\* A JOIN is read before the fifos are there and goes no further; a client,
\* killed or not, sends one message before the fifos are there.
JoinsRead ==
  /\ \A h \in Handlers \ files : Len(sock[h]) <= 1
  /\ \A h \in files : \A m \in InSock(h) : m.type # "JOIN"
  /\ \A h \in Handlers : \A m \in InHfifo(h) \cup InInbox(h) \cup InMfifo(h) : m.type # "JOIN"
  /\ mpc = "write" => mout.msg.type # "JOIN"

LEMMA QueuedTyped ==
  ASSUME TypeOK, NEW h \in Handlers, NEW m \in Queued(h)
  PROVE  m \in Message
<1>1. /\ sock[h] \in Seq(Message) /\ hfifo[h] \in Seq(Message)
      /\ inbox[h] \in Seq(Message) /\ mfifo[h] \in Seq(Message)
  BY DEF TypeOK
<1> QED
  BY <1>1, ElemsFacts DEF Queued, InSock, InHfifo, InInbox, InMfifo

LEMMA AfootIs ==
  ASSUME TypeOK, NEW m,
         (\E h \in Handlers : m \in Queued(h)) \/ (mpc = "write" /\ m = mout.msg)
  PROVE  m \in Afoot
<1>1. m \in Message
  BY QueuedTyped DEF TypeOK
<1> QED
  BY <1>1 DEF Afoot

LEMMA IdleIdIs ==
  ASSUME NEW id
  PROVE  id \in IdleIds <=> \E m \in Afoot : m.type = "IDLE" /\ m.id = id
BY DEF IdleIds

(* Every IDLE under way is a message of a connection.                      *)
LEMMA IdleTyped ==
  ASSUME StreamInv, NEW id \in IdleIds
  PROVE  \E g \in Handlers, k \in Nat : id = <<g, k>>
<1>0. TypeOK /\ Underway /\ NamesKnown
  BY DEF StreamInv, IInv
<1>1. PICK m \in Afoot : m.type = "IDLE" /\ m.id = id
  BY IdleIdIs
<1>2. m \in Message /\ m.id[1] \in Handlers
  <2>1. CASE mpc = "write" /\ m = mout.msg
    <3>1. m \in Message
      BY <1>0, <2>1 DEF TypeOK
    <3>2. Signed(m)
      BY <1>0, <2>1, <3>1 DEF NamesKnown
    <3> QED
      BY <1>1, <3>1, <3>2 DEF Signed
  <2>2. ASSUME NEW h \in Handlers, m \in Queued(h) PROVE m \in Message /\ m.id[1] \in Handlers
    <3>1. m \in Message
      BY <1>1 DEF Afoot
    <3>2. m \in InSock(h) \cup InHfifo(h) => m.id[1] = h
      BY <1>0 DEF Underway
    <3>3. m \in InInbox(h) \cup InMfifo(h) => Signed(m)
      BY <1>0 DEF Underway
    <3> QED
      BY <1>1, <2>2, <3>1, <3>2, <3>3 DEF Queued, Signed
  <2> QED
    BY <1>1, <2>1, <2>2 DEF Afoot
<1>3. m.id \in (Handlers \cup {NoFd}) \X Nat
  BY <1>2 DEF Message, Ids
<1>4. PICK g \in Handlers \cup {NoFd}, k \in Nat : m.id = <<g, k>>
  BY <1>3
<1>5. g \in Handlers
  BY <1>2, <1>4
<1> QED
  BY <1>1, <1>4, <1>5

(* The number of an IDLE is new only when the message is new in a socket.   *)
LEMMA IdleFlow ==
  ASSUME StreamInv, [Next]_vars, NEW id \in IdleIds'
  PROVE  \/ id \in IdleIds
         \/ \E h \in Handlers : \E m \in InSock(h)' \ InSock(h) : m.type = "IDLE" /\ m.id = id
<1>0. IInv /\ TypeOK /\ Underway
  BY DEF StreamInv, IInv
<1>1. PICK m : m \in Afoot' /\ m.type = "IDLE" /\ m.id = id
  BY DEF IdleIds
<1>2. ASSUME m \in Afoot PROVE id \in IdleIds
  BY <1>1, <1>2, IdleIdIs
<1>3. ASSUME NEW h \in Handlers, m \in InSock(h)', m \notin InSock(h)
      PROVE  \E g \in Handlers : \E q \in InSock(g)' \ InSock(g) : q.type = "IDLE" /\ q.id = id
  BY <1>1, <1>3
<1>4. ASSUME NEW h \in Handlers, m \in InHfifo(h)' PROVE m \in Afoot
  <2>1. sock[h] \in Seq(Message) /\ hfifo[h] \in Seq(Message) /\ InHfifo(h)' = Elems(hfifo'[h])
    BY <1>0, PrimedElems DEF TypeOK
  <2>2. sock[h] # <<>> => Head(sock[h]) \in Message /\ Head(sock[h]) \in Elems(sock[h])
    BY <2>1, ElemsFacts, HeadTailFacts
  <2>3. \/ hfifo'[h] = hfifo[h] \/ (hfifo[h] # <<>> /\ hfifo'[h] = Tail(hfifo[h]))
        \/ sock[h] # <<>> /\ hfifo'[h] = Append(hfifo[h], Head(sock[h]))
    BY <1>0, HfifoFlow
  <2>4. m \in Elems(hfifo[h]) \cup Elems(sock[h])
    <3>1. CASE hfifo'[h] = hfifo[h] \/ (hfifo[h] # <<>> /\ hfifo'[h] = Tail(hfifo[h]))
      BY <1>4, <2>1, <3>1, ElemsFacts
    <3>2. CASE sock[h] # <<>> /\ hfifo'[h] = Append(hfifo[h], Head(sock[h]))
      <4>1. Elems(hfifo'[h]) = Elems(hfifo[h]) \cup {Head(sock[h])}
        BY <2>1, <2>2, <3>2, ElemsFacts
      <4> QED
        BY <1>4, <2>1, <2>2, <3>2, <4>1
    <3> QED
      BY <2>3, <3>1, <3>2
  <2> QED
    BY <1>0, <2>4, AfootIs DEF Queued, InHfifo, InSock
<1>5. ASSUME NEW h \in Handlers, m \in InInbox(h)' \cup InMfifo(h)' PROVE m \in Afoot
  <2>1. mpc = "reply" => mout.msg.type \in {"ACK", "NAK"}
    BY <1>0 DEF IInv, Handshake, MainConsistent
  <2>2. m \in InInbox(h) \cup InMfifo(h) \/ (mpc = "write" /\ m = mout.msg)
    BY <1>1, <1>5, <2>1, ReadFlow
  <2> QED
    BY <2>2, <1>0, AfootIs DEF Queued
<1>6. ASSUME mpc' = "write", m = mout'.msg PROVE id \in IdleIds
  <2>1. ASSUME NEW n \in Registered, hfifo[wr_fifos[n]] # <<>>,
               mout'.msg \in {change_to_fwd(Head(hfifo[wr_fifos[n]]), n),
                              add_username(Head(hfifo[wr_fifos[n]]), n)}
        PROVE  id \in IdleIds
    <3>1. PICK g \in Handlers : g = wr_fifos[n]
      BY <1>0 DEF Registered, TypeOK
    <3>2. PICK q \in Message : q = Head(hfifo[g]) /\ q \in InHfifo(g)
      BY <1>0, <2>1, <3>1, ElemsFacts, HeadTailFacts DEF TypeOK, InHfifo
    <3>3. q.type = "IDLE" /\ q.id = id
      BY <1>1, <1>6, <2>1, <3>1, <3>2 DEF change_to_fwd, add_username, Message
    <3>4. q \in Afoot
      BY <3>2, <1>0, AfootIs DEF Queued
    <3> QED
      BY <3>3, <3>4, IdleIdIs
  <2>2. \/ mpc = "write" /\ mout'.msg = mout.msg
        \/ mout'.msg.type \in {"ONLINE", "OFFLINE"}
        \/ \E n \in Registered :
             /\ hfifo[wr_fifos[n]] # <<>>
             /\ mout'.msg \in {change_to_fwd(Head(hfifo[wr_fifos[n]]), n),
                               add_username(Head(hfifo[wr_fifos[n]]), n)}
    BY <1>0, <1>6, WriteFlow
  <2> QED
    BY <1>0, <1>1, <1>2, <1>6, <2>1, <2>2, AfootIs
<1>7. \/ \E h \in Handlers : m \in InSock(h)' \cup InHfifo(h)' \cup InInbox(h)' \cup InMfifo(h)'
      \/ mpc' = "write" /\ m = mout'.msg
  BY <1>1 DEF Afoot, Queued
<1>8. ASSUME NEW h \in Handlers, m \in InSock(h) PROVE m \in Afoot
  BY <1>8, <1>0, AfootIs DEF Queued
<1> QED
  BY <1>2, <1>3, <1>4, <1>5, <1>6, <1>7, <1>8

-----------------------------------------------------------------------------
(* Steps that send nothing, and steps that do.                             *)

\* The client has no reason to send another IDLE.
Knows(g) == cpc[g] \in {"quit", "gone", "killed"} \/ (cpc[g] = "chat" /\ idle[g])

Silent ==
  \/ Main \/ UNCHANGED vars
  \/ \E h \in Handlers : Handler(h) \/ Accept(h) \/ Drop(h) \/ ClientRead(h) \/ ClientClose(h)

LEMMA SilentFlow ==
  ASSUME IInv, Silent
  PROVE  sent' = sent /\ \A h \in Handlers : InSock(h)' \subseteq InSock(h)
<1> USE DEF clientVars, handlerVars, mainVars, regVars
<1>1. ASSUME Main \/ UNCHANGED vars PROVE sent' = sent
  BY <1>1 DEF vars, Main, MainReadBootstrap, MainOpenMain, MainRefuse, MainRegister,
              MainAckTooLong, MainOpensHandlerFifo, MainReply, MainSigpipe, MainWrite,
              MainForward, MainGoodbye
<1>2. ASSUME NEW g \in Handlers, Handler(g) PROVE sent' = sent
  BY <1>2 DEF Handler, HandlerJoin, HandlerRejoin, HandlerOpenMain, HandlerOpenHandler,
              HandlerForward, HandlerSigpipe, HandlerDiscard, HandlerEOF, HandlerReset,
              HandlerShortRead, HandlerRelay, HandlerMainEOF, HandlerEnds
<1>3. ASSUME NEW g \in Handlers, Accept(g) \/ Drop(g) \/ ClientRead(g) \/ ClientClose(g)
      PROVE  sent' = sent
  BY <1>3 DEF Accept, Drop, ClientRead, ClientClose
<1>4. ASSUME NEW h \in Handlers PROVE InSock(h)' \subseteq InSock(h)
  <2>1. sock[h] \in Seq(Message)
    BY DEF IInv, TypeOK
  <2>2. sock'[h] \in {sock[h], <<>>} \/ (sock[h] # <<>> /\ sock'[h] = Tail(sock[h]))
    BY SockShrinks DEF Silent
  <2>3. Elems(sock'[h]) \subseteq Elems(sock[h])
    BY <2>1, <2>2, ElemsFacts
  <2> QED
    BY <2>3, PrimedElems DEF InSock
<1> QED
  BY <1>1, <1>2, <1>3, <1>4 DEF Silent
LEMMA SendFlow ==
  ASSUME IInv, NEW h \in Handlers, NEW m, ClientSend(h, m)
  PROVE  /\ m \in Message /\ m.id = <<h, sent[h] + 1>> /\ m.type \in {"JOIN", "SEND", "IDLE"}
         /\ sent' = [sent EXCEPT ![h] = @ + 1]
         /\ InSock(h)' = InSock(h) \cup {m}
         /\ \A g \in Handlers \ {h} : InSock(g)' = InSock(g)
<1> DEFINE id == <<h, sent[h] + 1>>
<1>0. TypeOK
  BY DEF IInv
<1>1. id \in Ids
  <2>1. sent[h] + 1 \in Nat
    BY <1>0 DEF TypeOK
  <2> QED
    BY <2>1 DEF Ids
<1>2. (\E n \in Names : m = JOIN(n, id)) \/ m = SEND(id) \/ m = IDLE(id)
  BY DEF ClientSend, ClientMessages
<1> HIDE DEF id
<1>3. m \in Message
  BY <1>1, <1>2, MessagesTyped
<1>4. m.id = id /\ m.type \in {"JOIN", "SEND", "IDLE"}
  BY <1>2 DEF JOIN, SEND, IDLE
<1>5. sock' = [sock EXCEPT ![h] = Append(@, m)] /\ sent' = [sent EXCEPT ![h] = @ + 1]
  BY DEF ClientSend
<1>6. sock[h] \in Seq(Message) /\ sock'[h] = Append(sock[h], m)
      /\ \A g \in Handlers \ {h} : sock'[g] = sock[g]
  BY <1>0, <1>5 DEF TypeOK
<1>7. Elems(sock'[h]) = Elems(sock[h]) \cup {m}
  BY <1>3, <1>6, ElemsFacts
<1>8. InSock(h)' = InSock(h) \cup {m}
  BY <1>7, PrimedElems DEF InSock
<1>9. ASSUME NEW g \in Handlers \ {h} PROVE InSock(g)' = InSock(g)
  BY <1>6, <1>9, PrimedElems DEF InSock
<1> QED
  BY <1>3, <1>4, <1>5, <1>8, <1>9 DEF id

(* The chat's steps, sorted by what they send.                             *)
LEMMA ChatSteps ==
  ASSUME ChatTypes, [ChatNext]_chatVars
  PROVE  \/ Silent /\ \A g \in Handlers : Knows(g) => Knows(g)'
         \/ \E h \in Handlers, n \in Names : CJoin(h, n)
         \/ \E h \in Handlers : CSay(h) \/ CIdle(h)
<1> USE DEF ChatTypes, Knows, Goto
<1>1. CASE UNCHANGED chatVars
  BY <1>1 DEF chatVars, Silent
<1>2. CASE ServerStep
  BY <1>2 DEF ServerStep, Silent
<1>3. ASSUME NEW h \in Handlers, ClientProgram(h), \A n \in Names : ~CJoin(h, n)
      PROVE  Silent /\ \A g \in Handlers : Knows(g) => Knows(g)'
  <2>1. CASE CAnswer(h) \/ CRead(h)
    BY <2>1 DEF CAnswer, CRead, Silent
  <2>2. CASE CServerClosed(h)
    BY <2>2 DEF CServerClosed, Silent
  <2>3. CASE CClose(h)
    BY <2>3 DEF CClose, Silent
  <2> QED
    BY <1>3, <2>1, <2>2, <2>3 DEF ClientProgram
<1>4. ASSUME NEW h \in Handlers, CConnect(h)
      PROVE  Silent /\ \A g \in Handlers : Knows(g) => Knows(g)'
  BY <1>4 DEF CConnect, Silent
<1>5. ASSUME NEW h \in Handlers, CQuit(h)
      PROVE  Silent /\ \A g \in Handlers : Knows(g) => Knows(g)'
  BY <1>5 DEF CQuit, Silent
<1>6. ASSUME NEW h \in Handlers, CKilled(h)
      PROVE  Silent /\ \A g \in Handlers : Knows(g) => Knows(g)'
  BY <1>6 DEF CKilled, Silent
<1> QED
  BY <1>1, <1>2, <1>3, <1>4, <1>5, <1>6 DEF ChatNext, ClientProgram

LEMMA IdleStep ==
  ASSUME ChatInv, StreamInv, IdleInv, [ChatNext]_chatVars
  PROVE  IdleInv'
<1>0. IInv /\ TypeOK /\ ChatTypes /\ [Next]_vars /\ sent \in [Handlers -> Nat]
  BY ChatIsServer DEF ChatInv, StreamInv, IInv, TypeOK
<1>1. CASE Silent /\ \A g \in Handlers : Knows(g) => Knows(g)'
  <2>1. sent' = sent /\ IdleIds' \subseteq IdleIds
    BY <1>0, <1>1, SilentFlow, IdleFlow
  <2> QED
    BY <1>1, <2>1 DEF IdleInv, Knows
<1>2. ASSUME NEW h \in Handlers, NEW m, ClientSend(h, m)
      PROVE  /\ sent' = [sent EXCEPT ![h] = @ + 1]
             /\ IdleIds' \subseteq IdleIds \cup {<<h, sent[h] + 1>>}
             /\ m.type # "IDLE" => IdleIds' \subseteq IdleIds
  <2>1. /\ m \in Message /\ m.id = <<h, sent[h] + 1>> /\ sent' = [sent EXCEPT ![h] = @ + 1]
        /\ InSock(h)' = InSock(h) \cup {m} /\ \A g \in Handlers \ {h} : InSock(g)' = InSock(g)
    BY <1>0, <1>2, SendFlow
  <2>2. ASSUME NEW id \in IdleIds', id \notin IdleIds PROVE m.type = "IDLE" /\ m.id = id
    <3>1. PICK g \in Handlers : \E q \in InSock(g)' \ InSock(g) : q.type = "IDLE" /\ q.id = id
      BY <1>0, <2>2, IdleFlow
    <3> QED
      BY <2>1, <3>1
  <2> QED
    BY <2>1, <2>2
<1>3. ASSUME NEW h \in Handlers, NEW m, ClientSend(h, m),
             \A g \in Handlers \ {h} : cpc'[g] = cpc[g] /\ idle'[g] = idle[g],
             m.type = "IDLE" => <<h, sent[h]>> \notin IdleIds /\ Knows(h)'
      PROVE  IdleInv'
  <2> DEFINE new == <<h, sent[h] + 1>>
  <2>1. /\ sent'[h] = sent[h] + 1 /\ sent[h] \in Nat
        /\ \A g \in Handlers \ {h} : sent'[g] = sent[g]
        /\ \A g \in Handlers : sent[g] \in Nat /\ sent'[g] \in Nat /\ sent[g] <= sent'[g]
    BY <1>0, <1>2, <1>3
  <2>2. /\ IdleIds' \subseteq IdleIds \cup {new}
        /\ new \in IdleIds' => new \in IdleIds \/ (<<h, sent[h]>> \notin IdleIds /\ Knows(h)')
    BY <1>2, <1>3
  <2>3. ASSUME NEW g \in Handlers, NEW k \in Nat, <<g, k>> \in IdleIds
        PROVE  k <= sent[g] /\ <<g, k + 1>> \notin IdleIds
    BY <2>3 DEF IdleInv
  <2>4. ASSUME NEW k \in Nat, k > sent[h] PROVE <<h, k>> \notin IdleIds
    <3>1. ~(k <= sent[h])
      BY <2>1, <2>4
    <3> QED
      BY <2>3, <3>1
  <2>5. new \notin IdleIds
    <3>1. sent[h] + 1 \in Nat /\ sent[h] + 1 > sent[h]
      BY <2>1
    <3> QED
      BY <2>4, <3>1
  <2>6. ASSUME NEW id \in IdleIds' PROVE id[2] <= sent'[id[1]] /\ <<id[1], id[2] + 1>> \notin IdleIds'
    <3>1. PICK g \in Handlers, k \in Nat : id = <<g, k>>
      BY <2>1, <2>2, IdleTyped
    <3>2. CASE id \in IdleIds
      <4>1. k <= sent[g] /\ <<g, k + 1>> \notin IdleIds
        BY <2>3, <3>1, <3>2
      <4>2. <<g, k + 1>> = new => id = <<h, sent[h]>>
        BY <2>1, <3>1
      <4>3. <<g, k + 1>> \notin IdleIds'
        BY <2>2, <2>5, <3>2, <4>1, <4>2
      <4> QED
        BY <2>1, <3>1, <4>1, <4>3
    <3>3. CASE id = new
      <4>1. g = h /\ k = sent[h] + 1
        BY <3>1, <3>3
      <4>2. <<h, k + 1>> \notin IdleIds
        <5>1. k + 1 \in Nat /\ k + 1 > sent[h]
          BY <2>1, <4>1
        <5> QED
          BY <2>4, <5>1
      <4>3. <<h, k + 1>> # new
        BY <2>1, <4>1
      <4> QED
        BY <2>1, <2>2, <3>1, <4>1, <4>2, <4>3
    <3> QED
      BY <2>2, <3>2, <3>3
  <2>7. ASSUME NEW g \in Handlers, <<g, sent'[g]>> \in IdleIds' PROVE Knows(g)'
    <3>1. CASE g = h
      BY <2>1, <2>2, <2>5, <2>7, <3>1
    <3>2. CASE g # h
      <4>1. <<g, sent[g]>> \in IdleIds
        BY <2>1, <2>2, <2>7, <3>2
      <4>2. Knows(g)
        BY <4>1 DEF IdleInv, Knows
      <4> QED
        BY <1>3, <3>2, <4>2 DEF Knows
    <3> QED
      BY <3>1, <3>2
  <2> QED
    BY <2>6, <2>7 DEF IdleInv, Knows
<1>4. ASSUME NEW h \in Handlers, NEW n \in Names, CJoin(h, n) PROVE IdleInv'
  <2>1. /\ ClientSend(h, JOIN(n, <<h, sent[h] + 1>>)) /\ UNCHANGED idle
        /\ cpc' = [cpc EXCEPT ![h] = "answer"]
    BY <1>4 DEF CJoin, Goto
  <2>2. JOIN(n, <<h, sent[h] + 1>>).type # "IDLE"
    BY DEF JOIN
  <2>3. \A g \in Handlers \ {h} : cpc'[g] = cpc[g] /\ idle'[g] = idle[g]
    BY <1>0, <2>1 DEF ChatTypes
  <2> QED
    BY <1>3, <2>1, <2>2, <2>3
<1>5. ASSUME NEW h \in Handlers, CSay(h) PROVE IdleInv'
  <2>1. /\ ClientSend(h, SEND(<<h, sent[h] + 1>>)) /\ idle' = [idle EXCEPT ![h] = FALSE]
        /\ UNCHANGED cpc
    BY <1>5 DEF CSay
  <2>2. SEND(<<h, sent[h] + 1>>).type # "IDLE"
    BY DEF SEND
  <2>3. \A g \in Handlers \ {h} : cpc'[g] = cpc[g] /\ idle'[g] = idle[g]
    BY <1>0, <2>1 DEF ChatTypes
  <2> QED
    BY <1>3, <2>1, <2>2, <2>3
<1>6. ASSUME NEW h \in Handlers, CIdle(h) PROVE IdleInv'
  <2>1. /\ ClientSend(h, IDLE(<<h, sent[h] + 1>>)) /\ idle' = [idle EXCEPT ![h] = TRUE]
        /\ UNCHANGED cpc /\ cpc[h] = "chat" /\ ~idle[h]
    BY <1>6 DEF CIdle
  <2>2. <<h, sent[h]>> \notin IdleIds
    BY <2>1 DEF IdleInv
  <2>3. \A g \in Handlers \ {h} : cpc'[g] = cpc[g] /\ idle'[g] = idle[g]
    BY <1>0, <2>1 DEF ChatTypes
  <2>4. Knows(h)'
    BY <1>0, <2>1 DEF ChatTypes, Knows
  <2> QED
    BY <1>3, <2>1, <2>2, <2>3, <2>4
<1> QED
  BY <1>0, <1>1, <1>4, <1>5, <1>6, ChatSteps
(* A handler gets its fifos when it reads the JOIN, and no other way.       *)
LEMMA FilesFlow ==
  ASSUME IInv, [Next]_vars, NEW h \in files', h \notin files
  PROVE  h \in Handlers /\ HandlerJoin(h)
<1> USE DEF clientVars, handlerVars, mainVars, regVars
<1>1. ASSUME Main \/ UNCHANGED vars PROVE files' = files
  BY <1>1 DEF vars, Main, MainReadBootstrap, MainOpenMain, MainRefuse, MainRegister,
              MainAckTooLong, MainOpensHandlerFifo, MainReply, MainSigpipe, MainWrite,
              MainForward, MainGoodbye
<1>2. ASSUME NEW g \in Handlers, HandlerJoin(g) PROVE files' = files \cup {g}
  BY <1>2 DEF HandlerJoin
<1>3. ASSUME NEW g \in Handlers, Handler(g), ~HandlerJoin(g) PROVE files' \subseteq files
  BY <1>3 DEF Handler, HandlerRejoin, HandlerOpenMain, HandlerOpenHandler,
              HandlerForward, HandlerSigpipe, HandlerDiscard, HandlerEOF, HandlerReset,
              HandlerShortRead, HandlerRelay, HandlerMainEOF, HandlerEnds
<1>4. ASSUME NEW g \in Handlers, Client(g) PROVE files' = files
  BY <1>4 DEF Client, Accept, Drop, ClientSend, ClientRead, ClientClose
<1> QED
  BY <1>1, <1>2, <1>3, <1>4 DEF Next

(* A handler unlinks its fifos when it ends.                                *)
LEMMA FilesLost ==
  ASSUME IInv, [Next]_vars, NEW h \in files, h \notin files'
  PROVE  sock'[h] = <<>>
<1> USE DEF clientVars, handlerVars, mainVars, regVars
<1>0. h \in Handlers /\ sock \in [Handlers -> Seq(Message)]
  BY DEF IInv, TypeOK
<1>1. ASSUME Main \/ UNCHANGED vars PROVE files' = files
  BY <1>1 DEF vars, Main, MainReadBootstrap, MainOpenMain, MainRefuse, MainRegister,
              MainAckTooLong, MainOpensHandlerFifo, MainReply, MainSigpipe, MainWrite,
              MainForward, MainGoodbye
<1>2. ASSUME NEW g \in Handlers, NEW how, NEW gone, HandlerEnds(g, how, gone) PROVE sock'[h] = <<>>
  <2>1. files' \in {files, files \ {g}} /\ sock' = [sock EXCEPT ![g] = <<>>]
    BY <1>2 DEF HandlerEnds
  <2> QED
    BY <1>0, <2>1
<1>3. ASSUME NEW g \in Handlers, HandlerRejoin(g) \/ HandlerSigpipe(g) \/ HandlerEOF(g)
               \/ HandlerReset(g) \/ HandlerShortRead(g) \/ HandlerMainEOF(g)
      PROVE  sock'[h] = <<>>
  BY <1>2, <1>3 DEF HandlerRejoin, HandlerSigpipe, HandlerEOF, HandlerReset, HandlerShortRead,
                    HandlerMainEOF
<1>4. ASSUME NEW g \in Handlers, HandlerJoin(g) \/ HandlerOpenMain(g) \/ HandlerOpenHandler(g)
               \/ HandlerForward(g) \/ HandlerDiscard(g) \/ HandlerRelay(g)
      PROVE  h \in files'
  BY <1>4 DEF HandlerJoin, HandlerOpenMain, HandlerOpenHandler, HandlerForward, HandlerDiscard,
              HandlerRelay
<1>5. ASSUME NEW g \in Handlers, Client(g) PROVE files' = files
  BY <1>5 DEF Client, Accept, Drop, ClientSend, ClientRead, ClientClose
<1> QED
  BY <1>1, <1>3, <1>4, <1>5 DEF Next, Handler

LEMMA JoinsReadStep ==
  ASSUME ChatInv, ChatInv', StreamInv, JoinsRead, [ChatNext]_chatVars
  PROVE  JoinsRead'
<1>0. IInv /\ TypeOK /\ ChatTypes /\ [Next]_vars
  BY ChatIsServer DEF ChatInv, StreamInv, IInv
<1>1. ASSUME NEW h \in files', h \notin files, NEW m \in InSock(h)' PROVE FALSE
  <2>1. h \in Handlers /\ HandlerJoin(h)
    BY <1>0, <1>1, FilesFlow
  <2>2. sock[h] # <<>> /\ sock[h] \in Seq(Message) /\ Len(sock[h]) <= 1
    BY <1>0, <1>1, <2>1 DEF HandlerJoin, JoinsRead, TypeOK
  <2>3. sock'[h] = Tail(sock[h])
    BY <1>0, <2>1 DEF HandlerJoin, TypeOK
  <2>4. \A s \in Seq(Message) : s # <<>> /\ Len(s) <= 1 => Tail(s) = <<>>
    <3> SUFFICES ASSUME NEW s \in Seq(Message), s # <<>>, Len(s) <= 1 PROVE Tail(s) = <<>>
      OBVIOUS
    <3>1. Len(s) = 1
      <4>1. Len(s) # 0
        OBVIOUS
      <4>2. PICK k \in Nat : k = Len(s)
        OBVIOUS
      <4> QED
        BY <4>1, <4>2
    <3>2. Tail(s) \in Seq(Message) /\ Len(Tail(s)) = 0
      BY <3>1, HeadTailFacts
    <3>3. \A t \in Seq(Message) : Len(t) = 0 => t = <<>>
      OBVIOUS
    <3> QED
      BY <3>2, <3>3, Zenon
  <2>5. sock'[h] = <<>>
    BY <2>2, <2>3, <2>4
  <2> QED
    BY <1>1, <2>1, <2>5, ElemsFacts, PrimedElems
<1>2. ASSUME NEW h \in files, NEW m \in InSock(h)' PROVE m.type # "JOIN"
  <2>0. h \in Handlers
    BY <1>0 DEF TypeOK
  <2>1. CASE m \in InSock(h)
    BY <2>1 DEF JoinsRead
  <2>2. CASE Silent
    <3>1. m \in InSock(h)
      BY <1>0, <2>0, <2>2, SilentFlow
    <3> QED
      BY <3>1 DEF JoinsRead
  <2>3. ASSUME NEW g \in Handlers, NEW q, ClientSend(g, q), q.type # "JOIN" \/ g \notin files
        PROVE  m.type # "JOIN"
    <3>1. InSock(g)' = InSock(g) \cup {q} /\ \A f \in Handlers \ {g} : InSock(f)' = InSock(f)
      BY <1>0, <2>3, SendFlow
    <3> QED
      BY <1>2, <2>0, <2>1, <2>3, <3>1
  <2>4. ASSUME NEW g \in Handlers, NEW n \in Names, CJoin(g, n) PROVE m.type # "JOIN"
    <3>1. g \notin files
      BY <2>4 DEF CJoin, ChatInv, Phase, Course, Unjoined
    <3> QED
      BY <2>3, <2>4, <3>1 DEF CJoin
  <2>5. ASSUME NEW g \in Handlers, CSay(g) PROVE m.type # "JOIN"
    <3>1. SEND(<<g, sent[g] + 1>>).type # "JOIN"
      BY DEF SEND
    <3> QED
      BY <2>3, <2>5, <3>1 DEF CSay
  <2>6. ASSUME NEW g \in Handlers, CIdle(g) PROVE m.type # "JOIN"
    <3>1. IDLE(<<g, sent[g] + 1>>).type # "JOIN"
      BY DEF IDLE
    <3> QED
      BY <2>3, <2>6, <3>1 DEF CIdle
  <2> QED
    BY <1>0, <2>2, <2>4, <2>5, <2>6, ChatSteps
<1>3. ASSUME NEW h \in Handlers, NEW m \in InHfifo(h)' PROVE m.type # "JOIN"
  <2>1. sock[h] \in Seq(Message) /\ hfifo[h] \in Seq(Message) /\ InHfifo(h)' = Elems(hfifo'[h])
    BY <1>0, PrimedElems DEF TypeOK
  <2>2. m \in Elems(hfifo[h]) => m.type # "JOIN"
    BY DEF JoinsRead, InHfifo
  <2>3. CASE hfifo'[h] = hfifo[h] \/ (hfifo[h] # <<>> /\ hfifo'[h] = Tail(hfifo[h]))
    BY <1>3, <2>1, <2>2, <2>3, ElemsFacts
  <2>4. CASE /\ sock[h] # <<>> /\ Head(sock[h]).type \in {"SEND", "IDLE"}
             /\ hfifo'[h] = Append(hfifo[h], Head(sock[h]))
    <3>1. Head(sock[h]) \in Message
      BY <2>1, <2>4, HeadTailFacts
    <3>2. Elems(hfifo'[h]) = Elems(hfifo[h]) \cup {Head(sock[h])}
      BY <2>1, <2>4, <3>1, ElemsFacts
    <3> QED
      BY <1>3, <2>1, <2>2, <2>4, <3>2
  <2> QED
    BY <1>0, <2>3, <2>4, HfifoFlow
<1>4. ASSUME NEW h \in Handlers, NEW m, m \in InInbox(h)' \cup InMfifo(h)' PROVE m.type # "JOIN"
  <2>1. mpc = "reply" => mout.msg.type \in {"ACK", "NAK"}
    BY <1>0 DEF IInv, Handshake, MainConsistent
  <2>2. \/ m \in InInbox(h) \cup InMfifo(h)
        \/ mpc = "write" /\ m = mout.msg
        \/ mpc = "reply" /\ m = mout.msg
    BY <1>0, <1>4, ReadFlow
  <2> QED
    BY <2>1, <2>2 DEF JoinsRead
<1>5. ASSUME mpc' = "write" PROVE mout'.msg.type # "JOIN"
  <2>1. \/ mpc = "write" /\ mout'.msg = mout.msg
        \/ mout'.msg.type \in {"ONLINE", "OFFLINE", "FWD", "IDLE"}
    BY <1>0, <1>5, WriteFlow
  <2> QED
    BY <2>1 DEF JoinsRead
<1>6. ASSUME NEW h \in Handlers, h \notin files' PROVE Len(sock'[h]) <= 1
  <2>1. sock[h] \in Seq(Message)
    BY <1>0 DEF TypeOK
  <2>2. CASE h \in files
    <3>1. sock'[h] = <<>>
      BY <1>0, <1>6, <2>2, FilesLost
    <3> QED
      BY <3>1
  <2>3. CASE h \notin files /\ Silent
    <3>1. sock'[h] \in {sock[h], <<>>} \/ (sock[h] # <<>> /\ sock'[h] = Tail(sock[h]))
      BY <1>0, <2>3, SockShrinks DEF Silent
    <3>2. Len(sock[h]) <= 1
      BY <2>3 DEF JoinsRead
    <3>3. sock[h] # <<>> => Len(Tail(sock[h])) <= 1
      <4> SUFFICES ASSUME sock[h] # <<>> PROVE Len(Tail(sock[h])) <= 1
        OBVIOUS
      <4>1. Len(sock[h]) \in Nat /\ Len(Tail(sock[h])) = Len(sock[h]) - 1
        BY <2>1, HeadTailFacts
      <4> QED
        BY <3>2, <4>1
    <3>4. CASE sock'[h] = <<>>
      BY <3>4
    <3> QED
      BY <3>1, <3>2, <3>3, <3>4
  <2>4. ASSUME NEW g \in Handlers, NEW q, ClientSend(g, q), h \notin files,
               g = h => sock[h] = <<>>
        PROVE  Len(sock'[h]) <= 1
    <3>1. sock' = [sock EXCEPT ![g] = Append(@, q)] /\ q \in Message
      BY <1>0, <2>4, SendFlow DEF ClientSend
    <3>2. CASE g = h
      <4>1. sock'[h] = Append(<<>>, q)
        BY <1>0, <2>4, <3>1, <3>2 DEF TypeOK
      <4> QED
        BY <4>1
    <3>3. CASE g # h
      <4>1. sock'[h] = sock[h]
        BY <1>0, <3>1, <3>3 DEF TypeOK
      <4> QED
        BY <2>4, <4>1 DEF JoinsRead
    <3> QED
      BY <3>2, <3>3
  <2>5. ASSUME NEW g \in Handlers, NEW n \in Names, CJoin(g, n), h \notin files
        PROVE  Len(sock'[h]) <= 1
    <3>1. sock[g] = <<>>
      BY <2>5 DEF CJoin, ChatInv, Phase, Course, Unjoined
    <3> QED
      BY <2>4, <2>5, <3>1 DEF CJoin
  <2>6. ASSUME NEW g \in Handlers, CSay(g) \/ CIdle(g), h \notin files
        PROVE  Len(sock'[h]) <= 1
    <3>1. g # h
      <4> SUFFICES ASSUME g = h PROVE FALSE
        OBVIOUS
      <4>1. cpc[h] = "chat" /\ Live(h) /\ Phase(h)
        BY <2>6 DEF CSay, CIdle, ClientSend, ChatInv
      <4>2. hpc[h] \in {"openMain", "openHandler"} => h \in files
        BY <1>0 DEF IInv, Handshake, PipeConsistent
      <4> QED
        BY <2>6, <4>1, <4>2 DEF Live, Phase, Course, Unread
    <3> QED
      BY <2>4, <2>6, <3>1 DEF CSay, CIdle
  <2> QED
    BY <1>0, <2>2, <2>3, <2>5, <2>6, ChatSteps
<1> QED
  BY <1>1, <1>2, <1>3, <1>4, <1>5, <1>6 DEF JoinsRead

-----------------------------------------------------------------------------
(* What is on the way from g to another user.                              *)
LEMMA OnwardElems ==
  ASSUME StreamInv, JoinsRead, NEW m \in Chatters, NEW n \in Chatters
  PROVE  LET s == Onward(n, wr_fifos[m]) IN
         /\ s \in Seq(Message)
         /\ \A i \in DOMAIN s : \/ s[i] \in Afoot /\ s[i].type # "JOIN"
                                \/ s[i].type \in {"ACK", "ONLINE"}
<1>0. IInv /\ TypeOK
  BY DEF StreamInv, IInv
<1>1. PICK g \in Handlers, h \in Handlers : g = wr_fifos[m] /\ h = wr_fifos[n] /\ g \in files
  BY <1>0, ChatterFacts
<1> DEFINE Fine(q) == (q \in Afoot /\ q.type # "JOIN") \/ q.type \in {"ACK", "ONLINE"}
<1>2. /\ inbox[h] \in Seq(Message) /\ mfifo[h] \in Seq(Message) /\ Pending(n) \in Seq(Message)
      /\ hfifo[g] \in Seq(Message) /\ sock[g] \in Seq(Message)
  BY <1>0, <1>1, ToReadTyped DEF TypeOK
<1>3. \A q \in Elems(inbox[h]) \cup Elems(mfifo[h]) \cup Elems(hfifo[g]) \cup Elems(sock[g]) : Fine(q)
  <2>1. ASSUME NEW q, q \in InInbox(h) \cup InMfifo(h) \cup InHfifo(g) \cup InSock(g)
        PROVE  q \in Afoot /\ q.type # "JOIN"
    <3>1. q \in Queued(h) \cup Queued(g)
      BY <2>1 DEF Queued
    <3>2. q \in Afoot
      BY <1>0, <3>1, AfootIs
    <3> QED
      BY <1>1, <2>1, <3>2 DEF JoinsRead
  <2> QED
    BY <2>1 DEF InInbox, InMfifo, InHfifo, InSock
<1>4. \A q \in Elems(Pending(n)) : Fine(q)
  <2>1. \/ Pending(n) = <<>>
        \/ mpc = "write" /\ Pending(n) = <<mout.msg>>
        \/ mout.msg.type = "ACK" /\ Pending(n) = <<mout.msg>>
        \/ Pending(n) = <<ONLINE(mcur.name)>>
    BY PendingIs
  <2>2. \A q : Elems(<<q>>) = {q}
    BY DEF Elems
  <2>3. mpc = "write" => Fine(mout.msg)
    BY <1>0, AfootIs DEF JoinsRead
  <2>4. ONLINE(mcur.name).type = "ONLINE"
    BY DEF ONLINE
  <2> QED
    BY <2>1, <2>2, <2>3, <2>4, ElemsFacts
<1> HIDE DEF Fine
<1>5. ASSUME NEW s \in Seq(Message), NEW t \in Seq(Message),
             \A q \in Elems(s) : Fine(q), \A q \in Elems(t) : Fine(q)
      PROVE  /\ s \o t \in Seq(Message) /\ \A i \in DOMAIN (s \o t) : Fine((s \o t)[i])
             /\ \A q \in Elems(s \o t) : Fine(q)
  <2> DEFINE r == s \o t
  <2>1. r \in Seq(Message) /\ \A i \in DOMAIN r : Fine(r[i])
    BY <1>5, ConcatElems
  <2> HIDE DEF r
  <2>2. DOMAIN r = 1 .. Len(r)
    BY <2>1
  <2>3. \A q \in Elems(r) : Fine(q)
    BY <2>1, <2>2 DEF Elems
  <2> QED
    BY <2>1, <2>3 DEF r
<1>6. inbox[h] \o mfifo[h] \in Seq(Message) /\ \A q \in Elems(inbox[h] \o mfifo[h]) : Fine(q)
  BY <1>2, <1>3, <1>5
<1>7. ToRead(n) \in Seq(Message) /\ \A q \in Elems(ToRead(n)) : Fine(q)
  BY <1>1, <1>2, <1>4, <1>5, <1>6 DEF ToRead
<1>8. ToRead(n) \o hfifo[g] \in Seq(Message) /\ \A q \in Elems(ToRead(n) \o hfifo[g]) : Fine(q)
  BY <1>2, <1>3, <1>5, <1>7
<1>9. /\ Onward(n, g) \in Seq(Message)
      /\ \A i \in DOMAIN Onward(n, g) : Fine(Onward(n, g)[i])
  BY <1>2, <1>3, <1>5, <1>8 DEF Onward
<1> QED
  BY <1>1, <1>9 DEF Fine

LEMMA ChatImplementsServer == ChatSpec => Spec
<1>1. ChatInit => Init
  BY DEF ChatInit
<1> QED
  BY <1>1, ChatIsServer, PTL DEF ChatSpec, Spec

LEMMA InitIdle == ChatInit => IdleInv /\ JoinsRead
<1> SUFFICES ASSUME ChatInit PROVE IdleInv /\ JoinsRead
  OBVIOUS
<1>1. mpc = "select" /\ files = {}
  BY DEF ChatInit, Init
<1>2. \A h \in Handlers : /\ InSock(h) = {} /\ InHfifo(h) = {} /\ InInbox(h) = {} /\ InMfifo(h) = {}
  BY ElemsFacts DEF ChatInit, Init, InSock, InHfifo, InInbox, InMfifo
<1>3. IdleIds = {}
  BY <1>1, <1>2 DEF IdleIds, Afoot, Queued
<1>4. \A h \in Handlers : Len(sock[h]) <= 1
  BY DEF ChatInit, Init
<1> QED
  BY <1>1, <1>2, <1>3, <1>4 DEF IdleInv, JoinsRead

LEMMA IdleInvariance == ChatSpec => [](ChatInv /\ StreamInv /\ IdleInv /\ JoinsRead)
<1>1. ChatInv /\ StreamInv /\ IdleInv /\ JoinsRead /\ ChatInv' /\ [ChatNext]_chatVars
        => IdleInv' /\ JoinsRead'
  BY IdleStep, JoinsReadStep
<1>2. ChatSpec => []StreamInv
  BY ChatImplementsServer, StreamsInvariant, PTL
<1> QED
  BY <1>1, <1>2, ChatInvariance, InitIdle, PTL DEF ChatSpec

(* Between two IDLEs of a user every reader hears from that user: the       *)
(* client's variable idle, reset when it sends, spaces them when they are   *)
(* written, and no buffer, process or broadcast on the way loses what       *)
(* separates them.                                                         *)
THEOREM IdlesAreToldOnce == ChatSpec => []IdleToldOnce
<1>1. StreamInv /\ NothingLost /\ IdleInv /\ JoinsRead => IdleToldOnce
  <2> SUFFICES ASSUME StreamInv, NothingLost, IdleInv, JoinsRead,
                      NEW m \in Chatters, NEW n \in Chatters \ {m},
                      NEW i \in DOMAIN Onward(n, wr_fifos[m]), NEW j \in DOMAIN Onward(n, wr_fifos[m]),
                      Onward(n, wr_fifos[m])[i].id[1] = wr_fifos[m],
                      Onward(n, wr_fifos[m])[i].type = "IDLE",
                      Onward(n, wr_fifos[m])[j].id[1] = wr_fifos[m],
                      Onward(n, wr_fifos[m])[j].type = "IDLE", i < j
               PROVE  \E l \in i + 1 .. j - 1 :
                        /\ Onward(n, wr_fifos[m])[l].id[1] = wr_fifos[m]
                        /\ Onward(n, wr_fifos[m])[l].type \notin {"IDLE", "JOIN"}
    BY DEF IdleToldOnce
  <2> DEFINE g == wr_fifos[m]
  <2> DEFINE s == Onward(n, wr_fifos[m])
  <2>1. /\ s \in Seq(Message)
        /\ \A l \in DOMAIN s : \/ s[l] \in Afoot /\ s[l].type # "JOIN"
                               \/ s[l].type \in {"ACK", "ONLINE"}
    BY OnwardElems
  <2>2. Trail(s, g, sent[g])
    BY DEF NothingLost
  <2> HIDE DEF s, g
  <2>3. /\ i \in DOMAIN s /\ j \in DOMAIN s /\ i < j
        /\ s[i].id[1] = g /\ s[i].type = "IDLE" /\ s[j].id[1] = g /\ s[j].type = "IDLE"
    BY DEF s, g
  <2>4. DOMAIN s = 1 .. Len(s) /\ Len(s) \in Nat
    BY <2>1
  <2>5. PICK k \in i + 1 .. Len(s) :
          s[k].id = <<g, s[i].id[2] + 1>> /\ \A l \in i + 1 .. k - 1 : s[l].id[1] # g
    <3>1. \/ \A l \in i + 1 .. Len(s) : s[l].id[1] # g
          \/ \E k \in i + 1 .. Len(s) :
                s[k].id = <<g, s[i].id[2] + 1>> /\ \A l \in i + 1 .. k - 1 : s[l].id[1] # g
      BY <2>2, <2>3 DEF Trail
    <3>2. j \in i + 1 .. Len(s)
      BY <2>3, <2>4
    <3> QED
      BY <2>3, <3>1, <3>2
  <2>6. k <= j
    <3>1. i \in Int /\ j \in Int /\ k \in Int
      BY <2>3, <2>4
    <3>2. j \notin i + 1 .. k - 1
      BY <2>3, <2>5
    <3> QED
      BY <2>3, <3>1, <3>2
  <2>7. s[i].id \in IdleIds
    BY <2>1, <2>3, IdleIdIs
  <2>8. <<g, s[i].id[2] + 1>> \notin IdleIds
    BY <2>3, <2>7 DEF IdleInv
  <2>9. k \in DOMAIN s /\ s[k].type \notin {"IDLE", "JOIN"}
    <3>1. k \in DOMAIN s
      BY <2>3, <2>4
    <3>2. s[k].type # "IDLE"
      BY <2>1, <2>5, <2>8, <3>1, IdleIdIs
    <3> QED
      BY <2>1, <3>1, <3>2
  <2>10. k \in i + 1 .. j - 1 /\ s[k].id[1] = g
    BY <2>3, <2>4, <2>5, <2>6, <2>9
  <2> QED
    BY <2>9, <2>10 DEF s, g
<1>2. ChatSpec => []NothingLost
  BY ChatImplementsServer, NoMessageIsLost, PTL
<1> QED
  BY <1>1, <1>2, IdleInvariance, PTL

-----------------------------------------------------------------------------
(* Who can kill main.                                                      *)

\* A handler that ended though its client is still there, and did not abort,
\* ended because main had let go of it.
LeftAlone ==
  \A h \in Handlers :
    hpc[h] \in {"exited", "killed"} /\ peer[h] = "open" /\ mpc # "dead" => mainEnd[h] = "closed"

LeaversInv == LeftAlone /\ OnlyLeaversKillMain

LEMMA GoneStays ==
  ASSUME TypeOK, [Next]_vars, NEW h \in Handlers, hpc[h] \in Gone
  PROVE  hpc'[h] = hpc[h]
<1> USE DEF clientVars, handlerVars, mainVars, regVars, Gone, TypeOK
<1>1. CASE Main \/ UNCHANGED vars
  BY <1>1 DEF vars, Main, MainReadBootstrap, MainOpenMain, MainRefuse, MainRegister, MainAckTooLong,
         MainOpensHandlerFifo, MainReply, MainSigpipe, MainWrite, MainForward, MainGoodbye
<1>2. ASSUME NEW g \in Handlers, Handler(g) PROVE hpc'[h] = hpc[h]
  BY <1>2, SMTT(30) DEF Handler, HandlerJoin, HandlerRejoin, HandlerOpenMain, HandlerOpenHandler,
              HandlerForward, HandlerSigpipe, HandlerDiscard, HandlerEOF, HandlerReset,
              HandlerShortRead, HandlerRelay, HandlerMainEOF, HandlerEnds
<1>3. ASSUME NEW g \in Handlers, Client(g) PROVE hpc'[h] = hpc[h]
  BY <1>3 DEF Client, Accept, Drop, ClientSend, ClientRead, ClientClose
<1> QED
  BY <1>1, <1>2, <1>3 DEF Next

LEMMA MainDies ==
  ASSUME [Next]_vars, mpc # "dead", mpc' = "dead"
  PROVE  MainSigpipe \/ MainAckTooLong
<1> USE DEF clientVars, handlerVars, mainVars, regVars
<1>1. CASE UNCHANGED vars
  BY <1>1 DEF vars
<1>2. ASSUME NEW h \in Handlers, Handler(h) PROVE mpc' = mpc
  BY <1>2 DEF Handler, HandlerJoin, HandlerRejoin, HandlerOpenMain, HandlerOpenHandler,
            HandlerForward, HandlerSigpipe, HandlerDiscard, HandlerEOF, HandlerReset,
            HandlerShortRead, HandlerRelay, HandlerMainEOF, HandlerEnds
<1>3. ASSUME NEW h \in Handlers, Client(h) PROVE mpc' = mpc
  BY <1>3 DEF Client, Accept, Drop, ClientSend, ClientRead, ClientClose
<1>4. MainReadBootstrap \/ MainOpenMain \/ MainRefuse \/ MainRegister \/ MainReply => mpc' # "dead"
  BY DEF MainReadBootstrap, MainOpenMain, MainRefuse, MainRegister, MainReply, Broadcast
<1>5. ASSUME NEW n \in Names, MainWrite(n) \/ MainForward(n) \/ MainGoodbye(n) PROVE mpc' # "dead"
  BY <1>5 DEF MainWrite, MainForward, MainGoodbye, Broadcast
<1> QED
  BY <1>1, <1>2, <1>3, <1>4, <1>5 DEF Next, Main

\* A client that is gone stays gone, and is not there when its handler starts.
LEMMA PeerStays ==
  ASSUME TypeOK, [Next]_vars, NEW h \in Handlers, hpc[h] # "none"
  PROVE  peer'[h] = "open" => peer[h] = "open"
<1> USE DEF clientVars, handlerVars, mainVars, regVars, TypeOK
<1>1. CASE Main \/ UNCHANGED vars
  BY <1>1 DEF vars, Main, MainReadBootstrap, MainOpenMain, MainRefuse, MainRegister, MainAckTooLong,
         MainOpensHandlerFifo, MainReply, MainSigpipe, MainWrite, MainForward, MainGoodbye
<1>2. ASSUME NEW g \in Handlers, Handler(g) PROVE UNCHANGED peer
  BY <1>2, SMTT(30) DEF Handler, HandlerJoin, HandlerRejoin, HandlerOpenMain, HandlerOpenHandler,
              HandlerForward, HandlerSigpipe, HandlerDiscard, HandlerEOF, HandlerReset,
              HandlerShortRead, HandlerRelay, HandlerMainEOF, HandlerEnds
<1>3. ASSUME NEW g \in Handlers, Client(g) PROVE peer'[h] = "open" => peer[h] = "open"
  BY <1>3 DEF Client, Accept, Drop, ClientSend, ClientRead, ClientClose
<1> QED
  BY <1>1, <1>2, <1>3 DEF Next

(* How a handler ends.                                                     *)
LEMMA EndsWell ==
  ASSUME IInv, JoinsRead, [Next]_vars, NEW h \in Handlers, hpc[h] \notin Gone,
         hpc'[h] \in {"exited", "killed"}
  PROVE  hpc[h] = "select" /\ (MainClosed(h) \/ peer[h] # "open")
<1> USE DEF clientVars, handlerVars, mainVars, regVars
<1>0. TypeOK
  BY DEF IInv
<1>1. CASE Main \/ UNCHANGED vars
  <2>1. UNCHANGED hpc
    BY <1>1 DEF vars, Main, MainReadBootstrap, MainOpenMain, MainRefuse, MainRegister,
           MainAckTooLong, MainOpensHandlerFifo, MainReply, MainSigpipe, MainWrite, MainForward,
           MainGoodbye
  <2> QED
    BY <2>1 DEF Gone
<1>2. ASSUME NEW g \in Handlers, Client(g) PROVE FALSE
  <2>1. UNCHANGED hpc \/ \E how \in {"select", "dropped"} : hpc' = [hpc EXCEPT ![g] = how]
    BY <1>2 DEF Client, Accept, Drop, ClientSend, ClientRead, ClientClose
  <2> QED
    BY <1>0, <2>1 DEF Gone, TypeOK
<1>3. ~HandlerRejoin(h)
  <2> SUFFICES ASSUME HandlerRejoin(h) PROVE FALSE
    OBVIOUS
  <2>1. sock[h] \in Seq(Message) /\ sock[h] # <<>> /\ h \in files /\ Head(sock[h]).type = "JOIN"
    BY <1>0 DEF HandlerRejoin, TypeOK
  <2>2. Head(sock[h]) \in InSock(h)
    BY <2>1, ElemsFacts, HeadTailFacts DEF InSock
  <2> QED
    BY <2>1, <2>2 DEF JoinsRead
<1>4. ASSUME NEW g \in Handlers, Handler(g)
      PROVE  hpc[h] = "select" /\ (MainClosed(h) \/ peer[h] # "open")
  <2>1. CASE HandlerSigpipe(g) \/ HandlerEOF(g) \/ HandlerMainEOF(g)
    <3>1. \E how \in {"exited", "killed"} : hpc' = [hpc EXCEPT ![g] = how]
      BY <2>1 DEF HandlerSigpipe, HandlerEOF, HandlerMainEOF, HandlerEnds
    <3>2. g = h
      BY <1>0, <3>1 DEF TypeOK, Gone
    <3> QED
      BY <2>1, <3>2 DEF HandlerSigpipe, HandlerEOF, HandlerMainEOF
  <2>2. CASE HandlerReset(g) \/ HandlerShortRead(g)
    <3>1. hpc' = [hpc EXCEPT ![g] = "aborted"]
      BY <2>2 DEF HandlerReset, HandlerShortRead, HandlerEnds
    <3> QED
      BY <1>0, <3>1 DEF TypeOK, Gone
  <2>3. CASE HandlerRejoin(g)
    <3>1. hpc' = [hpc EXCEPT ![g] = "exited"] /\ g # h
      BY <1>3, <2>3 DEF HandlerRejoin, HandlerEnds
    <3> QED
      BY <1>0, <3>1 DEF TypeOK, Gone
  <2>4. CASE HandlerJoin(g) \/ HandlerOpenMain(g) \/ HandlerOpenHandler(g)
             \/ HandlerForward(g) \/ HandlerDiscard(g) \/ HandlerRelay(g)
    <3>1. UNCHANGED hpc \/ \E how \in {"openMain", "openHandler", "select"} : hpc' = [hpc EXCEPT ![g] = how]
      BY <2>4 DEF HandlerJoin, HandlerOpenMain, HandlerOpenHandler, HandlerForward, HandlerDiscard,
                  HandlerRelay
    <3> QED
      BY <1>0, <3>1 DEF TypeOK, Gone
  <2> QED
    BY <1>4, <2>1, <2>2, <2>3, <2>4 DEF Handler
<1> QED
  BY <1>1, <1>2, <1>4 DEF Next

\* main never opens again what it has closed.
LEMMA ClosedStays ==
  ASSUME IInv, [Next]_vars, NEW h \in Handlers, mainEnd[h] = "closed"
  PROVE  mainEnd'[h] = "closed"
<1> USE DEF clientVars, handlerVars, mainVars, regVars
<1>0. mainEnd \in [Handlers -> {"never", "half", "open", "closed"}] /\ MainConsistent
  BY DEF IInv, TypeOK, Handshake
<1>1. CASE MainOpenMain \/ MainRefuse \/ MainRegister \/ MainAckTooLong
  <2>1. mcur.h # h
    BY <1>0, <1>1 DEF MainOpenMain, MainRefuse, MainRegister, MainAckTooLong, MainOpensHandlerFifo,
           MainConsistent
  <2>2. \E e \in {"half", "open"} : mainEnd' = [mainEnd EXCEPT ![mcur.h] = e]
    BY <1>1 DEF MainOpenMain, MainRefuse, MainRegister, MainAckTooLong, MainOpensHandlerFifo
  <2> QED
    BY <1>0, <2>1, <2>2
<1>2. CASE MainReply
  <2>1. UNCHANGED mainEnd \/ \E g : mainEnd' = [mainEnd EXCEPT ![g] = "closed"]
    BY <1>2 DEF MainReply
  <2> QED
    BY <1>0, <2>1
<1>3. ASSUME NEW n \in Names, MainGoodbye(n) PROVE mainEnd'[h] = "closed"
  <2>1. \E g : mainEnd' = [mainEnd EXCEPT ![g] = "closed"]
    BY <1>3 DEF MainGoodbye
  <2> QED
    BY <1>0, <2>1
<1> QED
  BY <1>1, <1>2, <1>3, RegistryWriters

LEMMA DeadStays ==
  ASSUME [Next]_vars, mpc = "dead"
  PROVE  mpc' = "dead" /\ UNCHANGED <<online_users, mainEnd>>
<1> USE DEF clientVars, handlerVars, mainVars, regVars
<1>1. ~Main
  BY DEF Main, MainReadBootstrap, MainOpenMain, MainRefuse, MainRegister, MainAckTooLong,
         MainOpensHandlerFifo, MainReply, MainSigpipe, MainWrite, MainForward, MainGoodbye,
         MainSelects
<1>2. ASSUME NEW h \in Handlers, Handler(h) PROVE UNCHANGED <<mpc, online_users, mainEnd>>
  BY <1>2 DEF Handler, HandlerJoin, HandlerRejoin, HandlerOpenMain, HandlerOpenHandler,
              HandlerForward, HandlerSigpipe, HandlerDiscard, HandlerEOF, HandlerReset,
              HandlerShortRead, HandlerRelay, HandlerMainEOF, HandlerEnds
<1>3. ASSUME NEW h \in Handlers, Client(h) PROVE UNCHANGED <<mpc, online_users, mainEnd>>
  BY <1>3 DEF Client, Accept, Drop, ClientSend, ClientRead, ClientClose
<1>4. CASE UNCHANGED vars
  BY <1>4 DEF vars
<1> QED
  BY <1>1, <1>2, <1>3, <1>4 DEF Next

LEMMA LeaversStep ==
  ASSUME IInv, JoinsRead, LeaversInv, [Next]_vars
  PROVE  LeaversInv'
<1> USE DEF clientVars, handlerVars, mainVars, regVars
<1>0. TypeOK /\ MainConsistent /\ RegistryConsistent
  BY DEF IInv, Handshake
<1>1. ASSUME NEW h \in Handlers, hpc'[h] \in {"exited", "killed"}, peer'[h] = "open", mpc' # "dead"
      PROVE  mainEnd'[h] = "closed"
  <2>0. mpc # "dead"
    BY <1>1, DeadStays
  <2>1. CASE hpc[h] \in Gone
    <3>1. hpc[h] = hpc'[h] /\ peer[h] = "open"
      BY <1>0, <1>1, <2>1, GoneStays, PeerStays DEF Gone
    <3>2. mainEnd[h] = "closed"
      BY <1>1, <2>0, <3>1 DEF LeaversInv, LeftAlone
    <3> QED
      BY <3>2, ClosedStays
  <2>2. CASE hpc[h] \notin Gone
    <3>1. hpc[h] # "none" /\ (MainClosed(h) \/ peer[h] # "open")
      BY <1>1, <2>2, EndsWell
    <3>2. peer[h] = "open"
      BY <1>0, <1>1, <3>1, PeerStays
    <3>3. mainEnd[h] = "closed"
      BY <2>0, <3>1, <3>2 DEF MainClosed
    <3> QED
      BY <3>3, ClosedStays
  <2> QED
    BY <2>1, <2>2
<1>2. LeftAlone'
  BY <1>1 DEF LeftAlone
<1> SUFFICES OnlyLeaversKillMain'
  BY <1>2 DEF LeaversInv
<1>3. CASE mpc = "dead"
  <2>1. mpc' = "dead" /\ UNCHANGED <<online_users, mainEnd>>
    BY <1>3, DeadStays
  <2>2. CASE Len(online_users) - 1 > AckSure
    BY <2>1, <2>2 DEF OnlyLeaversKillMain
  <2>3. ASSUME NEW h \in Handlers, hpc[h] \in Gone, mainEnd[h] = "open",
               peer[h] # "open" \/ hpc[h] = "aborted"
        PROVE  OnlyLeaversKillMain'
    <3>1. hpc'[h] = hpc[h] /\ (peer'[h] = "open" => peer[h] = "open")
      BY <1>0, <2>3, GoneStays, PeerStays DEF Gone
    <3> QED
      BY <2>1, <2>3, <3>1 DEF OnlyLeaversKillMain
  <2> QED
    BY <1>3, <2>2, <2>3 DEF LeaversInv, OnlyLeaversKillMain
<1>4. CASE mpc # "dead" /\ mpc' = "dead" /\ MainAckTooLong
  <2>1. Len(online_users) > AckSure /\ online_users' = Append(online_users, mcur.name)
    BY <1>4 DEF MainAckTooLong, Register
  <2>2. Len(online_users') - 1 > AckSure
    BY <1>0, <2>1 DEF TypeOK
  <2> QED
    BY <2>2 DEF OnlyLeaversKillMain
<1>5. CASE mpc # "dead" /\ mpc' = "dead" /\ MainSigpipe
  <2>1. PICK h \in Handlers : hpc[h] \in Gone /\ mainEnd[h] = "open"
    <3>1. CASE mpc = "reply" /\ hpc[mcur.h] \in Gone
      BY <1>0, <3>1 DEF MainConsistent
    <3>2. ASSUME mpc = "write", NEW n \in mout.to, hpc[wr_fifos[n]] \in Gone
          PROVE  \E h \in Handlers : hpc[h] \in Gone /\ mainEnd[h] = "open"
      <4>1. n \in Registered
        BY <1>0, <3>2 DEF MainConsistent
      <4>2. wr_fifos[n] \in Handlers /\ mainEnd[wr_fifos[n]] = "open"
        BY <1>0, <4>1 DEF RegistryConsistent, Registered, TypeOK
      <4> QED
        BY <3>2, <4>2
    <3> QED
      BY <1>5, <3>1, <3>2 DEF MainSigpipe
  <2>2. peer[h] # "open" \/ hpc[h] = "aborted"
    BY <1>5, <2>1 DEF LeaversInv, LeftAlone, Gone
  <2>3. UNCHANGED <<hpc, peer, mainEnd>>
    BY <1>5 DEF MainSigpipe
  <2> QED
    BY <2>1, <2>2, <2>3 DEF OnlyLeaversKillMain
<1>6. CASE mpc' # "dead"
  BY <1>6 DEF OnlyLeaversKillMain
<1> QED
  BY <1>3, <1>4, <1>5, <1>6, MainDies

(* main is killed, by SIGPIPE, only through the fifos of a client that left  *)
(* or was killed, or whose message came in pieces, and aborts only on a list *)
(* of users that does not fit in an ACK: no behaviour of a client that stays *)
(* connected ends the chat of the others.                                   *)
THEOREM LeaversAloneKillMain == ChatSpec => []OnlyLeaversKillMain
<1>1. ChatInit => LeaversInv
  BY DEF ChatInit, Init, LeaversInv, LeftAlone, OnlyLeaversKillMain
<1>2. ChatInv /\ JoinsRead /\ LeaversInv /\ [ChatNext]_chatVars => LeaversInv'
  BY ChatIsServer, LeaversStep DEF ChatInv
<1> QED
  BY <1>1, <1>2, IdleInvariance, PTL DEF ChatSpec, LeaversInv
=============================================================================
