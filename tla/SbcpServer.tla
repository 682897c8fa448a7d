----------------------------- MODULE SbcpServer -----------------------------
(***************************************************************************)
(* The SBCP chat server, MP2/src/sbcp_server.cpp: one main process, one    *)
(* handler process per TCP connection (forked by libtcp), and the kernel   *)
(* objects between them.                                                   *)
(*                                                                         *)
(*   client --sock--> handler --hfifo--> main      (SEND, IDLE)            *)
(*   client <-inbox-- handler <--mfifo-- main      (ACK, NAK, FWD, ...)    *)
(*                    handler ---boot--> main      (JOIN: pid and name)    *)
(*                                                                         *)
(* main registers the users; a handler only relays.  Every step below is   *)
(* one pass of a select loop or one blocking system call of one process.   *)
(* Clients are arbitrary programs that send what the clients of the        *)
(* repository send: JOIN, SEND and IDLE without a username, in any order.  *)
(* A message of another type is read by the handler and dropped (default   *)
(* of its switch), which changes nothing: it is left out.  An IDLE that    *)
(* brings a username, which add_username extends, is in SbcpMessage.       *)
(***************************************************************************)
EXTENDS Integers, Sequences, FiniteSets

CONSTANTS
  Handlers,          \* connections; the pid of the handler forked for each
  NoFd,              \* no connection (a username that is not a key of a map)
  Names,             \* usernames, ordered like the keys of a std::map
  Limits,            \* the values of argv[3] that max_clients is started with
  num_extra_clients, \* 2 in the code
  FifoCap,           \* messages that fit in a fifo before write() blocks
  AckSure,           \* usernames that fit in an ACK however long they are
  AckCap,            \* usernames that fit in an ACK at most
  ShortReads,        \* may TCP deliver a message in pieces?
  MaxSends           \* bound: messages that the clients send, all together

ASSUME HandlersAssumption == NoFd \notin Handlers
ASSUME NamesAssumption == Names \subseteq Nat \ {0}
ASSUME LimitsAssumption ==
  /\ Limits \subseteq Nat
  /\ num_extra_clients \in Nat
  /\ FifoCap \in Nat \ {0}
  /\ AckSure \in Nat
  /\ AckCap \in Nat
  /\ AckSure <= AckCap
  /\ ShortReads \in BOOLEAN
  /\ MaxSends \in Nat

NoName == 0

VARIABLES
  max_clients,  \* argv[3]; set once, before anything runs
  peer,         \* the client's end of the connection
  sock,         \* messages the client wrote, unread by its handler
  inbox,        \* messages the handler wrote, unread by the client
  sent,         \* number of messages the client wrote
  told,         \* the answer to JOIN that the client has read
  view,         \* users online according to what the client has read
  hpc,          \* where the handler is
  user,         \* username in the handler's bootstrap message
  files,        \* handlers whose two fifo files exist (fifos_created)
  mfifo,        \* <pid>_main: main to handler
  hfifo,        \* <pid>_handler: handler to main
  mainEnd,      \* how far main has opened the two fifos of a handler
  boot,         \* the bootstrap pipe
  mpc,          \* where main is
  mcur,         \* the bootstrap message main is working on
  mout,         \* the message main is writing and the names still to get it
  rd_fifos, wr_fifos, online_users

clientVars == <<peer, sock, inbox, sent, told, view>>
handlerVars == <<hpc, user, files>>
regVars == <<rd_fifos, wr_fifos, online_users>>
mainVars == <<max_clients, mpc, mcur, mout, mainEnd, regVars>>
vars == <<clientVars, handlerVars, mfifo, hfifo, boot, mainVars>>

-----------------------------------------------------------------------------
(* Messages.  A message a client writes carries its connection and its     *)
(* number there, so that what other clients receive can be traced to it.   *)

Ids == (Handlers \cup {NoFd}) \X Nat
NoId == <<NoFd, 0>>
Types == {"JOIN", "SEND", "IDLE", "ACK", "NAK", "FWD", "ONLINE", "OFFLINE"}
Message ==
  {m \in [type : Types, user : Names \cup {NoName}, users : SUBSET Names, id : Ids] :
     m.type \in {"JOIN", "ONLINE", "OFFLINE", "FWD"} => m.user \in Names}

JOIN(n, id) == [type |-> "JOIN", user |-> n, users |-> {}, id |-> id]
SEND(id) == [type |-> "SEND", user |-> NoName, users |-> {}, id |-> id]
IDLE(id) == [type |-> "IDLE", user |-> NoName, users |-> {}, id |-> id]
ACK(us) == [type |-> "ACK", user |-> NoName, users |-> us, id |-> NoId]
NAK == [type |-> "NAK", user |-> NoName, users |-> {}, id |-> NoId]
ONLINE(n) == [type |-> "ONLINE", user |-> n, users |-> {}, id |-> NoId]
OFFLINE(n) == [type |-> "OFFLINE", user |-> n, users |-> {}, id |-> NoId]

\* Message::change_to_fwd and, for IDLE, Message::add_username.
change_to_fwd(m, n) == [m EXCEPT !.type = "FWD", !.user = n]
\* Mutant of add_username: the name is not added.
NoUsername(m, n) == m

add_username(m, n) == [m EXCEPT !.user = n]

-----------------------------------------------------------------------------
(* Conditions that several steps test.                                     *)

Gone == {"exited", "aborted", "killed"}
Live(h) == hpc[h] \in {"select", "openMain", "openHandler"}

NoJoin == [h |-> NoFd, name |-> NoName]
NoOut == [msg |-> NAK, to |-> {}]

Registered == {n \in Names : wr_fifos[n] # NoFd}

\* FD_ISSET of the client's socket: a message, end of file or an error.
ClientReady(h) == sock[h] # <<>> \/ peer[h] # "open"

\* main holds no descriptor of the fifos any more: closed, or main is dead.
MainClosed(h) == mainEnd[h] = "closed" \/ (mpc = "dead" /\ mainEnd[h] # "never")

\* Mutant of FifoReady: the end of a fifo is not noticed.
FifoHasData(n) == rd_fifos[n] # NoFd /\ hfifo[rd_fifos[n]] # <<>>

\* FD_ISSET of a registered fifo: a message, or its only writer is gone.
FifoReady(n) == /\ rd_fifos[n] # NoFd
                /\ hfifo[rd_fifos[n]] # <<>> \/ hpc[rd_fifos[n]] \in Gone

RemoveIndex(s, i) == [k \in 1 .. Len(s) - 1 |-> s[IF k < i THEN k ELSE k + 1]]

-----------------------------------------------------------------------------
Init ==
  /\ max_clients \in Limits
  /\ peer = [h \in Handlers |-> "absent"]
  /\ sock = [h \in Handlers |-> <<>>]
  /\ inbox = [h \in Handlers |-> <<>>]
  /\ sent = [h \in Handlers |-> 0]
  /\ told = [h \in Handlers |-> "none"]
  /\ view = [h \in Handlers |-> {}]
  /\ hpc = [h \in Handlers |-> "none"]
  /\ user = [h \in Handlers |-> NoName]
  /\ files = {}
  /\ mfifo = [h \in Handlers |-> <<>>]
  /\ hfifo = [h \in Handlers |-> <<>>]
  /\ mainEnd = [h \in Handlers |-> "never"]
  /\ boot = <<>>
  /\ mpc = "select"
  /\ mcur = NoJoin
  /\ mout = NoOut
  /\ rd_fifos = [n \in Names |-> NoFd]
  /\ wr_fifos = [n \in Names |-> NoFd]
  /\ online_users = <<>>

-----------------------------------------------------------------------------
(* The client's side of a connection.                                      *)

\* libtcp forks a handler unless the children it has not reaped, the running
\* ones and perhaps some that have ended, are max_clients + num_extra_clients;
\* then it closes the connection.
Accept(h) ==
  /\ hpc[h] = "none"
  /\ Cardinality({g \in Handlers : Live(g)}) < max_clients + num_extra_clients
  /\ hpc' = [hpc EXCEPT ![h] = "select"]
  /\ peer' = [peer EXCEPT ![h] = "open"]
  /\ UNCHANGED <<sock, inbox, sent, told, view, user, files, mfifo, hfifo, boot, mainVars>>

Drop(h) ==
  /\ hpc[h] = "none"
  /\ Cardinality({g \in Handlers : hpc[g] \notin {"none", "dropped"}})
       >= max_clients + num_extra_clients
  /\ hpc' = [hpc EXCEPT ![h] = "dropped"]
  /\ UNCHANGED <<clientVars, user, files, mfifo, hfifo, boot, mainVars>>

\* The connections and numbers of all messages that were sent.
Sent == UNION {{g} \X (1 .. sent[g]) : g \in Handlers}

ClientMessages(h) ==
  LET id == <<h, sent[h] + 1>>
  IN  {JOIN(n, id) : n \in Names} \cup {SEND(id), IDLE(id)}

ClientSend(h, m) ==
  /\ peer[h] = "open"
  /\ Live(h)
  /\ Cardinality(Sent) < MaxSends
  /\ m \in ClientMessages(h)
  /\ sock' = [sock EXCEPT ![h] = Append(@, m)]
  /\ sent' = [sent EXCEPT ![h] = @ + 1]
  /\ UNCHANGED <<peer, inbox, told, view, handlerVars, mfifo, hfifo, boot, mainVars>>

\* What a message does to the list of users a client has been shown.
Shown(us, m) ==
  CASE m.type = "ACK" -> m.users
    [] m.type = "ONLINE" -> us \cup {m.user}
    [] m.type = "OFFLINE" -> us \ {m.user}
    [] OTHER -> us

ClientRead(h) ==
  /\ peer[h] = "open"
  /\ inbox[h] # <<>>
  /\ LET m == Head(inbox[h]) IN
       /\ view' = [view EXCEPT ![h] = Shown(@, m)]
       /\ told' = [told EXCEPT ![h] = IF m.type \in {"ACK", "NAK"} THEN m.type ELSE @]
  /\ inbox' = [inbox EXCEPT ![h] = Tail(@)]
  /\ UNCHANGED <<peer, sock, sent, handlerVars, mfifo, hfifo, boot, mainVars>>

\* close() with bytes still unread makes TCP send a reset, otherwise a FIN.
ClientClose(h) ==
  /\ peer[h] = "open"
  /\ Live(h)
  /\ peer' = [peer EXCEPT ![h] = IF inbox[h] = <<>> THEN "fin" ELSE "rst"]
  /\ UNCHANGED <<sock, inbox, sent, told, view, handlerVars, mfifo, hfifo, boot, mainVars>>

-----------------------------------------------------------------------------
(* The handler process, client_handler.                                    *)

\* The process ends: the kernel closes its socket and its fifo ends.
HandlerEnds(h, how, unlinked) ==
  /\ hpc' = [hpc EXCEPT ![h] = how]
  /\ files' = IF unlinked THEN files \ {h} ELSE files
  /\ sock' = [sock EXCEPT ![h] = <<>>]
  /\ mfifo' = [mfifo EXCEPT ![h] = <<>>]
  /\ UNCHANGED <<peer, inbox, sent, told, view, user, hfifo, boot, mainVars>>

\* Mutant of HandlerJoin: the type of the message is not looked at.
JoinWithAnyMessage(h) ==
  /\ hpc[h] = "select"
  /\ sock[h] # <<>>
  /\ h \notin files
  /\ LET n == Head(sock[h]).user IN
       /\ user' = [user EXCEPT ![h] = n]
       /\ boot' = Append(boot, [h |-> h, name |-> n])
  /\ files' = files \cup {h}
  /\ hpc' = [hpc EXCEPT ![h] = "openMain"]
  /\ sock' = [sock EXCEPT ![h] = Tail(@)]
  /\ UNCHANGED <<peer, inbox, sent, told, view, mfifo, hfifo, mainVars>>

\* Mutant of HandlerJoin: a second JOIN finds its fifos and goes on.
JoinAgain(h) ==
  /\ hpc[h] = "select"
  /\ sock[h] # <<>>
  /\ Head(sock[h]).type = "JOIN"
  /\ LET n == Head(sock[h]).user IN
       /\ user' = [user EXCEPT ![h] = n]
       /\ boot' = Append(boot, [h |-> h, name |-> n])
  /\ files' = files \cup {h}
  /\ hpc' = [hpc EXCEPT ![h] = "openMain"]
  /\ sock' = [sock EXCEPT ![h] = Tail(@)]
  /\ UNCHANGED <<peer, inbox, sent, told, view, mfifo, hfifo, mainVars>>

\* mkfifo twice, the bootstrap message to main, then open(main_fifo) blocks.
HandlerJoin(h) ==
  /\ hpc[h] = "select"
  /\ sock[h] # <<>>
  /\ Head(sock[h]).type = "JOIN"
  /\ h \notin files
  /\ LET n == Head(sock[h]).user IN
       /\ user' = [user EXCEPT ![h] = n]
       /\ boot' = Append(boot, [h |-> h, name |-> n])
  /\ files' = files \cup {h}
  /\ hpc' = [hpc EXCEPT ![h] = "openMain"]
  /\ sock' = [sock EXCEPT ![h] = Tail(@)]
  /\ UNCHANGED <<peer, inbox, sent, told, view, mfifo, hfifo, mainVars>>

\* A second JOIN: mkfifo fails and the handler returns past its cleanup.
HandlerRejoin(h) ==
  /\ hpc[h] = "select"
  /\ sock[h] # <<>>
  /\ Head(sock[h]).type = "JOIN"
  /\ h \in files
  /\ HandlerEnds(h, "exited", FALSE)

\* Mutant of HandlerOpenMain: the two fifos are opened in the other order.
OpensSwapped(h) ==
  /\ hpc[h] = "openMain"
  /\ mainEnd[h] \in {"open", "closed"}
  /\ hpc' = [hpc EXCEPT ![h] = "openHandler"]
  /\ UNCHANGED <<clientVars, user, files, mfifo, hfifo, boot, mainVars>>

\* open(main_fifo, O_RDONLY) returns once main opens it for writing.
HandlerOpenMain(h) ==
  /\ hpc[h] = "openMain"
  /\ mainEnd[h] # "never"
  /\ hpc' = [hpc EXCEPT ![h] = "openHandler"]
  /\ UNCHANGED <<clientVars, user, files, mfifo, hfifo, boot, mainVars>>

\* open(handler_fifo, O_WRONLY) returns once main opens it for reading.
HandlerOpenHandler(h) ==
  /\ hpc[h] = "openHandler"
  /\ mainEnd[h] \in {"open", "closed"}
  /\ hpc' = [hpc EXCEPT ![h] = "select"]
  /\ UNCHANGED <<clientVars, user, files, mfifo, hfifo, boot, mainVars>>

\* Mutant of HandlerForward: O_NONBLOCK, what does not fit is lost.
ForwardOrLose(h) ==
  /\ hpc[h] = "select"
  /\ sock[h] # <<>>
  /\ Head(sock[h]).type \in {"SEND", "IDLE"}
  /\ h \in files
  /\ ~MainClosed(h)
  /\ hfifo' = IF Len(hfifo[h]) < FifoCap
              THEN [hfifo EXCEPT ![h] = Append(@, Head(sock[h]))] ELSE hfifo
  /\ sock' = [sock EXCEPT ![h] = Tail(@)]
  /\ UNCHANGED <<peer, inbox, sent, told, view, handlerVars, mfifo, boot, mainVars>>

\* Mutant of HandlerForward: read_message returns the length of the payload
\* only, so an IDLE looks like the end of the file.
IdleEndsHandler(h) ==
  /\ hpc[h] = "select"
  /\ sock[h] # <<>>
  /\ h \in files
  /\ ~MainClosed(h)
  /\ \/ /\ Head(sock[h]).type = "SEND"
        /\ Len(hfifo[h]) < FifoCap
        /\ hfifo' = [hfifo EXCEPT ![h] = Append(@, Head(sock[h]))]
        /\ sock' = [sock EXCEPT ![h] = Tail(@)]
        /\ UNCHANGED <<peer, inbox, sent, told, view, handlerVars, mfifo, boot, mainVars>>
     \/ /\ Head(sock[h]).type = "IDLE"
        /\ HandlerEnds(h, "exited", TRUE)

\* SEND and IDLE go to main.  The client's socket is served before main_fd,
\* so while its fifo is full the handler blocks here and relays nothing.
HandlerForward(h) ==
  /\ hpc[h] = "select"
  /\ sock[h] # <<>>
  /\ Head(sock[h]).type \in {"SEND", "IDLE"}
  /\ h \in files
  /\ ~MainClosed(h)
  /\ Len(hfifo[h]) < FifoCap
  /\ hfifo' = [hfifo EXCEPT ![h] = Append(@, Head(sock[h]))]
  /\ sock' = [sock EXCEPT ![h] = Tail(@)]
  /\ UNCHANGED <<peer, inbox, sent, told, view, handlerVars, mfifo, boot, mainVars>>

\* write() to a fifo nobody reads raises SIGPIPE, which nothing handles.
HandlerSigpipe(h) ==
  /\ hpc[h] = "select"
  /\ sock[h] # <<>>
  /\ Head(sock[h]).type \in {"SEND", "IDLE"}
  /\ h \in files
  /\ MainClosed(h)
  /\ HandlerEnds(h, "killed", FALSE)

\* SEND or IDLE before JOIN is read and dropped.
HandlerDiscard(h) ==
  /\ hpc[h] = "select"
  /\ sock[h] # <<>>
  /\ Head(sock[h]).type \in {"SEND", "IDLE"}
  /\ h \notin files
  /\ sock' = [sock EXCEPT ![h] = Tail(@)]
  /\ UNCHANGED <<peer, inbox, sent, told, view, handlerVars, mfifo, hfifo, boot, mainVars>>

\* read() returns 0 after the client's FIN: the loop ends, then the cleanup.
HandlerEOF(h) ==
  /\ hpc[h] = "select"
  /\ sock[h] = <<>>
  /\ peer[h] = "fin"
  /\ HandlerEnds(h, "exited", TRUE)

\* read() returns -1 after a reset: assert(r == sizeof(header_t)) aborts.
HandlerReset(h) ==
  /\ hpc[h] = "select"
  /\ sock[h] = <<>>
  /\ peer[h] = "rst"
  /\ HandlerEnds(h, "aborted", FALSE)

\* TCP has delivered a part of a message only: read() returns less than the
\* header or the payload, and the same asserts abort the handler.
HandlerShortRead(h) ==
  /\ ShortReads
  /\ hpc[h] = "select"
  /\ sock[h] # <<>>
  /\ HandlerEnds(h, "aborted", FALSE)

\* A message from main, read only when the client's socket is not ready.
HandlerRelay(h) ==
  /\ hpc[h] = "select"
  /\ ~ClientReady(h)
  /\ h \in files
  /\ mfifo[h] # <<>>
  /\ inbox' = [inbox EXCEPT ![h] = Append(@, Head(mfifo[h]))]
  /\ mfifo' = [mfifo EXCEPT ![h] = Tail(@)]
  /\ UNCHANGED <<peer, sock, sent, told, view, handlerVars, hfifo, boot, mainVars>>

\* Mutant of HandlerMainEOF: main's hang-up is served before its messages.
MainEOFEarly(h) ==
  /\ hpc[h] = "select"
  /\ ~ClientReady(h)
  /\ h \in files
  /\ MainClosed(h)
  /\ HandlerEnds(h, "exited", TRUE)

\* main closed the fifo and all of it was read.
HandlerMainEOF(h) ==
  /\ hpc[h] = "select"
  /\ ~ClientReady(h)
  /\ h \in files
  /\ mfifo[h] = <<>>
  /\ MainClosed(h)
  /\ HandlerEnds(h, "exited", TRUE)

-----------------------------------------------------------------------------
(* The main process.                                                       *)

\* The pipe is served before the fifos; open(main_fifo, O_WRONLY) follows.
MainReadBootstrap ==
  /\ mpc = "select"
  /\ boot # <<>>
  /\ mcur' = Head(boot)
  /\ boot' = Tail(boot)
  /\ mpc' = "openMain"
  /\ UNCHANGED <<max_clients, clientVars, handlerVars, mfifo, hfifo, mout, mainEnd, regVars>>

\* open(main_fifo, O_WRONLY) waits for the handler's open of the same fifo.
MainOpenMain ==
  /\ mpc = "openMain"
  /\ hpc[mcur.h] = "openMain"
  /\ mainEnd' = [mainEnd EXCEPT ![mcur.h] = "half"]
  /\ mpc' = "openHandler"
  /\ UNCHANGED <<max_clients, clientVars, handlerVars, mfifo, hfifo, boot, mcur, mout, regVars>>

\* Mutant of Refused: a name in use is not looked for.
RefusedWhenFull == Len(online_users) = max_clients

\* Mutant of Refused: the limit is checked one too late.
RefusedTooLate == rd_fifos[mcur.name] # NoFd \/ Len(online_users) > max_clients

\* open(handler_fifo, O_RDONLY) waits for the handler's open, then the
\* name is checked: taken, or the chat is full.
Refused == rd_fifos[mcur.name] # NoFd \/ Len(online_users) = max_clients

MainOpensHandlerFifo ==
  /\ mpc = "openHandler"
  /\ hpc[mcur.h] = "openHandler"
  /\ mainEnd' = [mainEnd EXCEPT ![mcur.h] = "open"]
  /\ UNCHANGED <<max_clients, clientVars, handlerVars, mfifo, hfifo, boot>>

MainRefuse ==
  /\ MainOpensHandlerFifo
  /\ Refused
  /\ mpc' = "reply"
  /\ mout' = [msg |-> NAK, to |-> {}]
  /\ UNCHANGED <<mcur, regVars>>

Register(n, h) ==
  /\ rd_fifos' = [rd_fifos EXCEPT ![n] = h]
  /\ wr_fifos' = [wr_fifos EXCEPT ![n] = h]
  /\ online_users' = Append(online_users, n)

Users == {online_users[i] : i \in 1 .. Len(online_users)}

\* Mutant of MainRegister: the list for the ACK is made after push_back.
RegisterListsSelf ==
  /\ MainOpensHandlerFifo
  /\ ~Refused
  /\ Len(online_users) <= AckCap
  /\ Register(mcur.name, mcur.h)
  /\ mpc' = "reply"
  /\ mout' = [msg |-> ACK(Users \cup {mcur.name}), to |-> {}]
  /\ UNCHANGED mcur

MainRegister ==
  /\ MainOpensHandlerFifo
  /\ ~Refused
  /\ Len(online_users) <= AckCap
  /\ Register(mcur.name, mcur.h)
  /\ mpc' = "reply"
  /\ mout' = [msg |-> ACK(Users), to |-> {}]
  /\ UNCHANGED mcur

\* The names are too many, or too long, for one ACK: add_attribute throws and
\* nothing catches it.
MainAckTooLong ==
  /\ MainOpensHandlerFifo
  /\ ~Refused
  /\ Len(online_users) > AckSure
  /\ Register(mcur.name, mcur.h)
  /\ mpc' = "dead"
  /\ mcur' = NoJoin
  /\ UNCHANGED mout

\* write_all and write_all_except: main visits the names of `to' in order.
Broadcast(m, to) ==
  /\ mpc' = IF to = {} THEN "select" ELSE "write"
  /\ mout' = IF to = {} THEN NoOut ELSE [msg |-> m, to |-> to]

\* Mutant of MainReply: the new user is announced to itself, before its ACK.
AnnounceThenReply ==
  /\ mpc = "reply"
  /\ hpc[mcur.h] \notin Gone
  /\ mfifo' = [mfifo EXCEPT ![mcur.h] = @ \o <<ONLINE(mcur.name), mout.msg>>]
  /\ \/ /\ mout.msg.type = "NAK"
        /\ mainEnd' = [mainEnd EXCEPT ![mcur.h] = "closed"]
        /\ Broadcast(NAK, {})
     \/ /\ mout.msg.type = "ACK"
        /\ Broadcast(ONLINE(mcur.name), Registered \ {mcur.name})
        /\ UNCHANGED mainEnd
  /\ mcur' = NoJoin
  /\ UNCHANGED <<max_clients, clientVars, handlerVars, hfifo, boot, regVars>>

\* The ACK or NAK; a refused handler's fifos are closed, a new user announced.
MainReply ==
  /\ mpc = "reply"
  /\ hpc[mcur.h] \notin Gone
  /\ mfifo' = [mfifo EXCEPT ![mcur.h] = Append(@, mout.msg)]
  /\ \/ /\ mout.msg.type = "NAK"
        /\ mainEnd' = [mainEnd EXCEPT ![mcur.h] = "closed"]
        /\ Broadcast(NAK, {})
     \/ /\ mout.msg.type = "ACK"
        /\ Broadcast(ONLINE(mcur.name), Registered \ {mcur.name})
        /\ UNCHANGED mainEnd
  /\ mcur' = NoJoin
  /\ UNCHANGED <<max_clients, clientVars, handlerVars, hfifo, boot, regVars>>

MainWrite(n) ==
  /\ mpc = "write"
  /\ n \in mout.to
  /\ \A k \in mout.to : n <= k
  /\ hpc[wr_fifos[n]] \notin Gone
  /\ Len(mfifo[wr_fifos[n]]) < FifoCap
  /\ mfifo' = [mfifo EXCEPT ![wr_fifos[n]] = Append(@, mout.msg)]
  /\ Broadcast(mout.msg, mout.to \ {n})
  /\ UNCHANGED <<max_clients, clientVars, handlerVars, hfifo, boot, mcur, mainEnd, regVars>>

\* write() to the fifo of a handler that is gone raises SIGPIPE in main.
MainSigpipe ==
  /\ \/ mpc = "reply" /\ hpc[mcur.h] \in Gone
     \/ /\ mpc = "write"
        /\ \E n \in mout.to : /\ \A k \in mout.to : n <= k
                              /\ hpc[wr_fifos[n]] \in Gone
  /\ mpc' = "dead"
  /\ mcur' = NoJoin
  /\ mout' = NoOut
  /\ UNCHANGED <<max_clients, clientVars, handlerVars, mfifo, hfifo, boot, mainEnd, regVars>>

\* The first ready fifo in the order of the names; the loop then breaks.
MainSelects(n) ==
  /\ mpc = "select"
  /\ boot = <<>>
  /\ FifoReady(n)
  /\ \A k \in Names : FifoReady(k) => n <= k

\* Mutant of MainForward: write_all in place of write_all_except.
ForwardToAll(n) ==
  /\ MainSelects(n)
  /\ LET h == rd_fifos[n] IN
       /\ hfifo[h] # <<>>
       /\ \/ /\ Head(hfifo[h]).type = "SEND"
             /\ Broadcast(change_to_fwd(Head(hfifo[h]), n), Registered)
          \/ /\ Head(hfifo[h]).type = "IDLE"
             /\ Broadcast(add_username(Head(hfifo[h]), n), Registered)
       /\ hfifo' = [hfifo EXCEPT ![h] = Tail(@)]
  /\ UNCHANGED <<max_clients, clientVars, handlerVars, mfifo, boot, mcur, mainEnd, regVars>>

MainForward(n) ==
  /\ MainSelects(n)
  /\ LET h == rd_fifos[n] IN
       /\ hfifo[h] # <<>>
       /\ \/ /\ Head(hfifo[h]).type = "SEND"
             /\ Broadcast(change_to_fwd(Head(hfifo[h]), n), Registered \ {n})
          \/ /\ Head(hfifo[h]).type = "IDLE"
             /\ Broadcast(add_username(Head(hfifo[h]), n), Registered \ {n})
       /\ hfifo' = [hfifo EXCEPT ![h] = Tail(@)]
  /\ UNCHANGED <<max_clients, clientVars, handlerVars, mfifo, boot, mcur, mainEnd, regVars>>

\* Mutant of MainGoodbye: a hang-up is served before the data in the fifo.
GoodbyeEarly(n) ==
  /\ MainSelects(n)
  /\ hpc[rd_fifos[n]] \in Gone
  /\ mainEnd' = [mainEnd EXCEPT ![rd_fifos[n]] = "closed"]
  /\ \E i \in 1 .. Len(online_users) :
       /\ online_users[i] = n
       /\ online_users' = RemoveIndex(online_users, i)
  /\ rd_fifos' = [rd_fifos EXCEPT ![n] = NoFd]
  /\ wr_fifos' = [wr_fifos EXCEPT ![n] = NoFd]
  /\ Broadcast(OFFLINE(n), Registered \ {n})
  /\ UNCHANGED <<max_clients, clientVars, handlerVars, mfifo, hfifo, boot, mcur>>

\* End of file: close both fifos, forget the user, tell everybody left.
MainGoodbye(n) ==
  /\ MainSelects(n)
  /\ hfifo[rd_fifos[n]] = <<>>
  /\ mainEnd' = [mainEnd EXCEPT ![rd_fifos[n]] = "closed"]
  /\ \E i \in 1 .. Len(online_users) :
       /\ online_users[i] = n
       /\ online_users' = RemoveIndex(online_users, i)
  /\ rd_fifos' = [rd_fifos EXCEPT ![n] = NoFd]
  /\ wr_fifos' = [wr_fifos EXCEPT ![n] = NoFd]
  /\ Broadcast(OFFLINE(n), Registered \ {n})
  /\ UNCHANGED <<max_clients, clientVars, handlerVars, mfifo, hfifo, boot, mcur>>

-----------------------------------------------------------------------------
Main == \/ MainReadBootstrap \/ MainOpenMain
        \/ MainRefuse \/ MainRegister \/ MainAckTooLong
        \/ MainReply \/ MainSigpipe
        \/ \E n \in Names : MainWrite(n) \/ MainForward(n) \/ MainGoodbye(n)

Handler(h) == \/ HandlerJoin(h) \/ HandlerRejoin(h)
              \/ HandlerOpenMain(h) \/ HandlerOpenHandler(h)
              \/ HandlerForward(h) \/ HandlerSigpipe(h) \/ HandlerDiscard(h)
              \/ HandlerEOF(h) \/ HandlerReset(h) \/ HandlerShortRead(h)
              \/ HandlerRelay(h) \/ HandlerMainEOF(h)

Client(h) == \/ Accept(h) \/ Drop(h)
             \/ \E m \in ClientMessages(h) : ClientSend(h, m)
             \/ ClientRead(h) \/ ClientClose(h)

Next == Main \/ \E h \in Handlers : Handler(h) \/ Client(h)

Spec == Init /\ [][Next]_vars

-----------------------------------------------------------------------------
(* Type correctness: the values every variable of the two programs takes.  *)
TypeOK ==
  /\ max_clients \in Nat
  /\ peer \in [Handlers -> {"absent", "open", "fin", "rst"}]
  /\ sock \in [Handlers -> Seq(Message)]
  /\ inbox \in [Handlers -> Seq(Message)]
  /\ sent \in [Handlers -> Nat]
  /\ told \in [Handlers -> {"none", "ACK", "NAK"}]
  /\ view \in [Handlers -> SUBSET Names]
  /\ hpc \in [Handlers -> {"none", "dropped", "select", "openMain", "openHandler"} \cup Gone]
  /\ user \in [Handlers -> Names \cup {NoName}]
  /\ files \in SUBSET Handlers
  /\ mfifo \in [Handlers -> Seq(Message)]
  /\ hfifo \in [Handlers -> Seq(Message)]
  /\ mainEnd \in [Handlers -> {"never", "half", "open", "closed"}]
  /\ boot \in Seq([h : Handlers, name : Names])
  /\ mpc \in {"select", "openMain", "openHandler", "reply", "write", "dead"}
  /\ mcur \in [h : Handlers \cup {NoFd}, name : Names \cup {NoName}]
  /\ mout \in [msg : Message, to : SUBSET Names]
  /\ rd_fifos \in [Names -> Handlers \cup {NoFd}]
  /\ wr_fifos \in [Names -> Handlers \cup {NoFd}]
  /\ online_users \in Seq(Names)

(* The registry of main is one table: rd_fifos, wr_fifos and online_users  *)
(* name the same users, a user is listed once and never beyond max_clients,*)
(* no two users share a handler, and main holds both fifos of every user   *)
(* open.  The duplicate check, the limit check and the three updates of a  *)
(* join and of a leave must agree for this to hold.                        *)
RegistryConsistent ==
  /\ rd_fifos = wr_fifos
  /\ Users = Registered
  /\ \A i, j \in 1 .. Len(online_users) : online_users[i] = online_users[j] => i = j
  /\ Len(online_users) <= max_clients
  /\ \A m, n \in Registered : wr_fifos[m] = wr_fifos[n] => m = n
  /\ \A n \in Registered : mainEnd[wr_fifos[n]] = "open"

(* The rendezvous of the two open() calls on each side: a handler whose    *)
(* bootstrap message is in the pipe waits in its first open and main holds *)
(* nothing of it, it is in the pipe once; main works on a handler that is  *)
(* no longer in the pipe, with exactly the fifos open that its position    *)
(* says; and what main is about to write goes to fifos it holds.           *)
PipeConsistent ==
  /\ \A i \in 1 .. Len(boot) : /\ hpc[boot[i].h] = "openMain"
                               /\ mainEnd[boot[i].h] = "never"
  /\ \A i, j \in 1 .. Len(boot) : boot[i].h = boot[j].h => i = j
  /\ \A h \in Handlers :
       /\ hpc[h] \in {"none", "select"} /\ h \notin files => mainEnd[h] = "never"
       /\ hpc[h] \in {"openMain", "openHandler"} => h \in files

MainConsistent ==
  /\ mpc \in {"openMain", "openHandler", "reply"} =>
       mcur.h \in Handlers /\ mcur.name \in Names
  /\ mpc = "openMain" => /\ hpc[mcur.h] = "openMain"
                         /\ mainEnd[mcur.h] = "never"
                         /\ \A i \in 1 .. Len(boot) : boot[i].h # mcur.h
  /\ mpc = "openHandler" => mainEnd[mcur.h] = "half"
  /\ mpc = "reply" => /\ mainEnd[mcur.h] = "open"
                      /\ mout.msg.type \in {"ACK", "NAK"}
                      /\ mout.msg.type = "NAK" =>
                           \A n \in Registered : wr_fifos[n] # mcur.h
  /\ mpc = "write" => mout.to \subseteq Registered

Handshake == PipeConsistent /\ MainConsistent

(* Nobody takes over a name in use, and a user is forgotten only after its *)
(* handler is gone and the last message it forwarded has been handled.     *)
NoTakeover ==
  [][\A n \in Names :
       wr_fifos[n] # NoFd /\ wr_fifos'[n] # wr_fifos[n] =>
         /\ wr_fifos'[n] = NoFd
         /\ hpc[wr_fifos[n]] \in Gone
         /\ hfifo[wr_fifos[n]] = <<>>]_vars
=============================================================================
