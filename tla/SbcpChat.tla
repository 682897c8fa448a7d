------------------------------ MODULE SbcpChat ------------------------------
(***************************************************************************)
(* The chat system: the server of SbcpServer with clients that run          *)
(* MP2/src/sbcp_client.cpp.  A client joins, waits for the answer, then     *)
(* serves its socket before stdin and reports once that its user is idle.   *)
(***************************************************************************)
EXTENDS SbcpStreams

VARIABLES
  cpc,   \* where the client program is
  idle   \* its variable idle

chatVars == <<vars, cpc, idle>>

ChatInit ==
  /\ Init
  /\ cpc = [h \in Handlers |-> "join"]
  /\ idle = [h \in Handlers |-> FALSE]

Goto(h, where) == cpc' = [cpc EXCEPT ![h] = where]

\* The connection is over and everything that arrived was read: readn exits.
ServerClosed(h) == hpc[h] \in Gone \cup {"dropped"} /\ inbox[h] = <<>>

\* FD_ISSET of the client's socket.
ServerReady(h) == inbox[h] # <<>> \/ ServerClosed(h)

CConnect(h) ==
  /\ Accept(h) \/ Drop(h)
  /\ UNCHANGED <<cpc, idle>>

CJoin(h, n) ==
  /\ cpc[h] = "join"
  /\ ClientSend(h, JOIN(n, <<h, sent[h] + 1>>))
  /\ Goto(h, "answer")
  /\ UNCHANGED idle

\* ACK: into the main loop.  Anything else: assert NAK and exit.
CAnswer(h) ==
  /\ cpc[h] = "answer"
  /\ ClientRead(h)
  /\ \/ Head(inbox[h]).type = "ACK" /\ Goto(h, "chat")
     \/ Head(inbox[h]).type # "ACK" /\ Goto(h, "quit")
  /\ UNCHANGED idle

CRead(h) ==
  /\ cpc[h] = "chat"
  /\ ClientRead(h)
  /\ UNCHANGED <<cpc, idle>>

CServerClosed(h) ==
  /\ cpc[h] \in {"join", "answer", "chat"}
  /\ ServerClosed(h)
  /\ Goto(h, "gone")
  /\ UNCHANGED <<vars, idle>>

\* Mutant of CIdle: idle is never set.
IdleAgain(h) ==
  /\ cpc[h] = "chat"
  /\ ~ServerReady(h)
  /\ ~idle[h]
  /\ ClientSend(h, IDLE(<<h, sent[h] + 1>>))
  /\ UNCHANGED <<cpc, idle>>

\* Ten seconds without input: select timed out, so neither side is ready.
CIdle(h) ==
  /\ cpc[h] = "chat"
  /\ ~ServerReady(h)
  /\ ~idle[h]
  /\ ClientSend(h, IDLE(<<h, sent[h] + 1>>))
  /\ idle' = [idle EXCEPT ![h] = TRUE]
  /\ UNCHANGED cpc

\* A line on stdin, served when the socket is not ready.
CSay(h) ==
  /\ cpc[h] = "chat"
  /\ ~ServerReady(h)
  /\ ClientSend(h, SEND(<<h, sent[h] + 1>>))
  /\ idle' = [idle EXCEPT ![h] = FALSE]
  /\ UNCHANGED cpc

\* An empty line leaves the loop; the destructor closes the socket later.
CQuit(h) ==
  /\ cpc[h] = "chat"
  /\ ~ServerReady(h)
  /\ Goto(h, "quit")
  /\ idle' = [idle EXCEPT ![h] = FALSE]
  /\ UNCHANGED vars

CClose(h) ==
  /\ cpc[h] = "quit"
  /\ \/ ClientClose(h)
     \/ ~Live(h) /\ UNCHANGED vars
  /\ Goto(h, "gone")
  /\ UNCHANGED idle

\* An interrupt or a crash, also while it waits for the answer to its JOIN.
CKilled(h) ==
  /\ ClientClose(h)
  /\ Goto(h, "killed")
  /\ idle' = [idle EXCEPT ![h] = FALSE]

\* What the program does by itself; the rest waits for its user.
ClientProgram(h) ==
  \/ \E n \in Names : CJoin(h, n)
  \/ CAnswer(h) \/ CRead(h) \/ CServerClosed(h) \/ CClose(h)

ServerStep ==
  /\ Main \/ \E h \in Handlers : Handler(h)
  /\ UNCHANGED <<cpc, idle>>

ChatNext ==
  \/ ServerStep
  \/ \E h \in Handlers : \/ ClientProgram(h)
                         \/ CConnect(h) \/ CIdle(h) \/ CSay(h) \/ CQuit(h) \/ CKilled(h)

ChatSpec == ChatInit /\ [][ChatNext]_chatVars

\* Every process that is not blocked runs; what users do is not fair.
FairChatSpec ==
  /\ ChatSpec
  /\ WF_chatVars(Main /\ UNCHANGED <<cpc, idle>>)
  /\ \A h \in Handlers : /\ WF_chatVars(Handler(h) /\ UNCHANGED <<cpc, idle>>)
                         /\ WF_chatVars(ClientProgram(h))

-----------------------------------------------------------------------------
(* assert(type == NAK) in the client: the first message a client gets is   *)
(* ACK or NAK, whatever main is broadcasting while it joins.               *)
FirstIsAnswer ==
  \A h \in Handlers :
    cpc[h] = "answer" /\ inbox[h] # <<>> => Head(inbox[h]).type \in {"ACK", "NAK"}

(* A client that is left without an answer to its JOIN was dropped when it *)
(* connected, its JOIN came in pieces, or main is dead: a refused client   *)
(* always gets its NAK before the connection closes.                       *)
RefusalIsTold ==
  \A h \in Handlers :
    cpc[h] = "gone" /\ told[h] = "none" =>
      hpc[h] \in {"dropped", "aborted"} \/ mpc = "dead"

(* SIGPIPE in main: besides too long a list for an ACK, it dies only while *)
(* a handler is gone whose fifos it holds open, and that handler is gone   *)
(* because its client has left or was killed, or a message of that client  *)
(* came in pieces.  Clients that stay, idle, busy or refused, never bring  *)
(* the chat down: their handlers end after main has let go of them.        *)
OnlyLeaversKillMain ==
  mpc = "dead" =>
    \/ Len(online_users) - 1 > AckSure
    \/ \E h \in Handlers : /\ hpc[h] \in Gone
                          /\ mainEnd[h] = "open"
                          /\ (peer[h] # "open" \/ hpc[h] = "aborted")

(* No reader is told twice that a user is idle without hearing from that   *)
(* user in between.                                                        *)
IdleToldOnce ==
  \A m \in Chatters : \A n \in Chatters \ {m} :
    LET g == wr_fifos[m]
        s == Onward(n, g)
        Idles == {i \in DOMAIN s : s[i].id[1] = g /\ s[i].type = "IDLE"}
    IN  \A i, j \in Idles :
          i < j => \E l \in i + 1 .. j - 1 : s[l].id[1] = g /\ s[l].type \notin {"IDLE", "JOIN"}

(* A client that has sent its JOIN does not wait for ever, unless main died *)
(* or is blocked: the four opens of the fifos meet.                         *)
ClientAnswered ==
  MainFlows =>
    \A h \in Handlers : cpc[h] = "answer" ~> (cpc[h] # "answer" \/ mpc = "dead")
=============================================================================
