------------------------------ MODULE MCServers ------------------------------
(***************************************************************************)
(* tcp::Server and udp::Server side by side: which of the two a program     *)
(* uses is chosen first, and the properties of TcpServer are checked of     *)
(* either.  A connection of TCP is a packet to the server's port in UDP.    *)
(***************************************************************************)
EXTENDS TcpServer

VARIABLE transport

Udp == INSTANCE UdpServer WITH Requests <- Conns, req <- conn

allVars == <<vars, transport>>

ServersInit ==
  \/ transport = "tcp" /\ Init
  \/ transport = "udp" /\ Udp!Init /\ use_thread = FALSE

\* The step A of a TCP server, or the step B of a UDP server.
Either(A, B) ==
  /\ \/ transport = "tcp" /\ A
     \/ transport = "udp" /\ B /\ UNCHANGED use_thread
  /\ UNCHANGED transport

ServersSpec == ServersInit /\ [][Either(Next, Udp!Next)]_allVars

\* The server runs when it is not waiting, handlers return, exec() returns;
\* select, accept and recvfrom do not fail for ever.
FairServersSpec ==
  /\ ServersSpec
  /\ WF_allVars(Either(Server, Udp!Server))
  /\ WF_allVars(Either(exec_returns, Udp!exec_returns))
  /\ SF_allVars(Either(SelectReady, Udp!SelectReady))
  /\ SF_allVars(Either(Accepts, Udp!Accepts))
  /\ SF_allVars(Either(SelectTimeout, Udp!SelectTimeout))
  /\ \A c \in Conns : WF_allVars(Either(HandlerReturns(c), Udp!HandlerReturns(c)))
=============================================================================
