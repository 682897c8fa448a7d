------------------------------ MODULE UdpServer ------------------------------
(***************************************************************************)
(* udp::Server of libudp: the program that owns the Server object, the      *)
(* server process that waits for the first packet of a peer, and one        *)
(* handler process per packet that reached the server's port.  A peer that  *)
(* repeats its first packet is two requests here, as it is for the code.    *)
(* The state is that of TcpServer without threads, and so are the           *)
(* properties: MCServers checks them of both.                               *)
(***************************************************************************)
EXTENDS PidVector

CONSTANTS
  Requests,     \* packets to the server's port; also the pids of their handlers
  Limits,       \* values the program may give to max_clients
  MaxTimeouts   \* a value for max_timeouts other than 0

VARIABLES
  timeout,      \* is timeout > 0: select before recvfrom?
  max_timeouts, \* 0 for no limit
  owner,        \* the program: "free", in "exec", or "gone"
  server_pid,   \* is it >= 0?
  srv,          \* where the server process is
  req,          \* state of each request and of its handler
  max_clients,
  clients,      \* the pids in client_handler.clients
  timeout_count

config == <<timeout, max_timeouts>>
ownerVars == <<owner, server_pid, max_clients, config>>
vars == <<ownerVars, srv, req, clients, timeout_count>>

Up == srv \in {"loop", "select", "accept"}
InState(s) == {r \in Requests : req[r] = s}
Pids == {clients[i] : i \in 1 .. Len(clients)}
Moved(from, to) == [r \in Requests |-> IF req[r] = from THEN to ELSE req[r]]

\* config is what the program sets before the first start().
Init ==
  /\ timeout \in BOOLEAN
  /\ max_timeouts \in {0, MaxTimeouts}
  /\ owner = "free"
  /\ server_pid = FALSE
  /\ srv = "none"
  /\ req = [r \in Requests |-> "new"]
  /\ max_clients \in Limits
  /\ clients = <<>>
  /\ timeout_count = 0

-----------------------------------------------------------------------------
(* The program that owns the server.                                       *)

\* The setters throw while server_pid >= 0.
set_max_clients(n) ==
  /\ owner = "free"
  /\ ~server_pid
  /\ max_clients' = n
  /\ UNCHANGED <<config, owner, server_pid, srv, req, clients, timeout_count>>

\* start(), or exec(), which then waits for the server process.
start(next) ==
  /\ owner = "free"
  /\ ~server_pid
  /\ max_clients > 0
  /\ server_pid' = TRUE
  /\ srv' = "bind"
  /\ owner' = next
  /\ clients' = <<>>
  /\ timeout_count' = 0
  /\ UNCHANGED <<config, req, max_clients>>

\* fork() fails in start(): start() returns, exec() ends the program.
fork_fails ==
  /\ owner = "free"
  /\ ~server_pid
  /\ max_clients > 0
  /\ owner' = "gone"
  /\ UNCHANGED <<config, server_pid, max_clients, srv, req, clients, timeout_count>>

\* SIGTERM or SIGKILL, then waitpid: the handlers go on as orphans, packets
\* nobody read are lost with the socket.
stop ==
  /\ owner = "free"
  /\ server_pid
  /\ server_pid' = FALSE
  /\ srv' = "killed"
  /\ clients' = <<>>
  /\ req' = [r \in Requests |-> CASE req[r] = "queued" -> "failed"
                                  [] req[r] = "running" -> "orphan"
                                  [] req[r] = "zombie" -> "done"
                                  [] OTHER -> req[r]]
  /\ UNCHANGED <<config, owner, max_clients, timeout_count>>

exec_returns ==
  /\ owner = "exec"
  /\ srv = "over"
  /\ owner' = "gone"
  /\ UNCHANGED <<config, server_pid, max_clients, srv, req, clients, timeout_count>>

-----------------------------------------------------------------------------
(* The server, run_server().                                               *)

\* socket and bind succeed, or exit(EXIT_FAILURE).
Bind ==
  /\ srv = "bind"
  /\ srv' \in {"loop", "over"}
  /\ UNCHANGED <<ownerVars, req, clients, timeout_count>>

reap_clients ==
  /\ clients' = Without(clients, InState("zombie"))
  /\ req' = Moved("zombie", "done")

Loop ==
  /\ srv = "loop"
  /\ reap_clients
  /\ \/ timeout /\ srv' = "select" /\ UNCHANGED timeout_count
     \/ ~timeout /\ srv' = "accept" /\ timeout_count' = 0
  /\ UNCHANGED ownerVars

SelectReady ==
  /\ srv = "select"
  /\ InState("queued") # {}
  /\ timeout_count' = 0
  /\ reap_clients
  /\ srv' = "accept"
  /\ UNCHANGED ownerVars

\* The loop ends after max_timeouts timeouts in a row, if that is not 0.
\* The count is capped there: nothing but >= max_timeouts is asked of it.
SelectTimeout ==
  /\ srv = "select"
  /\ InState("queued") = {}
  /\ timeout_count' = IF timeout_count < max_timeouts THEN timeout_count + 1 ELSE timeout_count
  /\ srv' = IF max_timeouts > 0 /\ timeout_count' >= max_timeouts THEN "join" ELSE "loop"
  /\ UNCHANGED <<ownerVars, req, clients>>

\* EINTR: again.  Any other error: leave the loop and close the socket.
SelectFails ==
  /\ srv = "select"
  /\ \/ srv' = "loop" /\ UNCHANGED req
     \/ srv' = "join" /\ req' = Moved("queued", "failed")
  /\ UNCHANGED <<ownerVars, clients, timeout_count>>

\* recvfrom takes the packet off the socket before the limit is checked.
accept_drop(r) ==
  /\ srv = "accept"
  /\ req[r] = "queued"
  /\ Len(clients) >= max_clients
  /\ req' = [req EXCEPT ![r] = "dropped"]
  /\ srv' = "loop"
  /\ UNCHANGED <<ownerVars, clients, timeout_count>>

accept_serve(r) ==
  /\ srv = "accept"
  /\ req[r] = "queued"
  /\ Len(clients) < max_clients
  /\ req' = [req EXCEPT ![r] = "running"]
  /\ clients' = Append(clients, r)
  /\ srv' = "loop"
  /\ UNCHANGED <<ownerVars, timeout_count>>

\* recvfrom() fails, or it succeeds and fork() fails.
accept_fails ==
  /\ srv = "accept"
  /\ InState("queued") # {}
  /\ \/ UNCHANGED req
     \/ /\ Len(clients) < max_clients
        /\ \E r \in InState("queued") : req' = [req EXCEPT ![r] = "failed"]
  /\ srv' = "loop"
  /\ UNCHANGED <<ownerVars, clients, timeout_count>>

\* Mutant of join_clients: WNOHANG, running handlers are not waited for.
join_finished ==
  /\ srv = "join"
  /\ req' = [r \in Requests |-> IF req[r] = "zombie" THEN "done" ELSE req[r]]
  /\ clients' = <<>>
  /\ srv' = "over"
  /\ UNCHANGED <<ownerVars, timeout_count>>

join_clients ==
  /\ srv = "join"
  /\ \A r \in Pids : req[r] = "zombie"
  /\ req' = Moved("zombie", "done")
  /\ clients' = <<>>
  /\ srv' = "over"
  /\ UNCHANGED <<ownerVars, timeout_count>>

-----------------------------------------------------------------------------
(* The peers and the handlers.                                             *)

Packet(r) ==
  /\ Up
  /\ req[r] = "new"
  /\ req' = [req EXCEPT ![r] = "queued"]
  /\ UNCHANGED <<ownerVars, srv, clients, timeout_count>>

HandlerReturns(r) ==
  /\ \/ req[r] = "running" /\ req' = [req EXCEPT ![r] = "zombie"]
     \/ req[r] = "orphan" /\ req' = [req EXCEPT ![r] = "done"]
  /\ UNCHANGED <<ownerVars, srv, clients, timeout_count>>

-----------------------------------------------------------------------------
Owner == \/ \E n \in Limits : set_max_clients(n)
         \/ \E next \in {"free", "exec"} : start(next)
         \/ fork_fails \/ stop

Accepts == \E r \in Requests : accept_drop(r) \/ accept_serve(r)

Server == Bind \/ Loop \/ SelectReady \/ SelectTimeout \/ join_clients \/ Accepts

Next == \/ Owner \/ exec_returns \/ Server \/ SelectFails \/ accept_fails
        \/ \E r \in Requests : Packet(r) \/ HandlerReturns(r)

Spec == Init /\ [][Next]_vars
=============================================================================
