------------------------------ MODULE TcpServer ------------------------------
(***************************************************************************)
(* tcp::Server of libtcp: the program that owns the Server object, the      *)
(* server process (or thread) that accepts connections in a loop, and one   *)
(* handler process (or detached thread) for each connection.                *)
(*                                                                         *)
(* A step of the server is what it does between two system calls that may   *)
(* wait: select, accept and the waitpid of join_clients.                    *)
(***************************************************************************)
EXTENDS PidVector

CONSTANTS
  Conns,        \* connections; a handler process has the name of its connection
  Limits,       \* values the program may give to max_clients
  MaxTimeouts   \* a value for max_timeouts other than 0

ASSUME LimitsAssumption == Limits \subseteq Nat /\ Limits # {}
ASSUME TimeoutsAssumption == MaxTimeouts \in Nat

VARIABLES
  use_thread,   \* was use_threads() called?
  timeout,      \* is timeout > 0: select before accept?
  max_timeouts, \* 0 for no limit
  owner,        \* the program: "free", in "exec", or "gone"
  server_pid,   \* is it >= 0?
  srv,          \* where the server process or thread is
  conn,         \* state of each connection and of its handler
  max_clients,
  clients,      \* the pids in client_handler.clients
  timeout_count

config == <<use_thread, timeout, max_timeouts>>
ownerVars == <<owner, server_pid, max_clients, config>>
vars == <<ownerVars, srv, conn, clients, timeout_count>>

Off == {"none", "over", "killed"}
Up == srv \in {"loop", "select", "accept"}
InState(s) == {c \in Conns : conn[c] = s}
Pids == {clients[i] : i \in 1 .. Len(clients)}

\* config is what the program sets before the first start().
Init ==
  /\ use_thread \in BOOLEAN
  /\ timeout \in BOOLEAN
  /\ max_timeouts \in {0, MaxTimeouts}
  /\ owner = "free"
  /\ server_pid = FALSE
  /\ srv = "none"
  /\ conn = [c \in Conns |-> "new"]
  /\ max_clients \in Limits
  /\ clients = <<>>
  /\ timeout_count = 0

-----------------------------------------------------------------------------
(* The program that owns the server.                                       *)

\* Mutant of set_max_clients: allowed while the server runs.
set_max_clients_always(n) ==
  /\ owner = "free"
  /\ max_clients' = n
  /\ UNCHANGED <<config, owner, server_pid, srv, conn, clients, timeout_count>>

\* The setters throw while server_pid >= 0.
set_max_clients(n) ==
  /\ owner = "free"
  /\ ~server_pid
  /\ max_clients' = n
  /\ UNCHANGED <<config, owner, server_pid, srv, conn, clients, timeout_count>>

\* start(), or exec(), which then waits for the server process or for ever.
\* A forked server has the vector of the program, which is empty.
start(next) ==
  /\ owner = "free"
  /\ ~server_pid
  /\ max_clients > 0
  /\ srv \in Off
  /\ server_pid' = ~use_thread
  /\ srv' = "bind"
  /\ owner' = next
  /\ timeout_count' = IF use_thread THEN timeout_count ELSE 0
  /\ clients' = <<>>
  /\ UNCHANGED <<config, conn, max_clients>>

\* fork() fails in start(): start() returns, exec() ends the program.
fork_fails ==
  /\ owner = "free"
  /\ ~server_pid
  /\ max_clients > 0
  /\ ~use_thread
  /\ owner' = "gone"
  /\ UNCHANGED <<config, server_pid, max_clients, srv, conn, clients, timeout_count>>

\* exit() ends the server process, or the program with all its threads.
Exits(cs) ==
  /\ srv' = "over"
  /\ owner' = IF use_thread THEN "gone" ELSE owner
  /\ conn' = [c \in Conns |-> IF conn[c] \in cs THEN "failed" ELSE conn[c]]

\* A second start() in thread mode.  The address is not changed in between
\* (set_port would not forbid it), so bind fails, and its thread calls exit().
start_again ==
  /\ owner = "free"
  /\ ~server_pid
  /\ max_clients > 0
  /\ srv \notin Off
  /\ Exits({"queued", "running"})
  /\ UNCHANGED <<config, server_pid, max_clients, clients, timeout_count>>

\* SIGTERM or SIGKILL: nothing handles SIGTERM, so handlers are not waited
\* for in either case.  They go on as orphans.
stop ==
  /\ owner = "free"
  /\ server_pid
  /\ server_pid' = FALSE
  /\ srv' = "killed"
  /\ clients' = <<>>
  /\ conn' = [c \in Conns |-> CASE conn[c] = "queued" -> "failed"
                                [] conn[c] = "running" -> "orphan"
                                [] conn[c] = "zombie" -> "done"
                                [] OTHER -> conn[c]]
  /\ UNCHANGED <<config, owner, max_clients, timeout_count>>

\* waitpid in exec() returns.
exec_returns ==
  /\ owner = "exec"
  /\ ~use_thread
  /\ srv = "over"
  /\ owner' = "gone"
  /\ UNCHANGED <<config, server_pid, max_clients, srv, conn, clients, timeout_count>>

-----------------------------------------------------------------------------
(* The server, run_server().                                               *)

\* socket, bind and listen succeed, or exit(EXIT_FAILURE).
Bind ==
  /\ srv = "bind"
  /\ \/ srv' = "loop" /\ UNCHANGED <<owner, conn>>
     \/ Exits({"running"})
  /\ UNCHANGED <<config, server_pid, max_clients, clients, timeout_count>>

\* reap_clients(): drop the finished ones from clients.
reap_clients ==
  /\ clients' = Without(clients, InState("zombie"))
  /\ conn' = [c \in Conns |-> IF conn[c] = "zombie" THEN "done" ELSE conn[c]]

\* Mutant of Loop: handlers are reaped only when a connection comes.
LoopWithoutReap ==
  /\ srv = "loop"
  /\ \/ timeout /\ srv' = "select" /\ UNCHANGED timeout_count
     \/ ~timeout /\ srv' = "accept" /\ timeout_count' = 0
  /\ UNCHANGED <<ownerVars, conn, clients>>

\* The top of the loop; without a timeout, straight on to accept.
Loop ==
  /\ srv = "loop"
  /\ reap_clients
  /\ \/ timeout /\ srv' = "select" /\ UNCHANGED timeout_count
     \/ ~timeout /\ srv' = "accept" /\ timeout_count' = 0
  /\ UNCHANGED ownerVars

\* Mutant of SelectReady: back to the loop instead of on to accept.
SelectReadyContinues ==
  /\ srv = "select"
  /\ InState("queued") # {}
  /\ timeout_count' = 0
  /\ srv' = "loop"
  /\ UNCHANGED <<ownerVars, conn, clients>>

SelectReady ==
  /\ srv = "select"
  /\ InState("queued") # {}
  /\ timeout_count' = 0
  /\ reap_clients
  /\ srv' = "accept"
  /\ UNCHANGED ownerVars

\* Mutant of SelectTimeout: the count starts again in every round.
SelectTimeoutForgets ==
  /\ srv = "select"
  /\ InState("queued") = {}
  /\ srv' = "loop"
  /\ UNCHANGED <<ownerVars, conn, clients, timeout_count>>

\* Mutant of SelectTimeout: one timeout too many.
SelectTimeoutLate ==
  /\ srv = "select"
  /\ InState("queued") = {}
  /\ timeout_count' = timeout_count + 1
  /\ srv' = IF timeout_count' > max_timeouts THEN "join" ELSE "loop"
  /\ UNCHANGED <<ownerVars, conn, clients>>

\* The loop ends after max_timeouts timeouts in a row, if that is not 0.
\* The count is capped there: nothing but >= max_timeouts is asked of it.
SelectTimeout ==
  /\ srv = "select"
  /\ InState("queued") = {}
  /\ timeout_count' = IF timeout_count < max_timeouts THEN timeout_count + 1 ELSE timeout_count
  /\ srv' = IF max_timeouts > 0 /\ timeout_count' >= max_timeouts THEN "join" ELSE "loop"
  /\ UNCHANGED <<ownerVars, conn, clients>>

\* EINTR: again.  Any other error: leave the loop and close the socket.
SelectFails ==
  /\ srv = "select"
  /\ \/ srv' = "loop" /\ UNCHANGED conn
     \/ /\ srv' = "join"
        /\ conn' = [c \in Conns |-> IF conn[c] = "queued" THEN "failed" ELSE conn[c]]
  /\ UNCHANGED <<ownerVars, clients, timeout_count>>

accept_drop(c) ==
  /\ srv = "accept"
  /\ conn[c] = "queued"
  /\ Len(clients) >= max_clients
  /\ conn' = [conn EXCEPT ![c] = "dropped"]
  /\ srv' = "loop"
  /\ UNCHANGED <<ownerVars, clients, timeout_count>>

\* Mutant of accept_serve: the pid is not pushed.
serve_unlisted(c) ==
  /\ srv = "accept"
  /\ conn[c] = "queued"
  /\ Len(clients) < max_clients
  /\ conn' = [conn EXCEPT ![c] = "running"]
  /\ srv' = "loop"
  /\ UNCHANGED <<ownerVars, clients, timeout_count>>

\* fork and push_back, or a detached thread that is in no list.
accept_serve(c) ==
  /\ srv = "accept"
  /\ conn[c] = "queued"
  /\ Len(clients) < max_clients
  /\ conn' = [conn EXCEPT ![c] = "running"]
  /\ clients' = IF use_thread THEN clients ELSE Append(clients, c)
  /\ srv' = "loop"
  /\ UNCHANGED <<ownerVars, timeout_count>>

\* accept() fails, or it succeeds and fork() fails.
accept_fails ==
  /\ srv = "accept"
  /\ InState("queued") # {}
  /\ \/ UNCHANGED conn
     \/ /\ ~use_thread
        /\ Len(clients) < max_clients
        /\ \E c \in InState("queued") : conn' = [conn EXCEPT ![c] = "failed"]
  /\ srv' = "loop"
  /\ UNCHANGED <<ownerVars, clients, timeout_count>>

\* waitpid for every pid in clients, then the server process is done.
join_clients ==
  /\ srv = "join"
  /\ \A c \in Pids : conn[c] = "zombie"
  /\ conn' = [c \in Conns |-> IF c \in Pids THEN "done" ELSE conn[c]]
  /\ clients' = <<>>
  /\ srv' = "over"
  /\ UNCHANGED <<ownerVars, timeout_count>>

-----------------------------------------------------------------------------
(* The peers and the handlers.                                             *)

Connect(c) ==
  /\ srv \in {"loop", "select", "accept"}
  /\ conn[c] = "new"
  /\ conn' = [conn EXCEPT ![c] = "queued"]
  /\ UNCHANGED <<ownerVars, srv, clients, timeout_count>>

\* The handler function returns.  A process waits to be reaped.
HandlerReturns(c) ==
  /\ \/ /\ conn[c] = "running"
        /\ conn' = [conn EXCEPT ![c] = IF use_thread THEN "done" ELSE "zombie"]
     \/ /\ conn[c] = "orphan"
        /\ conn' = [conn EXCEPT ![c] = "done"]
  /\ UNCHANGED <<ownerVars, srv, clients, timeout_count>>

-----------------------------------------------------------------------------
Owner == \/ \E n \in Limits : set_max_clients(n)
         \/ \E next \in {"free", "exec"} : start(next)
         \/ fork_fails \/ start_again \/ stop

Accepts == \E c \in Conns : accept_drop(c) \/ accept_serve(c)

Server == Bind \/ Loop \/ SelectReady \/ SelectTimeout \/ join_clients \/ Accepts

Next == \/ Owner \/ exec_returns \/ Server \/ SelectFails \/ accept_fails
        \/ \E c \in Conns : Connect(c) \/ HandlerReturns(c)

Spec == Init /\ [][Next]_vars

-----------------------------------------------------------------------------
(* Type correctness of the server object and of the connections.           *)
TypeOK ==
  /\ use_thread \in BOOLEAN /\ timeout \in BOOLEAN /\ max_timeouts \in {0, MaxTimeouts}
  /\ owner \in {"free", "exec", "gone"} /\ server_pid \in BOOLEAN
  /\ srv \in Off \cup {"bind", "loop", "select", "accept", "join"}
  /\ conn \in [Conns -> {"new", "queued", "running", "zombie", "orphan", "done",
                         "dropped", "failed"}]
  /\ max_clients \in Limits /\ clients \in Seq(Conns)
  /\ timeout_count \in 0 .. MaxTimeouts

(* clients lists every child that has not been waited for, once, and no    *)
(* other pid: no zombie is forgotten, and no pid is waited for or signalled *)
(* after the kernel may have given it to somebody else.                    *)
ChildrenTracked ==
  /\ Pids = IF use_thread THEN {} ELSE InState("running") \cup InState("zombie")
  /\ Len(clients) = Cardinality(Pids)

(* A handler that has returned is waited for, also when no further         *)
(* connection arrives, provided a timeout is set: slots come back.         *)
ZombiesReaped == \A c \in Conns : (timeout /\ conn[c] = "zombie") ~> conn[c] = "done"

(* A connection is not left in the queue for ever, in either mode.         *)
ConnectionAnswered == \A c \in Conns : conn[c] = "queued" ~> conn[c] # "queued"

(* A server process that was told to (max_timeouts) stops by itself when   *)
(* no more connections come, and exec() comes back, however long handlers  *)
(* take.                                                                   *)
ExecReturns ==
  (owner = "exec" /\ ~use_thread /\ timeout /\ max_timeouts > 0 /\ InState("new") = {})
    ~> owner = "gone"

Fate(s) == CASE s \in {"new", "queued"} -> "waiting"
             [] s \in {"running", "orphan"} -> "served"
             [] s \in {"zombie", "done"} -> "finished"
             [] s = "dropped" -> "refused"
             [] s = "failed" -> "failed"

(* libtcp, with processes, keeps the promise of HandlerPool: never more    *)
(* than max_clients slots taken, a connection refused only when none is    *)
(* free, limits fixed while the server is open.  With threads it makes no  *)
(* such promise, and the pool seen through it stays closed.                *)
Pool == INSTANCE HandlerPool WITH
          up <- Up /\ ~use_thread, limit <- max_clients, slots <- Pids,
          fate <- [c \in Conns |-> IF use_thread THEN "waiting" ELSE Fate(conn[c])]
ImplementsPool == Pool!Spec
=============================================================================
