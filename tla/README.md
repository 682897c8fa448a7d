# TLA+ verification of the ECEN 602 network programs

The repository holds five machine problems and the libraries under them. This
directory holds TLA+ modules for the parts that keep state, talk to other
processes and can go wrong in ways a test hardly reaches, TLC configurations
for them, and TLAPS proofs.

## 1. The system

| Part | Source | State | Operations |
|---|---|---|---|
| chat server | `MP2/src/sbcp_server.cpp` | main: `rd_fifos`, `wr_fifos`, `online_users`; handler: `fifos_created`, two fifo descriptors | main's select loop (bootstrap, forward, goodbye, blocking writes), `client_handler` (JOIN, SEND/IDLE, relay, end of file) |
| chat client | `MP2/src/sbcp_client.cpp` | `idle`, idle time, buffered line | connect, JOIN, wait for ACK or NAK, print, send, report idleness, quit |
| SBCP messages | `libsbcp/` | a message | constructors, `change_to_fwd`, `add_username`, `add_attribute`, parsing, printing |
| TCP server | `libtcp/src/server.cpp` | `server_pid`, `max_clients`, `clients`, `timeout_count` | setters, `start`, `exec`, `stop`, the server loop, `reap_clients`, `join_clients` |
| UDP server | `libudp/src/server.cpp` | the same | the same, with a first packet in place of a connection |
| HTTP proxy | `MP4/src/http_proxy.cpp` | one `unordered_map` cache shared by all threads | the handler of a connection: find, hit, revalidate, fetch, evict, emplace |
| TFTP server | `MP3/src/tftp_server.cpp` | per handler: block number, timeouts, buffer, file | the handler of a first packet, for RRQ and WRQ |
| netascii | `MP3/src/netascii.hpp` | stream position, one pending character | both conversions |
| TFTP packets | `libtftp/` | a packet | constructors, accessors |
| HTTP messages | `libhttp/` | a message | parsing and printing of messages, URIs, dates |
| TCP, UDP clients | `libtcp/src/client.cpp`, `libudp/src/client.cpp` | a socket | connect, read, write, reply |
| echo server and client | `MP1/src/` | client: `buf`, position in stdin; handler: `buffer` | read a line, send it, read and print the echo; read, write back |
| HTTP test server | `MP4/src/http_server.cpp` | one counter per route | answer a route, 304, 404 |
| Elixir client | `MP2/lib/` | none that matters to the server | writes and reads the same messages |
| ns-2 script, sample programs | `MP5`, `MP1/chatgpt`, `MP2/chatgpt` | | not modelled (section 5) |

How they interact:

* `sbcp_server` starts libtcp in process mode; libtcp forks a handler for each
  connection. Handler and main talk through one bootstrap pipe shared by all
  handlers and two named fifos per handler. Every `open` of a fifo waits for the
  other side; every `write` waits when the fifo is full.
* `http_proxy` starts libtcp in thread mode; every handler thread gets the same
  cache by reference, and is a client of an origin server.
* `http_server` is the origin the proxy was tested with; its comments say what the
  cache should do.
* `echo_client` and a handler of `echo_server` share one TCP connection, two byte
  streams of limited size.
* `tftp_server` starts libudp, which forks a handler for every first packet. A
  handler answers from a port of its own and talks to one client.

What is hard: the rendezvous of four `open` calls in two processes; two limits
on clients counted in different places; blocking writes between main and its
handlers; clients that leave at any moment (FIN, RST, SIGPIPE); threads that
share a map without a lock; packets lost, doubled or late with numbers that wrap
around; timeouts against late answers; children that end between two calls of
`waitpid`. `PROJECT.json` lists each such hazard at its line with the property
that would catch it.

What makes each part correct:

* chat server: main's three tables agree and stay within the limit; no user name
  is held by two handlers; what a client has read, and what is still on the way
  to it, always adds up to the users online; nothing a client says is lost,
  doubled, reordered or attributed to somebody else; everybody who joins is
  answered, everybody who leaves is forgotten.
* TCP and UDP server: never more handlers than slots; every child is waited for
  once; a server that has ended has no running handlers; `exec` returns.
* proxy: a hit is fresh; an entry is what some origin sent for that URI; the
  cache stays near its size.
* TFTP: the client gets the file, in order and once; the stored file is the
  upload, or at least the beginning of it; a handler does not outlive its client
  for ever.
* netascii, SBCP, HTTP and TFTP texts: what is written is read again, at the limits
  of all lengths; what is cut off is refused.
* echo: every byte comes back once and in order, in pieces of whatever size.

## 2. Modules

Order of work: the chat server first, because it has the most processes and the
most ways to block; then the library servers with their abstract specification;
then the proxy; then TFTP; then echo and the formats of the messages.

| Module | Models | Uses |
|---|---|---|
| `SbcpServer` | main, the handler processes, pipe and fifos, arbitrary clients, the acceptance limit of libtcp | |
| `SbcpStreams` | (properties) what a client has read and will read | `SbcpServer` |
| `SbcpChat` | the chat client in place of the arbitrary clients, composed with main and handlers | `SbcpStreams` |
| `SbcpChatProofs` | theorems about `SbcpServer`, about the streams of its users, and about server and clients together | `SbcpChat` |
| `HandlerPool` | abstract specification of a server with a limited number of handlers | |
| `PidVector` | erase-remove on the list of pids both library servers keep | |
| `TcpServer`, `UdpServer` | the two library servers; each implements `HandlerPool` | `HandlerPool`, `PidVector` |
| `HttpProxy` | handler threads, cache, origin | |
| `HttpProxyProofs` | theorems about `HttpProxy` | |
| `HttpTestServer` | the proxy in front of the test server | `HttpProxy` |
| `TftpRead`, `TftpWrite` | the two halves of the handler with a client and a network | |
| `TftpReadProofs`, `TftpWriteProofs` | theorems about the two halves | `TftpRead`, `TftpWrite` |
| `Netascii`, `TftpStore` | the conversions, and the way the write handler uses them block by block | |
| `Echo` | echo client, echo handler, and the byte streams between them | |
| `EchoProofs` | theorem about `Echo` | |
| `SbcpMessage` | layout of the chat's messages, in C++ and Elixir: building, forwarding, reading | |
| `SbcpMessageProofs` | theorem about `SbcpMessage`, for messages and limits of any length | `SbcpMessage` |
| `HttpUri` | URIs of libhttp and of the proxy as texts, with the operations of `std::string` | |
| `HttpText` | first lines, headers and messages of libhttp as texts | `HttpUri` |
| `TftpPacket` | requests and errors of libtftp in their arrays | |
| `MCSbcpServer`, `MCSbcpChat`, `MCHttpProxy`, `MCEcho` | instances for TLC | |
| `MCServers` | TCP and UDP server side by side, with the fairness of their runs | `TcpServer`, `UdpServer` |
| `ServerProofs` | theorems about both servers, and their refinement of `HandlerPool` | `MCServers` |
| `FormatSamples` | what reading a URI, a TFTP packet or a netascii text has to give | `HttpUri`, `TftpPacket`, `Netascii` |
| `FormatProofs` | theorems about `FormatSamples` and `TftpStore`, for texts of any length | `FormatSamples`, `TftpStore` |
| `MCFormats` | samples of all formats for TLC | `FormatSamples`, `SbcpMessage`, `HttpText` |

Definitions whose comment says "Mutant of X" are faulty variants of X. They
occur in no specification; substituting one for X has to break a property, which
shows that the property depends on X.

### 2.1 SbcpServer

A step is one pass through a select loop or one blocking call of one process.
`sock[h]`, `inbox[h]` are the two directions of connection `h`; `mfifo[h]`,
`hfifo[h]` are the fifos `<pid>_main` and `<pid>_handler`; `boot` is the
bootstrap pipe; `hpc[h]`, `mpc` say where handler and main are; `mainEnd[h]`
says how far main has opened the fifos of `h`.

* Clients: `Accept`, `Drop` (libtcp accepts or refuses, limit `max_clients +
  num_extra_clients`; it counts children that ended and were not reaped yet, so it
  may refuse while fewer handlers run), `ClientSend`, `ClientRead`,
  `ClientClose`. A client sends what the clients of the repository send, in any
  order: JOIN, SEND, and IDLE without a username. An IDLE that brings a username is
  a matter of its layout and is in `SbcpMessage`; a message of any other type is
  read and dropped (`default`, `sbcp_server.cpp:205`) and is left out. A client that closes with unread messages resets the connection
  (RST); otherwise the handler sees end of file (FIN).
* Handler: `HandlerJoin` (mkfifo twice, write to the pipe), `HandlerRejoin`
  (a second JOIN: mkfifo fails and the handler returns past its cleanup),
  `HandlerOpenMain`, `HandlerOpenHandler`, `HandlerForward` (SEND, IDLE, with the
  wait for room in the fifo), `HandlerDiscard`, `HandlerEOF`, `HandlerReset` (the
  assertion in `read_message`), `HandlerShortRead` (the same assertions when a
  message arrives in pieces), `HandlerSigpipe`, `HandlerRelay`,
  `HandlerMainEOF`.
* main: `MainReadBootstrap`, `MainOpenMain`, `MainRefuse`, `MainRegister`,
  `MainAckTooLong` (`add_attribute` throws: names of any length fit up to
  `AckSure` of them, none do beyond `AckCap`, in between it depends), `MainReply`, `MainWrite` (one write
  of a broadcast), `MainSigpipe`, `MainForward`, `MainGoodbye`.

Choices of abstraction:

* A message carries the connection and number of its sender in place of text, so
  that it can be recognised wherever it arrives.
* The `select` of a loop and the work it selects are one step. What `select`
  prefers is in the guards: a handler serves its client's socket before main's
  fifo; main serves the pipe before the fifos, and these in the order of the
  names (`std::map`).
* A message is read in one step, or found to be short (`HandlerShortRead`). The
  constant `ShortReads` says whether this happens; `sbcp_blocked`, whose
  counterexample does not need it, leaves it out to stay small.
  Ill-formed messages are not modelled.
* `max_clients`, an argument of the program, is a variable that `Init` takes from
  `Limits` and nothing changes; 0 is a value it may have.
* The pipe never reports end of file to main, because main keeps its write end.
* Erase-remove on `online_users` is `RemoveIndex`. Pids of handlers are not used
  twice. The socket buffers are unbounded, the fifos hold `FifoCap` messages.
* `MaxSends` bounds the messages of all clients together, JOINs included, so
  that TLC finishes.

`SbcpChat` replaces the client actions by those of `sbcp_client.cpp`: `CConnect`,
`CJoin`, `CAnswer`, `CRead`, `CServerClosed`, `CIdle`, `CSay`, `CQuit`, `CClose`, and
`CKilled`: an interrupt or a crash at any moment, also while the client waits for the
answer to its JOIN.
The client serves its socket before stdin, so it does not write to a handler it
could know to be gone. Input comes a line at a time, as from a terminal.

### 2.2 HandlerPool, TcpServer, UdpServer

`HandlerPool` is what a user of the libraries relies on: a connection is
admitted only when a slot is free, a slot is freed only after its handler
finished, the limit changes only while the server is down, and closing waits for
all handlers unless the server was killed (`Abandon`).

`TcpServer` has one action for each branch of the server: `Bind`, `Loop`
(`reap_clients` at the head of the loop), `SelectReady`, `SelectTimeout`,
`SelectFails`, `accept_drop`, `accept_serve`, `accept_fails`, `join_clients`, and
for its owner `set_max_clients`, `start`, `start_again`, `stop`, `exec_returns`.
The configuration is a tuple `config` of variables chosen once in `Init`:
`use_thread`, `timeout` (whether one is set; without one the loop blocks in
`accept`) and `max_timeouts`. `timeout_count` counts only when `max_timeouts > 0`.
`fork_fails` is a failing `fork` under `exec()`. `start_again` is a second `start()` in
thread mode on the same address, whose `bind` fails and ends the process. In `Pool` a connection's state maps
to its fate (`Fate`) and the pids in `clients` to the slots. Thread mode keeps no
list of handlers, and does not limit them: its steps map to a pool that stays
closed, so that the refinement says something about process mode only.
`UdpServer` is the same for packets. `MCServers` chooses one of the two in its
initial state, so that every property is checked of both. The fork of the server by `start()` and
the loop in the caller's process by `exec()` are both actions.

### 2.3 HttpProxy

One process per handler thread: `Request`, `Find`, `ServeHit`, `OriginOk`,
`OriginNotModified`, `Reuse` (`cache->at`), `ReuseThrows`, `Evict`, `NoEvict`,
`Emplace`. Between any two of these another thread may run. `Race` is the undefined
behaviour of two threads in the map of which one changes it: the map may survive
or the process may end. `UseFreed` is the use of a reference to an erased entry.
`Dies` is everything by which one connection ends the process for all: an
exception of the parser, `exit()` of the TCP client, SIGPIPE. The origin is
external: a resource has a version and a modification time; an answer has a
version and perhaps an expiration time. Nothing stops it from answering 304 to a
request without a condition, and the proxy handles that as any other 304. `Tick` and `Modify` advance it.

`HttpTestServer` puts `http_server.cpp` in the place of the origin: `TestOk` counts
the answers of a route and dates them as `test_1` to `test_7` do (`Expiration`),
`TestNotModified` is the 304 of `/test5`, `TestNotFound` the 404. Ten seconds, a
minute and a month are the small numbers `TEN`, `SIXTY` and `MONTH`.

### 2.4 TFTP

In `TftpRead` the file is chosen in `Init`: `full` blocks and perhaps a part
(`rest`), the empty file included. `TftpRead` and `TftpWrite` have one action per branch of the two loops of
the handler and a client that follows the protocol (external). The network is
two sets of packets: any packet may be received in any order, again, or never.
Assumption: a packet does not survive until its number comes round again
(`Alive`); without it no protocol with numbers of fixed width works. `ReadFails` is the
ICMP error a handler gets when the client's port is closed: the code ignores the
result of `read()` and looks at the old contents of its buffer. These hold an
earlier ACK or, in the first round, anything; old contents that happen to be
exactly the expected packet are left out. Time is not modelled: a timeout may happen at any moment of a
wait. `select` may fail, which leaves the loop (`SelectFails`); the branch for `EINTR`
cannot be taken, because neither `tftp_server.cpp` nor libudp installs a signal
handler.

A written block goes through two streams, and no call looks at the state of either.
What is in the `stringstream` or in the buffer of the `ofstream` is `held`; after a full
block it may reach the file (`Flush`), at the return it does. The `ofstream` may fail
to open (`Open`) and to write (`WriteFile`), from when on nothing arrives any more
(`fileGood`). In netascii mode reading the `stringstream` may hit its end, from when on
it takes nothing, and old characters of `data` may be written (`StreamFails`, `ssGood`,
`Junk`). When exactly it does is arithmetic on characters and left to `TftpStore`.

A request may name an unknown mode (`mode`): `from_string` throws and the handler is gone
without an answer (`BadMode` in `TftpRead`, the state `aborted` in `TftpWrite`); an opcode
that is no request is answered with an error (`IllegalOperation`).

`Netascii` gives the two conversions as they consume their stream, `TftpStore`
the arithmetic of the write handler with the `stringstream` between blocks.
The mode is the variable `netascii`. `BlockLen` and `Slack` stand for 512 and 257,
which is 512 / 2 + 1. Once the stream
has failed what is stored is the marker `stale`.

### 2.5 Echo

A byte is its position in the input, so that order and loss show. `Fgets` cuts a
line at `BufSize - 1` bytes and, by `strlen`, at a NUL; `WriteChunk` and
`HandlerWrite` are one `write` of `writen`, which takes between one byte and what
fits in the stream (`Cap`); `ReadByte` is one turn of `readline`; `HandlerRead` takes
any number of bytes that are there. Either side may find the other one gone:
bytes written then are lost, or SIGPIPE ends the writer (`WriteLost`,
`HandlerWriteLost`). `Connect` covers a refused connection and libtcp's limit.

### 2.6 Formats

`SbcpMessage` keeps the bytes of a payload. A value is followed by no NUL and read
as a C string (`c_str`); lengths are in network order, types in host order. Its
initial messages are those of every constructor of libsbcp and of the Elixir client. Its
actions `Forward` and `ForwardIdle` are the server's extension of a message; an IDLE may
have a name already, and gets another. `Overrun` is the undefined behaviour of a name or
a text beyond its limit.
`HttpUri` and `HttpText` take texts as sequences of symbols: the characters the code
looks for, and words it handles as a whole. The helpers at the head of `HttpUri` are
those of `std::string`, with positions that wrap around like `size_t`. The operators of
`HttpText` give a value, `Throws` or `Diverges`. `TftpPacket` keeps the characters of the two arrays;
"?" is one that was never written.

## 3. Runs

Every run is complete: TLC explores all states of the instance.
`CHECK_DEADLOCK FALSE` is given everywhere because clients and requests are
finite in number and processes end.

| Run | Instance | Shows |
|---|---|---|
| `sbcp_server` | 3 arbitrary clients, 3 names, 0 or 3 seats, 3 messages, fifos of 1, an ACK that holds 1 name surely and 2 at most | `TypeOK`; main's tables are one (`RegistryConsistent`); the order of opens (`Handshake`); what a user has read and will read adds up to the users online (`RosterAgreement`), in a legal order (`StreamWellFormed`), under the right name (`Attribution`); a name changes hands only when it is free (`NoTakeover`) |
| `sbcp_chat` | 2 chat clients, 1 or 2 seats, 4 messages, fifos of 1, fair | the answer comes first (`FirstIsAnswer`), a refusal is told before the close (`RefusalIsTold`), main dies only of an ACK without room, or on account of a client that left, was killed or whose message came in pieces (`OnlyLeaversKillMain`), idleness is reported once (`IdleToldOnce`), nothing is lost, doubled or reordered (`NothingLost`), every JOIN is answered (`ClientAnswered`), every leaver forgotten if main comes to serve its fifo (`LeaverForgotten`) |
| `sbcp_blocked` | 2 clients, 8 messages, none of them in pieces, fair | finding: `BroadcastFinishes` |
| `http_proxy` | 2 threads, 2 URIs, 1 entry, 2 instants, 2 versions | `HitIsFresh`, `EntriesGenuine`; the overshoot of the size is at most the number of other threads (`RoomPromised`) |
| `http_proxy_stale` | 1 thread, all routes of the test server and one it does not have, 2 entries | finding: `StaleReplaced` |
| `tftp_read` | files of 0 to 4 full blocks with or without a part, numbers modulo 3, 3 timeouts, good and bad requests, fair | `InOrder`, `InStep`; the end of the file is not missed (`DoneIsComplete`) and not claimed early (`FinishedIsDelivered`); the handler of a client that left gives up (`SilentClientLeft`) |
| `tftp_write` | 3 blocks with numbers modulo 2, 2 handlers for a repeated request, 2 timeouts, all modes, streams that may fail | what is written is the beginning of the upload (`BlocksGenuine`); `InStep`; the upload is lost in three ways only (`UploadStored`) |
| `tftp_store` | both modes, all uploads of up to 2 full blocks of 3 and a short one over CR, LF, NUL and another character | the file is the upload while the stream is good, always in octet mode (`GoodIsStored`) |
| `tftp_store_netascii` | up to 3 blocks of 6 over CR and LF | finding: `StoredIsSent` |
| `servers` | 3 connections or packets, limits 1 and 2, both transports and modes, with and without timeouts, fair | `TypeOK`, no child is forgotten (`ChildrenTracked`), `ImplementsPool`, `ZombiesReaped`, `ExecReturns`, `ConnectionAnswered` |
| `echo` | all texts of up to 7 bytes (text, newline, NUL), buffers of 4 and 2, streams of 2 bytes, fair | nothing is lost, doubled or reordered (`Conserved`); every line is printed and the client returns (`EveryLineEchoed`) |
| `formats` | SBCP values of up to one more than their limits of 4 (names), 3 (texts) and 2 (reasons), ACKs of up to 2 names, all in payloads of 20 bytes; URIs of up to 5 symbols; HTTP messages of up to 2 headers, cut at every place; TFTP names of up to 5 with a limit of 3; netascii texts of up to 6 | `SbcpReadBack`, `UriReadBack`, `HttpReadBack`, `TftpReadBack`, `NetasciiReadBack` |

Why the bounds are enough for the cases that matter: two clients give a message
from one to the other, a leaver during a broadcast, two claims to one name;
a third makes a broadcast of two writes. With limit 0 everybody is refused and the third
connection reaches the limit of libtcp; with limit 1, in `sbcp_chat`, two clients
compete for one seat, also for the one a leaver gives back. Fifos
of one or two messages make every write block. Names are numbers, so main's order of names is
kept while handlers are symmetric. One entry in the cache makes every insertion
evict. Seven bytes are more than both streams and the handler's buffer hold,
and a line of them takes several turns of every loop, so that `LinesFit` tells the
lines that come back from those that block both programs; lengths in `formats` go
beyond each limit, and two names of an IDLE may be together within the limit of a name or
beyond it. Four blocks with numbers modulo 3, and three modulo 2, wrap around. Texts of up to eight
characters hold every meeting of two special sequences, within a block and across
its end. Three connections with limits 1 and 2 give
refusals, reuse of a slot and a list of two children.

Fairness. `FairChatSpec`: the scheduler runs main, handlers and clients that are
not blocked (weak fairness of each process); users need not type, join or leave.
Since main may block for ever (`sbcp_blocked`), the two liveness properties of the
chat assume that it does not (`MainFlows`), and except a main that died.
`LeaverForgotten` assumes also that main comes to serve the fifo of the leaver
(`ComesToServe`): main serves one ready fifo in a round, the first in the order of the
names (`sbcp_server.cpp:450-496`), so a user that never stops sending starves every user
behind it, and nothing in the code guarantees that it stops. Within the `MaxSends` of the
run it has to stop; the assumption is stated so that the property does not rest on that.
Servers: the loop runs when it is not waiting, handlers return (weak); `select`
and `accept` do not fail for ever (strong, since a failure goes back to the head
of the loop). Echo: client and handler run
when no call keeps them waiting (weak). TFTP: the handler runs, `select` times out (weak), and no ACK
travels for ever (`Expire`). Nothing is assumed of losses or of clients.

### Findings

Three runs end in a counterexample; `PROJECT.json` quotes for each the line of the
repository it contradicts.

* `sbcp_blocked`: main and a handler each wait for room in a fifo the other
  should read.
* `http_proxy_stale`: `emplace` does not replace a stale entry; the test server's own
  test 4 shows it.
* `tftp_store_netascii`: a netascii upload with many line ends is cut off.

Other behaviour of the code that a reader may not expect is part of the models, as
an action, or as an exception that a checked property states:

* A client that leaves or is killed, during a broadcast or while main is about to
  answer its own JOIN, ends main by SIGPIPE (`MainSigpipe`); so does one whose message
  arrives in pieces. `ClientAnswered` and `LeaverForgotten` except a main that died.
* A user that never stops sending keeps main from every user behind it in the order of the
  names (the assumption `ComesToServe` of `LeaverForgotten`).
* An IDLE that comes with a username is extended by a second one without a check
  (`add_username`, `sbcp_server.cpp:486`). Unless both names are short, every receiver's
  `validate` refuses the message (`Overnamed` in `SbcpReadBack`); `read_message` returns
  after the header, so the payload is left in the fifo and taken for the next message.
  No client of the repository sends one.
* A message that arrives in two pieces, which TCP is free to do, fails the same
  assertions as a reset (`HandlerShortRead`).
* A name or a text followed by another attribute is read with one byte too many, the
  type of that attribute: the names in an ACK of several users end in a stray `\2`.
  Behind a full payload reading leaves the message (`Beyond` in `SbcpReadBack`).
* A name of more than 16 bytes or a text of more than 512 is copied past the end of its
  attribute (`Overrun`); the Elixir client sends it uncut and the server refuses the message.
* The Elixir client numbers FWD 6, which is OFFLINE; the server's FWD is 3, which
  that client does not know (`MP2/lib/sbcp.ex:7`).
* A URI whose first colon stands behind its last `#` is written with its fragment
  twice (`UriReadBack`).
* A request that is cut off in its headers and has a colon in its first line may
  keep the header loop busy for ever, since `npos + 2` is 1 (`HttpReadBack`). A response
  whose body is cut off is taken, and cached, as it is.
* A TFTP filename beyond 128 characters is used in full, and its end is taken for
  the mode (`TftpReadBack`). An unknown mode ends the handler without an answer.
* A line longer than both directions of the connection hold leaves echo client and
  handler blocked in `write` (the premise `LinesFit` of `EveryLineEchoed`); bytes
  behind a NUL are not sent.
* For test 6 the proxy takes Last-Modified, a month ago, as the expiration time, so
  the entry is stale at once and not served as `http_server.cpp:86` describes.
* A reset connection fails the assertion in `read_message`, and the fifos of the
  handler stay behind (`HandlerReset`).
* The mutex handed to the proxy's threads is never locked (`Race`, `UseFreed`), and
  `cache->at` throws for an entry evicted during its revalidation (`ReuseThrows`).
* Revalidation is asked for with the expiration date, so the origin may answer
  "not modified" for a changed resource (`OriginNotModified`). The same answer to a request
  without a condition makes the proxy look for an entry that need not be there
  (`ReuseThrows`).
* An empty file is answered with silence (the exception in `FinishedIsDelivered`).
* A failed `read()` resets the timeouts, so a handler whose blocks bounce off a
  closed port goes on (the exception in `SilentClientLeft`).
* An upload is acknowledged to its end though it is not stored, in three ways, which
  are the exceptions of `UploadStored`: two handlers of a repeated write request both pass
  the check for an existing file, and the second truncates it (`OnlyWriter`); the file
  could not be opened or written, which lines 140 and 204 of `tftp_server.cpp` do not look
  at (`fileGood`); a netascii stream was read to its end (`ssGood`).
* After the last block of an upload nobody is left to repeat the last ACK
  (`Return`): the file is complete (`UploadStored`), the client may not know.
* In thread mode the limit does not limit, and setters and `start()` do not notice
  a running server (`start_again`, which fails in `bind` and calls `exit()`):
  `ImplementsPool` is about process mode.

## 4. Proofs

Each theorem holds for every value of the constants that satisfies the assumptions
named in the modules. A module of proofs states its inductive invariant first; one
step per action shows that it is kept.

`SbcpChatProofs`, for every set of handlers and names and every limit:

* `Invariance`: `IInv == TypeOK /\ RegistryConsistent /\ Handshake` holds in every
  state. `RegistryConsistent` alone is not inductive: that a new user may be
  entered needs to know where main is and that the handler it is working on is
  not registered yet, which is `MainConsistent`; that in turn needs
  `PipeConsistent`, that the handlers in the pipe are distinct and still waiting
  in their first `open`. The pipe and the registry are treated by lemmas about
  sequences without duplicates.
* `TypeCorrect`, `RegistryCorrect`, `HandshakeCorrect`: its parts.
* `NamesAreKept`: the action property `NoTakeover`.
* `MessagesAreAttributed`: `Attribution`. It speaks of the messages a user will
  read; where they come from is `StreamInv`, which follows a message through the
  connection, the handler's fifo, main's hands and the reader's fifo and connection
  (`Underway`), and a name from the pipe through main into the registry
  (`NamesKnown`). One lemma per queue (`SockFlow`, `HfifoFlow`, ...) says where a new
  member may come from in any step.
* `RostersAgree`, `StreamsAreWellFormed`: `StreamsRead` states both properties as one
  predicate `Reads` of a user's stream, of what it was shown and of main's list, and
  adds that an answer is on its way to a user that was told nothing. Neither is
  inductive alone: an `ONLINE` is legal because the roster agrees, and the roster agrees
  after an `OFFLINE` because the stream was legal. A stream changes in three ways only,
  a message read from its head (`ReadsTail`), one that moves between its buffers, and
  one that main adds at its end as its list changes (`ReadsAppend`; `ReadsFirst` for the
  ACK of a newcomer). `Settled` adds who is listening at all.
* `NoMessageIsLost`: `NothingLost`. `Numbered` says that the messages in a client's
  connection and its handler's fifo are numbered up to the last one sent, so that their
  number says which was the last that main took (`Taken`); `Trails` says that the stream
  of every other user leads up to that one; `Sources`, that a user's messages
  are nowhere before main has answered it, so that a newcomer begins with none.

The same module, with `sbcp_client` in the place of arbitrary clients. A step of the chat is a step of `SbcpServer` (`ChatIsServer`), so that what
was proved of the server holds of the chat.

* `ChatInvariance`: `ChatInv` says for each connection how far its JOIN has come:
  not sent (`Unjoined`), not read by the handler (`Unread`), not answered by main
  (`Unanswered`), answer not read (`Waiting`), answered (`Answered`), and what the
  queues and both processes hold in that phase.
* `AnswerComesFirst`, `RefusalsAreTold`: the client's assertion on its first
  message, and that no refusal is silent.
* `IdlesAreToldOnce`: `IdleToldOnce`. `IdleInv` speaks of numbers in place of streams: no
  two IDLEs under way have successive numbers, and a client whose last message was one
  has its flag `idle` set. What stands between two IDLEs in a stream then
  follows from `NothingLost`; that it is no JOIN, from `JoinsRead`.
* `LeaversAloneKillMain`: `OnlyLeaversKillMain`. A dead main had more users than surely
  fit in an ACK, or holds the fifos of a handler that is gone; and that handler is gone
  because its own client has left or was killed, or a message of it came in pieces. For
  this the proof adds to `ChatInv` that a handler that ended though its client is still
  there ended because main let go of it (`LeftAlone`).

`ServerProofs`, for every set of peers and every limit, process and thread mode:

* A step of the UDP server is a step of the TCP server in process mode
  (`UdpStep`), so one invariant serves both.
* `Invariance`: `IInv` is `TypeOK`, `Listed` (the list of pids has no repetitions and
  holds the running and ended children) and `ServerKnown` (what `server_pid` tells of
  the server process, and that there is no list before the loop). From it
  `TypeCorrect` and `ChildrenAreTracked`. Reaping rests on a lemma about `Without`: the
  elements that stay are in the list, once.
* `PoolIsImplemented`: the initial states are initial states of `HandlerPool` and
  every step maps to a step of it or changes nothing there. `ServerKnown` is what
  shows that a limit changes, and the pool opens, only while it is empty.

`TftpReadProofs` and `TftpWriteProofs`, for every length of file, number of handlers
and of timeouts and every modulus of at least 2. Both rest on one fact on
numbers modulo M, that counts less than M apart with the same number are the same
(`SameNumber`). Packets may be lost, repeated and reordered as in the model.

* Reading: `InStep` is not inductive, because an old ACK may arrive at any time. `IInv`
  adds that every packet under way was really sent (`PacketsGenuine`), what the
  server's buffer holds (`BufferHolds`), and how far server and client are apart and
  where they see the end of the file (`Counts`). From it `StoredInOrder`,
  `ServerInStep`, `DoneHasAll` and `FinishedHasDelivered`.
* Writing: the same, with several handlers of which only the one the client talks to
  receives blocks (`Counts`), and `PiecesKept`: what an only writer has brought to the file
  are the first blocks of the upload, and while neither of its streams has failed every
  received block is held or in the file. That a block goes one way or the other is one
  lemma for `Flush` and one for `Return`, over all outcomes of `WriteFile`. From it
  `BlocksAreGenuine`, `ClientInStep` and `UploadIsStored`.

`HttpProxyProofs`, for every finite set of threads, every set of URIs and every
size:

* `Invariance`: `IInv` is `TypeOK`, finiteness of the cache, `HitIsFresh` and
  `RoomPromised`. The bound on the cache is not inductive: a thread that
  found room has not used it yet, so `RoomPromised` counts the threads about to
  insert against the room left.
* `RoomIsPromised` and from it `CacheStaysBounded`; `HitsAreFresh`, which speaks of
  threads whose entry was not freed under them; `EntriesAreGenuine`.

`EchoProofs`, for every set of inputs and all sizes of buffers and streams:

* `EchoConserves`: `Conserved`. The invariant adds that a buffer is empty unless its
  owner is writing or reading (`Buffers`), since a read replaces its contents. The
  proof is about concatenation: a prefix that moves from the head of one piece to
  the end of the one before it leaves the whole as it is (`MoveHead`).

`FormatProofs`, for texts of any length:

* `UploadsAreStored`: `GoodIsStored`, for every length of a block and every slack up to
  it, and any characters. `StoreInv` is `GoodIsStored` with two changes. It speaks of every
  continuation of the text (`Whole`): a CR at the end of what was read so far is decided
  by the block after it, so that only `Decode(sent \o t) = file \o Decode(ss \o t)` for
  every `t` survives a step. And it knows that octet mode never spoils the stream.
  As long as the stream is good, no pass over a block has asked what comes behind its
  end, so that it reads what it would read of the whole text (`GoodRead`, `DecodeFrom`).
* `NetasciiComesBack`: `NetasciiReadBack`. What one turn of `ToNetascii` writes, one or
  two turns of `ToUnix` read back, whatever follows (`DecodePair`, `DecodeChar`).
* `TftpPacketsComeBack`: `TftpReadBack`, for all limits and strings. Each accessor reads up
  to the first NUL it meets (`string_at`); the proof locates it on both sides of each limit.
* `UrisComeBack`: `UriReadBack`. The positions `find` and `find_last_of` return are
  the first and the last of their kind, and a text is put together from its
  parts around them (`SplitAt`).

`SbcpMessageProofs`, for all names and texts, all lists of users, and all limits that
satisfy `PayloadAssumption`: a FWD, a NAK and an IDLE with two names, each of the greatest
length, fit into the payload, and the payload's length into 16 bits. The limits of
`sbcp.hpp` do.

* `ChatMessagesComeBack`: `SbcpReadBack`, of every message a constructor of libsbcp or the
  Elixir client builds. It relates a message to what it was asked to
  carry only by reading it, so it says nothing of the bytes a step adds to.
  `MessageInv` therefore distinguishes four kinds of message. A `Sound` one is `Laid` out:
  there is a function that gives the end of each attribute, the bytes between are the
  attribute's header and value, and the rest of the payload is 0. Adding an attribute keeps
  this (`PutLaid`, `AddIs`), and so does another header (`Retyped`). A `Rejected` one comes
  from the Elixir client with a value beyond its limit; the server forwards none
  (`validate`). An `Overlong` one is an IDLE whose two names are together beyond the limit of a
  name: its length is enough to know that it is refused. A `Failed` one was never finished. `AckHolds` follows an ACK name by name,
  with the bytes asked for so far, to know when there was no room.
* Reading a sound message visits the ends `Laid` speaks of: the iterator (`WalkLaid`), the
  Elixir client (`ExLaid`). A C string ends at the first NUL behind the value: the second
  byte of the next header, or the first byte never written; behind a full payload there is
  none (`StringLaid`, `EndIs`, `NoEnd`).

`Decode`, `Encode`, `Unix` and the walks over a message are recursive functions of a
position. That such a function exists, is unique, and has a property at every position is
proved by least counterexample: a set of naturals that is not empty has a least member
(`LeastFailure`, from `WFMin` of the library). This is induction without an operator as
a parameter, which the provers could not instantiate.

Assumptions are those named in the modules: `NoFd` is not a handler, names are
positive numbers, limits are naturals, fifos hold at least one message; the set of
threads is finite and `NoEntry` is not an entry; a TFTP block number has at least two
values; buffers and streams are not empty, the line buffer has room for a byte and
its NUL.

Only model-checked:

* all liveness properties: fairness and `ENABLED` are beyond the prover;
* `HttpReadBack`: the loop over the headers, which may diverge, is a RECURSIVE operator
  with fuel, and a module that reaches one cannot hold a theorem.

## 5. Not modelled

* Chat clients that send other messages than JOIN, SEND and a plain IDLE to the running
  server (section 2.1), and a second `start()` of a threaded server on a changed address.
* libhttp: the digits of dates and versions, the texts of status codes, and
  `URI::encode`, which nothing calls. What the proxy reads from a message (URI,
  status, dates) is a value in `HttpProxy`.
* libsbcp: `operator[]`, the text of the stream output, and messages whose
  attributes do not add up. libtftp: the texts of opcodes and errors.
* Name resolution in the TCP and UDP clients.
* The tasks that run the Elixir client and server: they print what they get. The
  HTTP client program: it fetches a page and prints it.
* The sample programs under `MP1/chatgpt` and `MP2/chatgpt`: generated for comparison,
  built by nothing. The ns-2 script: its behaviour is that of the simulator.
* The SIGUSR1 handler of the proxy, which prints the cache; memory; real time.
* The choice of a handler when several connections wait.

Hazards that no property here covers. Six of them are steps of the models that nothing in
the code prevents, so that there is nothing to claim:

* `libsbcp/src/sbcp.cpp:185`: an ACK without room for all names throws in main
  (`MainAckTooLong`); main and its registry are gone then.
* `MP4/src/http_proxy.cpp:134`, `:137`, `:177`: threads in one map without a lock (`Race`), a
  reference used after its entry was erased (`UseFreed`), an entry gone when it is looked up
  again (`ReuseThrows`). The properties of the proxy are about the executions in
  which none of these ends the process.
* `libtcp/src/server.cpp:314`: the handlers of a server that was killed go on as orphans.
* `MP3/src/tftp_server.cpp:130`: an unknown mode is answered with silence (`BadMode`).

The others lie outside the models:

* `MP2/src/sbcp_client.cpp:147`: `select` looks at the descriptor of stdin while
  `getline` reads ahead, so lines that arrive together by a pipe are seen one input
  later. The model takes a line at a time, as a terminal delivers it.
* `MP4/src/http_proxy.cpp:76`: the SIGUSR1 handler walks the map while threads
  change it, the same missing synchronisation as in `Race`.
* `MP4/src/http_proxy.cpp:155`: the date sent for revalidation is the expiration time;
  `EntriesGenuine` allows any version the origin had.
* `libtcp/src/client.cpp:107`: an origin that cannot be reached ends the proxy for all
  connections (`Dies`); nothing in the code limits it.
* `MP3/src/tftp_server.cpp:106`: a repeated ACK restarts the full timeout without a new
  transmission. Real time is not modelled.
* `MP3/src/tftp_server.cpp:210`: an upload that was given up leaves a partial file, and
  every retry is refused because the file exists.
* `libtcp/src/server.cpp:241`: with timeout 0 children are reaped before `accept` blocks,
  so a connection may be refused for handlers that ended in between. `HandlerPool`
  allows it: a slot is free only once it was released.
* `libudp/src/server.cpp:397`: the server process never frees the buffer of a first
  packet.
* `MP1/src/echo_client.cpp:32`: for a line that begins with a NUL the byte before the
  buffer decides how the client goes on (`WriteNothing`); the properties of `Echo` are
  about text without NUL bytes.

## 6. Plan

Done: all modules of section 2, their runs, the proofs of section 4. Next:

1. Composition: libtcp under the chat server in place of `Accept` and `Drop`,
   libudp under the TFTP server, so that a repeated request and the pool of
   handlers are one specification.
2. Netascii on the read side, blocks cut from the converted stream.
