------------------------------ MODULE TftpRead ------------------------------
(***************************************************************************)
(* A read request (RRQ) of the TFTP server, MP3/src/tftp_server.cpp: one    *)
(* server process sends a file in blocks and waits for the ACK of each.     *)
(* UDP may lose, duplicate and reorder packets.  Block numbers are wire     *)
(* numbers modulo BlockMod; packets also carry the count of blocks behind   *)
(* their number, which no program reads.  The client is an external TFTP    *)
(* client: it acknowledges every block, and again when a block is repeated. *)
(***************************************************************************)
EXTENDS Integers, Sequences, FiniteSets

CONSTANTS
  MaxBlocks,    \* bound: blocks of TFTP_MAX_DATA_LEN bytes in the file
  BlockMod,     \* 2^16: block_num is uint16_t
  MAX_TIMEOUTS  \* 5 in the code

ASSUME FileAssumption == MaxBlocks \in Nat
ASSUME BlockAssumption == BlockMod \in Nat /\ BlockMod >= 2
ASSUME TimeoutsAssumption == MAX_TIMEOUTS \in Nat \ {0}

VARIABLES
  full,      \* blocks of TFTP_MAX_DATA_LEN bytes in the file
  rest,      \* does a shorter piece follow them?
  request,   \* "good", or what is not known: its "mode" or its "opcode"
  spc,       \* "start", "wait", or how the handler returned
  pos,       \* pieces of the file read
  size,      \* size of the piece in data
  max_data,
  block,     \* blocks sent, the current one included
  timeouts,
  toClient,  \* packets under way to the client
  toServer,  \* packets under way to the server
  got,       \* pieces the client has stored
  cpc        \* "run", "done" or "gone"

fileVars == <<full, rest, request>>
serverVars == <<fileVars, spc, pos, size, max_data, block, timeouts>>
clientVars == <<got, cpc>>
vars == <<serverVars, toClient, toServer, clientVars>>

\* The pieces a reader of the file gets, and one of 0 bytes after a full one.
SizeOf(k) == IF k <= full THEN "full" ELSE IF k = full + 1 /\ rest THEN "part" ELSE "empty"

DATA(n, piece, sz) == [op |-> "DATA", num |-> n % BlockMod, count |-> n, piece |-> piece, size |-> sz]
ACK(n) == [op |-> "ACK", num |-> n % BlockMod, count |-> n]
ERROR == [op |-> "ERROR"]

Init ==
  /\ full \in 0 .. MaxBlocks /\ rest \in BOOLEAN
  /\ request \in {"good", "mode", "opcode"}
  /\ spc = "start" /\ pos = 0 /\ size = "empty" /\ max_data = FALSE
  /\ block = 1 /\ timeouts = 0
  /\ toClient = {} /\ toServer = {}
  /\ got = <<>> /\ cpc = "run"

-----------------------------------------------------------------------------
(* The server.                                                             *)

\* The default of the switch: the request is neither RRQ nor WRQ.
IllegalOperation ==
  /\ spc = "start"
  /\ request = "opcode"
  /\ spc' = "illegal"
  /\ toClient' = toClient \cup {ERROR}
  /\ UNCHANGED <<fileVars, pos, size, max_data, block, timeouts, toServer, clientVars>>

\* The file cannot be opened, whatever the mode is.
NotFound ==
  /\ spc = "start"
  /\ request # "opcode"
  /\ spc' = "notFound"
  /\ toClient' = toClient \cup {ERROR}
  /\ UNCHANGED <<fileVars, pos, size, max_data, block, timeouts, toServer, clientVars>>

\* Mode::from_string throws and nobody catches it: the process ends, the
\* client is not told.
BadMode ==
  /\ spc = "start"
  /\ request = "mode"
  /\ spc' = "aborted"
  /\ UNCHANGED <<fileVars, pos, size, max_data, block, timeouts, toClient, toServer, clientVars>>

\* Read the next piece and send it as block n; stop after a short one.
SendNext(n) ==
  LET sz == SizeOf(pos + 1) IN
    /\ pos' = pos + 1
    /\ size' = sz
    /\ \/ /\ sz = "empty" /\ ~max_data
          /\ spc' = "finished"
          /\ UNCHANGED <<max_data, toClient>>
       \/ /\ ~(sz = "empty" /\ ~max_data)
          /\ spc' = "wait"
          /\ max_data' = (sz = "full")
          /\ toClient' = toClient \cup {DATA(n, pos + 1, sz)}

Start ==
  /\ spc = "start"
  /\ request = "good"
  /\ SendNext(block)
  /\ UNCHANGED <<fileVars, block, timeouts, toServer, clientVars>>

\* Mutant of Timeout: retry is not set, so the next piece is read.
TimeoutReadsOn ==
  /\ spc = "wait"
  /\ timeouts + 1 < MAX_TIMEOUTS
  /\ timeouts' = timeouts + 1
  /\ SendNext(block)
  /\ UNCHANGED <<fileVars, block, toServer, clientVars>>

\* Mutant of Timeout: the buffer is filled again while the file has more.
TimeoutRefills ==
  /\ spc = "wait"
  /\ timeouts + 1 < MAX_TIMEOUTS
  /\ SizeOf(pos + 1) # "empty"
  /\ timeouts' = timeouts + 1
  /\ SendNext(block)
  /\ UNCHANGED <<fileVars, block, toServer, clientVars>>

\* Mutant of Timeout: timeouts are not counted.
TimeoutUncounted ==
  /\ spc = "wait"
  /\ toClient' = toClient \cup {DATA(block, pos, size)}
  /\ UNCHANGED <<serverVars, toServer, clientVars>>

\* Mutant of Timeout: data_length is lost between two rounds of the loop.
TimeoutSendsEmpty ==
  /\ spc = "wait"
  /\ timeouts + 1 < MAX_TIMEOUTS
  /\ timeouts' = timeouts + 1
  /\ toClient' = toClient \cup {DATA(block, pos, "empty")}
  /\ UNCHANGED <<fileVars, spc, pos, size, max_data, block, toServer, clientVars>>

\* No packet for TIMEOUT_SECONDS: send the block again or give up.
Timeout ==
  /\ spc = "wait"
  /\ timeouts' = timeouts + 1
  /\ \/ /\ timeouts + 1 < MAX_TIMEOUTS
        /\ toClient' = toClient \cup {DATA(block, pos, size)}
        /\ UNCHANGED spc
     \/ /\ timeouts + 1 >= MAX_TIMEOUTS
        /\ spc' = "gaveUp"
        /\ UNCHANGED toClient
  /\ UNCHANGED <<fileVars, pos, size, max_data, block, toServer, clientVars>>

\* select() fails: the loop is left.  EINTR, which would read the next piece
\* over this one, needs a signal handler; this program installs none.
SelectFails ==
  /\ spc = "wait"
  /\ spc' = "stopped"
  /\ UNCHANGED <<fileVars, pos, size, max_data, block, timeouts, toClient, toServer, clientVars>>

\* Mutant of ServerReceive: the number of an ACK is not compared.
ReceiveAnyAck(p, left) ==
  /\ spc = "wait"
  /\ timeouts' = 0
  /\ \/ /\ p.op # "ACK"
        /\ spc' = "stopped"
        /\ UNCHANGED <<pos, size, max_data, block, toClient>>
     \/ /\ p.op = "ACK"
        /\ block' = block + 1
        /\ SendNext(block + 1)
  /\ toServer' = left
  /\ UNCHANGED <<fileVars, clientVars>>

\* Any packet resets the timeouts; an ACK of another block is ignored.
ServerReceive(p, left) ==
  /\ spc = "wait"
  /\ timeouts' = 0
  /\ \/ /\ p.op # "ACK"
        /\ spc' = "stopped"
        /\ UNCHANGED <<pos, size, max_data, block, toClient>>
     \/ /\ p.op = "ACK"
        /\ p.num # block % BlockMod
        /\ UNCHANGED <<spc, pos, size, max_data, block, toClient>>
     \/ /\ p.op = "ACK"
        /\ p.num = block % BlockMod
        /\ block' = block + 1
        /\ SendNext(block + 1)
  /\ toServer' = left
  /\ UNCHANGED <<fileVars, clientVars>>

\* A packet to a client that has closed its port comes back as an ICMP error
\* and read() fails, which is not checked.  ack[] holds what the last read
\* left there, an ACK of another block; before the first read, anything.
ReadFails(p) ==
  /\ spc = "wait"
  /\ cpc \in {"done", "gone"}
  /\ p.op = "DATA"
  /\ toClient' = toClient \ {p}
  /\ timeouts' = 0
  /\ spc' \in IF block = 1 THEN {"wait", "stopped"} ELSE {"wait"}
  /\ UNCHANGED <<fileVars, pos, size, max_data, block, toServer, clientVars>>

-----------------------------------------------------------------------------
(* The client, outside this repository.                                    *)

want == Len(got) + 1

ClientReceive(p, left) ==
  /\ cpc = "run"
  /\ \/ /\ p.op = "ERROR"
        /\ cpc' = "gone"
        /\ UNCHANGED <<got, toServer>>
     \/ /\ p.op = "DATA"
        /\ p.num = want % BlockMod
        /\ got' = Append(got, p.piece)
        /\ cpc' = IF p.size = "full" THEN "run" ELSE "done"
        /\ toServer' = toServer \cup {ACK(want)}
     \/ /\ p.op = "DATA"
        /\ p.num # want % BlockMod
        /\ toServer' = toServer \cup {ACK(want - 1)}
        /\ UNCHANGED <<got, cpc>>
  /\ toClient' = left
  /\ UNCHANGED serverVars

\* It repeats its last ACK, also the final one when the block comes again.
ClientRepeats ==
  /\ cpc \in {"run", "done"}
  /\ got # <<>>
  /\ toServer' = toServer \cup {ACK(want - 1)}
  /\ UNCHANGED <<serverVars, toClient, clientVars>>

ClientGivesUp ==
  /\ cpc = "run"
  /\ cpc' = "gone"
  /\ toServer' = toServer \cup {ERROR}
  /\ UNCHANGED <<serverVars, toClient, got>>

-----------------------------------------------------------------------------
(* UDP.  A packet is received once, or more often when it is duplicated.   *)
(* It does not survive until its number comes round again.                 *)

Alive(p, n) == p.op \in {"DATA", "ACK"} => n - p.count < BlockMod

Deliver ==
  \/ \E p \in toServer : /\ Alive(p, block)
                         /\ ServerReceive(p, toServer \ {p}) \/ ServerReceive(p, toServer)
  \/ \E p \in toClient : /\ Alive(p, want)
                         /\ ClientReceive(p, toClient \ {p}) \/ ClientReceive(p, toClient)

Lose ==
  \/ \E p \in toServer : toServer' = toServer \ {p} /\ UNCHANGED <<serverVars, toClient, clientVars>>
  \/ \E p \in toClient : toClient' = toClient \ {p} /\ UNCHANGED <<serverVars, toServer, clientVars>>

Bounce == \E p \in toClient : ReadFails(p)

Next == \/ IllegalOperation \/ NotFound \/ BadMode \/ Start \/ Timeout \/ SelectFails \/ Bounce
        \/ ClientRepeats \/ ClientGivesUp \/ Deliver \/ Lose

Spec == Init /\ [][Next]_vars

\* The server runs, time passes, and no ACK travels for ever.
Expire(n) ==
  /\ ACK(n) \in toServer
  /\ toServer' = toServer \ {ACK(n)}
  /\ UNCHANGED <<serverVars, toClient, clientVars>>

FairSpec == /\ Spec
            /\ WF_vars(IllegalOperation \/ BadMode \/ Start) /\ WF_vars(Timeout)
            /\ \A n \in 0 .. MaxBlocks + 1 : WF_vars(Expire(n))

-----------------------------------------------------------------------------
(* Whatever UDP does, the client has stored the pieces of the file in      *)
(* order, each once: the block numbers and the ignored ACKs prevent gaps   *)
(* and repetitions, also when the numbers wrap around.                     *)
InOrder == \A i \in 1 .. Len(got) : got[i] = i

(* A client that is done has all of the file: the last block is the first  *)
(* one shorter than TFTP_MAX_DATA_LEN, an empty one after an exact multiple.*)
DoneIsComplete == cpc = "done" => Len(got) = full + 1

(* The server finishes only when the client has stored everything it was   *)
(* sent; it is never ahead by more than the block it waits for.            *)
InStep ==
  /\ spc = "finished" => Len(got) = block - 1
  /\ spc = "wait" => Len(got) \in {block - 1, block}

(* A read request that ends well ("finished reading the file and last      *)
(* block was less than max", line 54) has delivered the file, for every    *)
(* file that is not empty: for an empty one nothing at all is sent.        *)
FinishedIsDelivered ==
  spc = "finished" => cpc \in {"done", "gone"} \/ (full = 0 /\ ~rest)

(* MAX_TIMEOUTS: a handler whose client has gone away returns, "didnt get  *)
(* an ack back" (line 87), and frees its slot of MAX_CLIENTS.              *)
HandlerReturns == cpc = "gone" ~> spc \notin {"start", "wait"}

(* The same, unless blocks come back from the closed port again and again: *)
(* late, lost and repeated ACKs do not keep a handler alive.               *)
SilentClientLeft == []<><<Bounce>>_vars \/ HandlerReturns
=============================================================================
