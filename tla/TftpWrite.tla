------------------------------ MODULE TftpWrite ------------------------------
(***************************************************************************)
(* A write request (WRQ) of the TFTP server, MP3/src/tftp_server.cpp: the   *)
(* client sends a file in blocks, the handler acknowledges each.  libudp    *)
(* starts one handler process for every WRQ packet that arrives, so a       *)
(* repeated or duplicated request gives two handlers for the same file.     *)
(* UDP may lose, duplicate and reorder packets.  Block numbers are wire     *)
(* numbers modulo BlockMod; `count' is the number behind them, which no     *)
(* program reads.  The client is an external TFTP client: it talks to the   *)
(* first handler that answers.                                              *)
(***************************************************************************)
EXTENDS Integers, Sequences, FiniteSets

CONSTANTS
  Handlers,     \* one for each WRQ packet that reaches the server
  NoHandler,
  Blocks,       \* blocks of the upload; all but the last one are full
  BlockMod,     \* 2^16: block_num is uint16_t
  MAX_TIMEOUTS  \* 5 in the code

ASSUME HandlersAssumption == NoHandler \notin Handlers
ASSUME BlocksAssumption == Blocks \in Nat \ {0} /\ BlockMod \in Nat /\ BlockMod >= 2
ASSUME TimeoutsAssumption == MAX_TIMEOUTS \in Nat \ {0}

VARIABLES
  spc,       \* "none", "open", "wait", or how the handler returned
  block,     \* the block the handler waits for
  timeouts,
  held,      \* pieces in ss and in the buffer of the ofstream, bound for the file
  ssGood,    \* ss.good()
  fileGood,  \* was the ofstream opened and did all it wrote arrive?
  mode,      \* of the request: "netascii", "octet", or "unknown"
  exists,    \* does the file exist?
  file,      \* pieces in the file, and Junk
  toClient,  \* packets under way to the client
  toServer,  \* packets under way to the handlers
  cpc,       \* "request", "run", "done" or "gone"
  tid,       \* the handler the client talks to
  acked      \* blocks the client knows to be received

handlerVars == <<spc, block, timeouts, held, ssGood, fileGood, mode>>
fileVars == <<exists, file>>
clientVars == <<cpc, tid, acked>>
vars == <<handlerVars, fileVars, toClient, toServer, clientVars>>

\* Characters that are not from the upload.
Junk == 0

ACK(h, n) == [op |-> "ACK", h |-> h, num |-> n % BlockMod, count |-> n]
DATA(h, n) == [op |-> "DATA", h |-> h, num |-> n % BlockMod, count |-> n]
ERROR(h) == [op |-> "ERROR", h |-> h]

Init ==
  /\ spc = [h \in Handlers |-> "none"]
  /\ block = [h \in Handlers |-> 1]
  /\ timeouts = [h \in Handlers |-> 0]
  /\ held = [h \in Handlers |-> {}]
  /\ ssGood = [h \in Handlers |-> TRUE]
  /\ fileGood = [h \in Handlers |-> TRUE]
  /\ mode \in {"netascii", "octet", "unknown"}
  /\ exists = FALSE /\ file = {}
  /\ toClient = {} /\ toServer = {}
  /\ cpc = "request" /\ tid = NoHandler /\ acked = 0

-----------------------------------------------------------------------------
(* A handler.                                                              *)

Send(p) == toClient' = toClient \cup {p}

\* "check if file already exists".  Mode::from_string throws for a mode it
\* does not know, which ends the process; the client is not told.
Check(h) ==
  /\ spc[h] = "none"
  /\ \/ /\ exists
        /\ spc' = [spc EXCEPT ![h] = "exists"]
        /\ Send(ERROR(h))
     \/ /\ ~exists
        /\ spc' = [spc EXCEPT ![h] = IF mode = "unknown" THEN "aborted" ELSE "open"]
        /\ UNCHANGED toClient
  /\ UNCHANGED <<block, timeouts, held, ssGood, fileGood, mode, fileVars, toServer, clientVars>>

\* Opening the ofstream creates or truncates the file, or it fails, which is
\* not looked at; then ACK(0).
Open(h) ==
  /\ spc[h] = "open"
  /\ \/ exists' = TRUE /\ file' = {} /\ UNCHANGED fileGood
     \/ fileGood' = [fileGood EXCEPT ![h] = FALSE] /\ UNCHANGED fileVars
  /\ spc' = [spc EXCEPT ![h] = "wait"]
  /\ Send(ACK(h, 0))
  /\ UNCHANGED <<block, timeouts, held, ssGood, mode, toServer, clientVars>>

\* What the ofstream writes arrives, or it does not, and what is held never
\* will: no call looks at the state of the stream.
WriteFile(h, out, left) ==
  /\ \/ /\ file' = file \cup out
        /\ held' = [held EXCEPT ![h] = left]
        /\ UNCHANGED fileGood
     \/ /\ out # {}
        /\ fileGood' = [fileGood EXCEPT ![h] = FALSE]
        /\ held' = [held EXCEPT ![h] = {}]
        /\ UNCHANGED file
  /\ UNCHANGED exists

\* Mutant of Return: the remaining data is not written.
ReturnWithoutFlush(h, how, pieces) ==
  /\ spc' = [spc EXCEPT ![h] = how]
  /\ held' = [held EXCEPT ![h] = {}]
  /\ UNCHANGED <<fileVars, fileGood>>

\* The loop is left: what is still held goes to the file.
Return(h, how, pieces) ==
  /\ spc' = [spc EXCEPT ![h] = how]
  /\ WriteFile(h, pieces, {})

\* Mutant of Timeout: the ACK repeated is that of the block still missing.
TimeoutAcksNext(h) ==
  /\ spc[h] = "wait"
  /\ timeouts' = [timeouts EXCEPT ![h] = @ + 1]
  /\ Send(ACK(h, block[h]))
  /\ \/ /\ timeouts[h] + 1 < MAX_TIMEOUTS
        /\ UNCHANGED <<spc, held, fileGood, fileVars>>
     \/ /\ timeouts[h] + 1 >= MAX_TIMEOUTS
        /\ Return(h, "gaveUp", held[h])
  /\ UNCHANGED <<block, ssGood, mode, toServer, clientVars>>

\* The ACK is repeated after every timeout, the last one too.
Timeout(h) ==
  /\ spc[h] = "wait"
  /\ timeouts' = [timeouts EXCEPT ![h] = @ + 1]
  /\ Send(ACK(h, block[h] - 1))
  /\ \/ /\ timeouts[h] + 1 < MAX_TIMEOUTS
        /\ UNCHANGED <<spc, held, fileGood, fileVars>>
     \/ /\ timeouts[h] + 1 >= MAX_TIMEOUTS
        /\ Return(h, "gaveUp", held[h])
  /\ UNCHANGED <<block, ssGood, mode, toServer, clientVars>>

\* select() fails: the loop is left.  EINTR, which would repeat it, needs a
\* signal handler; this program installs none.
SelectFails(h) ==
  /\ spc[h] = "wait"
  /\ Return(h, "stopped", held[h])
  /\ UNCHANGED <<block, timeouts, ssGood, mode, toClient, toServer, clientVars>>

NotData(h, p) ==
  /\ p.op # "DATA"
  /\ Return(h, "stopped", held[h])
  /\ UNCHANGED <<block, ssGood, toClient>>

\* "repeat data block (our ack was lost)"
Repeated(h, p) ==
  /\ p.op = "DATA"
  /\ p.num # block[h] % BlockMod
  /\ Send(ACK(h, block[h] - 1))
  /\ UNCHANGED <<spc, block, held, ssGood, fileGood, fileVars>>

\* Nothing handler h was given has been dropped by its two streams.
Intact(h) == ssGood[h] /\ fileGood[h]

\* What is held after ss.write; a stream that has failed takes nothing.
Written(h, p) == IF Intact(h) THEN held[h] \cup {p.count} ELSE held[h]

\* A full block: what is held may reach the file.
Flush(h, pieces) == \E out \in {{}, pieces} : WriteFile(h, out, pieces \ out)

\* In netascii mode reading ss may hit its end: all of it is written then,
\* and perhaps what was in data[] before, and ss has failed for good.
StreamFails(h, p) ==
  /\ mode = "netascii"
  /\ Intact(h)
  /\ ssGood' = [ssGood EXCEPT ![h] = FALSE]
  /\ \E junk \in {{}, {Junk}} : Flush(h, Written(h, p) \cup junk)

\* Mutant of Store: the number of a block is not compared.
StoreAny(h, p) ==
  /\ p.op = "DATA"
  /\ Send(ACK(h, block[h]))
  /\ \/ /\ p.count < Blocks
        /\ block' = [block EXCEPT ![h] = @ + 1]
        /\ Flush(h, Written(h, p))
        /\ UNCHANGED <<spc, ssGood>>
     \/ /\ p.count = Blocks
        /\ Return(h, "finished", Written(h, p))
        /\ UNCHANGED <<block, ssGood>>

\* A full block is written to ss, and from there to the file but for the last
\* characters; a short one ends the loop.  Both are acknowledged.
Store(h, p) ==
  /\ p.op = "DATA"
  /\ p.num = block[h] % BlockMod
  /\ Send(ACK(h, block[h]))
  /\ \/ /\ p.count < Blocks
        /\ block' = [block EXCEPT ![h] = @ + 1]
        /\ \/ Flush(h, Written(h, p)) /\ UNCHANGED ssGood
           \/ StreamFails(h, p)
        /\ UNCHANGED spc
     \/ /\ p.count = Blocks
        /\ Return(h, "finished", Written(h, p))
        /\ UNCHANGED <<block, ssGood>>

HandlerReceive(p, rest) ==
  /\ spc[p.h] = "wait"
  /\ timeouts' = [timeouts EXCEPT ![p.h] = 0]
  /\ NotData(p.h, p) \/ Repeated(p.h, p) \/ Store(p.h, p)
  /\ toServer' = rest
  /\ UNCHANGED <<mode, clientVars>>

\* An ACK to a client that has closed its port comes back as an ICMP error and
\* read() fails, which is not checked: data[] holds an older packet, or the
\* text of the file, which is taken for a packet that is not DATA.
ReadFails(p) ==
  /\ spc[p.h] = "wait"
  /\ cpc \in {"done", "gone"}
  /\ p.op = "ACK"
  /\ timeouts' = [timeouts EXCEPT ![p.h] = 0]
  /\ \/ /\ Return(p.h, "stopped", held[p.h])
        /\ toClient' = toClient \ {p}
     \/ /\ toClient' = (toClient \ {p}) \cup {ACK(p.h, block[p.h] - 1)}
        /\ UNCHANGED <<spc, held, fileGood, fileVars>>
  /\ UNCHANGED <<block, ssGood, mode, toServer, clientVars>>

-----------------------------------------------------------------------------
(* The client, outside this repository.  It sends a block when the one     *)
(* before it is acknowledged, again when the answer takes long, and        *)
(* ignores other handlers than the first that answered.                    *)

ClientReceive(p, rest) ==
  /\ \/ /\ cpc = "request" /\ p.op = "ERROR"
        /\ cpc' = "gone"
        /\ UNCHANGED <<tid, acked, toServer>>
     \/ /\ cpc = "request" /\ p.op = "ACK"
        /\ cpc' = "run"
        /\ tid' = p.h
        /\ toServer' = toServer \cup {DATA(p.h, 1)}
        /\ UNCHANGED acked
     \/ /\ cpc = "run" /\ p.op = "ACK" /\ p.h = tid
        /\ p.num = (acked + 1) % BlockMod
        /\ acked' = acked + 1
        /\ \/ /\ acked + 1 = Blocks
              /\ cpc' = "done"
              /\ UNCHANGED toServer
           \/ /\ acked + 1 < Blocks
              /\ toServer' = toServer \cup {DATA(tid, acked + 2)}
              /\ UNCHANGED cpc
        /\ UNCHANGED tid
  /\ toClient' = rest
  /\ UNCHANGED <<handlerVars, fileVars>>

ClientRepeats ==
  /\ cpc = "run"
  /\ toServer' = toServer \cup {DATA(tid, acked + 1)}
  /\ UNCHANGED <<handlerVars, fileVars, toClient, clientVars>>

ClientGivesUp ==
  /\ cpc = "run"
  /\ cpc' = "gone"
  /\ toServer' = toServer \cup {ERROR(tid)}
  /\ UNCHANGED <<handlerVars, fileVars, toClient, tid, acked>>

-----------------------------------------------------------------------------
(* UDP.  A packet is received once, or more often when it is duplicated.   *)
(* It does not survive until its number comes round again.                 *)

Alive(p, n) == p.op \in {"DATA", "ACK"} => n - p.count < BlockMod

Deliver ==
  \/ \E p \in toServer : /\ Alive(p, block[p.h])
                         /\ HandlerReceive(p, toServer \ {p}) \/ HandlerReceive(p, toServer)
  \/ \E p \in toClient : /\ Alive(p, acked + 1)
                         /\ ClientReceive(p, toClient \ {p}) \/ ClientReceive(p, toClient)

Lose ==
  \/ \E p \in toServer : /\ toServer' = toServer \ {p}
                         /\ UNCHANGED <<handlerVars, fileVars, toClient, clientVars>>
  \/ \E p \in toClient : /\ toClient' = toClient \ {p}
                         /\ UNCHANGED <<handlerVars, fileVars, toServer, clientVars>>

Next == \/ \E h \in Handlers : Check(h) \/ Open(h) \/ Timeout(h) \/ SelectFails(h)
        \/ ClientRepeats \/ ClientGivesUp \/ Deliver \/ Lose
        \/ \E p \in toClient : ReadFails(p)

Spec == Init /\ [][Next]_vars

-----------------------------------------------------------------------------
\* What handler h has received, wherever it is.
Received(h) == 1 .. (IF spc[h] = "finished" THEN block[h] ELSE block[h] - 1)

\* No other handler has opened the file.
OnlyWriter(h) == \A g \in Handlers \ {h} : spc[g] \in {"none", "exists", "open", "aborted"}

(* Whatever UDP does, also when the numbers wrap around, and whichever of  *)
(* the two streams fails: a handler finishes with the last block only, and *)
(* what one that is alone has written are the first blocks of the upload,  *)
(* without a gap.  While neither stream has failed, every block it has     *)
(* acknowledged is held or in the file, and nothing else is.               *)
BlocksGenuine ==
  \A h \in Handlers :
    /\ spc[h] = "finished" => block[h] = Blocks
    /\ OnlyWriter(h) => \E k \in 0 .. Blocks : file \ {Junk} = 1 .. k
    /\ spc[h] = "wait" /\ OnlyWriter(h) /\ Intact(h) => Received(h) = held[h] \cup file

(* A client that is done talked to a handler that has received everything, *)
(* and client and handler are never more than a block apart.               *)
InStep ==
  /\ cpc = "done" => spc[tid] = "finished"
  /\ cpc = "run" /\ spc[tid] = "wait" => block[tid] - acked \in {1, 2}

(* An upload that ended well for the client is in the file, all of it and  *)
(* nothing else.  There are three ways to lose it and no other: a repeated *)
(* request brought a second handler past "check if file already exists"     *)
(* (line 119); the file could not be opened or written (lines 140, 204);   *)
(* or, in netascii mode only, the string stream was read to its end.       *)
UploadStored ==
  cpc = "done" /\ OnlyWriter(tid) /\ fileGood[tid] /\ (mode = "octet" \/ ssGood[tid]) =>
    file = 1 .. Blocks
=============================================================================
