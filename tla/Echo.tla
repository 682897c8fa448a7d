-------------------------------- MODULE Echo --------------------------------
(***************************************************************************)
(* The echo programs MP1/src/echo_client.cpp and echo_server.cpp over a     *)
(* connection of libtcp: the client's loop over the lines of stdin, the     *)
(* handler's loop of read and writen, and the two bounded byte streams      *)
(* between them.  A byte is its position in the input.                      *)
(***************************************************************************)
EXTENDS Integers, Sequences, SequencesExt

CONSTANTS
  Inputs,   \* what stdin may hold: sequences of "text", "nl" and "nul"
  BufSize,  \* sizeof(buf) of the client, 512
  HBufSize, \* sizeof(buffer) of the handler, 256
  Cap       \* bytes a stream holds before write() blocks

ASSUME BufSizeAssumption == BufSize \in Nat /\ BufSize > 1
ASSUME HBufSizeAssumption == HBufSize \in Nat \ {0}
ASSUME CapAssumption == Cap \in Nat \ {0}
ASSUME InputsAssumption == Inputs \subseteq Seq({"text", "nl", "nul"})

VARIABLES
  input,  \* the bytes of stdin
  pos,    \* how many of them fgets has taken
  cpc,    \* where the client is
  buf,    \* the part of buf that is being written, or was read so far
  out,    \* what the client has printed
  c2s,    \* bytes on the way to the handler
  s2c,    \* bytes on the way to the client
  reset,  \* did close() leave unread bytes, so that TCP sent a reset?
  hpc,    \* where the handler is
  hbuf    \* what the handler has read and not yet written

clientVars == <<input, pos, cpc, buf, out, reset>>
handlerVars == <<hpc, hbuf>>
vars == <<clientVars, c2s, s2c, handlerVars>>

ClientEnded == cpc \in {"returned", "failed", "killed"}
HandlerEnded == hpc \in {"dropped", "returned", "killed"}

Init ==
  /\ input \in Inputs
  /\ pos = 0
  /\ cpc = "connect"
  /\ buf = <<>>
  /\ out = <<>>
  /\ c2s = <<>>
  /\ s2c = <<>>
  /\ reset = FALSE
  /\ hpc = "none"
  /\ hbuf = <<>>

-----------------------------------------------------------------------------
(* libtcp.                                                                 *)

\* Mutant of writen: after a short write it starts again at msgbuf.
writen_again(s, k) == IF k < Len(s) THEN s ELSE <<>>

\* What is left of s after write() took k bytes of it: writen goes on there.
writen(s, k) == SubSeq(s, k + 1, Len(s))

\* write() takes at least one byte, at most what fits; else it blocks.
CanWrite(s, stream) == {k \in 1 .. Len(s) : Len(stream) + k <= Cap}

-----------------------------------------------------------------------------
(* The client.                                                             *)

\* Client::Client: no connection and exit, a handler, or libtcp's limit.
Connect ==
  /\ cpc = "connect"
  /\ \/ cpc' = "failed" /\ UNCHANGED hpc
     \/ cpc' = "fgets" /\ hpc' \in {"read", "dropped"}
  /\ UNCHANGED <<input, pos, buf, out, reset, c2s, s2c, hbuf>>

\* fgets takes a line, or BufSize - 1 bytes of it.
Chunk ==
  LET Ends(i) == i = Len(input) \/ i = pos + BufSize - 1 \/ input[i] = "nl"
      last == CHOOSE i \in pos + 1 .. Len(input) :
                Ends(i) /\ \A k \in pos + 1 .. i - 1 : ~Ends(k)
  IN  [k \in 1 .. last - pos |-> pos + k]

\* strlen stops at a NUL byte, which fgets does not.
ToNul(s) == LET nuls == {k \in DOMAIN s : input[s[k]] = "nul"}
            IN  IF nuls = {} THEN s
                ELSE SubSeq(s, 1, (CHOOSE k \in nuls : \A j \in nuls : k <= j) - 1)

Fgets ==
  /\ cpc = "fgets"
  /\ pos < Len(input)
  /\ pos' = pos + Len(Chunk)
  /\ buf' = ToNul(Chunk)
  /\ cpc' = "writen"
  /\ UNCHANGED <<input, out, reset, c2s, s2c, handlerVars>>

(* writen(buf, len), then buf[len - 1]: a whole line was sent, or fgets goes  *)
(* on.  What writen returns is not looked at.                                *)
WriteChunk(k) ==
  /\ cpc = "writen"
  /\ ~HandlerEnded
  /\ k \in CanWrite(buf, c2s)
  /\ c2s' = c2s \o SubSeq(buf, 1, k)
  /\ buf' = writen(buf, k)
  /\ cpc' = CASE buf' # <<>> -> "writen"
              [] buf' = <<>> /\ input[Last(buf)] = "nl" -> "readline"
              [] OTHER -> "fgets"
  /\ UNCHANGED <<input, pos, out, reset, s2c, handlerVars>>

\* len = 0 after a leading NUL: buf[len - 1] is a byte before buf, anything.
WriteNothing ==
  /\ cpc = "writen"
  /\ buf = <<>>
  /\ cpc' \in {"readline", "fgets"}
  /\ UNCHANGED <<input, pos, buf, out, reset, c2s, s2c, handlerVars>>

\* The other end is closed: the bytes are lost, or SIGPIPE ends the client.
WriteLost ==
  /\ cpc = "writen"
  /\ buf # <<>>
  /\ HandlerEnded
  /\ buf' = <<>>
  /\ cpc' \in {IF input[Last(buf)] = "nl" THEN "readline" ELSE "fgets", "killed"}
  /\ UNCHANGED <<input, pos, out, reset, c2s, s2c, handlerVars>>

\* Mutant of ReadByte: one readline for each line.
ReadOnce ==
  /\ cpc = "readline"
  /\ s2c # <<>>
  /\ LET line == Append(buf, Head(s2c))
         done == input[Head(s2c)] = "nl" \/ Len(line) = BufSize - 1
     IN  /\ out' = IF done THEN out \o line ELSE out
         /\ buf' = IF done THEN <<>> ELSE line
         /\ cpc' = IF done THEN "fgets" ELSE "readline"
  /\ s2c' = Tail(s2c)
  /\ UNCHANGED <<input, pos, reset, c2s, handlerVars>>

\* One read() of readline.  A newline, or a full buffer, ends readline and is
\* printed; readline is called again until there was a newline.
ReadByte ==
  /\ cpc = "readline"
  /\ s2c # <<>>
  /\ LET line == Append(buf, Head(s2c))
         newline == input[Head(s2c)] = "nl"
         done == newline \/ Len(line) = BufSize - 1
     IN  /\ out' = IF done THEN out \o line ELSE out
         /\ buf' = IF done THEN <<>> ELSE line
         /\ cpc' = IF newline THEN "fgets" ELSE "readline"
  /\ s2c' = Tail(s2c)
  /\ UNCHANGED <<input, pos, reset, c2s, handlerVars>>

\* End of file, or an error: readline gives what it has, then nothing, which
\* ends the client; an error ends it at once.
ReadEnd ==
  /\ cpc = "readline"
  /\ s2c = <<>>
  /\ HandlerEnded
  /\ \/ buf # <<>> /\ out' = out \o buf /\ buf' = <<>> /\ UNCHANGED cpc
     \/ cpc' = "failed" /\ UNCHANGED <<out, buf>>
  /\ UNCHANGED <<input, pos, reset, c2s, s2c, handlerVars>>

\* fgets returns NULL, main returns, and the destructor closes the socket.
StdinEOF ==
  /\ cpc = "fgets"
  /\ pos = Len(input)
  /\ cpc' = "returned"
  /\ reset' = (s2c # <<>>)
  /\ UNCHANGED <<input, pos, buf, out, c2s, s2c, handlerVars>>

-----------------------------------------------------------------------------
(* The handler, echo_handler.                                              *)

HandlerRead(k) ==
  /\ hpc = "read"
  /\ k \in 1 .. Len(c2s)
  /\ k <= HBufSize
  /\ hbuf' = SubSeq(c2s, 1, k)
  /\ c2s' = SubSeq(c2s, k + 1, Len(c2s))
  /\ hpc' = "writen"
  /\ UNCHANGED <<clientVars, s2c>>

\* End of file, or an error after a reset: the loop ends.
HandlerReadEnd ==
  /\ hpc = "read"
  /\ ClientEnded
  /\ c2s = <<>> \/ reset
  /\ hpc' = "returned"
  /\ UNCHANGED <<clientVars, c2s, s2c, hbuf>>

HandlerWrite(k) ==
  /\ hpc = "writen"
  /\ ~ClientEnded
  /\ k \in CanWrite(hbuf, s2c)
  /\ s2c' = s2c \o SubSeq(hbuf, 1, k)
  /\ hbuf' = writen(hbuf, k)
  /\ hpc' = IF hbuf' = <<>> THEN "read" ELSE "writen"
  /\ UNCHANGED <<clientVars, c2s>>

\* The client is gone: the bytes are lost, or SIGPIPE ends the handler.
HandlerWriteLost ==
  /\ hpc = "writen"
  /\ ClientEnded
  /\ hbuf' = <<>>
  /\ hpc' \in {"read", "killed"}
  /\ UNCHANGED <<clientVars, c2s, s2c>>

-----------------------------------------------------------------------------
Client == \/ Connect \/ Fgets \/ WriteNothing \/ WriteLost
          \/ ReadByte \/ ReadEnd \/ StdinEOF
          \/ \E k \in 1 .. BufSize : WriteChunk(k)

Handler == \/ HandlerReadEnd \/ HandlerWriteLost
           \/ \E k \in 1 .. HBufSize : HandlerRead(k) \/ HandlerWrite(k)

Next == Client \/ Handler

\* Either program runs when no system call keeps it waiting.
FairSpec == Init /\ [][Next]_vars /\ WF_vars(Client) /\ WF_vars(Handler)

-----------------------------------------------------------------------------
UpTo(n) == [k \in 1 .. n |-> k]
NulFree == \A k \in DOMAIN input : input[k] # "nul"

(* writen, read and readline cut the text at arbitrary places: yet what is  *)
(* printed is the input so far, and what is not yet printed is under way,    *)
(* each byte once and in order, for text without NUL bytes.                 *)
Conserved ==
  NulFree =>
    /\ out = UpTo(Len(out))
    /\ ~ClientEnded /\ ~HandlerEnded =>
         \/ cpc = "readline" /\ out \o buf \o s2c \o hbuf \o c2s = UpTo(pos)
         \/ cpc # "readline" /\ out \o s2c \o hbuf \o c2s \o buf = UpTo(pos)

\* Up to here the input is whole lines.
LastNewline == LET nls == {k \in DOMAIN input : input[k] = "nl"}
               IN  IF nls = {} THEN 0 ELSE CHOOSE k \in nls : \A j \in nls : j <= k

\* The client writes a whole line before it reads: no line is longer than the
\* two streams and the byte that a blocked handler holds at least.
LinesFit == \A i, j \in DOMAIN input :
              j - i >= 2 * Cap + 1 => \E k \in i .. j - 1 : input[k] = "nl"

(* A client that got a handler prints every line of its input and returns,  *)
(* if its lines fit: longer ones leave both programs blocked in write().    *)
EveryLineEchoed ==
  (hpc = "read" /\ NulFree /\ LinesFit) ~> (cpc = "returned" /\ out = UpTo(LastNewline))
=============================================================================
