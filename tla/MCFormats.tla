----------------------------- MODULE MCFormats -----------------------------
(***************************************************************************)
(* The formats of all protocols on small inputs: what is written is read    *)
(* again.  `sample' is one input for HTTP, TFTP or netascii, or "sbcp":     *)
(* then msg, which the server may extend, is a message of the chat.         *)
(***************************************************************************)
EXTENDS SbcpMessage, HttpText, FormatSamples

CONSTANTS
  UriLen,      \* bound: symbols of a URI
  RequestLen,  \* bound: characters of a filename, a mode or an error
  TextLen      \* bound: characters of a netascii text

Strings(chars, n) == UNION {[1 .. len -> chars] : len \in 0 .. n}

-----------------------------------------------------------------------------
(* Samples.                                                                *)

UriChars == {":", "/", "#", "w"}
Uris == {[kind |-> "uri", text |-> s] : s \in Strings(UriChars, UriLen)}

Paths == {<<>>} \cup {<<"/">> \o s : s \in Strings(UriChars, UriLen - 2)}
Targets ==
  {[kind |-> "target", host |-> h, path |-> p] : h \in {<<"h">>, <<"h", ":", "80">>}, p \in Paths}

Requests ==
  {[outcome |-> "ok", kind |-> "request", method |-> <<"GET">>, uri |-> URI(s)]
     : s \in {<<"/", "w">>, <<"w", ":", "/">>, <<"w", "#", "w", ":">>, <<>>}}
Responses ==
  {[outcome |-> "ok", kind |-> "status", code |-> <<c>>, reason |-> <<r>>]
     : c \in {"200", "299"}, r \in {<<>>, <<"w">>, <<"w", " ", "w", ":", "w">>}}
HeaderSet ==
  {[name |-> n, value |-> <<v>>] : n \in {<<"Date">>, <<"Expires">>}, v \in {"date", "now"}}
    \cup {[name |-> <<"Name">>, value |-> v] : v \in {<<>>, <<"w">>, <<"w", ":", "w">>}}
Messages ==
  {[kind |-> "http", m |-> [outcome |-> "ok", line |-> l, headers |-> hs, body |-> b]]
     : l \in Requests \cup Responses, hs \in Strings(HeaderSet, 2),
       b \in {<<>>, <<"w">>, CRLF, <<"w", "CR">>}}

TftpRequests ==
  {[kind |-> "request", filename |-> f, mode |-> m]
     : f \in Strings({"n", "o"}, RequestLen), m \in Strings({"n", "o"}, RequestLen - 1)}
TftpErrors == {[kind |-> "error", text |-> s] : s \in Strings({"n", "o"}, RequestLen)}

Texts == {[kind |-> "netascii", text |-> s] : s \in Strings({CR, LF, NUL, "x"}, TextLen)}

FormatsInit ==
  \/ sample = [kind |-> "sbcp"] /\ Init
  \/ /\ sample \in Uris \cup Targets \cup Messages \cup TftpRequests \cup TftpErrors \cup Texts
     /\ Made(Message(Type.JOIN), <<>>, "none")

FormatsNext == sample.kind = "sbcp" /\ Next /\ UNCHANGED sample

FormatsSpec == FormatsInit /\ [][FormatsNext]_<<sample, msg, given, maker>>

-----------------------------------------------------------------------------
(* A message that is written and read again is the same message.  One that *)
(* is cut off before the empty line, which is how an early end of a        *)
(* connection looks, is refused; only when the first line has a colon may  *)
(* the loop over the headers begin anew at character 1 and never end.  A   *)
(* body that is cut off is taken for the whole body.                       *)
HttpReadBack ==
  sample.kind = "http" =>
    LET m == sample.m
        s == Message_to_string(m)
        head == Len(s) - Len(m.body)
    IN  /\ ParseMessage(s) = m
        /\ \A n \in 0 .. head - 1 :
             LET r == ParseMessage(SubSeq(s, 1, n)) IN
               \/ r.outcome = "throws"
               \/ r.outcome = "diverges" /\ find(Line_to_string(m.line), <<":">>, 0) # npos
        /\ \A n \in head .. Len(s) :
             ParseMessage(SubSeq(s, 1, n)) = [m EXCEPT !.body = SubSeq(m.body, 1, n - head)]
=============================================================================
