------------------------------ MODULE HttpText ------------------------------
(***************************************************************************)
(* How libhttp reads and writes messages: the first line, the headers and   *)
(* the body, as texts of symbols like the URIs of HttpUri.  "HTTP" is       *)
(* HTTP/1.0, "date" a date in the one format that is written, "old" the     *)
(* same date in another of the three formats that are read.                 *)
(***************************************************************************)
EXTENDS HttpUri, TLC

CRLF == <<"CR", "LF">>
Throws == [outcome |-> "throws"]
Diverges == [outcome |-> "diverges"]

-----------------------------------------------------------------------------
(* typedef.hpp, request-line.cpp, status-line.cpp.                         *)

\* HTTPVersion looks for the first "/" and reads a number behind it.
VersionThrows(s) ==
  LET i == find(s, <<"HTTP">>, 0) IN i = npos \/ \E j \in 1 .. i : s[j] = "/"

RequestLine(s) ==
  LET first == find(s, <<" ">>, 0)
      second == find(s, <<" ">>, first + 1)
  IN  IF VersionThrows(rest(s, second + 1)) THEN Throws
      ELSE [outcome |-> "ok", kind |-> "request",
            method |-> substr(s, 0, first),
            uri |-> URI(substr(s, first + 1, second - first - 1))]

\* A code that is not known is read by stoi, which takes a number and leaves
\* what follows it.
Numbers == {"200", "304", "299"}
StatusLine(s) ==
  LET first == find(s, <<" ">>, 0)
      second == find(s, <<" ">>, first + 1)
      code == substr(s, first + 1, second - first - 1)
  IN  IF VersionThrows(substr(s, 0, first)) \/ code = <<>> THEN Throws
      ELSE IF code[1] \notin Numbers THEN Throws
      ELSE [outcome |-> "ok", kind |-> "status",
            code |-> <<code[1]>>,
            reason |-> IF second = npos THEN <<>> ELSE <<rest(s, second + 1)>>]

Line_to_string(l) ==
  IF l.kind = "request" THEN l.method \o <<" ">> \o URI_to_string(l.uri) \o <<" ", "HTTP">>
  ELSE <<"HTTP", " ">> \o l.code \o <<" ">> \o (IF l.reason = <<>> THEN <<>> ELSE l.reason[1])

-----------------------------------------------------------------------------
(* header.cpp, date.cpp: three of the headers hold a date, which is written *)
(* in one format.  A bad Expires is replaced by the current time, "now".    *)

Date == ("date" :> "date") @@ ("old" :> "date") @@ ("now" :> "now")
IsDate(value) == Len(value) = 1 /\ value[1] \in DOMAIN Date

parse_header(name, value) ==
  IF name \notin {<<"Date">>, <<"Last-Modified">>, <<"Expires">>}
  THEN [outcome |-> "ok", name |-> name, value |-> value]
  ELSE IF IsDate(value) THEN [outcome |-> "ok", name |-> name, value |-> <<Date[value[1]]>>]
  ELSE IF name = <<"Expires">> THEN [outcome |-> "ok", name |-> name, value |-> <<"now">>]
  ELSE Throws

\* Mutant of parse_header_line: the space behind the colon is kept.
HeaderKeepsSpace(s) ==
  LET colon == find(s, <<":">>, 0) IN
    IF colon = npos THEN Throws
    ELSE parse_header(substr(s, 0, colon), rest(s, colon + 1))

parse_header_line(s) ==
  LET colon == find(s, <<":">>, 0) IN
    IF colon = npos \/ ~InRange(s, colon + 2) THEN Throws
    ELSE parse_header(substr(s, 0, colon), rest(s, colon + 2))

Header_to_string(h) == h.name \o <<":", " ">> \o h.value

-----------------------------------------------------------------------------
(* message.cpp                                                             *)

RECURSIVE Headers(_, _, _, _)

\* The loop over the header lines.  pos takes Len(s) + 3 values at most, so
\* that a loop that goes round more often never ends.
Headers(s, pos, sofar, fuel) ==
  LET end == find(s, CRLF, pos)
      h == parse_header_line(substr(s, pos, end - pos))
  IN  IF end = pos THEN [outcome |-> "ok", headers |-> sofar, pos |-> pos + 2]
      ELSE IF ~InRange(s, pos) \/ h.outcome = "throws" THEN Throws
      ELSE IF fuel = 0 THEN Diverges
      ELSE Headers(s, end + 2, Append(sofar, [name |-> h.name, value |-> h.value]), fuel - 1)

ParseMessage(s) ==
  LET end == find(s, CRLF, 0)
      text == substr(s, 0, end)
      line == IF find(text, <<"HTTP">>, 0) = 0 THEN StatusLine(text) ELSE RequestLine(text)
      hs == Headers(s, end + 2, <<>>, Len(s) + 3)
  IN  IF end = npos \/ line.outcome = "throws" THEN Throws
      ELSE IF hs.outcome # "ok" THEN hs
      ELSE [outcome |-> "ok", line |-> line, headers |-> hs.headers, body |-> rest(s, hs.pos)]

Message_to_string(m) ==
  LET Lines[k \in 0 .. Len(m.headers)] ==
        IF k = 0 THEN <<>> ELSE Lines[k - 1] \o Header_to_string(m.headers[k]) \o CRLF
  IN  Line_to_string(m.line) \o CRLF \o Lines[Len(m.headers)] \o CRLF \o m.body
=============================================================================
