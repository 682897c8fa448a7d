---------------------------- MODULE FormatSamples ----------------------------
(***************************************************************************)
(* What is written is read again: `sample' is a URI of libhttp, the target  *)
(* of a request to the proxy, a request or an error of libtftp, or a text   *)
(* that passes through both netascii converters.                            *)
(***************************************************************************)
EXTENDS HttpUri, TftpPacket, Netascii

VARIABLE sample

(* The text of a URI comes back as it was, but for a URI whose first colon *)
(* stands behind its last "#": that fragment is written twice.  The proxy, *)
(* which parses the URI of a request and writes it again, then finds the   *)
(* host and the path of every absolute URI, fragments and further colons   *)
(* and slashes in the path included.                                       *)
UriReadBack ==
  /\ sample.kind = "uri" =>
       LET s == sample.text
           hash == find_last_of(s, "#")
           again == IF hash # npos /\ find(s, <<":">>, 0) > hash THEN rest(s, hash) ELSE <<>>
       IN  URI_to_string(URI(s)) = s \o again
  /\ sample.kind = "target" =>
       host_and_path(URI_to_string(URI(<<"http", ":", "/", "/">> \o sample.host \o sample.path)))
         = [host |-> sample.host,
            path |-> IF sample.path = <<>> THEN <<"/">> ELSE sample.path]

(* See TftpRequestReadBack and TftpErrorReadBack in TftpPacket.            *)
TftpReadBack ==
  /\ sample.kind = "request" => TftpRequestReadBack(sample.filename, sample.mode)
  /\ sample.kind = "error" => TftpErrorReadBack(sample.text)

\* Reference: CRLF becomes LF, everything else stays.
Unix(s) ==
  LET From[i \in 1 .. Len(s) + 1] ==
        IF i > Len(s) THEN <<>>
        ELSE (IF s[i] = CR /\ Peek(s, i) = LF THEN <<>> ELSE <<s[i]>>) \o From[i + 1]
  IN  From[1]

(* A file that is fetched and stored in netascii comes back the same but   *)
(* for its CRLF line ends, wherever CR, LF and NUL meet; on the wire CR is *)
(* always followed by LF or NUL, and LF follows CR.                        *)
NetasciiReadBack ==
  sample.kind = "netascii" =>
    LET w == Encode(sample.text) IN
      /\ Decode(w) = Unix(sample.text)
      /\ \A i \in DOMAIN w :
           /\ w[i] = CR => Peek(w, i) \in {LF, NUL}
           /\ w[i] = LF => i > 1 /\ w[i - 1] = CR
=============================================================================
