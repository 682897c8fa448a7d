----------------------------- MODULE TftpPacket -----------------------------
(***************************************************************************)
(* The requests and errors of libtftp: strings of limited length in arrays  *)
(* of characters, each followed by a NUL.  C strings are sequences without  *)
(* the NUL; "?" is a character that was never written.                      *)
(***************************************************************************)
EXTENDS Integers, Sequences

CONSTANTS
  MAX_FILENAME,  \* TFTP_MAX_FILENAME_LEN, 128
  MAX_MODE,      \* TFTP_MAX_MODE_LEN, 8: the length of "netascii"
  MAX_ERROR      \* TFTP_MAX_ERROR_MESSAGE_LEN, 128

ASSUME LengthsAssumption ==
  {MAX_FILENAME, MAX_MODE, MAX_ERROR} \subseteq Nat \ {0} /\ MAX_MODE > 1

NETASCII == [i \in 1 .. MAX_MODE |-> "n"]
OCTET == <<"o">>

\* strnlen(p + o, n), and the C string at p + o.
strnlen(p, o, n) ==
  LET nuls == {i \in 0 .. n - 1 : o + i < Len(p) /\ p[o + i + 1] = "NUL"}
  IN  IF nuls = {} THEN n ELSE CHOOSE i \in nuls : \A j \in nuls : i <= j
string_at(p, o) == SubSeq(p, o + 1, o + strnlen(p, o, Len(p) - o))

First(s, n) == IF Len(s) > n THEN SubSeq(s, 1, n) ELSE s

-----------------------------------------------------------------------------
(* Packet::RQ                                                              *)

\* Mutant of RQ: the second NUL is written one place too early.
RQTooShort(filename, mode) ==
  LET f == First(filename, MAX_FILENAME)
      m == First(mode, MAX_MODE)
      used == SubSeq(f \o <<"NUL">> \o m, 1, Len(f) + Len(m)) \o <<"NUL">>
  IN  [i \in 1 .. MAX_FILENAME + MAX_MODE + 2 |-> IF i \in DOMAIN used THEN used[i] ELSE "?"]

RQ(filename, mode) ==
  LET used == First(filename, MAX_FILENAME) \o <<"NUL">> \o First(mode, MAX_MODE) \o <<"NUL">>
  IN  [i \in 1 .. MAX_FILENAME + MAX_MODE + 2 |-> IF i \in DOMAIN used THEN used[i] ELSE "?"]

RQ_filename(p) == string_at(p, 0)
RQ_mode(p) == string_at(p, strnlen(p, 0, MAX_FILENAME) + 1)
RQ_size(p) ==
  LET filename_len == strnlen(p, 0, MAX_FILENAME) + 1
  IN  filename_len + strnlen(p, filename_len, MAX_MODE) + 1

\* Mode::from_string
from_string(s) ==
  IF s = NETASCII THEN "NETASCII" ELSE IF s = OCTET THEN "OCTET" ELSE "throws"

-----------------------------------------------------------------------------
(* Packet::ERROR: strncpy fills up with NULs.                              *)

ErrorText(text) ==
  [i \in 1 .. MAX_ERROR + 1 |-> IF i \in DOMAIN text /\ i <= MAX_ERROR THEN text[i] ELSE "NUL"]
get_error_message(p) == string_at(p, 0)
Error_size(p) == 2 + strnlen(p, 0, MAX_ERROR) + 1

-----------------------------------------------------------------------------
(* A request that came from the network: a packet ends after the last NUL, *)
(* and its filename may have any length.                                   *)
Wire(filename, mode) == filename \o <<"NUL">> \o mode \o <<"NUL">>

(* A request that the library builds gives its filename and its mode back, *)
(* cut at their limits, and its size counts both and their NULs, also at   *)
(* the limits.  A request from the network with a filename up to the limit *)
(* is understood as it was meant; a longer filename is used as it is, but  *)
(* its end is taken for the mode.                                          *)
TftpRequestReadBack(filename, mode) ==
  LET p == RQ(filename, mode)
      w == Wire(filename, mode)
      f == First(filename, MAX_FILENAME)
      m == First(mode, MAX_MODE)
  IN  /\ RQ_filename(p) = f
      /\ RQ_mode(p) = m
      /\ RQ_size(p) = Len(f) + Len(m) + 2
      /\ RQ_filename(w) = filename
      /\ Len(filename) <= MAX_FILENAME => RQ_mode(w) = mode
      /\ Len(filename) > MAX_FILENAME =>
           RQ_mode(w) = SubSeq(filename, MAX_FILENAME + 2, Len(filename))
      /\ mode \in {NETASCII, OCTET} /\ Len(filename) <= MAX_FILENAME =>
           from_string(RQ_mode(p)) = from_string(mode) /\ from_string(RQ_mode(w)) # "throws"

(* An error message is cut at its limit and the packet ends with its NUL.  *)
TftpErrorReadBack(text) ==
  LET p == ErrorText(text) IN
    /\ get_error_message(p) = First(text, MAX_ERROR)
    /\ Error_size(p) = 2 + Len(First(text, MAX_ERROR)) + 1
=============================================================================
