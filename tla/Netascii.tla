------------------------------ MODULE Netascii ------------------------------
(***************************************************************************)
(* The two stream buffers of MP3/src/netascii.hpp.  Each underflow() takes  *)
(* one or two characters from the stream below and offers one or two; all   *)
(* characters but CR, LF and NUL are alike to them.                         *)
(***************************************************************************)
EXTENDS Integers, Sequences

CR == "CR"
LF == "LF"
NUL == "NUL"

\* The character after s[i], as peek() sees it.
Peek(s, i) == IF i < Len(s) THEN s[i + 1] ELSE "eof"

\* Mutant of ToNetascii: a CR at the end of the file gets no NUL.
ToNetasciiAtEnd(s, i) ==
  CASE s[i] = LF -> [out |-> <<CR, LF>>, taken |-> 1]
    [] s[i] = CR /\ Peek(s, i) = LF -> [out |-> <<CR, LF>>, taken |-> 2]
    [] s[i] = CR /\ Peek(s, i) \notin {LF, "eof"} -> [out |-> <<CR, NUL>>, taken |-> 1]
    [] OTHER -> [out |-> <<s[i]>>, taken |-> 1]

\* UNIXtoNetasciiStreamBuf::underflow at character i: what it offers and
\* how many characters it takes.
ToNetascii(s, i) ==
  CASE s[i] = LF -> [out |-> <<CR, LF>>, taken |-> 1]
    [] s[i] = CR /\ Peek(s, i) = LF -> [out |-> <<CR, LF>>, taken |-> 2]
    [] s[i] = CR /\ Peek(s, i) # LF -> [out |-> <<CR, NUL>>, taken |-> 1]
    [] OTHER -> [out |-> <<s[i]>>, taken |-> 1]

\* Mutant of ToUnix: the NUL after CR is not skipped.
ToUnixKeepsNul(s, i) ==
  CASE s[i] = CR /\ Peek(s, i) = LF -> [out |-> <<LF>>, taken |-> 2]
    [] OTHER -> [out |-> <<s[i]>>, taken |-> 1]

\* NetasciitoUNIXStreamBuf::underflow at character i.
ToUnix(s, i) ==
  CASE s[i] = CR /\ Peek(s, i) = LF -> [out |-> <<LF>>, taken |-> 2]
    [] s[i] = CR /\ Peek(s, i) = NUL -> [out |-> <<CR>>, taken |-> 2]
    [] OTHER -> [out |-> <<s[i]>>, taken |-> 1]

\* Reading a stream to its end.
Encode(s) ==
  LET From[i \in 1 .. Len(s) + 1] ==
        IF i > Len(s) THEN <<>>
        ELSE ToNetascii(s, i).out \o From[i + ToNetascii(s, i).taken]
  IN  From[1]

Decode(s) ==
  LET From[i \in 1 .. Len(s) + 1] ==
        IF i > Len(s) THEN <<>>
        ELSE ToUnix(s, i).out \o From[i + ToUnix(s, i).taken]
  IN  From[1]
=============================================================================
