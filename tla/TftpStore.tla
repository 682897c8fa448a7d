------------------------------ MODULE TftpStore ------------------------------
(***************************************************************************)
(* How a WRQ handler of MP3/src/tftp_server.cpp stores an upload: received  *)
(* blocks go to the string stream ss; after each full block all but Slack   *)
(* characters are read back, through the netascii converter if the mode     *)
(* asks for it, and written to the file; the rest follows at the end.       *)
(* BlockLen stands for 512 and Slack for 257, which is 512 / 2 + 1.         *)
(***************************************************************************)
EXTENDS Netascii

CONSTANTS
  Chars,      \* the characters of the uploads
  BlockLen,   \* TFTP_MAX_DATA_LEN
  Slack,      \* characters left in ss after a full block
  MaxBlocks   \* bound: full blocks of an upload

ASSUME SizesAssumption ==
  BlockLen \in Nat /\ Slack \in 0 .. BlockLen /\ MaxBlocks \in Nat

VARIABLES
  netascii, \* wrq_mode == Mode::Value::NETASCII
  sent,     \* all characters received
  ss,       \* characters in ss that have not been read
  good,     \* ss.good()
  file,     \* characters in the file
  done

vars == <<netascii, sent, ss, good, file, done>>

Init == netascii \in BOOLEAN /\ sent = <<>> /\ ss = <<>> /\ good = TRUE /\ file = <<>> /\ done = FALSE

\* buf->read(data, n): at most n characters of buf, how many of ss they
\* take, and whether ss never reached its end.
Read(s, n) ==
  LET Step(i) == IF netascii THEN ToUnix(s, i) ELSE [out |-> <<s[i]>>, taken |-> 1]
      From[k \in 0 .. n] ==
        IF k = 0 THEN [out |-> <<>>, at |-> 1, good |-> TRUE]
        ELSE LET r == From[k - 1] IN
          IF r.at > Len(s) THEN [r EXCEPT !.good = FALSE]
          ELSE [out |-> r.out \o Step(r.at).out,
                at |-> r.at + Step(r.at).taken,
                good |-> r.good /\ ~(netascii /\ s[r.at] = CR /\ r.at = Len(s))]
  IN  From[n]

\* The rest of data[] when read() stopped early: whatever was there.
Stale(n) == [k \in 1 .. n |-> "stale"]

\* Mutant of FullBlock: as many characters leave ss as reach the file.
FullBlockByLength(b) ==
  /\ ~done
  /\ good
  /\ Len(sent) < MaxBlocks * BlockLen
  /\ sent' = sent \o b
  /\ LET s == ss \o b
         n == Len(s) - Slack
         r == Read(s, n)
     IN  /\ file' = file \o r.out \o Stale(n - Len(r.out))
         /\ ss' = SubSeq(s, n + 1, Len(s))
         /\ good' = r.good
  /\ UNCHANGED <<netascii, done>>

\* A full block: ss.write, then read and write Len(ss) - Slack characters.
FullBlock(b) ==
  /\ ~done
  /\ good
  /\ Len(sent) < MaxBlocks * BlockLen
  /\ sent' = sent \o b
  /\ LET s == ss \o b
         n == Len(s) - Slack
         r == Read(s, n)
     IN  /\ file' = file \o r.out \o Stale(n - Len(r.out))
         /\ ss' = SubSeq(s, r.at, Len(s))
         /\ good' = r.good
  /\ UNCHANGED <<netascii, done>>

\* The short block, and file << buf->rdbuf().
LastBlock(b) ==
  /\ ~done
  /\ good
  /\ sent' = sent \o b
  /\ file' = file \o (IF netascii THEN Decode(ss \o b) ELSE ss \o b)
  /\ ss' = <<>>
  /\ done' = TRUE
  /\ UNCHANGED <<netascii, good>>

\* Once ss is not good, ss.write does nothing, tellg() and tellp() are of no
\* use, and what goes to the file, if anything, is not from the upload.
BadStream(b) ==
  /\ ~done
  /\ ~good
  /\ Len(sent) + Len(b) < (MaxBlocks + 1) * BlockLen
  /\ sent' = sent \o b
  /\ \E junk \in {<<>>, Stale(1)} : file' = file \o junk
  /\ done' = (Len(b) < BlockLen)
  /\ UNCHANGED <<netascii, ss, good>>

Texts(len) == [1 .. len -> Chars]

Next == \/ \E b \in Texts(BlockLen) : FullBlock(b) \/ BadStream(b)
        \/ \E len \in 0 .. BlockLen - 1 : \E b \in Texts(len) : LastBlock(b) \/ BadStream(b)

Spec == Init /\ [][Next]_vars

-----------------------------------------------------------------------------
(* "write the buffer to the file", "write the remaining data to the file": *)
(* what is in the file is the upload, converted if the mode asks for it,   *)
(* up to what ss still holds, wherever the blocks cut the text.            *)
StoredIsSent ==
  file \o (IF netascii THEN Decode(ss) ELSE ss)
    = IF netascii THEN Decode(sent) ELSE sent

(* Storing goes wrong in no other way than by reading ss to its end, which *)
(* only happens in netascii mode: until then no CR LF or CR NUL is torn    *)
(* apart where a block or a read ends.                                     *)
GoodIsStored == good \/ ~netascii => StoredIsSent
=============================================================================
