------------------------------- MODULE HttpUri -------------------------------
(***************************************************************************)
(* How libhttp reads and writes a URI, and how the proxy takes host and     *)
(* path from one.  A text is a sequence of symbols.  A symbol is a          *)
(* character the code looks for, or a word that it handles as a whole.      *)
(* Positions are std::string's: they count from 0, npos is -1, and since    *)
(* size_t wraps around, npos + 1 is 0 and a negative count is a huge one.   *)
(***************************************************************************)
EXTENDS Integers, Sequences

npos == -1

-----------------------------------------------------------------------------
(* std::string                                                             *)

Occurs(s, t, i) == i + Len(t) <= Len(s) /\ SubSeq(s, i + 1, i + Len(t)) = t

find(s, t, pos) ==
  LET found == {i \in pos .. Len(s) : Occurs(s, t, i)}
  IN  IF found = {} THEN npos ELSE CHOOSE i \in found : \A j \in found : i <= j

find_last_of(s, c) ==
  LET found == {i \in 0 .. Len(s) - 1 : s[i + 1] = c}
  IN  IF found = {} THEN npos ELSE CHOOSE i \in found : \A j \in found : i >= j

\* substr throws unless InRange.
InRange(s, pos) == pos \in 0 .. Len(s)
substr(s, pos, count) ==
  SubSeq(s, pos + 1, IF count < 0 \/ pos + count > Len(s) THEN Len(s) ELSE pos + count)
rest(s, pos) == substr(s, pos, npos)

-----------------------------------------------------------------------------
(* uri.cpp                                                                 *)

\* Mutant of URI: the fragment keeps its "#".
URIKeepsHash(s) ==
  LET hash == find_last_of(s, "#")
      colon == find(s, <<":">>, 0)
      fragment == IF hash = npos THEN <<>> ELSE <<rest(s, hash)>>
  IN  IF colon # npos
      THEN [scheme |-> <<substr(s, 0, colon)>>,
            path |-> substr(s, colon + 1, hash - colon - 1),
            fragment |-> fragment]
      ELSE [scheme |-> <<>>, path |-> substr(s, 0, hash), fragment |-> fragment]

\* An optional part is a sequence of at most one.
URI(s) ==
  LET hash == find_last_of(s, "#")
      colon == find(s, <<":">>, 0)
      fragment == IF hash = npos THEN <<>> ELSE <<rest(s, hash + 1)>>
  IN  IF colon # npos
      THEN [scheme |-> <<substr(s, 0, colon)>>,
            path |-> substr(s, colon + 1, hash - colon - 1),
            fragment |-> fragment]
      ELSE [scheme |-> <<>>, path |-> substr(s, 0, hash), fragment |-> fragment]

URI_to_string(u) ==
  (IF u.scheme = <<>> THEN <<>> ELSE u.scheme[1] \o <<":">>)
    \o u.path
    \o (IF u.fragment = <<>> THEN <<>> ELSE <<"#">> \o u.fragment[1])

\* get_host_and_path_from_uri of the proxy.
host_and_path(s) ==
  LET sep == find(s, <<":", "/", "/">>, 0)
      host == IF sep = npos THEN s ELSE rest(s, sep + 3)
      slash == find(host, <<"/">>, 0)
  IN  IF slash = npos THEN [host |-> host, path |-> <<"/">>]
      ELSE [host |-> substr(host, 0, slash), path |-> rest(host, slash)]
=============================================================================
