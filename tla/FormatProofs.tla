---------------------------- MODULE FormatProofs ----------------------------
(***************************************************************************)
(* Texts of any length. An upload reaches the file whole, wherever its      *)
(* blocks cut the text: the netascii converter can be stopped and resumed   *)
(* at any character it has not looked behind the end of. What the writers   *)
(* of netascii, of a TFTP packet and of a URI produce is read back by the   *)
(* readers as what was written.                                            *)
(***************************************************************************)
EXTENDS TftpStore, FormatSamples, WellFoundedInduction, TLAPS

\* Everything that can be in a stream, in the file or in a packet.
Text == Chars \cup {CR, LF, NUL, "stale", "?", "http", ":", "/", "#"}

-----------------------------------------------------------------------------
(* Induction, and sequences.                                               *)

LEMMA LeastFailure ==
  ASSUME NEW T \in SUBSET Nat, NEW n \in Nat, n \notin T
  PROVE  \E k \in Nat \ T : \A j \in 0 .. k - 1 : j \in T
<1> DEFINE R == OpToRel(<, Nat)
<1>1. \A x, y \in Nat : <<y, x>> \in R <=> y < x
  BY DEF OpToRel
<1>2. IsWellFoundedOn(R, Nat)
  BY NatLessThanWellFounded
<1> HIDE DEF R
<1>3. PICK k \in Nat \ T : \A j \in Nat \ T : ~(<<j, k>> \in R)
  BY <1>2, WFMin
<1>4. ASSUME NEW j \in 0 .. k - 1 PROVE j \in T
  <2>1. j \in Nat /\ k \in Nat /\ j < k
    OBVIOUS
  <2>2. <<j, k>> \in R
    BY <1>1, <2>1
  <2> QED
    BY <1>3, <2>1, <2>2
<1> QED
  BY <1>4

LEMMA ConcatAt ==
  ASSUME NEW s \in Seq(Text), NEW t \in Seq(Text)
  PROVE  /\ s \o t \in Seq(Text) /\ Len(s) \in Nat /\ Len(t) \in Nat
         /\ Len(s \o t) = Len(s) + Len(t)
         /\ \A i \in 1 .. Len(s) : (s \o t)[i] = s[i]
         /\ \A i \in 1 .. Len(t) : (s \o t)[Len(s) + i] = t[i]
<1>1. s \o t \in Seq(Text) /\ Len(s \o t) = Len(s) + Len(t)
  OBVIOUS
<1>2. \A i \in 1 .. Len(s) + Len(t) :
        (s \o t)[i] = IF i <= Len(s) THEN s[i] ELSE t[i - Len(s)]
  OBVIOUS
<1>3. Len(s) \in Nat /\ Len(t) \in Nat
  OBVIOUS
<1>4. ASSUME NEW i \in 1 .. Len(t) PROVE (s \o t)[Len(s) + i] = t[i]
  <2>1. Len(s) + i \in 1 .. Len(s) + Len(t) /\ ~(Len(s) + i <= Len(s)) /\ Len(s) + i - Len(s) = i
    BY <1>3
  <2> QED
    BY <1>2, <2>1
<1> QED
  BY <1>1, <1>2, <1>3, <1>4

LEMMA SameSeq ==
  ASSUME NEW s \in Seq(Text), NEW t \in Seq(Text), Len(s) = Len(t),
         \A i \in 1 .. Len(s) : s[i] = t[i]
  PROVE  s = t
OBVIOUS

LEMMA ConcatNone ==
  ASSUME NEW s \in Seq(Text)
  PROVE  s \o <<>> = s /\ <<>> \o s = s
OBVIOUS

LEMMA ConcatAssoc ==
  ASSUME NEW a \in Seq(Text), NEW b \in Seq(Text), NEW c \in Seq(Text)
  PROVE  (a \o b) \o c = a \o (b \o c)
OBVIOUS

LEMMA Split ==
  ASSUME NEW s \in Seq(Text), NEW k \in 1 .. Len(s) + 1
  PROVE  /\ SubSeq(s, 1, k - 1) \in Seq(Text) /\ Len(SubSeq(s, 1, k - 1)) = k - 1
         /\ SubSeq(s, k, Len(s)) \in Seq(Text)
         /\ s = SubSeq(s, 1, k - 1) \o SubSeq(s, k, Len(s))
<1> DEFINE a == SubSeq(s, 1, k - 1)
<1> DEFINE b == SubSeq(s, k, Len(s))
<1>0. Len(s) \in Nat /\ k \in Int
  OBVIOUS
<1>1. a \in Seq(Text) /\ Len(a) = k - 1 /\ \A i \in 1 .. k - 1 : a[i] = s[i]
  BY <1>0
<1>2. b \in Seq(Text) /\ Len(b) = Len(s) - k + 1 /\ \A i \in 1 .. Len(s) - k + 1 : b[i] = s[k + i - 1]
  BY <1>0
<1> HIDE DEF a, b
<1> DEFINE c == a \o b
<1>3. /\ c \in Seq(Text) /\ Len(c) = Len(a) + Len(b) /\ \A i \in 1 .. Len(a) : c[i] = a[i]
      /\ \A i \in 1 .. Len(b) : c[Len(a) + i] = b[i]
  BY <1>1, <1>2, ConcatAt
<1> HIDE DEF c
<1>4. Len(c) = Len(s)
  BY <1>0, <1>1, <1>2, <1>3
<1>5. ASSUME NEW i \in 1 .. Len(s) PROVE s[i] = c[i]
  <2>1. CASE i <= k - 1
    BY <1>0, <1>1, <1>3, <2>1
  <2>2. CASE i >= k
    <3>1. i - (k - 1) \in 1 .. Len(b) /\ Len(a) + (i - (k - 1)) = i /\ k + (i - (k - 1)) - 1 = i
      BY <1>0, <1>1, <1>2, <2>2
    <3>2. c[i] = b[i - (k - 1)] /\ b[i - (k - 1)] = s[i]
      BY <1>2, <1>3, <3>1
    <3> QED
      BY <3>2
  <2> QED
    BY <1>0, <2>1, <2>2
<1>6. s = c
  BY <1>3, <1>4, <1>5, SameSeq
<1> QED
  BY <1>1, <1>2, <1>6 DEF a, b, c

-----------------------------------------------------------------------------
(* What a recursion over a text gives: f[i] is what comes of it from        *)
(* character i on, o[i] what character i yields and d[i] how many           *)
(* characters that takes.                                                  *)

Chain(N, o, d, f) ==
  /\ f \in [1 .. N + 1 -> Seq(Text)] /\ f[N + 1] = <<>>
  /\ \A i \in 1 .. N : f[i] = o[i] \o f[i + d[i]]

LEMMA ChainExists ==
  ASSUME NEW N \in Nat, NEW o \in [1 .. N -> Seq(Text)], NEW d \in [1 .. N -> {1, 2}],
         \A i \in 1 .. N : i + d[i] \in i + 1 .. N + 1
  PROVE  \E f : Chain(N, o, d, f)
<1> DEFINE Part(k, f) ==
      /\ f \in [N + 1 - k .. N + 1 -> Seq(Text)] /\ f[N + 1] = <<>>
      /\ \A i \in N + 1 - k .. N : f[i] = o[i] \o f[i + d[i]]
<1> DEFINE T == {k \in Nat : k <= N => \E f : Part(k, f)}
<1>0. N \in Nat
  OBVIOUS
<1>1. ASSUME NEW k \in 0 .. N - 1, NEW f, Part(k, f) PROVE \E g : Part(k + 1, g)
  <2> DEFINE x == N - k
  <2> DEFINE e == o[x] \o f[x + d[x]]
  <2> DEFINE g == [i \in x .. N + 1 |-> IF i = x THEN e ELSE f[i]]
  <2>1. x \in 1 .. N /\ N + 1 - k = x + 1 /\ N + 1 - (k + 1) = x
    BY <1>0
  <2>2. o[x] \in Seq(Text) /\ x + d[x] \in x + 1 .. N + 1
    BY <2>1
  <2>3. f \in [x + 1 .. N + 1 -> Seq(Text)] /\ f[N + 1] = <<>>
        /\ \A i \in x + 1 .. N : f[i] = o[i] \o f[i + d[i]]
    BY <1>1, <2>1
  <2>4. e \in Seq(Text)
    BY <2>2, <2>3, ConcatAt
  <2> HIDE DEF e
  <2> HIDE DEF x
  <2>5. g \in [x .. N + 1 -> Seq(Text)] /\ g[x] = e /\ \A i \in x + 1 .. N + 1 : g[i] = f[i]
    <3>1. \A i \in x .. N + 1 : i = x \/ i \in x + 1 .. N + 1
      BY <1>0, <2>1
    <3>2. \A i \in x + 1 .. N + 1 : i \in x .. N + 1 /\ i # x
      BY <1>0, <2>1
    <3>3. x \in x .. N + 1
      BY <1>0, <2>1
    <3>4. \A i \in x .. N + 1 : (IF i = x THEN e ELSE f[i]) \in Seq(Text)
      BY <2>3, <2>4, <3>1
    <3>5. g \in [x .. N + 1 -> Seq(Text)]
      BY <3>4
    <3> QED
      BY <3>2, <3>3, <3>5
  <2> HIDE DEF g, Part
  <2>6. g[N + 1] = <<>>
    BY <1>0, <2>1, <2>3, <2>5
  <2>7. ASSUME NEW i \in x .. N PROVE g[i] = o[i] \o g[i + d[i]]
    <3>1. CASE i = x
      BY <2>2, <2>5, <3>1 DEF e
    <3>2. CASE i # x
      <4>1. i \in x + 1 .. N /\ i \in x + 1 .. N + 1 /\ i \in 1 .. N
        BY <1>0, <2>1, <3>2
      <4>2. i + d[i] \in i + 1 .. N + 1
        BY <4>1
      <4>3. i + d[i] \in x + 1 .. N + 1
        BY <1>0, <2>1, <4>1, <4>2
      <4> QED
        BY <2>3, <2>5, <4>1, <4>3
    <3> QED
      BY <3>1, <3>2
  <2> QED
    BY <2>1, <2>5, <2>6, <2>7 DEF Part, x
<1>2. Part(0, [i \in N + 1 .. N + 1 |-> <<>>])
  <2> DEFINE f == [i \in N + 1 .. N + 1 |-> <<>>]
  <2>1. <<>> \in Seq(Text) /\ N + 1 - 0 = N + 1 /\ N + 1 \in N + 1 .. N + 1
    BY <1>0
  <2>2. f \in [N + 1 .. N + 1 -> Seq(Text)] /\ f[N + 1] = <<>>
    BY <2>1
  <2>3. N + 1 .. N = {}
    BY <1>0
  <2> HIDE DEF f
  <2> QED
    BY <2>1, <2>2, <2>3 DEF f
<1> HIDE DEF Part
<1>3. N \in T
  <2> SUFFICES ASSUME N \notin T PROVE FALSE
    OBVIOUS
  <2>1. PICK k \in Nat \ T : \A j \in 0 .. k - 1 : j \in T
    BY <1>0, LeastFailure
  <2>2. k <= N /\ ~\E f : Part(k, f)
    BY <2>1
  <2>3. k # 0
    BY <1>2, <2>2
  <2>4. k - 1 \in 0 .. N - 1 /\ k - 1 \in 0 .. k - 1 /\ k - 1 + 1 = k /\ k - 1 <= N
    BY <1>0, <2>1, <2>2, <2>3
  <2>5. k - 1 \in T
    BY <2>1, <2>4
  <2>6. PICK f : Part(k - 1, f)
    BY <2>4, <2>5
  <2> QED
    BY <1>1, <2>2, <2>4, <2>6
<1>4. PICK f : Part(N, f)
  BY <1>0, <1>3
<1>5. N + 1 - N = 1
  BY <1>0
<1> QED
  BY <1>4, <1>5 DEF Part, Chain

-----------------------------------------------------------------------------
(* The converter.  One underflow() takes one or two characters that are     *)
(* there and offers one.                                                   *)

LEMMA ToUnixIs ==
  ASSUME NEW s \in Seq(Text), NEW i \in 1 .. Len(s)
  PROVE  /\ ToUnix(s, i) = IF s[i] = CR /\ Peek(s, i) = LF THEN [out |-> <<LF>>, taken |-> 2]
                           ELSE IF s[i] = CR /\ Peek(s, i) = NUL THEN [out |-> <<CR>>, taken |-> 2]
                           ELSE [out |-> <<s[i]>>, taken |-> 1]
BY DEF ToUnix, LF, NUL

LEMMA ToUnixTyped ==
  ASSUME NEW s \in Seq(Text), NEW i \in 1 .. Len(s)
  PROVE  /\ ToUnix(s, i).out \in Seq(Text) /\ Len(ToUnix(s, i).out) = 1
         /\ ToUnix(s, i).taken \in {1, 2} /\ i + ToUnix(s, i).taken \in i + 1 .. Len(s) + 1
<1>1. CASE i < Len(s)
  <2>1. s[i] \in Text
    OBVIOUS
  <2>2. ToUnix(s, i) \in {[out |-> <<LF>>, taken |-> 2], [out |-> <<CR>>, taken |-> 2],
                          [out |-> <<s[i]>>, taken |-> 1]}
    BY ToUnixIs
  <2>3. \A c \in Text : <<c>> \in Seq(Text) /\ Len(<<c>>) = 1
    OBVIOUS
  <2>4. LF \in Text /\ CR \in Text
    BY DEF Text
  <2>5. PICK c \in Text, d \in {1, 2} : ToUnix(s, i) = [out |-> <<c>>, taken |-> d]
    BY <2>1, <2>2, <2>4
  <2>6. ToUnix(s, i).out = <<c>> /\ ToUnix(s, i).taken = d
    BY <2>5
  <2>7. i + d \in i + 1 .. Len(s) + 1
    BY <1>1
  <2> QED
    BY <2>3, <2>6, <2>7
<1>2. CASE i = Len(s)
  <2>1. Peek(s, i) = "eof"
    BY <1>2 DEF Peek
  <2>2. ToUnix(s, i) = [out |-> <<s[i]>>, taken |-> 1] /\ s[i] \in Text
    BY <2>1, ToUnixIs DEF LF, NUL
  <2> QED
    BY <1>2, <2>2
<1> QED
  BY <1>1, <1>2

(* What it offers depends on what it takes and, after a CR, on the next     *)
(* character: more text behind changes nothing else.                       *)
LEMMA ToUnixPrefix ==
  ASSUME NEW s \in Seq(Text), NEW t \in Seq(Text), NEW i \in 1 .. Len(s),
         ~(s[i] = CR /\ i = Len(s))
  PROVE  ToUnix(s \o t, i) = ToUnix(s, i)
<1> DEFINE r == s \o t
<1>1. /\ r \in Seq(Text) /\ Len(s) \in Nat /\ Len(t) \in Nat /\ Len(r) = Len(s) + Len(t)
      /\ \A k \in 1 .. Len(s) : r[k] = s[k]
  BY ConcatAt
<1> HIDE DEF r
<1>2. r[i] = s[i] /\ i \in 1 .. Len(r)
  BY <1>1
<1>3. i < Len(s) => Peek(r, i) = Peek(s, i)
  BY <1>1 DEF Peek
<1>4. CASE s[i] = CR
  <2>1. Peek(r, i) = Peek(s, i)
    BY <1>1, <1>3, <1>4
  <2>2. ToUnix(r, i) = ToUnix(s, i)
    BY <1>1, <1>2, <2>1, ToUnixIs
  <2> QED
    BY <2>2 DEF r
<1>5. CASE s[i] # CR
  <2>1. ToUnix(r, i) = [out |-> <<s[i]>>, taken |-> 1]
    BY <1>1, <1>2, <1>5, ToUnixIs
  <2>2. ToUnix(s, i) = [out |-> <<s[i]>>, taken |-> 1]
    BY <1>5, ToUnixIs
  <2> QED
    BY <2>1, <2>2 DEF r
<1> QED
  BY <1>4, <1>5

LEMMA ToUnixSuffix ==
  ASSUME NEW s \in Seq(Text), NEW t \in Seq(Text), NEW i \in 1 .. Len(t)
  PROVE  ToUnix(s \o t, Len(s) + i) = ToUnix(t, i)
<1> DEFINE r == s \o t
<1>1. /\ r \in Seq(Text) /\ Len(s) \in Nat /\ Len(t) \in Nat /\ Len(r) = Len(s) + Len(t)
      /\ \A k \in 1 .. Len(t) : r[Len(s) + k] = t[k]
  BY ConcatAt
<1> HIDE DEF r
<1>2. r[Len(s) + i] = t[i] /\ Len(s) + i \in 1 .. Len(r)
  BY <1>1
<1>3. Peek(r, Len(s) + i) = Peek(t, i)
  <2>1. CASE i < Len(t)
    <3>1. i + 1 \in 1 .. Len(t) /\ Len(s) + (i + 1) = Len(s) + i + 1 /\ Len(s) + i < Len(r)
      BY <1>1, <2>1
    <3>2. r[Len(s) + i + 1] = t[i + 1]
      BY <1>1, <3>1
    <3> QED
      BY <2>1, <3>1, <3>2 DEF Peek
  <2>2. CASE i = Len(t)
    BY <1>1, <2>2 DEF Peek
  <2> QED
    BY <1>1, <2>1, <2>2
<1>4. ToUnix(r, Len(s) + i) = ToUnix(t, i)
  BY <1>1, <1>2, <1>3, ToUnixIs
<1> QED
  BY <1>4 DEF r

-----------------------------------------------------------------------------
(* Reading to the end.  f[i] is what the converter gives from character i   *)
(* on.                                                                     *)

Solves(s, f) ==
  /\ f[Len(s) + 1] = <<>>
  /\ \A i \in 1 .. Len(s) : f[i] = ToUnix(s, i).out \o f[i + ToUnix(s, i).taken]

Rests(s, f) == f \in [1 .. Len(s) + 1 -> Seq(Text)] /\ Solves(s, f)

LEMMA RestsExist ==
  ASSUME NEW s \in Seq(Text)
  PROVE  \E f : Rests(s, f)
<1> DEFINE N == Len(s)
<1> DEFINE o == [i \in 1 .. N |-> ToUnix(s, i).out]
<1> DEFINE d == [i \in 1 .. N |-> ToUnix(s, i).taken]
<1>1. N \in Nat
  OBVIOUS
<1>2. \A i \in 1 .. N : /\ ToUnix(s, i).out \in Seq(Text) /\ ToUnix(s, i).taken \in {1, 2}
                        /\ i + ToUnix(s, i).taken \in i + 1 .. N + 1
  BY ToUnixTyped
<1>3. o \in [1 .. N -> Seq(Text)] /\ d \in [1 .. N -> {1, 2}] /\ \A i \in 1 .. N : i + d[i] \in i + 1 .. N + 1
  BY <1>2
<1>4. \A i \in 1 .. N : o[i] = ToUnix(s, i).out /\ d[i] = ToUnix(s, i).taken
  OBVIOUS
<1> HIDE DEF N, o, d
<1>5. PICK f : Chain(N, o, d, f)
  BY <1>1, <1>3, ChainExists
<1> QED
  BY <1>4, <1>5 DEF Chain, Rests, Solves, N

(* What is read from a character on does not depend on what is before it.   *)
LEMMA RestsShift ==
  ASSUME NEW p \in Seq(Text), NEW s \in Seq(Text), NEW f, NEW g, Solves(p \o s, f), Solves(s, g)
  PROVE  \A i \in 1 .. Len(s) + 1 : f[Len(p) + i] = g[i]
<1> DEFINE N == Len(s)
<1> DEFINE r == p \o s
<1> DEFINE T == {k \in Nat : k <= N => f[Len(p) + (N + 1 - k)] = g[N + 1 - k]}
<1>0. N \in Nat /\ Len(p) \in Nat /\ Len(r) = Len(p) + N
  BY ConcatAt
<1>1. ASSUME NEW k \in Nat, k <= N, \A j \in 0 .. k - 1 : j \in T
      PROVE  f[Len(p) + (N + 1 - k)] = g[N + 1 - k]
  <2>1. CASE k = 0
    <3>1. Len(p) + (N + 1 - k) = Len(r) + 1 /\ N + 1 - k = N + 1
      BY <1>0, <2>1
    <3>2. f[Len(r) + 1] = <<>> /\ g[N + 1] = <<>>
      BY DEF Solves
    <3> QED
      BY <3>1, <3>2
  <2>2. CASE k # 0
    <3> DEFINE i == N + 1 - k
    <3>1. i \in 1 .. N /\ Len(p) + i \in 1 .. Len(r)
      BY <1>0, <1>1, <2>2
    <3>2. ToUnix(r, Len(p) + i) = ToUnix(s, i)
      BY <3>1, ToUnixSuffix
    <3>3. PICK d \in {1, 2} : d = ToUnix(s, i).taken /\ i + d \in i + 1 .. N + 1
      BY <3>1, ToUnixTyped
    <3>4. f[Len(p) + i] = ToUnix(s, i).out \o f[Len(p) + i + d]
      BY <3>1, <3>2, <3>3 DEF Solves
    <3>5. g[i] = ToUnix(s, i).out \o g[i + d]
      BY <3>1, <3>3 DEF Solves
    <3>6. /\ k - d \in 0 .. k - 1 /\ k - d <= N
          /\ Len(p) + (N + 1 - (k - d)) = Len(p) + i + d /\ N + 1 - (k - d) = i + d
      <4>1. i = N + 1 - k /\ i \in Int /\ d \in Int /\ k \in Int /\ d >= 1 /\ i + d <= N + 1
        BY <1>0, <3>1, <3>3
      <4> HIDE DEF i, N
      <4> QED
        BY <1>0, <1>1, <4>1
    <3>7. k - d \in T
      BY <1>1, <3>6
    <3> HIDE DEF i, N, r
    <3>8. f[Len(p) + (N + 1 - (k - d))] = g[N + 1 - (k - d)]
      BY <3>6, <3>7
    <3>9. f[Len(p) + i + d] = g[i + d]
      BY <3>6, <3>8
    <3> QED
      BY <3>4, <3>5, <3>9 DEF i
  <2> QED
    BY <2>1, <2>2
<1> HIDE DEF N, r
<1>2. \A k \in Nat : k \in T
  <2> SUFFICES ASSUME NEW n \in Nat, n \notin T PROVE FALSE
    OBVIOUS
  <2>1. PICK k \in Nat \ T : \A j \in 0 .. k - 1 : j \in T
    BY LeastFailure
  <2> QED
    BY <1>1, <2>1
<1>3. ASSUME NEW i \in 1 .. N + 1 PROVE f[Len(p) + i] = g[i]
  <2>1. N + 1 - i \in Nat /\ N + 1 - i <= N /\ N + 1 - (N + 1 - i) = i
    BY <1>0
  <2>2. f[Len(p) + (N + 1 - (N + 1 - i))] = g[N + 1 - (N + 1 - i)]
    BY <1>2, <2>1
  <2> QED
    BY <2>1, <2>2
<1> QED
  BY <1>3 DEF N

(* Decode, by its recursion.                                               *)
LEMMA DecodeIs ==
  ASSUME NEW s \in Seq(Text), NEW g, Rests(s, g)
  PROVE  Decode(s) = g[1]
<1> DEFINE IsFrom(f) ==
      f = [i \in 1 .. Len(s) + 1 |-> IF i > Len(s) THEN <<>>
                                     ELSE ToUnix(s, i).out \o f[i + ToUnix(s, i).taken]]
<1>0. Len(s) \in Nat
  OBVIOUS
<1>1. IsFrom(g)
  <2>1. ASSUME NEW i \in 1 .. Len(s) + 1
        PROVE  g[i] = IF i > Len(s) THEN <<>> ELSE ToUnix(s, i).out \o g[i + ToUnix(s, i).taken]
    <3>1. CASE i = Len(s) + 1
      BY <1>0, <3>1 DEF Rests, Solves
    <3>2. CASE i \in 1 .. Len(s)
      <4>1. ~(i > Len(s))
        BY <1>0, <3>2
      <4>2. g[i] = ToUnix(s, i).out \o g[i + ToUnix(s, i).taken]
        BY <3>2 DEF Rests, Solves
      <4> QED
        BY <4>1, <4>2
    <3> QED
      BY <1>0, <3>1, <3>2
  <2>2. g \in [1 .. Len(s) + 1 -> Seq(Text)]
    BY DEF Rests
  <2> QED
    BY <2>1, <2>2
<1> DEFINE F == CHOOSE f : IsFrom(f)
<1>2. Decode(s) = F[1]
  BY Zenon DEF Decode
<1> HIDE DEF IsFrom
<1>3. IsFrom(F)
  BY <1>1, Zenon
<1> HIDE DEF F
<1>4. Solves(s, F)
  <2>1. F[Len(s) + 1] = <<>>
    BY <1>0, <1>3 DEF IsFrom
  <2>2. ASSUME NEW i \in 1 .. Len(s)
        PROVE  F[i] = ToUnix(s, i).out \o F[i + ToUnix(s, i).taken]
    <3>1. i \in 1 .. Len(s) + 1 /\ ~(i > Len(s))
      BY <1>0
    <3> QED
      BY <1>3, <3>1 DEF IsFrom
  <2> QED
    BY <2>1, <2>2 DEF Solves
<1>5. <<>> \in Seq(Text) /\ <<>> \o s = s /\ Len(<<>>) = 0 /\ 0 + 1 = 1 /\ 1 \in 1 .. Len(s) + 1
  BY <1>0, ConcatNone
<1>6. F[1] = g[1]
  <2>1. PICK e \in Seq(Text) : e = <<>>
    BY <1>5
  <2>2. Solves(e \o s, F) /\ Solves(s, g)
    BY <1>4, <1>5, <2>1 DEF Rests
  <2>3. \A i \in 1 .. Len(s) + 1 : F[Len(e) + i] = g[i]
    BY <2>2, RestsShift
  <2>4. Len(e) + 1 = 1
    BY <1>5, <2>1
  <2> QED
    BY <1>5, <2>3, <2>4
<1> QED
  BY <1>2, <1>6
(* The converter may be stopped before character k and started again there. *)
LEMMA DecodeFrom ==
  ASSUME NEW s \in Seq(Text), NEW t \in Seq(Text), NEW k \in 1 .. Len(s) + 1,
         NEW h, Rests(s \o t, h)
  PROVE  h[k] = Decode(SubSeq(s, k, Len(s)) \o t)
<1> DEFINE p == SubSeq(s, 1, k - 1)
<1> DEFINE q == SubSeq(s, k, Len(s))
<1>1. p \in Seq(Text) /\ Len(p) = k - 1 /\ q \in Seq(Text) /\ s = p \o q
  BY Split
<1> HIDE DEF p, q
<1>2. PICK w \in Seq(Text) : w = q \o t /\ s \o t = p \o w
  <2>1. q \o t \in Seq(Text)
    BY <1>1, ConcatAt
  <2>2. (p \o q) \o t = p \o (q \o t)
    BY <1>1
  <2> QED
    BY <1>1, <2>1, <2>2
<1>3. PICK g : Rests(w, g)
  BY RestsExist
<1>4. Solves(p \o w, h) /\ Solves(w, g)
  BY <1>2, <1>3 DEF Rests
<1>5. \A i \in 1 .. Len(w) + 1 : h[Len(p) + i] = g[i]
  <2>1. p \in Seq(Text)
    BY <1>1
  <2> QED
    BY <1>4, <2>1, RestsShift
<1>6. 1 \in 1 .. Len(w) + 1 /\ Len(p) + 1 = k
  BY <1>1
<1>7. h[k] = g[1]
  BY <1>5, <1>6
<1>8. Decode(w) = g[1]
  BY <1>3, DecodeIs
<1> QED
  BY <1>2, <1>7, <1>8 DEF q

-----------------------------------------------------------------------------
(* Reading n characters.                                                   *)

Start == [out |-> <<>>, at |-> 1, good |-> TRUE]

Step(s, i) == IF netascii THEN ToUnix(s, i) ELSE [out |-> <<s[i]>>, taken |-> 1]

\* One character more.
More(s, r) ==
  IF r.at > Len(s) THEN [r EXCEPT !.good = FALSE]
  ELSE [out |-> r.out \o Step(s, r.at).out,
        at |-> r.at + Step(s, r.at).taken,
        good |-> r.good /\ ~(netascii /\ s[r.at] = CR /\ r.at = Len(s))]

Reads(s, n, f) == f[0] = Start /\ \A k \in 1 .. n : f[k] = More(s, f[k - 1])

LEMMA ReadsExist ==
  ASSUME NEW s, NEW n \in Nat
  PROVE  \E f : f = [k \in 0 .. n |-> f[k]] /\ Reads(s, n, f)
<1> DEFINE Part(k, f) == f = [j \in 0 .. k |-> f[j]] /\ Reads(s, k, f)
<1> DEFINE T == {k \in Nat : \E f : Part(k, f)}
<1>1. Part(0, [j \in 0 .. 0 |-> Start])
  <2> DEFINE f == [j \in 0 .. 0 |-> Start]
  <2>1. f = [j \in 0 .. 0 |-> f[j]] /\ f[0] = Start /\ 1 .. 0 = {}
    OBVIOUS
  <2> HIDE DEF f
  <2> QED
    BY <2>1 DEF Reads, f
<1>2. ASSUME NEW k \in Nat, NEW f, Part(k, f) PROVE \E g : Part(k + 1, g)
  <2> DEFINE e == More(s, f[k])
  <2> DEFINE g == [j \in 0 .. k + 1 |-> IF j = k + 1 THEN e ELSE f[j]]
  <2> HIDE DEF e
  <2>1. g = [j \in 0 .. k + 1 |-> g[j]] /\ g[k + 1] = e /\ \A j \in 0 .. k : g[j] = f[j]
    OBVIOUS
  <2> HIDE DEF g
  <2>2. g[0] = Start
    BY <1>2, <2>1 DEF Reads
  <2>3. ASSUME NEW j \in 1 .. k + 1 PROVE g[j] = More(s, g[j - 1])
    <3>1. CASE j = k + 1
      <4>1. g[j] = e /\ j - 1 = k /\ g[k] = f[k]
        BY <2>1, <3>1
      <4> QED
        BY <4>1 DEF e
    <3>2. CASE j \in 1 .. k
      <4>1. j - 1 \in 0 .. k /\ j \in 0 .. k
        BY <3>2
      <4>2. f[j] = More(s, f[j - 1])
        BY <1>2, <3>2 DEF Reads
      <4> QED
        BY <2>1, <4>1, <4>2
    <3> QED
      BY <3>1, <3>2
  <2> QED
    BY <2>1, <2>2, <2>3 DEF Reads
<1> HIDE DEF Part
<1>3. n \in T
  <2> SUFFICES ASSUME n \notin T PROVE FALSE
    OBVIOUS
  <2>1. PICK k \in Nat \ T : \A j \in 0 .. k - 1 : j \in T
    BY LeastFailure
  <2>2. k # 0
    BY <1>1, <2>1
  <2>3. k - 1 \in 0 .. k - 1 /\ k - 1 \in Nat /\ k - 1 + 1 = k
    BY <2>1, <2>2
  <2>4. PICK f : Part(k - 1, f)
    BY <2>1, <2>3
  <2> QED
    BY <1>2, <2>1, <2>3, <2>4
<1> QED
  BY <1>3 DEF Part

(* buf->read(), by its recursion.                                          *)
LEMMA ReadIs ==
  ASSUME NEW s, NEW n \in Nat
  PROVE  \E f : Reads(s, n, f) /\ Read(s, n) = f[n]
<1> DEFINE IsFrom(f) ==
      f = [k \in 0 .. n |-> IF k = 0 THEN Start ELSE More(s, f[k - 1])]
<1>1. PICK g : g = [k \in 0 .. n |-> g[k]] /\ Reads(s, n, g)
  BY ReadsExist
<1>2. IsFrom(g)
  <2>1. ASSUME NEW k \in 0 .. n PROVE g[k] = IF k = 0 THEN Start ELSE More(s, g[k - 1])
    <3>1. k = 0 => g[k] = Start
      BY <1>1 DEF Reads
    <3>2. k # 0 => g[k] = More(s, g[k - 1])
      <4>1. k # 0 => k \in 1 .. n
        OBVIOUS
      <4> QED
        BY <1>1, <4>1 DEF Reads
    <3> QED
      BY <3>1, <3>2
  <2> QED
    BY <1>1, <2>1
<1> DEFINE F == CHOOSE f : IsFrom(f)
<1>3. Read(s, n) = F[n]
  BY Zenon DEF Read, Start, More, Step
<1> HIDE DEF IsFrom
<1>4. IsFrom(F)
  BY <1>2, Zenon
<1> HIDE DEF F
<1>5. Reads(s, n, F)
  <2>1. F[0] = Start
    BY <1>4 DEF IsFrom
  <2>2. ASSUME NEW k \in 1 .. n PROVE F[k] = More(s, F[k - 1])
    BY <1>4 DEF IsFrom
  <2> QED
    BY <2>1, <2>2 DEF Reads
<1> QED
  BY <1>3, <1>5
(* Without conversion, n characters of a stream that has them are its first *)
(* n characters.                                                           *)
LEMMA PlainRead ==
  ASSUME ~netascii, NEW s \in Seq(Text), NEW n \in 0 .. Len(s)
  PROVE  Read(s, n) = [out |-> SubSeq(s, 1, n), at |-> n + 1, good |-> TRUE]
<1> DEFINE Is(k) == [out |-> SubSeq(s, 1, k), at |-> k + 1, good |-> TRUE]
<1>0. n \in Nat /\ Len(s) \in Nat
  OBVIOUS
<1>1. PICK f : Reads(s, n, f) /\ Read(s, n) = f[n]
  BY <1>0, ReadIs
<1> DEFINE T == {k \in Nat : k <= n => f[k] = Is(k)}
<1>2. Start = Is(0)
  <2>1. SubSeq(s, 1, 0) = <<>>
    OBVIOUS
  <2>2. 0 + 1 = 1
    OBVIOUS
  <2> QED
    BY <2>1, <2>2, Zenon DEF Start
<1>3. ASSUME NEW k \in 1 .. n PROVE More(s, Is(k - 1)) = Is(k)
  <2>1. ~(k > Len(s)) /\ k - 1 + 1 = k /\ k - 1 \in Nat /\ k \in 1 .. Len(s)
    BY <1>0
  <2>2. SubSeq(s, 1, k - 1) \o <<s[k]>> = SubSeq(s, 1, k)
    BY <2>1
  <2>3. Is(k - 1) = [out |-> SubSeq(s, 1, k - 1), at |-> k, good |-> TRUE]
    BY <2>1
  <2>4. Step(s, k) = [out |-> <<s[k]>>, taken |-> 1]
    BY DEF Step
  <2>5. More(s, Is(k - 1)) = [out |-> SubSeq(s, 1, k - 1) \o <<s[k]>>, at |-> k + 1, good |-> TRUE]
    <3> DEFINE r == Is(k - 1)
    <3>1. r.out = SubSeq(s, 1, k - 1) /\ r.at = k /\ r.good = TRUE
      BY <2>3, Zenon
    <3>2. Step(s, k).out = <<s[k]>> /\ Step(s, k).taken = 1
      BY <2>4
    <3> HIDE DEF r
    <3>3. More(s, r) = [out |-> r.out \o Step(s, r.at).out, at |-> r.at + Step(s, r.at).taken,
                        good |-> r.good /\ ~(netascii /\ s[r.at] = CR /\ r.at = Len(s))]
      BY <2>1, <3>1, Zenon DEF More
    <3>4. (r.good /\ ~(netascii /\ s[r.at] = CR /\ r.at = Len(s))) = TRUE
      BY <3>1, Zenon
    <3>5. More(s, r) = [out |-> SubSeq(s, 1, k - 1) \o <<s[k]>>, at |-> k + 1, good |-> TRUE]
      BY <3>1, <3>2, <3>3, <3>4, Zenon
    <3> QED
      BY <3>5 DEF r
  <2> QED
    BY <2>2, <2>5
<1> HIDE DEF Is
<1>4. n \in T
  <2> SUFFICES ASSUME n \notin T PROVE FALSE
    OBVIOUS
  <2>1. PICK k \in Nat \ T : \A j \in 0 .. k - 1 : j \in T
    BY <1>0, LeastFailure
  <2>2. k <= n /\ f[k] # Is(k)
    BY <2>1
  <2>3. k # 0
    BY <1>1, <1>2, <2>2 DEF Reads
  <2>4. k \in 1 .. n /\ k - 1 \in 0 .. k - 1 /\ k - 1 <= n
    BY <1>0, <2>1, <2>2, <2>3
  <2>5. f[k - 1] = Is(k - 1)
    BY <2>1, <2>4
  <2>6. f[k] = More(s, f[k - 1])
    BY <1>1, <2>4 DEF Reads
  <2> QED
    BY <1>3, <2>2, <2>4, <2>5, <2>6
<1> QED
  BY <1>0, <1>1, <1>4 DEF Is

(* With conversion, n characters read before the stream came to its end are *)
(* what any longer text begins with, and the converter can go on from where *)
(* it stopped.                                                             *)
LEMMA GoodRead ==
  ASSUME netascii, NEW s \in Seq(Text), NEW n \in Nat, Read(s, n).good
  PROVE  /\ Read(s, n).out \in Seq(Text) /\ Len(Read(s, n).out) = n
         /\ Read(s, n).at \in 1 .. Len(s) + 1
         /\ \A t \in Seq(Text) :
              Decode(s \o t) = Read(s, n).out \o Decode(SubSeq(s, Read(s, n).at, Len(s)) \o t)
<1> DEFINE Fine(k, r) ==
      /\ r.out \in Seq(Text) /\ Len(r.out) = k /\ r.at \in 1 .. Len(s) + 1
      /\ \A t \in Seq(Text) : \A h : Rests(s \o t, h) => h[1] = r.out \o h[r.at]
<1>0. Len(s) \in Nat
  OBVIOUS
<1>1. PICK f : Reads(s, n, f) /\ Read(s, n) = f[n]
  BY ReadIs
<1> DEFINE T == {k \in Nat : k <= n /\ f[k].good => Fine(k, f[k])}
<1>2. Fine(0, Start)
  <2>1. Start.out = <<>> /\ Start.at = 1
    BY DEF Start
  <2>2. <<>> \in Seq(Text) /\ Len(<<>>) = 0 /\ 1 \in 1 .. Len(s) + 1
    BY <1>0
  <2>3. ASSUME NEW t \in Seq(Text), NEW h, Rests(s \o t, h) PROVE h[1] = <<>> \o h[1]
    <3>1. s \o t \in Seq(Text) /\ Len(s \o t) \in Nat
      BY ConcatAt
    <3>2. h[1] \in Seq(Text)
      BY <2>3, <3>1 DEF Rests
    <3> QED
      BY <3>2, ConcatNone
  <2> QED
    BY <2>1, <2>2, <2>3
<1>3. ASSUME NEW k \in Nat, NEW r, Fine(k, r), More(s, r).good PROVE Fine(k + 1, More(s, r))
  <2> DEFINE i == r.at
  <2> DEFINE u == ToUnix(s, i)
  <2>1. i \in 1 .. Len(s) + 1 /\ r.out \in Seq(Text) /\ Len(r.out) = k
    BY <1>3
  <2>2. ~(i > Len(s))
    <3> SUFFICES ASSUME i > Len(s) PROVE FALSE
      OBVIOUS
    <3>1. More(s, r) = [r EXCEPT !.good = FALSE]
      BY DEF More
    <3>2. ~More(s, r).good
      BY <3>1
    <3> QED
      BY <1>3, <3>2
  <2>3. i \in 1 .. Len(s)
    BY <1>0, <2>1, <2>2
  <2>4. More(s, r).out = r.out \o u.out /\ More(s, r).at = i + u.taken
    BY <2>2 DEF More, Step
  <2>5. ~(s[i] = CR /\ i = Len(s))
    BY <1>3, <2>2 DEF More
  <2>6. u.out \in Seq(Text) /\ Len(u.out) = 1 /\ u.taken \in {1, 2} /\ i + u.taken \in i + 1 .. Len(s) + 1
    BY <2>3, ToUnixTyped
  <2>7. r.out \o u.out \in Seq(Text) /\ Len(r.out \o u.out) = k + 1
    <3>1. PICK a \in Seq(Text), b \in Seq(Text) : a = r.out /\ b = u.out
      BY <2>1, <2>6
    <3>2. a \o b \in Seq(Text) /\ Len(a \o b) = Len(a) + Len(b)
      BY ConcatAt
    <3> HIDE DEF u
    <3> QED
      BY <2>1, <2>6, <3>1, <3>2
  <2>8. i + u.taken \in 1 .. Len(s) + 1
    BY <1>0, <2>3, <2>6
  <2>9. ASSUME NEW t \in Seq(Text), NEW h, Rests(s \o t, h)
        PROVE  h[1] = (r.out \o u.out) \o h[i + u.taken]
    <3>1. /\ s \o t \in Seq(Text) /\ Len(s \o t) = Len(s) + Len(t)
          /\ Len(s) \in Nat /\ Len(t) \in Nat
      BY ConcatAt
    <3>2. ToUnix(s \o t, i) = u
      BY <2>3, <2>5, ToUnixPrefix
    <3>3. i \in 1 .. Len(s \o t) /\ i + u.taken \in 1 .. Len(s \o t) + 1
      BY <2>3, <2>8, <3>1
    <3>4. h[i] = u.out \o h[i + u.taken] /\ h[i + u.taken] \in Seq(Text)
      BY <2>9, <3>2, <3>3 DEF Rests, Solves
    <3>5. h[1] = r.out \o h[i]
      BY <1>3, <2>9
    <3> HIDE DEF u, i
    <3>6. PICK a \in Seq(Text), b \in Seq(Text), c \in Seq(Text) :
            a = r.out /\ b = u.out /\ c = h[i + u.taken]
      BY <2>1, <2>6, <3>4
    <3>7. (a \o b) \o c = a \o (b \o c)
      OBVIOUS
    <3> QED
      BY <3>4, <3>5, <3>6, <3>7
  <2> HIDE DEF u, i
  <2> QED
    BY <2>4, <2>7, <2>8, <2>9
<1>4. ASSUME NEW r, More(s, r).good PROVE r.good
  <2>1. CASE r.at > Len(s)
    <3>1. More(s, r) = [r EXCEPT !.good = FALSE]
      BY <2>1 DEF More
    <3>2. ~More(s, r).good
      BY <3>1
    <3> QED
      BY <1>4, <3>2
  <2>2. CASE ~(r.at > Len(s))
    BY <1>4, <2>2 DEF More
  <2> QED
    BY <2>1, <2>2
<1> HIDE DEF Fine
<1>5. n \in T
  <2> SUFFICES ASSUME n \notin T PROVE FALSE
    OBVIOUS
  <2>1. PICK k \in Nat \ T : \A j \in 0 .. k - 1 : j \in T
    BY LeastFailure
  <2>2. k <= n /\ f[k].good /\ ~Fine(k, f[k])
    BY <2>1
  <2>3. k # 0
    BY <1>1, <1>2, <2>2 DEF Reads
  <2>4. k \in 1 .. n /\ k - 1 \in 0 .. k - 1 /\ k - 1 <= n /\ k - 1 \in Nat /\ k - 1 + 1 = k
    BY <2>1, <2>2, <2>3
  <2>5. f[k] = More(s, f[k - 1])
    BY <1>1, <2>4 DEF Reads
  <2>6. f[k - 1].good
    BY <1>4, <2>2, <2>5
  <2>7. Fine(k - 1, f[k - 1])
    BY <2>1, <2>4, <2>6
  <2>8. Fine(k - 1 + 1, f[k])
    BY <1>3, <2>2, <2>4, <2>5, <2>7
  <2> QED
    BY <2>2, <2>4, <2>8
<1> DEFINE r == Read(s, n)
<1>6. Fine(n, r)
  BY <1>1, <1>5
<1> HIDE DEF r
<1>7. /\ r.out \in Seq(Text) /\ Len(r.out) = n /\ r.at \in 1 .. Len(s) + 1
      /\ \A t \in Seq(Text) : \A h : Rests(s \o t, h) => h[1] = r.out \o h[r.at]
  BY <1>6 DEF Fine
<1>8. ASSUME NEW t \in Seq(Text)
      PROVE  Decode(s \o t) = r.out \o Decode(SubSeq(s, r.at, Len(s)) \o t)
  <2>1. s \o t \in Seq(Text)
    BY ConcatAt
  <2>2. PICK h : Rests(s \o t, h)
    BY <2>1, RestsExist
  <2>3. Decode(s \o t) = h[1]
    BY <2>1, <2>2, DecodeIs
  <2>4. h[1] = r.out \o h[r.at]
    BY <1>7, <2>2
  <2>5. h[r.at] = Decode(SubSeq(s, r.at, Len(s)) \o t)
    BY <1>7, <2>2, DecodeFrom
  <2> QED
    BY <2>3, <2>4, <2>5
<1> QED
  BY <1>7, <1>8 DEF r

-----------------------------------------------------------------------------
(* The upload.                                                             *)

\* What is stored is what was sent, whatever comes after it.
Whole ==
  /\ sent \in Seq(Text) /\ ss \in Seq(Text) /\ file \in Seq(Text)
  /\ ~netascii => sent = file \o ss
  /\ netascii /\ ~done => \A t \in Seq(Text) : Decode(sent \o t) = file \o Decode(ss \o t)
  /\ netascii /\ done => Decode(sent) = file \o Decode(ss)

StoreInv == (~netascii => good) /\ (good => Whole)

LEMMA DecodeTyped ==
  ASSUME NEW s \in Seq(Text)
  PROVE  Decode(s) \in Seq(Text)
<1>1. PICK g : Rests(s, g)
  BY RestsExist
<1>2. Decode(s) = g[1]
  BY <1>1, DecodeIs
<1>3. Len(s) \in Nat
  OBVIOUS
<1>4. g[1] \in Seq(Text)
  BY <1>1, <1>3 DEF Rests
<1> QED
  BY <1>2, <1>4

LEMMA DecodeNone == Decode(<<>>) = <<>>
<1>1. <<>> \in Seq(Text) /\ Len(<<>>) = 0
  OBVIOUS
<1>2. PICK g : Rests(<<>>, g)
  BY <1>1, RestsExist
<1>3. g[1] = <<>>
  BY <1>1, <1>2 DEF Rests, Solves
<1> QED
  BY <1>1, <1>2, <1>3, DecodeIs

LEMMA StaleNone == Stale(0) = <<>>
BY DEF Stale

LEMMA TextsTyped ==
  ASSUME NEW len \in Nat, NEW b \in Texts(len)
  PROVE  b \in Seq(Text) /\ Len(b) = len
<1>1. b \in [1 .. len -> Text]
  BY DEF Texts, Text
<1> QED
  BY <1>1

LEMMA FullBlockStores ==
  ASSUME StoreInv, NEW b \in Texts(BlockLen), FullBlock(b)
  PROVE  StoreInv'
<1> DEFINE s == ss \o b
<1> DEFINE n == Len(s) - Slack
<1> DEFINE r == Read(s, n)
<1>1. Whole /\ ~done /\ good
  BY DEF StoreInv, FullBlock
<1>2. /\ sent' = sent \o b /\ file' = file \o r.out \o Stale(n - Len(r.out))
      /\ ss' = SubSeq(s, r.at, Len(s)) /\ good' = r.good /\ netascii' = netascii /\ done' = done
  BY DEF FullBlock
<1>3. /\ sent \in Seq(Text) /\ ss \in Seq(Text) /\ file \in Seq(Text) /\ BlockLen \in Nat /\ Slack \in 0 .. BlockLen
  BY <1>1, SizesAssumption DEF Whole
<1>4. b \in Seq(Text) /\ Len(b) = BlockLen
  BY <1>3, TextsTyped
<1>5. s \in Seq(Text) /\ Len(ss) \in Nat /\ Len(s) = Len(ss) + Len(b) /\ sent \o b \in Seq(Text)
  BY <1>3, <1>4, ConcatAt
<1>6. n \in 0 .. Len(s) /\ n \in Nat /\ Len(s) \in Nat
  BY <1>3, <1>4, <1>5
<1> HIDE DEF s, n, r
<1>7. CASE ~netascii
  <2>1. r = [out |-> SubSeq(s, 1, n), at |-> n + 1, good |-> TRUE]
    BY <1>5, <1>6, <1>7, PlainRead DEF r
  <2>2. r.out = SubSeq(s, 1, n) /\ r.at = n + 1 /\ r.good
    BY <2>1
  <2>3. n + 1 \in 1 .. Len(s) + 1 /\ n + 1 - 1 = n
    BY <1>6
  <2>4. PICK a \in Seq(Text), c \in Seq(Text) :
          a = SubSeq(s, 1, n) /\ Len(a) = n /\ c = SubSeq(s, n + 1, Len(s)) /\ s = a \o c
    <3>0. PICK k \in 1 .. Len(s) + 1 : k = n + 1
      BY <2>3, Zenon
    <3>1. k = n + 1 /\ k - 1 = n
      BY <1>6, <3>0
    <3>2. /\ SubSeq(s, 1, k - 1) \in Seq(Text) /\ Len(SubSeq(s, 1, k - 1)) = k - 1
          /\ SubSeq(s, k, Len(s)) \in Seq(Text)
          /\ s = SubSeq(s, 1, k - 1) \o SubSeq(s, k, Len(s))
      BY <1>5, Split, Zenon
    <3> QED
      BY <3>1, <3>2
  <2>5. Stale(n - Len(r.out)) = <<>>
    <3>1. n - Len(r.out) = 0
      BY <1>6, <2>2, <2>4
    <3> QED
      BY <3>1, StaleNone
  <2>6. file \o a \in Seq(Text)
    BY <1>3, <2>4, ConcatAt
  <2>7. file' = file \o a /\ ss' = c
    <3>1. file' = (file \o a) \o <<>>
      BY <1>2, <2>2, <2>4, <2>5
    <3> QED
      BY <1>2, <2>2, <2>4, <2>6, <3>1, ConcatNone
  <2>8. sent' = file' \o ss'
    <3>1. sent = file \o ss
      BY <1>1, <1>7 DEF Whole
    <3>2. (file \o ss) \o b = file \o (ss \o b)
      BY <1>3, <1>4, SMTT(30)
    <3>3. (file \o a) \o c = file \o (a \o c)
      BY <1>3, <2>4, ConcatAssoc, ZenonT(60)
    <3> QED
      BY <1>2, <2>4, <2>7, <3>1, <3>2, <3>3 DEF s
  <2> QED
    BY <1>2, <1>5, <1>7, <2>2, <2>4, <2>6, <2>7, <2>8 DEF StoreInv, Whole
<1>8. CASE netascii /\ r.good
  <2>1. /\ r.out \in Seq(Text) /\ Len(r.out) = n /\ r.at \in 1 .. Len(s) + 1
        /\ \A t \in Seq(Text) : Decode(s \o t) = r.out \o Decode(SubSeq(s, r.at, Len(s)) \o t)
    BY <1>5, <1>6, <1>8, GoodRead DEF r
  <2>2. PICK a \in Seq(Text), c \in Seq(Text) : a = r.out /\ c = SubSeq(s, r.at, Len(s))
    BY <1>5, <2>1, Split
  <2>3. Stale(n - Len(r.out)) = <<>>
    <3>1. n - Len(r.out) = 0
      BY <1>6, <2>1
    <3> QED
      BY <3>1, StaleNone
  <2>4. file \o a \in Seq(Text)
    BY <1>3, <2>2, ConcatAt
  <2>5. file' = file \o a /\ ss' = c
    <3>1. file' = (file \o a) \o <<>>
      BY <1>2, <2>2, <2>3
    <3> QED
      BY <1>2, <2>2, <2>4, <3>1, ConcatNone
  <2>6. ASSUME NEW t \in Seq(Text) PROVE Decode(sent' \o t) = file' \o Decode(ss' \o t)
    <3>1. b \o t \in Seq(Text) /\ c \o t \in Seq(Text)
      BY <1>4, <2>2, ConcatAt
    <3>2. (sent \o b) \o t = sent \o (b \o t) /\ (ss \o b) \o t = ss \o (b \o t)
      <4>1. PICK x \in Seq(Text), y \in Seq(Text), z \in Seq(Text) : x = sent /\ y = ss /\ z = b
        BY <1>3, <1>4
      <4>2. (x \o z) \o t = x \o (z \o t)
        BY SMTT(30)
      <4>3. (y \o z) \o t = y \o (z \o t)
        BY SMTT(30)
      <4> QED
        BY <4>1, <4>2, <4>3
    <3>3. Decode(sent \o (b \o t)) = file \o Decode(ss \o (b \o t))
      BY <1>1, <1>8, <3>1 DEF Whole
    <3>4. Decode(s \o t) = a \o Decode(c \o t)
      BY <2>1, <2>2
    <3>5. PICK d \in Seq(Text) : d = Decode(c \o t)
      BY <3>1, DecodeTyped
    <3>6. (file \o a) \o d = file \o (a \o d)
      <4>1. PICK x \in Seq(Text) : x = file
        BY <1>3
      <4>2. (x \o a) \o d = x \o (a \o d)
        BY SMTT(30)
      <4> QED
        BY <4>1, <4>2
    <3> QED
      BY <1>2, <2>5, <3>2, <3>3, <3>4, <3>5, <3>6 DEF s
  <2> QED
    BY <1>1, <1>2, <1>5, <1>8, <2>2, <2>4, <2>5, <2>6 DEF StoreInv, Whole
<1>9. CASE netascii /\ ~r.good
  BY <1>2, <1>9 DEF StoreInv
<1> QED
  BY <1>7, <1>8, <1>9

LEMMA LastBlockStores ==
  ASSUME StoreInv, NEW len \in Nat, NEW b \in Texts(len), LastBlock(b)
  PROVE  StoreInv'
<1>1. Whole /\ ~done /\ good
  BY DEF StoreInv, LastBlock
<1>2. /\ sent' = sent \o b /\ file' = file \o (IF netascii THEN Decode(ss \o b) ELSE ss \o b)
      /\ ss' = <<>> /\ done' /\ netascii' = netascii /\ good' = good
  BY DEF LastBlock
<1>3. sent \in Seq(Text) /\ ss \in Seq(Text) /\ file \in Seq(Text) /\ b \in Seq(Text) /\ <<>> \in Seq(Text)
  BY <1>1, TextsTyped DEF Whole
<1>4. ss \o b \in Seq(Text) /\ sent \o b \in Seq(Text)
  BY <1>3, ConcatAt
<1>5. PICK d \in Seq(Text) : d = IF netascii THEN Decode(ss \o b) ELSE ss \o b
  BY <1>4, DecodeTyped
<1>6. file' = file \o d /\ file \o d \in Seq(Text) /\ (file \o d) \o <<>> = file \o d
  <2>1. file' = file \o d
    BY <1>2, <1>5
  <2>2. file \o d \in Seq(Text)
    BY <1>3, ConcatAt
  <2> QED
    BY <2>1, <2>2, ConcatNone
<1>7. ASSUME ~netascii PROVE sent' = file' \o ss'
  <2>1. sent = file \o ss
    BY <1>1, <1>7 DEF Whole
  <2>2. (file \o ss) \o b = file \o (ss \o b)
    BY <1>3, SMTT(30)
  <2> QED
    BY <1>2, <1>5, <1>6, <1>7, <2>1, <2>2
<1>8. ASSUME netascii PROVE Decode(sent') = file' \o Decode(ss')
  <2>1. Decode(sent \o b) = file \o Decode(ss \o b)
    BY <1>1, <1>3, <1>8 DEF Whole
  <2> QED
    BY <1>2, <1>5, <1>6, <1>8, <2>1, DecodeNone
<1> QED
  BY <1>1, <1>2, <1>3, <1>4, <1>6, <1>7, <1>8 DEF StoreInv, Whole

LEMMA StoreStep ==
  ASSUME StoreInv, [Next]_vars
  PROVE  StoreInv'
<1>1. ASSUME NEW b \in Texts(BlockLen), FullBlock(b) PROVE StoreInv'
  BY <1>1, FullBlockStores
<1>2. ASSUME NEW len \in 0 .. BlockLen - 1, NEW b \in Texts(len), LastBlock(b) PROVE StoreInv'
  <2>1. len \in Nat
    BY SizesAssumption
  <2> QED
    BY <1>2, <2>1, LastBlockStores
<1>3. ASSUME NEW b, BadStream(b) PROVE StoreInv'
  BY <1>3 DEF StoreInv, BadStream
<1>4. CASE UNCHANGED vars
  BY <1>4 DEF StoreInv, Whole, vars
<1> QED
  BY <1>1, <1>2, <1>3, <1>4 DEF Next

LEMMA InitStores ==
  ASSUME Init
  PROVE  StoreInv
<1>1. sent = <<>> /\ ss = <<>> /\ file = <<>> /\ good /\ ~done
  BY DEF Init
<1>2. <<>> \in Seq(Text) /\ <<>> \o <<>> = <<>>
  OBVIOUS
<1>3. ASSUME NEW t \in Seq(Text) PROVE Decode(<<>> \o t) = <<>> \o Decode(<<>> \o t)
  <2>1. <<>> \o t = t /\ Decode(t) \in Seq(Text)
    BY ConcatNone, DecodeTyped
  <2> QED
    BY <2>1, ConcatNone
<1> QED
  BY <1>1, <1>2, <1>3 DEF StoreInv, Whole

LEMMA StoresAll ==
  ASSUME StoreInv
  PROVE  GoodIsStored
<1>1. SUFFICES ASSUME good \/ ~netascii PROVE StoredIsSent
  BY DEF GoodIsStored
<1>2. Whole
  BY <1>1 DEF StoreInv
<1>3. CASE ~netascii
  BY <1>2, <1>3 DEF Whole, StoredIsSent
<1>4. CASE netascii /\ done
  BY <1>2, <1>4 DEF Whole, StoredIsSent
<1>5. CASE netascii /\ ~done
  <2>1. <<>> \in Seq(Text) /\ sent \o <<>> = sent /\ ss \o <<>> = ss
    BY <1>2, ConcatNone DEF Whole
  <2>2. Decode(sent \o <<>>) = file \o Decode(ss \o <<>>)
    BY <1>2, <1>5, <2>1 DEF Whole
  <2>3. Decode(sent) = file \o Decode(ss)
    BY <2>1, <2>2
  <2> QED
    BY <1>5, <2>3 DEF StoredIsSent
<1> QED
  BY <1>3, <1>4, <1>5

(* The WRQ handler stores the upload: for every block length, every number *)
(* of characters left in ss up to a block, and every text, the file and    *)
(* what ss still holds are what was received, converted in netascii mode,  *)
(* unless ss was read to its end, which octet mode never does.  The        *)
(* invariant must say this of every continuation of the text, since a CR   *)
(* that ends a read is decided by the block after it.                      *)
THEOREM UploadsAreStored == Spec => []GoodIsStored
<1>1. Init => StoreInv
  BY InitStores
<1>2. StoreInv /\ [Next]_vars => StoreInv'
  BY StoreStep
<1>3. StoreInv => GoodIsStored
  BY StoresAll
<1> QED
  BY <1>1, <1>2, <1>3, PTL DEF Spec

-----------------------------------------------------------------------------
(* A text that passes through both converters.                             *)

Jumps(N, d) == d \in [1 .. N -> {1, 2}] /\ \A i \in 1 .. N : i + d[i] \in i + 1 .. N + 1

Links(N, o, d, f) == f[N + 1] = <<>> /\ \A i \in 1 .. N : f[i] = o[i] \o f[i + d[i]]

LEMMA ChainUnique ==
  ASSUME NEW N \in Nat, NEW o, NEW d, Jumps(N, d),
         NEW f, Links(N, o, d, f), NEW g, Links(N, o, d, g)
  PROVE  \A i \in 1 .. N + 1 : f[i] = g[i]
<1> DEFINE T == {k \in Nat : k <= N => f[N + 1 - k] = g[N + 1 - k]}
<1>1. ASSUME NEW k \in Nat, k <= N, \A j \in 0 .. k - 1 : j \in T PROVE f[N + 1 - k] = g[N + 1 - k]
  <2>1. CASE k = 0
    <3>1. N + 1 - k = N + 1
      BY <2>1
    <3> QED
      BY <3>1 DEF Links
  <2>2. CASE k # 0
    <3> DEFINE i == N + 1 - k
    <3>1. i \in 1 .. N
      BY <1>1, <2>2
    <3>2. PICK e \in {1, 2} : e = d[i] /\ i + e \in i + 1 .. N + 1
      BY <3>1 DEF Jumps
    <3>3. f[i] = o[i] \o f[i + e] /\ g[i] = o[i] \o g[i + e]
      BY <3>1, <3>2 DEF Links
    <3>4. k - e \in 0 .. k - 1 /\ k - e <= N /\ N + 1 - (k - e) = i + e
      <4>1. i = N + 1 - k /\ i \in Int /\ e \in Int /\ k \in Int /\ e >= 1 /\ i + e <= N + 1
        BY <3>1, <3>2
      <4> HIDE DEF i
      <4> QED
        BY <1>1, <4>1
    <3>5. k - e \in T
      BY <1>1, <3>4
    <3>6. f[N + 1 - (k - e)] = g[N + 1 - (k - e)]
      BY <3>4, <3>5
    <3> HIDE DEF i
    <3>7. f[i + e] = g[i + e]
      BY <3>4, <3>6
    <3> QED
      BY <3>3, <3>7 DEF i
  <2> QED
    BY <2>1, <2>2
<1>2. \A k \in Nat : k \in T
  <2> SUFFICES ASSUME NEW n \in Nat, n \notin T PROVE FALSE
    OBVIOUS
  <2>1. PICK k \in Nat \ T : \A j \in 0 .. k - 1 : j \in T
    BY LeastFailure
  <2> QED
    BY <1>1, <2>1
<1>3. ASSUME NEW i \in 1 .. N + 1 PROVE f[i] = g[i]
  <2>1. N + 1 - i \in Nat /\ N + 1 - i <= N /\ N + 1 - (N + 1 - i) = i
    OBVIOUS
  <2>2. f[N + 1 - (N + 1 - i)] = g[N + 1 - (N + 1 - i)]
    BY <1>2, <2>1
  <2> QED
    BY <2>1, <2>2
<1> QED
  BY <1>3

LEMMA ToNetasciiIs ==
  ASSUME NEW s \in Seq(Text), NEW i \in 1 .. Len(s)
  PROVE  ToNetascii(s, i) = IF s[i] = LF THEN [out |-> <<CR, LF>>, taken |-> 1]
                            ELSE IF s[i] = CR /\ Peek(s, i) = LF THEN [out |-> <<CR, LF>>, taken |-> 2]
                            ELSE IF s[i] = CR THEN [out |-> <<CR, NUL>>, taken |-> 1]
                            ELSE [out |-> <<s[i]>>, taken |-> 1]
BY DEF ToNetascii, CR, LF

LEMMA ToNetasciiTyped ==
  ASSUME NEW s \in Seq(Text), NEW i \in 1 .. Len(s)
  PROVE  /\ ToNetascii(s, i).out \in Seq(Text) /\ ToNetascii(s, i).taken \in {1, 2}
         /\ i + ToNetascii(s, i).taken \in i + 1 .. Len(s) + 1
<1>1. s[i] \in Text /\ LF \in Text /\ CR \in Text /\ NUL \in Text /\ Len(s) \in Nat
  BY DEF Text
<1>2. <<CR, LF>> \in Seq(Text) /\ <<CR, NUL>> \in Seq(Text) /\ <<s[i]>> \in Seq(Text)
  BY <1>1
<1>3. Peek(s, i) = LF => i < Len(s)
  BY DEF Peek, LF
<1>4. CASE s[i] = CR /\ Peek(s, i) = LF /\ s[i] # LF
  <2>1. ToNetascii(s, i) = [out |-> <<CR, LF>>, taken |-> 2]
    BY <1>4, ToNetasciiIs
  <2> QED
    BY <1>1, <1>2, <1>3, <1>4, <2>1
<1>5. CASE ~(s[i] = CR /\ Peek(s, i) = LF /\ s[i] # LF)
  <2>1. ToNetascii(s, i) \in {[out |-> <<CR, LF>>, taken |-> 1], [out |-> <<CR, NUL>>, taken |-> 1],
                              [out |-> <<s[i]>>, taken |-> 1]}
    BY <1>5, ToNetasciiIs
  <2>2. PICK c \in Seq(Text) : ToNetascii(s, i) = [out |-> c, taken |-> 1]
    BY <1>2, <2>1
  <2>3. ToNetascii(s, i).taken = 1 /\ ToNetascii(s, i).out = c
    BY <2>2
  <2>4. i + 1 \in i + 1 .. Len(s) + 1
    BY <1>1
  <2> QED
    BY <2>3, <2>4
<1> QED
  BY <1>4, <1>5

\* Encode and Unix, from character i on.
Wires(s, f) ==
  /\ f \in [1 .. Len(s) + 1 -> Seq(Text)] /\ f[Len(s) + 1] = <<>>
  /\ \A i \in 1 .. Len(s) : f[i] = ToNetascii(s, i).out \o f[i + ToNetascii(s, i).taken]

Kept(s, i) == IF s[i] = CR /\ Peek(s, i) = LF THEN <<>> ELSE <<s[i]>>

Files(s, f) ==
  /\ f \in [1 .. Len(s) + 1 -> Seq(Text)] /\ f[Len(s) + 1] = <<>>
  /\ \A i \in 1 .. Len(s) : f[i] = Kept(s, i) \o f[i + 1]

LEMMA EncodeIs ==
  ASSUME NEW s \in Seq(Text)
  PROVE  \E g : Wires(s, g) /\ Encode(s) = g[1]
<1> DEFINE N == Len(s)
<1> DEFINE o == [i \in 1 .. N |-> ToNetascii(s, i).out]
<1> DEFINE d == [i \in 1 .. N |-> ToNetascii(s, i).taken]
<1>1. N \in Nat
  OBVIOUS
<1>2. \A i \in 1 .. N : /\ ToNetascii(s, i).out \in Seq(Text) /\ ToNetascii(s, i).taken \in {1, 2}
                        /\ i + ToNetascii(s, i).taken \in i + 1 .. N + 1
  BY ToNetasciiTyped
<1>3. o \in [1 .. N -> Seq(Text)] /\ d \in [1 .. N -> {1, 2}] /\ \A i \in 1 .. N : i + d[i] \in i + 1 .. N + 1
  BY <1>2
<1>4. \A i \in 1 .. N : o[i] = ToNetascii(s, i).out /\ d[i] = ToNetascii(s, i).taken
  OBVIOUS
<1> DEFINE IsFrom(f) ==
      f = [i \in 1 .. Len(s) + 1 |-> IF i > Len(s) THEN <<>>
                                     ELSE ToNetascii(s, i).out \o f[i + ToNetascii(s, i).taken]]
<1> DEFINE F == CHOOSE f : IsFrom(f)
<1>5. Encode(s) = F[1]
  BY Zenon DEF Encode
<1> HIDE DEF o, d
<1>6. PICK g : Chain(N, o, d, g)
  BY <1>1, <1>3, ChainExists
<1>7. Wires(s, g)
  BY <1>4, <1>6 DEF Chain, Wires
<1>8. IsFrom(g)
  <2>1. ASSUME NEW i \in 1 .. Len(s) + 1
        PROVE  g[i] = IF i > Len(s) THEN <<>> ELSE ToNetascii(s, i).out \o g[i + ToNetascii(s, i).taken]
    <3>1. CASE i = Len(s) + 1
      BY <1>1, <1>7, <3>1 DEF Wires
    <3>2. CASE i \in 1 .. Len(s)
      <4>1. ~(i > Len(s))
        BY <1>1, <3>2
      <4> QED
        BY <1>7, <3>2, <4>1 DEF Wires
    <3> QED
      BY <1>1, <3>1, <3>2
  <2> QED
    BY <1>7, <2>1 DEF Wires
<1> HIDE DEF IsFrom
<1>9. IsFrom(F)
  BY <1>8, Zenon
<1> HIDE DEF F
<1>10. F[N + 1] = <<>>
  BY <1>1, <1>9 DEF IsFrom
<1>11. ASSUME NEW i \in 1 .. N PROVE F[i] = o[i] \o F[i + d[i]]
  <2>1. i \in 1 .. Len(s) + 1 /\ ~(i > Len(s))
    BY <1>1
  <2>2. F[i] = ToNetascii(s, i).out \o F[i + ToNetascii(s, i).taken]
    BY <1>9, <2>1 DEF IsFrom
  <2> QED
    BY <1>4, <2>2
<1> HIDE DEF N
<1>12. Links(N, o, d, g) /\ Links(N, o, d, F) /\ Jumps(N, d)
  BY <1>3, <1>6, <1>10, <1>11 DEF Chain, Links, Jumps
<1>13. \A i \in 1 .. N + 1 : F[i] = g[i]
  <2>0. PICK n \in Nat : n = N
    BY <1>1
  <2>1. PICK p, q, h : n = N /\ p = o /\ q = d /\ h = F
    BY <2>0
  <2>2. Links(n, p, q, g) /\ Links(n, p, q, h) /\ Jumps(n, q)
    BY <1>12, <2>1
  <2>3. \A i \in 1 .. n + 1 : h[i] = g[i]
    BY <2>2, ChainUnique
  <2> QED
    BY <2>1, <2>3
<1>14. F[1] = g[1]
  BY <1>1, <1>13
<1> QED
  BY <1>5, <1>7, <1>14

LEMMA UnixIs ==
  ASSUME NEW s \in Seq(Text)
  PROVE  \E g : Files(s, g) /\ Unix(s) = g[1]
<1> DEFINE N == Len(s)
<1> DEFINE o == [i \in 1 .. N |-> Kept(s, i)]
<1> DEFINE d == [i \in 1 .. N |-> 1]
<1>1. N \in Nat
  OBVIOUS
<1>2. \A i \in 1 .. N : Kept(s, i) \in Seq(Text) /\ 1 \in {1, 2} /\ i + 1 \in i + 1 .. N + 1
  BY DEF Kept
<1>3. o \in [1 .. N -> Seq(Text)] /\ d \in [1 .. N -> {1, 2}] /\ \A i \in 1 .. N : i + d[i] \in i + 1 .. N + 1
  BY <1>2
<1>4. \A i \in 1 .. N : o[i] = Kept(s, i) /\ d[i] = 1
  OBVIOUS
<1> DEFINE IsFrom(f) ==
      f = [i \in 1 .. Len(s) + 1 |-> IF i > Len(s) THEN <<>>
                                     ELSE (IF s[i] = CR /\ Peek(s, i) = LF THEN <<>> ELSE <<s[i]>>) \o f[i + 1]]
<1> DEFINE F == CHOOSE f : IsFrom(f)
<1>5. Unix(s) = F[1]
  BY Zenon DEF Unix
<1> HIDE DEF o, d
<1>6. PICK g : Chain(N, o, d, g)
  BY <1>1, <1>3, ChainExists
<1>7. Files(s, g)
  BY <1>4, <1>6 DEF Chain, Files
<1>8. IsFrom(g)
  <2>1. ASSUME NEW i \in 1 .. Len(s) + 1
        PROVE  g[i] = IF i > Len(s) THEN <<>>
                      ELSE (IF s[i] = CR /\ Peek(s, i) = LF THEN <<>> ELSE <<s[i]>>) \o g[i + 1]
    <3>1. CASE i = Len(s) + 1
      BY <1>1, <1>7, <3>1 DEF Files
    <3>2. CASE i \in 1 .. Len(s)
      <4>1. ~(i > Len(s))
        BY <1>1, <3>2
      <4>2. g[i] = Kept(s, i) \o g[i + 1]
        BY <1>7, <3>2 DEF Files
      <4> QED
        BY <4>1, <4>2 DEF Kept
    <3> QED
      BY <1>1, <3>1, <3>2
  <2> QED
    BY <1>7, <2>1 DEF Files
<1> HIDE DEF IsFrom
<1>9. IsFrom(F)
  BY <1>8, Zenon
<1> HIDE DEF F
<1>10. F[N + 1] = <<>>
  BY <1>1, <1>9 DEF IsFrom
<1>11. ASSUME NEW i \in 1 .. N PROVE F[i] = o[i] \o F[i + d[i]]
  <2>1. i \in 1 .. Len(s) + 1 /\ ~(i > Len(s))
    BY <1>1
  <2>2. F[i] = Kept(s, i) \o F[i + 1]
    BY <1>9, <2>1 DEF IsFrom, Kept
  <2> QED
    BY <1>4, <2>2
<1> HIDE DEF N
<1>12. Links(N, o, d, g) /\ Links(N, o, d, F) /\ Jumps(N, d)
  BY <1>3, <1>6, <1>10, <1>11 DEF Chain, Links, Jumps
<1>13. \A i \in 1 .. N + 1 : F[i] = g[i]
  <2>0. PICK n \in Nat : n = N
    BY <1>1
  <2>1. PICK p, q, h : n = N /\ p = o /\ q = d /\ h = F
    BY <2>0
  <2>2. Links(n, p, q, g) /\ Links(n, p, q, h) /\ Jumps(n, q)
    BY <1>12, <2>1
  <2>3. \A i \in 1 .. n + 1 : h[i] = g[i]
    BY <2>2, ChainUnique
  <2> QED
    BY <2>1, <2>3
<1>14. F[1] = g[1]
  BY <1>1, <1>13
<1> QED
  BY <1>5, <1>7, <1>14
IsPair(a, b, x, p, y) ==
  /\ p = <<a, b>> /\ Len(p) = 2 /\ y = p \o x /\ Len(x) \in Nat /\ Len(y) = 2 + Len(x)
  /\ y[1] = a /\ y[2] = b /\ \A i \in 1 .. Len(x) : y[2 + i] = x[i]

LEMMA PairAt ==
  ASSUME NEW a \in Text, NEW b \in Text, NEW x \in Seq(Text)
  PROVE  \E p, y \in Seq(Text) : IsPair(a, b, x, p, y)
<1> DEFINE p == <<a, b>>
<1>1. p \in Seq(Text) /\ Len(p) = 2 /\ p[1] = a /\ p[2] = b
  OBVIOUS
<1> HIDE DEF p
<1> DEFINE y == p \o x
<1>2. /\ y \in Seq(Text) /\ Len(x) \in Nat /\ Len(y) = Len(p) + Len(x)
      /\ \A i \in 1 .. Len(p) : y[i] = p[i]
      /\ \A i \in 1 .. Len(x) : y[Len(p) + i] = x[i]
  BY <1>1, ConcatAt
<1> HIDE DEF y
<1>3. /\ Len(y) = 2 + Len(x) /\ y[1] = a /\ y[2] = b
      /\ \A i \in 1 .. Len(x) : y[2 + i] = x[i]
  BY <1>1, <1>2
<1> QED
  BY <1>1, <1>2, <1>3, Zenon DEF p, y, IsPair

LEMMA CharAt ==
  ASSUME NEW a \in Text, NEW x \in Seq(Text)
  PROVE  \E p, y \in Seq(Text) :
           /\ p = <<a>> /\ Len(p) = 1 /\ y = p \o x /\ Len(x) \in Nat /\ Len(y) = 1 + Len(x)
           /\ y[1] = a /\ \A i \in 1 .. Len(x) : y[1 + i] = x[i]
<1> DEFINE p == <<a>>
<1>1. p \in Seq(Text) /\ Len(p) = 1 /\ p[1] = a
  OBVIOUS
<1> HIDE DEF p
<1> DEFINE y == p \o x
<1>2. /\ y \in Seq(Text) /\ Len(x) \in Nat /\ Len(y) = Len(p) + Len(x)
      /\ \A i \in 1 .. Len(p) : y[i] = p[i]
      /\ \A i \in 1 .. Len(x) : y[Len(p) + i] = x[i]
  BY <1>1, ConcatAt
<1> HIDE DEF y
<1>3. Len(y) = 1 + Len(x) /\ y[1] = a /\ \A i \in 1 .. Len(x) : y[1 + i] = x[i]
  BY <1>1, <1>2
<1> QED
  BY <1>1, <1>2, <1>3, Zenon DEF p, y

(* The two ways the converter takes a character from the wire.             *)
LEMMA DecodePair ==
  ASSUME NEW c \in {LF, NUL}, NEW x \in Seq(Text)
  PROVE  Decode(<<CR, c>> \o x) = <<IF c = LF THEN LF ELSE CR>> \o Decode(x)
<1>1. CR \in Text /\ c \in Text
  BY DEF Text
<1>3. PICK p \in Seq(Text), y \in Seq(Text) :
        /\ p = <<CR, c>> /\ Len(p) = 2 /\ y = p \o x /\ Len(x) \in Nat /\ Len(y) = 2 + Len(x)
        /\ y[1] = CR /\ y[2] = c /\ \A i \in 1 .. Len(x) : y[2 + i] = x[i]
  <2>1. \E p, y \in Seq(Text) : IsPair(CR, c, x, p, y)
    BY <1>1, PairAt
  <2> QED
    BY <2>1, Zenon DEF IsPair
<1>4. PICK h : Rests(y, h)
  BY RestsExist
<1>5. PICK g : Rests(x, g)
  BY RestsExist
<1>6. \A i \in 1 .. Len(x) + 1 : h[Len(p) + i] = g[i]
  <2>1. Solves(p \o x, h) /\ Solves(x, g)
    BY <1>3, <1>4, <1>5 DEF Rests
  <2> QED
    BY <2>1, RestsShift
<1>7. h[3] = g[1]
  <2>1. 1 \in 1 .. Len(x) + 1 /\ Len(p) + 1 = 3
    BY <1>3
  <2> QED
    BY <1>6, <2>1
<1>8. ToUnix(y, 1).out = <<IF c = LF THEN LF ELSE CR>> /\ ToUnix(y, 1).taken = 2
  <2>1. 1 \in 1 .. Len(y) /\ Peek(y, 1) = c
    BY <1>3 DEF Peek
  <2>2. ToUnix(y, 1) = IF y[1] = CR /\ Peek(y, 1) = LF THEN [out |-> <<LF>>, taken |-> 2]
                       ELSE IF y[1] = CR /\ Peek(y, 1) = NUL THEN [out |-> <<CR>>, taken |-> 2]
                       ELSE [out |-> <<y[1]>>, taken |-> 1]
    BY <2>1, ToUnixIs
  <2>3. NUL # LF
    BY DEF LF, NUL
  <2>4. CASE c = LF
    <3>1. ToUnix(y, 1) = [out |-> <<LF>>, taken |-> 2]
      BY <1>3, <2>1, <2>2, <2>4
    <3>2. ToUnix(y, 1).out = <<LF>> /\ ToUnix(y, 1).taken = 2
      BY <3>1
    <3> QED
      BY <2>4, <3>2, Zenon
  <2>5. CASE c = NUL
    <3>1. ToUnix(y, 1) = [out |-> <<CR>>, taken |-> 2]
      BY <1>3, <2>1, <2>2, <2>3, <2>5
    <3>2. ToUnix(y, 1).out = <<CR>> /\ ToUnix(y, 1).taken = 2
      BY <3>1
    <3> QED
      BY <2>3, <2>5, <3>2, Zenon
  <2> QED
    BY <2>4, <2>5
<1>9. h[1] = ToUnix(y, 1).out \o h[1 + ToUnix(y, 1).taken]
  <2>1. 1 \in 1 .. Len(y)
    BY <1>3
  <2> QED
    BY <1>4, <2>1 DEF Rests, Solves
<1>10. Decode(y) = h[1] /\ Decode(x) = g[1]
  BY <1>4, <1>5, DecodeIs
<1>11. 1 + 2 = 3
  OBVIOUS
<1> QED
  BY <1>3, <1>7, <1>8, <1>9, <1>10, <1>11

LEMMA DecodeChar ==
  ASSUME NEW c \in Text, c # CR, NEW x \in Seq(Text)
  PROVE  Decode(<<c>> \o x) = <<c>> \o Decode(x)
<1>3. PICK p \in Seq(Text), y \in Seq(Text) :
        /\ p = <<c>> /\ Len(p) = 1 /\ y = p \o x /\ Len(x) \in Nat /\ Len(y) = 1 + Len(x)
        /\ y[1] = c /\ \A i \in 1 .. Len(x) : y[1 + i] = x[i]
  BY CharAt
<1>4. PICK h : Rests(y, h)
  BY RestsExist
<1>5. PICK g : Rests(x, g)
  BY RestsExist
<1>6. \A i \in 1 .. Len(x) + 1 : h[Len(p) + i] = g[i]
  <2>1. Solves(p \o x, h) /\ Solves(x, g)
    BY <1>3, <1>4, <1>5 DEF Rests
  <2> QED
    BY <2>1, RestsShift
<1>7. h[2] = g[1]
  <2>1. 1 \in 1 .. Len(x) + 1 /\ Len(p) + 1 = 2
    BY <1>3
  <2> QED
    BY <1>6, <2>1
<1>8. ToUnix(y, 1).out = <<c>> /\ ToUnix(y, 1).taken = 1
  <2>1. 1 \in 1 .. Len(y)
    BY <1>3
  <2>2. ToUnix(y, 1) = [out |-> <<y[1]>>, taken |-> 1]
    BY <1>3, <2>1, ToUnixIs
  <2> QED
    BY <1>3, <2>2
<1>9. h[1] = ToUnix(y, 1).out \o h[1 + ToUnix(y, 1).taken]
  <2>1. 1 \in 1 .. Len(y)
    BY <1>3
  <2> QED
    BY <1>4, <2>1 DEF Rests, Solves
<1>10. Decode(y) = h[1] /\ Decode(x) = g[1]
  BY <1>4, <1>5, DecodeIs
<1>11. 1 + 1 = 2
  OBVIOUS
<1> QED
  BY <1>3, <1>7, <1>8, <1>9, <1>10, <1>11

\* CR and LF stand on the wire as netascii has it.
OnWire(w) ==
  \A i \in 1 .. Len(w) : /\ w[i] = CR => Peek(w, i) \in {LF, NUL}
                         /\ w[i] = LF => i > 1 /\ w[i - 1] = CR

LEMMA OnWirePair ==
  ASSUME NEW c \in {LF, NUL}, NEW x \in Seq(Text), OnWire(x)
  PROVE  OnWire(<<CR, c>> \o x)
<1>1. CR \in Text /\ c \in Text /\ c # CR
  BY DEF Text, CR, LF, NUL
<1>3. PICK p \in Seq(Text), y \in Seq(Text) :
        /\ p = <<CR, c>> /\ Len(p) = 2 /\ y = p \o x /\ Len(x) \in Nat /\ Len(y) = 2 + Len(x)
        /\ y[1] = CR /\ y[2] = c /\ \A i \in 1 .. Len(x) : y[2 + i] = x[i]
  <2>1. \E p, y \in Seq(Text) : IsPair(CR, c, x, p, y)
    BY <1>1, PairAt
  <2> QED
    BY <2>1, Zenon DEF IsPair
<1>4. ASSUME NEW i \in 1 .. Len(y) PROVE /\ y[i] = CR => Peek(y, i) \in {LF, NUL}
                                         /\ y[i] = LF => i > 1 /\ y[i - 1] = CR
  <2>1. CASE i = 1
    BY <1>1, <1>3, <2>1 DEF Peek, CR, LF
  <2>2. CASE i = 2
    BY <1>1, <1>3, <2>2
  <2>3. CASE i > 2
    <3>1. PICK k \in 1 .. Len(x) : i = 2 + k
      <4>1. i - 2 \in 1 .. Len(x) /\ i = 2 + (i - 2)
        BY <1>3, <2>3
      <4> QED
        BY <4>1
    <3>2. y[i] = x[k]
      BY <1>3, <3>1
    <3>3. ASSUME x[k] = CR PROVE Peek(y, i) \in {LF, NUL}
      <4>1. Peek(x, k) \in {LF, NUL}
        BY <3>3 DEF OnWire
      <4>2. k < Len(x)
        BY <4>1 DEF Peek, LF, NUL
      <4>3. k + 1 \in 1 .. Len(x) /\ 2 + (k + 1) = i + 1 /\ i < Len(y)
        BY <1>3, <3>1, <4>2
      <4>4. y[i + 1] = x[k + 1]
        BY <1>3, <4>3
      <4> QED
        BY <4>1, <4>2, <4>3, <4>4 DEF Peek
    <3>4. ASSUME x[k] = LF PROVE y[i - 1] = CR
      <4>1. k > 1 /\ x[k - 1] = CR
        BY <3>4 DEF OnWire
      <4>2. k - 1 \in 1 .. Len(x) /\ 2 + (k - 1) = i - 1
        BY <1>3, <3>1, <4>1
      <4> QED
        BY <1>3, <4>1, <4>2
    <3> QED
      BY <2>3, <3>2, <3>3, <3>4
  <2> QED
    BY <1>3, <2>1, <2>2, <2>3
<1> QED
  BY <1>3, <1>4 DEF OnWire

LEMMA OnWireChar ==
  ASSUME NEW c \in Text, c # CR, c # LF, NEW x \in Seq(Text), OnWire(x)
  PROVE  OnWire(<<c>> \o x)
<1>3. PICK p \in Seq(Text), y \in Seq(Text) :
        /\ p = <<c>> /\ Len(p) = 1 /\ y = p \o x /\ Len(x) \in Nat /\ Len(y) = 1 + Len(x)
        /\ y[1] = c /\ \A i \in 1 .. Len(x) : y[1 + i] = x[i]
  BY CharAt
<1>4. ASSUME NEW i \in 1 .. Len(y) PROVE /\ y[i] = CR => Peek(y, i) \in {LF, NUL}
                                         /\ y[i] = LF => i > 1 /\ y[i - 1] = CR
  <2>1. CASE i = 1
    BY <1>3, <2>1
  <2>3. CASE i > 1
    <3>1. PICK k \in 1 .. Len(x) : i = 1 + k
      <4>1. i - 1 \in 1 .. Len(x) /\ i = 1 + (i - 1)
        BY <1>3, <2>3
      <4> QED
        BY <4>1
    <3>2. y[i] = x[k]
      BY <1>3, <3>1
    <3>3. ASSUME x[k] = CR PROVE Peek(y, i) \in {LF, NUL}
      <4>1. Peek(x, k) \in {LF, NUL}
        BY <3>3 DEF OnWire
      <4>2. k < Len(x)
        BY <4>1 DEF Peek, LF, NUL
      <4>3. k + 1 \in 1 .. Len(x) /\ 1 + (k + 1) = i + 1 /\ i < Len(y)
        BY <1>3, <3>1, <4>2
      <4>4. y[i + 1] = x[k + 1]
        BY <1>3, <4>3
      <4> QED
        BY <4>1, <4>2, <4>3, <4>4 DEF Peek
    <3>4. ASSUME x[k] = LF PROVE y[i - 1] = CR
      <4>1. k > 1 /\ x[k - 1] = CR
        BY <3>4 DEF OnWire
      <4>2. k - 1 \in 1 .. Len(x) /\ 1 + (k - 1) = i - 1
        BY <1>3, <3>1, <4>1
      <4> QED
        BY <1>3, <4>1, <4>2
    <3> QED
      BY <2>3, <3>2, <3>3, <3>4
  <2> QED
    BY <1>3, <2>1, <2>3
<1> QED
  BY <1>3, <1>4 DEF OnWire

LEMMA RoundTrip ==
  ASSUME NEW s \in Seq(Text)
  PROVE  Encode(s) \in Seq(Text) /\ Decode(Encode(s)) = Unix(s) /\ OnWire(Encode(s))
<1> DEFINE N == Len(s)
<1>0. N \in Nat
  OBVIOUS
<1>1. PICK e : Wires(s, e) /\ Encode(s) = e[1]
  BY EncodeIs
<1>2. PICK u : Files(s, u) /\ Unix(s) = u[1]
  BY UnixIs
<1> DEFINE Fine(i) == Decode(e[i]) = u[i] /\ OnWire(e[i])
<1>3. \A i \in 1 .. N + 1 : e[i] \in Seq(Text) /\ u[i] \in Seq(Text)
  BY <1>1, <1>2 DEF Wires, Files
<1>4. Fine(N + 1)
  <2>1. e[N + 1] = <<>> /\ u[N + 1] = <<>>
    BY <1>1, <1>2 DEF Wires, Files
  <2>2. OnWire(<<>>)
    BY DEF OnWire
  <2> QED
    BY <2>1, <2>2, DecodeNone
<1>5. ASSUME NEW i \in 1 .. N, \A j \in i + 1 .. N + 1 : Fine(j) PROVE Fine(i)
  <2>0. i \in Nat /\ i + 1 \in i + 1 .. N + 1 /\ i + 1 \in 1 .. N + 1 /\ s[i] \in Text
    BY <1>0
  <2>1. e[i] = ToNetascii(s, i).out \o e[i + ToNetascii(s, i).taken] /\ u[i] = Kept(s, i) \o u[i + 1]
    BY <1>1, <1>2 DEF Wires, Files
  <2>2. ToNetascii(s, i) = IF s[i] = LF THEN [out |-> <<CR, LF>>, taken |-> 1]
                           ELSE IF s[i] = CR /\ Peek(s, i) = LF THEN [out |-> <<CR, LF>>, taken |-> 2]
                           ELSE IF s[i] = CR THEN [out |-> <<CR, NUL>>, taken |-> 1]
                           ELSE [out |-> <<s[i]>>, taken |-> 1]
    BY ToNetasciiIs
  <2>3. PICK x \in Seq(Text) : x = e[i + 1] /\ Decode(x) = u[i + 1] /\ OnWire(x)
    BY <1>3, <1>5, <2>0
  <2>4. CASE s[i] = LF
    <3>1. ToNetascii(s, i).out = <<CR, LF>> /\ ToNetascii(s, i).taken = 1
      BY <2>2, <2>4
    <3>2. Kept(s, i) = <<LF>>
      BY <2>4 DEF Kept, LF, CR
    <3>3. Decode(<<CR, LF>> \o x) = <<LF>> \o Decode(x) /\ OnWire(<<CR, LF>> \o x)
      BY <2>3, DecodePair, OnWirePair
    <3> QED
      BY <2>1, <2>3, <3>1, <3>2, <3>3
  <2>5. CASE s[i] = CR /\ Peek(s, i) = LF /\ s[i] # LF
    <3>1. ToNetascii(s, i).out = <<CR, LF>> /\ ToNetascii(s, i).taken = 2
      BY <2>2, <2>5
    <3>2. i < N /\ s[i + 1] = LF
      BY <1>0, <2>5 DEF Peek, LF
    <3>3. i + 1 \in 1 .. N /\ i + 2 \in i + 1 .. N + 1 /\ i + 2 \in 1 .. N + 1 /\ i + 1 + 1 = i + 2
      BY <1>0, <3>2
    <3>4. PICK y \in Seq(Text) : y = e[i + 2] /\ Decode(y) = u[i + 2] /\ OnWire(y)
      BY <1>3, <1>5, <3>3
    <3>5. Decode(<<CR, LF>> \o y) = <<LF>> \o Decode(y) /\ OnWire(<<CR, LF>> \o y)
      BY <3>4, DecodePair, OnWirePair
    <3>6. Kept(s, i) = <<>> /\ Kept(s, i + 1) = <<LF>>
      BY <2>5, <3>2 DEF Kept, LF, CR
    <3>7. u[i + 1] = <<LF>> \o u[i + 2]
      <4>1. u[i + 1] = Kept(s, i + 1) \o u[i + 1 + 1]
        BY <1>2, <3>3 DEF Files
      <4> QED
        BY <3>3, <3>6, <4>1
    <3>8. u[i] = u[i + 1]
      BY <1>3, <2>0, <2>1, <3>6, ConcatNone
    <3> QED
      BY <2>1, <3>1, <3>4, <3>5, <3>7, <3>8
  <2>6. CASE s[i] = CR /\ Peek(s, i) # LF /\ s[i] # LF
    <3>1. ToNetascii(s, i).out = <<CR, NUL>> /\ ToNetascii(s, i).taken = 1
      BY <2>2, <2>6
    <3>2. Kept(s, i) = <<CR>>
      BY <2>6 DEF Kept
    <3>3. NUL # LF
      BY DEF NUL, LF
    <3>4. Decode(<<CR, NUL>> \o x) = <<CR>> \o Decode(x) /\ OnWire(<<CR, NUL>> \o x)
      BY <2>3, <3>3, DecodePair, OnWirePair
    <3> QED
      BY <2>1, <2>3, <3>1, <3>2, <3>4
  <2>7. CASE s[i] # CR /\ s[i] # LF
    <3>1. ToNetascii(s, i).out = <<s[i]>> /\ ToNetascii(s, i).taken = 1
      BY <2>2, <2>7
    <3>2. Kept(s, i) = <<s[i]>>
      BY <2>7 DEF Kept
    <3>4. Decode(<<s[i]>> \o x) = <<s[i]>> \o Decode(x) /\ OnWire(<<s[i]>> \o x)
      BY <2>0, <2>3, <2>7, DecodeChar, OnWireChar
    <3> QED
      BY <2>1, <2>3, <3>1, <3>2, <3>4
  <2> QED
    BY <2>4, <2>5, <2>6, <2>7
<1> HIDE DEF Fine, N
<1> DEFINE T == {k \in Nat : k <= N => Fine(N + 1 - k)}
<1>6. N \in T
  <2> SUFFICES ASSUME N \notin T PROVE FALSE
    OBVIOUS
  <2>1. PICK k \in Nat \ T : \A j \in 0 .. k - 1 : j \in T
    BY <1>0, LeastFailure
  <2>2. k <= N /\ ~Fine(N + 1 - k)
    BY <2>1
  <2>3. PICK i \in 1 .. N + 1 : i = N + 1 - k
    <3>1. N + 1 - k \in 1 .. N + 1
      BY <1>0, <2>1, <2>2
    <3> QED
      BY <3>1
  <2>4. i # N + 1
    BY <1>4, <2>2, <2>3
  <2>5. ASSUME NEW j \in i + 1 .. N + 1 PROVE Fine(j)
    <3>1. N + 1 - j \in 0 .. k - 1 /\ N + 1 - j <= N /\ N + 1 - (N + 1 - j) = j
      BY <1>0, <2>1, <2>3
    <3>2. N + 1 - j \in T
      BY <2>1, <3>1
    <3>3. Fine(N + 1 - (N + 1 - j))
      BY <3>1, <3>2
    <3> QED
      BY <3>1, <3>3
  <2>6. i \in 1 .. N
    BY <1>0, <2>3, <2>4
  <2> QED
    BY <1>5, <2>2, <2>3, <2>5, <2>6
<1>7. Fine(1)
  <2>1. Fine(N + 1 - N) /\ N + 1 - N = 1
    BY <1>0, <1>6
  <2> QED
    BY <2>1
<1>8. e[1] \in Seq(Text)
  BY <1>0, <1>3
<1> QED
  BY <1>1, <1>2, <1>7, <1>8 DEF Fine

(* What MP3's netascii.hpp converts on the way out, it converts back on    *)
(* the way in, for a text of any length over any characters; and CR and LF *)
(* stand on the wire as netascii demands.                                  *)
THEOREM NetasciiComesBack ==
  ASSUME sample \in [kind : {"netascii"}, text : Seq(Text)]
  PROVE  NetasciiReadBack
<1>1. PICK s \in Seq(Text) : sample.text = s
  OBVIOUS
<1>2. Encode(s) \in Seq(Text) /\ Decode(Encode(s)) = Unix(s) /\ OnWire(Encode(s))
  BY RoundTrip
<1>3. PICK w \in Seq(Text) : w = Encode(s)
  BY <1>2
<1>4. DOMAIN w = 1 .. Len(w)
  OBVIOUS
<1>5. OnWire(w) /\ Decode(w) = Unix(s)
  BY <1>2, <1>3
<1> QED
  BY <1>1, <1>3, <1>4, <1>5, Zenon DEF NetasciiReadBack, OnWire

-----------------------------------------------------------------------------
(* C strings in packets.                                                   *)

Symbol == Text \ {"NUL"}

\* The C string q stands in p from offset o on.
Stands(p, o, q) ==
  /\ o + Len(q) < Len(p) /\ p[o + Len(q) + 1] = "NUL"
  /\ \A i \in 1 .. Len(q) : p[o + i] = q[i]

LEMMA StrnlenIs ==
  ASSUME NEW p \in Seq(Text), NEW o \in Nat, NEW q \in Seq(Symbol), Stands(p, o, q), NEW n \in Nat
  PROVE  strnlen(p, o, n) = IF n > Len(q) THEN Len(q) ELSE n
<1> DEFINE nuls == {i \in 0 .. n - 1 : o + i < Len(p) /\ p[o + i + 1] = "NUL"}
<1>0. strnlen(p, o, n) = IF nuls = {} THEN n ELSE CHOOSE i \in nuls : \A j \in nuls : i <= j
  BY Zenon DEF strnlen
<1>1. PICK k \in Nat : k = Len(q)
  OBVIOUS
<1>2. Len(p) \in Nat
  OBVIOUS
<1>3. p[o + k + 1] = "NUL" /\ o + k < Len(p)
  BY <1>1 DEF Stands
<1>4. ASSUME NEW j \in 0 .. k - 1 PROVE p[o + j + 1] # "NUL"
  <2>1. j + 1 \in 1 .. Len(q) /\ o + (j + 1) = o + j + 1
    BY <1>1
  <2>2. p[o + (j + 1)] = q[j + 1] /\ q[j + 1] \in Symbol
    BY <2>1 DEF Stands
  <2> QED
    BY <2>1, <2>2 DEF Symbol
<1>5. ASSUME NEW j \in nuls PROVE j \in Int /\ k <= j /\ j < n
  <2>1. j \in 0 .. n - 1 /\ p[o + j + 1] = "NUL"
    OBVIOUS
  <2>2. ~(j \in 0 .. k - 1)
    BY <1>4, <2>1
  <2> QED
    BY <2>1, <2>2
<1>6. n > k => k \in nuls
  BY <1>3
<1> HIDE DEF nuls
<1>7. CASE n > k
  <2> DEFINE Least(i) == \A j \in nuls : i <= j
  <2>1. k \in nuls /\ Least(k)
    BY <1>5, <1>6, <1>7
  <2>2. ASSUME NEW i \in nuls, Least(i) PROVE i = k
    <3>1. i <= k /\ k <= i /\ i \in Int
      BY <1>5, <2>1, <2>2
    <3> QED
      BY <3>1
  <2> HIDE DEF Least
  <2>3. (CHOOSE i \in nuls : Least(i)) \in nuls /\ Least(CHOOSE i \in nuls : Least(i))
    BY <2>1, Zenon
  <2>4. (CHOOSE i \in nuls : Least(i)) = k
    BY <2>2, <2>3, Zenon
  <2>5. (CHOOSE i \in nuls : \A j \in nuls : i <= j) = k
    BY <2>4, Zenon DEF Least
  <2>6. nuls # {}
    BY <2>1
  <2>7. strnlen(p, o, n) = k
    BY <1>0, <2>5, <2>6, Zenon
  <2> QED
    BY <1>1, <1>7, <2>7
<1>8. CASE ~(n > k)
  <2>1. nuls = {}
    BY <1>5, <1>8
  <2> QED
    BY <1>0, <1>1, <1>8, <2>1
<1> QED
  BY <1>7, <1>8

LEMMA StringAtIs ==
  ASSUME NEW p \in Seq(Text), NEW o \in Nat, NEW q \in Seq(Symbol), Stands(p, o, q)
  PROVE  string_at(p, o) = q
<1>1. Len(p) \in Nat /\ Len(q) \in Nat /\ o + Len(q) < Len(p)
  BY DEF Stands
<1>2. PICK n \in Nat : n = Len(p) - o /\ n > Len(q)
  <2>1. Len(p) - o \in Nat /\ Len(p) - o > Len(q)
    BY <1>1
  <2> QED
    BY <2>1
<1>3. strnlen(p, o, n) = Len(q)
  BY <1>2, StrnlenIs
<1>4. string_at(p, o) = SubSeq(p, o + 1, o + Len(q))
  BY <1>2, <1>3 DEF string_at
<1> DEFINE r == SubSeq(p, o + 1, o + Len(q))
<1>5. r \in Seq(Text) /\ Len(r) = Len(q) /\ \A i \in 1 .. Len(q) : r[i] = p[o + i]
  <2>1. o + 1 \in Nat /\ o + Len(q) \in Nat /\ o + 1 >= 1 /\ o + Len(q) <= Len(p)
    BY <1>1
  <2>2. r \in Seq(Text) /\ Len(r) = Len(q)
    BY <1>1, <2>1
  <2>3. ASSUME NEW i \in 1 .. Len(q) PROVE r[i] = p[o + i]
    BY <1>1, <2>1, <2>3
  <2> QED
    BY <2>2, <2>3
<1> HIDE DEF r
<1>6. q \in Seq(Text)
  BY DEF Symbol
<1>7. r = q
  BY <1>5, <1>6, SameSeq DEF Stands
<1> QED
  BY <1>4, <1>7 DEF r

LEMMA FirstIs ==
  ASSUME NEW s \in Seq(Symbol), NEW n \in Nat
  PROVE  /\ First(s, n) \in Seq(Symbol) /\ Len(First(s, n)) \in Nat /\ Len(First(s, n)) <= n
         /\ Len(First(s, n)) <= Len(s)
         /\ Len(s) <= n => First(s, n) = s
         /\ \A i \in 1 .. Len(First(s, n)) : First(s, n)[i] = s[i]
         /\ Len(s) > n => Len(First(s, n)) = n
<1>1. Len(s) \in Nat
  OBVIOUS
<1>2. CASE Len(s) > n
  <2>1. First(s, n) = SubSeq(s, 1, n)
    BY <1>2 DEF First
  <2>2. SubSeq(s, 1, n) \in Seq(Symbol) /\ Len(SubSeq(s, 1, n)) = n /\ \A i \in 1 .. n : SubSeq(s, 1, n)[i] = s[i]
    BY <1>1, <1>2
  <2> QED
    BY <1>1, <1>2, <2>1, <2>2
<1>3. CASE ~(Len(s) > n)
  BY <1>1, <1>3 DEF First
<1> QED
  BY <1>2, <1>3
\* A filename and a mode, one after the other.
Holds(p, f, m) == Stands(p, 0, f) /\ Stands(p, Len(f) + 1, m)

LEMMA WireHolds ==
  ASSUME NEW f \in Seq(Symbol), NEW m \in Seq(Symbol)
  PROVE  /\ Wire(f, m) \in Seq(Text) /\ Len(Wire(f, m)) = Len(f) + Len(m) + 2
         /\ Holds(Wire(f, m), f, m)
<1>1. f \in Seq(Text) /\ m \in Seq(Text) /\ Len(f) \in Nat /\ Len(m) \in Nat
  BY DEF Symbol
<1>2. PICK z \in Seq(Text) : z = <<"NUL">> /\ Len(z) = 1 /\ z[1] = "NUL"
  <2>1. "NUL" \in Text
    BY DEF Text, NUL
  <2>2. <<"NUL">> \in Seq(Text) /\ Len(<<"NUL">>) = 1 /\ <<"NUL">>[1] = "NUL"
    BY <2>1
  <2> QED
    BY <2>2, Zenon
<1>3. PICK a \in Seq(Text) : /\ a = f \o z /\ Len(a) = Len(f) + 1
                             /\ \A i \in 1 .. Len(f) : a[i] = f[i]
                             /\ a[Len(f) + 1] = "NUL"
  <2>1. /\ f \o z \in Seq(Text) /\ Len(f \o z) = Len(f) + Len(z)
        /\ \A i \in 1 .. Len(f) : (f \o z)[i] = f[i]
        /\ \A i \in 1 .. Len(z) : (f \o z)[Len(f) + i] = z[i]
    BY <1>1, ConcatAt
  <2>2. 1 \in 1 .. Len(z)
    BY <1>2
  <2>3. (f \o z)[Len(f) + 1] = "NUL"
    BY <1>2, <2>1, <2>2
  <2> QED
    BY <1>2, <2>1, <2>3
<1>4. PICK b \in Seq(Text) : /\ b = a \o m /\ Len(b) = Len(f) + 1 + Len(m)
                             /\ \A i \in 1 .. Len(f) + 1 : b[i] = a[i]
                             /\ \A i \in 1 .. Len(m) : b[Len(f) + 1 + i] = m[i]
  <2>1. /\ a \o m \in Seq(Text) /\ Len(a \o m) = Len(a) + Len(m)
        /\ \A i \in 1 .. Len(a) : (a \o m)[i] = a[i]
        /\ \A i \in 1 .. Len(m) : (a \o m)[Len(a) + i] = m[i]
    BY <1>1, ConcatAt
  <2> QED
    BY <1>3, <2>1, ZenonT(60)
<1>5. PICK w \in Seq(Text) : /\ w = b \o z /\ Len(w) = Len(f) + 1 + Len(m) + 1
                             /\ \A i \in 1 .. Len(f) + 1 + Len(m) : w[i] = b[i]
                             /\ w[Len(f) + 1 + Len(m) + 1] = "NUL"
  <2>1. /\ b \o z \in Seq(Text) /\ Len(b \o z) = Len(b) + Len(z)
        /\ \A i \in 1 .. Len(b) : (b \o z)[i] = b[i]
        /\ \A i \in 1 .. Len(z) : (b \o z)[Len(b) + i] = z[i]
    BY ConcatAt
  <2>2. 1 \in 1 .. Len(z)
    BY <1>2
  <2>3. (b \o z)[Len(b) + 1] = "NUL"
    BY <1>2, <2>1, <2>2
  <2> QED
    BY <1>2, <1>4, <2>1, <2>3
<1>6. Wire(f, m) = w
  BY <1>2, <1>3, <1>4, <1>5, Zenon DEF Wire
<1>7. Stands(w, 0, f)
  <2>1. 0 + Len(f) < Len(w) /\ 0 + Len(f) + 1 = Len(f) + 1
    BY <1>1, <1>5
  <2>2. w[Len(f) + 1] = "NUL"
    <3>1. Len(f) + 1 \in 1 .. Len(f) + 1 /\ Len(f) + 1 \in 1 .. Len(f) + 1 + Len(m)
      BY <1>1
    <3> QED
      BY <1>3, <1>4, <1>5, <3>1
  <2>3. ASSUME NEW i \in 1 .. Len(f) PROVE w[0 + i] = f[i]
    <3>1. i \in 1 .. Len(f) + 1 /\ i \in 1 .. Len(f) + 1 + Len(m) /\ 0 + i = i
      BY <1>1
    <3>2. w[i] = f[i]
      BY <1>3, <1>4, <1>5, <3>1
    <3> QED
      BY <3>1, <3>2
  <2> QED
    BY <2>1, <2>2, <2>3 DEF Stands
<1>8. Stands(w, Len(f) + 1, m)
  <2>1. Len(f) + 1 + Len(m) < Len(w)
    BY <1>1, <1>5
  <2>2. ASSUME NEW i \in 1 .. Len(m) PROVE w[Len(f) + 1 + i] = m[i]
    <3>1. Len(f) + 1 + i \in 1 .. Len(f) + 1 + Len(m)
      BY <1>1
    <3> QED
      BY <1>4, <1>5, <3>1
  <2> QED
    BY <1>5, <2>1, <2>2 DEF Stands
<1>9. Len(w) = Len(f) + Len(m) + 2
  BY <1>1, <1>5
<1> QED
  BY <1>6, <1>7, <1>8, <1>9 DEF Holds

LEMMA RQHolds ==
  ASSUME NEW filename \in Seq(Symbol), NEW mode \in Seq(Symbol)
  PROVE  /\ RQ(filename, mode) \in Seq(Text)
         /\ Holds(RQ(filename, mode), First(filename, MAX_FILENAME), First(mode, MAX_MODE))
<1>0. MAX_FILENAME \in Nat /\ MAX_MODE \in Nat
  BY LengthsAssumption
<1>1. PICK f \in Seq(Symbol), m \in Seq(Symbol) :
        /\ f = First(filename, MAX_FILENAME) /\ m = First(mode, MAX_MODE)
        /\ Len(f) \in Nat /\ Len(m) \in Nat /\ Len(f) <= MAX_FILENAME /\ Len(m) <= MAX_MODE
  BY <1>0, FirstIs
<1>2. PICK w \in Seq(Text) : w = Wire(f, m) /\ Len(w) = Len(f) + Len(m) + 2 /\ Holds(w, f, m)
  BY WireHolds
<1> DEFINE M == MAX_FILENAME + MAX_MODE + 2
<1> DEFINE p == [i \in 1 .. M |-> IF i \in DOMAIN w THEN w[i] ELSE "?"]
<1>3. RQ(filename, mode) = p
  BY <1>1, <1>2, Zenon DEF RQ, Wire
<1>4. DOMAIN w = 1 .. Len(w) /\ Len(w) \in Nat /\ M \in Nat /\ Len(w) <= M
  BY <1>0, <1>1, <1>2
<1>5. p \in Seq(Text) /\ Len(p) = M /\ \A i \in 1 .. Len(w) : p[i] = w[i]
  <2>1. "?" \in Text /\ \A i \in 1 .. Len(w) : w[i] \in Text
    BY DEF Text
  <2> HIDE DEF M
  <2>2. p \in [1 .. M -> Text]
    BY <1>4, <2>1
  <2>3. \A i \in 1 .. Len(w) : i \in 1 .. M
    BY <1>4
  <2>4. \A i \in 1 .. Len(w) : p[i] = w[i]
    BY <1>4, <2>3
  <2> HIDE DEF p
  <2>5. p \in Seq(Text) /\ Len(p) = M
    BY <1>4, <2>2
  <2> QED
    BY <2>4, <2>5
<1> HIDE DEF p, M
<1>6. Stands(p, 0, f)
  <2>1. 0 + Len(f) < Len(w) /\ w[0 + Len(f) + 1] = "NUL" /\ \A i \in 1 .. Len(f) : w[0 + i] = f[i]
    BY <1>2 DEF Holds, Stands
  <2>2. 0 + Len(f) < Len(p) /\ 0 + Len(f) + 1 \in 1 .. Len(w) /\ \A i \in 1 .. Len(f) : 0 + i \in 1 .. Len(w)
    BY <1>1, <1>2, <1>4, <1>5
  <2> QED
    BY <1>5, <2>1, <2>2 DEF Stands
<1>7. Stands(p, Len(f) + 1, m)
  <2>1. Len(f) + 1 + Len(m) < Len(w) /\ w[Len(f) + 1 + Len(m) + 1] = "NUL"
        /\ \A i \in 1 .. Len(m) : w[Len(f) + 1 + i] = m[i]
    BY <1>2 DEF Holds, Stands
  <2>2. Len(f) + 1 + Len(m) < Len(p) /\ Len(f) + 1 + Len(m) + 1 \in 1 .. Len(w)
        /\ \A i \in 1 .. Len(m) : Len(f) + 1 + i \in 1 .. Len(w)
    BY <1>1, <1>2, <1>4, <1>5
  <2> QED
    BY <1>5, <2>1, <2>2 DEF Stands
<1> QED
  BY <1>1, <1>3, <1>5, <1>6, <1>7 DEF Holds

LEMMA HeldIs ==
  ASSUME NEW p \in Seq(Text), NEW f \in Seq(Symbol), NEW m \in Seq(Symbol), Holds(p, f, m)
  PROVE  /\ RQ_filename(p) = f
         /\ Len(f) <= MAX_FILENAME => RQ_mode(p) = m
         /\ Len(f) <= MAX_FILENAME /\ Len(m) <= MAX_MODE => RQ_size(p) = Len(f) + Len(m) + 2
         /\ Len(f) > MAX_FILENAME => RQ_mode(p) = SubSeq(f, MAX_FILENAME + 2, Len(f))
<1>0. MAX_FILENAME \in Nat /\ MAX_MODE \in Nat /\ Len(f) \in Nat /\ Len(m) \in Nat /\ 0 \in Nat
  BY LengthsAssumption
<1>1. Stands(p, 0, f) /\ Stands(p, Len(f) + 1, m)
  BY DEF Holds
<1>2. RQ_filename(p) = f
  BY <1>0, <1>1, StringAtIs DEF RQ_filename
<1>3. strnlen(p, 0, MAX_FILENAME) = IF MAX_FILENAME > Len(f) THEN Len(f) ELSE MAX_FILENAME
  BY <1>0, <1>1, StrnlenIs
<1>4. ASSUME Len(f) <= MAX_FILENAME
      PROVE  strnlen(p, 0, MAX_FILENAME) = Len(f) /\ RQ_mode(p) = m
  <2>1. strnlen(p, 0, MAX_FILENAME) = Len(f)
    BY <1>0, <1>3, <1>4
  <2>2. Len(f) + 1 \in Nat
    BY <1>0
  <2>3. string_at(p, Len(f) + 1) = m
    BY <1>1, <2>2, StringAtIs
  <2> QED
    BY <2>1, <2>3 DEF RQ_mode
<1>5. ASSUME Len(f) <= MAX_FILENAME, Len(m) <= MAX_MODE PROVE RQ_size(p) = Len(f) + Len(m) + 2
  <2>1. PICK o \in Nat : o = Len(f) + 1
    BY <1>0
  <2>2. strnlen(p, o, MAX_MODE) = IF MAX_MODE > Len(m) THEN Len(m) ELSE MAX_MODE
    BY <1>0, <1>1, <2>1, StrnlenIs
  <2>3. strnlen(p, o, MAX_MODE) = Len(m)
    BY <1>0, <1>5, <2>2
  <2>4. RQ_size(p) = o + Len(m) + 1
    BY <1>4, <1>5, <2>1, <2>3 DEF RQ_size
  <2> QED
    BY <1>0, <2>1, <2>4
<1>6. ASSUME Len(f) > MAX_FILENAME PROVE RQ_mode(p) = SubSeq(f, MAX_FILENAME + 2, Len(f))
  <2>1. strnlen(p, 0, MAX_FILENAME) = MAX_FILENAME
    BY <1>0, <1>3, <1>6
  <2>2. PICK o \in Nat : o = MAX_FILENAME + 1 /\ o + 1 = MAX_FILENAME + 2 /\ o <= Len(f)
    <3>1. MAX_FILENAME + 1 \in Nat /\ MAX_FILENAME + 1 + 1 = MAX_FILENAME + 2 /\ MAX_FILENAME + 1 <= Len(f)
      BY <1>0, <1>6
    <3> QED
      BY <3>1
  <2> DEFINE q == SubSeq(f, o + 1, Len(f))
  <2>3. q \in Seq(Symbol) /\ Len(q) = Len(f) - o /\ \A i \in 1 .. Len(f) - o : q[i] = f[o + i]
    <3>1. o + 1 \in Nat /\ o + 1 >= 1 /\ o + 1 <= Len(f) + 1 /\ Len(f) <= Len(f)
      BY <1>0, <2>2
    <3>2. q \in Seq(Symbol) /\ Len(q) = Len(f) - o
      BY <1>0, <3>1
    <3>3. ASSUME NEW i \in 1 .. Len(f) - o PROVE q[i] = f[o + i]
      BY <1>0, <3>1
    <3> QED
      BY <3>2, <3>3
  <2> HIDE DEF q
  <2>4. Stands(p, o, q)
    <3>1. 0 + Len(f) < Len(p) /\ p[0 + Len(f) + 1] = "NUL" /\ \A i \in 1 .. Len(f) : p[0 + i] = f[i]
      BY <1>1 DEF Stands
    <3>2. o + Len(q) = Len(f) /\ 0 + Len(f) = Len(f)
      BY <1>0, <2>2, <2>3
    <3>3. ASSUME NEW i \in 1 .. Len(q) PROVE p[o + i] = q[i]
      <4>1. o + i \in 1 .. Len(f) /\ 0 + (o + i) = o + i /\ i \in 1 .. Len(f) - o
        BY <1>0, <2>2, <2>3
      <4>2. p[0 + (o + i)] = f[o + i]
        BY <3>1, <4>1
      <4> QED
        BY <2>3, <4>1, <4>2
    <3> QED
      BY <3>1, <3>2, <3>3 DEF Stands
  <2>5. string_at(p, o) = q
    BY <2>3, <2>4, StringAtIs
  <2> QED
    BY <2>1, <2>2, <2>5 DEF RQ_mode, q
<1> QED
  BY <1>2, <1>4, <1>5, <1>6
LEMMA RequestBack ==
  ASSUME NEW filename \in Seq(Symbol), NEW mode \in Seq(Symbol)
  PROVE  TftpRequestReadBack(filename, mode)
<1> DEFINE p == RQ(filename, mode)
<1> DEFINE w == Wire(filename, mode)
<1> DEFINE f == First(filename, MAX_FILENAME)
<1> DEFINE m == First(mode, MAX_MODE)
<1>0. MAX_FILENAME \in Nat /\ MAX_MODE \in Nat /\ MAX_MODE > 1
  BY LengthsAssumption
<1>1. p \in Seq(Text) /\ Holds(p, f, m)
  BY RQHolds
<1>2. w \in Seq(Text) /\ Holds(w, filename, mode)
  BY WireHolds
<1>3. /\ f \in Seq(Symbol) /\ m \in Seq(Symbol) /\ Len(f) <= MAX_FILENAME /\ Len(m) <= MAX_MODE
      /\ Len(mode) <= MAX_MODE => m = mode
  BY <1>0, FirstIs
<1> HIDE DEF p, w, f, m
<1>4. RQ_filename(p) = f /\ RQ_mode(p) = m /\ RQ_size(p) = Len(f) + Len(m) + 2
  BY <1>1, <1>3, HeldIs
<1>5. /\ RQ_filename(w) = filename
      /\ Len(filename) <= MAX_FILENAME => RQ_mode(w) = mode
      /\ Len(filename) > MAX_FILENAME => RQ_mode(w) = SubSeq(filename, MAX_FILENAME + 2, Len(filename))
  BY <1>2, HeldIs
<1>6. ASSUME mode \in {NETASCII, OCTET}, Len(filename) <= MAX_FILENAME
      PROVE  from_string(RQ_mode(p)) = from_string(mode) /\ from_string(RQ_mode(w)) # "throws"
  <2>1. Len(NETASCII) = MAX_MODE /\ Len(OCTET) = 1
    BY <1>0 DEF NETASCII, OCTET
  <2>2. Len(mode) <= MAX_MODE
    BY <1>0, <1>6, <2>1
  <2>3. RQ_mode(p) = mode /\ RQ_mode(w) = mode
    BY <1>3, <1>4, <1>5, <1>6, <2>2
  <2>4. from_string(mode) # "throws"
    BY <1>6 DEF from_string
  <2> QED
    BY <2>3, <2>4
<1> QED
  BY <1>4, <1>5, <1>6, Zenon DEF TftpRequestReadBack, p, w, f, m

LEMMA ErrorBack ==
  ASSUME NEW text \in Seq(Symbol)
  PROVE  TftpErrorReadBack(text)
<1> DEFINE p == ErrorText(text)
<1>0. MAX_ERROR \in Nat /\ Len(text) \in Nat /\ 0 \in Nat
  BY LengthsAssumption
<1>1. PICK q \in Seq(Symbol) :
        /\ q = First(text, MAX_ERROR) /\ Len(q) \in Nat /\ Len(q) <= MAX_ERROR
        /\ Len(q) <= Len(text)
        /\ (Len(text) <= MAX_ERROR => q = text) /\ (Len(text) > MAX_ERROR => Len(q) = MAX_ERROR)
        /\ \A i \in 1 .. Len(q) : q[i] = text[i]
  BY <1>0, FirstIs
<1>2. /\ p \in Seq(Text) /\ Len(p) = MAX_ERROR + 1
      /\ \A i \in 1 .. MAX_ERROR + 1 : p[i] = IF i \in DOMAIN text /\ i <= MAX_ERROR THEN text[i] ELSE "NUL"
  <2>1. p \in [1 .. MAX_ERROR + 1 -> Text]
    <3>1. "NUL" \in Text /\ DOMAIN text = 1 .. Len(text) /\ \A i \in 1 .. Len(text) : text[i] \in Text
      BY DEF Text, NUL, Symbol
    <3> QED
      BY <3>1 DEF ErrorText
  <2>2. \A i \in 1 .. MAX_ERROR + 1 : p[i] = IF i \in DOMAIN text /\ i <= MAX_ERROR THEN text[i] ELSE "NUL"
    BY DEF ErrorText
  <2> HIDE DEF p
  <2>3. p \in Seq(Text) /\ Len(p) = MAX_ERROR + 1
    BY <1>0, <2>1
  <2> QED
    BY <2>2, <2>3
<1>3. DOMAIN text = 1 .. Len(text)
  OBVIOUS
<1> HIDE DEF p
<1>4. Stands(p, 0, q)
  <2>1. 0 + Len(q) < Len(p) /\ 0 + Len(q) + 1 = Len(q) + 1 /\ Len(q) + 1 \in 1 .. MAX_ERROR + 1
    BY <1>0, <1>1, <1>2
  <2>2. ~(Len(q) + 1 \in 1 .. Len(text) /\ Len(q) + 1 <= MAX_ERROR)
    BY <1>0, <1>1
  <2>3. p[Len(q) + 1] = "NUL"
    BY <1>2, <1>3, <2>1, <2>2
  <2>4. ASSUME NEW i \in 1 .. Len(q) PROVE p[0 + i] = q[i]
    <3>1. i \in 1 .. Len(text) /\ i <= MAX_ERROR /\ i \in 1 .. MAX_ERROR + 1 /\ 0 + i = i
      BY <1>0, <1>1
    <3>2. p[i] = text[i] /\ q[i] = text[i]
      BY <1>1, <1>2, <1>3, <3>1
    <3> QED
      BY <3>1, <3>2
  <2> QED
    BY <2>1, <2>3, <2>4 DEF Stands
<1>5. string_at(p, 0) = q
  BY <1>0, <1>2, <1>4, StringAtIs
<1>6. strnlen(p, 0, MAX_ERROR) = IF MAX_ERROR > Len(q) THEN Len(q) ELSE MAX_ERROR
  BY <1>0, <1>2, <1>4, StrnlenIs
<1>7. strnlen(p, 0, MAX_ERROR) = Len(q)
  BY <1>0, <1>1, <1>6
<1>8. get_error_message(p) = q /\ Error_size(p) = 2 + Len(q) + 1
  BY <1>5, <1>7 DEF get_error_message, Error_size
<1> QED
  BY <1>1, <1>8 DEF TftpErrorReadBack, p

(* Whatever the limits and whatever the strings, the accessors of libtftp  *)
(* give back what its constructors put into a packet, cut at the limits,   *)
(* and understand a request from the network up to the limit of its        *)
(* filename; behind that limit the end of the filename is taken for the    *)
(* mode.                                                                   *)
THEOREM TftpPacketsComeBack ==
  ASSUME sample \in [kind : {"request"}, filename : Seq(Symbol), mode : Seq(Symbol)]
                      \cup [kind : {"error"}, text : Seq(Symbol)]
  PROVE  TftpReadBack
<1>1. CASE sample \in [kind : {"request"}, filename : Seq(Symbol), mode : Seq(Symbol)]
  <2>1. sample.kind = "request" /\ sample.filename \in Seq(Symbol) /\ sample.mode \in Seq(Symbol)
    BY <1>1
  <2>2. TftpRequestReadBack(sample.filename, sample.mode)
    BY <2>1, RequestBack
  <2> QED
    BY <2>1, <2>2 DEF TftpReadBack
<1>2. CASE sample \in [kind : {"error"}, text : Seq(Symbol)]
  <2>1. sample.kind = "error" /\ sample.text \in Seq(Symbol)
    BY <1>2
  <2>2. TftpErrorReadBack(sample.text)
    BY <2>1, ErrorBack
  <2> QED
    BY <2>1, <2>2 DEF TftpReadBack
<1> QED
  BY <1>1, <1>2

-----------------------------------------------------------------------------
(* std::string's searches.                                                 *)

LEMMA MinIn ==
  ASSUME NEW S \in SUBSET Nat, S # {}
  PROVE  LET m == CHOOSE i \in S : \A j \in S : i <= j IN m \in S /\ \A j \in S : m <= j
<1> DEFINE Least(i) == \A j \in S : i <= j
<1> DEFINE T == Nat \ S
<1>1. PICK n \in S : n \in Nat /\ n \notin T
  OBVIOUS
<1>2. PICK k \in Nat \ T : \A j \in 0 .. k - 1 : j \in T
  BY <1>1, LeastFailure
<1>3. k \in S /\ Least(k)
  <2>1. ASSUME NEW j \in S, ~(k <= j) PROVE FALSE
    <3>1. j \in 0 .. k - 1
      BY <1>2, <2>1
    <3> QED
      BY <1>2, <3>1
  <2> QED
    BY <1>2, <2>1
<1> HIDE DEF Least
<1>4. (CHOOSE i \in S : Least(i)) \in S /\ Least(CHOOSE i \in S : Least(i))
  BY <1>3, Zenon
<1> QED
  BY <1>4, Zenon DEF Least

LEMMA MaxIn ==
  ASSUME NEW N \in Nat, NEW S \in SUBSET (0 .. N), S # {}
  PROVE  (CHOOSE i \in S : \A j \in S : i >= j) \in S
<1> DEFINE Most(i) == \A j \in S : i >= j
<1> DEFINE T == {k \in Nat : N - k \notin S}
<1>1. PICK n \in S : TRUE
  OBVIOUS
<1>2. PICK a \in Nat : a = N - n /\ a \notin T
  <2>1. N - n \in Nat /\ N - (N - n) = n
    OBVIOUS
  <2> QED
    BY <2>1
<1>3. PICK k \in Nat \ T : \A j \in 0 .. k - 1 : j \in T
  BY <1>2, LeastFailure
<1>4. N - k \in S /\ Most(N - k)
  <2>1. ASSUME NEW j \in S, ~(N - k >= j) PROVE FALSE
    <3>1. N - j \in 0 .. k - 1 /\ N - (N - j) = j
      BY <1>3, <2>1
    <3>2. N - j \in T
      BY <1>3, <3>1
    <3> QED
      BY <3>1, <3>2
  <2> QED
    BY <1>3, <2>1
<1> HIDE DEF Most
<1>5. (CHOOSE i \in S : Most(i)) \in S
  BY <1>4, Zenon
<1> QED
  BY <1>5, Zenon DEF Most

LEMMA FindIs ==
  ASSUME NEW s \in Seq(Text), NEW t, NEW k \in 0 .. Len(s), Occurs(s, t, k),
         \A j \in 0 .. k - 1 : ~Occurs(s, t, j)
  PROVE  find(s, t, 0) = k
<1> DEFINE found == {i \in 0 .. Len(s) : Occurs(s, t, i)}
<1> DEFINE m == CHOOSE i \in found : \A j \in found : i <= j
<1>1. find(s, t, 0) = IF found = {} THEN npos ELSE m
  BY Zenon DEF find
<1>2. k \in found /\ found \in SUBSET Nat /\ found # {}
  OBVIOUS
<1>3. \A j \in found : k <= j
  <2>1. ASSUME NEW j \in found, ~(k <= j) PROVE FALSE
    <3>1. j \in 0 .. k - 1 /\ Occurs(s, t, j)
      BY <2>1
    <3> QED
      BY <3>1
  <2> QED
    BY <2>1
<1> HIDE DEF found
<1>4. m \in found /\ \A j \in found : m <= j
  BY <1>2, MinIn
<1> HIDE DEF m
<1>5. m <= k /\ k <= m /\ m \in Nat /\ k \in Nat
  BY <1>2, <1>3, <1>4
<1>6. m = k
  BY <1>5
<1> QED
  BY <1>1, <1>2, <1>6

LEMMA FindNone ==
  ASSUME NEW s \in Seq(Text), NEW t, \A j \in 0 .. Len(s) : ~Occurs(s, t, j)
  PROVE  find(s, t, 0) = npos
<1>1. {i \in 0 .. Len(s) : Occurs(s, t, i)} = {}
  OBVIOUS
<1> QED
  BY <1>1, Zenon DEF find

LEMMA OccursOne ==
  ASSUME NEW s \in Seq(Text), NEW c \in Text, NEW i \in 0 .. Len(s)
  PROVE  Occurs(s, <<c>>, i) <=> i < Len(s) /\ s[i + 1] = c
<1>1. Len(<<c>>) = 1 /\ Len(s) \in Nat /\ i \in Nat
  OBVIOUS
<1>2. Occurs(s, <<c>>, i) <=> i + 1 <= Len(s) /\ SubSeq(s, i + 1, i + 1) = <<c>>
  BY <1>1 DEF Occurs
<1>3. ASSUME i < Len(s) PROVE SubSeq(s, i + 1, i + 1) = <<s[i + 1]>>
  <2>1. PICK k \in 1 .. Len(s) : k = i + 1
    <3>1. i + 1 \in 1 .. Len(s)
      BY <1>1, <1>3
    <3> QED
      BY <3>1
  <2>2. s[k] \in Text
    OBVIOUS
  <2>3. SubSeq(s, k, k) \in Seq(Text) /\ Len(SubSeq(s, k, k)) = 1 /\ SubSeq(s, k, k)[1] = s[k]
    BY <1>1
  <2>4. SubSeq(s, k, k) = <<s[k]>>
    <3>1. PICK a \in Seq(Text) : a = SubSeq(s, k, k) /\ Len(a) = 1 /\ a[1] = s[k]
      BY <2>3, Zenon
    <3>2. PICK b \in Seq(Text) : b = <<s[k]>> /\ Len(b) = 1 /\ b[1] = s[k]
      <4>1. <<s[k]>> \in Seq(Text) /\ Len(<<s[k]>>) = 1 /\ <<s[k]>>[1] = s[k]
        BY <2>2
      <4> QED
        BY <4>1, Zenon
    <3>3. a = b
      <4>1. Len(a) = Len(b) /\ \A j \in 1 .. Len(a) : j = 1
        BY <3>1, <3>2
      <4>2. \A j \in 1 .. Len(a) : a[j] = b[j]
        BY <3>1, <3>2, <4>1, Zenon
      <4> QED
        BY <4>1, <4>2, SameSeq
    <3> QED
      BY <3>1, <3>2, <3>3
  <2> QED
    BY <2>1, <2>4
<1>4. s[i + 1] = c <=> <<s[i + 1]>> = <<c>>
  OBVIOUS
<1>5. i + 1 <= Len(s) <=> i < Len(s)
  BY <1>1
<1> QED
  BY <1>2, <1>3, <1>4, <1>5

LEMMA FindOne ==
  ASSUME NEW s \in Seq(Text), NEW c \in Text
  PROVE  \/ find(s, <<c>>, 0) = npos /\ \A i \in 1 .. Len(s) : s[i] # c
         \/ /\ find(s, <<c>>, 0) \in 0 .. Len(s) - 1 /\ s[find(s, <<c>>, 0) + 1] = c
            /\ \A i \in 1 .. find(s, <<c>>, 0) : s[i] # c
<1> DEFINE S == {i \in 0 .. Len(s) - 1 : s[i + 1] = c}
<1>0. Len(s) \in Nat
  OBVIOUS
<1>1. CASE S = {}
  <2>1. ASSUME NEW i \in 1 .. Len(s) PROVE s[i] # c
    <3>1. i - 1 \in 0 .. Len(s) - 1 /\ i - 1 + 1 = i
      BY <1>0
    <3> QED
      BY <1>1, <3>1
  <2>2. ASSUME NEW j \in 0 .. Len(s) PROVE ~Occurs(s, <<c>>, j)
    <3>1. ASSUME j < Len(s) PROVE s[j + 1] # c
      <4>1. j + 1 \in 1 .. Len(s)
        BY <1>0, <3>1
      <4> QED
        BY <2>1, <4>1
    <3> QED
      BY <3>1, OccursOne
  <2>3. find(s, <<c>>, 0) = npos
    BY <2>2, FindNone
  <2> QED
    BY <2>1, <2>3
<1>2. CASE S # {}
  <2>1. PICK k \in S : \A j \in S : k <= j
    <3>1. S \in SUBSET Nat
      BY <1>0
    <3> HIDE DEF S
    <3> QED
      BY <1>2, <3>1, MinIn
  <2>2. k \in 0 .. Len(s) - 1 /\ s[k + 1] = c /\ k \in 0 .. Len(s) /\ k < Len(s) /\ k \in Nat
    BY <1>0
  <2>3. ASSUME NEW j \in 0 .. k - 1 PROVE s[j + 1] # c /\ j \in 0 .. Len(s)
    <3>1. j \in 0 .. Len(s) - 1 /\ j \in 0 .. Len(s) /\ ~(k <= j)
      BY <1>0, <2>2
    <3> QED
      BY <2>1, <3>1
  <2>4. Occurs(s, <<c>>, k)
    BY <2>2, OccursOne
  <2>5. \A j \in 0 .. k - 1 : ~Occurs(s, <<c>>, j)
    BY <2>3, OccursOne
  <2>6. find(s, <<c>>, 0) = k
    BY <2>2, <2>4, <2>5, FindIs
  <2>7. ASSUME NEW i \in 1 .. k PROVE s[i] # c
    <3>1. i - 1 \in 0 .. k - 1 /\ i - 1 + 1 = i
      BY <2>2
    <3> QED
      BY <2>3, <3>1
  <2> QED
    BY <2>2, <2>6, <2>7
<1> QED
  BY <1>1, <1>2

LEMMA LastOf ==
  ASSUME NEW s \in Seq(Text), NEW c \in Text
  PROVE  \/ find_last_of(s, c) = npos
         \/ find_last_of(s, c) \in 0 .. Len(s) - 1 /\ s[find_last_of(s, c) + 1] = c
<1> DEFINE found == {i \in 0 .. Len(s) - 1 : s[i + 1] = c}
<1> DEFINE m == CHOOSE i \in found : \A j \in found : i >= j
<1>1. find_last_of(s, c) = IF found = {} THEN npos ELSE m
  BY Zenon DEF find_last_of
<1>2. Len(s) \in Nat /\ found \in SUBSET (0 .. Len(s))
  OBVIOUS
<1>3. ASSUME found # {} PROVE m \in found
  <2> HIDE DEF found
  <2> QED
    BY <1>2, <1>3, MaxIn
<1>4. \A i \in found : i \in 0 .. Len(s) - 1 /\ s[i + 1] = c
  OBVIOUS
<1> HIDE DEF found, m
<1> QED
  BY <1>1, <1>3, <1>4

-----------------------------------------------------------------------------
(* URIs.                                                                   *)

LEMMA PartIs ==
  ASSUME NEW s \in Seq(Text), NEW a \in 1 .. Len(s) + 1, NEW b \in 0 .. Len(s), a <= b + 1
  PROVE  /\ SubSeq(s, a, b) \in Seq(Text) /\ Len(SubSeq(s, a, b)) = b - a + 1
         /\ \A i \in 1 .. b - a + 1 : SubSeq(s, a, b)[i] = s[a + i - 1]
<1>1. Len(s) \in Nat /\ a \in Nat /\ b \in Nat
  OBVIOUS
<1>2. SubSeq(s, a, b) \in Seq(Text) /\ Len(SubSeq(s, a, b)) = b - a + 1
  BY <1>1
<1>3. ASSUME NEW i \in 1 .. b - a + 1 PROVE SubSeq(s, a, b)[i] = s[a + i - 1]
  BY <1>1
<1> QED
  BY <1>2, <1>3

\* A text in which c stands at position k is what is before it, c, and the rest.
LEMMA SplitAt ==
  ASSUME NEW s \in Seq(Text), NEW c \in Text, NEW k \in 0 .. Len(s) - 1, s[k + 1] = c
  PROVE  /\ SubSeq(s, 1, k) \in Seq(Text) /\ SubSeq(s, k + 2, Len(s)) \in Seq(Text)
         /\ SubSeq(s, k + 1, Len(s)) = <<c>> \o SubSeq(s, k + 2, Len(s))
         /\ s = SubSeq(s, 1, k) \o (<<c>> \o SubSeq(s, k + 2, Len(s)))
<1>0. Len(s) \in Nat /\ k \in Nat
  OBVIOUS
<1>1. /\ SubSeq(s, 1, k) \in Seq(Text) /\ SubSeq(s, k + 1, Len(s)) \in Seq(Text)
      /\ s = SubSeq(s, 1, k) \o SubSeq(s, k + 1, Len(s))
  <2>1. PICK n \in 1 .. Len(s) + 1 : n = k + 1
    <3>1. k + 1 \in 1 .. Len(s) + 1
      BY <1>0
    <3> QED
      BY <3>1
  <2>2. n - 1 = k
    BY <1>0, <2>1
  <2>3. SubSeq(s, 1, n - 1) \in Seq(Text) /\ SubSeq(s, n, Len(s)) \in Seq(Text)
        /\ s = SubSeq(s, 1, n - 1) \o SubSeq(s, n, Len(s))
    BY Split
  <2> QED
    BY <2>1, <2>2, <2>3
<1>2. PICK n \in Nat : n = Len(s)
  BY <1>0
<1>3. PICK r \in Seq(Text) : /\ r = SubSeq(s, k + 1, n) /\ Len(r) = n - k
                             /\ \A i \in 1 .. n - k : r[i] = s[k + i]
  <2>1. k + 1 \in 1 .. Len(s) + 1 /\ n \in 0 .. Len(s) /\ k + 1 <= n + 1 /\ n - (k + 1) + 1 = n - k
    BY <1>0, <1>2
  <2>2. /\ SubSeq(s, k + 1, n) \in Seq(Text) /\ Len(SubSeq(s, k + 1, n)) = n - k
        /\ \A i \in 1 .. n - k : SubSeq(s, k + 1, n)[i] = s[k + 1 + i - 1]
    BY <2>1, PartIs
  <2>3. \A i \in 1 .. n - k : k + 1 + i - 1 = k + i
    BY <1>0, <1>2
  <2> QED
    BY <2>2, <2>3
<1>4. PICK q \in Seq(Text) : /\ q = SubSeq(s, k + 2, n) /\ Len(q) = n - k - 1
                             /\ \A i \in 1 .. n - k - 1 : q[i] = s[k + 1 + i]
  <2>1. k + 2 \in 1 .. Len(s) + 1 /\ n \in 0 .. Len(s) /\ k + 2 <= n + 1 /\ n - (k + 2) + 1 = n - k - 1
    BY <1>0, <1>2
  <2>2. /\ SubSeq(s, k + 2, n) \in Seq(Text) /\ Len(SubSeq(s, k + 2, n)) = n - k - 1
        /\ \A i \in 1 .. n - k - 1 : SubSeq(s, k + 2, n)[i] = s[k + 2 + i - 1]
    BY <2>1, PartIs
  <2>3. \A i \in 1 .. n - k - 1 : k + 2 + i - 1 = k + 1 + i
    BY <1>0, <1>2
  <2> QED
    BY <2>2, <2>3
<1>5. PICK p \in Seq(Text), y \in Seq(Text) :
        /\ p = <<c>> /\ Len(p) = 1 /\ y = p \o q /\ Len(q) \in Nat /\ Len(y) = 1 + Len(q)
        /\ y[1] = c /\ \A i \in 1 .. Len(q) : y[1 + i] = q[i]
  BY CharAt
<1>6. r = y
  <2>1. Len(r) = Len(y)
    BY <1>0, <1>2, <1>3, <1>4, <1>5
  <2>2. ASSUME NEW i \in 1 .. Len(r) PROVE r[i] = y[i]
    <3>1. CASE i = 1
      <4>1. i \in 1 .. n - k /\ k + i = k + 1
        BY <1>3, <3>1
      <4> QED
        BY <1>3, <1>5, <3>1, <4>1
    <3>2. CASE i # 1
      <4>1. PICK j \in 1 .. n - k - 1 : i = 1 + j
        <5>1. i - 1 \in 1 .. n - k - 1 /\ i = 1 + (i - 1)
          BY <1>0, <1>2, <1>3, <3>2
        <5> QED
          BY <5>1
      <4>2. i \in 1 .. n - k /\ k + i = k + 1 + j /\ j \in 1 .. Len(q)
        BY <1>0, <1>2, <1>3, <1>4, <4>1
      <4>3. r[i] = s[k + i] /\ q[j] = s[k + 1 + j] /\ y[1 + j] = q[j]
        BY <1>3, <1>4, <1>5, <4>1, <4>2
      <4> QED
        BY <4>1, <4>2, <4>3
    <3> QED
      BY <3>1, <3>2
  <2> QED
    BY <2>1, <2>2, SameSeq
<1> QED
  BY <1>1, <1>2, <1>3, <1>4, <1>5, <1>6

\* What substr gives, as a part of s.
LEMMA SubstrIs ==
  ASSUME NEW s \in Seq(Text), NEW pos \in 0 .. Len(s)
  PROVE  /\ \A n \in Int : n < 0 => substr(s, pos, n) = SubSeq(s, pos + 1, Len(s))
         /\ \A e \in pos .. Len(s) : substr(s, pos, e - pos) = SubSeq(s, pos + 1, e)
         /\ rest(s, pos) = SubSeq(s, pos + 1, Len(s))
<1>0. Len(s) \in Nat /\ pos \in Nat
  OBVIOUS
<1>1. ASSUME NEW n \in Int, n < 0 PROVE substr(s, pos, n) = SubSeq(s, pos + 1, Len(s))
  BY <1>1 DEF substr
<1>2. ASSUME NEW e \in pos .. Len(s) PROVE substr(s, pos, e - pos) = SubSeq(s, pos + 1, e)
  <2>1. ~(e - pos < 0) /\ pos + (e - pos) = e /\ ~(e > Len(s))
    BY <1>0
  <2> QED
    BY <2>1 DEF substr
<1>3. rest(s, pos) = SubSeq(s, pos + 1, Len(s))
  <2>1. npos \in Int /\ npos < 0
    BY DEF npos
  <2> QED
    BY <1>1, <2>1 DEF rest
<1> QED
  BY <1>1, <1>2, <1>3

LEMMA WholeIs ==
  ASSUME NEW s \in Seq(Text)
  PROVE  SubSeq(s, 1, Len(s)) = s
<1>1. Len(s) \in Nat
  OBVIOUS
<1>2. PICK n \in Nat : n = Len(s)
  BY <1>1
<1>3. 1 \in 1 .. Len(s) + 1 /\ n \in 0 .. Len(s) /\ 1 <= n + 1 /\ n - 1 + 1 = n /\ \A i \in 1 .. n : 1 + i - 1 = i
  BY <1>1, <1>2
<1>4. SubSeq(s, 1, n) \in Seq(Text) /\ Len(SubSeq(s, 1, n)) = n /\ \A i \in 1 .. n : SubSeq(s, 1, n)[i] = s[1 + i - 1]
  BY <1>3, PartIs
<1>5. \A i \in 1 .. n : SubSeq(s, 1, n)[i] = s[i]
  BY <1>3, <1>4
<1>6. SubSeq(s, 1, n) = s
  BY <1>2, <1>4, <1>5, SameSeq
<1> QED
  BY <1>2, <1>6
LEMMA UriBack ==
  ASSUME NEW s \in Seq(Text), NEW hash, hash = find_last_of(s, "#"), NEW colon, colon = find(s, <<":">>, 0)
  PROVE  URI_to_string(URI(s)) = s \o (IF hash # npos /\ colon > hash THEN rest(s, hash) ELSE <<>>)
<1> DEFINE fragment == IF hash = npos THEN <<>> ELSE <<rest(s, hash + 1)>>
<1>0. Len(s) \in Nat /\ "#" \in Text /\ ":" \in Text /\ "#" # ":" /\ npos = -1
  BY DEF Text, npos
<1>1. \/ hash = npos
      \/ hash \in 0 .. Len(s) - 1 /\ s[hash + 1] = "#"
  BY <1>0, LastOf
<1>2. \/ colon = npos
      \/ colon \in 0 .. Len(s) - 1 /\ s[colon + 1] = ":"
  BY <1>0, FindOne
<1>3. URI(s) = IF colon # npos
               THEN [scheme |-> <<substr(s, 0, colon)>>,
                     path |-> substr(s, colon + 1, hash - colon - 1),
                     fragment |-> fragment]
               ELSE [scheme |-> <<>>, path |-> substr(s, 0, hash), fragment |-> fragment]
  BY Zenon DEF URI
<1> DEFINE tail == IF hash = npos THEN <<>> ELSE <<"#">> \o rest(s, hash + 1)
<1>4. \A u : u.fragment = fragment => (IF u.fragment = <<>> THEN <<>> ELSE <<"#">> \o u.fragment[1]) = tail
  <2>1. \A x : <<x>> # <<>> /\ <<x>>[1] = x
    OBVIOUS
  <2> QED
    BY <2>1
<1>5. ASSUME colon = npos PROVE URI_to_string(URI(s)) = substr(s, 0, hash) \o tail
  <2> DEFINE u == URI(s)
  <2>1. u.scheme = <<>> /\ u.path = substr(s, 0, hash) /\ u.fragment = fragment
    BY <1>3, <1>5
  <2>2. URI_to_string(u) = <<>> \o substr(s, 0, hash) \o tail
    BY <1>4, <2>1, Zenon DEF URI_to_string
  <2>3. substr(s, 0, hash) \in Seq(Text)
    <3>1. 0 \in 0 .. Len(s)
      BY <1>0
    <3>2. CASE hash = npos
      <4>1. substr(s, 0, hash) = SubSeq(s, 0 + 1, Len(s)) /\ 0 + 1 = 1
        BY <1>0, <3>1, <3>2, SubstrIs
      <4> QED
        BY <4>1, WholeIs
    <3>3. CASE hash \in 0 .. Len(s) - 1 /\ s[hash + 1] = "#"
      <4>1. hash \in 0 .. Len(s) /\ hash - 0 = hash /\ 0 + 1 = 1
        BY <1>0, <3>3
      <4>2. substr(s, 0, hash - 0) = SubSeq(s, 0 + 1, hash)
        BY <3>1, <4>1, SubstrIs
      <4>3. SubSeq(s, 1, hash) \in Seq(Text)
        BY <1>0, <3>3, SplitAt
      <4> QED
        BY <4>1, <4>2, <4>3
    <3> QED
      BY <1>1, <3>2, <3>3
  <2>4. <<>> \o substr(s, 0, hash) = substr(s, 0, hash)
    BY <2>3, ConcatNone
  <2> QED
    BY <2>2, <2>4
<1>6. ASSUME colon # npos
      PROVE  URI_to_string(URI(s)) = ((substr(s, 0, colon) \o <<":">>) \o substr(s, colon + 1, hash - colon - 1)) \o tail
  <2> DEFINE u == URI(s)
  <2>1. u.scheme = <<substr(s, 0, colon)>> /\ u.path = substr(s, colon + 1, hash - colon - 1) /\ u.fragment = fragment
    BY <1>3, <1>6
  <2>2. \A x : <<x>> # <<>> /\ <<x>>[1] = x
    OBVIOUS
  <2>3. u.scheme # <<>> /\ u.scheme[1] = substr(s, 0, colon)
    BY <2>1, <2>2, Zenon
  <2> QED
    BY <1>4, <2>1, <2>3, Zenon DEF URI_to_string
<1>7. ASSUME hash # npos
      PROVE  tail = <<"#">> \o SubSeq(s, hash + 2, Len(s)) /\ tail = rest(s, hash) /\ tail \in Seq(Text)
             /\ SubSeq(s, hash + 2, Len(s)) \in Seq(Text)
  <2>1. hash \in 0 .. Len(s) /\ hash + 1 \in 0 .. Len(s) /\ hash + 1 + 1 = hash + 2
    BY <1>0, <1>1, <1>7
  <2>2. rest(s, hash) = SubSeq(s, hash + 1, Len(s))
    BY <2>1, SubstrIs
  <2>3. rest(s, hash + 1) = SubSeq(s, hash + 1 + 1, Len(s))
    BY <2>1, SubstrIs
  <2>4. /\ SubSeq(s, hash + 2, Len(s)) \in Seq(Text)
        /\ SubSeq(s, hash + 1, Len(s)) = <<"#">> \o SubSeq(s, hash + 2, Len(s))
    BY <1>0, <1>1, <1>7, SplitAt
  <2>5. SubSeq(s, hash + 1, Len(s)) \in Seq(Text)
    <3>1. hash + 1 \in 1 .. Len(s) + 1
      BY <1>0, <2>1
    <3> QED
      BY <3>1, Split
  <2> QED
    BY <1>7, <2>1, <2>2, <2>3, <2>4, <2>5
<1>8. 0 \in 0 .. Len(s) /\ 0 + 1 = 1
  BY <1>0
<1> HIDE DEF tail, fragment
<1>9. CASE colon = npos /\ hash = npos
  <2>1. substr(s, 0, hash) = s
    <3>1. substr(s, 0, hash) = SubSeq(s, 0 + 1, Len(s))
      BY <1>0, <1>8, <1>9, SubstrIs
    <3> QED
      BY <1>8, <3>1, WholeIs
  <2>2. tail = <<>>
    BY <1>9 DEF tail
  <2> QED
    BY <1>5, <1>9, <2>1, <2>2
<1>10. CASE colon = npos /\ hash # npos
  <2>1. hash \in 0 .. Len(s) /\ hash - 0 = hash /\ hash \in Nat /\ ~(colon > hash)
    BY <1>0, <1>1, <1>10
  <2>2. substr(s, 0, hash - 0) = SubSeq(s, 0 + 1, hash)
    BY <1>8, <2>1, SubstrIs
  <2>3. s = SubSeq(s, 1, hash) \o (<<"#">> \o SubSeq(s, hash + 2, Len(s)))
    <3>1. "#" \in Text /\ hash \in 0 .. Len(s) - 1 /\ s[hash + 1] = "#"
      BY <1>0, <1>1, <1>10
    <3> QED
      BY <3>1, SplitAt, ZenonT(60)
  <2>4. substr(s, 0, hash) \o tail = s
    BY <1>7, <1>8, <1>10, <2>1, <2>2, <2>3
  <2>5. s \o <<>> = s
    BY ConcatNone
  <2> QED
    BY <1>5, <1>10, <2>1, <2>4, <2>5
<1>11. CASE colon # npos
  <2>0. colon \in 0 .. Len(s) - 1 /\ s[colon + 1] = ":" /\ colon \in Nat
    BY <1>2, <1>11
  <2>1. PICK a \in Seq(Text), b \in Seq(Text) :
          a = SubSeq(s, 1, colon) /\ b = SubSeq(s, colon + 2, Len(s)) /\ s = a \o (<<":">> \o b)
    BY <1>0, <2>0, SplitAt
  <2>2. substr(s, 0, colon) = a
    <3>1. colon \in 0 .. Len(s) /\ colon - 0 = colon
      BY <1>0, <2>0
    <3>2. substr(s, 0, colon - 0) = SubSeq(s, 0 + 1, colon)
      BY <1>8, <3>1, SubstrIs
    <3> QED
      BY <1>8, <2>1, <3>1, <3>2
  <2>3. PICK c \in Seq(Text) : c = <<":">>
    <3>1. <<":">> \in Seq(Text)
      BY <1>0
    <3> QED
      BY <3>1, Zenon
  <2>4. colon + 1 \in 0 .. Len(s) /\ colon + 1 + 1 = colon + 2
    BY <1>0, <2>0
  <2>5. (a \o c) \o b = s /\ \A x \in Seq(Text) : (a \o c) \o x = a \o (c \o x)
    <3>1. ASSUME NEW x \in Seq(Text) PROVE (a \o c) \o x = a \o (c \o x)
      OBVIOUS
    <3>2. (a \o c) \o b = s
      BY <2>1, <2>3, <3>1, Zenon
    <3> QED
      BY <3>1, <3>2
  <2>6. CASE hash = npos \/ hash < colon
    <3>1. hash - colon - 1 \in Int /\ hash - colon - 1 < 0
      BY <1>0, <1>1, <2>0, <2>6
    <3>2. substr(s, colon + 1, hash - colon - 1) = SubSeq(s, colon + 1 + 1, Len(s))
      BY <2>4, <3>1, SubstrIs
    <3>3. URI_to_string(URI(s)) = s \o tail
      BY <1>6, <1>11, <2>1, <2>2, <2>3, <2>4, <2>5, <3>2
    <3>4. CASE hash = npos
      <4>1. tail = <<>>
        BY <3>4 DEF tail
      <4> QED
        BY <3>3, <3>4, <4>1
    <3>5. CASE hash # npos
      <4>1. colon > hash
        BY <1>0, <1>1, <2>0, <2>6, <3>5
      <4> QED
        BY <1>7, <3>3, <3>5, <4>1
    <3> QED
      BY <3>4, <3>5
  <2>7. CASE hash # npos /\ ~(hash < colon)
    <3>0. hash \in 0 .. Len(s) - 1 /\ s[hash + 1] = "#" /\ hash \in Nat /\ hash # colon
      BY <1>0, <1>1, <2>0, <2>7
    <3>1. hash > colon /\ ~(colon > hash)
      BY <2>0, <2>7, <3>0
    <3>2. substr(s, colon + 1, hash - colon - 1) = SubSeq(s, colon + 2, hash)
      <4>1. hash \in colon + 1 .. Len(s) /\ hash - (colon + 1) = hash - colon - 1
        BY <1>0, <2>0, <3>0, <3>1
      <4>2. substr(s, colon + 1, hash - (colon + 1)) = SubSeq(s, colon + 1 + 1, hash)
        BY <2>4, <4>1, SubstrIs
      <4> QED
        BY <2>4, <4>1, <4>2
    <3>3. PICK d \in Seq(Text), e \in Seq(Text) :
            d = SubSeq(s, 1, hash) /\ e = SubSeq(s, hash + 2, Len(s)) /\ s = d \o (<<"#">> \o e)
      BY <1>0, <3>0, SplitAt, ZenonT(60)
    <3>4. SubSeq(s, colon + 2, hash) \in Seq(Text) /\ d = (a \o c) \o SubSeq(s, colon + 2, hash)
      <4>1. Len(d) = hash /\ \A i \in 1 .. hash : d[i] = s[i]
        <5>1. 1 \in 1 .. Len(s) + 1 /\ hash \in 0 .. Len(s) /\ 1 <= hash + 1 /\ hash - 1 + 1 = hash
              /\ \A i \in 1 .. hash : 1 + i - 1 = i
          BY <1>0, <3>0
        <5>2. Len(SubSeq(s, 1, hash)) = hash - 1 + 1 /\ \A i \in 1 .. hash - 1 + 1 : SubSeq(s, 1, hash)[i] = s[1 + i - 1]
          BY <5>1, PartIs
        <5> QED
          BY <3>3, <5>1, <5>2
      <4>2. d[colon + 1] = ":" /\ colon \in 0 .. Len(d) - 1
        <5>1. colon + 1 \in 1 .. hash
          BY <2>0, <3>0, <3>1, SMTT(30)
        <5> QED
          BY <2>0, <3>0, <3>1, <4>1, <5>1
      <4>3. PICK f \in Seq(Text), g \in Seq(Text) :
              f = SubSeq(d, 1, colon) /\ g = SubSeq(d, colon + 2, Len(d)) /\ d = f \o (<<":">> \o g)
        BY <1>0, <4>2, SplitAt, ZenonT(60)
      <4>4. f = a
        <5>1. 1 \in 1 .. Len(s) + 1 /\ colon \in 0 .. Len(s) /\ 1 <= colon + 1 /\ colon - 1 + 1 = colon
              /\ 1 \in 1 .. Len(d) + 1 /\ colon \in 0 .. Len(d) /\ \A i \in 1 .. colon : 1 + i - 1 = i /\ i \in 1 .. hash
          BY <1>0, <2>0, <3>0, <3>1, <4>1, SMTT(30)
        <5>2. Len(SubSeq(s, 1, colon)) = colon - 1 + 1 /\ \A i \in 1 .. colon - 1 + 1 : SubSeq(s, 1, colon)[i] = s[1 + i - 1]
          BY <5>1, PartIs
        <5>3. Len(SubSeq(d, 1, colon)) = colon - 1 + 1 /\ \A i \in 1 .. colon - 1 + 1 : SubSeq(d, 1, colon)[i] = d[1 + i - 1]
          BY <5>1, PartIs
        <5>4. Len(f) = colon /\ \A i \in 1 .. colon : f[i] = d[i]
          BY <4>3, <5>1, <5>3
        <5>5. Len(a) = colon /\ \A i \in 1 .. colon : a[i] = s[i]
          BY <2>1, <5>1, <5>2
        <5>6. \A i \in 1 .. colon : f[i] = a[i]
          BY <4>1, <5>1, <5>4, <5>5
        <5> QED
          BY <5>4, <5>5, <5>6, SameSeq
      <4>5. PICK h \in Seq(Text) : h = SubSeq(s, colon + 2, hash) /\ g = h
        <5>1. PICK m \in Nat : m = hash - colon - 1
          BY <2>0, <3>0, <3>1
        <5>2. /\ colon + 2 \in 1 .. Len(s) + 1 /\ hash \in 0 .. Len(s) /\ colon + 2 <= hash + 1
              /\ hash - (colon + 2) + 1 = m /\ colon + 2 \in 1 .. Len(d) + 1 /\ hash \in 0 .. Len(d)
              /\ \A i \in 1 .. m : colon + 2 + i - 1 \in 1 .. hash
          <6>1. PICK x \in Nat, y \in Nat, z \in Nat : x = colon /\ y = hash /\ z = Len(s)
            BY <1>0, <2>0, <3>0, Zenon
          <6>2. m = y - x - 1 /\ x < y /\ y <= z - 1 /\ Len(d) = y
            BY <3>0, <3>1, <4>1, <5>1, <6>1
          <6>3. x + 2 \in 1 .. z + 1 /\ y \in 0 .. z /\ x + 2 <= y + 1 /\ x + 2 \in 1 .. y + 1 /\ y \in 0 .. y
            BY <6>2
          <6>4. y - (x + 2) + 1 = m
            BY <6>2
          <6>5. \A i \in 1 .. m : x + 2 + i - 1 \in 1 .. y
            BY <6>2
          <6> QED
            BY <6>1, <6>2, <6>3, <6>4, <6>5, Zenon
        <5>3. /\ SubSeq(s, colon + 2, hash) \in Seq(Text) /\ Len(SubSeq(s, colon + 2, hash)) = m
              /\ \A i \in 1 .. m : SubSeq(s, colon + 2, hash)[i] = s[colon + 2 + i - 1]
          BY <5>2, PartIs
        <5>4. /\ SubSeq(d, colon + 2, hash) \in Seq(Text) /\ Len(SubSeq(d, colon + 2, hash)) = m
              /\ \A i \in 1 .. m : SubSeq(d, colon + 2, hash)[i] = d[colon + 2 + i - 1]
          BY <5>2, PartIs
        <5>5. Len(g) = m /\ \A i \in 1 .. m : g[i] = d[colon + 2 + i - 1]
          BY <4>1, <4>3, <5>4
        <5>6. PICK h \in Seq(Text) : h = SubSeq(s, colon + 2, hash) /\ Len(h) = m /\ \A i \in 1 .. m : h[i] = s[colon + 2 + i - 1]
          BY <5>3
        <5>7. \A i \in 1 .. m : g[i] = h[i]
          BY <4>1, <5>2, <5>5, <5>6
        <5>8. g = h
          BY <5>5, <5>6, <5>7, SameSeq
        <5> QED
          BY <5>6, <5>8
      <4>6. (a \o c) \o g = a \o (c \o g)
        BY <2>5
      <4> QED
        BY <2>3, <4>3, <4>4, <4>5, <4>6
    <3>5. URI_to_string(URI(s)) = d \o tail
      BY <1>6, <1>11, <2>2, <2>3, <3>2, <3>4
    <3>6. s \o <<>> = s
      BY ConcatNone
    <3> QED
      BY <1>7, <2>7, <3>1, <3>3, <3>5, <3>6
  <2> QED
    BY <2>6, <2>7
<1> QED
  BY <1>9, <1>10, <1>11
\* http://host/path, by position.
LEMMA TargetIs ==
  ASSUME NEW h \in Seq(Text), NEW p \in Seq(Text)
  PROVE  \E s, u \in Seq(Text) :
           /\ s = <<"http", ":", "/", "/">> \o h \o p /\ u = h \o p
           /\ Len(s) = 4 + Len(u) /\ Len(u) = Len(h) + Len(p)
           /\ s[1] = "http" /\ s[2] = ":" /\ s[3] = "/" /\ s[4] = "/"
           /\ \A i \in 1 .. Len(u) : s[4 + i] = u[i]
           /\ \A i \in 1 .. Len(h) : u[i] = h[i]
           /\ \A i \in 1 .. Len(p) : u[Len(h) + i] = p[i]
<1> DEFINE z == <<"http", ":", "/", "/">>
<1>1. z \in Seq(Text) /\ Len(z) = 4 /\ z[1] = "http" /\ z[2] = ":" /\ z[3] = "/" /\ z[4] = "/"
  <2>1. "http" \in Text /\ ":" \in Text /\ "/" \in Text
    BY DEF Text
  <2> QED
    BY <2>1
<1> HIDE DEF z
<1>2. (z \o h) \o p = z \o (h \o p)
  BY <1>1, SMTT(30)
<1>3. /\ h \o p \in Seq(Text) /\ Len(h \o p) = Len(h) + Len(p)
      /\ \A i \in 1 .. Len(h) : (h \o p)[i] = h[i]
      /\ \A i \in 1 .. Len(p) : (h \o p)[Len(h) + i] = p[i]
  BY ConcatAt
<1>4. PICK u \in Seq(Text) : u = h \o p
  BY <1>3
<1>5. /\ z \o u \in Seq(Text) /\ Len(z \o u) = Len(z) + Len(u)
      /\ \A i \in 1 .. Len(z) : (z \o u)[i] = z[i]
      /\ \A i \in 1 .. Len(u) : (z \o u)[Len(z) + i] = u[i]
  BY <1>1, ConcatAt
<1>6. PICK s \in Seq(Text) : s = z \o u
  BY <1>5
<1>7. /\ Len(s) = 4 + Len(u) /\ s[1] = "http" /\ s[2] = ":" /\ s[3] = "/" /\ s[4] = "/"
      /\ \A i \in 1 .. Len(u) : s[4 + i] = u[i]
  BY <1>1, <1>5, <1>6
<1>8. s = z \o h \o p
  BY <1>2, <1>4, <1>6
<1>9. /\ Len(u) = Len(h) + Len(p) /\ \A i \in 1 .. Len(h) : u[i] = h[i]
      /\ \A i \in 1 .. Len(p) : u[Len(h) + i] = p[i]
  BY <1>3, <1>4
<1> QED
  BY <1>4, <1>7, <1>8, <1>9, Zenon DEF z

LEMMA TargetBack ==
  ASSUME NEW h \in Seq(Text \ {"/"}), NEW p \in Seq(Text), p = <<>> \/ p[1] = "/"
  PROVE  host_and_path(URI_to_string(URI(<<"http", ":", "/", "/">> \o h \o p)))
           = [host |-> h, path |-> IF p = <<>> THEN <<"/">> ELSE p]
<1>0. h \in Seq(Text) /\ Len(h) \in Nat /\ Len(p) \in Nat /\ \A i \in 1 .. Len(h) : h[i] # "/"
  OBVIOUS
<1>1. PICK s \in Seq(Text), u \in Seq(Text) :
           /\ s = <<"http", ":", "/", "/">> \o h \o p /\ u = h \o p
           /\ Len(s) = 4 + Len(u) /\ Len(u) = Len(h) + Len(p)
           /\ s[1] = "http" /\ s[2] = ":" /\ s[3] = "/" /\ s[4] = "/"
           /\ \A i \in 1 .. Len(u) : s[4 + i] = u[i]
           /\ \A i \in 1 .. Len(h) : u[i] = h[i]
           /\ \A i \in 1 .. Len(p) : u[Len(h) + i] = p[i]
  BY <1>0, TargetIs, Zenon
<1>2. "#" \in Text /\ ":" \in Text /\ "/" \in Text /\ npos = -1
  BY DEF Text, npos
<1>3. PICK hash, colon : hash = find_last_of(s, "#") /\ colon = find(s, <<":">>, 0)
  OBVIOUS
<1>4. colon = 1
  <2>1. \/ colon = npos /\ \A i \in 1 .. Len(s) : s[i] # ":"
        \/ /\ colon \in 0 .. Len(s) - 1 /\ s[colon + 1] = ":"
           /\ \A i \in 1 .. colon : s[i] # ":"
    BY <1>2, <1>3, FindOne
  <2>2. 2 \in 1 .. Len(s)
    BY <1>0, <1>1
  <2>3. colon \in 0 .. Len(s) - 1 /\ s[colon + 1] = ":" /\ ~(2 \in 1 .. colon)
    BY <1>1, <2>1, <2>2
  <2>4. colon = 0 \/ colon = 1
    BY <1>0, <1>1, <2>3
  <2> QED
    BY <1>1, <2>3, <2>4
<1>5. ~(hash # npos /\ colon > hash)
  <2>1. \/ hash = npos
        \/ hash \in 0 .. Len(s) - 1 /\ s[hash + 1] = "#"
    BY <1>2, <1>3, LastOf
  <2>2. hash # 0
    BY <1>1, <1>2, <2>1
  <2> QED
    BY <1>0, <1>1, <1>4, <2>1, <2>2
<1>6. URI_to_string(URI(s)) = s
  <2>1. URI_to_string(URI(s)) = s \o (IF hash # npos /\ colon > hash THEN rest(s, hash) ELSE <<>>)
    BY <1>3, UriBack
  <2>2. s \o <<>> = s
    BY ConcatNone
  <2> QED
    BY <1>5, <2>1, <2>2
<1> DEFINE t == <<":", "/", "/">>
<1>7. find(s, t, 0) = 1
  <2>1. PICK n \in Nat : n = Len(s) /\ n >= 4
    BY <1>0, <1>1
  <2>2. Len(t) = 3 /\ t[1] = ":" /\ t[2] = "/" /\ t[3] = "/" /\ t \in Seq(Text)
    BY <1>2
  <2> HIDE DEF t
  <2>3. ~Occurs(s, t, 0)
    <3>1. SUFFICES ASSUME Occurs(s, t, 0) PROVE FALSE
      OBVIOUS
    <3>2. SubSeq(s, 0 + 1, 0 + 3) = t /\ 0 + 1 = 1 /\ 0 + 3 = 3
      BY <2>2, <3>1 DEF Occurs
    <3>3. SubSeq(s, 1, 3)[1] = s[1]
      BY <2>1
    <3> QED
      BY <1>1, <2>2, <3>2, <3>3
  <2>4. Occurs(s, t, 1)
    <3>1. PICK r \in Seq(Text) : r = SubSeq(s, 2, 4) /\ Len(r) = 3 /\ r[1] = s[2] /\ r[2] = s[3] /\ r[3] = s[4]
      <4>1. 2 \in 1 .. Len(s) + 1 /\ 4 \in 0 .. Len(s) /\ 2 <= 4 + 1 /\ 4 - 2 + 1 = 3
        BY <2>1
      <4>2. SubSeq(s, 2, 4) \in Seq(Text) /\ Len(SubSeq(s, 2, 4)) = 3 /\ \A i \in 1 .. 3 : SubSeq(s, 2, 4)[i] = s[2 + i - 1]
        BY <4>1, PartIs
      <4>3. 2 + 1 - 1 = 2 /\ 2 + 2 - 1 = 3 /\ 2 + 3 - 1 = 4 /\ 1 \in 1 .. 3 /\ 2 \in 1 .. 3 /\ 3 \in 1 .. 3
        OBVIOUS
      <4> QED
        BY <4>2, <4>3
    <3>2. \A i \in 1 .. 3 : r[i] = t[i]
      <4>1. \A i \in 1 .. 3 : i = 1 \/ i = 2 \/ i = 3
        OBVIOUS
      <4>2. r[1] = t[1] /\ r[2] = t[2] /\ r[3] = t[3]
        BY <1>1, <2>2, <3>1
      <4> QED
        BY <4>1, <4>2, Zenon
    <3>3. r = t
      BY <2>2, <3>1, <3>2, SameSeq
    <3>4. 1 + 1 = 2 /\ 1 + 3 = 4 /\ 4 <= n
      BY <2>1
    <3> QED
      BY <2>1, <2>2, <3>1, <3>3, <3>4 DEF Occurs
  <2>5. 1 \in 0 .. Len(s) /\ \A j \in 0 .. 1 - 1 : j = 0
    BY <2>1
  <2> QED
    BY <2>3, <2>4, <2>5, FindIs
<1> HIDE DEF t
<1>8. rest(s, 1 + 3) = u
  <2>1. 1 + 3 = 4 /\ 4 \in 0 .. Len(s) /\ 4 + 1 = 5
    BY <1>0, <1>1
  <2>2. rest(s, 4) = SubSeq(s, 4 + 1, Len(s))
    BY <2>1, SubstrIs
  <2>3. PICK n \in Nat : n = Len(s) /\ n - 4 = Len(u) /\ n >= 4
    BY <1>0, <1>1
  <2>4. 5 \in 1 .. Len(s) + 1 /\ n \in 0 .. Len(s) /\ 5 <= n + 1 /\ n - 5 + 1 = Len(u)
    BY <2>3
  <2>5. SubSeq(s, 5, n) \in Seq(Text) /\ Len(SubSeq(s, 5, n)) = Len(u) /\ \A i \in 1 .. Len(u) : SubSeq(s, 5, n)[i] = s[5 + i - 1]
    BY <2>4, PartIs
  <2>6. \A i \in 1 .. Len(u) : 5 + i - 1 = 4 + i
    OBVIOUS
  <2>7. \A i \in 1 .. Len(u) : SubSeq(s, 5, n)[i] = u[i]
    BY <1>1, <2>5, <2>6, SMTT(30)
  <2>8. SubSeq(s, 5, n) = u
    BY <2>5, <2>7, SameSeq
  <2> QED
    BY <2>1, <2>2, <2>3, <2>8
<1> DEFINE slash == find(u, <<"/">>, 0)
<1>9. host_and_path(s) = IF slash = npos THEN [host |-> u, path |-> <<"/">>]
                         ELSE [host |-> substr(u, 0, slash), path |-> rest(u, slash)]
  <2>1. 1 # npos
    BY <1>2
  <2> QED
    BY <1>7, <1>8, <2>1, Zenon DEF host_and_path, t
<1>10. \/ slash = npos /\ \A i \in 1 .. Len(u) : u[i] # "/"
       \/ /\ slash \in 0 .. Len(u) - 1 /\ u[slash + 1] = "/"
          /\ \A i \in 1 .. slash : u[i] # "/"
  BY <1>2, FindOne
<1> HIDE DEF slash
<1>11. CASE p = <<>>
  <2>1. Len(p) = 0 /\ h \o p = h
    BY <1>0, <1>11, ConcatNone
  <2>2. \A i \in 1 .. Len(u) : u[i] # "/"
    BY <1>0, <1>1, <2>1
  <2>3. slash = npos
    <3>1. ASSUME slash \in 0 .. Len(u) - 1, u[slash + 1] = "/" PROVE FALSE
      <4>1. slash + 1 \in 1 .. Len(u)
        BY <3>1
      <4> QED
        BY <2>2, <3>1, <4>1
    <3> QED
      BY <1>10, <3>1
  <2> QED
    BY <1>1, <1>6, <1>9, <1>11, <2>1, <2>3
<1>12. CASE p # <<>>
  <2>1. p[1] = "/" /\ Len(p) > 0
    BY <1>0, <1>12
  <2>2. 1 \in 1 .. Len(p) /\ Len(h) + 1 \in 1 .. Len(u)
    BY <1>0, <1>1, <2>1
  <2>3. u[Len(h) + 1] = "/"
    BY <1>1, <2>1, <2>2
  <2>4. slash \in 0 .. Len(u) - 1 /\ u[slash + 1] = "/" /\ ~(Len(h) + 1 \in 1 .. slash)
    BY <1>10, <2>2, <2>3
  <2>5. ~(slash + 1 \in 1 .. Len(h))
    BY <1>0, <1>1, <2>4
  <2>6. slash = Len(h)
    BY <1>0, <1>1, <2>4, <2>5
  <2>7. slash \in 0 .. Len(u) /\ slash # npos
    BY <1>0, <1>1, <1>2, <2>6
  <2>8. substr(u, 0, slash) = h
    <3>1. 0 \in 0 .. Len(u) /\ slash \in 0 .. Len(u) /\ slash - 0 = slash /\ 0 + 1 = 1
      BY <1>0, <2>7
    <3>2. substr(u, 0, slash - 0) = SubSeq(u, 0 + 1, slash)
      BY <3>1, SubstrIs
    <3>3. 1 \in 1 .. Len(u) + 1 /\ 1 <= slash + 1 /\ slash - 1 + 1 = slash /\ \A i \in 1 .. slash : 1 + i - 1 = i
      BY <1>0, <1>1, <2>6
    <3>4. SubSeq(u, 1, slash) \in Seq(Text) /\ Len(SubSeq(u, 1, slash)) = slash
          /\ \A i \in 1 .. slash : SubSeq(u, 1, slash)[i] = u[1 + i - 1]
      BY <3>1, <3>3, PartIs
    <3>5. \A i \in 1 .. slash : SubSeq(u, 1, slash)[i] = h[i]
      BY <1>1, <2>6, <3>3, <3>4
    <3>6. SubSeq(u, 1, slash) = h
      BY <1>0, <2>6, <3>4, <3>5, SameSeq
    <3> QED
      BY <3>1, <3>2, <3>6
  <2>9. rest(u, slash) = p
    <3>1. rest(u, slash) = SubSeq(u, slash + 1, Len(u))
      BY <2>7, SubstrIs
    <3>2. PICK n \in Nat, a \in Nat : n = Len(u) /\ a = slash + 1 /\ a = Len(h) + 1 /\ n - a + 1 = Len(p)
      <4>1. Len(u) \in Nat /\ slash + 1 \in Nat /\ Len(u) - (slash + 1) + 1 = Len(p)
        BY <1>0, <1>1, <2>6
      <4> QED
        BY <2>6, <4>1
    <3>3. a \in 1 .. Len(u) + 1 /\ n \in 0 .. Len(u) /\ a <= n + 1 /\ \A i \in 1 .. Len(p) : a + i - 1 = Len(h) + i
      <4>1. PICK x \in Nat, y \in Nat : x = Len(h) /\ y = Len(p)
        BY <1>0, Zenon
      <4>2. n = x + y /\ a = x + 1
        BY <1>1, <3>2, <4>1
      <4>3. a \in 1 .. n + 1 /\ n \in 0 .. n /\ a <= n + 1 /\ \A i \in 1 .. y : a + i - 1 = x + i
        BY <4>2
      <4> QED
        BY <3>2, <4>1, <4>3, Zenon
    <3>4. SubSeq(u, a, n) \in Seq(Text) /\ Len(SubSeq(u, a, n)) = Len(p) /\ \A i \in 1 .. Len(p) : SubSeq(u, a, n)[i] = u[a + i - 1]
      BY <3>2, <3>3, PartIs, ZenonT(60)
    <3>5. \A i \in 1 .. Len(p) : SubSeq(u, a, n)[i] = p[i]
      <4>1. \A i \in 1 .. Len(p) : u[Len(h) + i] = p[i]
        BY <1>1
      <4> QED
        BY <3>3, <3>4, <4>1, Zenon
    <3>6. SubSeq(u, a, n) = p
      BY <3>4, <3>5, SameSeq
    <3> QED
      BY <3>1, <3>2, <3>6
  <2> QED
    BY <1>1, <1>6, <1>9, <1>12, <2>7, <2>8, <2>9
<1> QED
  BY <1>11, <1>12

(* libhttp writes every URI that it reads as it was, but for the fragment  *)
(* that a colon behind it makes it write twice; and the proxy finds host   *)
(* and path of every absolute URI, whatever is in the path.                *)
THEOREM UrisComeBack ==
  ASSUME \/ sample \in [kind : {"uri"}, text : Seq(Text)]
         \/ /\ sample \in [kind : {"target"}, host : Seq(Text \ {"/"}), path : Seq(Text)]
            /\ sample.path = <<>> \/ sample.path[1] = "/"
  PROVE  UriReadBack
<1>1. CASE sample \in [kind : {"uri"}, text : Seq(Text)]
  <2>1. PICK s \in Seq(Text) : sample.text = s
    BY <1>1
  <2>2. sample.kind = "uri"
    BY <1>1
  <2>3. PICK hash, colon : hash = find_last_of(s, "#") /\ colon = find(s, <<":">>, 0)
    OBVIOUS
  <2>4. URI_to_string(URI(s)) = s \o (IF hash # npos /\ colon > hash THEN rest(s, hash) ELSE <<>>)
    BY <2>3, UriBack
  <2>5. "uri" # "target"
    OBVIOUS
  <2> QED
    BY <2>1, <2>2, <2>3, <2>4, <2>5, Zenon DEF UriReadBack
<1>2. CASE /\ sample \in [kind : {"target"}, host : Seq(Text \ {"/"}), path : Seq(Text)]
           /\ sample.path = <<>> \/ sample.path[1] = "/"
  <2>1. /\ sample.kind = "target" /\ sample.host \in Seq(Text \ {"/"}) /\ sample.path \in Seq(Text)
        /\ sample.path = <<>> \/ sample.path[1] = "/"
    BY <1>2
  <2>2. PICK h \in Seq(Text \ {"/"}), p \in Seq(Text) : h = sample.host /\ p = sample.path
    BY <2>1
  <2>3. host_and_path(URI_to_string(URI(<<"http", ":", "/", "/">> \o h \o p)))
           = [host |-> h, path |-> IF p = <<>> THEN <<"/">> ELSE p]
    BY <2>1, <2>2, TargetBack
  <2>4. "uri" # "target"
    OBVIOUS
  <2> QED
    BY <2>1, <2>2, <2>3, <2>4, Zenon DEF UriReadBack
<1> QED
  BY <1>1, <1>2
=============================================================================
