----------------------------- MODULE EchoProofs -----------------------------
(***************************************************************************)
(* Echo gives every byte back once and in order, for every input, every     *)
(* size of the two buffers and every capacity of the streams.              *)
(***************************************************************************)
EXTENDS Echo, WellFoundedInduction, TLAPS

-----------------------------------------------------------------------------
(* The inductive invariant.                                                *)

Types ==
  /\ input \in Seq({"text", "nl", "nul"})
  /\ pos \in 0 .. Len(input)
  /\ cpc \in {"connect", "fgets", "writen", "readline", "returned", "failed", "killed"}
  /\ hpc \in {"none", "read", "writen", "dropped", "returned", "killed"}
  /\ buf \in Seq(Nat) /\ out \in Seq(Nat) /\ c2s \in Seq(Nat)
  /\ s2c \in Seq(Nat) /\ hbuf \in Seq(Nat)

\* Bytes wait in a buffer only while its owner is writing or reading them; a
\* handler ends after its client, unless libtcp never started it.
Buffers ==
  /\ cpc = "connect" => hpc = "none" /\ s2c = <<>> /\ out = <<>>
  /\ cpc \in {"connect", "fgets"} => buf = <<>>
  /\ hpc \in {"none", "read", "dropped"} => hbuf = <<>>
  /\ hpc = "dropped" => s2c = <<>> /\ (cpc = "readline" => buf = <<>>)
  /\ hpc \in {"returned", "killed"} => ClientEnded

IInv == Types /\ Buffers /\ Conserved

-----------------------------------------------------------------------------
(* Sequences.                                                              *)

(* A nonempty set of natural numbers has a smallest member.                *)
LEMMA SmallestNumber ==
  ASSUME NEW T \in SUBSET Nat, T # {}
  PROVE  \E x \in T : \A y \in T : x <= y
<1> DEFINE R == OpToRel(<, Nat)
<1>1. \A x, y \in Nat : <<y, x>> \in R <=> y < x
  BY DEF OpToRel
<1>2. IsWellFoundedOn(R, Nat)
  BY NatLessThanWellFounded
<1> HIDE DEF R
<1>3. PICK x \in T : \A y \in T : ~(<<y, x>> \in R)
  BY <1>2, WFMin
<1>4. ASSUME NEW y \in T PROVE x <= y
  <2>1. ~(y < x) /\ x \in Nat /\ y \in Nat
    BY <1>1, <1>3
  <2> QED
    BY <2>1
<1> QED
  BY <1>4

LEMMA ConcatTyped ==
  ASSUME NEW a \in Seq(Nat), NEW b \in Seq(Nat)
  PROVE  /\ a \o b \in Seq(Nat) /\ Len(a \o b) = Len(a) + Len(b)
         /\ \A i \in 1 .. Len(a) + Len(b) :
              (a \o b)[i] = IF i <= Len(a) THEN a[i] ELSE b[i - Len(a)]
OBVIOUS

LEMMA SeqEqual ==
  ASSUME NEW a \in Seq(Nat), NEW b \in Seq(Nat), Len(a) = Len(b),
         \A i \in 1 .. Len(a) : a[i] = b[i]
  PROVE  a = b
OBVIOUS

LEMMA ConcatEmpty ==
  ASSUME NEW a \in Seq(Nat)
  PROVE  a \o <<>> = a /\ <<>> \o a = a
OBVIOUS

LEMMA ConcatAssoc ==
  ASSUME NEW a \in Seq(Nat), NEW b \in Seq(Nat), NEW c \in Seq(Nat)
  PROVE  (a \o b) \o c = a \o (b \o c)
<1> DEFINE l == (a \o b) \o c
<1> DEFINE r == a \o (b \o c)
<1>0. Len(a) \in Nat /\ Len(b) \in Nat /\ Len(c) \in Nat
  OBVIOUS
<1>1. a \o b \in Seq(Nat) /\ b \o c \in Seq(Nat)
  BY ConcatTyped
<1>2. l \in Seq(Nat) /\ r \in Seq(Nat) /\ Len(l) = Len(r) /\ Len(l) = Len(a) + Len(b) + Len(c)
  BY <1>0, <1>1, ConcatTyped
<1>3. ASSUME NEW i \in 1 .. Len(l) PROVE l[i] = r[i]
  <2>1. l[i] = IF i <= Len(a) + Len(b) THEN (a \o b)[i] ELSE c[i - (Len(a) + Len(b))]
    BY <1>0, <1>1, <1>2, ConcatTyped
  <2>2. r[i] = IF i <= Len(a) THEN a[i] ELSE (b \o c)[i - Len(a)]
    BY <1>0, <1>1, <1>2, ConcatTyped
  <2> HIDE DEF l, r
  <2>3. CASE i <= Len(a)
    <3>1. i \in 1 .. Len(a) + Len(b)
      BY <1>0, <1>2, <2>3
    <3>2. (a \o b)[i] = a[i]
      BY <2>3, <3>1, ConcatTyped
    <3> QED
      BY <1>0, <1>2, <2>1, <2>2, <2>3, <3>2
  <2>4. CASE i > Len(a) /\ i <= Len(a) + Len(b)
    <3>1. i \in 1 .. Len(a) + Len(b) /\ i - Len(a) \in 1 .. Len(b) + Len(c) /\ i - Len(a) <= Len(b)
      BY <1>0, <1>2, <2>4
    <3>2. (a \o b)[i] = b[i - Len(a)] /\ (b \o c)[i - Len(a)] = b[i - Len(a)]
      BY <1>0, <2>4, <3>1, ConcatTyped
    <3> QED
      BY <1>0, <1>2, <2>1, <2>2, <2>4, <3>2
  <2>5. CASE i > Len(a) + Len(b)
    <3>1. /\ i - Len(a) \in 1 .. Len(b) + Len(c) /\ i - Len(a) > Len(b) /\ i > Len(a)
          /\ (i - Len(a)) - Len(b) = i - (Len(a) + Len(b))
      BY <1>0, <1>2, <2>5
    <3>2. (b \o c)[i - Len(a)] = c[i - (Len(a) + Len(b))]
      BY <1>0, <3>1, ConcatTyped
    <3> QED
      BY <1>0, <1>2, <2>1, <2>2, <2>5, <3>1, <3>2
  <2> QED
    BY <1>0, <1>2, <2>3, <2>4, <2>5
<1> HIDE DEF l, r
<1>4. l = r
  BY <1>2, <1>3, SeqEqual
<1> QED
  BY <1>4 DEF l, r

(* The two parts of a sequence that is cut behind its k-th element.        *)
LEMMA CutAndJoin ==
  ASSUME NEW s \in Seq(Nat), NEW k \in 1 .. Len(s)
  PROVE  /\ SubSeq(s, 1, k) \in Seq(Nat) /\ SubSeq(s, k + 1, Len(s)) \in Seq(Nat)
         /\ SubSeq(s, 1, k) \o SubSeq(s, k + 1, Len(s)) = s
<1> DEFINE a == SubSeq(s, 1, k)
<1> DEFINE b == SubSeq(s, k + 1, Len(s))
<1>0. Len(s) \in Nat
  OBVIOUS
<1>1. a \in Seq(Nat) /\ Len(a) = k /\ \A i \in 1 .. k : a[i] = s[i]
  OBVIOUS
<1>2. b \in Seq(Nat) /\ Len(b) = Len(s) - k /\ \A i \in 1 .. Len(s) - k : b[i] = s[i + k]
  OBVIOUS
<1> HIDE DEF a, b
<1>3. /\ a \o b \in Seq(Nat) /\ Len(a \o b) = Len(s)
      /\ \A i \in 1 .. Len(s) : (a \o b)[i] = IF i <= k THEN a[i] ELSE b[i - k]
  <2>1. Len(a) + Len(b) = Len(s)
    BY <1>0, <1>1, <1>2
  <2>2. /\ a \o b \in Seq(Nat) /\ Len(a \o b) = Len(a) + Len(b)
        /\ \A i \in 1 .. Len(a) + Len(b) : (a \o b)[i] = IF i <= Len(a) THEN a[i] ELSE b[i - Len(a)]
    BY <1>1, <1>2, ConcatTyped
  <2> QED
    BY <1>1, <2>1, <2>2
<1>4. ASSUME NEW i \in 1 .. Len(s) PROVE (a \o b)[i] = s[i]
  <2>1. CASE i <= k
    BY <1>0, <1>1, <1>3, <2>1
  <2>2. CASE i > k
    <3>1. i - k \in 1 .. Len(s) - k /\ (i - k) + k = i
      BY <1>0, <2>2
    <3>2. b[i - k] = s[i]
      BY <1>2, <3>1
    <3> QED
      BY <1>0, <1>3, <2>2, <3>2
  <2>3. i <= k \/ i > k
    BY <1>0
  <2> QED
    BY <2>1, <2>2, <2>3
<1>5. a \o b = s
  BY <1>3, <1>4, SeqEqual
<1> QED
  BY <1>1, <1>2, <1>5 DEF a, b

(* Taking the head of one queue to the end of another.                     *)
LEMMA MoveHead ==
  ASSUME NEW a \in Seq(Nat), NEW s \in Seq(Nat), s # <<>>
  PROVE  /\ Append(a, Head(s)) \in Seq(Nat) /\ Tail(s) \in Seq(Nat) /\ Head(s) \in Nat
         /\ Append(a, Head(s)) \o Tail(s) = a \o s
<1> DEFINE t == Tail(s)
<1> DEFINE b == Append(a, Head(s))
<1>0. Len(s) \in Nat /\ Len(s) > 0 /\ Len(a) \in Nat
  OBVIOUS
<1>1. t \in Seq(Nat) /\ Len(t) = Len(s) - 1 /\ \A i \in 1 .. Len(s) - 1 : t[i] = s[i + 1]
  BY <1>0
<1>2. /\ b \in Seq(Nat) /\ Len(b) = Len(a) + 1 /\ b[Len(a) + 1] = s[1] /\ Head(s) \in Nat
      /\ \A i \in 1 .. Len(a) : b[i] = a[i]
  BY <1>0
<1> HIDE DEF t, b
<1>3. /\ b \o t \in Seq(Nat) /\ Len(b \o t) = Len(a) + Len(s)
      /\ \A i \in 1 .. Len(a) + Len(s) :
           (b \o t)[i] = IF i <= Len(a) + 1 THEN b[i] ELSE t[i - (Len(a) + 1)]
  <2>1. Len(b) + Len(t) = Len(a) + Len(s)
    BY <1>0, <1>1, <1>2
  <2>2. /\ b \o t \in Seq(Nat) /\ Len(b \o t) = Len(b) + Len(t)
        /\ \A i \in 1 .. Len(b) + Len(t) : (b \o t)[i] = IF i <= Len(b) THEN b[i] ELSE t[i - Len(b)]
    BY <1>1, <1>2, ConcatTyped
  <2> QED
    BY <1>2, <2>1, <2>2
<1>4. /\ a \o s \in Seq(Nat) /\ Len(a \o s) = Len(a) + Len(s)
      /\ \A i \in 1 .. Len(a) + Len(s) : (a \o s)[i] = IF i <= Len(a) THEN a[i] ELSE s[i - Len(a)]
  BY <1>0, ConcatTyped
<1>5. ASSUME NEW i \in 1 .. Len(a) + Len(s) PROVE (b \o t)[i] = (a \o s)[i]
  <2>1. CASE i <= Len(a)
    BY <1>0, <1>2, <1>3, <1>4, <2>1
  <2>2. CASE i = Len(a) + 1
    BY <1>0, <1>2, <1>3, <1>4, <2>2
  <2>3. CASE i > Len(a) + 1
    <3>1. i - (Len(a) + 1) \in 1 .. Len(s) - 1 /\ (i - (Len(a) + 1)) + 1 = i - Len(a)
      BY <1>0, <2>3
    <3>2. t[i - (Len(a) + 1)] = s[i - Len(a)]
      BY <1>1, <3>1
    <3>3. (b \o t)[i] = t[i - (Len(a) + 1)]
      BY <1>0, <1>3, <2>3
    <3>4. (a \o s)[i] = s[i - Len(a)]
      BY <1>0, <1>4, <2>3
    <3> QED
      BY <3>2, <3>3, <3>4
  <2>4. i <= Len(a) \/ i = Len(a) + 1 \/ i > Len(a) + 1
    BY <1>0
  <2> QED
    BY <2>1, <2>2, <2>3, <2>4
<1>6. b \o t = a \o s
  BY <1>3, <1>4, <1>5, SeqEqual
<1> QED
  BY <1>1, <1>2, <1>6 DEF t, b

(* The first n bytes, and more of them.                                    *)
LEMMA UpToTyped ==
  ASSUME NEW n \in Nat
  PROVE  /\ UpTo(n) \in Seq(Nat) /\ Len(UpTo(n)) = n /\ \A i \in 1 .. n : UpTo(n)[i] = i
         /\ UpTo(0) = <<>>
BY DEF UpTo

LEMMA UpToGrows ==
  ASSUME NEW n \in Nat, NEW c \in Seq(Nat), \A i \in 1 .. Len(c) : c[i] = n + i
  PROVE  UpTo(n) \o c = UpTo(n + Len(c))
<1>0. Len(c) \in Nat /\ n + Len(c) \in Nat
  OBVIOUS
<1>1. PICK u \in Seq(Nat) : u = UpTo(n) /\ Len(u) = n /\ \A i \in 1 .. n : u[i] = i
  BY UpToTyped
<1>2. /\ u \o c \in Seq(Nat) /\ Len(u \o c) = n + Len(c)
      /\ \A i \in 1 .. n + Len(c) : (u \o c)[i] = IF i <= n THEN u[i] ELSE c[i - n]
  <2>1. /\ u \o c \in Seq(Nat) /\ Len(u \o c) = Len(u) + Len(c)
        /\ \A i \in 1 .. Len(u) + Len(c) : (u \o c)[i] = IF i <= Len(u) THEN u[i] ELSE c[i - Len(u)]
    BY ConcatTyped
  <2> QED
    BY <1>1, <2>1
<1>3. ASSUME NEW i \in 1 .. n + Len(c) PROVE (u \o c)[i] = i
  <2>1. CASE i <= n
    BY <1>0, <1>1, <1>2, <2>1
  <2>2. CASE i > n
    <3>1. i - n \in 1 .. Len(c) /\ n + (i - n) = i
      BY <1>0, <2>2
    <3>2. c[i - n] = i
      BY <3>1
    <3> QED
      BY <1>0, <1>2, <2>2, <3>2
  <2>3. i <= n \/ i > n
    BY <1>0
  <2> QED
    BY <2>1, <2>2, <2>3
<1>4. PICK v \in Seq(Nat) : /\ v = UpTo(n + Len(c)) /\ Len(v) = n + Len(c)
                            /\ \A i \in 1 .. n + Len(c) : v[i] = i
  BY <1>0, UpToTyped
<1>5. u \o c = v
  BY <1>2, <1>3, <1>4, SeqEqual
<1> QED
  BY <1>1, <1>4, <1>5

LEMMA UpToPrefix ==
  ASSUME NEW n \in Nat, NEW a \in Seq(Nat), NEW b \in Seq(Nat), a \o b = UpTo(n)
  PROVE  a = UpTo(Len(a))
<1>0. Len(a) \in Nat /\ Len(b) \in Nat
  OBVIOUS
<1>1. Len(a) + Len(b) = n
  BY ConcatTyped, UpToTyped
<1>2. \A i \in 1 .. Len(a) : a[i] = i
  <2>1. \A i \in 1 .. Len(a) : i \in 1 .. n /\ i <= Len(a)
    BY <1>0, <1>1
  <2>2. \A i \in 1 .. n : UpTo(n)[i] = IF i <= Len(a) THEN a[i] ELSE b[i - Len(a)]
    BY <1>1, ConcatTyped
  <2> QED
    BY <2>1, <2>2, UpToTyped
<1> QED
  BY <1>0, <1>2, UpToTyped, SeqEqual

(* Queues in a row, as one text.                                           *)
Join(a, b) == a \o b
Line(a, b, c, d, e) == Join(a, Join(b, Join(c, Join(d, e))))

LEMMA JoinFacts ==
  /\ \A a, b \in Seq(Nat) : Join(a, b) \in Seq(Nat)
  /\ \A a \in Seq(Nat) : Join(a, <<>>) = a /\ Join(<<>>, a) = a
  /\ \A a, b, c \in Seq(Nat) : Join(Join(a, b), c) = Join(a, Join(b, c))
<1>1. ASSUME NEW a \in Seq(Nat), NEW b \in Seq(Nat) PROVE Join(a, b) \in Seq(Nat)
  BY ConcatTyped DEF Join
<1>2. ASSUME NEW a \in Seq(Nat) PROVE Join(a, <<>>) = a /\ Join(<<>>, a) = a
  BY ConcatEmpty DEF Join
<1>3. ASSUME NEW a \in Seq(Nat), NEW b \in Seq(Nat), NEW c \in Seq(Nat)
      PROVE  Join(Join(a, b), c) = Join(a, Join(b, c))
  BY ConcatAssoc DEF Join
<1> QED
  BY <1>1, <1>2, <1>3

LEMMA LineIs ==
  ASSUME NEW a \in Seq(Nat), NEW b \in Seq(Nat), NEW c \in Seq(Nat), NEW d \in Seq(Nat),
         NEW e \in Seq(Nat)
  PROVE  Join(Join(Join(Join(a, b), c), d), e) = Line(a, b, c, d, e)
<1>1. /\ Join(a, b) \in Seq(Nat) /\ Join(Join(a, b), c) \in Seq(Nat)
      /\ Join(d, e) \in Seq(Nat) /\ Join(c, Join(d, e)) \in Seq(Nat)
  BY JoinFacts
<1>2. Join(Join(Join(Join(a, b), c), d), e) = Join(Join(Join(a, b), c), Join(d, e))
  BY <1>1, JoinFacts
<1>3. Join(Join(Join(a, b), c), Join(d, e)) = Join(Join(a, b), Join(c, Join(d, e)))
  BY <1>1, JoinFacts
<1>4. Join(Join(a, b), Join(c, Join(d, e))) = Join(a, Join(b, Join(c, Join(d, e))))
  BY <1>1, JoinFacts
<1> QED
  BY <1>2, <1>3, <1>4 DEF Line

-----------------------------------------------------------------------------
(* fgets and strlen.                                                       *)

(* fgets takes at least one byte and no more than there are.               *)
LEMMA ChunkTyped ==
  ASSUME Types, pos < Len(input)
  PROVE  /\ Chunk \in Seq(Nat) /\ Len(Chunk) \in 1 .. Len(input) - pos
         /\ \A i \in 1 .. Len(Chunk) : Chunk[i] = pos + i
<1> DEFINE Ends(i) == i = Len(input) \/ i = pos + BufSize - 1 \/ input[i] = "nl"
<1> DEFINE E == {i \in pos + 1 .. Len(input) : Ends(i)}
<1> DEFINE Good(i) == Ends(i) /\ \A k \in pos + 1 .. i - 1 : ~Ends(k)
<1> DEFINE last == CHOOSE i \in pos + 1 .. Len(input) : Good(i)
<1>0. pos \in Nat /\ Len(input) \in Nat
  BY DEF Types
<1>1. E \in SUBSET Nat /\ E # {}
  <2>1. Len(input) \in E
    BY <1>0
  <2>2. E \in SUBSET Nat
    BY <1>0
  <2> QED
    BY <2>1, <2>2
<1>2. Chunk = [k \in 1 .. last - pos |-> pos + k]
  BY DEF Chunk
<1>3. \A i \in pos + 1 .. Len(input) : i \in E <=> Ends(i)
  OBVIOUS
<1>4. E \subseteq pos + 1 .. Len(input)
  OBVIOUS
<1> HIDE DEF E, Ends
<1>5. PICK x \in E : \A y \in E : x <= y
  BY <1>1, SmallestNumber
<1>6. x \in pos + 1 .. Len(input) /\ Ends(x)
  BY <1>3, <1>4, <1>5
<1>7. ASSUME NEW k \in pos + 1 .. x - 1 PROVE ~Ends(k)
  <2>1. k \in pos + 1 .. Len(input) /\ ~(x <= k)
    BY <1>0, <1>6
  <2> QED
    BY <1>3, <1>5, <2>1
<1>8. Good(x)
  BY <1>6, <1>7
<1> HIDE DEF Good
<1>9. last \in pos + 1 .. Len(input)
  BY <1>6, <1>8
<1> HIDE DEF last
<1>10. PICK d \in 1 .. Len(input) - pos : d = last - pos
  BY <1>0, <1>9
<1>11. Chunk = [k \in 1 .. d |-> pos + k] /\ d \in Nat
  BY <1>0, <1>2, <1>10
<1> HIDE DEF Chunk
<1>12. Chunk \in Seq(Nat) /\ Len(Chunk) = d /\ \A i \in 1 .. d : Chunk[i] = pos + i
  BY <1>0, <1>11
<1> QED
  BY <1>12

(* strlen cuts nothing from text without NUL bytes.                        *)
LEMMA ToNulTyped ==
  ASSUME Types, NEW s \in Seq(Nat), \A i \in 1 .. Len(s) : s[i] \in DOMAIN input
  PROVE  ToNul(s) \in Seq(Nat) /\ (NulFree => ToNul(s) = s)
<1> DEFINE nuls == {k \in DOMAIN s : input[s[k]] = "nul"}
<1>0. DOMAIN s = 1 .. Len(s) /\ Len(s) \in Nat
  OBVIOUS
<1>1. NulFree => nuls = {}
  BY <1>0 DEF NulFree
<1>2. CASE nuls = {}
  BY <1>2 DEF ToNul
<1>3. CASE nuls # {}
  <2> DEFINE first == CHOOSE k \in nuls : \A j \in nuls : k <= j
  <2>1. nuls \subseteq 1 .. Len(s) /\ nuls \in SUBSET Nat
    BY <1>0
  <2>2. ToNul(s) = SubSeq(s, 1, first - 1)
    BY <1>3 DEF ToNul
  <2> HIDE DEF nuls
  <2>3. first \in nuls
    <3>1. \E x \in nuls : \A y \in nuls : x <= y
      BY <1>3, <2>1, SmallestNumber
    <3> QED
      BY <3>1
  <2> HIDE DEF first
  <2>4. PICK f \in 1 .. Len(s) : f = first
    BY <2>1, <2>3
  <2>5. SubSeq(s, 1, f - 1) \in Seq(Nat)
    BY <1>0
  <2> QED
    BY <1>1, <1>3, <2>2, <2>4, <2>5
<1> QED
  BY <1>2, <1>3

-----------------------------------------------------------------------------
(* Steps.                                                                  *)

LEMMA TypesStep == IInv /\ [Next]_vars => Types'
<1> SUFFICES ASSUME IInv, [Next]_vars PROVE Types'
  OBVIOUS
<1> USE DEF clientVars, handlerVars
<1>0. Types
  BY DEF IInv
<1>1. CASE Connect \/ WriteNothing \/ WriteLost \/ StdinEOF \/ HandlerReadEnd \/ HandlerWriteLost
  <2>1. buf' \in {buf, <<>>} /\ hbuf' \in {hbuf, <<>>} /\ UNCHANGED <<input, pos, out, c2s, s2c>>
    BY <1>1 DEF Connect, WriteNothing, WriteLost, StdinEOF, HandlerReadEnd, HandlerWriteLost
  <2>2. /\ cpc' \in {cpc, "fgets", "readline", "returned", "failed", "killed"}
        /\ hpc' \in {hpc, "read", "dropped", "returned", "killed"}
    BY <1>1 DEF Connect, WriteNothing, WriteLost, StdinEOF, HandlerReadEnd, HandlerWriteLost
  <2>3. <<>> \in Seq(Nat)
    OBVIOUS
  <2> QED
    BY <1>0, <2>1, <2>2, <2>3 DEF Types
<1>2. CASE Fgets
  <2>1. pos < Len(input)
    BY <1>2 DEF Fgets
  <2>2. /\ Chunk \in Seq(Nat) /\ Len(Chunk) \in 1 .. Len(input) - pos
        /\ \A i \in 1 .. Len(Chunk) : Chunk[i] = pos + i
    BY <1>0, <2>1, ChunkTyped
  <2>3. \A i \in 1 .. Len(Chunk) : Chunk[i] \in DOMAIN input
    <3>1. DOMAIN input = 1 .. Len(input) /\ Len(input) \in Nat /\ pos \in Nat
      BY <1>0 DEF Types
    <3> QED
      BY <2>2, <3>1
  <2>4. ToNul(Chunk) \in Seq(Nat)
    BY <1>0, <2>2, <2>3, ToNulTyped
  <2>5. pos + Len(Chunk) \in 0 .. Len(input)
    BY <1>0, <2>2 DEF Types
  <2> QED
    BY <1>0, <1>2, <2>4, <2>5 DEF Types, Fgets
<1>3. ASSUME NEW k \in 1 .. BufSize, WriteChunk(k) PROVE Types'
  <2>1. k \in 1 .. Len(buf)
    BY <1>3 DEF WriteChunk, CanWrite
  <2>2. SubSeq(buf, 1, k) \in Seq(Nat) /\ SubSeq(buf, k + 1, Len(buf)) \in Seq(Nat)
    BY <1>0, <2>1, CutAndJoin DEF Types
  <2>3. c2s' \in Seq(Nat) /\ buf' \in Seq(Nat)
    BY <1>0, <1>3, <2>2, ConcatTyped DEF WriteChunk, writen, Types
  <2>4. cpc' \in {"writen", "readline", "fgets"}
    BY <1>3 DEF WriteChunk
  <2> QED
    BY <1>0, <1>3, <2>3, <2>4 DEF Types, WriteChunk
<1>4. CASE ReadByte
  <2>1. s2c \in Seq(Nat) /\ s2c # <<>> /\ buf \in Seq(Nat) /\ out \in Seq(Nat)
    BY <1>0, <1>4 DEF Types, ReadByte
  <2>2. Append(buf, Head(s2c)) \in Seq(Nat) /\ Tail(s2c) \in Seq(Nat)
    BY <2>1, MoveHead
  <2>3. out \o Append(buf, Head(s2c)) \in Seq(Nat)
    BY <2>1, <2>2, ConcatTyped
  <2>4. s2c' \in Seq(Nat) /\ out' \in Seq(Nat) /\ buf' \in Seq(Nat)
    BY <1>4, <2>1, <2>2, <2>3 DEF ReadByte
  <2>5. cpc' \in {"readline", "fgets"}
    BY <1>4 DEF ReadByte
  <2> QED
    BY <1>0, <1>4, <2>4, <2>5 DEF Types, ReadByte
<1>5. CASE ReadEnd
  <2>1. out \o buf \in Seq(Nat)
    BY <1>0, ConcatTyped DEF Types
  <2> QED
    BY <1>0, <1>5, <2>1 DEF Types, ReadEnd
<1>6. ASSUME NEW k \in 1 .. HBufSize, HandlerRead(k) PROVE Types'
  <2>1. SubSeq(c2s, 1, k) \in Seq(Nat) /\ SubSeq(c2s, k + 1, Len(c2s)) \in Seq(Nat)
    BY <1>0, <1>6, CutAndJoin DEF Types, HandlerRead
  <2> QED
    BY <1>0, <1>6, <2>1 DEF Types, HandlerRead
<1>7. ASSUME NEW k \in 1 .. HBufSize, HandlerWrite(k) PROVE Types'
  <2>1. k \in 1 .. Len(hbuf)
    BY <1>7 DEF HandlerWrite, CanWrite
  <2>2. SubSeq(hbuf, 1, k) \in Seq(Nat) /\ SubSeq(hbuf, k + 1, Len(hbuf)) \in Seq(Nat)
    BY <1>0, <2>1, CutAndJoin DEF Types
  <2>3. s2c' \in Seq(Nat) /\ hbuf' \in Seq(Nat)
    BY <1>0, <1>7, <2>2, ConcatTyped DEF HandlerWrite, writen, Types
  <2> QED
    BY <1>0, <1>7, <2>3 DEF Types, HandlerWrite
<1>8. CASE UNCHANGED vars
  BY <1>0, <1>8 DEF vars, Types
<1> QED
  BY <1>1, <1>2, <1>3, <1>4, <1>5, <1>6, <1>7, <1>8 DEF Next, Client, Handler

LEMMA BuffersStep == IInv /\ [Next]_vars => Buffers'
<1> SUFFICES ASSUME IInv, [Next]_vars PROVE Buffers'
  OBVIOUS
<1> USE DEF clientVars, handlerVars, ClientEnded, HandlerEnded
<1>0. Types /\ Buffers
  BY DEF IInv
<1>1. CASE Connect
  BY <1>0, <1>1 DEF Types, Buffers, Connect
<1>2. CASE Fgets \/ WriteNothing \/ WriteLost \/ StdinEOF
  BY <1>0, <1>2 DEF Types, Buffers, Fgets, WriteNothing, WriteLost, StdinEOF
<1>3. ASSUME NEW k \in 1 .. BufSize, WriteChunk(k) PROVE Buffers'
  <2>1. cpc' = "writen" \/ (buf' = <<>> /\ cpc' \in {"readline", "fgets"})
    BY <1>3 DEF WriteChunk
  <2> QED
    BY <1>0, <1>3, <2>1 DEF Types, Buffers, WriteChunk
<1>4. CASE ReadByte
  <2>1. cpc' = "readline" \/ (buf' = <<>> /\ cpc' = "fgets")
    BY <1>4 DEF ReadByte
  <2> QED
    BY <1>0, <1>4, <2>1 DEF Types, Buffers, ReadByte
<1>5. CASE ReadEnd
  BY <1>0, <1>5 DEF Types, Buffers, ReadEnd
<1>6. ASSUME NEW k \in 1 .. HBufSize, HandlerRead(k) \/ HandlerWrite(k) PROVE Buffers'
  BY <1>0, <1>6 DEF Types, Buffers, HandlerRead, HandlerWrite
<1>7. CASE HandlerReadEnd \/ HandlerWriteLost
  BY <1>0, <1>7 DEF Types, Buffers, HandlerReadEnd, HandlerWriteLost
<1>8. CASE UNCHANGED vars
  BY <1>0, <1>8 DEF vars, Buffers
<1> QED
  BY <1>1, <1>2, <1>3, <1>4, <1>5, <1>6, <1>7, <1>8 DEF Next, Client, Handler

(* While both programs run, what is printed and what is under way is the   *)
(* input that was taken.                                                   *)
InLine == \/ cpc = "readline" /\ Line(out, buf, s2c, hbuf, c2s) = UpTo(pos)
          \/ cpc # "readline" /\ Line(out, s2c, hbuf, c2s, buf) = UpTo(pos)

LEMMA LineStep ==
  ASSUME IInv, [Next]_vars, Types', NulFree, InLine, ~ClientEnded', ~HandlerEnded'
  PROVE  InLine'
<1> USE DEF clientVars, handlerVars
<1>0. Types /\ Buffers
  BY DEF IInv
<1>1. /\ out \in Seq(Nat) /\ buf \in Seq(Nat) /\ s2c \in Seq(Nat) /\ hbuf \in Seq(Nat)
      /\ c2s \in Seq(Nat) /\ pos \in Nat
  BY <1>0 DEF Types
<1>2. /\ out' \in Seq(Nat) /\ buf' \in Seq(Nat) /\ s2c' \in Seq(Nat) /\ hbuf' \in Seq(Nat)
      /\ c2s' \in Seq(Nat)
  BY DEF Types
\* With an empty buf the two orders are the same.
<1>3. ASSUME NEW o \in Seq(Nat), NEW s \in Seq(Nat), NEW h \in Seq(Nat), NEW c \in Seq(Nat)
      PROVE  /\ Line(o, <<>>, s, h, c) = Join(o, Join(s, Join(h, c)))
             /\ Line(o, s, h, c, <<>>) = Join(o, Join(s, Join(h, c)))
  <2>1. Join(s, Join(h, c)) \in Seq(Nat)
    BY JoinFacts
  <2> QED
    BY <2>1, JoinFacts DEF Line
<1>4. CASE Connect \/ WriteNothing
  <2>1. UNCHANGED <<out, buf, s2c, hbuf, c2s, pos>> /\ buf = <<>>
    BY <1>0, <1>4 DEF Connect, WriteNothing, Buffers
  <2>2. Line(out, buf, s2c, hbuf, c2s) = Line(out, s2c, hbuf, c2s, buf)
    BY <1>1, <1>3, <2>1
  <2> QED
    BY <2>1, <2>2 DEF InLine
<1>5. CASE Fgets
  <2>1. pos < Len(input)
    BY <1>5 DEF Fgets
  <2>2. /\ Chunk \in Seq(Nat) /\ Len(Chunk) \in 1 .. Len(input) - pos
        /\ \A i \in 1 .. Len(Chunk) : Chunk[i] = pos + i
    BY <1>0, <2>1, ChunkTyped
  <2>3. \A i \in 1 .. Len(Chunk) : Chunk[i] \in DOMAIN input
    <3>1. DOMAIN input = 1 .. Len(input) /\ Len(input) \in Nat
      BY <1>0 DEF Types
    <3> QED
      BY <1>1, <2>2, <3>1, SMTT(30)
  <2>4. buf = <<>> /\ buf' = Chunk /\ pos' = pos + Len(Chunk) /\ cpc = "fgets" /\ cpc' = "writen"
    <3>1. ToNul(Chunk) = Chunk
      BY <1>0, <2>2, <2>3, ToNulTyped
    <3> QED
      BY <1>0, <1>5, <3>1 DEF Fgets, Buffers
  <2>5. UNCHANGED <<out, s2c, hbuf, c2s>>
    BY <1>5 DEF Fgets
  <2>6. Line(out, s2c, hbuf, c2s, buf') = Join(Line(out, s2c, hbuf, c2s, <<>>), buf')
    <3>1. Line(out, s2c, hbuf, c2s, <<>>) = Join(out, Join(s2c, Join(hbuf, c2s)))
      BY <1>1, <1>3
    <3>2. Join(Join(hbuf, c2s), buf') = Join(hbuf, Join(c2s, buf'))
      BY <1>1, <1>2, JoinFacts
    <3>3. Join(Join(s2c, Join(hbuf, c2s)), buf') = Join(s2c, Join(Join(hbuf, c2s), buf'))
      BY <1>1, <1>2, JoinFacts
    <3>4. Join(Join(out, Join(s2c, Join(hbuf, c2s))), buf') = Join(out, Join(Join(s2c, Join(hbuf, c2s)), buf'))
      BY <1>1, <1>2, JoinFacts
    <3> QED
      BY <3>1, <3>2, <3>3, <3>4 DEF Line
  <2>7. Line(out, s2c, hbuf, c2s, <<>>) = UpTo(pos)
    BY <2>4 DEF InLine
  <2>8. Join(UpTo(pos), buf') = UpTo(pos')
    <3>1. UpTo(pos) \o Chunk = UpTo(pos + Len(Chunk))
      BY <1>1, <2>2, UpToGrows
    <3> QED
      BY <2>4, <3>1 DEF Join
  <2> QED
    BY <2>4, <2>5, <2>6, <2>7, <2>8 DEF InLine
<1>6. ASSUME NEW k \in 1 .. BufSize, WriteChunk(k) PROVE InLine'
  <2>1. /\ k \in 1 .. Len(buf) /\ UNCHANGED <<out, s2c, hbuf, pos>>
        /\ c2s' = c2s \o SubSeq(buf, 1, k) /\ buf' = SubSeq(buf, k + 1, Len(buf)) /\ cpc = "writen"
    BY <1>6 DEF WriteChunk, CanWrite, writen
  <2>2. cpc' = "writen" \/ (buf' = <<>> /\ cpc' \in {"readline", "fgets"})
    BY <1>6 DEF WriteChunk
  <2>3. PICK x \in Seq(Nat) : Join(x, buf') = buf /\ c2s' = Join(c2s, x)
    BY <1>1, <2>1, CutAndJoin DEF Join
  <2>4. Join(c2s', buf') = Join(c2s, buf)
    BY <1>1, <1>2, <2>3, JoinFacts
  <2>5. Line(out', s2c', hbuf', c2s', buf') = UpTo(pos')
    BY <2>1, <2>4 DEF InLine, Line
  <2>6. buf' = <<>> => Line(out', buf', s2c', hbuf', c2s') = UpTo(pos')
    BY <1>2, <1>3, <2>5
  <2> QED
    BY <2>2, <2>5, <2>6 DEF InLine
<1>7. CASE WriteLost \/ ReadEnd
  BY <1>7 DEF WriteLost, ReadEnd, HandlerEnded
<1>8. CASE ReadByte
  <2> DEFINE line == Append(buf, Head(s2c))
  <2>1. /\ s2c # <<>> /\ s2c' = Tail(s2c) /\ UNCHANGED <<hbuf, c2s, pos>> /\ cpc = "readline"
        /\ \/ out' = out \o line /\ buf' = <<>> /\ cpc' \in {"readline", "fgets"}
           \/ out' = out /\ buf' = line /\ cpc' = "readline"
    BY <1>8 DEF ReadByte
  <2>2. line \in Seq(Nat) /\ Join(line, s2c') = Join(buf, s2c)
    BY <1>1, <2>1, MoveHead DEF Join
  <2>3. \/ out' = Join(out, line) /\ buf' = <<>>
        \/ out' = out /\ buf' = line /\ cpc' = "readline"
    BY <2>1 DEF Join
  <2>4. UNCHANGED <<hbuf, c2s, pos>> /\ cpc = "readline" /\ cpc' \in {"readline", "fgets"}
    BY <2>1
  <2> HIDE DEF line
  <2>5. PICK r \in Seq(Nat) : r = Join(hbuf, c2s)
    BY <1>1, JoinFacts
  <2>6. Join(line, Join(s2c', r)) = Join(buf, Join(s2c, r))
    <3>1. Join(line, Join(s2c', r)) = Join(Join(line, s2c'), r)
      BY <1>2, <2>2, <2>5, JoinFacts
    <3>2. Join(Join(buf, s2c), r) = Join(buf, Join(s2c, r))
      BY <1>1, <2>5, JoinFacts
    <3> QED
      BY <2>2, <3>1, <3>2
  <2>7. Join(out, Join(line, Join(s2c', r))) = UpTo(pos)
    BY <2>4, <2>5, <2>6 DEF InLine, Line
  <2>8. CASE out' = out /\ buf' = line /\ cpc' = "readline"
    BY <2>4, <2>5, <2>7, <2>8 DEF InLine, Line
  <2>9. CASE out' = Join(out, line) /\ buf' = <<>>
    <3>1. Join(s2c', r) \in Seq(Nat)
      BY <1>2, <2>5, JoinFacts
    <3>2. Join(Join(out, line), Join(s2c', r)) = Join(out, Join(line, Join(s2c', r)))
      BY <1>1, <2>2, <3>1, JoinFacts
    <3>3. Join(out', Join(s2c', Join(hbuf', c2s'))) = UpTo(pos')
      BY <2>4, <2>5, <2>7, <2>9, <3>2
    <3>4. /\ Line(out', buf', s2c', hbuf', c2s') = UpTo(pos')
          /\ Line(out', s2c', hbuf', c2s', buf') = UpTo(pos')
      BY <1>2, <1>3, <2>9, <3>3
    <3> QED
      BY <3>4 DEF InLine
  <2> QED
    BY <2>3, <2>8, <2>9
<1>9. CASE StdinEOF \/ HandlerReadEnd
  BY <1>9 DEF StdinEOF, HandlerReadEnd, ClientEnded, HandlerEnded
<1>10. ASSUME NEW k \in 1 .. HBufSize, HandlerRead(k) PROVE InLine'
  <2>1. /\ hbuf' = SubSeq(c2s, 1, k) /\ c2s' = SubSeq(c2s, k + 1, Len(c2s)) /\ k \in 1 .. Len(c2s)
        /\ UNCHANGED <<out, buf, s2c, pos, cpc>> /\ hbuf = <<>>
    BY <1>0, <1>10 DEF HandlerRead, Buffers
  <2>2. Join(hbuf', c2s') = c2s
    BY <1>1, <2>1, CutAndJoin DEF Join
  <2>3. Join(hbuf, c2s) = c2s
    BY <1>1, <2>1, JoinFacts
  <2>4. Join(hbuf', Join(c2s', buf)) = Join(hbuf, Join(c2s, buf))
    <3>1. Join(hbuf', Join(c2s', buf)) = Join(Join(hbuf', c2s'), buf)
      BY <1>1, <1>2, JoinFacts
    <3>2. Join(hbuf, Join(c2s, buf)) = Join(Join(hbuf, c2s), buf)
      BY <1>1, JoinFacts
    <3> QED
      BY <2>2, <2>3, <3>1, <3>2
  <2> QED
    BY <2>1, <2>2, <2>3, <2>4 DEF InLine, Line
<1>11. ASSUME NEW k \in 1 .. HBufSize, HandlerWrite(k) PROVE InLine'
  <2>1. /\ k \in 1 .. Len(hbuf) /\ UNCHANGED <<out, buf, c2s, pos, cpc>>
        /\ s2c' = s2c \o SubSeq(hbuf, 1, k) /\ hbuf' = SubSeq(hbuf, k + 1, Len(hbuf))
    BY <1>11 DEF HandlerWrite, CanWrite, writen
  <2>2. PICK x \in Seq(Nat) : Join(x, hbuf') = hbuf /\ s2c' = Join(s2c, x)
    BY <1>1, <2>1, CutAndJoin DEF Join
  <2>3. ASSUME NEW r \in Seq(Nat) PROVE Join(s2c', Join(hbuf', r)) = Join(s2c, Join(hbuf, r))
    <3>1. Join(hbuf', r) \in Seq(Nat)
      BY <1>2, JoinFacts
    <3>2. Join(Join(s2c, x), Join(hbuf', r)) = Join(s2c, Join(x, Join(hbuf', r)))
      BY <1>1, <2>2, <3>1, JoinFacts
    <3>3. Join(x, Join(hbuf', r)) = Join(Join(x, hbuf'), r)
      BY <1>2, <2>2, JoinFacts
    <3> QED
      BY <2>2, <3>2, <3>3
  <2>4. Join(c2s, buf) \in Seq(Nat)
    BY <1>1, JoinFacts
  <2> QED
    BY <1>1, <2>1, <2>3, <2>4 DEF InLine, Line
<1>12. CASE HandlerWriteLost
  BY <1>12 DEF HandlerWriteLost, ClientEnded
<1>13. CASE UNCHANGED vars
  BY <1>13 DEF vars, InLine
<1> QED
  BY <1>4, <1>5, <1>6, <1>7, <1>8, <1>9, <1>10, <1>11, <1>12, <1>13 DEF Next, Client, Handler

(* What was printed stays printed, also after one of the programs ended.   *)
LEMMA ConservedStep ==
  ASSUME IInv, [Next]_vars, Types', Buffers'
  PROVE  Conserved'
<1>0. Types /\ Buffers /\ Conserved
  BY DEF IInv
<1>1. input' = input
  BY DEF Next, Client, Handler, vars, clientVars, Connect, Fgets, WriteNothing, WriteLost, ReadByte,
         ReadEnd, StdinEOF, WriteChunk, HandlerReadEnd, HandlerWriteLost, HandlerRead, HandlerWrite
<1>2. SUFFICES ASSUME NulFree
               PROVE  /\ out' = UpTo(Len(out'))
                      /\ ~ClientEnded' /\ ~HandlerEnded' =>
                           \/ cpc' = "readline" /\ out' \o buf' \o s2c' \o hbuf' \o c2s' = UpTo(pos')
                           \/ cpc' # "readline" /\ out' \o s2c' \o hbuf' \o c2s' \o buf' = UpTo(pos')
  BY <1>1 DEF Conserved, NulFree
<1>3. CASE ~ClientEnded' /\ ~HandlerEnded'
  <2>1. ~ClientEnded /\ ~HandlerEnded
    <3> USE DEF clientVars, handlerVars
    <3> QED
      BY <1>0, <1>3 DEF Next, Client, Handler, vars, Connect, Fgets, WriteNothing, WriteLost,
         ReadByte, ReadEnd, StdinEOF, WriteChunk, HandlerReadEnd, HandlerWriteLost, HandlerRead,
         HandlerWrite, ClientEnded, HandlerEnded, Buffers
  <2>2. /\ out \in Seq(Nat) /\ buf \in Seq(Nat) /\ s2c \in Seq(Nat) /\ hbuf \in Seq(Nat)
        /\ c2s \in Seq(Nat)
    BY <1>0 DEF Types
  <2>3. /\ out' \in Seq(Nat) /\ buf' \in Seq(Nat) /\ s2c' \in Seq(Nat) /\ hbuf' \in Seq(Nat)
        /\ c2s' \in Seq(Nat) /\ pos' \in Nat
    BY DEF Types
  <2>4. InLine
    <3>1. \/ cpc = "readline" /\ Join(Join(Join(Join(out, buf), s2c), hbuf), c2s) = UpTo(pos)
          \/ cpc # "readline" /\ Join(Join(Join(Join(out, s2c), hbuf), c2s), buf) = UpTo(pos)
      BY <1>0, <1>2, <2>1, Zenon DEF Conserved, Join
    <3>2. /\ Join(Join(Join(Join(out, buf), s2c), hbuf), c2s) = Line(out, buf, s2c, hbuf, c2s)
          /\ Join(Join(Join(Join(out, s2c), hbuf), c2s), buf) = Line(out, s2c, hbuf, c2s, buf)
      BY <2>2, LineIs
    <3> QED
      BY <3>1, <3>2 DEF InLine
  <2>5. InLine'
    BY <1>2, <1>3, <2>4, LineStep
  <2>6. \/ cpc' = "readline" /\ Join(Join(Join(Join(out', buf'), s2c'), hbuf'), c2s') = UpTo(pos')
        \/ cpc' # "readline" /\ Join(Join(Join(Join(out', s2c'), hbuf'), c2s'), buf') = UpTo(pos')
    <3>1. /\ Join(Join(Join(Join(out', buf'), s2c'), hbuf'), c2s') = Line(out', buf', s2c', hbuf', c2s')
          /\ Join(Join(Join(Join(out', s2c'), hbuf'), c2s'), buf') = Line(out', s2c', hbuf', c2s', buf')
      BY <2>3, LineIs
    <3> QED
      BY <2>5, <3>1 DEF InLine
  <2>7. \E r \in Seq(Nat) : Join(out', r) = UpTo(pos')
    <3>1. /\ Join(buf', Join(s2c', Join(hbuf', c2s'))) \in Seq(Nat)
          /\ Join(s2c', Join(hbuf', Join(c2s', buf'))) \in Seq(Nat)
      BY <2>3, JoinFacts
    <3> QED
      BY <2>5, <3>1 DEF InLine, Line
  <2>8. out' = UpTo(Len(out'))
    BY <2>3, <2>7, UpToPrefix DEF Join
  <2> QED
    BY <2>6, <2>8, Zenon DEF Join
<1>4. CASE ClientEnded' \/ HandlerEnded'
  <2>1. out' = out
    <3> USE DEF clientVars, handlerVars
    <3>1. CASE ReadByte \/ ReadEnd
      BY <1>0, <1>4, <3>1 DEF ReadByte, ReadEnd, ClientEnded, HandlerEnded, Types, Buffers
    <3> QED
      BY <3>1 DEF Next, Client, Handler, vars, Connect, Fgets, WriteNothing, WriteLost,
         StdinEOF, WriteChunk, HandlerReadEnd, HandlerWriteLost, HandlerRead, HandlerWrite
  <2>2. out = UpTo(Len(out))
    BY <1>0, <1>2 DEF Conserved
  <2> QED
    BY <1>4, <2>1, <2>2
<1> QED
  BY <1>3, <1>4

-----------------------------------------------------------------------------
LEMMA InitIInv == Init => IInv
<1> SUFFICES ASSUME Init PROVE IInv
  OBVIOUS
<1>1. Types
  <2>1. input \in Seq({"text", "nl", "nul"}) /\ Len(input) \in Nat
    BY InputsAssumption DEF Init
  <2>2. <<>> \in Seq(Nat)
    OBVIOUS
  <2> QED
    BY <2>1, <2>2 DEF Init, Types
<1>2. Buffers
  BY DEF Init, Buffers
<1>3. Conserved
  <2>1. UpTo(0) = <<>> /\ Len(<<>>) = 0
    BY UpToTyped
  <2>2. <<>> \o <<>> = <<>>
    OBVIOUS
  <2> QED
    BY <2>1, <2>2 DEF Init, Conserved
<1> QED
  BY <1>1, <1>2, <1>3 DEF IInv

(* However write(), read() and readline() cut the text, and whichever       *)
(* program stops first, what echo_client has printed is its input so far,   *)
(* and what it has not printed is on its way, each byte once and in order. *)
THEOREM EchoConserves == FairSpec => []Conserved
<1>1. IInv /\ [Next]_vars => IInv'
  BY TypesStep, BuffersStep, ConservedStep DEF IInv
<1>2. IInv => Conserved
  BY DEF IInv
<1> QED
  BY InitIInv, <1>1, <1>2, PTL DEF FairSpec
=============================================================================
