-------------------------- MODULE SbcpMessageProofs --------------------------
(***************************************************************************)
(* Every message of the chat is read as it was made, for any lengths and   *)
(* limits that fit together. The attributes of a message stand one behind   *)
(* the other; reading follows the same places.                             *)
(***************************************************************************)
EXTENDS SbcpMessage, WellFoundedInduction, TLAPS

-----------------------------------------------------------------------------
(* Induction, and recursive functions.                                     *)

LEMMA LeastFailure ==
  ASSUME NEW T \in SUBSET Nat, NEW n \in Nat, n \notin T
  PROVE  \E k \in Nat \ T : \A j \in 0 .. k - 1 : j \in T
<1> DEFINE R == OpToRel(<, Nat)
<1>1. \A x, y \in Nat : <<y, x>> \in R <=> y < x
  BY DEF OpToRel
<1>2. IsWellFoundedOn(R, Nat)
  BY NatLessThanWellFounded
<1> HIDE DEF R
<1>3. PICK k \in Nat \ T : \A j \in Nat \ T : ~(<<j, k>> \in R)
  BY <1>2, WFMin
<1>4. ASSUME NEW j \in 0 .. k - 1 PROVE j \in T
  <2>1. j \in Nat /\ k \in Nat /\ j < k
    OBVIOUS
  <2>2. <<j, k>> \in R
    BY <1>1, <2>1
  <2> QED
    BY <1>3, <2>1, <2>2
<1> QED
  BY <1>4

(* Induction upwards, in the form of a set of positions.                   *)
LEMMA Upwards ==
  ASSUME NEW N \in Nat, NEW T \in SUBSET Nat, 0 \in T,
         \A k \in 0 .. N - 1 : k \in T => k + 1 \in T
  PROVE  \A k \in 0 .. N : k \in T
<1> DEFINE U == {k \in Nat : k <= N => k \in T}
<1>1. ASSUME NEW n \in Nat, n \notin U PROVE FALSE
  <2>0. U \in SUBSET Nat
    OBVIOUS
  <2>1. PICK k \in Nat \ U : \A j \in 0 .. k - 1 : j \in U
    BY <1>1, <2>0, LeastFailure
  <2>2. k <= N /\ k \notin T
    BY <2>1
  <2>3. k # 0
    BY <2>2
  <2>4. k - 1 \in 0 .. k - 1 /\ k - 1 \in 0 .. N - 1 /\ k - 1 + 1 = k
    BY <2>1, <2>2, <2>3
  <2>5. k - 1 \in T
    BY <2>1, <2>4
  <2> QED
    BY <2>2, <2>4, <2>5
<1> QED
  BY <1>1

(* And downwards, from the end of a list.                                  *)
LEMMA Downwards ==
  ASSUME NEW N \in Nat, NEW T \in SUBSET Nat, N \in T,
         \A k \in 0 .. N - 1 : k + 1 \in T => k \in T
  PROVE  \A k \in 0 .. N : k \in T
<1> DEFINE U == {k \in Nat : k <= N => N - k \in T}
<1>1. 0 \in U
  OBVIOUS
<1>2. ASSUME NEW k \in 0 .. N - 1, k \in U PROVE k + 1 \in U
  <2>1. N - (k + 1) \in 0 .. N - 1 /\ N - (k + 1) + 1 = N - k /\ k + 1 \in Nat
    OBVIOUS
  <2>2. N - k \in T
    BY <1>2
  <2> QED
    BY <2>1, <2>2
<1>3. U \in SUBSET Nat
  OBVIOUS
<1> HIDE DEF U
<1>4. \A k \in 0 .. N : k \in U
  BY <1>1, <1>2, <1>3, Upwards
<1>5. ASSUME NEW k \in 0 .. N PROVE k \in T
  <2>1. N - k \in 0 .. N /\ N - k \in Nat /\ N - k <= N /\ N - (N - k) = k
    OBVIOUS
  <2>2. N - k \in U
    BY <1>4, <2>1
  <2> QED
    BY <2>1, <2>2 DEF U
<1> QED
  BY <1>5

(* A recursion along a text of N characters: position i yields o[i], and     *)
(* reading goes on at d[i], or ends if that is no later position.           *)
Chain(N, o, d, f) ==
  f = [i \in 0 .. N |-> IF i = N THEN <<>>
                        ELSE IF d[i] \in i + 1 .. N THEN o[i] \o f[d[i]] ELSE o[i]]

LEMMA ChainExists ==
  ASSUME NEW N \in Nat, NEW o, NEW d
  PROVE  \E f : Chain(N, o, d, f)
<1> DEFINE Elem(f, i) == IF i = N THEN <<>> ELSE IF d[i] \in i + 1 .. N THEN o[i] \o f[d[i]] ELSE o[i]
<1> DEFINE Part(k, f) == f = [i \in N - k .. N |-> Elem(f, i)]
<1> DEFINE T == {k \in Nat : \E f : Part(k, f)}
<1>1. ASSUME NEW k \in 0 .. N - 1, NEW f, Part(k, f) PROVE \E g : Part(k + 1, g)
  <2> DEFINE x == N - k - 1
  <2> DEFINE e == Elem(f, x)
  <2> DEFINE g == [i \in x .. N |-> IF i = x THEN e ELSE f[i]]
  <2>1. x \in 0 .. N - 1 /\ N - k = x + 1 /\ N - (k + 1) = x
    OBVIOUS
  <2> HIDE DEF x
  <2>3. \A i \in x + 1 .. N : f[i] = Elem(f, i)
    BY <1>1, <2>1
  <2> HIDE DEF Elem, e, Part
  <2>2. g[x] = e /\ \A i \in x + 1 .. N : g[i] = f[i]
    <3>1. x \in x .. N /\ \A i \in x + 1 .. N : i \in x .. N /\ i # x
      BY <2>1
    <3> QED
      BY <3>1
  <2>7. g = [i \in x .. N |-> g[i]]
    OBVIOUS
  <2> HIDE DEF g
  <2>4. ASSUME NEW i \in x .. N PROVE Elem(g, i) = Elem(f, i)
    <3>1. CASE i = N
      BY <3>1 DEF Elem
    <3>2. CASE i # N /\ d[i] \notin i + 1 .. N
      BY <3>2 DEF Elem
    <3>3. CASE i # N /\ d[i] \in i + 1 .. N
      <4>1. i + 1 .. N \subseteq x + 1 .. N
        BY <2>1
      <4>2. d[i] \in x + 1 .. N
        BY <3>3, <4>1
      <4>3. g[d[i]] = f[d[i]]
        BY <2>2, <4>2
      <4> QED
        BY <3>3, <4>3 DEF Elem
    <3> QED
      BY <3>1, <3>2, <3>3
  <2>5. ASSUME NEW i \in x .. N PROVE g[i] = Elem(g, i)
    <3>1. CASE i = x
      BY <2>2, <2>4, <3>1 DEF e
    <3>2. CASE i # x
      <4>1. i \in x + 1 .. N
        BY <2>1, <3>2
      <4> QED
        BY <2>2, <2>3, <2>4, <4>1
    <3> QED
      BY <3>1, <3>2
  <2>6. g = [i \in x .. N |-> Elem(g, i)]
    BY <2>5, <2>7
  <2> QED
    BY <2>1, <2>6 DEF Part
<1>2. Part(0, [i \in N .. N |-> <<>>])
  <2>1. \A i \in N - 0 .. N : i = N
    OBVIOUS
  <2>2. N - 0 = N
    OBVIOUS
  <2> QED
    BY <2>1, <2>2
<1>3. T \in SUBSET Nat
  OBVIOUS
<1> HIDE DEF Part
<1>4. N \in T
  <2>1. 0 \in T /\ \A k \in 0 .. N - 1 : k \in T => k + 1 \in T
    BY <1>1, <1>2
  <2> HIDE DEF T
  <2>2. \A k \in 0 .. N : k \in T
    BY <1>3, <2>1, Upwards
  <2> QED
    BY <2>2
<1>5. PICK f : Part(N, f)
  BY <1>4
<1>6. N - N = 0
  OBVIOUS
<1> QED
  BY <1>5, <1>6 DEF Part, Chain

(* A recursion upwards: f[k] comes of f[k - 1] by h[k].                     *)
Stepped(N, S, s, h, f) ==
  f \in [0 .. N -> S] /\ f = [k \in 0 .. N |-> IF k = 0 THEN s ELSE h[k][f[k - 1]]]

LEMMA StepsExist ==
  ASSUME NEW N \in Nat, NEW S, NEW s \in S, NEW h \in [1 .. N -> [S -> S]]
  PROVE  \E f : Stepped(N, S, s, h, f)
<1> DEFINE Part(n, f) == f \in [0 .. n -> S] /\ f[0] = s /\ \A k \in 1 .. n : f[k] = h[k][f[k - 1]]
<1> DEFINE T == {n \in Nat : \E f : Part(n, f)}
<1>1. ASSUME NEW n \in 0 .. N - 1, NEW f, Part(n, f) PROVE \E g : Part(n + 1, g)
  <2> DEFINE e == h[n + 1][f[n]]
  <2> DEFINE g == [k \in 0 .. n + 1 |-> IF k = n + 1 THEN e ELSE f[k]]
  <2>1. e \in S
    <3>1. n + 1 \in 1 .. N /\ n \in 0 .. n
      OBVIOUS
    <3> QED
      BY <1>1, <3>1
  <2> HIDE DEF e
  <2>2. \A k \in 0 .. n : k \in 0 .. n + 1 /\ k # n + 1
    OBVIOUS
  <2>3. \A k \in 0 .. n + 1 : k = n + 1 \/ k \in 0 .. n
    OBVIOUS
  <2>4. n + 1 \in 0 .. n + 1
    OBVIOUS
  <2>5. g \in [0 .. n + 1 -> S] /\ g[n + 1] = e /\ \A k \in 0 .. n : g[k] = f[k]
    BY <1>1, <2>1, <2>2, <2>3, <2>4
  <2> HIDE DEF g
  <2>6. g[0] = s
    BY <1>1, <2>5
  <2>7. ASSUME NEW k \in 1 .. n + 1 PROVE g[k] = h[k][g[k - 1]]
    <3>1. CASE k = n + 1
      <4>1. k - 1 = n /\ n \in 0 .. n
        BY <3>1
      <4> QED
        BY <2>5, <3>1, <4>1 DEF e
    <3>2. CASE k # n + 1
      <4>1. k \in 1 .. n /\ k \in 0 .. n /\ k - 1 \in 0 .. n
        BY <3>2
      <4> QED
        BY <1>1, <2>5, <4>1
    <3> QED
      BY <3>1, <3>2
  <2> QED
    BY <2>5, <2>6, <2>7
<1>2. Part(0, [k \in 0 .. 0 |-> s])
  OBVIOUS
<1>3. T \in SUBSET Nat
  OBVIOUS
<1> HIDE DEF Part
<1>4. N \in T
  <2>1. 0 \in T /\ \A k \in 0 .. N - 1 : k \in T => k + 1 \in T
    BY <1>1, <1>2
  <2> HIDE DEF T
  <2>2. \A k \in 0 .. N : k \in T
    BY <1>3, <2>1, Upwards
  <2> QED
    BY <2>2
<1>5. PICK f : Part(N, f)
  BY <1>4
<1>6. ASSUME NEW k \in 0 .. N PROVE f[k] = IF k = 0 THEN s ELSE h[k][f[k - 1]]
  <2>1. k = 0 \/ k \in 1 .. N
    OBVIOUS
  <2> QED
    BY <1>5, <2>1 DEF Part
<1>7. f = [k \in 0 .. N |-> IF k = 0 THEN s ELSE h[k][f[k - 1]]] /\ f \in [0 .. N -> S]
  BY <1>5, <1>6 DEF Part
<1> QED
  BY <1>7 DEF Stepped

-----------------------------------------------------------------------------
(* One attribute, and how it stands in a message.                          *)

Attr == [type : Nat, value : Seq(Nat)]
Msgs == [upper : Nat, lower : Nat, length : Nat,
         payload : [1 .. MAX_PAYLOAD -> Nat], thrown : BOOLEAN]

Word(x, y) == 256 * x + y
Header(type, n) == <<type, 0>> \o htons(n)
Bytes(b) == Header(b.type, Len(b.value)) \o b.value

LEMMA ConcatIs ==
  ASSUME NEW s \in Seq(Nat), NEW t \in Seq(Nat)
  PROVE  /\ s \o t \in Seq(Nat) /\ Len(s) \in Nat /\ Len(t) \in Nat
         /\ Len(s \o t) = Len(s) + Len(t)
         /\ \A i \in 1 .. Len(s) + Len(t) : (s \o t)[i] = IF i <= Len(s) THEN s[i] ELSE t[i - Len(s)]
OBVIOUS

LEMMA HeadIs ==
  ASSUME NEW type \in Nat, NEW n \in Nat
  PROVE  /\ Header(type, n) \in Seq(Nat) /\ Len(Header(type, n)) = 4
         /\ Header(type, n)[1] = type /\ Header(type, n)[2] = 0
         /\ Word(Header(type, n)[3], Header(type, n)[4]) = n
<1> DEFINE x == n \div 256
<1> DEFINE y == n % 256
<1>1. x \in Nat /\ y \in Nat
  OBVIOUS
<1>2. 256 * x + y = n
  OBVIOUS
<1>3. htons(n) = <<x, y>>
  BY DEF htons
<1>4. Word(x, y) = n
  BY <1>2 DEF Word
<1> HIDE DEF x, y
<1>5. PICK u \in Nat, v \in Nat : u = x /\ v = y
  BY <1>1
<1>6. Header(type, n) = <<type, 0>> \o <<u, v>> /\ Word(u, v) = n
  BY <1>3, <1>4, <1>5 DEF Header
<1> DEFINE s == <<type, 0>>
<1> DEFINE t == <<u, v>>
<1>7. /\ s \in Seq(Nat) /\ Len(s) = 2 /\ s[1] = type /\ s[2] = 0
      /\ t \in Seq(Nat) /\ Len(t) = 2 /\ t[1] = u /\ t[2] = v
  OBVIOUS
<1> HIDE DEF s, t
<1> DEFINE c == s \o t
<1>8. /\ c \in Seq(Nat) /\ Len(c) = Len(s) + Len(t)
      /\ \A i \in 1 .. Len(s) + Len(t) : c[i] = IF i <= Len(s) THEN s[i] ELSE t[i - Len(s)]
  BY <1>7, ConcatIs
<1> HIDE DEF c
<1>9. Len(c) = 4 /\ c[1] = type /\ c[2] = 0 /\ c[3] = u /\ c[4] = v
  BY <1>7, <1>8
<1> QED
  BY <1>6, <1>8, <1>9 DEF c, s, t

LEMMA BytesAre ==
  ASSUME NEW b \in Attr
  PROVE  /\ Bytes(b) \in Seq(Nat) /\ Len(Bytes(b)) = 4 + Len(b.value) /\ Len(b.value) \in Nat
         /\ Bytes(b)[1] = b.type /\ Bytes(b)[2] = 0
         /\ Word(Bytes(b)[3], Bytes(b)[4]) = Len(b.value)
         /\ \A j \in 1 .. Len(b.value) : Bytes(b)[4 + j] = b.value[j]
<1> DEFINE n == Len(b.value)
<1> DEFINE h == Header(b.type, n)
<1> DEFINE c == h \o b.value
<1>1. n \in Nat
  BY DEF Attr
<1>2. b.type \in Nat /\ b.value \in Seq(Nat)
  BY DEF Attr
<1>3. /\ h \in Seq(Nat) /\ Len(h) = 4 /\ h[1] = b.type /\ h[2] = 0
      /\ Word(h[3], h[4]) = n
  BY <1>1, <1>2, HeadIs
<1> HIDE DEF h
<1>5. /\ c \in Seq(Nat) /\ Len(c) = Len(h) + n
      /\ \A i \in 1 .. Len(h) + n : c[i] = IF i <= Len(h) THEN h[i] ELSE b.value[i - Len(h)]
  BY <1>2, <1>3, ConcatIs
<1> HIDE DEF c
<1>6. \A i \in 1 .. 4 + n : c[i] = IF i <= 4 THEN h[i] ELSE b.value[i - 4]
  BY <1>3, <1>5
<1>7. c[1] = h[1] /\ c[2] = h[2] /\ c[3] = h[3] /\ c[4] = h[4]
  BY <1>1, <1>6
<1>8. \A j \in 1 .. n : c[4 + j] = b.value[j]
  <2>1. ASSUME NEW j \in 1 .. n PROVE c[4 + j] = b.value[j]
    <3>1. 4 + j \in 1 .. 4 + n /\ ~(4 + j <= 4) /\ 4 + j - 4 = j
      BY <1>1
    <3> QED
      BY <1>6, <3>1
  <2> QED
    BY <2>1
<1>9. Bytes(b) = c
  BY DEF Bytes, c, h, n
<1> QED
  BY <1>1, <1>3, <1>5, <1>7, <1>8, <1>9

(* Attribute b at offset o of message m.                                   *)
Stands(m, o, b) ==
  /\ m.payload[o + 1] = b.type /\ m.payload[o + 2] = 0
  /\ Word(m.payload[o + 3], m.payload[o + 4]) = Len(b.value)
  /\ \A j \in 1 .. Len(b.value) : m.payload[o + 4 + j] = b.value[j]

(* The attributes a fill message m, f[k] bytes the first k of them.        *)
Laid(m, a, f) ==
  /\ m \in Msgs /\ a \in Seq(Attr) /\ m.length <= MAX_PAYLOAD
  /\ f \in [0 .. Len(a) -> Nat] /\ f[0] = 0 /\ f[Len(a)] = m.length
  /\ \A k \in 0 .. Len(a) : f[k] <= m.length
  /\ \A k \in 1 .. Len(a) : f[k] = f[k - 1] + 4 + Len(a[k].value) /\ Stands(m, f[k - 1], a[k])
  /\ \A i \in m.length + 1 .. MAX_PAYLOAD : m.payload[i] = 0

LEMMA PutIs ==
  ASSUME NEW m \in Msgs, NEW b \in Attr, m.length + 4 + Len(b.value) <= MAX_PAYLOAD
  PROVE  LET p == Put(m, Bytes(b)) IN
         /\ p \in Msgs /\ p.upper = m.upper /\ p.lower = m.lower /\ p.thrown = m.thrown
         /\ p.length = m.length + 4 + Len(b.value)
         /\ \A i \in 1 .. m.length : p.payload[i] = m.payload[i]
         /\ Stands(p, m.length, b)
         /\ \A i \in p.length + 1 .. MAX_PAYLOAD : p.payload[i] = m.payload[i]
<1> DEFINE c == Bytes(b)
<1> DEFINE p == Put(m, c)
<1>0. PICK n \in Nat, L \in Nat : n = Len(b.value) /\ L = m.length
  BY BytesAre DEF Msgs
<1>1. /\ Len(c) = 4 + n /\ c[1] = b.type /\ c[2] = 0 /\ Word(c[3], c[4]) = n
      /\ \A j \in 1 .. n : c[4 + j] = b.value[j]
  BY <1>0, BytesAre
<1>2. m.payload \in [1 .. MAX_PAYLOAD -> Nat] /\ MAX_PAYLOAD \in Nat
  BY PayloadAssumption DEF Msgs
<1>3. DOMAIN c = 1 .. 4 + n /\ \A i \in 1 .. 4 + n : c[i] \in Nat
  <2>1. c \in Seq(Nat)
    BY BytesAre
  <2> HIDE DEF c
  <2> QED
    BY <1>1, <2>1
<1>4. L + 4 + n <= MAX_PAYLOAD
  BY <1>0
<1> HIDE DEF c
<1> DEFINE w == [i \in 1 .. MAX_PAYLOAD |-> IF i - L \in 1 .. 4 + n THEN c[i - L] ELSE m.payload[i]]
<1>5. w \in [1 .. MAX_PAYLOAD -> Nat]
  BY <1>2, <1>3
<1>6. \A i \in 1 .. MAX_PAYLOAD : w[i] = IF i - L \in 1 .. 4 + n THEN c[i - L] ELSE m.payload[i]
  OBVIOUS
<1>7. /\ p \in Msgs /\ p.upper = m.upper /\ p.lower = m.lower /\ p.thrown = m.thrown
      /\ p.length = L + 4 + n /\ p.payload = w
  <2>1. p = [m EXCEPT !.payload = w, !.length = L + Len(c)]
    BY <1>0, <1>3 DEF Put, Msgs
  <2>2. L + Len(c) = L + 4 + n
    BY <1>1
  <2> HIDE DEF w
  <2>3. p = [m EXCEPT !.payload = w, !.length = L + 4 + n]
    BY <2>1, <2>2
  <2> HIDE DEF p
  <2>4. m = [upper |-> m.upper, lower |-> m.lower, length |-> m.length,
             payload |-> m.payload, thrown |-> m.thrown]
        /\ m.upper \in Nat /\ m.lower \in Nat /\ m.thrown \in BOOLEAN
    BY DEF Msgs
  <2>5. p = [upper |-> m.upper, lower |-> m.lower, length |-> L + 4 + n,
             payload |-> w, thrown |-> m.thrown]
    BY <2>3, <2>4
  <2>6. L + 4 + n \in Nat
    OBVIOUS
  <2> QED
    BY <1>5, <2>4, <2>5, <2>6 DEF Msgs
<1> HIDE DEF w, p
<1>8. \A i \in 1 .. L : w[i] = m.payload[i]
  <2>1. \A i \in 1 .. L : i \in 1 .. MAX_PAYLOAD /\ ~(i - L \in 1 .. 4 + n)
    BY <1>2, <1>4
  <2> QED
    BY <1>6, <2>1
<1>9. ASSUME NEW j \in 1 .. 4 + n PROVE w[L + j] = c[j]
  <2>1. L + j \in 1 .. MAX_PAYLOAD /\ L + j - L = j
    BY <1>2, <1>4
  <2> QED
    BY <1>6, <2>1
<1>10. \A i \in L + 4 + n + 1 .. MAX_PAYLOAD : w[i] = m.payload[i]
  <2>1. \A i \in L + 4 + n + 1 .. MAX_PAYLOAD : i \in 1 .. MAX_PAYLOAD /\ ~(i - L \in 1 .. 4 + n)
    BY <1>2, <1>4
  <2> QED
    BY <1>6, <2>1
<1>11. Stands(p, L, b)
  <2>1. {1, 2, 3, 4} \subseteq 1 .. 4 + n
    OBVIOUS
  <2>2. w[L + 1] = c[1] /\ w[L + 2] = c[2] /\ w[L + 3] = c[3] /\ w[L + 4] = c[4]
    BY <1>9, <2>1
  <2>3. ASSUME NEW j \in 1 .. n PROVE w[L + 4 + j] = b.value[j]
    <3>1. 4 + j \in 1 .. 4 + n /\ L + (4 + j) = L + 4 + j
      OBVIOUS
    <3>2. w[L + (4 + j)] = c[4 + j]
      BY <1>9, <3>1
    <3> QED
      BY <1>1, <3>1, <3>2
  <2> QED
    BY <1>0, <1>1, <1>7, <2>2, <2>3 DEF Stands
<1> QED
  BY <1>0, <1>7, <1>8, <1>10, <1>11 DEF p, c

LEMMA PutLaid ==
  ASSUME NEW m, NEW a, NEW f, Laid(m, a, f), NEW b \in Attr,
         m.length + 4 + Len(b.value) <= MAX_PAYLOAD
  PROVE  \E g : Laid(Put(m, Bytes(b)), Append(a, b), g)
<1> DEFINE p == Put(m, Bytes(b))
<1> DEFINE N == Len(a)
<1> DEFINE e == Append(a, b)
<1> DEFINE g == [k \in 0 .. N + 1 |-> IF k = N + 1 THEN p.length ELSE f[k]]
<1>1. /\ p \in Msgs /\ p.length = m.length + 4 + Len(b.value)
      /\ \A i \in 1 .. m.length : p.payload[i] = m.payload[i]
      /\ Stands(p, m.length, b)
      /\ \A i \in p.length + 1 .. MAX_PAYLOAD : p.payload[i] = m.payload[i]
  BY PutIs DEF Laid
<1>2. /\ m \in Msgs /\ a \in Seq(Attr)
      /\ f \in [0 .. N -> Nat] /\ f[0] = 0 /\ f[N] = m.length
      /\ \A k \in 0 .. N : f[k] <= m.length
      /\ \A k \in 1 .. N : f[k] = f[k - 1] + 4 + Len(a[k].value) /\ Stands(m, f[k - 1], a[k])
      /\ \A i \in m.length + 1 .. MAX_PAYLOAD : m.payload[i] = 0
  BY DEF Laid
<1>3. N \in Nat /\ e \in Seq(Attr) /\ Len(e) = N + 1 /\ e[N + 1] = b /\ \A k \in 1 .. N : e[k] = a[k]
  BY <1>2
<1>4. m.length \in Nat /\ p.length \in Nat /\ Len(b.value) \in Nat
  BY <1>1, <1>2 DEF Msgs, Attr
<1> HIDE DEF p, N, e
<1>5. /\ g \in [0 .. N + 1 -> Nat] /\ g[N + 1] = p.length /\ \A k \in 0 .. N : g[k] = f[k]
  BY <1>2, <1>3, <1>4
<1> HIDE DEF g
<1>6. ASSUME NEW k \in 0 .. N + 1 PROVE g[k] <= p.length
  <2>1. k = N + 1 \/ k \in 0 .. N
    BY <1>3
  <2>2. \A j \in 0 .. N : f[j] \in Nat
    BY <1>2
  <2> QED
    BY <1>1, <1>2, <1>4, <1>5, <2>1, <2>2
<1>7. ASSUME NEW k \in 1 .. N + 1
      PROVE  g[k] = g[k - 1] + 4 + Len(e[k].value) /\ Stands(p, g[k - 1], e[k])
  <2>1. CASE k = N + 1
    <3>1. k - 1 = N /\ N \in 0 .. N
      BY <1>3, <2>1
    <3>2. g[k - 1] = m.length /\ e[k] = b
      BY <1>2, <1>3, <1>5, <2>1, <3>1
    <3> QED
      BY <1>1, <1>5, <2>1, <3>2
  <2>2. CASE k # N + 1
    <3>1. k \in 1 .. N /\ k \in 0 .. N /\ k - 1 \in 0 .. N
      BY <1>3, <2>2
    <3>2. g[k] = f[k] /\ g[k - 1] = f[k - 1] /\ e[k] = a[k] /\ f[k - 1] \in Nat /\ f[k] <= m.length
      BY <1>2, <1>3, <1>5, <3>1
    <3>3. f[k] = f[k - 1] + 4 + Len(a[k].value) /\ Stands(m, f[k - 1], a[k])
      BY <1>2, <3>1
    <3>4. Len(a[k].value) \in Nat
      BY <1>2, <3>1 DEF Attr
    <3> DEFINE o == f[k - 1]
    <3> DEFINE n == Len(a[k].value)
    <3>5. o \in Nat /\ n \in Nat /\ o + 4 + n <= m.length
      BY <3>2, <3>3, <3>4
    <3> HIDE DEF o, n
    <3>6. \A j \in 1 .. 4 + n : p.payload[o + j] = m.payload[o + j]
      <4>1. \A j \in 1 .. 4 + n : o + j \in 1 .. m.length
        BY <1>4, <3>5
      <4> QED
        BY <1>1, <4>1
    <3>7. Stands(m, o, a[k]) /\ n = Len(a[k].value)
      BY <3>3 DEF o, n
    <3>8. {1, 2, 3, 4} \subseteq 1 .. 4 + n
      BY <3>5
    <3>9. \A j \in 1 .. n : 4 + j \in 1 .. 4 + n /\ o + (4 + j) = o + 4 + j
      BY <3>5
    <3>10. \A j \in 1 .. n : p.payload[o + 4 + j] = m.payload[o + 4 + j]
      BY <3>6, <3>9
    <3>11. Stands(p, o, a[k])
      BY <3>6, <3>7, <3>8, <3>10 DEF Stands
    <3> QED
      BY <3>2, <3>3, <3>11 DEF o
  <2> QED
    BY <2>1, <2>2
<1>8. ASSUME NEW i \in p.length + 1 .. MAX_PAYLOAD PROVE p.payload[i] = 0
  <2>1. i \in m.length + 1 .. MAX_PAYLOAD
    BY <1>1, <1>4
  <2> QED
    BY <1>1, <1>2, <2>1
<1>9. g[0] = 0
  <2>1. 0 \in 0 .. N
    BY <1>3
  <2> QED
    BY <1>2, <1>5, <2>1
<1>10. p.length <= MAX_PAYLOAD
  BY <1>1
<1>11. Laid(p, e, g)
  BY <1>1, <1>3, <1>5, <1>6, <1>7, <1>8, <1>9, <1>10 DEF Laid
<1> QED
  BY <1>11 DEF p, e
-----------------------------------------------------------------------------
(* Reading follows the layout.                                             *)

(* A list that is read from its end.                                       *)
LEMMA ListIs ==
  ASSUME NEW N \in Nat, NEW S, NEW x \in Seq(S), Len(x) = N, NEW g, g[N] = <<>>,
         \A k \in 0 .. N - 1 : g[k] = <<x[k + 1]>> \o g[k + 1]
  PROVE  g[0] = x
<1> DEFINE P(k) == g[k] \in Seq(S) /\ Len(g[k]) = N - k /\ \A j \in 1 .. N - k : g[k][j] = x[k + j]
<1> DEFINE T == {k \in Nat : k <= N => P(k)}
<1>1. P(N)
  <2>1. <<>> \in Seq(S) /\ Len(<<>>) = 0 /\ N - N = 0 /\ 1 .. 0 = {}
    OBVIOUS
  <2> QED
    BY <2>1
<1>2. ASSUME NEW k \in 0 .. N - 1, P(k + 1) PROVE P(k)
  <2>1. PICK t \in Seq(S) : t = g[k + 1] /\ Len(t) = N - (k + 1) /\ \A j \in 1 .. N - (k + 1) : t[j] = x[k + 1 + j]
    BY <1>2
  <2>2. PICK c \in S : c = x[k + 1]
    OBVIOUS
  <2>3. g[k] = <<c>> \o t
    BY <2>1, <2>2
  <2>4. /\ <<c>> \o t \in Seq(S) /\ Len(<<c>> \o t) = N - k
        /\ (<<c>> \o t)[1] = c /\ \A j \in 2 .. N - k : (<<c>> \o t)[j] = t[j - 1]
    BY <2>1
  <2>5. ASSUME NEW j \in 1 .. N - k PROVE g[k][j] = x[k + j]
    <3>1. CASE j = 1
      BY <2>2, <2>3, <2>4, <3>1
    <3>2. CASE j # 1
      <4>1. j \in 2 .. N - k /\ j - 1 \in 1 .. N - (k + 1) /\ k + 1 + (j - 1) = k + j
        BY <3>2
      <4>2. t[j - 1] = x[k + 1 + (j - 1)]
        BY <2>1, <4>1
      <4> QED
        BY <2>3, <2>4, <4>1, <4>2
    <3> QED
      BY <3>1, <3>2
  <2> QED
    BY <2>3, <2>4, <2>5
<1>3. T \in SUBSET Nat /\ N \in T
  BY <1>1
<1>4. \A k \in 0 .. N - 1 : k + 1 \in T => k \in T
  <2> HIDE DEF P
  <2> QED
    BY <1>2
<1> HIDE DEF T
<1>5. 0 \in T
  BY <1>3, <1>4, Downwards
<1>6. P(0)
  BY <1>5 DEF T
<1>7. PICK t \in Seq(S) : t = g[0]
  BY <1>6
<1>8. Len(t) = Len(x) /\ \A j \in 1 .. Len(t) : t[j] = x[j]
  <2>1. N - 0 = N /\ \A j \in 1 .. N : 0 + j = j
    OBVIOUS
  <2> QED
    BY <1>6, <1>7, <2>1
<1>9. t = x
  BY <1>8
<1> QED
  BY <1>7, <1>9

(* g[k] is what entries k, k + 1, ... of a list of N entries yield.         *)
Gathers(N, x, g) == g[N] = <<>> /\ \A k \in 0 .. N - 1 : g[k] = x[k] \o g[k + 1]

LEMMA SameList ==
  ASSUME NEW N \in Nat, NEW x, NEW g, NEW h, Gathers(N, x, g), Gathers(N, x, h)
  PROVE  g[0] = h[0]
<1> DEFINE T == {k \in Nat : g[k] = h[k]}
<1>1. T \in SUBSET Nat /\ N \in T
  BY DEF Gathers
<1>2. ASSUME NEW k \in 0 .. N - 1, k + 1 \in T PROVE k \in T
  <2>1. g[k + 1] = h[k + 1]
    BY <1>2
  <2>2. g[k] = x[k] \o g[k + 1] /\ h[k] = x[k] \o h[k + 1]
    BY DEF Gathers
  <2>3. g[k] = h[k]
    BY <2>1, <2>2, Zenon
  <2> QED
    BY <2>3
<1> HIDE DEF T
<1>3. 0 \in T
  BY <1>1, <1>2, Downwards
<1> QED
  BY <1>3 DEF T

(* A recursion over the places of a list.                                  *)
Listed(N, x, f) == f = [k \in 0 .. N |-> IF k = N THEN <<>> ELSE x[k] \o f[k + 1]]

LEMMA ListExists ==
  ASSUME NEW N \in Nat, NEW x
  PROVE  \E f : Listed(N, x, f)
<1> DEFINE d == [k \in 0 .. N - 1 |-> k + 1]
<1>1. PICK f : Chain(N, x, d, f)
  BY ChainExists
<1>2. \A k \in 0 .. N : k # N => d[k] = k + 1 /\ d[k] \in k + 1 .. N
  OBVIOUS
<1> HIDE DEF d
<1>3. f = [k \in 0 .. N |-> IF k = N THEN <<>> ELSE x[k] \o f[k + 1]]
  BY <1>1, <1>2 DEF Chain
<1> QED
  BY <1>3 DEF Listed

LEMMA ListedGathers ==
  ASSUME NEW N \in Nat, NEW x, NEW f, Listed(N, x, f)
  PROVE  Gathers(N, x, f)
<1>1. N \in 0 .. N /\ \A k \in 0 .. N - 1 : k \in 0 .. N /\ k # N
  OBVIOUS
<1> QED
  BY <1>1 DEF Listed, Gathers

(* Attribute k as the accessors find it.                                   *)
Placed(m, a, f, k) ==
  /\ f[k - 1] \in 0 .. m.length - 1 /\ f[k - 1] + 4 + Len(a[k].value) = f[k]
  /\ f[k] \in Nat /\ f[k] <= m.length /\ f[k - 1] + 4 <= m.length
  /\ attr_type(m, f[k - 1]) = a[k].type /\ attr_length(m, f[k - 1]) = Len(a[k].value)
  /\ After(m, f[k - 1]) = f[k]
  /\ a[k] \in Attr

LEMMA LaidAt ==
  ASSUME NEW m, NEW a, NEW f, Laid(m, a, f), NEW k \in 1 .. Len(a)
  PROVE  Placed(m, a, f, k)
<1>1. Len(a) \in Nat /\ a[k] \in Attr /\ m.length \in Nat
  BY DEF Laid, Msgs
<1>2. PICK o \in Nat, n \in Nat : o = f[k - 1] /\ n = Len(a[k].value)
  <2>1. k - 1 \in 0 .. Len(a)
    BY <1>1
  <2>2. Len(a[k].value) \in Nat
    BY <1>1 DEF Attr
  <2>3. f[k - 1] \in Nat
    BY <2>1 DEF Laid
  <2> QED
    BY <2>2, <2>3
<1>3. f[k] = o + 4 + n /\ f[k] <= m.length /\ f[k] \in Nat /\ Stands(m, o, a[k])
  BY <1>1, <1>2 DEF Laid
<1>4. attr_type(m, o) = a[k].type
  <2>1. o + 1 + 1 = o + 2
    OBVIOUS
  <2>2. m.payload[o + 1] = a[k].type /\ m.payload[o + 2] = 0 /\ a[k].type \in Nat
    BY <1>1, <1>3 DEF Stands, Attr
  <2> QED
    BY <2>1, <2>2 DEF attr_type, At
<1>5. attr_length(m, o) = n
  <2>1. o + 2 + 1 = o + 3 /\ o + 3 + 1 = o + 4
    OBVIOUS
  <2>2. Word(m.payload[o + 3], m.payload[o + 4]) = n
    BY <1>2, <1>3 DEF Stands
  <2> QED
    BY <2>1, <2>2 DEF attr_length, At, Word
<1>6. After(m, o) = f[k]
  BY <1>3, <1>5 DEF After
<1>7. o \in 0 .. m.length - 1 /\ o + 4 <= m.length
  BY <1>1, <1>3
<1> QED
  BY <1>1, <1>2, <1>3, <1>4, <1>5, <1>6, <1>7 DEF Placed

LEMMA SameText ==
  ASSUME NEW s \in Seq(Nat), NEW t \in Seq(Nat), Len(s) = Len(t),
         \A i \in 1 .. Len(s) : s[i] = t[i]
  PROVE  s = t
OBVIOUS

LEMMA PayloadText ==
  ASSUME NEW N \in Nat, NEW p \in [1 .. N -> Nat]
  PROVE  p \in Seq(Nat) /\ Len(p) = N
OBVIOUS

(* A part of a payload that is a given text.                               *)
LEMMA PartIs ==
  ASSUME NEW p \in Seq(Nat), NEW o \in Nat, NEW v \in Seq(Nat), NEW n \in Nat,
         n = Len(v), o + 4 + n <= Len(p), \A j \in 1 .. n : p[o + 4 + j] = v[j]
  PROVE  SubSeq(p, o + 5, o + 4 + n) = v
<1> DEFINE q == SubSeq(p, o + 5, o + 4 + n)
<1>1. q \in Seq(Nat) /\ Len(q) = n
  OBVIOUS
<1>2. ASSUME NEW j \in 1 .. n PROVE q[j] = v[j]
  <2>1. q[j] = p[o + 5 + j - 1] /\ o + 5 + j - 1 = o + 4 + j
    OBVIOUS
  <2> QED
    BY <2>1
<1> HIDE DEF q
<1>3. q = v
  BY <1>1, <1>2, SameText
<1> QED
  BY <1>3 DEF q

(* The iterator, which goes on behind each attribute it accepts.            *)
Refused(m, i) == i + 4 > m.length \/ ~attr_validate(m, i) \/ After(m, i) > m.length

LEMMA AfterIn ==
  ASSUME NEW m \in Msgs, m.length <= MAX_PAYLOAD, NEW i \in 0 .. m.length - 1,
         ~(i + 4 > m.length), ~(After(m, i) > m.length)
  PROVE  After(m, i) \in i + 1 .. m.length
<1>1. PICK L \in Nat : L = m.length
  BY DEF Msgs
<1>2. i + 2 + 1 \in 1 .. MAX_PAYLOAD /\ i + 3 + 1 \in 1 .. MAX_PAYLOAD
  BY <1>1, PayloadAssumption
<1>3. PICK x \in Nat, y \in Nat : x = At(m, i + 2) /\ y = At(m, i + 3)
  BY <1>2 DEF At, Msgs
<1>4. attr_length(m, i) = 256 * x + y
  BY <1>3 DEF attr_length
<1>5. PICK z \in Nat : z = attr_length(m, i)
  BY <1>4
<1> QED
  BY <1>1, <1>5 DEF After

LEMMA WalkIs ==
  ASSUME NEW m \in Msgs, m.length <= MAX_PAYLOAD, validate(m)
  PROVE  \E f : /\ Walk(m) = f[0] /\ f[m.length] = <<>>
                /\ \A i \in 0 .. m.length - 1 : ~Refused(m, i) => f[i] = <<i>> \o f[After(m, i)]
<1> DEFINE L == m.length
<1> DEFINE IsFrom(f) ==
      f = [o \in 0 .. m.length |->
             IF o = m.length THEN <<>>
             ELSE IF o + 4 > m.length \/ ~attr_validate(m, o) \/ After(m, o) > m.length THEN <<-1>>
             ELSE <<o>> \o f[After(m, o)]]
<1> DEFINE Elem(f, i) == IF i = L THEN <<>> ELSE IF Refused(m, i) THEN <<-1>> ELSE <<i>> \o f[After(m, i)]
<1>0. L \in Nat
  BY DEF Msgs
<1>1. \A f : IsFrom(f) <=> f = [o \in 0 .. L |-> Elem(f, o)]
  BY DEF Refused
<1>2. \E f : IsFrom(f)
  <2> DEFINE o == [i \in 0 .. L - 1 |-> IF Refused(m, i) THEN <<-1>> ELSE <<i>>]
  <2> DEFINE d == [i \in 0 .. L - 1 |-> IF Refused(m, i) THEN i ELSE After(m, i)]
  <2>1. PICK f : Chain(L, o, d, f)
    BY <1>0, ChainExists
  <2>2. ASSUME NEW i \in 0 .. L - 1
        PROVE  /\ Refused(m, i) => d[i] \notin i + 1 .. L /\ o[i] = <<-1>>
               /\ ~Refused(m, i) => d[i] \in i + 1 .. L /\ d[i] = After(m, i) /\ o[i] = <<i>>
    <3>1. CASE Refused(m, i)
      BY <3>1
    <3>2. CASE ~Refused(m, i)
      <4>2. After(m, i) \in i + 1 .. m.length
        BY <3>2, AfterIn DEF Refused
      <4> QED
        BY <3>2, <4>2
    <3> QED
      BY <3>1, <3>2
  <2> HIDE DEF o, d
  <2>3. f = [i \in 0 .. L |-> IF i = L THEN <<>> ELSE IF d[i] \in i + 1 .. L THEN o[i] \o f[d[i]] ELSE o[i]]
    BY <2>1 DEF Chain
  <2>4. ASSUME NEW i \in 0 .. L
        PROVE  Elem(f, i) = IF i = L THEN <<>> ELSE IF d[i] \in i + 1 .. L THEN o[i] \o f[d[i]] ELSE o[i]
    <3>1. i = L \/ i \in 0 .. L - 1
      BY <1>0
    <3> QED
      BY <2>2, <3>1
  <2> HIDE DEF Elem
  <2>5. f = [i \in 0 .. L |-> Elem(f, i)]
    BY <2>3, <2>4
  <2> QED
    BY <1>1, <2>5
<1> DEFINE F == CHOOSE f : IsFrom(f)
<1>3. Walk(m) = F[0]
  BY Zenon DEF Walk
<1> HIDE DEF IsFrom
<1>4. IsFrom(F)
  BY <1>2, Zenon
<1> HIDE DEF F
<1>5. \A i \in 0 .. L : F[i] = Elem(F, i)
  BY <1>1, <1>4
<1>6. F[L] = <<>>
  <2>1. L \in 0 .. L /\ Elem(F, L) = <<>>
    BY <1>0
  <2> HIDE DEF Elem
  <2> QED
    BY <1>5, <2>1
<1>7. ASSUME NEW i \in 0 .. L - 1, ~Refused(m, i) PROVE F[i] = <<i>> \o F[After(m, i)]
  <2>1. i \in 0 .. L /\ i # L
    BY <1>0
  <2> QED
    BY <1>5, <1>7, <2>1
<1> QED
  BY <1>3, <1>6, <1>7
(* What an attribute of the chat is: its value is no longer than its limit, *)
(* and a text has no NUL.                                                  *)
Fine(b) ==
  \/ /\ b.type \in DOMAIN Limit /\ Len(b.value) <= Limit[b.type]
     /\ \A j \in 1 .. Len(b.value) : b.value[j] # 0
  \/ b.type = CLIENT_COUNT /\ Len(b.value) = 2

LEMMA FineAccepted ==
  ASSUME NEW m, NEW a, NEW f, Laid(m, a, f), NEW k \in 1 .. Len(a), Fine(a[k])
  PROVE  ~Refused(m, f[k - 1])
<1>1. /\ f[k - 1] + 4 <= m.length /\ attr_type(m, f[k - 1]) = a[k].type
      /\ attr_length(m, f[k - 1]) = Len(a[k].value) /\ After(m, f[k - 1]) = f[k]
      /\ f[k] <= m.length /\ f[k] \in Nat /\ f[k - 1] \in 0 .. m.length - 1
  BY LaidAt DEF Placed
<1>2. m.length \in Nat
  BY DEF Laid, Msgs
<1>3. attr_validate(m, f[k - 1])
  BY <1>1 DEF attr_validate, Fine
<1>4. ~(f[k - 1] + 4 > m.length) /\ ~(f[k] > m.length)
  BY <1>1, <1>2
<1> QED
  BY <1>1, <1>3, <1>4 DEF Refused

LEMMA WalkLaid ==
  ASSUME NEW m, NEW a, NEW f, Laid(m, a, f), validate(m), \A k \in 1 .. Len(a) : Fine(a[k])
  PROVE  Walk(m) = [k \in 1 .. Len(a) |-> f[k - 1]]
<1> DEFINE N == Len(a)
<1> DEFINE x == [k \in 1 .. N |-> f[k - 1]]
<1>1. /\ N \in Nat /\ m \in Msgs /\ m.length <= MAX_PAYLOAD /\ f[0] = 0 /\ f[N] = m.length
      /\ \A k \in 0 .. N : f[k] \in Nat
  BY SMTT(30) DEF Laid
<1>2. PICK F : /\ Walk(m) = F[0] /\ F[m.length] = <<>>
               /\ \A i \in 0 .. m.length - 1 : ~Refused(m, i) => F[i] = <<i>> \o F[After(m, i)]
  BY <1>1, WalkIs
<1> DEFINE g == [k \in 0 .. N |-> F[f[k]]]
<1>3. ASSUME NEW k \in 0 .. N - 1 PROVE g[k] = <<x[k + 1]>> \o g[k + 1]
  <2>1. k + 1 \in 1 .. N /\ k + 1 - 1 = k /\ k \in 0 .. N /\ k + 1 \in 0 .. N
    BY <1>1
  <2>2. f[k] \in 0 .. m.length - 1 /\ After(m, f[k]) = f[k + 1] /\ ~Refused(m, f[k])
    BY <2>1, LaidAt, FineAccepted DEF Placed
  <2>3. x[k + 1] = f[k]
    BY <2>1
  <2> QED
    BY <1>2, <2>1, <2>2, <2>3
<1>4. x \in Seq(Nat) /\ Len(x) = N
  <2>1. \A k \in 1 .. N : k - 1 \in 0 .. N
    BY <1>1
  <2> QED
    BY <1>1, <2>1
<1>5. g[N] = <<>> /\ g[0] = F[0]
  BY <1>1, <1>2
<1> HIDE DEF x, g, N
<1>6. g[0] = x
  BY <1>1, <1>3, <1>4, <1>5, ListIs
<1> QED
  BY <1>2, <1>5, <1>6 DEF x, N
(* The Elixir client goes on the same way.                                 *)
Attributes == {USERNAME, MESSAGE, REASON, CLIENT_COUNT}
Unread(m, i) == i + 4 > m.length \/ attr_type(m, i) \notin Attributes \/ After(m, i) > m.length
ReadAt(m, i) == [type |-> attr_type(m, i), value |-> SubSeq(m.payload, i + 5, After(m, i))]

LEMMA ExIs ==
  ASSUME NEW m \in Msgs, m.length <= MAX_PAYLOAD
  PROVE  \E f : /\ ex_deserialize(m) = f[0] /\ f[m.length] = <<>>
                /\ \A i \in 0 .. m.length - 1 : ~Unread(m, i) => f[i] = <<ReadAt(m, i)>> \o f[After(m, i)]
<1> DEFINE L == m.length
<1> DEFINE IsFrom(f) ==
      f = [o \in 0 .. m.length |->
             IF o = m.length THEN <<>>
             ELSE IF \/ o + 4 > m.length
                     \/ attr_type(m, o) \notin {USERNAME, MESSAGE, REASON, CLIENT_COUNT}
                     \/ After(m, o) > m.length
                  THEN <<Raised>>
             ELSE <<[type |-> attr_type(m, o), value |-> SubSeq(m.payload, o + 5, After(m, o))]>>
                    \o f[After(m, o)]]
<1> DEFINE Elem(f, i) == IF i = L THEN <<>> ELSE IF Unread(m, i) THEN <<Raised>> ELSE <<ReadAt(m, i)>> \o f[After(m, i)]
<1>0. L \in Nat
  BY DEF Msgs
<1>1. \A f : IsFrom(f) <=> f = [o \in 0 .. L |-> Elem(f, o)]
  BY DEF Unread, ReadAt, Attributes
<1>2. \E f : IsFrom(f)
  <2> DEFINE o == [i \in 0 .. L - 1 |-> IF Unread(m, i) THEN <<Raised>> ELSE <<ReadAt(m, i)>>]
  <2> DEFINE d == [i \in 0 .. L - 1 |-> IF Unread(m, i) THEN i ELSE After(m, i)]
  <2>1. PICK f : Chain(L, o, d, f)
    BY <1>0, ChainExists
  <2>2. ASSUME NEW i \in 0 .. L - 1
        PROVE  /\ Unread(m, i) => d[i] \notin i + 1 .. L /\ o[i] = <<Raised>>
               /\ ~Unread(m, i) => d[i] \in i + 1 .. L /\ d[i] = After(m, i) /\ o[i] = <<ReadAt(m, i)>>
    <3>1. CASE Unread(m, i)
      BY <3>1
    <3>2. CASE ~Unread(m, i)
      <4>1. After(m, i) \in i + 1 .. m.length
        BY <3>2, AfterIn DEF Unread
      <4> QED
        BY <3>2, <4>1
    <3> QED
      BY <3>1, <3>2
  <2> HIDE DEF o, d
  <2>3. f = [i \in 0 .. L |-> IF i = L THEN <<>> ELSE IF d[i] \in i + 1 .. L THEN o[i] \o f[d[i]] ELSE o[i]]
    BY <2>1 DEF Chain
  <2>4. ASSUME NEW i \in 0 .. L
        PROVE  Elem(f, i) = IF i = L THEN <<>> ELSE IF d[i] \in i + 1 .. L THEN o[i] \o f[d[i]] ELSE o[i]
    <3>1. i = L \/ i \in 0 .. L - 1
      BY <1>0
    <3> QED
      BY <2>2, <3>1
  <2> HIDE DEF Elem
  <2>5. f = [i \in 0 .. L |-> Elem(f, i)]
    BY <2>3, <2>4
  <2> QED
    BY <1>1, <2>5
<1> DEFINE F == CHOOSE f : IsFrom(f)
<1>3. ex_deserialize(m) = F[0]
  BY Zenon DEF ex_deserialize
<1> HIDE DEF IsFrom
<1>4. IsFrom(F)
  BY <1>2, Zenon
<1> HIDE DEF F
<1>5. \A i \in 0 .. L : F[i] = Elem(F, i)
  BY <1>1, <1>4
<1>6. F[L] = <<>>
  <2>1. L \in 0 .. L /\ Elem(F, L) = <<>>
    BY <1>0
  <2> HIDE DEF Elem
  <2> QED
    BY <1>5, <2>1
<1>7. ASSUME NEW i \in 0 .. L - 1, ~Unread(m, i) PROVE F[i] = <<ReadAt(m, i)>> \o F[After(m, i)]
  <2>1. i \in 0 .. L /\ i # L
    BY <1>0
  <2> QED
    BY <1>5, <1>7, <2>1
<1> QED
  BY <1>3, <1>6, <1>7

LEMMA ExLaid ==
  ASSUME NEW m, NEW a, NEW f, Laid(m, a, f), \A k \in 1 .. Len(a) : Fine(a[k])
  PROVE  ex_deserialize(m) = a
<1> DEFINE N == Len(a)
<1>1. /\ N \in Nat /\ m \in Msgs /\ m.length <= MAX_PAYLOAD /\ f[0] = 0 /\ f[N] = m.length
      /\ \A k \in 0 .. N : f[k] \in Nat
      /\ a \in Seq(Attr)
  BY SMTT(30) DEF Laid
<1>2. PICK F : /\ ex_deserialize(m) = F[0] /\ F[m.length] = <<>>
               /\ \A i \in 0 .. m.length - 1 : ~Unread(m, i) => F[i] = <<ReadAt(m, i)>> \o F[After(m, i)]
  BY <1>1, ExIs
<1> DEFINE g == [k \in 0 .. N |-> F[f[k]]]
<1>3. ASSUME NEW k \in 0 .. N - 1 PROVE g[k] = <<a[k + 1]>> \o g[k + 1]
  <2>1. k + 1 \in 1 .. N /\ k + 1 - 1 = k /\ k \in 0 .. N /\ k + 1 \in 0 .. N
    BY <1>1
  <2>2. PICK o \in Nat, n \in Nat : o = f[k] /\ n = Len(a[k + 1].value)
    <3>1. f[k] \in Nat /\ a[k + 1] \in Attr
      BY <1>1, <2>1
    <3>2. Len(a[k + 1].value) \in Nat
      BY <3>1 DEF Attr
    <3> QED
      BY <3>1, <3>2
  <2>3. /\ o \in 0 .. m.length - 1 /\ After(m, o) = f[k + 1] /\ attr_type(m, o) = a[k + 1].type
        /\ f[k + 1] = o + 4 + n /\ f[k + 1] <= m.length /\ a[k + 1] \in Attr
        /\ ~Refused(m, o)
    BY <2>1, <2>2, LaidAt, FineAccepted DEF Placed
  <2>4. a[k + 1].type \in Attributes
    BY <2>1 DEF Fine, Attributes, Limit
  <2>5. ~Unread(m, o)
    BY <2>3, <2>4 DEF Refused, Unread
  <2>6. SubSeq(m.payload, o + 5, o + 4 + n) = a[k + 1].value
    <3>0. MAX_PAYLOAD \in Nat /\ m.length \in Nat /\ m.payload \in [1 .. MAX_PAYLOAD -> Nat]
      BY <1>1, PayloadAssumption DEF Msgs
    <3>1. m.payload \in Seq(Nat) /\ Len(m.payload) = MAX_PAYLOAD
      BY <3>0, PayloadText
    <3>2. o + 4 + n <= MAX_PAYLOAD
      BY <1>1, <2>3, <3>0
    <3>3. \A j \in 1 .. n : m.payload[o + 4 + j] = a[k + 1].value[j]
      <4>1. Stands(m, f[k + 1 - 1], a[k + 1])
        BY <2>1 DEF Laid
      <4>2. Stands(m, o, a[k + 1])
        BY <2>1, <2>2, <4>1
      <4> QED
        BY <2>2, <4>2 DEF Stands
    <3>4. PICK v \in Seq(Nat) : v = a[k + 1].value
      BY <2>3 DEF Attr
    <3>5. PICK p \in Seq(Nat) : p = m.payload /\ Len(p) = MAX_PAYLOAD
      BY <3>1
    <3>6. n = Len(v) /\ \A j \in 1 .. n : p[o + 4 + j] = v[j]
      BY <2>2, <3>3, <3>4, <3>5
    <3>7. SubSeq(p, o + 5, o + 4 + n) = v
      <4>1. o + 4 + n <= Len(p)
        BY <3>2, <3>5
      <4> QED
        BY <3>6, <4>1, PartIs
    <3> QED
      BY <3>4, <3>5, <3>7
  <2>7. ReadAt(m, o) = a[k + 1]
    BY <2>3, <2>6 DEF ReadAt, Attr
  <2> QED
    BY <1>2, <2>1, <2>2, <2>3, <2>5, <2>7
<1>4. g[N] = <<>> /\ g[0] = F[0]
  BY <1>1, <1>2
<1> HIDE DEF g, N
<1>5. g[0] = a
  BY <1>1, <1>3, <1>4, ListIs DEF N
<1> QED
  BY <1>2, <1>4, <1>5
-----------------------------------------------------------------------------
(* A value as a C string: with what stands behind it up to the next NUL.    *)

LEMMA EndIs ==
  ASSUME NEW m \in Msgs, NEW o \in Nat, NEW e \in o .. MAX_PAYLOAD - 1, m.payload[e + 1] = 0,
         \A i \in o .. e - 1 : m.payload[i + 1] # 0
  PROVE  c_str(m, o) = SubSeq(m.payload, o + 1, e)
<1> DEFINE nuls == {i \in o .. MAX_PAYLOAD - 1 : At(m, i) = 0}
<1> DEFINE end == CHOOSE i \in nuls : \A j \in nuls : i <= j
<1>0. MAX_PAYLOAD \in Nat /\ e \in Nat
  BY PayloadAssumption
<1>1. e \in nuls
  BY DEF At
<1>2. ASSUME NEW j \in nuls PROVE j \in Nat /\ e <= j
  <2>1. j \in o .. MAX_PAYLOAD - 1 /\ m.payload[j + 1] = 0
    BY DEF At
  <2>2. ~(j \in o .. e - 1)
    BY <2>1
  <2> QED
    BY <1>0, <2>1, <2>2
<1>3. c_str(m, o) = IF nuls = {} THEN SubSeq(m.payload, o + 1, MAX_PAYLOAD) \o <<-1>>
                    ELSE SubSeq(m.payload, o + 1, end)
  BY Zenon DEF c_str
<1> HIDE DEF nuls
<1>4. end \in nuls /\ \A j \in nuls : end <= j
  <2>1. \E i \in nuls : \A j \in nuls : i <= j
    BY <1>1, <1>2
  <2> QED
    BY <2>1, Zenon
<1> HIDE DEF end
<1>5. end = e
  <2>1. end \in Nat /\ e <= end /\ end <= e
    BY <1>1, <1>2, <1>4
  <2> QED
    BY <1>0, <2>1
<1> QED
  BY <1>1, <1>3, <1>5

LEMMA NoEnd ==
  ASSUME NEW m \in Msgs, NEW o \in Nat, \A i \in o .. MAX_PAYLOAD - 1 : m.payload[i + 1] # 0
  PROVE  c_str(m, o) = SubSeq(m.payload, o + 1, MAX_PAYLOAD) \o <<-1>>
<1>1. {i \in o .. MAX_PAYLOAD - 1 : At(m, i) = 0} = {}
  BY DEF At
<1> QED
  BY <1>1 DEF c_str

Behind(m, a, k) == IF k < Len(a) THEN <<a[k + 1].type>>
                   ELSE IF m.length = MAX_PAYLOAD THEN <<-1>> ELSE <<>>

LEMMA StringLaid ==
  ASSUME NEW m, NEW a, NEW f, Laid(m, a, f), NEW k \in 1 .. Len(a),
         \A j \in 1 .. Len(a[k].value) : a[k].value[j] # 0,
         k < Len(a) => a[k + 1].type # 0
  PROVE  c_str(m, f[k - 1] + 4) = a[k].value \o Behind(m, a, k)
<1>1. /\ m \in Msgs /\ a \in Seq(Attr) /\ Len(a) \in Nat /\ f[Len(a)] = m.length
      /\ m.length \in Nat /\ m.length <= MAX_PAYLOAD /\ MAX_PAYLOAD \in Nat
      /\ \A i \in m.length + 1 .. MAX_PAYLOAD : m.payload[i] = 0
  <2>1. m \in Msgs /\ a \in Seq(Attr) /\ f[Len(a)] = m.length /\ m.length <= MAX_PAYLOAD
        /\ \A i \in m.length + 1 .. MAX_PAYLOAD : m.payload[i] = 0
    BY DEF Laid
  <2>2. m.length \in Nat
    BY <2>1 DEF Msgs
  <2>3. Len(a) \in Nat
    BY <2>1
  <2>4. MAX_PAYLOAD \in Nat
    BY PayloadAssumption
  <2> QED
    BY <2>1, <2>2, <2>3, <2>4
<1>2. PICK v \in Seq(Nat) : v = a[k].value
  <2>1. a[k] \in Attr
    BY LaidAt DEF Placed
  <2> QED
    BY <2>1 DEF Attr
<1>3. PICK p \in Seq(Nat) : p = m.payload /\ Len(p) = MAX_PAYLOAD
  <2>1. m.payload \in [1 .. MAX_PAYLOAD -> Nat]
    BY <1>1 DEF Msgs
  <2> QED
    BY <1>1, <2>1, PayloadText
<1>4. PICK n \in Nat : n = Len(v)
  BY <1>2
<1>5. PICK o \in Nat : o = f[k - 1]
  BY <1>1, LaidAt DEF Placed
<1>6. /\ f[k] = o + 4 + n /\ o + 4 + n <= m.length
      /\ \A j \in 1 .. n : p[o + 4 + j] = v[j]
  <2>1. Stands(m, o, a[k])
    <3>1. Stands(m, f[k - 1], a[k])
      BY DEF Laid
    <3> QED
      BY <1>5, <3>1
  <2>2. f[k - 1] + 4 + Len(a[k].value) = f[k] /\ f[k] <= m.length
    <3>1. Placed(m, a, f, k)
      BY LaidAt
    <3> QED
      BY <3>1 DEF Placed
  <2>3. \A j \in 1 .. n : p[o + 4 + j] = v[j]
    BY <1>2, <1>3, <1>4, <2>1 DEF Stands
  <2>4. o + 4 + n = f[k]
    BY <1>2, <1>4, <1>5, <2>2
  <2> QED
    BY <2>2, <2>3, <2>4
<1>7. \A i \in o + 4 .. o + 4 + n - 1 : p[i + 1] # 0
  <2>1. ASSUME NEW i \in o + 4 .. o + 4 + n - 1 PROVE p[i + 1] # 0
    <3>1. i + 1 - (o + 4) \in 1 .. n /\ o + 4 + (i + 1 - (o + 4)) = i + 1
      OBVIOUS
    <3>2. p[i + 1] = v[i + 1 - (o + 4)]
      BY <1>6, <3>1
    <3> QED
      BY <1>2, <1>4, <3>1, <3>2
  <2> QED
    BY <2>1
<1>8. CASE k < Len(a)
  <2>1. PICK t \in Nat : t = a[k + 1].type /\ t # 0
    <3>1. a[k + 1] \in Attr
      BY <1>1, <1>8
    <3> QED
      BY <1>8, <3>1 DEF Attr
  <2>2. k + 1 \in 1 .. Len(a) /\ k + 1 - 1 = k
    BY <1>1, <1>8
  <2>3. p[o + 4 + n + 1] = t /\ p[o + 4 + n + 2] = 0 /\ o + 4 + n + 4 <= MAX_PAYLOAD
    <3>1. Stands(m, f[k + 1 - 1], a[k + 1])
      BY <2>2 DEF Laid
    <3>2. f[k + 1 - 1] + 4 <= m.length
      BY <2>2, LaidAt DEF Placed
    <3>3. PICK q \in Nat : q = o + 4 + n
      OBVIOUS
    <3>4. p[q + 1] = t /\ p[q + 2] = 0
      BY <1>3, <1>6, <2>1, <2>2, <3>1, <3>3 DEF Stands
    <3>5. q + 4 <= MAX_PAYLOAD
      BY <1>1, <1>6, <2>2, <3>2, <3>3, SMTT(30)
    <3> QED
      BY <3>3, <3>4, <3>5
  <2>4. c_str(m, o + 4) = SubSeq(p, o + 5, o + 4 + (n + 1))
    <3>1. o + 4 + (n + 1) \in o + 4 .. MAX_PAYLOAD - 1 /\ o + 4 + (n + 1) + 1 = o + 4 + n + 2 /\ o + 4 + 1 = o + 5
      BY <1>1, <2>3
    <3>2. \A i \in o + 4 .. o + 4 + (n + 1) - 1 : i \in o + 4 .. o + 4 + n - 1 \/ i + 1 = o + 4 + n + 1
      OBVIOUS
    <3>3. \A i \in o + 4 .. o + 4 + (n + 1) - 1 : p[i + 1] # 0
      BY <1>7, <2>1, <2>3, <3>2
    <3>4. PICK e \in o + 4 .. MAX_PAYLOAD - 1, q \in Nat : e = o + 4 + (n + 1) /\ q = o + 4
      BY <3>1
    <3>5. m.payload[e + 1] = 0 /\ \A i \in q .. e - 1 : m.payload[i + 1] # 0
      BY <1>3, <2>3, <3>1, <3>3, <3>4
    <3>6. c_str(m, q) = SubSeq(m.payload, q + 1, e)
      BY <1>1, <3>4, <3>5, EndIs
    <3> QED
      BY <1>3, <3>1, <3>4, <3>6
  <2>5. SubSeq(p, o + 5, o + 4 + (n + 1)) = v \o <<t>>
    <3>1. /\ v \o <<t>> \in Seq(Nat) /\ Len(v \o <<t>>) = n + 1 /\ (v \o <<t>>)[n + 1] = t
          /\ \A j \in 1 .. n : (v \o <<t>>)[j] = v[j]
      BY <1>4
    <3>2. PICK w \in Seq(Nat) : w = v \o <<t>>
      BY <3>1
    <3>3. ASSUME NEW j \in 1 .. n + 1 PROVE p[o + 4 + j] = w[j]
      <4>1. CASE j = n + 1
        <5>1. o + 4 + j = o + 4 + n + 1
          BY <4>1
        <5> QED
          BY <2>3, <3>1, <3>2, <4>1, <5>1
      <4>2. CASE j # n + 1
        <5>1. j \in 1 .. n
          BY <4>2
        <5>2. p[o + 4 + j] = v[j]
          BY <1>6, <5>1
        <5> QED
          BY <3>1, <3>2, <5>1, <5>2
      <4> QED
        BY <4>1, <4>2
    <3>4. n + 1 = Len(w) /\ n + 1 \in Nat /\ o + 4 + (n + 1) <= Len(p)
      <4>1. n + 1 = Len(w) /\ n + 1 \in Nat
        BY <3>1, <3>2
      <4>2. o + 4 + (n + 1) <= MAX_PAYLOAD
        BY <1>1, <2>3
      <4> QED
        BY <1>3, <4>1, <4>2
    <3>5. SubSeq(p, o + 5, o + 4 + (n + 1)) = w
      BY <3>3, <3>4, PartIs
    <3> QED
      BY <3>2, <3>5
  <2>6. Behind(m, a, k) = <<t>>
    BY <1>8, <2>1 DEF Behind
  <2> QED
    BY <1>2, <1>5, <2>4, <2>5, <2>6
<1>9. CASE k = Len(a)
  <2>1. m.length = o + 4 + n /\ ~(k < Len(a))
    BY <1>1, <1>6, <1>9
  <2>2. SubSeq(p, o + 5, o + 4 + n) = v
    <3>1. o + 4 + n <= Len(p)
      BY <1>1, <1>3, <2>1
    <3> QED
      BY <1>4, <1>6, <3>1, PartIs
  <2>3. PICK q \in Nat : q = o + 4 /\ q + 1 = o + 5
    OBVIOUS
  <2>4. CASE m.length = MAX_PAYLOAD
    <3>1. \A i \in q .. MAX_PAYLOAD - 1 : m.payload[i + 1] # 0
      BY <1>3, <1>7, <2>1, <2>3, <2>4
    <3>2. c_str(m, q) = SubSeq(m.payload, q + 1, MAX_PAYLOAD) \o <<-1>>
      BY <1>1, <3>1, NoEnd
    <3>3. c_str(m, q) = v \o <<-1>>
      BY <1>3, <2>1, <2>2, <2>3, <2>4, <3>2
    <3>4. Behind(m, a, k) = <<-1>>
      BY <2>1, <2>4 DEF Behind
    <3> QED
      BY <1>2, <1>5, <2>3, <3>3, <3>4
  <2>5. CASE m.length # MAX_PAYLOAD
    <3>1. PICK e \in q .. MAX_PAYLOAD - 1 : e = m.length
      BY <1>1, <2>1, <2>3, <2>5
    <3>2. m.payload[e + 1] = 0
      BY <1>1, <3>1
    <3>3. \A i \in q .. e - 1 : m.payload[i + 1] # 0
      BY <1>3, <1>7, <2>1, <2>3, <3>1
    <3>4. c_str(m, q) = SubSeq(m.payload, q + 1, e)
      BY <1>1, <3>2, <3>3, EndIs
    <3>5. c_str(m, q) = v
      BY <1>3, <2>1, <2>2, <2>3, <3>1, <3>4
    <3>6. Behind(m, a, k) = <<>> /\ v \o <<>> = v
      BY <2>1, <2>5 DEF Behind
    <3> QED
      BY <1>2, <1>5, <2>3, <3>5, <3>6
  <2> QED
    BY <2>4, <2>5
<1> QED
  BY <1>1, <1>8, <1>9
-----------------------------------------------------------------------------
(* The accessors.                                                          *)

Found(m, a, type, k) ==
  IF a[k].type = type THEN <<a[k].value \o Behind(m, a, k)>> ELSE <<>>

LEMMA StringsLaid ==
  ASSUME NEW m, NEW a, NEW f, Laid(m, a, f), validate(m), \A k \in 1 .. Len(a) : Fine(a[k]),
         NEW type \in DOMAIN Limit,
         NEW G, G[Len(a)] = <<>>,
         \A k \in 0 .. Len(a) - 1 : G[k] = Found(m, a, type, k + 1) \o G[k + 1]
  PROVE  get_strings(m, type) = G[0]
<1> DEFINE N == Len(a)
<1> DEFINE w == Walk(m)
<1> DEFINE X(i) == IF w[i] >= 0 /\ attr_type(m, w[i]) = type
                   THEN <<c_str(m, w[i] + 4)>> ELSE <<>>
<1> DEFINE IsFrom(g) == g = [k \in 0 .. Len(w) |-> IF k = Len(w) THEN <<>> ELSE X(k + 1) \o g[k + 1]]
<1>1. N \in Nat /\ \A k \in 1 .. N : f[k - 1] \in Nat
  <2>1. N \in Nat
    BY DEF Laid
  <2>2. \A k \in 1 .. N : k - 1 \in 0 .. N
    BY <2>1
  <2> QED
    BY <2>1, <2>2 DEF Laid
<1>2. w = [k \in 1 .. N |-> f[k - 1]]
  BY WalkLaid
<1>3. Len(w) = N /\ \A k \in 1 .. N : w[k] = f[k - 1]
  BY <1>1, <1>2
<1>4. ASSUME NEW i \in 1 .. N PROVE X(i) = Found(m, a, type, i)
  <2>1. w[i] = f[i - 1] /\ w[i] >= 0 /\ attr_type(m, w[i]) = a[i].type
    BY <1>1, <1>3, LaidAt DEF Placed
  <2>2. CASE a[i].type = type
    <3>1. type # CLIENT_COUNT
      BY DEF Limit, USERNAME, MESSAGE, REASON, CLIENT_COUNT
    <3>2. \A j \in 1 .. Len(a[i].value) : a[i].value[j] # 0
      BY <2>2, <3>1 DEF Fine
    <3>3. ASSUME i < Len(a) PROVE a[i + 1].type # 0
      <4>1. i + 1 \in 1 .. Len(a)
        BY <1>1, <3>3
      <4>2. Fine(a[i + 1])
        BY <4>1
      <4> QED
        BY <4>2 DEF Fine, Limit, USERNAME, MESSAGE, REASON, CLIENT_COUNT
    <3>4. c_str(m, w[i] + 4) = a[i].value \o Behind(m, a, i)
      BY <2>1, <3>2, <3>3, StringLaid
    <3> QED
      BY <2>1, <2>2, <3>4 DEF Found
  <2>3. CASE a[i].type # type
    BY <2>1, <2>3 DEF Found
  <2> QED
    BY <2>2, <2>3
<1> DEFINE F == CHOOSE g : IsFrom(g)
<1>5. get_strings(m, type) = F[0]
  BY Zenon DEF get_strings
<1> HIDE DEF w
<1>6. PICK x : x = [k \in 0 .. N - 1 |-> Found(m, a, type, k + 1)]
  OBVIOUS
<1>7. PICK n \in Nat : n = N
  BY <1>1
<1>8. \A k \in 0 .. n - 1 : x[k] = Found(m, a, type, k + 1) /\ X(k + 1) = x[k]
  <2>1. \A k \in 0 .. n - 1 : k + 1 \in 1 .. N /\ k \in 0 .. N - 1
    BY <1>7
  <2> HIDE DEF X
  <2> QED
    BY <1>4, <1>6, <2>1
<1> HIDE DEF X
<1>9. \A g : IsFrom(g) <=> Listed(n, x, g)
  <2>1. \A k \in 0 .. n : k = n \/ x[k] = X(k + 1)
    BY <1>8
  <2> QED
    BY <1>3, <1>7, <2>1 DEF Listed
<1> HIDE DEF IsFrom
<1>10. IsFrom(F)
  <2>1. \E g : Listed(n, x, g)
    BY ListExists
  <2>2. \E h : IsFrom(h)
    BY <1>9, <2>1
  <2> QED
    BY <2>2, Zenon
<1> HIDE DEF F
<1>11. PICK h : h = F
  OBVIOUS
<1>12. Gathers(n, x, h)
  BY <1>9, <1>10, <1>11, ListedGathers
<1>13. Gathers(n, x, G)
  BY <1>7, <1>8 DEF Gathers
<1>14. h[0] = G[0]
  BY <1>12, <1>13, SameList
<1> QED
  BY <1>5, <1>11, <1>14

LEMMA CountLaid ==
  ASSUME NEW m, NEW a, NEW f, Laid(m, a, f), validate(m), \A k \in 1 .. Len(a) : Fine(a[k]),
         Len(a) >= 1, a[1].type = CLIENT_COUNT, \A k \in 2 .. Len(a) : a[k].type # CLIENT_COUNT,
         NEW c \in Nat, a[1].value = htons(c)
  PROVE  get_client_count(m) = c
<1> DEFINE N == Len(a)
<1> DEFINE w == Walk(m)
<1> DEFINE Counts == {k \in DOMAIN w : w[k] >= 0 /\ attr_type(m, w[k]) = CLIENT_COUNT}
<1> DEFINE k1 == CHOOSE k \in Counts : \A j \in Counts : k <= j
<1>1. N \in Nat /\ \A k \in 1 .. N : f[k - 1] \in Nat
  <2>1. N \in Nat
    BY DEF Laid
  <2>2. \A k \in 1 .. N : k - 1 \in 0 .. N
    BY <2>1
  <2> QED
    BY <2>1, <2>2 DEF Laid
<1>2. w = [k \in 1 .. N |-> f[k - 1]]
  BY WalkLaid
<1>3. DOMAIN w = 1 .. N /\ \A k \in 1 .. N : w[k] = f[k - 1]
  BY <1>1, <1>2
<1>4. get_client_count(m) = 256 * At(m, w[k1] + 4) + At(m, w[k1] + 5)
  BY Zenon DEF get_client_count
<1>5. \A k \in 1 .. N : w[k] >= 0 /\ attr_type(m, w[k]) = a[k].type
  BY <1>1, <1>3, LaidAt DEF Placed
<1> HIDE DEF w
<1>6. Counts = {1}
  <2>1. 1 \in 1 .. N /\ \A k \in 1 .. N : k = 1 \/ k \in 2 .. N
    BY <1>1
  <2> QED
    BY <1>3, <1>5, <2>1
<1> HIDE DEF Counts
<1>7. k1 = 1
  <2>1. \A k \in {1} : k = 1 /\ \A j \in {1} : k <= j
    OBVIOUS
  <2>2. k1 = CHOOSE k \in {1} : \A j \in {1} : k <= j
    BY <1>6
  <2> QED
    BY <2>1, <2>2
<1> HIDE DEF k1
<1>8. w[1] = 0 /\ 1 \in 1 .. N /\ f[1 - 1] = 0
  <2>1. 1 \in 1 .. N /\ 1 - 1 = 0
    BY <1>1
  <2>2. f[0] = 0
    BY DEF Laid
  <2> QED
    BY <1>3, <2>1, <2>2
<1>9. Len(htons(c)) = 2 /\ Word(htons(c)[1], htons(c)[2]) = c
  <2>1. 256 * (c \div 256) + (c % 256) = c
    OBVIOUS
  <2> QED
    BY <2>1 DEF Word, htons
<1>10. m.payload[5] = htons(c)[1] /\ m.payload[6] = htons(c)[2]
  <2>1. Stands(m, f[1 - 1], a[1])
    BY <1>8 DEF Laid
  <2>2. \A j \in 1 .. 2 : m.payload[0 + 4 + j] = htons(c)[j]
    BY <1>8, <1>9, <2>1 DEF Stands
  <2>3. 0 + 4 + 1 = 5 /\ 0 + 4 + 2 = 6 /\ 1 \in 1 .. 2 /\ 2 \in 1 .. 2
    OBVIOUS
  <2> QED
    BY <2>2, <2>3
<1>11. At(m, 0 + 4) = m.payload[5] /\ At(m, 0 + 5) = m.payload[6]
  BY DEF At
<1>12. get_client_count(m) = 256 * At(m, 0 + 4) + At(m, 0 + 5)
  BY <1>4, <1>7, <1>8, Zenon
<1> QED
  BY <1>9, <1>10, <1>11, <1>12, Zenon DEF Word
-----------------------------------------------------------------------------
(* The header.                                                             *)

Typed(m, t) == m.upper = 1 /\ m.lower = 128 + t

LEMMA HeaderIs ==
  ASSUME NEW m, NEW t \in 2 .. 9, Typed(m, t)
  PROVE  get_type(m) = t /\ get_version(m) = SBCP_VERSION
<1>1. (128 + t) % 128 = t /\ (128 + t) \div 128 = 1
  OBVIOUS
<1> QED
  BY <1>1 DEF Typed, get_type, get_version, SBCP_VERSION

LEMMA ValidIs ==
  ASSUME NEW m, NEW t \in 2 .. 9, Typed(m, t)
  PROVE  validate(m) <=> m.length <= MaxLength(t)
<1>1. \E name \in DOMAIN Type : t = Type[name]
  <2>1. /\ Type.JOIN = 2 /\ Type.SEND = 4 /\ Type.FWD = 3 /\ Type.ACK = 7
        /\ Type.NAK = 5 /\ Type.ONLINE = 8 /\ Type.OFFLINE = 6 /\ Type.IDLE = 9
    BY DEF Type
  <2>2. t \in {2, 3, 4, 5, 6, 7, 8, 9}
    OBVIOUS
  <2>3. {"JOIN", "SEND", "FWD", "ACK", "NAK", "ONLINE", "OFFLINE", "IDLE"} = DOMAIN Type
    BY DEF Type
  <2> HIDE DEF Type
  <2> QED
    BY <2>1, <2>2, <2>3
<1>2. get_type(m) = t /\ get_version(m) = SBCP_VERSION
  BY HeaderIs
<1> QED
  BY <1>1, <1>2 DEF validate

LEMMA MaxIs ==
  /\ MaxLength(Type.JOIN) = 4 + MAX_USERNAME /\ MaxLength(Type.IDLE) = 4 + MAX_USERNAME
  /\ MaxLength(Type.SEND) = 4 + MAX_MESSAGE
  /\ MaxLength(Type.FWD) = 8 + MAX_USERNAME + MAX_MESSAGE
  /\ MaxLength(Type.NAK) = 4 + MAX_REASON
  /\ MaxLength(Type.ACK) = MAX_PAYLOAD /\ MaxLength(Type.ONLINE) = MAX_PAYLOAD
  /\ MaxLength(Type.OFFLINE) = MAX_PAYLOAD
BY DEF MaxLength, Type

LEMMA LimitsFit ==
  /\ MAX_PAYLOAD \in Nat /\ MAX_USERNAME \in Nat /\ MAX_MESSAGE \in Nat /\ MAX_REASON \in Nat
  /\ MAX_PAYLOAD >= 8 + MAX_USERNAME + MAX_MESSAGE /\ MAX_PAYLOAD >= 4 + MAX_REASON
  /\ MAX_PAYLOAD >= 8 + MAX_USERNAME + MAX_USERNAME
  /\ DOMAIN Limit = {USERNAME, MESSAGE, REASON}
  /\ Limit[USERNAME] = MAX_USERNAME /\ Limit[MESSAGE] = MAX_MESSAGE /\ Limit[REASON] = MAX_REASON
  /\ {USERNAME, MESSAGE, REASON} \subseteq Nat /\ CLIENT_COUNT = 3 /\ CLIENT_COUNT \notin DOMAIN Limit
  /\ USERNAME # MESSAGE
BY PayloadAssumption DEF Limit, USERNAME, MESSAGE, REASON, CLIENT_COUNT

LEMMA MessageIs ==
  ASSUME NEW t \in 2 .. 9
  PROVE  /\ Typed(Message(t), t) /\ Message(t).length = 0 /\ ~Message(t).thrown
         /\ \E f : Laid(Message(t), <<>>, f)
<1>1. SBCP_VERSION \div 2 = 1 /\ (SBCP_VERSION % 2) * 128 + t = 128 + t
  BY DEF SBCP_VERSION
<1>2. Message(t) = [upper |-> 1, lower |-> 128 + t, length |-> 0,
                    payload |-> [i \in 1 .. MAX_PAYLOAD |-> 0], thrown |-> FALSE]
  BY <1>1 DEF Message
<1>3. PICK m : m = Message(t)
  OBVIOUS
<1>4. /\ m.upper = 1 /\ m.lower = 128 + t /\ m.length = 0 /\ m.thrown = FALSE
      /\ m.payload = [i \in 1 .. MAX_PAYLOAD |-> 0]
  BY <1>2, <1>3
<1>5. m \in Msgs
  <2>1. 128 + t \in Nat
    OBVIOUS
  <2> QED
    BY <1>2, <1>3, <2>1 DEF Msgs
<1>6. Laid(m, <<>>, [k \in 0 .. 0 |-> 0])
  <2>1. <<>> \in Seq(Attr) /\ Len(<<>>) = 0 /\ 1 .. 0 = {}
    OBVIOUS
  <2>2. \A i \in m.length + 1 .. MAX_PAYLOAD : m.payload[i] = 0
    BY <1>4, LimitsFit
  <2>3. m.length <= MAX_PAYLOAD
    BY <1>4, LimitsFit
  <2> QED
    BY <1>4, <1>5, <2>1, <2>2, <2>3 DEF Laid
<1> QED
  BY <1>3, <1>4, <1>6 DEF Typed

(* A message with the same attributes and another header.                  *)
LEMMA Retyped ==
  ASSUME NEW m, NEW a, NEW f, Laid(m, a, f), NEW t \in 2 .. 9, Typed(m, t), NEW u \in 2 .. 9
  PROVE  /\ Laid(set_type(m, u), a, f) /\ Typed(set_type(m, u), u)
         /\ set_type(m, u).length = m.length /\ set_type(m, u).thrown = m.thrown
<1>1. (128 + t) \div 128 = 1
  OBVIOUS
<1>2. m \in Msgs /\ m.upper = 1 /\ m.lower = 128 + t
  BY DEF Laid, Typed
<1>3. set_type(m, u) = [m EXCEPT !.lower = 128 + u]
  BY <1>1, <1>2 DEF set_type
<1>4. PICK p : p = set_type(m, u)
  OBVIOUS
<1>5. m = [upper |-> m.upper, lower |-> m.lower, length |-> m.length,
           payload |-> m.payload, thrown |-> m.thrown]
  BY <1>2 DEF Msgs
<1>6. p = [upper |-> m.upper, lower |-> 128 + u, length |-> m.length,
           payload |-> m.payload, thrown |-> m.thrown]
  BY <1>3, <1>4, <1>5
<1>7. p.payload = m.payload /\ p.length = m.length /\ p.thrown = m.thrown /\ p.upper = 1 /\ p.lower = 128 + u
  BY <1>2, <1>6
<1>8. p \in Msgs
  <2>1. 128 + u \in Nat
    OBVIOUS
  <2> QED
    BY <1>2, <1>6, <2>1 DEF Msgs
<1>9. \A k \in 1 .. Len(a) : Stands(m, f[k - 1], a[k]) => Stands(p, f[k - 1], a[k])
  BY <1>7 DEF Stands
<1>10. Laid(p, a, f)
  BY <1>7, <1>8, <1>9 DEF Laid
<1> QED
  BY <1>4, <1>7, <1>10 DEF Typed

-----------------------------------------------------------------------------
(* Writing.                                                                *)

(* A message of type t that holds the attributes a.                        *)
Whole(m, t, a) == ~m.thrown /\ Typed(m, t) /\ \E f : Laid(m, a, f)

LEMMA WholeLength ==
  ASSUME NEW m, NEW t, NEW a, Whole(m, t, a)
  PROVE  m \in Msgs /\ m.length \in Nat
BY DEF Whole, Laid, Msgs

LEMMA AddIs ==
  ASSUME NEW m, NEW a, NEW t \in 2 .. 9, Whole(m, t, a), m.length <= MaxLength(t),
         NEW b \in Attr, m.length + 4 + Len(b.value) <= MAX_PAYLOAD,
         NEW p, p = add_attribute(m, Bytes(b))
  PROVE  Whole(p, t, Append(a, b)) /\ p.length = m.length + 4 + Len(b.value)
<1>0. PICK f : Laid(m, a, f) /\ Typed(m, t) /\ ~m.thrown
  BY DEF Whole
<1>1. m \in Msgs /\ m.length \in Nat /\ Len(b.value) \in Nat
  BY <1>0, BytesAre DEF Laid, Msgs
<1>2. validate(m)
  BY <1>0, ValidIs
<1>3. ~(m.length + Len(Bytes(b)) > MAX_PAYLOAD)
  <2>1. Len(Bytes(b)) = 4 + Len(b.value)
    BY BytesAre
  <2>2. PICK L \in Nat, n \in Nat : L = m.length /\ n = Len(b.value)
    BY <1>1
  <2>3. L + 4 + n <= MAX_PAYLOAD /\ MAX_PAYLOAD \in Nat
    BY <2>2, LimitsFit
  <2>4. ~(L + (4 + n) > MAX_PAYLOAD)
    BY <2>3
  <2> QED
    BY <2>1, <2>2, <2>4
<1>4. p = Put(m, Bytes(b))
  BY <1>0, <1>2, <1>3 DEF add_attribute
<1>5. /\ p.upper = m.upper /\ p.lower = m.lower /\ p.thrown = m.thrown
      /\ p.length = m.length + 4 + Len(b.value)
  BY <1>1, <1>4, PutIs
<1>6. \E g : Laid(p, Append(a, b), g)
  BY <1>0, <1>4, PutLaid
<1> QED
  BY <1>0, <1>5, <1>6 DEF Typed, Whole

LEMMA PrefixIs ==
  ASSUME NEW S, NEW v \in Seq(S), NEW c \in Nat, c <= Len(v)
  PROVE  /\ SubSeq(v, 1, c) \in Seq(S) /\ Len(SubSeq(v, 1, c)) = c
         /\ \A j \in 1 .. c : SubSeq(v, 1, c)[j] = v[j]
OBVIOUS

LEMMA WidenedIs ==
  ASSUME NEW T, NEW S \in SUBSET T, NEW v \in Seq(S)
  PROVE  v \in Seq(T) /\ \A j \in 1 .. Len(v) : v[j] \in S
<1>1. \A j \in 1 .. Len(v) : v[j] \in S
  OBVIOUS
<1>2. v \in [1 .. Len(v) -> T] /\ Len(v) \in Nat
  BY <1>1
<1> QED
  BY <1>1, <1>2

LEMMA TextIs ==
  ASSUME NEW v \in Seq(1 .. 255)
  PROVE  v \in Seq(Nat) /\ \A j \in 1 .. Len(v) : v[j] # 0
<1>1. PICK S : S = 1 .. 255
  OBVIOUS
<1>2. S \in SUBSET Nat /\ \A x \in S : x # 0
  BY <1>1
<1>3. v \in Seq(S)
  BY <1>1
<1>4. v \in Seq(Nat) /\ \A j \in 1 .. Len(v) : v[j] \in S
  BY <1>2, <1>3, WidenedIs
<1> QED
  BY <1>2, <1>4

Shortened(type, v) == [type |-> type, value |-> SubSeq(v, 1, Smaller(Len(v), Limit[type]))]

LEMMA ShortenedIs ==
  ASSUME NEW type \in DOMAIN Limit, NEW v \in Seq(1 .. 255)
  PROVE  /\ Shortened(type, v) \in Attr /\ Fine(Shortened(type, v)) /\ Shortened(type, v).type = type
         /\ Len(Shortened(type, v).value) <= Limit[type] /\ Len(Shortened(type, v).value) \in Nat
         /\ Len(v) <= Limit[type] => Shortened(type, v).value = v
         /\ Attribute(type, v) = Bytes(Shortened(type, v))
<1>1. PICK l \in Nat, n \in Nat : l = Limit[type] /\ n = Len(v)
  BY LimitsFit
<1>2. PICK c \in Nat : c = Smaller(n, l) /\ c <= n /\ c <= l /\ (n <= l => c = n)
  BY DEF Smaller
<1>3. PICK w \in Seq(1 .. 255) : w = SubSeq(v, 1, c) /\ Len(w) = c /\ \A j \in 1 .. c : w[j] = v[j]
  <2>1. c <= Len(v)
    BY <1>1, <1>2
  <2>2. PICK S : S = 1 .. 255
    OBVIOUS
  <2>3. v \in Seq(S)
    BY <2>2
  <2>4. /\ SubSeq(v, 1, c) \in Seq(S) /\ Len(SubSeq(v, 1, c)) = c
        /\ \A j \in 1 .. c : SubSeq(v, 1, c)[j] = v[j]
    BY <2>1, <2>3, PrefixIs
  <2> QED
    BY <2>2, <2>4
<1>4. Shortened(type, v) = [type |-> type, value |-> w]
  BY <1>1, <1>2, <1>3 DEF Shortened
<1>5. PICK b : b = Shortened(type, v)
  OBVIOUS
<1>6. b.type = type /\ b.value = w
  BY <1>4, <1>5
<1>7. w \in Seq(Nat) /\ \A j \in 1 .. Len(w) : w[j] # 0
  BY TextIs
<1>8. type \in Nat
  BY LimitsFit
<1>9. b \in Attr
  BY <1>4, <1>5, <1>7, <1>8 DEF Attr
<1>10. Fine(b)
  BY <1>1, <1>2, <1>3, <1>6, <1>7 DEF Fine
<1>11. n <= l => w = v
  <2>1. ASSUME n <= l PROVE w = v
    <3>1. Len(w) = Len(v) /\ \A j \in 1 .. Len(w) : w[j] = v[j]
      BY <1>1, <1>2, <1>3, <2>1
    <3> QED
      BY <3>1
  <2> QED
    BY <2>1
<1>12. Attribute(type, v) = Bytes(b)
  <2>1. Attribute(type, v) = <<type, 0>> \o htons(c) \o w
    BY <1>1, <1>2, <1>3 DEF Attribute
  <2> QED
    BY <1>3, <1>6, <2>1 DEF Bytes, Header
<1> QED
  BY <1>1, <1>2, <1>3, <1>5, <1>6, <1>9, <1>10, <1>11, <1>12
(* There is room for any text of the type, and it is added.                *)
Room(m, t, a, type, v) ==
  /\ t \in 2 .. 9 /\ Whole(m, t, a) /\ m.length <= MaxLength(t)
  /\ type \in DOMAIN Limit /\ v \in Seq(1 .. 255)
  /\ m.length + 4 + Limit[type] <= MAX_PAYLOAD

Added(p, m, t, a, type, v) ==
  /\ Whole(p, t, Append(a, Shortened(type, v)))
  /\ p.length \in Nat /\ p.length <= m.length + 4 + Limit[type]

LEMMA AddText ==
  ASSUME NEW m, NEW t, NEW a, NEW type, NEW v, Room(m, t, a, type, v)
  PROVE  Added(add_attribute(m, Attribute(type, v)), m, t, a, type, v)
<1> DEFINE p == add_attribute(m, Attribute(type, v))
<1>0. /\ t \in 2 .. 9 /\ Whole(m, t, a) /\ m.length <= MaxLength(t)
      /\ type \in DOMAIN Limit /\ v \in Seq(1 .. 255)
      /\ m.length + 4 + Limit[type] <= MAX_PAYLOAD
  BY DEF Room
<1>1. PICK b \in Attr : b = Shortened(type, v) /\ Attribute(type, v) = Bytes(b)
  BY <1>0, ShortenedIs
<1>2. PICK L \in Nat, n \in Nat, l \in Nat : L = m.length /\ n = Len(b.value) /\ l = Limit[type] /\ n <= l
  <2>1. m.length \in Nat
    BY <1>0, WholeLength
  <2>2. Limit[type] \in Nat
    BY <1>0, LimitsFit
  <2>3. Len(b.value) \in Nat /\ Len(b.value) <= Limit[type]
    BY <1>0, <1>1, ShortenedIs
  <2> QED
    BY <2>1, <2>2, <2>3
<1>3. L + 4 + n <= MAX_PAYLOAD /\ L + 4 + n <= L + 4 + l
  <2>1. L + 4 + l <= MAX_PAYLOAD
    BY <1>0, <1>2
  <2>2. MAX_PAYLOAD \in Nat
    BY LimitsFit
  <2>3. n <= l /\ n \in Nat /\ l \in Nat /\ L \in Nat
    BY <1>2
  <2> QED
    BY <2>1, <2>2, <2>3
<1>4. m.length + 4 + Len(b.value) <= MAX_PAYLOAD
  BY <1>2, <1>3
<1>5. Whole(p, t, Append(a, b)) /\ p.length = m.length + 4 + Len(b.value)
  BY <1>0, <1>1, <1>4, AddIs
<1>6. p.length = L + 4 + n /\ m.length + 4 + Limit[type] = L + 4 + l
  BY <1>2, <1>5
<1>7. L + 4 + n \in Nat
  BY <1>2
<1> QED
  BY <1>1, <1>3, <1>5, <1>6, <1>7 DEF Added

LEMMA SingleIs ==
  ASSUME NEW t \in 2 .. 9, NEW type \in DOMAIN Limit, NEW v \in Seq(1 .. 255),
         4 + Limit[type] <= MAX_PAYLOAD, 4 + Limit[type] <= MaxLength(t), 0 <= MaxLength(t),
         NEW p, p = Single(t, type, v)
  PROVE  Whole(p, t, <<Shortened(type, v)>>) /\ p.length <= MaxLength(t)
<1>1. PICK m, a : m = Message(t) /\ m.length = 0 /\ a = <<>> /\ Whole(m, t, a)
  BY MessageIs DEF Whole
<1>2. p = add_attribute(m, Attribute(type, v))
  BY <1>1 DEF Single
<1>3. m.length <= MaxLength(t) /\ m.length + 4 + Limit[type] <= MAX_PAYLOAD
  <2>1. 0 + 4 + Limit[type] = 4 + Limit[type]
    BY LimitsFit
  <2> QED
    BY <1>1, <2>1
<1>4. Whole(p, t, Append(a, Shortened(type, v))) /\ p.length \in Nat /\ p.length <= m.length + 4 + Limit[type]
  <2>1. Room(m, t, a, type, v)
    BY <1>1, <1>3 DEF Room
  <2>2. Added(p, m, t, a, type, v)
    BY <1>2, <2>1, AddText
  <2> QED
    BY <2>2 DEF Added
<1>5. Append(a, Shortened(type, v)) = <<Shortened(type, v)>>
  BY <1>1
<1>6. p.length <= MaxLength(t)
  <2>1. PICK q : q = p.length /\ q \in Nat
    BY <1>4
  <2>2. PICK l \in Nat : l = Limit[type]
    BY LimitsFit
  <2>3. q <= 4 + l
    BY <1>1, <1>4, <2>1, <2>2
  <2>4. MaxLength(t) \in Int
    BY LimitsFit, SMTT(30) DEF MaxLength
  <2> QED
    BY <2>1, <2>2, <2>3, <2>4
<1> QED
  BY <1>4, <1>5, <1>6

LEMMA ValuesAre ==
  ASSUME NEW n \in Nat, NEW v \in Values(n)
  PROVE  v \in Seq(1 .. 255) /\ Len(v) \in Nat /\ Len(v) <= n
<1>1. PICK l \in 0 .. n : v \in [1 .. l -> Letters]
  BY DEF Values
<1>2. v \in Seq(Letters) /\ Len(v) = l
  BY <1>1
<1>3. PICK B : B = 1 .. 255 /\ Letters \in SUBSET B
  <2>1. Letters \subseteq 1 .. 255
    BY PayloadAssumption
  <2> QED
    BY <2>1
<1>4. v \in Seq(B)
  BY <1>2, <1>3, WidenedIs
<1> QED
  BY <1>1, <1>2, <1>3, <1>4
-----------------------------------------------------------------------------
(* The state: a message that is whole holds what it was given, each value   *)
(* up to its limit.                                                        *)

Texts == [type : DOMAIN Limit, value : Seq(1 .. 255)]
Counters == {b \in [type : {CLIENT_COUNT}, value : Seq(Nat)] : Len(b.value) = 2}
KeptOf(b) == IF b.type = CLIENT_COUNT THEN b ELSE Shortened(b.type, b.value)
Kept(g) == [k \in 1 .. Len(g) |-> KeptOf(g[k])]

LEMMA KeptOfIs ==
  ASSUME NEW b \in Texts \cup Counters
  PROVE  /\ KeptOf(b) \in Attr /\ Fine(KeptOf(b)) /\ KeptOf(b).type = b.type
         /\ KeptOf(b) = [type |-> b.type, value |-> KeptOf(b).value]
<1>1. CASE b \in Texts
  <2>1. b.type \in DOMAIN Limit /\ b.value \in Seq(1 .. 255)
    BY <1>1 DEF Texts
  <2>2. KeptOf(b) = Shortened(b.type, b.value)
    BY <2>1, LimitsFit DEF KeptOf
  <2>3. PICK y \in DOMAIN Limit, v \in Seq(1 .. 255) : y = b.type /\ v = b.value
    BY <2>1
  <2>4. /\ Shortened(y, v) \in Attr /\ Fine(Shortened(y, v)) /\ Shortened(y, v).type = y
        /\ Shortened(y, v) = [type |-> y, value |-> Shortened(y, v).value]
    BY <2>3, ShortenedIs DEF Shortened
  <2> QED
    BY <2>2, <2>3, <2>4
<1>2. CASE b \in Counters
  <2>1. b.type = CLIENT_COUNT /\ b.value \in Seq(Nat) /\ Len(b.value) = 2
        /\ b = [type |-> b.type, value |-> b.value]
    BY <1>2 DEF Counters
  <2>2. KeptOf(b) = b
    BY <2>1 DEF KeptOf
  <2>3. Fine(b)
    BY <2>1 DEF Fine
  <2>4. b \in Attr
    BY <2>1, LimitsFit DEF Attr
  <2> QED
    BY <2>1, <2>2, <2>3, <2>4
<1> QED
  BY <1>1, <1>2

LEMMA KeptIs ==
  ASSUME NEW g \in Seq(Texts \cup Counters)
  PROVE  /\ Len(g) \in Nat /\ Len(Kept(g)) = Len(g) /\ Kept(g) \in Seq(Attr)
         /\ \A k \in 1 .. Len(g) : g[k] \in Texts \cup Counters /\ Kept(g)[k] = KeptOf(g[k])
<1>1. Len(g) \in Nat /\ \A k \in 1 .. Len(g) : g[k] \in Texts \cup Counters
  OBVIOUS
<1>2. \A k \in 1 .. Len(g) : KeptOf(g[k]) \in Attr
  BY <1>1, KeptOfIs
<1>3. PICK n \in Nat : n = Len(g)
  BY <1>1
<1>4. Kept(g) \in [1 .. n -> Attr] /\ \A k \in 1 .. n : Kept(g)[k] = KeptOf(g[k])
  BY <1>2, <1>3 DEF Kept
<1>5. PICK h \in [1 .. n -> Attr] : h = Kept(g)
  BY <1>4
<1>6. h \in Seq(Attr) /\ Len(h) = n
  OBVIOUS
<1> QED
  BY <1>1, <1>3, <1>4, <1>5, <1>6

LEMMA ExtendedIs ==
  ASSUME NEW T, NEW g \in Seq(T), NEW b \in T
  PROVE  /\ g \o <<b>> \in Seq(T) /\ Len(g \o <<b>>) = Len(g) + 1 /\ Len(g) \in Nat
         /\ (g \o <<b>>)[Len(g) + 1] = b
         /\ \A k \in 1 .. Len(g) : (g \o <<b>>)[k] = g[k]
OBVIOUS

LEMMA AppendedIs ==
  ASSUME NEW T, NEW g \in Seq(T), NEW b \in T
  PROVE  /\ Append(g, b) \in Seq(T) /\ Len(Append(g, b)) = Len(g) + 1
         /\ Append(g, b)[Len(g) + 1] = b
         /\ \A k \in 1 .. Len(g) : Append(g, b)[k] = g[k]
OBVIOUS

LEMMA KeptGrows ==
  ASSUME NEW g \in Seq(Texts \cup Counters), NEW b \in Texts \cup Counters
  PROVE  /\ g \o <<b>> \in Seq(Texts \cup Counters)
         /\ Len(g \o <<b>>) = Len(g) + 1 /\ (g \o <<b>>)[Len(g) + 1] = b
         /\ \A k \in 1 .. Len(g) : (g \o <<b>>)[k] = g[k]
         /\ Kept(g \o <<b>>) = Append(Kept(g), KeptOf(b))
<1> DEFINE S == Texts \cup Counters
<1>0. PICK T : T = S
  OBVIOUS
<1>1. g \in Seq(T) /\ b \in T
  BY <1>0
<1>2. PICK h \in Seq(T) : h = g \o <<b>>
  BY <1>1, ExtendedIs
<1>3. /\ Len(h) = Len(g) + 1 /\ h[Len(g) + 1] = b /\ Len(g) \in Nat
      /\ \A k \in 1 .. Len(g) : h[k] = g[k]
  BY <1>1, <1>2, ExtendedIs
<1>4. h \in Seq(S)
  BY <1>0
<1> HIDE DEF S
<1>5. PICK n \in Nat : n = Len(g)
  BY <1>3
<1>6. PICK c \in Seq(Attr), e \in Attr, d \in Seq(Attr) : c = Kept(g) /\ e = KeptOf(b) /\ d = Kept(h)
  BY <1>4, KeptIs, KeptOfIs DEF S
<1>7. Len(c) = n /\ Len(d) = n + 1
  BY <1>3, <1>4, <1>5, <1>6, KeptIs DEF S
<1>8. /\ \A k \in 1 .. n : c[k] = KeptOf(g[k])
      /\ \A k \in 1 .. n + 1 : d[k] = KeptOf(h[k])
  BY <1>3, <1>5, <1>6 DEF Kept
<1>9. \A k \in 1 .. n : d[k] = c[k]
  BY <1>3, <1>5, <1>8
<1>10. d[n + 1] = e
  BY <1>3, <1>5, <1>6, <1>8
<1>11. d = Append(c, e)
  <2>1. PICK x \in Seq(Attr) : x = Append(c, e) /\ Len(x) = n + 1 /\ x[n + 1] = e /\ \A k \in 1 .. n : x[k] = c[k]
    <3>1. Append(c, e) \in Seq(Attr) /\ Len(Append(c, e)) = Len(c) + 1
          /\ Append(c, e)[Len(c) + 1] = e /\ \A k \in 1 .. Len(c) : Append(c, e)[k] = c[k]
      BY AppendedIs
    <3> QED
      BY <1>7, <3>1
  <2>2. \A k \in 1 .. n + 1 : d[k] = x[k]
    <3>1. \A k \in 1 .. n + 1 : k = n + 1 \/ k \in 1 .. n
      OBVIOUS
    <3> QED
      BY <1>9, <1>10, <2>1, <3>1
  <2>3. d = x
    BY <1>7, <2>1, <2>2
  <2> QED
    BY <2>1, <2>3
<1> QED
  BY <1>2, <1>3, <1>4, <1>6, <1>11 DEF S

Fitting(g) == \A k \in 1 .. Len(g) : g[k].type \in DOMAIN Limit => Len(g[k].value) <= Limit[g[k].type]

(* What is known of the attributes by the type of the message.             *)
Form(t, g) ==
  /\ t = Type.SEND => Len(g) = 1 /\ g[1].type = MESSAGE
  /\ t = Type.IDLE => ~Overnamed(g) /\ (Len(g) = 1 => g[1].type = USERNAME)
  /\ t = Type.ACK => /\ Len(g) >= 1 /\ g[1].type = CLIENT_COUNT /\ g[1].value = htons(Len(g))
                     /\ \A k \in 2 .. Len(g) : g[k].type # CLIENT_COUNT

Sound(m, g, who) ==
  /\ g \in Seq(Texts \cup Counters)
  /\ who = "cpp" \/ Fitting(g)
  /\ \E t \in 2 .. 9 : Whole(m, t, Kept(g)) /\ m.length <= MaxLength(t) /\ Form(t, g)

(* An IDLE whose two names are together too long.                          *)
Overlong(m, g) == ~m.thrown /\ get_type(m) = Type.IDLE /\ ~validate(m) /\ Overnamed(g)

(* A message of the Elixir client that is too long for its type.           *)
Rejected(m, g, who) ==
  /\ g \in Seq(Texts \cup Counters)
  /\ ~m.thrown /\ who = "elixir" /\ ~Fitting(g) /\ ~validate(m)
  /\ get_type(m) # Type.IDLE

Failed(m) ==
  /\ m.thrown
  /\ \/ get_type(m) = Type.ACK /\ Size > MAX_PAYLOAD
     \/ maker = "cpp" /\ ~Fits

MessageInv ==
  \/ Failed(msg) \/ Rejected(msg, given, maker) \/ Overlong(msg, given)
  \/ Sound(msg, given, maker)

LEMMA FitsIs ==
  ASSUME given \in Seq(Texts \cup Counters)
  PROVE  Fits <=> Fitting(given)
<1>1. DOMAIN given = 1 .. Len(given)
  OBVIOUS
<1> QED
  BY <1>1 DEF Fits, Fitting
(* What is whole is read as it should be.                                  *)
LEMMA ReturnedIs ==
  ASSUME given \in Seq(Texts \cup Counters), NEW type \in DOMAIN Limit,
         NEW G, G[Len(given)] = <<>>,
         \A k \in 0 .. Len(given) - 1 : G[k] = Found(msg, Kept(given), type, k + 1) \o G[k + 1]
  PROVE  Returned(type) = G[0]
<1> DEFINE X(i) == IF given[i].type = type THEN <<Cut(i) \o Beyond(i)>> ELSE <<>>
<1> DEFINE IsFrom(g) == g = [k \in 0 .. Len(given) |->
                               IF k = Len(given) THEN <<>> ELSE X(k + 1) \o g[k + 1]]
<1> DEFINE F == CHOOSE g : IsFrom(g)
<1>1. Returned(type) = F[0]
  BY Zenon DEF Returned
<1>2. PICK n \in Nat : n = Len(given)
  OBVIOUS
<1>3. ASSUME NEW i \in 1 .. n PROVE X(i) = Found(msg, Kept(given), type, i)
  <2>1. /\ given[i] \in Texts \cup Counters /\ Kept(given)[i] = KeptOf(given[i])
        /\ Kept(given)[i].type = given[i].type /\ Len(Kept(given)) = n
    BY <1>2, KeptIs, KeptOfIs
  <2>2. CASE given[i].type = type
    <3>1. type # CLIENT_COUNT
      BY LimitsFit
    <3>2. Kept(given)[i].value = Cut(i)
      <4>1. Kept(given)[i] = Shortened(given[i].type, given[i].value)
        BY <2>1, <2>2, <3>1 DEF KeptOf
      <4>2. Cut(i) = SubSeq(given[i].value, 1, Smaller(Len(given[i].value), Limit[given[i].type]))
        BY <2>2, <3>1 DEF Cut
      <4>3. \A y, v : Shortened(y, v).value = SubSeq(v, 1, Smaller(Len(v), Limit[y]))
        BY DEF Shortened
      <4> QED
        BY <4>1, <4>2, <4>3, Zenon
    <3>3. Beyond(i) = Behind(msg, Kept(given), i)
      <4>1. CASE i < n
        <5>1. i + 1 \in 1 .. n
          BY <4>1
        <5>2. Kept(given)[i + 1] = KeptOf(given[i + 1]) /\ given[i + 1] \in Texts \cup Counters
          BY <1>2, <5>1, KeptIs
        <5>3. Kept(given)[i + 1].type = given[i + 1].type
          BY <5>2, KeptOfIs
        <5> QED
          BY <1>2, <2>1, <4>1, <5>3 DEF Beyond, Behind
      <4>2. CASE ~(i < n)
        BY <1>2, <2>1, <4>2 DEF Beyond, Behind
      <4> QED
        BY <4>1, <4>2
    <3> QED
      BY <2>1, <2>2, <3>2, <3>3 DEF Found
  <2>3. CASE given[i].type # type
    BY <2>1, <2>3 DEF Found
  <2> QED
    BY <2>2, <2>3
<1> HIDE DEF X
<1>4. PICK x : x = [k \in 0 .. n - 1 |-> Found(msg, Kept(given), type, k + 1)]
  OBVIOUS
<1>5. \A k \in 0 .. n - 1 : x[k] = Found(msg, Kept(given), type, k + 1) /\ X(k + 1) = x[k]
  <2>1. \A k \in 0 .. n - 1 : k + 1 \in 1 .. n
    OBVIOUS
  <2> QED
    BY <1>3, <1>4, <2>1
<1>6. \A g : IsFrom(g) <=> Listed(n, x, g)
  <2>1. \A k \in 0 .. n : k = n \/ x[k] = X(k + 1)
    BY <1>5
  <2> QED
    BY <1>2, <2>1 DEF Listed
<1> HIDE DEF IsFrom
<1>7. IsFrom(F)
  <2>1. \E g : Listed(n, x, g)
    BY ListExists
  <2>2. \E h : IsFrom(h)
    BY <1>6, <2>1
  <2> QED
    BY <2>2, Zenon
<1> HIDE DEF F
<1>8. PICK h : h = F
  OBVIOUS
<1>9. Gathers(n, x, h)
  BY <1>6, <1>7, <1>8, ListedGathers
<1>10. Gathers(n, x, G)
  BY <1>2, <1>5 DEF Gathers
<1>11. h[0] = G[0]
  BY <1>9, <1>10, SameList
<1> QED
  BY <1>1, <1>8, <1>11

LEMMA SoundReads ==
  ASSUME Sound(msg, given, maker)
  PROVE  SbcpReadBack
<1> DEFINE a == Kept(given)
<1>1. PICK t \in 2 .. 9 : Whole(msg, t, a) /\ msg.length <= MaxLength(t) /\ Form(t, given)
  BY DEF Sound
<1>2. given \in Seq(Texts \cup Counters) /\ (maker = "cpp" \/ Fits)
  BY FitsIs DEF Sound
<1>3. PICK f : Laid(msg, a, f) /\ Typed(msg, t) /\ ~msg.thrown
  BY <1>1 DEF Whole
<1>4. validate(msg) /\ get_type(msg) = t
  BY <1>1, <1>3, ValidIs, HeaderIs
<1>5. /\ Len(given) \in Nat /\ Len(a) = Len(given) /\ a \in Seq(Attr)
      /\ \A k \in 1 .. Len(given) : given[k] \in Texts \cup Counters /\ a[k] = KeptOf(given[k])
  BY <1>2, KeptIs
<1>6. \A k \in 1 .. Len(a) : Fine(a[k]) /\ a[k].type = given[k].type
                             /\ a[k] = [type |-> given[k].type, value |-> a[k].value]
  BY <1>5, KeptOfIs
<1> HIDE DEF a
<1>7. ASSUME NEW type \in DOMAIN Limit PROVE get_strings(msg, type) = Returned(type)
  <2>1. PICK n \in Nat : n = Len(a)
    BY <1>5
  <2>2. PICK x : x = [k \in 0 .. n - 1 |-> Found(msg, a, type, k + 1)]
    OBVIOUS
  <2>3. PICK G : Listed(n, x, G)
    BY ListExists
  <2>4. Gathers(n, x, G)
    BY <2>3, ListedGathers
  <2>5. G[Len(a)] = <<>> /\ \A k \in 0 .. Len(a) - 1 : G[k] = Found(msg, a, type, k + 1) \o G[k + 1]
    BY <2>1, <2>2, <2>4 DEF Gathers
  <2>6. get_strings(msg, type) = G[0]
    <3>1. \A k \in 1 .. Len(a) : Fine(a[k])
      BY <1>6
    <3> QED
      BY <1>3, <1>4, <2>5, <3>1, StringsLaid
  <2>7. Returned(type) = G[0]
    BY <1>2, <1>5, <2>5, ReturnedIs DEF a
  <2> QED
    BY <2>6, <2>7
<1>8. ASSUME t = Type.ACK PROVE get_client_count(msg) = Len(given)
  <2>1. /\ Len(given) >= 1 /\ given[1].type = CLIENT_COUNT /\ given[1].value = htons(Len(given))
        /\ \A k \in 2 .. Len(given) : given[k].type # CLIENT_COUNT
    BY <1>1, <1>8 DEF Form
  <2>2. 1 \in 1 .. Len(a) /\ \A k \in 2 .. Len(a) : k \in 1 .. Len(a)
    BY <1>5, <2>1
  <2>3. a[1] = given[1]
    BY <1>5, <2>1, <2>2 DEF KeptOf
  <2>4. \A k \in 2 .. Len(a) : a[k].type # CLIENT_COUNT
    BY <1>5, <1>6, <2>1, <2>2
  <2>5. PICK c \in Nat : c = Len(given)
    BY <1>5
  <2> QED
    <3>1. \A k \in 1 .. Len(a) : Fine(a[k])
      BY <1>6
    <3>2. a[1].type = CLIENT_COUNT /\ a[1].value = htons(c) /\ Len(a) >= 1
      BY <1>5, <2>1, <2>3, <2>5
    <3>3. get_client_count(msg) = c
      BY <1>3, <1>4, <2>4, <3>1, <3>2, CountLaid
    <3> QED
      BY <2>5, <3>3
<1>9. ex_deserialize(msg) = a
  BY <1>3, <1>6, ExLaid
<1>10. a = [k \in DOMAIN given |-> [type |-> given[k].type, value |-> Cut(k)]]
  <2>1. DOMAIN given = 1 .. Len(given)
    BY <1>2
  <2>2. ASSUME NEW k \in 1 .. Len(given) PROVE KeptOf(given[k]) = [type |-> given[k].type, value |-> Cut(k)]
    <3>1. a[k] = [type |-> given[k].type, value |-> a[k].value] /\ a[k] = KeptOf(given[k])
      BY <1>5, <1>6
    <3>2. a[k].value = Cut(k)
      BY <3>1 DEF KeptOf, Shortened, Cut
    <3> QED
      BY <3>1, <3>2
  <2> QED
    BY <2>1, <2>2 DEF a, Kept
<1>11. t = Type.IDLE => ~Overnamed(given)
  BY <1>1 DEF Form
<1>12. validate(msg) = IF get_type(msg) = Type.IDLE THEN ~Overnamed(given) ELSE maker = "cpp" \/ Fits
  <2>1. validate(msg) \in BOOLEAN
    BY DEF validate
  <2>2. CASE t = Type.IDLE
    BY <1>4, <1>11, <2>1, <2>2
  <2>3. CASE t # Type.IDLE
    BY <1>2, <1>4, <2>1, <2>3
  <2> QED
    BY <2>2, <2>3
<1> QED
  BY <1>3, <1>4, <1>7, <1>8, <1>9, <1>10, <1>12 DEF SbcpReadBack
-----------------------------------------------------------------------------
(* The messages the programs build.                                        *)

LEMMA OneIs ==
  ASSUME NEW type \in DOMAIN Limit, NEW v \in Seq(1 .. 255)
  PROVE  LET g == <<[type |-> type, value |-> v]>> IN
         /\ g \in Seq(Texts \cup Counters) /\ Len(g) = 1 /\ g[1].type = type /\ g[1].value = v
         /\ Kept(g) = <<Shortened(type, v)>>
         /\ Fitting(g) <=> Len(v) <= Limit[type]
<1> DEFINE b == [type |-> type, value |-> v]
<1>1. b \in Texts \cup Counters /\ b.type = type /\ b.value = v
  BY DEF Texts
<1>2. KeptOf(b) = Shortened(type, v)
  BY <1>1, LimitsFit DEF KeptOf
<1> HIDE DEF b
<1> DEFINE g == <<b>>
<1>3. g \in Seq(Texts \cup Counters) /\ Len(g) = 1 /\ g[1] = b
  BY <1>1
<1>4. Kept(g) = <<KeptOf(b)>>
  BY <1>3 DEF Kept
<1>5. Fitting(g) <=> Len(v) <= Limit[type]
  <2>1. \A k \in 1 .. Len(g) : k = 1
    BY <1>3
  <2>2. 1 \in 1 .. Len(g)
    BY <1>3
  <2> QED
    BY <1>1, <1>3, <2>1, <2>2 DEF Fitting
<1> HIDE DEF g
<1> QED
  BY <1>1, <1>2, <1>3, <1>4, <1>5 DEF g, b

LEMMA SingleSound ==
  ASSUME NEW t \in 2 .. 9, t # Type.ACK, NEW type \in DOMAIN Limit, t = Type.SEND => type = MESSAGE,
         t = Type.IDLE => type = USERNAME, NEW v \in Seq(1 .. 255),
         4 + Limit[type] <= MAX_PAYLOAD, 4 + Limit[type] <= MaxLength(t), 0 <= MaxLength(t)
  PROVE  Sound(Single(t, type, v), One(type, v), "cpp")
<1>1. PICK p : p = Single(t, type, v)
  OBVIOUS
<1>2. Whole(p, t, <<Shortened(type, v)>>) /\ p.length <= MaxLength(t)
  BY <1>1, SingleIs
<1>3. PICK g : g = One(type, v)
  OBVIOUS
<1>4. /\ g \in Seq(Texts \cup Counters) /\ Len(g) = 1 /\ g[1].type = type
      /\ Kept(g) = <<Shortened(type, v)>>
  BY <1>3, OneIs DEF One
<1>5. Form(t, g)
  BY <1>4 DEF Form, Overnamed
<1> QED
  BY <1>1, <1>2, <1>3, <1>4, <1>5 DEF Sound

(* The Elixir client: as libsbcp, if the value fits; and if it does not,    *)
(* the message is too long to be accepted.                                 *)
LEMMA ElixirIs ==
  ASSUME NEW t \in {Type.JOIN, Type.SEND}, NEW type, t = Type.JOIN => type = USERNAME,
         t = Type.SEND => type = MESSAGE,
         NEW v \in Seq(1 .. 255), Len(v) <= Limit[type] + 1,
         NEW m, m = ex_message(t, type, v), NEW g, g = One(type, v)
  PROVE  Sound(m, g, "elixir") \/ Rejected(m, g, "elixir")
<1>1. /\ t \in 2 .. 9 /\ type \in DOMAIN Limit /\ t # Type.ACK /\ t # Type.IDLE
      /\ MaxLength(t) = 4 + Limit[type] /\ 5 + Limit[type] <= MAX_PAYLOAD
  <2>1. CASE t = Type.JOIN
    BY <2>1, LimitsFit, MaxIs DEF Type
  <2>2. CASE t = Type.SEND
    BY <2>2, LimitsFit, MaxIs DEF Type
  <2> QED
    BY <2>1, <2>2
<1>2. PICK n \in Nat, l \in Nat : n = Len(v) /\ l = Limit[type] /\ n <= l + 1
  BY <1>1, LimitsFit
<1>3. 5 + l <= MAX_PAYLOAD
  BY <1>1, <1>2
<1>4. PICK b \in Attr : b = [type |-> type, value |-> v]
  <2>1. v \in Seq(Nat)
    BY TextIs
  <2> QED
    BY <1>1, <2>1, LimitsFit DEF Attr
<1>5. b.type = type /\ b.value = v
  BY <1>4
<1>6. m = Put(Message(t), Bytes(b))
  BY <1>5 DEF ex_message, ex_attribute, Bytes, Header
<1>7. PICK e, a, f : /\ e = Message(t) /\ Typed(e, t) /\ e.length = 0 /\ ~e.thrown
                     /\ a = <<>> /\ Laid(e, a, f)
  BY <1>1, MessageIs
<1>8. e.length + 4 + Len(b.value) <= MAX_PAYLOAD
  BY <1>2, <1>3, <1>5, <1>7, LimitsFit, SMTT(30)
<1>9. e \in Msgs
  BY <1>7 DEF Laid
<1>10. /\ m.upper = e.upper /\ m.lower = e.lower /\ m.thrown = e.thrown
       /\ m.length = e.length + 4 + Len(b.value)
  BY <1>6, <1>7, <1>8, <1>9, PutIs
<1>11. Typed(m, t) /\ ~m.thrown /\ m.length = 4 + n
  BY <1>2, <1>5, <1>7, <1>10 DEF Typed
<1>12. \E h : Laid(m, Append(a, b), h)
  BY <1>6, <1>7, <1>8, PutLaid
<1>13. Append(a, b) = <<b>>
  BY <1>7
<1>14. Whole(m, t, <<b>>)
  BY <1>11, <1>12, <1>13 DEF Whole
<1>15. /\ g \in Seq(Texts \cup Counters) /\ Len(g) = 1 /\ g[1].type = type
       /\ Kept(g) = <<Shortened(type, v)>> /\ (Fitting(g) <=> Len(v) <= Limit[type])
  BY <1>1, OneIs DEF One
<1>16. CASE n <= l
  <2>1. Shortened(type, v) = b
    <3>1. Shortened(type, v).value = v
      BY <1>1, <1>2, <1>16, ShortenedIs
    <3> QED
      BY <1>4, <3>1 DEF Shortened
  <2>2. m.length <= MaxLength(t)
    BY <1>1, <1>2, <1>11, <1>16
  <2>3. Form(t, g)
    BY <1>1, <1>15 DEF Form
  <2>4. Fitting(g)
    BY <1>2, <1>15, <1>16
  <2> QED
    BY <1>1, <1>14, <1>15, <2>1, <2>2, <2>3, <2>4 DEF Sound
<1>17. CASE ~(n <= l)
  <2>1. ~(m.length <= MaxLength(t))
    BY <1>1, <1>2, <1>11, <1>17
  <2>2. ~validate(m) /\ get_type(m) = t
    BY <1>1, <1>11, <2>1, ValidIs, HeaderIs
  <2>3. ~Fitting(g)
    BY <1>2, <1>15, <1>17
  <2> QED
    BY <1>1, <1>11, <1>15, <2>2, <2>3 DEF Rejected
<1> QED
  BY <1>16, <1>17
(* The server adds the name of the sender.                                 *)
LEMMA NameAdded ==
  ASSUME NEW g \in Seq(Texts \cup Counters), NEW name \in Names, NEW h, h = g \o One(USERNAME, name)
  PROVE  /\ name \in Seq(1 .. 255)
         /\ h \in Seq(Texts \cup Counters) /\ Kept(h) = Append(Kept(g), Shortened(USERNAME, name))
         /\ Len(h) = Len(g) + 1
         /\ Fitting(g) => Fitting(h)
<1> DEFINE b == [type |-> USERNAME, value |-> name]
<1>1. name \in Seq(1 .. 255) /\ Len(name) \in Nat /\ Len(name) <= MAX_USERNAME
  BY LimitsFit, ValuesAre DEF Names
<1>2. b \in Texts \cup Counters /\ b.type = USERNAME /\ b.value = name
  BY <1>1, LimitsFit DEF Texts
<1>3. KeptOf(b) = Shortened(USERNAME, name)
  BY <1>2, LimitsFit DEF KeptOf
<1>4. h = g \o <<b>>
  BY DEF One
<1> HIDE DEF b
<1>5. /\ h \in Seq(Texts \cup Counters)
      /\ Len(h) = Len(g) + 1 /\ h[Len(g) + 1] = b
      /\ \A k \in 1 .. Len(g) : h[k] = g[k]
      /\ Kept(h) = Append(Kept(g), KeptOf(b))
  <2>1. PICK c \in Texts \cup Counters : c = b
    BY <1>2
  <2>2. /\ g \o <<c>> \in Seq(Texts \cup Counters)
        /\ Len(g \o <<c>>) = Len(g) + 1 /\ (g \o <<c>>)[Len(g) + 1] = c
        /\ \A k \in 1 .. Len(g) : (g \o <<c>>)[k] = g[k]
        /\ Kept(g \o <<c>>) = Append(Kept(g), KeptOf(c))
    BY KeptGrows
  <2>3. h = g \o <<c>>
    BY <1>4, <2>1
  <2> QED
    BY <2>1, <2>2, <2>3
<1>6. ASSUME Fitting(g) PROVE Fitting(h)
  <2>1. Len(g) \in Nat
    OBVIOUS
  <2>2. ASSUME NEW k \in 1 .. Len(h), h[k].type \in DOMAIN Limit PROVE Len(h[k].value) <= Limit[h[k].type]
    <3>1. CASE k = Len(g) + 1
      BY <1>1, <1>2, <1>5, <3>1, LimitsFit
    <3>2. CASE k # Len(g) + 1
      <4>1. k \in 1 .. Len(g)
        BY <1>5, <2>1, <3>2
      <4>2. h[k] = g[k]
        BY <1>5, <4>1
      <4> QED
        BY <1>6, <2>2, <4>1, <4>2 DEF Fitting
    <3> QED
      BY <3>1, <3>2
  <2> QED
    BY <2>2 DEF Fitting
<1> QED
  BY <1>1, <1>3, <1>5, <1>6

LEMMA ForwardSound ==
  ASSUME NEW m, NEW g, NEW who, Sound(m, g, who), NEW name \in Names, get_type(m) = Type.SEND
  PROVE  Sound(change_to_fwd(m, name), g \o One(USERNAME, name), who)
<1>1. PICK t \in 2 .. 9 : Whole(m, t, Kept(g)) /\ m.length <= MaxLength(t) /\ Form(t, g)
  BY DEF Sound
<1>2. PICK f : Laid(m, Kept(g), f) /\ Typed(m, t) /\ ~m.thrown
  BY <1>1 DEF Whole
<1>3. t = Type.SEND
  BY <1>2, HeaderIs
<1>4. Type.FWD \in 2 .. 9 /\ Type.FWD # Type.SEND /\ Type.FWD # Type.ACK /\ Type.FWD # Type.IDLE
  BY DEF Type
<1>5. g \in Seq(Texts \cup Counters) /\ (who = "cpp" \/ Fitting(g))
  BY DEF Sound
<1>6. PICK q, u : q = set_type(m, u) /\ u = Type.FWD /\ u \in 2 .. 9
  BY <1>4
<1>7. /\ Laid(q, Kept(g), f) /\ Typed(q, u) /\ q.length = m.length /\ q.thrown = m.thrown
  BY <1>2, <1>6, Retyped
<1>8. Whole(q, u, Kept(g))
  BY <1>2, <1>7 DEF Whole
<1>9. q.length \in Nat /\ q.length <= 4 + MAX_MESSAGE
  BY <1>1, <1>3, <1>7, <1>8, MaxIs, WholeLength
<1>10. Room(q, u, Kept(g), USERNAME, name)
  <2>1. MaxLength(u) = 8 + MAX_USERNAME + MAX_MESSAGE /\ Limit[USERNAME] = MAX_USERNAME /\ USERNAME \in DOMAIN Limit
    BY <1>6, LimitsFit, MaxIs
  <2>2. q.length <= MaxLength(u) /\ q.length + 4 + Limit[USERNAME] <= MAX_PAYLOAD
    BY <1>9, <2>1, LimitsFit
  <2>3. name \in Seq(1 .. 255)
    BY <1>5, NameAdded
  <2> QED
    BY <1>6, <1>8, <2>1, <2>2, <2>3 DEF Room
<1>11. PICK p : p = change_to_fwd(m, name)
  OBVIOUS
<1>12. Added(p, q, u, Kept(g), USERNAME, name)
  BY <1>6, <1>10, <1>11, AddText DEF change_to_fwd, add_username
<1>13. p.length <= MaxLength(u)
  BY <1>6, <1>9, <1>12, LimitsFit, MaxIs DEF Added
<1>14. PICK h : h = g \o One(USERNAME, name)
  OBVIOUS
<1>15. /\ h \in Seq(Texts \cup Counters) /\ Kept(h) = Append(Kept(g), Shortened(USERNAME, name))
       /\ Fitting(g) => Fitting(h)
  BY <1>5, <1>14, NameAdded
<1>16. Whole(p, u, Kept(h))
  BY <1>12, <1>15 DEF Added
<1>17. Form(u, h)
  BY <1>4, <1>6 DEF Form
<1>18. Sound(p, h, who)
  BY <1>5, <1>6, <1>13, <1>15, <1>16, <1>17 DEF Sound
<1> QED
  BY <1>11, <1>14, <1>18

(* With a name before it or not; two names may be too long for an IDLE.    *)
LEMMA ForwardIdleSound ==
  ASSUME NEW m, NEW g, NEW who, Sound(m, g, who), Len(g) < 2,
         NEW name \in Names, get_type(m) = Type.IDLE,
         NEW p, p = add_username(m, name), NEW h, h = g \o One(USERNAME, name)
  PROVE  Sound(p, h, who) \/ Overlong(p, h)
<1>1. g \in Seq(Texts \cup Counters) /\ (who = "cpp" \/ Fitting(g))
  BY DEF Sound
<1>2. PICK t \in 2 .. 9 : Whole(m, t, Kept(g)) /\ m.length <= MaxLength(t) /\ Form(t, g)
  BY DEF Sound
<1>3. PICK f : Laid(m, Kept(g), f) /\ Typed(m, t) /\ ~m.thrown
  BY <1>2 DEF Whole
<1>4. t = Type.IDLE /\ Type.IDLE # Type.SEND /\ Type.IDLE # Type.ACK
  <2>1. t = Type.IDLE
    BY <1>3, HeaderIs
  <2> QED
    BY <2>1 DEF Type
<1>5. MaxLength(t) = 4 + MAX_USERNAME /\ Limit[USERNAME] = MAX_USERNAME /\ USERNAME \in DOMAIN Limit
  BY <1>4, LimitsFit, MaxIs
<1>6. PICK L \in Nat : L = m.length /\ L <= 4 + MAX_USERNAME
  BY <1>2, <1>5, WholeLength
<1>7. PICK n \in Nat : n = Len(name) /\ n <= MAX_USERNAME
  BY LimitsFit, ValuesAre DEF Names
<1>8. /\ name \in Seq(1 .. 255)
      /\ h \in Seq(Texts \cup Counters) /\ Kept(h) = Append(Kept(g), Shortened(USERNAME, name))
      /\ Len(h) = Len(g) + 1 /\ (Fitting(g) => Fitting(h))
  BY <1>1, NameAdded
<1>9. PICK b \in Attr : /\ b = Shortened(USERNAME, name) /\ Attribute(USERNAME, name) = Bytes(b)
                        /\ b.value = name
  BY <1>5, <1>7, <1>8, ShortenedIs
<1>10. Whole(p, t, Kept(h)) /\ p.length = L + 4 + n
  <2>1. L + 4 + n <= MAX_PAYLOAD
    <3>1. PICK u \in Nat, x \in Nat : u = MAX_USERNAME /\ x = MAX_PAYLOAD /\ x >= 8 + u + u
      BY LimitsFit
    <3>2. L <= 4 + u /\ n <= u
      BY <1>6, <1>7, <3>1
    <3>3. L + 4 + n <= x
      BY <3>1, <3>2
    <3> QED
      BY <3>1, <3>3
  <2>2. m.length + 4 + Len(b.value) <= MAX_PAYLOAD
    BY <1>6, <1>7, <1>9, <2>1
  <2>3. p = add_attribute(m, Bytes(b))
    BY <1>9 DEF add_username
  <2>4. Whole(p, t, Append(Kept(g), b)) /\ p.length = m.length + 4 + Len(b.value)
    BY <1>2, <2>2, <2>3, AddIs
  <2> QED
    BY <1>6, <1>7, <1>8, <1>9, <2>4
<1>11. ~p.thrown /\ Typed(p, t) /\ get_type(p) = t /\ (validate(p) <=> p.length <= MaxLength(t))
  BY <1>10, HeaderIs, ValidIs DEF Whole
<1>12. Len(Kept(g)) = Len(g) /\ Len(g) \in Nat
  BY <1>1, KeptIs
<1>13. h[Len(g) + 1] = [type |-> USERNAME, value |-> name] /\ \A k \in 1 .. Len(g) : h[k] = g[k]
  <2>0. PICK T : T = Texts \cup Counters
    OBVIOUS
  <2>1. PICK b1 \in T : b1 = [type |-> USERNAME, value |-> name]
    BY <1>5, <1>8, <2>0 DEF Texts
  <2>2. h = g \o <<b1>> /\ g \in Seq(T)
    BY <1>1, <2>0, <2>1 DEF One
  <2> QED
    BY <2>1, <2>2, ExtendedIs
<1>14. CASE Len(g) = 0
  <2>1. L = 0
    BY <1>3, <1>6, <1>12, <1>14 DEF Laid
  <2>2. p.length <= MaxLength(t)
    BY <1>5, <1>7, <1>10, <2>1, LimitsFit
  <2>3. Len(h) = 1 /\ h[1].type = USERNAME
    BY <1>8, <1>13, <1>14
  <2>4. Form(t, h)
    BY <1>4, <2>3 DEF Form, Overnamed
  <2> QED
    BY <1>1, <1>8, <1>10, <2>2, <2>4 DEF Sound
<1>15. CASE Len(g) = 1
  <2>1. g[1].type = USERNAME /\ g[1] \in Texts
    <3>1. g[1].type = USERNAME
      BY <1>2, <1>4, <1>15 DEF Form
    <3>2. g[1] \in Texts \cup Counters
      BY <1>1, <1>15
    <3> QED
      BY <3>1, <3>2, LimitsFit DEF Counters
  <2>2. PICK v \in Seq(1 .. 255) : v = g[1].value
    BY <2>1 DEF Texts
  <2>3. PICK c \in Nat, d \in Nat : /\ c = Len(v) /\ d = Smaller(c, MAX_USERNAME)
                                   /\ Len(Kept(g)[1].value) = d
    <3>1. PICK c \in Nat : c = Len(v)
      BY <2>2
    <3>2. PICK d \in Nat : d = Smaller(c, MAX_USERNAME) /\ d <= c
      BY <3>1, LimitsFit DEF Smaller
    <3>3. Kept(g)[1] = Shortened(USERNAME, v)
      <4>1. 1 \in 1 .. Len(g)
        BY <1>15
      <4>2. Kept(g)[1] = KeptOf(g[1])
        BY <1>1, <4>1, KeptIs
      <4> QED
        BY <2>1, <2>2, <4>2, LimitsFit DEF KeptOf
    <3>4. Shortened(USERNAME, v).value = SubSeq(v, 1, d)
      BY <1>5, <3>1, <3>2 DEF Shortened
    <3>5. Len(SubSeq(v, 1, d)) = d
      BY <3>1, <3>2, PrefixIs
    <3> QED
      BY <3>1, <3>2, <3>3, <3>4, <3>5
  <2>4. L = 4 + d
    <3>1. Len(Kept(g)) = 1
      BY <1>12, <1>15
    <3>2. f[0] = 0 /\ f[1] = L /\ f[1] = f[1 - 1] + 4 + Len(Kept(g)[1].value)
      BY <1>3, <1>6, <3>1 DEF Laid
    <3> QED
      BY <2>3, <3>2
  <2>5. p.length <= MaxLength(t) <=> 4 + c + n <= MAX_USERNAME
    <3>1. PICK u \in Nat : u = MAX_USERNAME
      BY LimitsFit
    <3>2. d <= c /\ (d = c \/ (d = u /\ c > u))
      BY <2>3, <3>1 DEF Smaller
    <3>3. (4 + d) + 4 + n <= 4 + u <=> 4 + c + n <= u
      BY <3>2
    <3> QED
      BY <1>5, <1>10, <2>4, <3>1, <3>3
  <2>6. Len(h) = 2 /\ h[1] = g[1] /\ h[2].value = name
    BY <1>8, <1>13, <1>15
  <2>7. Overnamed(h) <=> 4 + c + n > MAX_USERNAME
    BY <1>7, <2>2, <2>3, <2>6 DEF Overnamed
  <2>8. CASE p.length <= MaxLength(t)
    <3>1. ~Overnamed(h)
      BY <2>5, <2>7, <2>8, LimitsFit
    <3>2. Form(t, h)
      BY <1>4, <2>6, <3>1 DEF Form
    <3> QED
      BY <1>1, <1>8, <1>10, <2>8, <3>2 DEF Sound
  <2>9. CASE ~(p.length <= MaxLength(t))
    <3>1. ~(4 + c + n <= MAX_USERNAME) /\ 4 + c + n \in Nat
      BY <1>7, <2>3, <2>5, <2>9
    <3>2. 4 + c + n > MAX_USERNAME
      BY <3>1, LimitsFit
    <3>3. Overnamed(h)
      BY <2>7, <3>2
    <3> QED
      BY <1>4, <1>11, <2>9, <3>3 DEF Overlong
  <2> QED
    BY <2>8, <2>9
<1> QED
  BY <1>12, <1>14, <1>15

-----------------------------------------------------------------------------
(* ACK: one attribute after the other, as long as there is room.           *)

LEMMA AddTyped ==
  ASSUME NEW m \in Msgs, NEW b \in Attr, NEW p, p = add_attribute(m, Bytes(b))
  PROVE  p \in Msgs /\ p.upper = m.upper /\ p.lower = m.lower
<1>1. CASE m.thrown \/ ~validate(m) \/ m.length + Len(Bytes(b)) > MAX_PAYLOAD
  <2>1. p = [m EXCEPT !.thrown = TRUE]
    BY <1>1 DEF add_attribute
  <2> QED
    BY <2>1 DEF Msgs
<1>2. CASE ~(m.thrown \/ ~validate(m) \/ m.length + Len(Bytes(b)) > MAX_PAYLOAD)
  <2>1. p = Put(m, Bytes(b))
    BY <1>2 DEF add_attribute
  <2>2. m.length + 4 + Len(b.value) <= MAX_PAYLOAD
    <3>1. Len(Bytes(b)) = 4 + Len(b.value) /\ Len(b.value) \in Nat
      BY BytesAre
    <3>2. PICK L \in Nat, n \in Nat : L = m.length /\ n = Len(b.value)
      BY <3>1 DEF Msgs
    <3>3. ~(L + (4 + n) > MAX_PAYLOAD)
      BY <1>2, <3>1, <3>2
    <3>4. L + 4 + n <= MAX_PAYLOAD
      BY <3>3, LimitsFit
    <3> QED
      BY <3>2, <3>4
  <2> QED
    BY <2>1, <2>2, PutIs
<1> QED
  BY <1>1, <1>2

(* A message that was to hold the attributes a, of s bytes.                *)
Holds(m, t, a, s) ==
  /\ m \in Msgs /\ Typed(m, t) /\ s \in Nat
  /\ \/ m.thrown /\ s > MAX_PAYLOAD
     \/ Whole(m, t, a) /\ m.length = s

LEMMA AddStep ==
  ASSUME NEW m, NEW a, NEW s, NEW t, t = Type.ACK, Holds(m, t, a, s), NEW b \in Attr,
         NEW p, p = add_attribute(m, Bytes(b))
  PROVE  Holds(p, t, Append(a, b), s + 4 + Len(b.value))
<1>1. PICK n \in Nat : n = Len(b.value) /\ Len(Bytes(b)) = 4 + n
  BY BytesAre
<1>2. m \in Msgs /\ Typed(m, t) /\ s \in Nat /\ MAX_PAYLOAD \in Nat
  BY LimitsFit DEF Holds
<1>3. p \in Msgs /\ Typed(p, t)
  BY <1>2, AddTyped DEF Typed
<1>4. CASE m.thrown
  <2>1. p.thrown
    BY <1>2, <1>4 DEF add_attribute, Msgs
  <2>2. s > MAX_PAYLOAD
    BY <1>4 DEF Holds, Whole
  <2>3. s + 4 + n > MAX_PAYLOAD /\ s + 4 + n \in Nat
    BY <1>2, <2>2
  <2> QED
    BY <1>1, <1>3, <2>1, <2>3 DEF Holds
<1>5. CASE ~m.thrown
  <2>1. Whole(m, t, a) /\ m.length = s
    BY <1>5 DEF Holds
  <2>2. t \in 2 .. 9 /\ m.length <= MaxLength(t)
    <3>1. t \in 2 .. 9 /\ MaxLength(t) = MAX_PAYLOAD
      BY MaxIs DEF Type
    <3> QED
      BY <2>1, <3>1 DEF Whole, Laid
  <2>3. CASE s + 4 + n <= MAX_PAYLOAD
    <3>1. Whole(p, t, Append(a, b)) /\ p.length = m.length + 4 + Len(b.value)
      BY <1>1, <2>1, <2>2, <2>3, AddIs
    <3>2. s + 4 + n \in Nat
      BY <1>2
    <3> QED
      BY <1>1, <1>3, <2>1, <3>1, <3>2 DEF Holds
  <2>4. CASE ~(s + 4 + n <= MAX_PAYLOAD)
    <3>1. s + (4 + n) > MAX_PAYLOAD /\ s + 4 + n > MAX_PAYLOAD /\ s + 4 + n \in Nat
      BY <1>2, <2>4
    <3>2. m.length + Len(Bytes(b)) > MAX_PAYLOAD
      BY <1>1, <2>1, <3>1
    <3>3. p.thrown
      BY <1>2, <3>2 DEF add_attribute, Msgs
    <3> QED
      BY <1>1, <1>3, <3>1, <3>3 DEF Holds
  <2> QED
    BY <2>3, <2>4
<1> QED
  BY <1>4, <1>5

(* The first k attributes of q.                                            *)
Front(q, k) == [j \in 1 .. k |-> q[j]]

LEMMA FrontTyped ==
  ASSUME NEW T, NEW k \in Nat, NEW q, \A j \in 1 .. k : q[j] \in T
  PROVE  Front(q, k) \in Seq(T) /\ Len(Front(q, k)) = k /\ \A j \in 1 .. k : Front(q, k)[j] = q[j]
<1>1. PICK c : c = Front(q, k)
  OBVIOUS
<1>2. c = [j \in 1 .. k |-> q[j]]
  BY <1>1 DEF Front
<1>3. c \in [1 .. k -> T] /\ \A j \in 1 .. k : c[j] = q[j]
  BY <1>2
<1>4. c \in Seq(T) /\ Len(c) = k
  BY <1>3
<1> QED
  BY <1>1, <1>3, <1>4

LEMMA FrontIs ==
  ASSUME NEW T, NEW q \in Seq(T)
  PROVE  /\ Front(q, 0) = <<>> /\ Front(q, Len(q)) = q
         /\ \A k \in 0 .. Len(q) - 1 : Front(q, k + 1) = Append(Front(q, k), q[k + 1])
<1>1. PICK n \in Nat : n = Len(q)
  OBVIOUS
<1>2. Front(q, 0) = <<>>
  BY DEF Front
<1>3. Front(q, n) = q
  BY <1>1 DEF Front
<1>4. ASSUME NEW k \in 0 .. n - 1 PROVE Front(q, k + 1) = Append(Front(q, k), q[k + 1])
  <2>1. \A j \in 1 .. k + 1 : q[j] \in T
    BY <1>1
  <2>2. PICK c : c = Front(q, k) /\ c \in Seq(T) /\ Len(c) = k /\ \A j \in 1 .. k : c[j] = q[j]
    <3>1. k \in Nat /\ \A j \in 1 .. k : q[j] \in T
      BY <2>1
    <3>2. Front(q, k) \in Seq(T) /\ Len(Front(q, k)) = k /\ \A j \in 1 .. k : Front(q, k)[j] = q[j]
      BY <3>1, FrontTyped
    <3> QED
      BY <3>2
  <2>3. PICK d : d = Front(q, k + 1) /\ d \in Seq(T) /\ Len(d) = k + 1 /\ \A j \in 1 .. k + 1 : d[j] = q[j]
    <3>1. k + 1 \in Nat
      OBVIOUS
    <3>2. /\ Front(q, k + 1) \in Seq(T) /\ Len(Front(q, k + 1)) = k + 1
          /\ \A j \in 1 .. k + 1 : Front(q, k + 1)[j] = q[j]
      BY <2>1, <3>1, FrontTyped
    <3> QED
      BY <3>2
  <2>4. PICK e \in T : e = q[k + 1]
    BY <2>1
  <2>5. PICK x \in Seq(T) : x = Append(c, e) /\ Len(x) = k + 1 /\ x[k + 1] = e /\ \A j \in 1 .. k : x[j] = c[j]
    <3>1. Append(c, e) \in Seq(T) /\ Len(Append(c, e)) = Len(c) + 1
          /\ Append(c, e)[Len(c) + 1] = e /\ \A j \in 1 .. Len(c) : Append(c, e)[j] = c[j]
      BY <2>2, AppendedIs
    <3> QED
      BY <2>2, <3>1
  <2>6. \A j \in 1 .. k + 1 : d[j] = x[j]
    <3>1. \A j \in 1 .. k + 1 : j = k + 1 \/ j \in 1 .. k
      OBVIOUS
    <3> QED
      BY <2>2, <2>3, <2>4, <2>5, <3>1
  <2>7. d = x
    BY <2>3, <2>5, <2>6
  <2> QED
    BY <2>2, <2>3, <2>4, <2>5, <2>7
<1> QED
  BY <1>1, <1>2, <1>3, <1>4

(* What the server is asked to put into an ACK: the count, then the names.  *)
Roster(r) == <<[type |-> CLIENT_COUNT, value |-> htons(Len(r) + 1)]>>
               \o [k \in DOMAIN r |-> [type |-> USERNAME, value |-> r[k]]]

LEMMA JoinedIs ==
  ASSUME NEW T, NEW c \in T, NEW n \in Nat, NEW x \in [1 .. n -> T]
  PROVE  /\ <<c>> \o x \in Seq(T) /\ Len(<<c>> \o x) = n + 1 /\ (<<c>> \o x)[1] = c
         /\ \A k \in 1 .. n : (<<c>> \o x)[k + 1] = x[k]
<1>1. x \in Seq(T) /\ Len(x) = n
  OBVIOUS
<1>2. <<c>> \in Seq(T) /\ Len(<<c>>) = 1 /\ <<c>>[1] = c
  OBVIOUS
<1> QED
  BY <1>1, <1>2

LEMMA PairIs ==
  ASSUME NEW T, NEW u \in T, NEW v \in T
  PROVE  <<u, v>> \in Seq(T) /\ Len(<<u, v>>) = 2
OBVIOUS

LEMMA RosterIs ==
  ASSUME NEW r \in Rosters, NEW g, g = Roster(r)
  PROVE  /\ Len(r) \in Nat /\ g \in Seq(Texts \cup Counters) /\ Len(g) = Len(r) + 1
         /\ g[1] = [type |-> CLIENT_COUNT, value |-> htons(Len(r) + 1)]
         /\ \A k \in 1 .. Len(r) : g[k + 1] = [type |-> USERNAME, value |-> r[k]] /\ r[k] \in Names
<1>1. PICK n \in Nat : r \in [1 .. n -> Names]
  <2>1. PICK m \in 0 .. MaxOthers : r \in [1 .. m -> Names]
    BY DEF Rosters
  <2>2. m \in Nat
    BY <2>1
  <2> QED
    BY <2>1, <2>2
<1>2. Len(r) = n /\ DOMAIN r = 1 .. n
  BY <1>1
<1>3. PICK T : T = Texts \cup Counters
  OBVIOUS
<1>4. PICK c \in T : c = [type |-> CLIENT_COUNT, value |-> htons(n + 1)]
  <2>1. htons(n + 1) \in Seq(Nat) /\ Len(htons(n + 1)) = 2
    <3>1. PICK u \in Nat, v \in Nat : u = (n + 1) \div 256 /\ v = (n + 1) % 256
      OBVIOUS
    <3>2. htons(n + 1) = <<u, v>>
      BY <3>1 DEF htons
    <3>3. <<u, v>> \in Seq(Nat) /\ Len(<<u, v>>) = 2
      BY PairIs
    <3> QED
      BY <3>2, <3>3
  <2>2. [type |-> CLIENT_COUNT, value |-> htons(n + 1)] \in Counters
    BY <2>1 DEF Counters
  <2> QED
    BY <1>3, <2>2
<1>5. PICK x \in [1 .. n -> T] : x = [k \in 1 .. n |-> [type |-> USERNAME, value |-> r[k]]]
  <2>1. ASSUME NEW k \in 1 .. n PROVE [type |-> USERNAME, value |-> r[k]] \in T
    <3>1. r[k] \in Names
      BY <1>1
    <3>2. r[k] \in Seq(1 .. 255)
      BY <3>1, LimitsFit, ValuesAre DEF Names
    <3> QED
      BY <1>3, <3>2, LimitsFit DEF Texts
  <2> QED
    BY <2>1
<1>6. g = <<c>> \o x
  BY <1>2, <1>4, <1>5 DEF Roster
<1>7. g \in Seq(T) /\ Len(g) = n + 1 /\ g[1] = c /\ \A k \in 1 .. n : g[k + 1] = x[k]
  <2>1. /\ <<c>> \o x \in Seq(T) /\ Len(<<c>> \o x) = n + 1 /\ (<<c>> \o x)[1] = c
        /\ \A k \in 1 .. n : (<<c>> \o x)[k + 1] = x[k]
    BY JoinedIs
  <2> QED
    BY <1>6, <2>1
<1>8. \A k \in 1 .. n : x[k] = [type |-> USERNAME, value |-> r[k]]
  BY <1>5
<1>9. \A k \in 1 .. n : r[k] \in Names
  BY <1>1
<1> QED
  BY <1>2, <1>3, <1>4, <1>7, <1>8, <1>9

LEMMA SizesExist ==
  ASSUME NEW N \in Nat, NEW g, \A k \in 1 .. N : Len(g[k].value) \in Nat,
         NEW F, F = CHOOSE h : h = [k \in 0 .. N |-> IF k = 0 THEN 0 ELSE h[k - 1] + 4 + Len(g[k].value)]
  PROVE  F[0] = 0 /\ \A k \in 1 .. N : F[k] = F[k - 1] + 4 + Len(g[k].value)
<1> DEFINE Is(h) == h = [k \in 0 .. N |-> IF k = 0 THEN 0 ELSE h[k - 1] + 4 + Len(g[k].value)]
<1>1. PICK h \in [1 .. N -> [Nat -> Nat]] : h = [k \in 1 .. N |-> [x \in Nat |-> x + 4 + Len(g[k].value)]]
  <2>1. ASSUME NEW k \in 1 .. N PROVE [x \in Nat |-> x + 4 + Len(g[k].value)] \in [Nat -> Nat]
    <3>1. PICK y \in Nat : y = Len(g[k].value)
      OBVIOUS
    <3>2. [x \in Nat |-> x + 4 + y] \in [Nat -> Nat]
      OBVIOUS
    <3> QED
      BY <3>1, <3>2
  <2> QED
    BY <2>1
<1>2. PICK f \in [0 .. N -> Nat] : f = [k \in 0 .. N |-> IF k = 0 THEN 0 ELSE h[k][f[k - 1]]]
  <2>0. PICK S : S = Nat
    OBVIOUS
  <2>1. PICK z \in S : S = Nat /\ z = 0
    BY <2>0
  <2>2. h \in [1 .. N -> [S -> S]]
    BY <2>1
  <2>3. PICK f : Stepped(N, S, z, h, f)
    BY <2>2, StepsExist
  <2> QED
    BY <2>1, <2>3 DEF Stepped
<1>3. Is(f)
  <2>1. ASSUME NEW k \in 0 .. N PROVE f[k] = IF k = 0 THEN 0 ELSE f[k - 1] + 4 + Len(g[k].value)
    <3>1. CASE k = 0
      BY <1>2, <3>1
    <3>2. CASE k # 0
      <4>1. k \in 1 .. N /\ k - 1 \in 0 .. N
        BY <3>2
      <4>2. PICK y \in Nat : y = f[k - 1]
        BY <4>1
      <4>3. h[k][y] = y + 4 + Len(g[k].value)
        BY <1>1, <4>1
      <4>4. f[k] = h[k][f[k - 1]]
        BY <1>2, <3>2
      <4> QED
        BY <3>2, <4>2, <4>3, <4>4
    <3> QED
      BY <3>1, <3>2
  <2>2. f = [k \in 0 .. N |-> f[k]]
    OBVIOUS
  <2> QED
    BY <2>1, <2>2
<1> HIDE DEF Is
<1>4. F = CHOOSE e : Is(e)
  BY DEF Is
<1>5. Is(F)
  BY <1>3, <1>4, Zenon
<1>6. PICK e : e = F
  OBVIOUS
<1>7. e = [k \in 0 .. N |-> IF k = 0 THEN 0 ELSE e[k - 1] + 4 + Len(g[k].value)]
  BY <1>5, <1>6 DEF Is
<1>8. \A k \in 0 .. N : e[k] = IF k = 0 THEN 0 ELSE e[k - 1] + 4 + Len(g[k].value)
  BY <1>7
<1>9. \A k \in 1 .. N : k \in 0 .. N /\ k # 0
  OBVIOUS
<1>10. 0 \in 0 .. N
  OBVIOUS
<1> QED
  BY <1>6, <1>8, <1>9, <1>10

AllTexts(N, r) == \A k \in 1 .. N : r[k] \in Seq(1 .. 255)
AckSteps(N, s, r) == CHOOSE h : h = [k \in 0 .. N |-> IF k = 0 THEN s ELSE add_username(h[k - 1], r[k])]

LEMMA AckStepsExist ==
  ASSUME NEW N \in Nat, NEW r, AllTexts(N, r), NEW s \in Msgs,
         NEW F, F = AckSteps(N, s, r)
  PROVE  F[0] = s /\ \A k \in 1 .. N : F[k] = add_username(F[k - 1], r[k])
<1> DEFINE Is(h) == h = [k \in 0 .. N |-> IF k = 0 THEN s ELSE add_username(h[k - 1], r[k])]
<1>1. PICK h \in [1 .. N -> [Msgs -> Msgs]] : h = [k \in 1 .. N |-> [x \in Msgs |-> add_username(x, r[k])]]
  <2>1. ASSUME NEW k \in 1 .. N, NEW x \in Msgs PROVE add_username(x, r[k]) \in Msgs
    <3>1. PICK v \in Seq(1 .. 255) : v = r[k]
      BY DEF AllTexts
    <3>2. PICK b \in Attr : Attribute(USERNAME, v) = Bytes(b)
      BY LimitsFit, ShortenedIs
    <3> QED
      BY <3>1, <3>2, AddTyped DEF add_username
  <2>2. PICK S : S = Msgs
    OBVIOUS
  <2>3. \A k \in 1 .. N : \A x \in S : add_username(x, r[k]) \in S
    BY <2>1, <2>2
  <2>4. \A k \in 1 .. N : [x \in S |-> add_username(x, r[k])] \in [S -> S]
    BY <2>3
  <2> QED
    BY <2>2, <2>4
<1>2. PICK f \in [0 .. N -> Msgs] : f = [k \in 0 .. N |-> IF k = 0 THEN s ELSE h[k][f[k - 1]]]
  <2>1. PICK S : S = Msgs
    OBVIOUS
  <2>2. h \in [1 .. N -> [S -> S]] /\ s \in S
    BY <2>1
  <2>3. PICK f : Stepped(N, S, s, h, f)
    BY <2>2, StepsExist
  <2> QED
    BY <2>1, <2>3 DEF Stepped
<1>3. Is(f)
  <2>1. ASSUME NEW k \in 0 .. N PROVE f[k] = IF k = 0 THEN s ELSE add_username(f[k - 1], r[k])
    <3>1. CASE k = 0
      BY <1>2, <3>1
    <3>2. CASE k # 0
      <4>1. k \in 1 .. N /\ k - 1 \in 0 .. N
        BY <3>2
      <4>2. PICK y \in Msgs : y = f[k - 1]
        BY <4>1
      <4>3. h[k][y] = add_username(y, r[k])
        BY <1>1, <4>1
      <4>4. f[k] = h[k][f[k - 1]]
        BY <1>2, <3>2
      <4> QED
        BY <3>2, <4>2, <4>3, <4>4
    <3> QED
      BY <3>1, <3>2
  <2>2. f = [k \in 0 .. N |-> f[k]]
    OBVIOUS
  <2> QED
    BY <2>1, <2>2
<1> HIDE DEF Is
<1>4. F = CHOOSE e : Is(e)
  BY DEF Is, AckSteps
<1>5. Is(F)
  BY <1>3, <1>4, Zenon
<1>6. PICK e : e = F
  OBVIOUS
<1>7. e = [k \in 0 .. N |-> IF k = 0 THEN s ELSE add_username(e[k - 1], r[k])]
  BY <1>5, <1>6 DEF Is
<1>8. \A k \in 0 .. N : e[k] = IF k = 0 THEN s ELSE add_username(e[k - 1], r[k])
  BY <1>7
<1>9. \A k \in 1 .. N : k \in 0 .. N /\ k # 0
  OBVIOUS
<1>10. 0 \in 0 .. N
  OBVIOUS
<1> QED
  BY <1>6, <1>8, <1>9, <1>10

(* The attributes the ACK is to hold: the count and the names as they are.  *)
Prepared(r, n, g, q) ==
  /\ q \in Seq(Attr) /\ Len(q) = n + 1
  /\ CountAttribute(n + 1) = Bytes(q[1])
  /\ \A k \in 1 .. n : r[k] \in Seq(1 .. 255) /\ Attribute(USERNAME, r[k]) = Bytes(q[k + 1])
  /\ \A k \in 1 .. n + 1 : Len(g[k].value) = Len(q[k].value)

LEMMA RosterKept ==
  ASSUME NEW r \in Rosters, NEW n \in Nat, n = Len(r), NEW g, g = Roster(r), NEW q, q = Kept(g)
  PROVE  Prepared(r, n, g, q)
<1>1. /\ g \in Seq(Texts \cup Counters) /\ Len(g) = n + 1
      /\ g[1] = [type |-> CLIENT_COUNT, value |-> htons(n + 1)]
      /\ \A k \in 1 .. n : g[k + 1] = [type |-> USERNAME, value |-> r[k]] /\ r[k] \in Names
  BY RosterIs
<1>2. /\ q \in Seq(Attr) /\ Len(q) = n + 1
      /\ \A k \in 1 .. n + 1 : g[k] \in Texts \cup Counters /\ q[k] = KeptOf(g[k])
  BY <1>1, KeptIs
<1>3. /\ q[1] = g[1] /\ CountAttribute(n + 1) = Bytes(q[1])
  <2>1. 1 \in 1 .. n + 1
    OBVIOUS
  <2>2. PICK b : b = g[1] /\ b.type = CLIENT_COUNT /\ b.value = htons(n + 1) /\ b \in Texts \cup Counters
    BY <1>1, <1>2, <2>1
  <2>3. q[1] = b
    BY <1>2, <2>1, <2>2 DEF KeptOf
  <2>4. Len(b.value) = 2
    BY <2>2, LimitsFit DEF Texts, Counters
  <2>5. Bytes(b) = <<CLIENT_COUNT, 0>> \o htons(2) \o htons(n + 1)
    BY <2>2, <2>4 DEF Bytes, Header
  <2> QED
    BY <2>2, <2>3, <2>5 DEF CountAttribute
<1>4. ASSUME NEW k \in 1 .. n
      PROVE  /\ r[k] \in Seq(1 .. 255) /\ Attribute(USERNAME, r[k]) = Bytes(q[k + 1])
             /\ q[k + 1].value = r[k] /\ g[k + 1].value = r[k]
  <2>1. PICK v : v = r[k] /\ v \in Seq(1 .. 255) /\ Len(v) <= Limit[USERNAME]
    BY <1>1, LimitsFit, ValuesAre DEF Names
  <2>2. k + 1 \in 1 .. n + 1
    OBVIOUS
  <2>3. PICK b : b = g[k + 1] /\ b.type = USERNAME /\ b.value = v
    <3>1. g[k + 1] = [type |-> USERNAME, value |-> r[k]]
      BY <1>1
    <3>2. [type |-> USERNAME, value |-> v].type = USERNAME /\ [type |-> USERNAME, value |-> v].value = v
      OBVIOUS
    <3> QED
      BY <2>1, <3>1, <3>2
  <2>4. q[k + 1] = Shortened(USERNAME, v)
    BY <1>2, <2>2, <2>3, LimitsFit DEF KeptOf
  <2>5. Shortened(USERNAME, v).value = v /\ Attribute(USERNAME, v) = Bytes(Shortened(USERNAME, v))
    BY <2>1, LimitsFit, ShortenedIs
  <2> QED
    BY <2>1, <2>3, <2>4, <2>5
<1>5. ASSUME NEW k \in 1 .. n + 1 PROVE Len(g[k].value) = Len(q[k].value)
  <2>1. CASE k = 1
    BY <1>3, <2>1
  <2>2. CASE k # 1
    <3>1. PICK j \in 1 .. n : k = j + 1
      <4>1. k - 1 \in 1 .. n /\ k = k - 1 + 1
        BY <2>2
      <4> QED
        BY <4>1
    <3> QED
      BY <1>4, <3>1
  <2> QED
    BY <2>1, <2>2
<1> QED
  BY <1>2, <1>3, <1>4, <1>5 DEF Prepared

LEMMA AckHolds ==
  ASSUME NEW r \in Rosters, given = Roster(r)
  PROVE  Holds(ACK(Len(r) + 1, r), Type.ACK, Kept(given), Size)
<1> DEFINE Sums == CHOOSE h : h = [k \in 0 .. Len(given) |->
                                     IF k = 0 THEN 0 ELSE h[k - 1] + 4 + Len(given[k].value)]
<1> DEFINE first == add_attribute(Message(Type.ACK), CountAttribute(Len(r) + 1))
<1> DEFINE With == CHOOSE h : h = [k \in 0 .. Len(r) |->
                                     IF k = 0 THEN first ELSE add_username(h[k - 1], r[k])]
<1>1. Size = Sums[Len(given)] /\ ACK(Len(r) + 1, r) = With[Len(r)]
  BY Zenon DEF Size, ACK
<1>0. PICK n \in Nat : n = Len(r)
  BY RosterIs
<1>2. PICK g, q : n = Len(r) /\ g = given /\ q = Kept(g) /\ Len(g) = n + 1
  BY <1>0, RosterIs
<1>3. PICK t \in 2 .. 9 : t = Type.ACK
  BY DEF Type
<1>4. /\ q \in Seq(Attr) /\ Len(q) = n + 1
      /\ CountAttribute(n + 1) = Bytes(q[1])
      /\ \A k \in 1 .. n : r[k] \in Seq(1 .. 255) /\ Attribute(USERNAME, r[k]) = Bytes(q[k + 1])
      /\ \A k \in 1 .. n + 1 : Len(g[k].value) = Len(q[k].value)
  <2>1. g = Roster(r)
    BY <1>2
  <2>2. Prepared(r, n, g, q)
    BY <1>2, <2>1, RosterKept
  <2> QED
    BY <2>2 DEF Prepared
<1>5. \A k \in 1 .. n + 1 : q[k] \in Attr /\ Len(q[k].value) \in Nat
  BY <1>4, BytesAre
<1>6. PICK F : F = Sums
  OBVIOUS
<1>7. F[0] = 0 /\ \A k \in 1 .. n + 1 : F[k] = F[k - 1] + 4 + Len(q[k].value)
  <2>1. n + 1 \in Nat /\ \A k \in 1 .. n + 1 : Len(g[k].value) \in Nat
    BY <1>4, <1>5
  <2>2. F = CHOOSE h : h = [k \in 0 .. n + 1 |-> IF k = 0 THEN 0 ELSE h[k - 1] + 4 + Len(g[k].value)]
    BY <1>2, <1>6, Zenon
  <2>3. F[0] = 0 /\ \A k \in 1 .. n + 1 : F[k] = F[k - 1] + 4 + Len(g[k].value)
    BY <2>1, <2>2, SizesExist
  <2> QED
    BY <1>4, <2>3
<1>8. PICK s : s = first
  OBVIOUS
<1>9. Holds(s, t, Front(q, 1), F[1])
  <2>1. PICK e, a : e = Message(t) /\ Whole(e, t, a) /\ a = <<>> /\ e.length = 0
    BY MessageIs DEF Whole
  <2>2. Holds(e, t, a, 0)
    BY <2>1 DEF Holds, Whole, Laid
  <2>3. 1 \in 1 .. n + 1 /\ 0 \in 0 .. n + 1 - 1
    OBVIOUS
  <2>4. PICK b \in Attr : b = q[1]
    BY <1>5, <2>3
  <2>5. s = add_attribute(e, Bytes(b))
    BY <1>2, <1>3, <1>4, <1>8, <2>1, <2>4
  <2>6. Holds(s, t, Append(a, b), 0 + 4 + Len(b.value))
    BY <1>3, <2>2, <2>5, AddStep
  <2>7. Front(q, 1) = Append(a, b)
    <3>1. Front(q, 0) = <<>> /\ Front(q, 0 + 1) = Append(Front(q, 0), q[0 + 1])
      <4>1. Front(q, 0) = <<>>
        BY <1>4, FrontIs
      <4>2. \A k \in 0 .. Len(q) - 1 : Front(q, k + 1) = Append(Front(q, k), q[k + 1])
        BY <1>4, FrontIs
      <4> QED
        BY <1>4, <2>3, <4>1, <4>2
    <3>2. 0 + 1 = 1
      OBVIOUS
    <3> QED
      BY <2>1, <2>4, <3>1, <3>2
  <2>8. F[1] = 0 + 4 + Len(b.value)
    <3>1. F[1] = F[1 - 1] + 4 + Len(q[1].value) /\ 1 - 1 = 0
      BY <1>7, <2>3
    <3> QED
      BY <1>7, <2>4, <3>1
  <2> QED
    BY <2>6, <2>7, <2>8
<1>10. PICK W : W = With
  OBVIOUS
<1>11. W[0] = s /\ \A k \in 1 .. n : W[k] = add_username(W[k - 1], r[k])
  <2>1. s \in Msgs
    BY <1>9 DEF Holds
  <2>2. AllTexts(n, r)
    BY <1>4 DEF AllTexts
  <2>3. W = AckSteps(n, s, r)
    BY <1>2, <1>8, <1>10, Zenon DEF AckSteps
  <2> QED
    BY <2>1, <2>2, <2>3, AckStepsExist
<1> HIDE DEF Sums, first, With
<1> DEFINE T == {k \in Nat : Holds(W[k], t, Front(q, k + 1), F[k + 1])}
<1>12. ASSUME NEW k \in 0 .. n - 1, Holds(W[k], t, Front(q, k + 1), F[k + 1])
       PROVE  Holds(W[k + 1], t, Front(q, k + 1 + 1), F[k + 1 + 1])
  <2>1. /\ k + 1 \in 1 .. n /\ k + 1 + 1 \in 1 .. n + 1 /\ k + 1 \in 0 .. n + 1 - 1
        /\ k + 1 - 1 = k /\ k + 1 + 1 - 1 = k + 1
    OBVIOUS
  <2>2. PICK b \in Attr : b = q[k + 1 + 1]
    BY <1>5, <2>1
  <2>3. W[k + 1] = add_attribute(W[k], Bytes(b))
    <3>1. W[k + 1] = add_username(W[k + 1 - 1], r[k + 1])
      BY <1>11, <2>1
    <3>2. Attribute(USERNAME, r[k + 1]) = Bytes(b)
      BY <1>4, <2>1, <2>2
    <3> QED
      BY <2>1, <3>1, <3>2 DEF add_username
  <2>4. Holds(W[k + 1], t, Append(Front(q, k + 1), b), F[k + 1] + 4 + Len(b.value))
    BY <1>3, <1>12, <2>3, AddStep
  <2>5. Front(q, k + 1 + 1) = Append(Front(q, k + 1), b)
    BY <1>4, <2>1, <2>2, FrontIs
  <2>6. F[k + 1 + 1] = F[k + 1] + 4 + Len(b.value)
    <3>1. F[k + 1 + 1] = F[k + 1 + 1 - 1] + 4 + Len(q[k + 1 + 1].value)
      BY <1>7, <2>1
    <3> QED
      BY <2>1, <2>2, <3>1
  <2> QED
    BY <2>4, <2>5, <2>6
<1>13. n \in T
  <2>1. T \in SUBSET Nat
    OBVIOUS
  <2>2. 0 \in T
    <3>1. 0 + 1 = 1
      OBVIOUS
    <3> QED
      BY <1>9, <1>11, <3>1
  <2>3. \A k \in 0 .. n - 1 : k \in T => k + 1 \in T
    <3>1. \A k \in 0 .. n - 1 : k + 1 \in Nat
      OBVIOUS
    <3> QED
      BY <1>12, <3>1
  <2> HIDE DEF T
  <2>4. \A k \in 0 .. n : k \in T
    BY <2>1, <2>2, <2>3, Upwards
  <2> QED
    BY <2>4
<1>14. Holds(W[n], t, Front(q, n + 1), F[n + 1])
  BY <1>13
<1>15. Front(q, n + 1) = q
  BY <1>4, FrontIs
<1> QED
  BY <1>1, <1>2, <1>3, <1>6, <1>10, <1>14, <1>15

LEMMA AckIs ==
  ASSUME NEW r \in Rosters, given = Roster(r), NEW m, m = ACK(Len(r) + 1, r)
  PROVE  Failed(m) \/ Sound(m, given, "cpp")
<1>1. PICK t \in 2 .. 9 : t = Type.ACK
  BY DEF Type
<1>2. Holds(m, t, Kept(given), Size)
  BY <1>1, AckHolds
<1>3. CASE m.thrown
  <2>1. Size > MAX_PAYLOAD
    BY <1>2, <1>3 DEF Holds, Whole
  <2>2. get_type(m) = t
    BY <1>2, HeaderIs DEF Holds
  <2> QED
    BY <1>1, <1>3, <2>1, <2>2 DEF Failed
<1>4. CASE ~m.thrown
  <2>1. Whole(m, t, Kept(given))
    BY <1>2, <1>4 DEF Holds
  <2>2. m.length <= MaxLength(t)
    BY <1>1, <2>1, MaxIs DEF Whole, Laid
  <2>3. PICK n \in Nat : n = Len(r)
    BY RosterIs
  <2>4. /\ given \in Seq(Texts \cup Counters) /\ Len(given) = n + 1
        /\ given[1] = [type |-> CLIENT_COUNT, value |-> htons(n + 1)]
        /\ \A k \in 1 .. n : given[k + 1] = [type |-> USERNAME, value |-> r[k]]
    BY <2>3, RosterIs
  <2>5. given[1].type = CLIENT_COUNT /\ given[1].value = htons(Len(given)) /\ Len(given) >= 1
    BY <2>4
  <2>6. ASSUME NEW k \in 2 .. Len(given) PROVE given[k].type # CLIENT_COUNT
    <3>1. PICK j \in 1 .. n : k = j + 1
      <4>1. k - 1 \in 1 .. n /\ k = k - 1 + 1
        BY <2>4
      <4> QED
        BY <4>1
    <3>2. given[j + 1] = [type |-> USERNAME, value |-> r[j]]
      BY <2>4
    <3>3. given[k].type = USERNAME
      BY <3>1, <3>2
    <3> QED
      BY <3>3, LimitsFit
  <2>7. Type.ACK # Type.SEND /\ Type.ACK # Type.IDLE
    BY DEF Type
  <2>8. Form(t, given)
    BY <1>1, <2>5, <2>6, <2>7 DEF Form
  <2> QED
    BY <2>1, <2>2, <2>4, <2>8 DEF Sound
<1> QED
  BY <1>3, <1>4

-----------------------------------------------------------------------------
(* The invariant.                                                          *)

LEMMA MadeSingle ==
  ASSUME NEW t, NEW type, NEW n \in Nat, NEW v \in Values(n),
         \/ t \in {Type.JOIN, Type.IDLE} /\ type = USERNAME
         \/ t = Type.SEND /\ type = MESSAGE
         \/ t = Type.NAK /\ type = REASON
         \/ t \in {Type.ONLINE, Type.OFFLINE} /\ type = USERNAME
  PROVE  Sound(Single(t, type, v), One(type, v), "cpp")
<1>1. v \in Seq(1 .. 255)
  BY ValuesAre
<1>2. /\ t \in 2 .. 9 /\ t # Type.ACK /\ (t = Type.SEND => type = MESSAGE)
      /\ (t = Type.IDLE => type = USERNAME) /\ type \in DOMAIN Limit
  BY LimitsFit DEF Type
<1>3. PICK l \in Nat, x \in Nat : /\ l = Limit[type] /\ x = MaxLength(t)
                                  /\ 4 + l <= MAX_PAYLOAD /\ 4 + l <= x
  <2>1. CASE t \in {Type.JOIN, Type.IDLE} /\ type = USERNAME
    <3>1. MaxLength(t) = 4 + MAX_USERNAME /\ Limit[type] = MAX_USERNAME
      BY <2>1, LimitsFit, MaxIs
    <3>2. 4 + MAX_USERNAME \in Nat /\ 4 + MAX_USERNAME <= MAX_PAYLOAD
      BY LimitsFit
    <3> QED
      BY <3>1, <3>2, LimitsFit
  <2>2. CASE t = Type.SEND /\ type = MESSAGE
    BY <2>2, LimitsFit, MaxIs
  <2>3. CASE t = Type.NAK /\ type = REASON
    BY <2>3, LimitsFit, MaxIs
  <2>4. CASE t \in {Type.ONLINE, Type.OFFLINE} /\ type = USERNAME
    BY <2>4, LimitsFit, MaxIs
  <2> QED
    BY <2>1, <2>2, <2>3, <2>4
<1>4. 4 + Limit[type] <= MAX_PAYLOAD /\ 4 + Limit[type] <= MaxLength(t) /\ 0 <= MaxLength(t)
  BY <1>3
<1> QED
  BY <1>1, <1>2, <1>4, SingleSound

LEMMA IdleSound == Sound(Message(Type.IDLE), <<>>, "cpp")
<1>1. PICK t \in 2 .. 9 : t = Type.IDLE
  BY DEF Type
<1>2. PICK m, a : m = Message(t) /\ Whole(m, t, a) /\ a = <<>> /\ m.length = 0
  BY MessageIs DEF Whole
<1>3. PICK g : g = <<>> /\ g \in Seq(Texts \cup Counters)
  <2>1. PICK S : S = Texts \cup Counters
    OBVIOUS
  <2>2. <<>> \in Seq(S)
    OBVIOUS
  <2> QED
    BY <2>1, <2>2
<1>4. Kept(g) = a
  BY <1>2, <1>3 DEF Kept
<1>5. m.length <= MaxLength(t)
  BY <1>1, <1>2, LimitsFit, MaxIs
<1>6. Form(t, g)
  BY <1>1, <1>3 DEF Form, Type, Overnamed
<1>7. Sound(m, g, "cpp")
  BY <1>2, <1>3, <1>4, <1>5, <1>6 DEF Sound
<1> QED
  BY <1>1, <1>2, <1>3, <1>7

(* A FWD of libsbcp itself: a name, then a text.                           *)
LEMMA FwdSound ==
  ASSUME NEW n \in Nat, NEW v \in Values(n), NEW k \in Nat, NEW w \in Values(k)
  PROVE  Sound(FWD(v, w), One(USERNAME, v) \o One(MESSAGE, w), "cpp")
<1>1. v \in Seq(1 .. 255) /\ w \in Seq(1 .. 255)
  BY ValuesAre
<1>2. PICK t \in 2 .. 9 : t = Type.FWD /\ t # Type.ACK /\ t # Type.SEND /\ t # Type.IDLE
  BY DEF Type
<1>3. MaxLength(t) = 8 + MAX_USERNAME + MAX_MESSAGE
  BY <1>2, MaxIs
<1>4. PICK m, a : m = Message(t) /\ m.length = 0 /\ a = <<>> /\ Whole(m, t, a)
  BY MessageIs DEF Whole
<1>5. Room(m, t, a, USERNAME, v)
  BY <1>1, <1>3, <1>4, LimitsFit DEF Room
<1>6. PICK q : q = add_username(m, v) /\ Added(q, m, t, a, USERNAME, v)
  BY <1>5, AddText DEF add_username
<1>7. PICK b1 : b1 = Shortened(USERNAME, v) /\ Append(a, b1) = <<b1>>
  BY <1>4
<1>8. PICK L \in Nat : L = q.length /\ L <= 4 + MAX_USERNAME
  BY <1>4, <1>6, LimitsFit DEF Added
<1>9. Room(q, t, <<b1>>, MESSAGE, w)
  <2>1. L <= MaxLength(t) /\ L + 4 + Limit[MESSAGE] <= MAX_PAYLOAD
    BY <1>3, <1>8, LimitsFit
  <2>2. Whole(q, t, <<b1>>)
    BY <1>6, <1>7 DEF Added
  <2> QED
    BY <1>1, <1>8, <2>1, <2>2, LimitsFit DEF Room
<1>10. PICK p : p = FWD(v, w) /\ Added(p, q, t, <<b1>>, MESSAGE, w)
  BY <1>2, <1>4, <1>6, <1>9, AddText DEF FWD
<1>11. p.length <= MaxLength(t)
  BY <1>3, <1>8, <1>10, LimitsFit DEF Added
<1>12. PICK g : /\ g = One(USERNAME, v) /\ g \in Seq(Texts \cup Counters) /\ Len(g) = 1
                /\ Kept(g) = <<b1>>
  <2>1. USERNAME \in DOMAIN Limit
    BY LimitsFit
  <2>2. PICK g : g = One(USERNAME, v)
    OBVIOUS
  <2>3. g \in Seq(Texts \cup Counters) /\ Len(g) = 1 /\ Kept(g) = <<Shortened(USERNAME, v)>>
    BY <1>1, <2>1, <2>2, OneIs DEF One
  <2> QED
    BY <1>7, <2>2, <2>3
<1>13. PICK b \in Texts \cup Counters : /\ b = [type |-> MESSAGE, value |-> w]
                                       /\ KeptOf(b) = Shortened(MESSAGE, w)
  <2>1. [type |-> MESSAGE, value |-> w] \in Texts
    BY <1>1, LimitsFit DEF Texts
  <2> QED
    BY <2>1, LimitsFit DEF KeptOf
<1>14. PICK h : h = g \o One(MESSAGE, w)
  OBVIOUS
<1>15. h = g \o <<b>>
  BY <1>13, <1>14 DEF One
<1>16. /\ h \in Seq(Texts \cup Counters) /\ Kept(h) = Append(<<b1>>, Shortened(MESSAGE, w))
  BY <1>12, <1>13, <1>15, KeptGrows
<1>17. Whole(p, t, Kept(h)) /\ Form(t, h)
  BY <1>2, <1>10, <1>16 DEF Added, Form
<1>18. Sound(p, h, "cpp")
  BY <1>11, <1>16, <1>17 DEF Sound
<1> QED
  BY <1>10, <1>12, <1>14, <1>18

LEMMA OverrunIs ==
  ASSUME NEW t \in 2 .. 9
  PROVE  Overrun(t).thrown
<1>1. PICK e : e = Message(t)
  OBVIOUS
<1>2. e = [upper |-> e.upper, lower |-> e.lower, length |-> e.length,
           payload |-> e.payload, thrown |-> e.thrown]
  BY <1>1 DEF Message
<1>3. Overrun(t) = [e EXCEPT !.thrown = TRUE]
  BY <1>1 DEF Overrun
<1> QED
  BY <1>2, <1>3

LEMMA OverrunFails ==
  ASSUME NEW t \in 2 .. 9, NEW type \in DOMAIN Limit, NEW n \in Nat, NEW v \in Values(n),
         Len(v) > Limit[type], Made(Overrun(t), One(type, v), "cpp")
  PROVE  Failed(msg)
<1>1. msg.thrown /\ given = One(type, v) /\ maker = "cpp"
  BY OverrunIs DEF Made
<1>2. ~Fits
  <2>1. v \in Seq(1 .. 255) /\ Len(v) \in Nat /\ Limit[type] \in Nat
    BY LimitsFit, ValuesAre
  <2>2. PICK g : /\ g = One(type, v) /\ g \in Seq(Texts \cup Counters)
                 /\ Fitting(g) <=> Len(v) <= Limit[type]
    BY <2>1, OneIs DEF One
  <2>3. ~(Len(v) <= Limit[type])
    BY <2>1
  <2> QED
    BY <1>1, <2>2, <2>3, FitsIs
<1> QED
  BY <1>1, <1>2 DEF Failed

LEMMA OverrunFwdFails ==
  ASSUME NEW n \in Nat, NEW v \in Values(n), NEW k \in Nat, NEW w \in Values(k),
         Len(v) > MAX_USERNAME \/ Len(w) > MAX_MESSAGE,
         Made(Overrun(Type.FWD), One(USERNAME, v) \o One(MESSAGE, w), "cpp")
  PROVE  Failed(msg)
<1>1. Type.FWD \in 2 .. 9
  BY DEF Type
<1>2. msg.thrown /\ given = One(USERNAME, v) \o One(MESSAGE, w) /\ maker = "cpp"
  BY <1>1, OverrunIs DEF Made
<1>3. PICK T, b, c : /\ b = [type |-> USERNAME, value |-> v] /\ c = [type |-> MESSAGE, value |-> w]
                     /\ T = {b, c}
  OBVIOUS
<1>4. given \in Seq(T) /\ Len(given) = 2 /\ given[1] = b /\ given[2] = c
  <2>0. b \in T
    BY <1>3
  <2>1. PICK g \in Seq(T) : g = <<b>> /\ Len(g) = 1 /\ g[1] = b
    <3>1. <<b>> \in Seq(T) /\ Len(<<b>>) = 1 /\ <<b>>[1] = b
      BY <2>0
    <3> QED
      BY <3>1
  <2>2. given = g \o <<c>>
    BY <1>2, <1>3, <2>1 DEF One
  <2>3. c \in T /\ 1 \in 1 .. Len(g) /\ Len(g) + 1 = 2
    BY <1>3, <2>1
  <2> QED
    BY <2>1, <2>2, <2>3, ExtendedIs
<1>5. /\ given[1].type = USERNAME /\ given[1].value = v /\ given[2].type = MESSAGE /\ given[2].value = w
      /\ 1 \in DOMAIN given /\ 2 \in DOMAIN given
  BY <1>3, <1>4
<1>6. ~(Len(v) <= MAX_USERNAME /\ Len(w) <= MAX_MESSAGE)
  <2>1. Len(v) \in Nat /\ Len(w) \in Nat /\ MAX_USERNAME \in Nat /\ MAX_MESSAGE \in Nat
    BY ValuesAre, LimitsFit
  <2>2. PICK x \in Nat, y \in Nat, names \in Nat, texts \in Nat :
          x = Len(v) /\ y = Len(w) /\ names = MAX_USERNAME /\ texts = MAX_MESSAGE
    BY <2>1, Zenon
  <2>3. x > names \/ y > texts
    BY <2>2
  <2>4. ~(x <= names /\ y <= texts)
    BY <2>3
  <2> QED
    BY <2>2, <2>4, Zenon
<1>7. ~Fits
  BY <1>5, <1>6, LimitsFit DEF Fits
<1> QED
  BY <1>2, <1>7 DEF Failed

LEMMA Elixir ==
  ASSUME NEW t, NEW type, NEW n \in Nat, NEW v \in Values(n + 1),
         \/ t = Type.JOIN /\ type = USERNAME /\ n = MAX_USERNAME
         \/ t = Type.SEND /\ type = MESSAGE /\ n = MAX_MESSAGE,
         Made(ex_message(t, type, v), One(type, v), "elixir")
  PROVE  MessageInv
<1>1. v \in Seq(1 .. 255) /\ Len(v) \in Nat /\ Len(v) <= n + 1
  BY ValuesAre
<1>2. /\ t \in {Type.JOIN, Type.SEND} /\ (t = Type.JOIN => type = USERNAME)
      /\ (t = Type.SEND => type = MESSAGE) /\ n = Limit[type]
  BY LimitsFit DEF Type
<1>3. PICK m, g : m = ex_message(t, type, v) /\ g = One(type, v)
  OBVIOUS
<1>4. Sound(m, g, "elixir") \/ Rejected(m, g, "elixir")
  BY <1>1, <1>2, <1>3, ElixirIs
<1> QED
  BY <1>3, <1>4 DEF Made, MessageInv

LEMMA InitMessage ==
  ASSUME Init
  PROVE  MessageInv
<1>0. MAX_USERNAME \in Nat /\ MAX_MESSAGE \in Nat /\ MAX_REASON \in Nat
      /\ MAX_USERNAME + 1 \in Nat /\ MAX_MESSAGE + 1 \in Nat
  BY LimitsFit
<1>1. ASSUME NEW v \in Values(MAX_USERNAME + 1), NEW type \in {Type.JOIN, Type.IDLE},
             Made(Single(type, USERNAME, v), One(USERNAME, v), "cpp")
      PROVE  MessageInv
  <2>1. Sound(Single(type, USERNAME, v), One(USERNAME, v), "cpp")
    BY <1>0, MadeSingle
  <2> QED
    BY <1>1, <2>1 DEF Made, MessageInv
<1>2. ASSUME NEW v \in Values(MAX_USERNAME + 1),
             Made(ex_message(Type.JOIN, USERNAME, v), One(USERNAME, v), "elixir")
      PROVE  MessageInv
  BY <1>0, <1>2, Elixir
<1>3. ASSUME NEW v \in Values(MAX_MESSAGE + 1),
             Made(Single(Type.SEND, MESSAGE, v), One(MESSAGE, v), "cpp")
      PROVE  MessageInv
  <2>1. Sound(Single(Type.SEND, MESSAGE, v), One(MESSAGE, v), "cpp")
    BY <1>0, MadeSingle
  <2> QED
    BY <1>3, <2>1 DEF Made, MessageInv
<1>4. ASSUME NEW v \in Values(MAX_MESSAGE + 1),
             Made(ex_message(Type.SEND, MESSAGE, v), One(MESSAGE, v), "elixir")
      PROVE  MessageInv
  BY <1>0, <1>4, Elixir
<1>5. ASSUME NEW v \in Values(MAX_MESSAGE + 1), Len(v) > MAX_MESSAGE,
             Made(Overrun(Type.SEND), One(MESSAGE, v), "cpp")
      PROVE  MessageInv
  <2>1. Type.SEND \in 2 .. 9
    BY DEF Type
  <2> QED
    BY <1>0, <1>5, <2>1, LimitsFit, OverrunFails DEF MessageInv
<1>6. ASSUME NEW v \in Values(MAX_REASON), Made(Single(Type.NAK, REASON, v), One(REASON, v), "cpp")
      PROVE  MessageInv
  <2>1. Sound(Single(Type.NAK, REASON, v), One(REASON, v), "cpp")
    BY <1>0, MadeSingle
  <2> QED
    BY <1>6, <2>1 DEF Made, MessageInv
<1>7. ASSUME NEW v \in Names, NEW type \in {Type.ONLINE, Type.OFFLINE},
             Made(Single(type, USERNAME, v), One(USERNAME, v), "cpp")
      PROVE  MessageInv
  <2>1. v \in Values(MAX_USERNAME)
    BY DEF Names
  <2>2. Sound(Single(type, USERNAME, v), One(USERNAME, v), "cpp")
    BY <1>0, <2>1, MadeSingle
  <2> QED
    BY <1>7, <2>2 DEF Made, MessageInv
<1>8. ASSUME NEW r \in Rosters, Made(ACK(Len(r) + 1, r), Roster(r), "cpp")
      PROVE  MessageInv
  <2>1. given = Roster(r) /\ msg = ACK(Len(r) + 1, r) /\ maker = "cpp"
    BY <1>8 DEF Made
  <2>2. Failed(msg) \/ Sound(msg, given, "cpp")
    BY <2>1, AckIs
  <2> QED
    BY <2>1, <2>2 DEF MessageInv
<1>9. ASSUME Made(Message(Type.IDLE), <<>>, "cpp")
      PROVE  MessageInv
  BY <1>9, IdleSound DEF Made, MessageInv
<1>10. ASSUME NEW v \in Values(MAX_USERNAME + 1), NEW type \in {Type.JOIN, Type.IDLE},
              Made(Overrun(type), One(USERNAME, v), "cpp"), Len(v) > MAX_USERNAME
       PROVE  MessageInv
  <2>1. type \in 2 .. 9
    BY DEF Type
  <2> QED
    BY <1>0, <1>10, <2>1, LimitsFit, OverrunFails DEF MessageInv
<1>11. ASSUME NEW v \in Values(MAX_USERNAME + 1), NEW w \in Values(MAX_MESSAGE + 1),
              Made(FWD(v, w), One(USERNAME, v) \o One(MESSAGE, w), "cpp")
       PROVE  MessageInv
  <2>1. Sound(FWD(v, w), One(USERNAME, v) \o One(MESSAGE, w), "cpp")
    BY <1>0, FwdSound
  <2> QED
    BY <1>11, <2>1 DEF Made, MessageInv
<1>12. ASSUME NEW v \in Values(MAX_USERNAME + 1), NEW w \in Values(MAX_MESSAGE + 1),
              Made(Overrun(Type.FWD), One(USERNAME, v) \o One(MESSAGE, w), "cpp"),
              Len(v) > MAX_USERNAME \/ Len(w) > MAX_MESSAGE
       PROVE  MessageInv
  BY <1>0, <1>12, OverrunFwdFails DEF MessageInv
<1>13. CASE \E v \in Values(MAX_USERNAME + 1) :
              \/ \E type \in {Type.JOIN, Type.IDLE} :
                   \/ Made(Single(type, USERNAME, v), One(USERNAME, v), "cpp")
                   \/ Made(Overrun(type), One(USERNAME, v), "cpp") /\ Len(v) > MAX_USERNAME
              \/ Made(ex_message(Type.JOIN, USERNAME, v), One(USERNAME, v), "elixir")
  BY <1>1, <1>2, <1>10, <1>13
<1>14. CASE \E v \in Values(MAX_USERNAME + 1), w \in Values(MAX_MESSAGE + 1) :
              \/ Made(FWD(v, w), One(USERNAME, v) \o One(MESSAGE, w), "cpp")
              \/ /\ Made(Overrun(Type.FWD), One(USERNAME, v) \o One(MESSAGE, w), "cpp")
                 /\ Len(v) > MAX_USERNAME \/ Len(w) > MAX_MESSAGE
  BY <1>11, <1>12, <1>14
<1> QED
  BY <1>3, <1>4, <1>5, <1>6, <1>7, <1>8, <1>9, <1>13, <1>14 DEF Init, Roster

LEMMA NextMessage ==
  ASSUME MessageInv, [Next]_<<msg, given, maker>>
  PROVE  MessageInv'
<1>1. ASSUME NEW name \in Names, Forward(name) PROVE MessageInv'
  <2>1. Sound(msg, given, maker)
    BY <1>1 DEF MessageInv, Failed, Rejected, Overlong, Forward
  <2>2. Sound(change_to_fwd(msg, name), given \o One(USERNAME, name), maker)
    BY <1>1, <2>1, ForwardSound DEF Forward
  <2>3. Sound(msg', given', maker')
    BY <1>1, <2>2 DEF Forward
  <2> QED
    BY <2>3 DEF MessageInv
<1>2. ASSUME NEW name \in Names, ForwardIdle(name) PROVE MessageInv'
  <2>1. Sound(msg, given, maker)
    BY <1>2 DEF MessageInv, Failed, Rejected, Overlong, ForwardIdle
  <2>2. \/ Sound(add_username(msg, name), given \o One(USERNAME, name), maker)
        \/ Overlong(add_username(msg, name), given \o One(USERNAME, name))
    BY <1>2, <2>1, ForwardIdleSound DEF ForwardIdle
  <2>3. Sound(msg', given', maker') \/ Overlong(msg', given')
    BY <1>2, <2>2 DEF ForwardIdle
  <2> QED
    BY <2>3 DEF MessageInv
<1>3. CASE UNCHANGED <<msg, given, maker>>
  <2>1. msg' = msg /\ given' = given /\ maker' = maker
    BY <1>3
  <2> QED
    BY <2>1 DEF MessageInv, Failed, Overlong, Fits, Size
<1> QED
  BY <1>1, <1>2, <1>3 DEF Next

LEMMA InvReads ==
  ASSUME MessageInv
  PROVE  SbcpReadBack
<1>1. CASE Failed(msg)
  BY <1>1 DEF Failed, SbcpReadBack
<1>2. CASE Rejected(msg, given, maker)
  <2>1. ~Fits /\ maker # "cpp" /\ ~validate(msg) /\ ~msg.thrown
    BY <1>2, FitsIs DEF Rejected
  <2>2. validate(msg) \in BOOLEAN
    BY DEF validate
  <2>3. validate(msg) = (maker = "cpp" \/ Fits) /\ get_type(msg) # Type.IDLE
    BY <1>2, <2>1, <2>2 DEF Rejected
  <2> QED
    BY <2>1, <2>3 DEF SbcpReadBack
<1>3. CASE Sound(msg, given, maker)
  BY <1>3, SoundReads
<1>4. CASE Overlong(msg, given)
  <2>1. validate(msg) \in BOOLEAN
    BY DEF validate
  <2>2. validate(msg) = ~Overnamed(given)
    BY <1>4, <2>1 DEF Overlong
  <2> QED
    BY <1>4, <2>2 DEF Overlong, SbcpReadBack
<1> QED
  BY <1>1, <1>2, <1>3, <1>4 DEF MessageInv

(* Every message that the constructors of libsbcp or the Elixir client      *)
(* build, and every one the server forwards, is read again as it was made,  *)
(* or refused for the reasons SbcpReadBack names, an IDLE with two names    *)
(* among them: validate(), the iterator, get_usernames(), get_message(),   *)
(* get_reason(), get_client_count() and the Elixir client's deserialize    *)
(* return what was asked to be written, cut at its limit, for any limits   *)
(* that fit into the payload.                                              *)
THEOREM ChatMessagesComeBack == Spec => []SbcpReadBack
<1>1. Init => MessageInv
  BY InitMessage
<1>2. MessageInv /\ [Next]_<<msg, given, maker>> => MessageInv'
  BY NextMessage
<1>3. MessageInv => SbcpReadBack
  BY InvReads
<1> QED
  BY <1>1, <1>2, <1>3, PTL DEF Spec
=============================================================================
