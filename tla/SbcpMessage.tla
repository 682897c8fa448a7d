----------------------------- MODULE SbcpMessage -----------------------------
(***************************************************************************)
(* The messages of the chat, libsbcp: how messages.cpp builds them, how the *)
(* server extends the ones it forwards, and how the accessors of sbcp.cpp   *)
(* read them again; and the same for the Elixir client, MP2/lib/sbcp.ex.    *)
(* Values are sequences of bytes without NUL.  The lengths are scaled down. *)
(***************************************************************************)
EXTENDS Integers, Sequences

CONSTANTS
  MAX_PAYLOAD,   \* SBCP_MAX_PAYLOAD_LENGTH, 1024
  MAX_USERNAME,  \* SBCP_MAX_USERNAME_LENGTH, 16
  MAX_MESSAGE,   \* SBCP_MAX_MESSAGE_LENGTH, 512
  MAX_REASON,    \* SBCP_MAX_REASON_LENGTH, 32
  Letters,       \* bytes that occur in names and texts
  MaxOthers      \* bound: names in an ACK

ASSUME PayloadAssumption ==
  /\ {MAX_PAYLOAD, MAX_USERNAME, MAX_MESSAGE, MAX_REASON, MaxOthers} \subseteq Nat
  /\ MAX_PAYLOAD < 65536
  /\ MAX_PAYLOAD >= 8 + MAX_USERNAME + MAX_MESSAGE
  /\ MAX_PAYLOAD >= 8 + 2 * MAX_USERNAME
  /\ MAX_PAYLOAD >= 4 + MAX_REASON
  /\ Letters \subseteq 1 .. 255

VARIABLES
  msg,    \* the message; thrown: its construction failed
  given,  \* the attributes it was asked to carry: [type, value]
  maker   \* "cpp" or "elixir"

SBCP_VERSION == 3
USERNAME == 2
MESSAGE == 4
REASON == 1
CLIENT_COUNT == 3
Type == [JOIN |-> 2, SEND |-> 4, FWD |-> 3, ACK |-> 7,
         NAK |-> 5, ONLINE |-> 8, OFFLINE |-> 6, IDLE |-> 9]
Limit == [type \in {USERNAME, MESSAGE, REASON} |->
            IF type = USERNAME THEN MAX_USERNAME
            ELSE IF type = MESSAGE THEN MAX_MESSAGE ELSE MAX_REASON]

-----------------------------------------------------------------------------
(* The header: 9 bits of version, 7 bits of type.                          *)

Message(type) ==
  [upper |-> SBCP_VERSION \div 2,
   lower |-> (SBCP_VERSION % 2) * 128 + type,
   length |-> 0,
   payload |-> [i \in 1 .. MAX_PAYLOAD |-> 0],
   thrown |-> FALSE]

get_type(m) == m.lower % 128
get_version(m) == m.upper * 2 + m.lower \div 128
set_type(m, type) == [m EXCEPT !.lower = (@ \div 128) * 128 + type]

MaxLength(type) ==
  CASE type \in {Type.JOIN, Type.IDLE} -> 4 + MAX_USERNAME
    [] type = Type.SEND -> 4 + MAX_MESSAGE
    [] type = Type.FWD -> 8 + MAX_USERNAME + MAX_MESSAGE
    [] type = Type.NAK -> 4 + MAX_REASON
    [] OTHER -> MAX_PAYLOAD

validate(m) ==
  /\ get_version(m) = SBCP_VERSION
  /\ \E name \in DOMAIN Type : get_type(m) = Type[name]
  /\ m.length <= MaxLength(get_type(m))

-----------------------------------------------------------------------------
(* Attributes: the type in host order, which is little endian, the length  *)
(* in network order, the value without a terminating NUL.                  *)

htons(n) == <<n \div 256, n % 256>>
Smaller(a, b) == IF a < b THEN a ELSE b

\* Mutant of Attribute: the value is cut, its length is not.
AttributeLong(type, value) ==
  <<type, 0>> \o htons(Len(value)) \o SubSeq(value, 1, Smaller(Len(value), Limit[type]))

\* Too long a value is cut without notice, but copied as a whole.
Attribute(type, value) ==
  LET n == Smaller(Len(value), Limit[type])
  IN  <<type, 0>> \o htons(n) \o SubSeq(value, 1, n)

CountAttribute(n) == <<CLIENT_COUNT, 0>> \o htons(2) \o htons(n)

Put(m, bytes) ==
  [m EXCEPT !.payload = [i \in 1 .. MAX_PAYLOAD |->
                           IF i - m.length \in DOMAIN bytes THEN bytes[i - m.length] ELSE @[i]],
            !.length = @ + Len(bytes)]

\* What was thrown before leaves the function that adds attributes.
add_attribute(m, bytes) ==
  IF m.thrown \/ ~validate(m) \/ m.length + Len(bytes) > MAX_PAYLOAD
  THEN [m EXCEPT !.thrown = TRUE]
  ELSE Put(m, bytes)

add_username(m, name) == add_attribute(m, Attribute(USERNAME, name))

change_to_fwd(m, name) == add_username(set_type(m, Type.FWD), name)

\* JOIN, SEND, NAK, ONLINE, OFFLINE, IDLE(username): one attribute.
Single(type, attr, value) == add_attribute(Message(type), Attribute(attr, value))

FWD(username, message) ==
  add_attribute(add_username(Message(Type.FWD), username), Attribute(MESSAGE, message))

ACK(client_count, usernames) ==
  LET With[k \in 0 .. Len(usernames)] ==
        IF k = 0 THEN add_attribute(Message(Type.ACK), CountAttribute(client_count))
        ELSE add_username(With[k - 1], usernames[k])
  IN  With[Len(usernames)]

-----------------------------------------------------------------------------
(* Reading.  Offsets count from 0.                                         *)

At(m, o) == m.payload[o + 1]
attr_type(m, o) == At(m, o) + 256 * At(m, o + 1)
attr_length(m, o) == 256 * At(m, o + 2) + At(m, o + 3)

attr_validate(m, o) ==
  \/ attr_type(m, o) \in DOMAIN Limit /\ attr_length(m, o) <= Limit[attr_type(m, o)]
  \/ attr_type(m, o) = CLIENT_COUNT /\ attr_length(m, o) = 2

After(m, o) == o + 4 + attr_length(m, o)

\* The offsets the iterator stops at; -1 where it throws or walks past the
\* end of the message.
Walk(m) ==
  LET From[o \in 0 .. m.length] ==
        IF o = m.length THEN <<>>
        ELSE IF o + 4 > m.length \/ ~attr_validate(m, o) \/ After(m, o) > m.length THEN <<-1>>
        ELSE <<o>> \o From[After(m, o)]
  IN  IF validate(m) THEN From[0] ELSE <<-1>>

\* A value is read as a C string: up to the next NUL wherever that is, or,
\* with none left in the payload, out of the object.
c_str(m, o) ==
  LET nuls == {i \in o .. MAX_PAYLOAD - 1 : At(m, i) = 0}
      end == CHOOSE i \in nuls : \A j \in nuls : i <= j
  IN  IF nuls = {} THEN SubSeq(m.payload, o + 1, MAX_PAYLOAD) \o <<-1>>
      ELSE SubSeq(m.payload, o + 1, end)

\* get_usernames(), get_message(), get_reason(): the values of one type.
get_strings(m, type) ==
  LET w == Walk(m)
      From[k \in 0 .. Len(w)] ==
        IF k = Len(w) THEN <<>>
        ELSE (IF w[k + 1] >= 0 /\ attr_type(m, w[k + 1]) = type
              THEN <<c_str(m, w[k + 1] + 4)>> ELSE <<>>) \o From[k + 1]
  IN  From[0]

get_client_count(m) ==
  LET w == Walk(m)
      Counts == {k \in DOMAIN w : w[k] >= 0 /\ attr_type(m, w[k]) = CLIENT_COUNT}
      o == w[CHOOSE k \in Counts : \A j \in Counts : k <= j]
  IN  256 * At(m, o + 4) + At(m, o + 5)

-----------------------------------------------------------------------------
(* The Elixir client: it cuts nothing, and reads values by their length.   *)

ex_attribute(type, value) == <<type, 0>> \o htons(Len(value)) \o value

ex_message(type, attr, value) == Put(Message(type), ex_attribute(attr, value))

\* An attribute of no known type, or cut off, matches no clause.
Raised == [type |-> -1, value |-> <<>>]

ex_deserialize(m) ==
  LET From[o \in 0 .. m.length] ==
        IF o = m.length THEN <<>>
        ELSE IF \/ o + 4 > m.length
                \/ attr_type(m, o) \notin {USERNAME, MESSAGE, REASON, CLIENT_COUNT}
                \/ After(m, o) > m.length
             THEN <<Raised>>
        ELSE <<[type |-> attr_type(m, o), value |-> SubSeq(m.payload, o + 5, After(m, o))]>>
               \o From[After(m, o)]
  IN  From[0]

-----------------------------------------------------------------------------
(* The messages that are built.                                            *)

Values(n) == UNION {[1 .. len -> Letters] : len \in 0 .. n}
Names == Values(MAX_USERNAME)

\* The other users, whose names the server passes to ACK.
Rosters == UNION {[1 .. n -> Names] : n \in 0 .. MaxOthers}

Made(m, attrs, who) == msg = m /\ given = attrs /\ maker = who

\* memcpy writes a name or a text beyond its limit past the end of its array:
\* the attribute is cut as if nothing had happened, or this ends the process.
Overrun(type) == [Message(type) EXCEPT !.thrown = TRUE]

One(type, value) == <<[type |-> type, value |-> value]>>

Init ==
  \/ \E v \in Values(MAX_USERNAME + 1) :
       \/ \E type \in {Type.JOIN, Type.IDLE} :
            \/ Made(Single(type, USERNAME, v), One(USERNAME, v), "cpp")
            \/ Made(Overrun(type), One(USERNAME, v), "cpp") /\ Len(v) > MAX_USERNAME
       \/ Made(ex_message(Type.JOIN, USERNAME, v), One(USERNAME, v), "elixir")
  \/ \E v \in Values(MAX_MESSAGE + 1) :
       \/ Made(Single(Type.SEND, MESSAGE, v), One(MESSAGE, v), "cpp")
       \/ Made(ex_message(Type.SEND, MESSAGE, v), One(MESSAGE, v), "elixir")
       \/ Made(Overrun(Type.SEND), One(MESSAGE, v), "cpp") /\ Len(v) > MAX_MESSAGE
  \/ \E v \in Values(MAX_USERNAME + 1), w \in Values(MAX_MESSAGE + 1) :
       \/ Made(FWD(v, w), One(USERNAME, v) \o One(MESSAGE, w), "cpp")
       \/ /\ Made(Overrun(Type.FWD), One(USERNAME, v) \o One(MESSAGE, w), "cpp")
          /\ Len(v) > MAX_USERNAME \/ Len(w) > MAX_MESSAGE
  \/ \E v \in Values(MAX_REASON) : Made(Single(Type.NAK, REASON, v), One(REASON, v), "cpp")
  \/ \E v \in Names, type \in {Type.ONLINE, Type.OFFLINE} :
       Made(Single(type, USERNAME, v), One(USERNAME, v), "cpp")
  \/ \E r \in Rosters :
       Made(ACK(Len(r) + 1, r),
            <<[type |-> CLIENT_COUNT, value |-> htons(Len(r) + 1)]>>
              \o [k \in DOMAIN r |-> [type |-> USERNAME, value |-> r[k]]],
            "cpp")
  \/ Made(Message(Type.IDLE), <<>>, "cpp")

\* The server adds the name of the sender to a SEND it has accepted.
Forward(name) ==
  /\ get_type(msg) = Type.SEND
  /\ ~msg.thrown
  /\ validate(msg)
  /\ msg' = change_to_fwd(msg, name)
  /\ given' = given \o One(USERNAME, name)
  /\ UNCHANGED maker

\* And to an IDLE, also to one that has a name already.
ForwardIdle(name) ==
  /\ get_type(msg) = Type.IDLE
  /\ ~msg.thrown
  /\ validate(msg)
  /\ Len(given) < 2
  /\ msg' = add_username(msg, name)
  /\ given' = given \o One(USERNAME, name)
  /\ UNCHANGED maker

Next == \E name \in Names : Forward(name) \/ ForwardIdle(name)

Spec == Init /\ [][Next]_<<msg, given, maker>>

-----------------------------------------------------------------------------
Fits == \A k \in DOMAIN given : given[k].type \in DOMAIN Limit => Len(given[k].value) <= Limit[given[k].type]

\* What should come back of attribute k, and what the C string adds to it.
Cut(k) == IF given[k].type = CLIENT_COUNT THEN given[k].value
          ELSE SubSeq(given[k].value, 1, Smaller(Len(given[k].value), Limit[given[k].type]))

Beyond(k) == IF k < Len(given) THEN <<given[k + 1].type>>
             ELSE IF msg.length = MAX_PAYLOAD THEN <<-1>> ELSE <<>>

Size == LET Sum[k \in 0 .. Len(given)] ==
              IF k = 0 THEN 0 ELSE Sum[k - 1] + 4 + Len(given[k].value)
        IN  Sum[Len(given)]

\* The names of an IDLE that had one before the server added another are
\* together too long for an IDLE.
Overnamed(g) == Len(g) = 2 /\ 4 + Len(g[1].value) + Len(g[2].value) > MAX_USERNAME

\* What get_strings should find.
Returned(type) ==
  LET From[k \in 0 .. Len(given)] ==
        IF k = Len(given) THEN <<>>
        ELSE (IF given[k + 1].type = type THEN <<Cut(k + 1) \o Beyond(k + 1)>> ELSE <<>>)
               \o From[k + 1]
  IN  From[0]

(* A message that libsbcp builds, and that the server extends by the name  *)
(* of the sender, is accepted by validate() and its attributes are found   *)
(* again in order, cut at their limits; a message of the Elixir client is  *)
(* accepted when its value fits.  The exception is an IDLE that came with  *)
(* a name: the server adds another without notice, and unless both are     *)
(* short every receiver refuses what it forwards.  The accessors of        *)
(* sbcp.cpp add one byte to a value that another attribute follows, its    *)
(* type, and leave the object behind a full payload; the Elixir client     *)
(* reads exactly the values.  No message comes about only for a list of    *)
(* users that is too long for an ACK, and for a name or a text beyond its  *)
(* limit.                                                                  *)
SbcpReadBack ==
  IF msg.thrown THEN \/ get_type(msg) = Type.ACK /\ Size > MAX_PAYLOAD
                     \/ maker = "cpp" /\ ~Fits
  ELSE
    /\ validate(msg) = IF get_type(msg) = Type.IDLE THEN ~Overnamed(given)
                       ELSE maker = "cpp" \/ Fits
    /\ validate(msg) =>
         /\ \A type \in DOMAIN Limit : get_strings(msg, type) = Returned(type)
         /\ get_type(msg) = Type.ACK => get_client_count(msg) = Len(given)
         /\ ex_deserialize(msg) = [k \in DOMAIN given |-> [type |-> given[k].type, value |-> Cut(k)]]
=============================================================================
