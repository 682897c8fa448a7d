----------------------------- MODULE SbcpStreams -----------------------------
(***************************************************************************)
(* What the clients of MP2/src/sbcp_server.cpp may rely on: properties of   *)
(* the stream of messages each user is going to read.                      *)
(***************************************************************************)
EXTENDS SbcpServer

\* The message main still has to write to user n in the broadcast under way.
Pending(n) ==
  CASE mpc = "write" /\ n \in mout.to -> <<mout.msg>>
    [] mpc = "reply" /\ mout.msg.type = "ACK" ->
         IF n = mcur.name THEN <<mout.msg>> ELSE <<ONLINE(mcur.name)>>
    [] OTHER -> <<>>

\* All that user n has not read yet, on the way through three buffers.
ToRead(n) == inbox[wr_fifos[n]] \o mfifo[wr_fifos[n]] \o Pending(n)

Listening(n) == n \in Registered /\ Live(wr_fifos[n]) /\ peer[wr_fifos[n]] = "open"

Chatters == IF mpc = "dead" THEN {} ELSE {n \in Names : Listening(n)}

\* Does message m say whether k is online, and that it is?
Speaks(m, k) == m.type = "ACK" \/ (m.type \in {"ONLINE", "OFFLINE"} /\ m.user = k)
Shows(m, k) == (m.type = "ACK" /\ k \in m.users) \/ (m.type = "ONLINE" /\ m.user = k)

\* The users a client is shown that was shown us and reads i messages of s: for
\* each user the last message that speaks of it decides.
ViewAfter(us, s, i) ==
  {k \in Names :
     \/ k \in us /\ \A j \in 1 .. i : ~Speaks(s[j], k)
     \/ \E j \in 1 .. i : Shows(s[j], k) /\ \A l \in j + 1 .. i : ~Speaks(s[l], k)}

(* Once a user has read everything under way to it, the list of users it   *)
(* was shown (ACK, ONLINE, OFFLINE) is exactly the others in online_users.  *)
RosterAgreement ==
  \A n \in Chatters :
    ViewAfter(view[wr_fifos[n]], ToRead(n), Len(ToRead(n))) = Users \ {n}

(* A user reads the answer to its JOIN first and once; then ONLINE only of *)
(* a user it was not shown, and FWD, IDLE, OFFLINE only of one it was: no  *)
(* message of a stranger, of one who left, or of the user itself.          *)
StreamWellFormed ==
  \A n \in Chatters :
    LET s == ToRead(n)
        ViewAt(i) == ViewAfter(view[wr_fifos[n]], s, i - 1)
    IN  \A i \in DOMAIN s :
          /\ s[i].type = "ACK" <=> (i = 1 /\ told[wr_fifos[n]] = "none")
          /\ s[i].type = "ONLINE" => s[i].user \notin ViewAt(i) \cup {n}
          /\ s[i].type \in {"FWD", "IDLE", "OFFLINE"} => s[i].user \in ViewAt(i)

\* All messages of connection g that user n has not read yet, among others.
Onward(n, g) == ToRead(n) \o hfifo[g] \o sock[g]

\* In s a message of connection g is followed by the one it sent next, or its
\* number is last and no other of g follows.
Trail(s, g, last) ==
  LET Others(i, j) == \A l \in i .. j : s[l].id[1] # g
  IN  \A i \in DOMAIN s :
        s[i].id[1] = g =>
          \/ s[i].id[2] = last /\ Others(i + 1, Len(s))
          \/ \E j \in i + 1 .. Len(s) :
                s[j].id = <<g, s[i].id[2] + 1>> /\ Others(i + 1, j - 1)

(* Between a speaking user's client and every other user's client nothing  *)
(* is lost, doubled or reordered: over all five buffers the messages of    *)
(* the speaker follow each other by number up to the last one it sent.     *)
NothingLost ==
  \A m \in Chatters : \A n \in Chatters \ {m} :
    Trail(Onward(n, wr_fifos[m]), wr_fifos[m], sent[wr_fifos[m]])

(* A forwarded message carries the name under which its connection joined, *)
(* and that connection was not refused.                                    *)
Attribution ==
  \A n \in Chatters : \A i \in DOMAIN ToRead(n) :
    LET m == ToRead(n)[i] IN
      m.type \in {"FWD", "IDLE"} => /\ m.user = user[m.id[1]]
                                    /\ told[m.id[1]] # "NAK"

\* main does not stay blocked in a write for ever (see BroadcastFinishes).
MainFlows == []<>(mpc # "write")

\* From some time on main finds no JOIN and no user before those of h in the
\* order of the names: it serves one ready fifo, the first, then selects again.
ComesToServe(h) ==
  <>[](boot = <<>> /\ \A n \in Registered : wr_fifos[n] = h =>
                       \A k \in Names : k < n => ~FifoReady(k))

(* A user whose handler is gone does not stay registered, unless main died *)
(* or is blocked, or users before it in the order of the names never stop  *)
(* talking: they would be served instead of it for ever.                   *)
LeaverForgotten ==
  MainFlows =>
    \A h \in Handlers : ComesToServe(h) =>
      (hpc[h] \in Gone ~> (mpc = "dead" \/ \A n \in Registered : wr_fifos[n] # h))

(* "forward message to all other clients": what main has taken on it       *)
(* finishes writing, unless it dies.                                       *)
BroadcastFinishes == (mpc = "write") ~> (mpc \in {"select", "dead"})
=============================================================================
