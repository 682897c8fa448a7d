--------------------------- MODULE HttpTestServer ---------------------------
(***************************************************************************)
(* The proxy in front of the test server of MP4, http_server.cpp, which was *)
(* written to exercise its cache.  The server answers each of its routes    *)
(* with a body that counts the answers (ver of HttpProxy) and with headers  *)
(* that make the answer fresh or stale; all times are taken when the answer *)
(* is built.  Seconds are scaled down to SIXTY, TEN and MONTH; the clock    *)
(* begins at MONTH so that all dates are natural numbers.                   *)
(***************************************************************************)
EXTENDS HttpProxy

CONSTANTS
  SIXTY, TEN, MONTH  \* 0 < TEN < SIXTY < MONTH < MaxTime

routes == {"/test1", "/test4", "/test5", "/test6", "/test7"}

TestInit ==
  /\ clock = MONTH
  /\ ver = [u \in Uris |-> 0]
  /\ modified = [u \in Uris |-> 0]
  /\ cache = [u \in Uris |-> NoEntry]
  /\ pc = [t \in Threads |-> "idle"]
  /\ uri \in [Threads -> Uris]
  /\ now = [t \in Threads |-> 0]
  /\ since = [t \in Threads |-> NoTime]
  /\ resp = [t \in Threads |-> [ver |-> 0, exp |-> 0]]
  /\ freed = {}
  /\ proxy = "up"

\* The expiration_time the proxy takes from the headers of a route: Expires
\* (1, 4), Last-Modified (5, 6) or Date (7).
Expiration(route) ==
  CASE route = "/test1" -> clock + SIXTY
    [] route \in {"/test4", "/test5"} -> clock - TEN
    [] route = "/test6" -> clock - MONTH
    [] route = "/test7" -> clock

Answer(t, where, answer) ==
  /\ resp' = [resp EXCEPT ![t] = answer]
  /\ Goto(t, where)
  /\ UNCHANGED <<clock, modified, cache, uri, now, since, freed, proxy>>

\* "all other tests return 200 but test5 returns 304"
TestOk(t) ==
  /\ proxy = "up"
  /\ pc[t] = "fetch"
  /\ uri[t] \in routes
  /\ ~(uri[t] = "/test5" /\ since[t] # NoTime)
  /\ ver[uri[t]] < MaxVersion
  /\ ver' = [ver EXCEPT ![uri[t]] = @ + 1]
  /\ Answer(t, "evict", [ver |-> ver[uri[t]], exp |-> Expiration(uri[t])])

TestNotModified(t) ==
  /\ proxy = "up"
  /\ pc[t] = "fetch"
  /\ uri[t] = "/test5"
  /\ since[t] # NoTime
  /\ Answer(t, "reuse", resp[t])
  /\ UNCHANGED ver

\* 404, without a header: the proxy takes the time of the request.
TestNotFound(t) ==
  /\ proxy = "up"
  /\ pc[t] = "fetch"
  /\ uri[t] \notin routes
  /\ Answer(t, "evict", [ver |-> 0, exp |-> now[t]])
  /\ UNCHANGED ver

TestNext ==
  \/ \E t \in Threads :
       \/ \E u \in Uris : Request(t, u)
       \/ Find(t) \/ ServeHit(t) \/ UseFreed(t)
       \/ TestOk(t) \/ TestNotModified(t) \/ TestNotFound(t)
       \/ Reuse(t) \/ ReuseThrows(t) \/ Dies(t)
       \/ Evict(t) \/ NoEvict(t) \/ Emplace(t)
  \/ \E s, t \in Threads : Race(s, t)
  \/ Tick

TestSpec == TestInit /\ [][TestNext]_vars
=============================================================================
