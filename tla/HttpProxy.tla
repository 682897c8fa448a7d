------------------------------ MODULE HttpProxy ------------------------------
(***************************************************************************)
(* The caching HTTP proxy, MP4/src/http_proxy.cpp.  libtcp runs the handler *)
(* of every connection in a thread of its own; the threads share the map    *)
(* `cache' and never lock cache_mutex.  A thread works on the map in four   *)
(* places (find, use of a found entry, eviction, emplace), which are steps  *)
(* of their own here; the request to the origin server lies between them.   *)
(***************************************************************************)
EXTENDS Integers, FiniteSets

CONSTANTS
  Threads,    \* connections served at the same time
  Uris,       \* requested URIs, which stand for their hash
  NoEntry,    \* no entry in the cache
  CacheSize,  \* 10 in the code
  MaxTime,    \* bound: last value of the clock
  MaxVersion  \* bound: modifications of a resource at the origin

ASSUME ThreadsAssumption == IsFiniteSet(Threads)
ASSUME SizesAssumption ==
  CacheSize \in Nat \ {0} /\ MaxTime \in Nat /\ MaxVersion \in Nat
ASSUME NoEntryAssumption ==
  NoEntry \notin [used : Nat, exp : Nat, ver : Nat]

VARIABLES
  clock,      \* time(nullptr)
  ver,        \* version of each resource at its origin server
  modified,   \* time of its last modification
  cache,      \* std::unordered_map<size_t, CacheEntry>
  pc,         \* where each thread is
  uri,        \* the URI it was asked for
  now,        \* its variable now
  since,      \* If-Modified-Since of its request, NoTime if absent
  resp,       \* the response of the origin: version and expiration_time
  freed,      \* threads whose reference is to an erased entry
  proxy       \* "up", or how the process ended

originVars == <<clock, ver, modified>>
threadVars == <<pc, uri, now, since, resp>>
vars == <<originVars, cache, threadVars, freed, proxy>>

NoTime == -1
Entries == [used : Nat, exp : Nat, ver : Nat]
Cached == {u \in Uris : cache[u] # NoEntry}

\* Places where a thread works on the map, and those where it changes it.
Using == {"find", "hit", "reuse", "evict", "emplace"}
Writing == {"evict", "emplace"}

Init ==
  /\ clock = 0
  /\ ver = [u \in Uris |-> 0]
  /\ modified = [u \in Uris |-> 0]
  /\ cache = [u \in Uris |-> NoEntry]
  /\ pc = [t \in Threads |-> "idle"]
  /\ uri \in [Threads -> Uris]
  /\ now = [t \in Threads |-> 0]
  /\ since = [t \in Threads |-> NoTime]
  /\ resp = [t \in Threads |-> [ver |-> 0, exp |-> 0]]
  /\ freed = {}
  /\ proxy = "up"

Goto(t, where) == pc' = [pc EXCEPT ![t] = where]

-----------------------------------------------------------------------------
(* The handler of one connection.                                          *)

\* A request is read and the time taken once for the whole handler.
Request(t, u) ==
  /\ proxy = "up"
  /\ pc[t] = "idle"
  /\ uri' = [uri EXCEPT ![t] = u]
  /\ now' = [now EXCEPT ![t] = clock]
  /\ Goto(t, "find")
  /\ UNCHANGED <<originVars, cache, since, resp, freed, proxy>>

\* Mutant of Find: an entry counts as fresh in the second it expires.
FindStale(t) ==
  /\ proxy = "up"
  /\ pc[t] = "find"
  /\ LET e == cache[uri[t]] IN
       \/ /\ e # NoEntry
          /\ now[t] <= e.exp
          /\ Goto(t, "hit")
          /\ UNCHANGED since
       \/ /\ e # NoEntry
          /\ now[t] > e.exp
          /\ since' = [since EXCEPT ![t] = e.exp]
          /\ Goto(t, "fetch")
       \/ /\ e = NoEntry
          /\ since' = [since EXCEPT ![t] = NoTime]
          /\ Goto(t, "fetch")
  /\ UNCHANGED <<originVars, cache, uri, now, resp, freed, proxy>>

\* cache->find: a fresh entry, a stale one (conditional request) or none.
Find(t) ==
  /\ proxy = "up"
  /\ pc[t] = "find"
  /\ LET e == cache[uri[t]] IN
       \/ /\ e # NoEntry
          /\ now[t] < e.exp
          /\ Goto(t, "hit")
          /\ UNCHANGED since
       \/ /\ e # NoEntry
          /\ now[t] >= e.exp
          /\ since' = [since EXCEPT ![t] = e.exp]
          /\ Goto(t, "fetch")
       \/ /\ e = NoEntry
          /\ since' = [since EXCEPT ![t] = NoTime]
          /\ Goto(t, "fetch")
  /\ UNCHANGED <<originVars, cache, uri, now, resp, freed, proxy>>

\* Mutant of ServeEntry: the wrong date becomes the time of the last use.
ServeEntryExp(t) ==
  /\ cache' = [cache EXCEPT ![uri[t]] = [@ EXCEPT !.used = cache[uri[t]].exp]]
  /\ Goto(t, "idle")
  /\ UNCHANGED <<originVars, uri, now, since, resp, freed, proxy>>

\* The response of an entry of the cache goes to the client.
ServeEntry(t) ==
  /\ cache' = [cache EXCEPT ![uri[t]] = [@ EXCEPT !.used = now[t]]]
  /\ Goto(t, "idle")
  /\ UNCHANGED <<originVars, uri, now, since, resp, freed, proxy>>

ServeHit(t) ==
  /\ proxy = "up"
  /\ pc[t] = "hit"
  /\ t \notin freed
  /\ ServeEntry(t)

\* The entry was erased between find and its use: undefined behaviour.
UseFreed(t) ==
  /\ proxy = "up"
  /\ pc[t] = "hit"
  /\ t \in freed
  /\ proxy' = "corrupt"
  /\ UNCHANGED <<originVars, cache, threadVars, freed>>

\* Any status but 304: expiration_time is Expires, else Last-Modified, else Date, else now.
\* The response is sent to the client before the cache is touched.
ExpirationTimes(t) ==
  0 .. MaxTime \cup {modified[uri[t]], clock, now[t]}

OriginOk(t, d) ==
  /\ proxy = "up"
  /\ pc[t] = "fetch"
  /\ d \in ExpirationTimes(t)
  /\ resp' = [resp EXCEPT ![t] = [ver |-> ver[uri[t]], exp |-> d]]
  /\ Goto(t, "evict")
  /\ UNCHANGED <<originVars, cache, uri, now, since, freed, proxy>>

\* 304: the answer to a conditional request when nothing was modified since,
\* and nothing stops an origin from giving it to one without a condition.
OriginNotModified(t) ==
  /\ proxy = "up"
  /\ pc[t] = "fetch"
  /\ since[t] = NoTime \/ modified[uri[t]] <= since[t]
  /\ resp' = [resp EXCEPT ![t].ver = ver[uri[t]]]
  /\ Goto(t, "reuse")
  /\ UNCHANGED <<originVars, cache, uri, now, since, freed, proxy>>

\* cache->at(hash) serves the entry or throws, which ends the process.
Reuse(t) ==
  /\ proxy = "up"
  /\ pc[t] = "reuse"
  /\ uri[t] \in Cached
  /\ ServeEntry(t)

ReuseThrows(t) ==
  /\ proxy = "up"
  /\ pc[t] = "reuse"
  /\ uri[t] \notin Cached
  /\ proxy' = "threw"
  /\ UNCHANGED <<originVars, cache, threadVars, freed>>

\* What one connection can do to the whole process: a request or an answer
\* that cannot be parsed throws, an origin that cannot be reached makes libtcp
\* call exit(), and a client that is gone raises SIGPIPE.
Dies(t) ==
  /\ proxy = "up"
  /\ pc[t] \in {"idle", "hit", "fetch"} \/ (pc[t] = "reuse" /\ uri[t] \in Cached)
  /\ proxy' = "ended"
  /\ UNCHANGED <<originVars, cache, threadVars, freed>>

\* A full cache loses an entry that was not used for the longest time.
Evict(t) ==
  /\ proxy = "up"
  /\ pc[t] = "evict"
  /\ Cardinality(Cached) >= CacheSize
  /\ \E u \in Cached :
       /\ \A v \in Cached : cache[u].used <= cache[v].used
       /\ cache' = [cache EXCEPT ![u] = NoEntry]
       /\ freed' = freed \cup {s \in Threads : pc[s] = "hit" /\ uri[s] = u}
  /\ Goto(t, "emplace")
  /\ UNCHANGED <<originVars, uri, now, since, resp, proxy>>

\* Mutant of NoEvict: room is seen in a cache that is just full.
NoEvictWhenFull(t) ==
  /\ proxy = "up"
  /\ pc[t] = "evict"
  /\ Cardinality(Cached) <= CacheSize
  /\ Goto(t, "emplace")
  /\ UNCHANGED <<originVars, cache, uri, now, since, resp, freed, proxy>>

NoEvict(t) ==
  /\ proxy = "up"
  /\ pc[t] = "evict"
  /\ Cardinality(Cached) < CacheSize
  /\ Goto(t, "emplace")
  /\ UNCHANGED <<originVars, cache, uri, now, since, resp, freed, proxy>>

\* emplace inserts only when the key is absent.
emplace(t) ==
  LET u == uri[t]
      e == [used |-> now[t], exp |-> resp[t].exp, ver |-> resp[t].ver]
  IN  cache' = [cache EXCEPT ![u] = IF @ = NoEntry THEN e ELSE @]

Emplace(t) ==
  /\ proxy = "up"
  /\ pc[t] = "emplace"
  /\ emplace(t)
  /\ Goto(t, "idle")
  /\ UNCHANGED <<originVars, uri, now, since, resp, freed, proxy>>

\* Two threads in the map at once, one of them changing it: a data race.
\* It may do no harm (the steps above) or leave the map corrupt.
Race(s, t) ==
  /\ proxy = "up"
  /\ s # t
  /\ pc[s] \in Writing
  /\ pc[t] \in Using
  /\ proxy' = "corrupt"
  /\ UNCHANGED <<originVars, cache, threadVars, freed>>

-----------------------------------------------------------------------------
(* The world outside.                                                      *)

Tick ==
  /\ clock < MaxTime
  /\ clock' = clock + 1
  /\ UNCHANGED <<ver, modified, cache, threadVars, freed, proxy>>

Modify(u) ==
  /\ ver[u] < MaxVersion
  /\ ver' = [ver EXCEPT ![u] = @ + 1]
  /\ modified' = [modified EXCEPT ![u] = clock]
  /\ UNCHANGED <<clock, cache, threadVars, freed, proxy>>

Handler(t) ==
  \/ \E u \in Uris : Request(t, u)
  \/ Find(t) \/ ServeHit(t) \/ UseFreed(t)
  \/ \E d \in ExpirationTimes(t) : OriginOk(t, d)
  \/ OriginNotModified(t) \/ Reuse(t) \/ ReuseThrows(t) \/ Dies(t)
  \/ Evict(t) \/ NoEvict(t) \/ Emplace(t)

Next ==
  \/ \E t \in Threads : Handler(t)
  \/ \E s, t \in Threads : Race(s, t)
  \/ Tick
  \/ \E u \in Uris : Modify(u)

Spec == Init /\ [][Next]_vars

-----------------------------------------------------------------------------
(* Type correctness of the shared cache and of the locals of the handler.  *)
TypeOK ==
  /\ clock \in Nat
  /\ ver \in [Uris -> Nat]
  /\ modified \in [Uris -> Nat]
  /\ cache \in [Uris -> Entries \cup {NoEntry}]
  /\ pc \in [Threads -> Using \cup {"idle", "fetch"}]
  /\ uri \in [Threads -> Uris]
  /\ now \in [Threads -> Nat]
  /\ since \in [Threads -> Nat \cup {NoTime}]
  /\ resp \in [Threads -> [ver : Nat, exp : Nat]]
  /\ freed \in SUBSET Threads
  /\ proxy \in {"up", "threw", "ended", "corrupt"}

\* Threads that have passed the size check and will insert.
Inserting == {t \in Threads : pc[t] = "emplace"}

(* The size check and the insertion are two steps, so threads that passed  *)
(* the check together overshoot CacheSize, but the entries present and the *)
(* ones about to come never by more than one per other thread, however     *)
(* many requests are served.                                               *)
RoomPromised ==
  Cardinality(Cached) + Cardinality(Inserting) <= CacheSize - 1 + Cardinality(Threads)

\* So much for the entries alone.
CacheBounded == Cardinality(Cached) <= CacheSize - 1 + Cardinality(Threads)

(* A hit is fresh: the entry a thread is about to serve without asking the *)
(* origin expires after the time its request came in.  No insertion of     *)
(* another thread puts an expired response in its place since it was found.*)
(* Nothing is said of a thread whose entry another one erased: that happens*)
(* too, and what the thread serves is then undefined (UseFreed).           *)
HitIsFresh ==
  \A t \in Threads :
    pc[t] = "hit" /\ t \notin freed =>
      cache[uri[t]] # NoEntry /\ now[t] < cache[uri[t]].exp

(* An entry is what the origin sent: its version existed at the origin, and*)
(* the last use recorded for it is not in the future.                      *)
EntriesGenuine ==
  \A u \in Cached : cache[u].ver <= ver[u] /\ cache[u].used <= clock

-----------------------------------------------------------------------------
(* "a stale Expires header in the cache is accessed, the cache entry is    *)
(* replaced with a fresh copy" (http_server.cpp, test 4): when a handler    *)
(* that found a stale entry ends, the cache holds the new response.        *)
StaleReplaced ==
  [][\A t \in Threads :
       pc[t] = "emplace" /\ pc'[t] = "idle" /\ since[t] # NoTime =>
         cache'[uri[t]].ver = resp[t].ver /\ cache'[uri[t]].exp = resp[t].exp]_vars
=============================================================================
