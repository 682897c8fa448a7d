--------------------------- MODULE HttpProxyProofs ---------------------------
(***************************************************************************)
(* The bound on the proxy's cache and the freshness of hits, for every      *)
(* number of threads and URIs and every cache size.                        *)
(***************************************************************************)
EXTENDS HttpProxy, FiniteSetTheorems, TLAPS

IInv == TypeOK /\ IsFiniteSet(Cached) /\ RoomPromised /\ HitIsFresh

LEMMA InitIInv == Init => IInv
<1> SUFFICES ASSUME Init PROVE IInv
  OBVIOUS
<1>1. TypeOK
  BY DEF Init, TypeOK, Using
<1>2. Cached = {} /\ Inserting = {}
  BY DEF Init, Cached, Inserting
<1>3. IsFiniteSet(Cached) /\ RoomPromised
  BY <1>2, FS_EmptySet, FS_CardinalityType, ThreadsAssumption, SizesAssumption DEF RoomPromised
<1>4. HitIsFresh
  BY DEF Init, HitIsFresh
<1> QED
  BY <1>1, <1>3, <1>4 DEF IInv

(* Serving a cached entry changes its time of last use only.               *)
LEMMA ServeFacts ==
  ASSUME TypeOK, NEW t \in Threads, cache[uri[t]] # NoEntry, ServeEntry(t)
  PROVE  /\ cache' \in [Uris -> Entries \cup {NoEntry}]
         /\ Cached' = Cached
         /\ \A u \in Cached : cache'[u].exp = cache[u].exp /\ cache'[u].ver = cache[u].ver
<1> DEFINE e == [cache[uri[t]] EXCEPT !.used = now[t]]
<1>1. cache[uri[t]] \in Entries /\ uri[t] \in Uris /\ now[t] \in Nat
  BY DEF TypeOK
<1>2. /\ e \in Entries /\ e.exp = cache[uri[t]].exp /\ e.ver = cache[uri[t]].ver
  BY <1>1 DEF Entries
<1>3. e # NoEntry
  BY <1>2, NoEntryAssumption DEF Entries
<1>4. cache' = [cache EXCEPT ![uri[t]] = e]
  BY DEF ServeEntry
<1> HIDE DEF e
<1> QED
  BY <1>1, <1>2, <1>3, <1>4 DEF TypeOK, Cached

LEMMA TypeStep == IInv /\ [Next]_vars => TypeOK'
<1> SUFFICES ASSUME IInv, [Next]_vars PROVE TypeOK'
  OBVIOUS
<1> USE DEF IInv, TypeOK, Using, originVars, threadVars, Goto
<1>1. ASSUME NEW t \in Threads, NEW u \in Uris, Request(t, u) PROVE TypeOK'
  BY <1>1 DEF Request
<1>2. ASSUME NEW t \in Threads, Find(t) PROVE TypeOK'
  <2>1. cache[uri[t]] # NoEntry => cache[uri[t]].exp \in Nat
    BY DEF Entries
  <2> QED
    BY <1>2, <2>1 DEF Find
<1>3. ASSUME NEW t \in Threads, ServeHit(t) \/ Reuse(t) PROVE TypeOK'
  <2>1. cache[uri[t]] # NoEntry /\ ServeEntry(t)
    BY <1>3 DEF ServeHit, Reuse, HitIsFresh, Cached
  <2>2. cache' \in [Uris -> Entries \cup {NoEntry}]
    BY <2>1, ServeFacts
  <2> QED
    BY <2>1, <2>2 DEF ServeEntry
<1>4. ASSUME NEW t \in Threads, UseFreed(t) \/ ReuseThrows(t) \/ Dies(t) PROVE TypeOK'
  BY <1>4 DEF UseFreed, ReuseThrows, Dies
<1>5. ASSUME NEW t \in Threads, NEW d \in ExpirationTimes(t), OriginOk(t, d) PROVE TypeOK'
  <2>1. d \in Nat
    BY SizesAssumption DEF ExpirationTimes
  <2> QED
    BY <1>5, <2>1 DEF OriginOk
<1>6. ASSUME NEW t \in Threads, OriginNotModified(t) PROVE TypeOK'
  BY <1>6 DEF OriginNotModified
<1>7. ASSUME NEW t \in Threads, Evict(t) \/ NoEvict(t) PROVE TypeOK'
  BY <1>7 DEF Evict, NoEvict
<1>8. ASSUME NEW t \in Threads, Emplace(t) PROVE TypeOK'
  <2>1. [used |-> now[t], exp |-> resp[t].exp, ver |-> resp[t].ver] \in Entries
    BY DEF Entries
  <2> QED
    BY <1>8, <2>1 DEF Emplace, emplace
<1>9. ASSUME NEW s \in Threads, NEW t \in Threads, Race(s, t) PROVE TypeOK'
  BY <1>9 DEF Race
<1>10. ASSUME Tick PROVE TypeOK'
  BY <1>10 DEF Tick
<1>11. ASSUME NEW u \in Uris, Modify(u) PROVE TypeOK'
  BY <1>11 DEF Modify
<1>12. CASE UNCHANGED vars
  BY <1>12 DEF vars
<1> QED
  BY <1>1, <1>2, <1>3, <1>4, <1>5, <1>6, <1>7, <1>8, <1>9, <1>10, <1>11, <1>12
  DEF Next, Handler

(* Every step but Evict, NoEvict and Emplace leaves the set of entries and *)
(* the set of inserting threads alone.                                     *)
LEMMA SetsKept ==
  IInv /\ [Next]_vars =>
    \/ Cached' = Cached /\ Inserting' = Inserting
    \/ \E t \in Threads : Evict(t) \/ NoEvict(t) \/ Emplace(t)
<1> SUFFICES ASSUME IInv, [Next]_vars,
                    ~ \E t \in Threads : Evict(t) \/ NoEvict(t) \/ Emplace(t)
             PROVE  Cached' = Cached /\ Inserting' = Inserting
  OBVIOUS
<1> USE DEF Inserting, originVars, threadVars, Goto
<1>1. TypeOK
  BY DEF IInv
<1>2. ASSUME NEW t \in Threads, NEW where, where # "emplace", pc[t] # "emplace", Goto(t, where)
      PROVE  Inserting' = Inserting
  BY <1>1, <1>2 DEF TypeOK
<1>3. ASSUME NEW t \in Threads, ServeHit(t) \/ Reuse(t)
      PROVE  Cached' = Cached /\ Inserting' = Inserting
  <2>1. cache[uri[t]] # NoEntry /\ ServeEntry(t) /\ pc[t] # "emplace"
    BY <1>3 DEF ServeHit, Reuse, HitIsFresh, Cached, IInv
  <2>2. Cached' = Cached
    BY <1>1, <2>1, ServeFacts
  <2> QED
    BY <1>2, <2>1, <2>2 DEF ServeEntry
<1>4. ASSUME NEW t \in Threads, NEW u \in Uris, Request(t, u)
      PROVE  Cached' = Cached /\ Inserting' = Inserting
  BY <1>2, <1>4 DEF Request, Cached
<1>5. ASSUME NEW t \in Threads, Find(t)
      PROVE  Cached' = Cached /\ Inserting' = Inserting
  <2>1. pc[t] = "find" /\ (Goto(t, "hit") \/ Goto(t, "fetch")) /\ cache' = cache
    BY <1>5 DEF Find
  <2> QED
    BY <1>2, <2>1 DEF Cached
<1>6. ASSUME NEW t \in Threads, NEW d, OriginOk(t, d)
      PROVE  Cached' = Cached /\ Inserting' = Inserting
  BY <1>2, <1>6 DEF OriginOk, Cached
<1>7. ASSUME NEW t \in Threads, OriginNotModified(t)
      PROVE  Cached' = Cached /\ Inserting' = Inserting
  BY <1>2, <1>7 DEF OriginNotModified, Cached
<1>8. ASSUME cache' = cache, pc' = pc
      PROVE  Cached' = Cached /\ Inserting' = Inserting
  BY <1>8 DEF Cached
<1>9. ASSUME NEW t \in Threads, UseFreed(t) \/ ReuseThrows(t) \/ Dies(t)
      PROVE  cache' = cache /\ pc' = pc
  BY <1>9 DEF UseFreed, ReuseThrows, Dies
<1>10. ASSUME NEW s \in Threads, NEW t \in Threads, Race(s, t) PROVE cache' = cache /\ pc' = pc
  BY <1>10 DEF Race
<1>11. ASSUME NEW u \in Uris, Tick \/ Modify(u) PROVE cache' = cache /\ pc' = pc
  BY <1>11 DEF Tick, Modify
<1>12. Tick \/ UNCHANGED vars => cache' = cache /\ pc' = pc
  BY DEF Tick, vars
<1> QED
  BY <1>3, <1>4, <1>5, <1>6, <1>7, <1>8, <1>9, <1>10, <1>11, <1>12 DEF Next, Handler

LEMMA RoomStep == IInv /\ [Next]_vars => IsFiniteSet(Cached') /\ RoomPromised'
<1> SUFFICES ASSUME IInv, [Next]_vars PROVE IsFiniteSet(Cached') /\ RoomPromised'
  OBVIOUS
<1>1. /\ IsFiniteSet(Cached) /\ IsFiniteSet(Inserting)
      /\ Cardinality(Cached) \in Nat /\ Cardinality(Inserting) \in Nat
      /\ Cardinality(Threads) \in Nat /\ CacheSize \in Nat
  BY FS_Subset, FS_CardinalityType, ThreadsAssumption, SizesAssumption DEF IInv, Inserting
<1>2. CASE Cached' = Cached /\ Inserting' = Inserting
  BY <1>1, <1>2 DEF IInv, RoomPromised
<1>3. ASSUME NEW t \in Threads, Evict(t) PROVE IsFiniteSet(Cached') /\ RoomPromised'
  <2>1. PICK u \in Cached : cache' = [cache EXCEPT ![u] = NoEntry]
    BY <1>3 DEF Evict
  <2>2. Cached' = Cached \ {u}
    BY <2>1 DEF Cached, IInv, TypeOK
  <2>3. Inserting' = Inserting \cup {t}
    BY <1>3 DEF Evict, Goto, Inserting, IInv, TypeOK
  <2>4. IsFiniteSet(Cached') /\ Cardinality(Cached') = Cardinality(Cached) - 1
    BY <1>1, <2>1, <2>2, FS_RemoveElement
  <2>5. Cardinality(Inserting') <= Cardinality(Inserting) + 1 /\ Cardinality(Inserting') \in Nat
    <3>1. IsFiniteSet(Inserting \cup {t})
      BY <1>1, FS_AddElement
    <3>2. Cardinality(Inserting \cup {t}) =
            IF t \in Inserting THEN Cardinality(Inserting) ELSE Cardinality(Inserting) + 1
      BY <1>1, FS_AddElement
    <3>3. Cardinality(Inserting') \in Nat
      BY <2>3, <3>1, FS_CardinalityType
    <3> QED
      BY <1>1, <2>3, <3>2, <3>3
  <2>6. Cardinality(Cached') \in Nat
    BY <2>4, FS_CardinalityType
  <2> QED
    BY <1>1, <2>4, <2>5, <2>6 DEF IInv, RoomPromised
<1>4. ASSUME NEW t \in Threads, NoEvict(t) PROVE IsFiniteSet(Cached') /\ RoomPromised'
  <2>1. Cached' = Cached /\ Cardinality(Cached) < CacheSize
    BY <1>4 DEF NoEvict, Cached
  <2>2. Inserting' \subseteq Threads
    BY DEF Inserting
  <2>3. Cardinality(Inserting') <= Cardinality(Threads) /\ Cardinality(Inserting') \in Nat
    BY <2>2, FS_Subset, FS_CardinalityType, ThreadsAssumption
  <2> QED
    BY <1>1, <2>1, <2>3 DEF RoomPromised
<1>5. ASSUME NEW t \in Threads, Emplace(t) PROVE IsFiniteSet(Cached') /\ RoomPromised'
  <2>1. t \in Inserting /\ Inserting' = Inserting \ {t}
    BY <1>5 DEF Emplace, Goto, Inserting, IInv, TypeOK
  <2>2. Cached' = Cached \/ Cached' = Cached \cup {uri[t]}
    <3> DEFINE e == [used |-> now[t], exp |-> resp[t].exp, ver |-> resp[t].ver]
    <3>1. /\ uri[t] \in Uris /\ cache \in [Uris -> Entries \cup {NoEntry}]
          /\ cache' = [cache EXCEPT ![uri[t]] = IF @ = NoEntry THEN e ELSE @]
      BY <1>5 DEF Emplace, emplace, IInv, TypeOK
    <3> HIDE DEF e
    <3>2. CASE cache[uri[t]] = NoEntry /\ e # NoEntry
      BY <3>1, <3>2 DEF Cached
    <3>3. CASE cache[uri[t]] # NoEntry \/ e = NoEntry
      BY <3>1, <3>3 DEF Cached
    <3> QED
      BY <3>2, <3>3
  <2>3. Cardinality(Inserting') = Cardinality(Inserting) - 1
    BY <1>1, <2>1, FS_RemoveElement
  <2>4. IsFiniteSet(Cached') /\ Cardinality(Cached') <= Cardinality(Cached) + 1
    <3>1. IsFiniteSet(Cached) /\ Cardinality(Cached) \in Nat
      BY <1>1
    <3>2. CASE Cached' = Cached
      BY <3>1, <3>2
    <3>3. CASE Cached' = Cached \cup {uri[t]}
      <4>1. /\ IsFiniteSet(Cached \cup {uri[t]})
            /\ \/ Cardinality(Cached \cup {uri[t]}) = Cardinality(Cached)
               \/ Cardinality(Cached \cup {uri[t]}) = Cardinality(Cached) + 1
        BY <3>1, FS_AddElement
      <4> QED
        BY <3>1, <3>3, <4>1
    <3> QED
      BY <2>2, <3>2, <3>3
  <2>5. Cardinality(Cached') \in Nat
    BY <2>4, FS_CardinalityType
  <2> QED
    BY <1>1, <2>3, <2>4, <2>5 DEF IInv, RoomPromised
<1> QED
  BY <1>2, <1>3, <1>4, <1>5, SetsKept

(* An entry that stays keeps its response and its expiration.              *)
LEMMA EntriesStep ==
  ASSUME IInv, [Next]_vars, NEW u \in Uris, cache[u] # NoEntry, cache'[u] # NoEntry
  PROVE  cache'[u].ver = cache[u].ver /\ cache'[u].exp = cache[u].exp
<1>1. CASE cache' = cache
  BY <1>1
<1>2. ASSUME NEW t \in Threads, ServeHit(t) \/ Reuse(t)
      PROVE  cache'[u].ver = cache[u].ver /\ cache'[u].exp = cache[u].exp
  <2>1. cache[uri[t]] # NoEntry /\ ServeEntry(t)
    BY <1>2 DEF ServeHit, Reuse, HitIsFresh, Cached, IInv
  <2> QED
    BY <2>1, ServeFacts DEF IInv, Cached
<1>3. ASSUME NEW t \in Threads, Evict(t)
      PROVE  cache'[u] = cache[u]
  BY <1>3 DEF Evict, IInv, TypeOK
<1>4. ASSUME NEW t \in Threads, Emplace(t)
      PROVE  cache'[u] = cache[u]
  BY <1>4 DEF Emplace, emplace, IInv, TypeOK
<1>5. ASSUME NEW t \in Threads,
             \/ \E v \in Uris : Request(t, v)
             \/ \E d \in ExpirationTimes(t) : OriginOk(t, d)
             \/ Find(t) \/ UseFreed(t) \/ OriginNotModified(t)
             \/ ReuseThrows(t) \/ Dies(t) \/ NoEvict(t)
      PROVE  cache' = cache
  BY <1>5 DEF Request, OriginOk, Find, UseFreed, OriginNotModified, ReuseThrows, Dies, NoEvict
<1>6. ASSUME NEW s \in Threads, NEW t \in Threads, Race(s, t) PROVE cache' = cache
  BY <1>6 DEF Race
<1>7. ASSUME NEW v \in Uris, Modify(v) PROVE cache' = cache
  BY <1>7 DEF Modify
<1>8. Tick \/ UNCHANGED vars => cache' = cache
  BY DEF Tick, vars
<1> QED
  BY <1>1, <1>2, <1>3, <1>4, <1>5, <1>6, <1>7, <1>8 DEF Next, Handler

(* An entry disappears only by an eviction, which marks the threads that   *)
(* hold a reference to it.                                                 *)
LEMMA ErasedMarked ==
  ASSUME IInv, [Next]_vars, NEW u \in Uris, cache[u] # NoEntry, cache'[u] = NoEntry,
         NEW t \in Threads, pc[t] = "hit", uri[t] = u
  PROVE  t \in freed'
<1>1. ASSUME NEW s \in Threads, Evict(s) PROVE t \in freed'
  BY <1>1 DEF Evict, IInv, TypeOK
<1>2. ASSUME NEW s \in Threads, NoEvict(s) PROVE FALSE
  BY <1>2 DEF NoEvict
<1>3. ASSUME NEW s \in Threads, Emplace(s) PROVE FALSE
  BY <1>3 DEF Emplace, emplace, IInv, TypeOK
<1>4. Cached' # Cached
  BY DEF Cached
<1> QED
  BY <1>1, <1>2, <1>3, <1>4, SetsKept

(* A thread that holds a reference keeps its request; another one reaches  *)
(* that place only by finding a fresh entry.                               *)
LEMMA HitEntered ==
  ASSUME IInv, [Next]_vars, NEW t \in Threads, pc'[t] = "hit"
  PROVE  \/ pc[t] = "hit" /\ uri'[t] = uri[t] /\ now'[t] = now[t]
         \/ /\ cache[uri[t]] # NoEntry /\ now[t] < cache[uri[t]].exp
            /\ UNCHANGED <<cache, uri, now>>
<1> DEFINE Keeps == pc[t] = "hit" /\ uri'[t] = uri[t] /\ now'[t] = now[t]
           Finds == /\ cache[uri[t]] # NoEntry /\ now[t] < cache[uri[t]].exp
                    /\ UNCHANGED <<cache, uri, now>>
<1> USE DEF originVars, threadVars
<1>0. pc \in [Threads -> Using \cup {"idle", "fetch"}] /\ uri \in [Threads -> Uris]
      /\ now \in [Threads -> Nat]
  BY DEF IInv, TypeOK
<1>1. ASSUME NEW s \in Threads, NEW where, where # "hit", pc' = [pc EXCEPT ![s] = where],
             UNCHANGED <<uri, now>>
      PROVE  Keeps
  BY <1>0, <1>1
<1>2. ASSUME NEW s \in Threads, Find(s) PROVE Keeps \/ Finds
  <2>1. CASE pc' = [pc EXCEPT ![s] = "fetch"]
    BY <1>1, <1>2, <2>1 DEF Find
  <2>2. CASE pc' = [pc EXCEPT ![s] = "hit"] /\ s # t
    BY <1>0, <1>2, <2>2 DEF Find
  <2>3. CASE pc' = [pc EXCEPT ![s] = "hit"] /\ s = t
    <3>1. pc'[t] # "fetch"
      OBVIOUS
    <3>2. pc' # [pc EXCEPT ![t] = "fetch"]
      BY <1>0, <3>1
    <3> QED
      BY <1>2, <2>3, <3>2 DEF Find, Goto
  <2> QED
    BY <1>2, <2>1, <2>2, <2>3 DEF Find, Goto
<1>3. ASSUME NEW s \in Threads, NEW v \in Uris, Request(s, v) PROVE Keeps
  BY <1>0, <1>3 DEF Request, Goto
<1>4. ASSUME NEW s \in Threads,
             \/ ServeHit(s) \/ Reuse(s) \/ OriginNotModified(s)
             \/ \E d \in ExpirationTimes(s) : OriginOk(s, d)
             \/ Evict(s) \/ NoEvict(s) \/ Emplace(s)
      PROVE  Keeps
  BY <1>1, <1>4 DEF ServeHit, Reuse, ServeEntry, OriginNotModified, OriginOk, Evict, NoEvict,
                    Emplace, Goto
<1>5. ASSUME UNCHANGED <<pc, uri, now>> PROVE Keeps
  BY <1>5
<1>6. ASSUME NEW s \in Threads, UseFreed(s) \/ ReuseThrows(s) \/ Dies(s)
      PROVE  UNCHANGED <<pc, uri, now>>
  BY <1>6 DEF UseFreed, ReuseThrows, Dies
<1>7. ASSUME NEW r \in Threads, NEW s \in Threads, Race(r, s) PROVE UNCHANGED <<pc, uri, now>>
  BY <1>7 DEF Race
<1>8. ASSUME NEW v \in Uris, Modify(v) PROVE UNCHANGED <<pc, uri, now>>
  BY <1>8 DEF Modify
<1>9. Tick \/ UNCHANGED vars => UNCHANGED <<pc, uri, now>>
  BY DEF Tick, vars
<1> HIDE DEF Keeps, Finds
<1>10. Keeps \/ Finds
  BY <1>2, <1>3, <1>4, <1>5, <1>6, <1>7, <1>8, <1>9 DEF Next, Handler
<1> QED
  BY <1>10 DEF Keeps, Finds

(* freed only grows.                                                       *)
LEMMA FreedGrows == [Next]_vars => freed \subseteq freed'
BY DEF Next, Handler, Request, Find, ServeHit, ServeEntry, UseFreed, OriginOk,
       OriginNotModified, Reuse, ReuseThrows, Dies, Evict, NoEvict, Emplace, Race, Tick, Modify, vars

LEMMA HitStep == IInv /\ [Next]_vars => HitIsFresh'
<1> SUFFICES ASSUME IInv, [Next]_vars, NEW t \in Threads, pc'[t] = "hit", t \notin freed'
             PROVE  cache'[uri'[t]] # NoEntry /\ now'[t] < cache'[uri'[t]].exp
  BY DEF HitIsFresh
<1>1. t \notin freed
  BY FreedGrows
<1>2. CASE pc[t] = "hit" /\ uri'[t] = uri[t] /\ now'[t] = now[t]
  <2>1. /\ cache[uri[t]] # NoEntry /\ now[t] < cache[uri[t]].exp /\ uri[t] \in Uris
    BY <1>1, <1>2 DEF IInv, TypeOK, HitIsFresh
  <2>2. cache'[uri[t]] # NoEntry
    BY <1>2, <2>1, ErasedMarked
  <2>3. cache'[uri[t]].exp = cache[uri[t]].exp
    BY <2>1, <2>2, EntriesStep
  <2> QED
    BY <1>2, <2>1, <2>2, <2>3
<1>3. CASE /\ cache[uri[t]] # NoEntry /\ now[t] < cache[uri[t]].exp
           /\ UNCHANGED <<cache, uri, now>>
  BY <1>3
<1> QED
  BY <1>2, <1>3, HitEntered

(* A thread works with a time that has passed, and one about to insert with *)
(* a version the origin had: where an entry of the cache comes from.       *)
ThreadsGenuine ==
  \A t \in Threads :
    /\ now[t] <= clock
    /\ pc[t] \in {"evict", "emplace"} => resp[t].ver <= ver[uri[t]]

LEMMA InitGenuine == Init => EntriesGenuine /\ ThreadsGenuine
BY DEF Init, EntriesGenuine, ThreadsGenuine, Cached

(* At the origin versions and time only go on.                             *)
LEMMA OriginStep ==
  ASSUME IInv, EntriesGenuine, ThreadsGenuine, Tick \/ \E u \in Uris : Modify(u)
  PROVE  EntriesGenuine' /\ ThreadsGenuine'
<1>1. /\ UNCHANGED <<cache, pc, uri, now, resp>> /\ TypeOK
      /\ \/ clock' = clock + 1 /\ ver' = ver
         \/ clock' = clock /\ \E u \in Uris : ver' = [ver EXCEPT ![u] = @ + 1]
  BY DEF Tick, Modify, threadVars, IInv
<1>2. clock \in Nat /\ clock' \in {clock, clock + 1}
      /\ \A u \in Uris : ver[u] \in Nat /\ ver'[u] \in {ver[u], ver[u] + 1}
  BY <1>1 DEF TypeOK
<1>3. \A u \in Cached : cache[u].ver \in Nat /\ cache[u].used \in Nat
  BY <1>1 DEF TypeOK, Cached, Entries
<1>4. \A t \in Threads : now[t] \in Nat /\ resp[t].ver \in Nat /\ uri[t] \in Uris
  BY <1>1 DEF TypeOK
<1>5. Cached' = Cached
  BY <1>1 DEF Cached
<1>6. ASSUME NEW u \in Cached PROVE cache[u].ver <= ver'[u] /\ cache[u].used <= clock'
  BY <1>2, <1>3 DEF EntriesGenuine, Cached
<1>7. ASSUME NEW t \in Threads
      PROVE  now[t] <= clock' /\ (pc[t] \in {"evict", "emplace"} => resp[t].ver <= ver'[uri[t]])
  BY <1>2, <1>4 DEF ThreadsGenuine
<1> QED
  BY <1>1, <1>5, <1>6, <1>7 DEF EntriesGenuine, ThreadsGenuine

LEMMA GenuineStep ==
  IInv /\ EntriesGenuine /\ ThreadsGenuine /\ [Next]_vars => EntriesGenuine' /\ ThreadsGenuine'
<1> SUFFICES ASSUME IInv, EntriesGenuine, ThreadsGenuine, [Next]_vars
             PROVE  EntriesGenuine' /\ ThreadsGenuine'
  OBVIOUS
<1>0. TypeOK
  BY DEF IInv
<1> USE DEF originVars, threadVars, Goto
<1>1. ASSUME NEW t \in Threads, ServeHit(t) \/ Reuse(t)
      PROVE  EntriesGenuine' /\ ThreadsGenuine'
  <2>1. cache[uri[t]] # NoEntry /\ ServeEntry(t)
    BY <1>1 DEF ServeHit, Reuse, HitIsFresh, Cached, IInv
  <2>2. Cached' = Cached /\ \A u \in Cached : cache'[u].ver = cache[u].ver
    BY <1>0, <2>1, ServeFacts
  <2>3. \A u \in Cached : cache'[u].used = cache[u].used \/ cache'[u].used = now[t]
    BY <1>0, <2>1 DEF ServeEntry, TypeOK, Entries, Cached
  <2>4. EntriesGenuine'
    BY <2>1, <2>2, <2>3 DEF ServeEntry, EntriesGenuine, ThreadsGenuine
  <2> QED
    BY <1>0, <2>1, <2>4 DEF ServeEntry, ThreadsGenuine, TypeOK
<1>2. ASSUME NEW t \in Threads, Evict(t)
      PROVE  EntriesGenuine' /\ ThreadsGenuine'
  <2>1. PICK u \in Cached : cache' = [cache EXCEPT ![u] = NoEntry]
    BY <1>2 DEF Evict
  <2>2. EntriesGenuine'
    BY <1>0, <1>2, <2>1 DEF Evict, EntriesGenuine, Cached, TypeOK
  <2> QED
    BY <1>0, <1>2, <2>2 DEF Evict, ThreadsGenuine, TypeOK
<1>3. ASSUME NEW t \in Threads, Emplace(t)
      PROVE  EntriesGenuine' /\ ThreadsGenuine'
  <2> DEFINE e == [used |-> now[t], exp |-> resp[t].exp, ver |-> resp[t].ver]
  <2>1. cache' = [cache EXCEPT ![uri[t]] = IF @ = NoEntry THEN e ELSE @] /\ pc[t] = "emplace"
    BY <1>3 DEF Emplace, emplace
  <2>2. e.ver <= ver[uri[t]] /\ e.used <= clock /\ uri[t] \in Uris
    BY <1>0, <2>1 DEF ThreadsGenuine, TypeOK
  <2> HIDE DEF e
  <2>3. EntriesGenuine'
    BY <1>0, <1>3, <2>1, <2>2 DEF Emplace, EntriesGenuine, Cached, TypeOK
  <2> QED
    BY <1>0, <1>3, <2>3 DEF Emplace, ThreadsGenuine, TypeOK
<1>4. ASSUME NEW t \in Threads, NEW u \in Uris, Request(t, u)
      PROVE  EntriesGenuine' /\ ThreadsGenuine'
  <2>1. clock <= clock
    BY <1>0 DEF TypeOK
  <2> QED
    BY <1>0, <1>4, <2>1 DEF Request, EntriesGenuine, ThreadsGenuine, Cached, TypeOK
<1>5. ASSUME NEW t \in Threads, NEW d, OriginOk(t, d)
      PROVE  EntriesGenuine' /\ ThreadsGenuine'
  <2>1. ver[uri[t]] <= ver[uri[t]]
    BY <1>0 DEF TypeOK
  <2> QED
    BY <1>0, <1>5, <2>1 DEF OriginOk, EntriesGenuine, ThreadsGenuine, Cached, TypeOK
<1>6. ASSUME NEW t \in Threads, Find(t) \/ OriginNotModified(t) \/ NoEvict(t)
      PROVE  EntriesGenuine' /\ ThreadsGenuine'
  <2>1. UNCHANGED <<clock, ver, cache, uri, now>>
    BY <1>6 DEF Find, OriginNotModified, NoEvict
  <2>2. EntriesGenuine'
    BY <2>1 DEF EntriesGenuine, Cached
  <2>3. \A s \in Threads : pc'[s] \in {"evict", "emplace"} =>
          pc[s] \in {"evict", "emplace"} /\ resp'[s] = resp[s]
    <3>1. CASE Find(t)
      BY <1>0, <3>1 DEF Find, TypeOK
    <3>2. CASE OriginNotModified(t)
      BY <1>0, <3>2 DEF OriginNotModified, TypeOK
    <3>3. CASE NoEvict(t)
      BY <1>0, <3>3 DEF NoEvict, TypeOK
    <3> QED
      BY <1>6, <3>1, <3>2, <3>3
  <2> QED
    BY <2>1, <2>2, <2>3 DEF ThreadsGenuine
<1>7. ASSUME UNCHANGED <<clock, ver, cache, pc, uri, now, resp>>
      PROVE  EntriesGenuine' /\ ThreadsGenuine'
  BY <1>7 DEF EntriesGenuine, ThreadsGenuine, Cached
<1>8. ASSUME NEW t \in Threads, UseFreed(t) \/ ReuseThrows(t) \/ Dies(t)
      PROVE  UNCHANGED <<clock, ver, cache, pc, uri, now, resp>>
  BY <1>8 DEF UseFreed, ReuseThrows, Dies
<1>9. ASSUME NEW s \in Threads, NEW t \in Threads, Race(s, t)
      PROVE  UNCHANGED <<clock, ver, cache, pc, uri, now, resp>>
  BY <1>9 DEF Race
<1>10. UNCHANGED vars => UNCHANGED <<clock, ver, cache, pc, uri, now, resp>>
  BY DEF vars
<1> QED
  BY <1>1, <1>2, <1>3, <1>4, <1>5, <1>6, <1>7, <1>8, <1>9, <1>10, OriginStep DEF Next, Handler

-----------------------------------------------------------------------------
(* The invariant is inductive.                                             *)
THEOREM Invariance == Spec => []IInv
<1>1. IInv /\ [Next]_vars => IInv'
  <2>1. IInv /\ [Next]_vars => IsFiniteSet(Cached)'
    BY RoomStep
  <2> QED
    BY <2>1, TypeStep, RoomStep, HitStep DEF IInv
<1> QED
  BY InitIInv, <1>1, PTL DEF Spec

(* Entries and insertions under way stay within the room for them, however *)
(* the unlocked threads interleave.                                        *)
THEOREM RoomIsPromised == Spec => []RoomPromised
BY Invariance, PTL DEF IInv

(* However the unlocked threads interleave, the cache never holds more than *)
(* CacheSize - 1 entries plus one per thread.                              *)
THEOREM CacheStaysBounded == Spec => []CacheBounded
<1>1. IInv => CacheBounded
  <2> SUFFICES ASSUME IInv PROVE CacheBounded
    OBVIOUS
  <2>1. /\ Cardinality(Cached) \in Nat /\ Cardinality(Inserting) \in Nat
        /\ Cardinality(Threads) \in Nat /\ CacheSize \in Nat
    BY FS_Subset, FS_CardinalityType, ThreadsAssumption, SizesAssumption DEF IInv, Inserting
  <2> QED
    BY <2>1 DEF IInv, RoomPromised, CacheBounded
<1> QED
  BY <1>1, Invariance, PTL

(* Whatever other threads insert, an entry found fresh is fresh when it is  *)
(* served, unless one of them erased it, which they may: the theorem says  *)
(* nothing of those threads.                                               *)
THEOREM HitsAreFresh == Spec => []HitIsFresh
BY Invariance, PTL DEF IInv

(* What the unlocked threads put into the cache is what an origin sent, and *)
(* no last use is in the future: the victim of an eviction is chosen among *)
(* times that have passed.                                                 *)
THEOREM EntriesAreGenuine == Spec => []EntriesGenuine
<1>1. IInv /\ EntriesGenuine /\ ThreadsGenuine /\ [Next]_vars => (EntriesGenuine /\ ThreadsGenuine)'
  BY GenuineStep
<1> QED
  BY InitGenuine, Invariance, <1>1, PTL DEF Spec
=============================================================================
