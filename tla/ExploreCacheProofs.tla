------------------------- MODULE ExploreCacheProofs -------------------------
(***************************************************************************)
(* Proofs about ExploreCache, for any paths, parts, searches, versions and *)
(* sessions.                                                               *)
(*                                                                         *)
(* What holds for any number of requests at once follows from there being  *)
(* one session at a time (Solo).  What the cache promises of resets and of *)
(* parts holds for one request at a time only: FreshInv adds that no reset *)
(* comes between the moment a result is read and the moment it is stored.  *)
(***************************************************************************)
EXTENDS ExploreCache, FiniteSetTheorems, TLAPS

Cachable == {Missing} \cup Versions

\* A reset empties entries, and leaves a cache.
LEMMA SweepTyped ==
  ASSUME NEW c \in Cache, NEW path
  PROVE  Sweep(c, path) \in Cache
BY DEF Sweep, Cache

\* Storing a version leaves a cache.
LEMMA StoreAtTyped ==
  ASSUME NEW S, NEW cached \in [S -> Cachable], NEW keys, NEW v \in Cachable
  PROVE  /\ StoreAt(cached, keys, v) \in [S -> Cachable]
         /\ \A k \in S : StoreAt(cached, keys, v)[k] = IF k \in keys THEN v ELSE cached[k]
BY DEF StoreAt

LEMMA PutTyped ==
  ASSUME NEW c \in Cache, NEW q \in Query, NEW v \in Cachable
  PROVE  Put(c, q, v) \in Cache
<1>1. /\ c.list \in [ListPaths -> Cachable]
      /\ c.describe \in [DescribePaths -> Cachable]
      /\ c.find \in [Searches -> Cachable]
  BY DEF Cache, Cachable
<1> QED
  BY <1>1, StoreAtTyped DEF Put, Cache, Cachable

\* What is looked up is a version, or missing.
LEMMA CachedTyped ==
  ASSUME NEW c \in Cache, NEW q \in Query
  PROVE  Cached(c, q) \in Cachable
BY DEF Cached, Cache, Query, Cachable

LEMMA EmptyTyped == Empty \in Cache
BY DEF Empty, Cache

\* Zero is no version.
LEMMA MissingIsNoVersion == Missing \notin Versions
BY DEF Missing, Versions

\* A version that is missing or not.
LEMMA MissingTyped == Missing \in Cachable
BY DEF Cachable

\* A request in flight has a query.
Asking == \A r \in Slots : task[r] # "idle" => asks[r] \in Query

TypeInv == TypeOK /\ Asking

Requests ==
  /\ task \in [Slots -> {"idle", "fetching", "read"}]
  /\ asks \in [Slots -> Query \cup {Nothing}]
  /\ began \in [Slots -> Cachable]
  /\ got \in [Slots -> Cachable]
  /\ stale \subseteq Slots
  /\ Asking

\* A request that is over leaves the others as they are.
LEMMA FinishTyped ==
  ASSUME TypeInv, NEW r \in Slots, NEW v, NEW answer, Finish(r, v, answer)
  PROVE  Requests'
<1> USE DEF TypeInv, TypeOK, Finish, Cachable
<1>1. task' \in [Slots -> {"idle", "fetching", "read"}]
  OBVIOUS
<1>2. asks' \in [Slots -> Query \cup {Nothing}]
  OBVIOUS
<1>3. began' \in [Slots -> Cachable] /\ got' \in [Slots -> Cachable]
  BY MissingTyped
<1>4. stale' \subseteq Slots
  OBVIOUS
<1>5. Asking'
  BY DEF Asking
<1> QED
  BY <1>1, <1>2, <1>3, <1>4, <1>5 DEF Requests

\* So does one that has to fetch.
LEMMA LookUpTyped ==
  ASSUME TypeInv, NEW r \in Slots, NEW q \in Query, NEW v \in Cachable, NEW c,
         LookUp(r, q, v, c)
  PROVE  Requests'
<1>1. CASE Finish(r, v, Cached(c, q))
  BY <1>1, FinishTyped
<1>2. CASE /\ task' = [task EXCEPT ![r] = "fetching"]
           /\ asks' = [asks EXCEPT ![r] = q]
           /\ began' = [began EXCEPT ![r] = v]
           /\ got' = [got EXCEPT ![r] = Missing]
           /\ UNCHANGED stale
  <2> USE DEF TypeInv, TypeOK, Cachable
  <2>1. task' \in [Slots -> {"idle", "fetching", "read"}]
    BY <1>2
  <2>2. asks' \in [Slots -> Query \cup {Nothing}]
    BY <1>2
  <2>3. began' \in [Slots -> Cachable] /\ got' \in [Slots -> Cachable]
    BY <1>2, MissingTyped
  <2>4. stale' \subseteq Slots
    BY <1>2
  <2>5. Asking'
    BY <1>2 DEF Asking
  <2> QED
    BY <2>1, <2>2, <2>3, <2>4, <2>5 DEF Requests
<1> QED
  BY <1>1, <1>2 DEF LookUp

Caches == mem \in [Sessions -> Cache] /\ file \in Cache /\ lost \subseteq Sessions

\* What is saved is a cache of the session and, unless that fails, the file.
LEMMA SaveTyped ==
  ASSUME TypeInv, NEW s \in Sessions, NEW c \in Cache, Save(s, c)
  PROVE  Caches'
BY DEF TypeInv, TypeOK, Save, Caches

\* The path that is reset is in the range of the floors.
LEMMA FloorTyped ==
  ASSUME TypeInv, NEW s \in Sessions, NEW p \in Paths
  PROVE  [floor EXCEPT ![s][p] = db] \in [Sessions -> [Paths -> {Missing} \cup Versions]]
BY DEF TypeInv, TypeOK

LEMMA QueryTyped ==
  ASSUME NEW q \in Query
  PROVE  q.on \in Sessions /\ (q.kind # "find" => q.key \in Paths)
BY DEF Query, Paths

\* Every variable keeps its type: asks of a request in flight is a query, or
\* what is stored of it would be no cache.
LEMMA TypeInvHolds == Spec => []TypeInv
<1>1. Init => TypeInv
  BY EmptyTyped, MissingTyped, ExploreCacheAssumption
     DEF Init, TypeInv, TypeOK, Asking, Versions, Cachable
<1>2. TypeInv /\ [Next]_vars => TypeInv'
  <2> SUFFICES ASSUME TypeInv, [Next]_vars PROVE TypeInv'
    OBVIOUS
  <2>0. \A r \in Slots : /\ began[r] \in Cachable /\ got[r] \in Cachable
                         /\ task[r] # "idle" => asks[r] \in Query
    BY DEF TypeInv, TypeOK, Asking, Cachable
  <2>1. ASSUME NEW s \in Sessions, OpenSession(s) PROVE TypeInv'
    BY <2>1 DEF OpenSession, TypeInv, TypeOK, Asking
  <2>2. ASSUME NEW s \in Sessions, CloseSession(s) PROVE TypeInv'
    BY <2>2, EmptyTyped DEF CloseSession, TypeInv, TypeOK, Asking
  <2>3. CASE Crash
    BY <2>3, EmptyTyped, MissingTyped DEF Crash, TypeInv, TypeOK, Asking, Cachable
  <2>4. CASE DatabaseChanges
    BY <2>4, ExploreCacheAssumption DEF DatabaseChanges, TypeInv, TypeOK, Asking, Versions
  <2>5. ASSUME NEW r \in Slots, NEW q \in Query, NEW reset \in BOOLEAN,
               reset => q.kind # "find", Start(r, q, reset)
        PROVE  TypeInv'
    <3>1. db' = db /\ session' = session
      BY <2>5 DEF Start
    <3>2. CASE reset
      <4> DEFINE c == Sweep(mem[q.on], q.key)
      <4>1. Reset(r, q) /\ q.on \in Sessions /\ q.key \in Paths
        BY <2>5, <3>2, QueryTyped DEF Start
      <4>2. c \in Cache
        BY <4>1, SweepTyped DEF TypeInv, TypeOK
      <4>3. Caches'
        BY <4>1, <4>2, SaveTyped DEF Reset
      <4>4. db \in Cachable
        BY DEF TypeInv, TypeOK, Cachable
      <4>5. Requests'
        BY <4>1, <4>4, FinishTyped, LookUpTyped DEF Reset
      <4>6. floor' \in [Sessions -> [Paths -> {Missing} \cup Versions]]
        BY <4>1, FloorTyped DEF Reset
      <4> QED
        BY <3>1, <4>3, <4>5, <4>6 DEF TypeInv, TypeOK, Caches, Requests, Cachable
    <3>3. CASE ~reset
      <4>1. LookUp(r, q, Missing, mem[q.on]) /\ UNCHANGED <<mem, file, lost, floor>>
        BY <2>5, <3>3 DEF Start
      <4>2. Requests'
        BY <4>1, LookUpTyped, MissingTyped
      <4> QED
        BY <3>1, <4>1, <4>2 DEF TypeInv, TypeOK, Requests, Cachable
    <3> QED
      BY <3>2, <3>3
  <2>6. ASSUME NEW r \in Slots, Read(r) PROVE TypeInv'
    BY <2>6 DEF Read, TypeInv, TypeOK, Asking
  <2>7. ASSUME NEW r \in Slots, Store(r) PROVE TypeInv'
    <3>1. Requests'
      BY <2>7, FinishTyped DEF Store
    <3>2. asks[r] \in Query /\ asks[r].on \in Sessions /\ got[r] \in Cachable
      BY <2>0, <2>7, QueryTyped DEF Store
    <3>3. Put(mem[asks[r].on], asks[r], got[r]) \in Cache
      BY <3>2, PutTyped DEF TypeInv, TypeOK
    <3>4. Caches'
      <4>1. CASE Save(asks[r].on, Put(mem[asks[r].on], asks[r], got[r]))
        BY <3>2, <3>3, <4>1, SaveTyped
      <4>2. CASE UNCHANGED <<mem, file, lost>>
        BY <4>2 DEF TypeInv, TypeOK, Caches
      <4> QED
        BY <2>7, <4>1, <4>2 DEF Store
    <3> QED
      BY <2>7, <3>1, <3>4 DEF Store, TypeInv, TypeOK, Caches, Requests, Cachable
  <2>8. ASSUME NEW r \in Slots, Retry(r) PROVE TypeInv'
    <3>1. Requests'
      BY <2>0, <2>8, LookUpTyped DEF Retry, InFlight
    <3> QED
      BY <2>8, <3>1 DEF Retry, TypeInv, TypeOK, Requests, Cachable
  <2>9. ASSUME NEW r \in Slots, Fail(r) PROVE TypeInv'
    <3>1. Requests'
      BY <2>9, FinishTyped DEF Fail
    <3> QED
      BY <2>9, <3>1 DEF Fail, TypeInv, TypeOK, Requests, Cachable
  <2>10. CASE UNCHANGED vars
    BY <2>10 DEF vars, TypeInv, TypeOK, Asking
  <2> QED
    BY <2>1, <2>2, <2>3, <2>4, <2>5, <2>6, <2>7, <2>8, <2>9, <2>10 DEF Next
<1> QED
  BY <1>1, <1>2, PTL DEF Spec

\* Every variable of the cache keeps its type, for any paths, parts, sessions
\* and slots (explore_cache.py:209-228).
THEOREM TypeCorrect == Spec => []TypeOK
<1>1. TypeInv => TypeOK
  BY DEF TypeInv
<1> QED
  BY <1>1, TypeInvHolds, PTL

-----------------------------------------------------------------------------
(* One session at a time. *)

\* At most one session is open, and what is in flight is of it: requests of a
\* session that was closed are over before the next one opens.
Solo ==
  /\ \A s, t \in Sessions : session[s] = "open" /\ session[t] = "open" => s = t
  /\ \A r \in InFlight : session[asks[r].on] # "unopened"
  /\ \A r \in InFlight, s \in Sessions : session[s] = "open" => asks[r].on = s
  /\ \A r, t \in InFlight : asks[r].on = asks[t].on

\* The steps of a request leave the others and their queries alone.
Others(r) ==
  /\ \A t \in Slots : t # r => task'[t] = task[t] /\ asks'[t] = asks[t]
                               /\ began'[t] = began[t] /\ got'[t] = got[t]

LEMMA FinishAlone ==
  ASSUME TypeInv, NEW r \in Slots, NEW v, NEW answer, Finish(r, v, answer)
  PROVE  Others(r) /\ task'[r] = "idle"
BY DEF Finish, Others, TypeInv, TypeOK

LEMMA LookUpAlone ==
  ASSUME TypeInv, NEW r \in Slots, NEW q, NEW v, NEW c, LookUp(r, q, v, c)
  PROVE  /\ Others(r)
         /\ \/ task'[r] = "idle" /\ Finish(r, v, Cached(c, q)) /\ Cached(c, q) # Missing
            \/ /\ task'[r] = "fetching" /\ asks'[r] = q /\ began'[r] = v
               /\ Cached(c, q) = Missing /\ stale' = stale
BY FinishAlone DEF LookUp, Others, TypeInv, TypeOK

\* A request that is let in, and resets the cache or not.
LEMMA StartAlone ==
  ASSUME TypeInv, NEW r \in Slots, NEW q, NEW reset, Start(r, q, reset)
  PROVE  /\ Others(r) /\ session[q.on] = "open" /\ UNCHANGED <<db, session>>
         /\ task'[r] = "idle" \/ (task'[r] = "fetching" /\ asks'[r] = q)
BY FinishAlone, LookUpAlone DEF Start, Reset

\* With the others left alone, and the query of r that of a session let in or
\* its own, there is still one session.
LEMMA SoloKept ==
  ASSUME Solo, NEW r \in Slots, Others(r), UNCHANGED session,
         task'[r] # "idle" =>
           asks'[r].on \in Sessions
             /\ (session[asks'[r].on] = "open" \/ (r \in InFlight /\ asks'[r].on = asks[r].on))
  PROVE  Solo'
<1>1. \A t \in Slots : t \in InFlight' /\ t # r => t \in InFlight /\ asks'[t] = asks[t]
  BY DEF InFlight, Others
<1>2. r \in InFlight' => task'[r] # "idle"
  BY DEF InFlight
<1>3. \A t \in InFlight' : session[asks'[t].on] # "unopened"
  BY <1>1, <1>2 DEF Solo, InFlight
<1>4. \A t \in InFlight', s \in Sessions : session[s] = "open" => asks'[t].on = s
  BY <1>1, <1>2 DEF Solo, InFlight
<1>5. \A t, u \in InFlight' : asks'[t].on = asks'[u].on
  BY <1>1, <1>2 DEF Solo, InFlight
<1> QED
  BY <1>3, <1>4, <1>5 DEF Solo

LEMMA SoloStep ==
  ASSUME TypeInv, Solo, [Next]_vars
  PROVE  Solo'
<1>1. ASSUME NEW s \in Sessions, OpenSession(s) PROVE Solo'
  BY <1>1 DEF OpenSession, Solo, InFlight, TypeInv, TypeOK
<1>2. ASSUME NEW s \in Sessions, CloseSession(s) PROVE Solo'
  BY <1>2 DEF CloseSession, Solo, InFlight, TypeInv, TypeOK
<1>3. CASE Crash
  BY <1>3 DEF Crash, Solo, InFlight, TypeInv, TypeOK
<1>4. CASE DatabaseChanges
  BY <1>4 DEF DatabaseChanges, Solo, InFlight
<1>5. ASSUME NEW r \in Slots, NEW q \in Query, NEW reset, Start(r, q, reset)
      PROVE  Solo'
  BY <1>5, StartAlone, SoloKept, QueryTyped
<1>6. \A r \in Slots : r \in InFlight => asks[r] \in Query /\ asks[r].on \in Sessions
  BY QueryTyped DEF InFlight, TypeInv, Asking
<1>7. ASSUME NEW r \in Slots, Read(r) PROVE Solo'
  <2>1. Others(r) /\ r \in InFlight /\ asks' = asks /\ UNCHANGED session
    BY <1>7 DEF Read, Others, InFlight, TypeInv, TypeOK
  <2> QED
    BY <1>6, <2>1, SoloKept
<1>8. ASSUME NEW r \in Slots, Store(r) PROVE Solo'
  BY <1>8, FinishAlone, SoloKept DEF Store
<1>9. ASSUME NEW r \in Slots, Retry(r) PROVE Solo'
  <2>1. r \in InFlight /\ LookUp(r, asks[r], began[r], mem[asks[r].on]) /\ UNCHANGED session
    BY <1>9 DEF Retry
  <2>2. Others(r) /\ (task'[r] = "idle" \/ asks'[r] = asks[r])
    BY <2>1, LookUpAlone
  <2> QED
    BY <1>6, <2>1, <2>2, SoloKept
<1>10. ASSUME NEW r \in Slots, Fail(r) PROVE Solo'
  BY <1>10, FinishAlone, SoloKept DEF Fail
<1>11. CASE UNCHANGED vars
  BY <1>11 DEF vars, Solo, InFlight
<1> QED
  BY <1>1, <1>2, <1>3, <1>4, <1>5, <1>7, <1>8, <1>9, <1>10, <1>11 DEF Next

LEMMA SoloHolds == Spec => []Solo
<1>1. Init => Solo
  BY DEF Init, Solo, InFlight
<1> QED
  BY <1>1, SoloStep, TypeInvHolds, PTL DEF Spec

\* What a session saves it has in memory, and in the file unless that failed.
LEMMA SaveKeepsWarm ==
  ASSUME TypeInv, Solo, WarmRestart, NEW s \in Sessions, NEW c, Save(s, c), UNCHANGED session,
         \A t \in Sessions : session[t] = "open" => t = s
  PROVE  WarmRestart'
BY DEF Save, WarmRestart, TypeInv, TypeOK

\* What the server knew when it stopped is what the next session starts from,
\* however many requests were under way, whatever failed, whenever it stopped:
\* only the open session writes the file, with all that it knows
\* (explore_cache.py:338-404).
THEOREM RestartsWarm == Spec => []WarmRestart
<1>1. Init => WarmRestart
  BY DEF Init, WarmRestart
<1>2. TypeInv /\ Solo /\ WarmRestart /\ [Next]_vars => WarmRestart'
  <2> SUFFICES ASSUME TypeInv, Solo, WarmRestart, [Next]_vars PROVE WarmRestart'
    OBVIOUS
  <2>1. ASSUME NEW s \in Sessions, OpenSession(s) PROVE WarmRestart'
    BY <2>1 DEF OpenSession, WarmRestart, TypeInv, TypeOK
  <2>2. ASSUME NEW s \in Sessions, CloseSession(s) PROVE WarmRestart'
    BY <2>2 DEF CloseSession, WarmRestart, TypeInv, TypeOK
  <2>3. CASE Crash
    BY <2>3 DEF Crash, WarmRestart, TypeInv, TypeOK
  <2>4. CASE UNCHANGED <<session, mem, file, lost>>
    BY <2>4 DEF WarmRestart
  <2>5. ASSUME NEW r \in Slots, NEW q \in Query, NEW reset, Start(r, q, reset)
        PROVE  WarmRestart'
    <3>1. \A t \in Sessions : session[t] = "open" => t = q.on
      BY <2>5, QueryTyped DEF Start, Solo
    <3>2. CASE Save(q.on, Sweep(mem[q.on], q.key))
      BY <2>5, <3>1, <3>2, QueryTyped, SaveKeepsWarm DEF Start
    <3>3. CASE UNCHANGED <<mem, file, lost>>
      BY <2>4, <2>5, <3>3 DEF Start
    <3> QED
      BY <2>5, <3>2, <3>3 DEF Start, Reset
  <2>6. ASSUME NEW r \in Slots, Store(r) PROVE WarmRestart'
    <3>1. r \in InFlight /\ asks[r] \in Query
      BY <2>6 DEF Store, InFlight, TypeInv, Asking
    <3>2. \A t \in Sessions : session[t] = "open" => t = asks[r].on
      BY <3>1 DEF Solo
    <3>3. CASE Save(asks[r].on, Put(mem[asks[r].on], asks[r], got[r]))
      BY <2>6, <3>1, <3>2, <3>3, QueryTyped, SaveKeepsWarm DEF Store
    <3>4. CASE UNCHANGED <<mem, file, lost>>
      BY <2>4, <2>6, <3>4 DEF Store
    <3> QED
      BY <2>6, <3>3, <3>4 DEF Store
  <2>7. CASE DatabaseChanges \/ UNCHANGED vars
    BY <2>4, <2>7 DEF DatabaseChanges, vars
  <2>8. ASSUME NEW r \in Slots, Read(r) \/ Retry(r) \/ Fail(r) PROVE WarmRestart'
    BY <2>4, <2>8 DEF Read, Retry, Fail
  <2> QED
    BY <2>1, <2>2, <2>3, <2>5, <2>6, <2>7, <2>8 DEF Next
<1> QED
  BY <1>1, <1>2, TypeInvHolds, SoloHolds, PTL DEF Spec

-----------------------------------------------------------------------------
(* What a reset promises, one request at a time. *)

\* A reset floor of a session: a version or missing, for each path.
Floors == [Paths -> Cachable]

\* NotOlder, in terms of the order of the versions.
LEMMA NotOlderMeans ==
  ASSUME NEW c \in Cache, NEW f \in Floors
  PROVE  NotOlder(c, f) <=>
           \A path \in Paths :
             /\ \A p \in ListPaths : Evicted(path, p) => c.list[p] = Missing \/ f[path] <= c.list[p]
             /\ \A p \in DescribePaths :
                  Evicted(path, p) => c.describe[p] = Missing \/ f[path] <= c.describe[p]
             /\ \A s \in Searches : c.find[s] = Missing \/ f[path] <= c.find[s]
<1>1. /\ \A p \in ListPaths : c.list[p] \in Cachable
      /\ \A p \in DescribePaths : c.describe[p] \in Cachable
      /\ \A s \in Searches : c.find[s] \in Cachable
      /\ \A p \in Paths : f[p] \in Cachable
  BY DEF Cache, Floors, Cachable
<1>2. \A v \in Cachable, w \in Cachable :
        v \in {Missing} \cup (w..MaxVersion) <=> v = Missing \/ w <= v
  BY ExploreCacheAssumption DEF Cachable, Versions, Missing
<1> QED
  BY <1>1, <1>2 DEF NotOlder, Paths

LEMMA EmptyFresh ==
  ASSUME NEW f \in Floors
  PROVE  NotOlder(Empty, f)
BY DEF NotOlder, Empty

\* Nothing was reset yet.
LEMMA NothingResetFresh ==
  ASSUME NEW c \in Cache, NEW f \in Floors, \A p \in Paths : f[p] = Missing
  PROVE  NotOlder(c, f)
<1>1. /\ \A p \in ListPaths : Missing <= c.list[p]
      /\ \A p \in DescribePaths : Missing <= c.describe[p]
      /\ \A s \in Searches : Missing <= c.find[s]
  <2>1. \A v \in Cachable : Missing <= v
    BY ExploreCacheAssumption DEF Cachable, Versions, Missing
  <2> QED
    BY <2>1 DEF Cache, Cachable
<1> QED
  BY <1>1, NotOlderMeans

\* A reset takes away, and what it takes away is all that its path evicts.
LEMMA SweepFresh ==
  ASSUME NEW c \in Cache, NEW f \in Floors, NotOlder(c, f), NEW path
  PROVE  /\ NotOlder(Sweep(c, path), f)
         /\ \A v \in Cachable : NotOlder(Sweep(c, path), [f EXCEPT ![path] = v])
<1>1. NotOlder(Sweep(c, path), f)
  BY DEF NotOlder, Sweep
<1>2. ASSUME NEW v \in Cachable PROVE NotOlder(Sweep(c, path), [f EXCEPT ![path] = v])
  BY <1>1 DEF NotOlder, Sweep, Floors
<1> QED
  BY <1>1, <1>2

\* What is stored is no older than any reset.
LEMMA PutFresh ==
  ASSUME NEW c \in Cache, NEW f \in Floors, NotOlder(c, f), NEW q \in Query,
         NEW v \in Versions, \A p \in Paths : f[p] <= v
  PROVE  NotOlder(Put(c, q, v), f)
<1> DEFINE d == Put(c, q, v)
<1>1. v \in Cachable
  BY DEF Cachable
<1>2. d \in Cache
  BY <1>1, PutTyped
<1>3. /\ \A p \in ListPaths : d.list[p] \in {c.list[p], v}
      /\ \A p \in DescribePaths : d.describe[p] \in {c.describe[p], v}
      /\ \A s \in Searches : d.find[s] \in {c.find[s], v}
  <2>1. /\ c.list \in [ListPaths -> Cachable]
        /\ c.describe \in [DescribePaths -> Cachable]
        /\ c.find \in [Searches -> Cachable]
    BY DEF Cache, Cachable
  <2> QED
    BY <1>1, <2>1, StoreAtTyped DEF Put
<1> HIDE DEF d
<1>4. NotOlder(d, f)
  BY <1>2, <1>3, NotOlderMeans
<1> QED
  BY <1>4 DEF d

\* A path evicts itself.
LEMMA EvictedItself ==
  ASSUME NEW p \in Paths
  PROVE  Evicted(p, p)
<1>1. p \in Seq(STRING)
  BY ExploreCacheAssumption DEF Paths
<1>2. SubSeq(p, 1, Len(p)) = SubSeq(p, 1, Len(p)) /\ Len(p) <= Len(p)
  BY <1>1
<1> QED
  BY <1>1, <1>2 DEF Evicted, IsPrefix

\* What is cached of a path is no older than its reset, and nothing once it is
\* reset.
LEMMA CachedFresh ==
  ASSUME NEW c \in Cache, NEW f \in Floors, NEW q \in Query, q.kind # "find"
  PROVE  /\ NotOlder(c, f) => Cached(c, q) = Missing \/ f[q.key] <= Cached(c, q)
         /\ Cached(Sweep(c, q.key), q) = Missing
<1>1. q.key \in Paths /\ Evicted(q.key, q.key)
  BY QueryTyped, EvictedItself
<1>2. CASE q.kind = "list"
  <2>1. q.key \in ListPaths
    BY <1>2 DEF Query
  <2>2. Cached(c, q) = c.list[q.key] /\ Cached(Sweep(c, q.key), q) = Sweep(c, q.key).list[q.key]
    BY <1>2 DEF Cached
  <2> QED
    BY <1>1, <2>1, <2>2, NotOlderMeans DEF Sweep
<1>3. CASE q.kind = "describe"
  <2>1. q.key \in DescribePaths
    BY <1>3 DEF Query
  <2>2. /\ Cached(c, q) = c.describe[q.key]
        /\ Cached(Sweep(c, q.key), q) = Sweep(c, q.key).describe[q.key]
    BY <1>3 DEF Cached
  <2> QED
    BY <1>1, <2>1, <2>2, NotOlderMeans DEF Sweep
<1> QED
  BY <1>2, <1>3 DEF Query

\* No two requests at once: one that is let in finds none.
OneRequest == \A r, t \in InFlight : r = t

\* The resets so far: none of a session that was not opened, and none in the
\* future; a request that reset asked of a path that was reset since it began.
ResetsKnown ==
  /\ \A s \in Sessions, p \in Paths : floor[s][p] <= db
  /\ \A s \in Sessions, p \in Paths : session[s] = "unopened" => floor[s][p] = Missing
  /\ \A r \in InFlight :
       began[r] # Missing => asks[r].kind # "find" /\ began[r] <= floor[asks[r].on][asks[r].key]

\* What was read and is to be stored is no older than any reset.
ReadFresh ==
  \A r \in Slots : task[r] = "read" =>
    /\ got[r] \in Versions /\ got[r] <= db
    /\ \A s \in Sessions, p \in Paths : floor[s][p] <= got[r]

\* The session a request may still change the cache of.
Active(s) == session[s] = "open" \/ \E r \in InFlight : asks[r].on = s

\* What is in memory is no older than its session's resets, and what may still be
\* written is no older than those of any session whose last change was written.
MemoryFresh ==
  /\ \A s \in Sessions : NotOlder(mem[s], floor[s])
  /\ \A t \in Sessions : Active(t) => \A s \in Sessions \ lost : NotOlder(mem[t], floor[s])

FreshInv ==
  OneRequest /\ ResetsKnown /\ ReadFresh /\ MemoryFresh /\ ResetSurvivesRestart /\ AnsweredFresh

AllInv == TypeInv /\ Solo /\ FreshInv

\* What the types say of one session, path and request.
LEMMA Typed ==
  ASSUME TypeInv
  PROVE  /\ db \in Versions /\ file \in Cache
         /\ \A s \in Sessions : mem[s] \in Cache /\ floor[s] \in Floors
         /\ \A r \in Slots : began[r] \in Cachable /\ got[r] \in Cachable
         /\ \A r \in InFlight : asks[r] \in Query /\ asks[r].on \in Sessions
BY QueryTyped DEF TypeInv, TypeOK, Asking, InFlight, Floors, Cachable

LEMMA Ordered ==
  /\ Versions \subseteq Nat /\ Cachable \subseteq Nat /\ Missing = 0
  /\ \A v \in Versions : v # Missing
BY ExploreCacheAssumption DEF Versions, Cachable, Missing

\* With one request at a time a request is let in when there is none.
LEMMA NoneInFlight ==
  ASSUME TypeInv, Solo, MaxConcurrency <= 1, NEW r \in Slots, NEW q \in Query, NEW reset,
         Start(r, q, reset)
  PROVE  InFlight = {}
<1> DEFINE S == {x \in InFlight : asks[x].on = q.on}
<1>1. IsFiniteSet(S)
  BY ExploreCacheAssumption, FS_Subset DEF InFlight
<1>2. Cardinality(S) = 0
  BY <1>1, FS_CardinalityType, ExploreCacheAssumption DEF Start
<1>3. S = {}
  BY <1>1, <1>2, FS_EmptySet
<1>4. \A x \in InFlight : asks[x].on = q.on
  BY QueryTyped DEF Solo, Start
<1> QED
  BY <1>3, <1>4

LEMMA OneRequestStep ==
  ASSUME TypeInv, Solo, MaxConcurrency <= 1, OneRequest, [Next]_vars
  PROVE  OneRequest'
<1>1. ASSUME NEW r \in Slots, Others(r), InFlight = {} \/ r \in InFlight PROVE OneRequest'
  BY <1>1 DEF OneRequest, InFlight, Others
<1>2. ASSUME NEW r \in Slots, NEW q \in Query, NEW reset, Start(r, q, reset) PROVE OneRequest'
  BY <1>1, <1>2, StartAlone, NoneInFlight
<1>3. ASSUME NEW r \in Slots, Read(r) \/ Store(r) \/ Retry(r) \/ Fail(r) PROVE OneRequest'
  <2>1. r \in InFlight
    BY <1>3 DEF Read, Store, Retry, Fail, InFlight
  <2>2. Others(r)
    BY <1>3, <2>1, Typed, FinishAlone, LookUpAlone
       DEF Read, Store, Retry, Fail, Others, TypeInv, TypeOK
  <2> QED
    BY <1>1, <2>1, <2>2
<1>4. CASE Crash
  BY <1>4 DEF Crash, OneRequest, InFlight
<1>5. CASE UNCHANGED task
  BY <1>5 DEF OneRequest, InFlight
<1> QED
  BY <1>2, <1>3, <1>4, <1>5 DEF Next, OpenSession, CloseSession, DatabaseChanges, vars

LEMMA SameVersion ==
  ASSUME TypeInv
  PROVE  db <= db
<1>1. db \in Nat
  BY Typed, Ordered
<1> QED
  BY <1>1

\* The resets stay known: a request that is let in resets at the present version.
LEMMA ResetsKnownStep ==
  ASSUME TypeInv, Solo, MaxConcurrency <= 1, ResetsKnown, [Next]_vars
  PROVE  ResetsKnown'
<1> USE Typed, Ordered
<1>1. ASSUME UNCHANGED floor, db' \in Versions, db <= db',
             \A s \in Sessions : session'[s] = "unopened" => session[s] = "unopened",
             \A r \in InFlight' : \/ began'[r] = Missing
                                  \/ r \in InFlight /\ asks'[r] = asks[r] /\ began'[r] = began[r]
      PROVE  ResetsKnown'
  <2>1. \A s \in Sessions, p \in Paths : floor[s][p] \in Nat /\ db \in Nat /\ db' \in Nat
    BY <1>1 DEF Floors
  <2>2. \A s \in Sessions, p \in Paths : floor'[s][p] <= db'
    BY <1>1, <2>1 DEF ResetsKnown
  <2> QED
    BY <1>1, <2>2 DEF ResetsKnown
<1>2. ASSUME NEW s \in Sessions, OpenSession(s) \/ CloseSession(s) PROVE ResetsKnown'
  BY <1>1, <1>2 DEF OpenSession, CloseSession, InFlight, TypeInv, TypeOK
<1>3. CASE Crash
  BY <1>1, <1>3 DEF Crash, InFlight, TypeInv, TypeOK
<1>4. CASE DatabaseChanges
  BY <1>1, <1>4, ExploreCacheAssumption DEF DatabaseChanges, InFlight, Versions
<1>5. ASSUME NEW r \in Slots, NEW q \in Query, NEW reset \in BOOLEAN,
             reset => q.kind # "find", Start(r, q, reset)
      PROVE  ResetsKnown'
  <2>1. Others(r) /\ session[q.on] = "open" /\ UNCHANGED <<db, session>> /\ InFlight = {}
    BY <1>5, StartAlone, NoneInFlight
  <2>2. \A t \in InFlight' : t = r
    BY <2>1 DEF InFlight, Others
  <2>3. CASE reset
    <3>1. /\ q.on \in Sessions /\ q.key \in Paths /\ q.kind # "find"
          /\ floor' = [floor EXCEPT ![q.on][q.key] = db]
      BY <1>5, <2>3, QueryTyped DEF Start, Reset
    <3>2. \A s \in Sessions, p \in Paths :
            floor'[s][p] = IF s = q.on /\ p = q.key THEN db ELSE floor[s][p]
      BY <3>1 DEF Floors, TypeInv, TypeOK
    <3>3. r \in InFlight' => asks'[r] = q /\ began'[r] = db
      <4>1. Finish(r, db, Missing) \/ LookUp(r, q, db, Sweep(mem[q.on], q.key))
        BY <1>5, <2>3 DEF Start, Reset
      <4> QED
        BY <4>1, FinishAlone, LookUpAlone DEF InFlight
    <3> QED
      BY <2>1, <2>2, <3>1, <3>2, <3>3, SameVersion DEF ResetsKnown
  <2>4. CASE ~reset
    <3>1. LookUp(r, q, Missing, mem[q.on]) /\ UNCHANGED floor
      BY <1>5, <2>4 DEF Start
    <3>2. r \in InFlight' => began'[r] = Missing
      BY <3>1, LookUpAlone DEF InFlight
    <3> QED
      BY <1>1, <2>1, <2>2, <3>1, <3>2, SameVersion
  <2> QED
    BY <2>3, <2>4
<1>6. ASSUME NEW r \in Slots, Read(r) \/ Store(r) \/ Retry(r) \/ Fail(r) PROVE ResetsKnown'
  <2>1. r \in InFlight /\ UNCHANGED <<floor, db, session>>
    BY <1>6 DEF Read, Store, Retry, Fail, InFlight
  <2>2. Others(r)
    BY <1>6, <2>1, FinishAlone, LookUpAlone DEF Read, Store, Retry, Fail, Others, TypeInv, TypeOK
  <2>3. r \in InFlight' => asks'[r] = asks[r] /\ began'[r] = began[r]
    BY <1>6, <2>1, FinishAlone, LookUpAlone DEF Read, Store, Retry, Fail, InFlight
  <2> QED
    BY <1>1, <2>1, <2>2, <2>3, SameVersion DEF InFlight, Others
<1>7. CASE UNCHANGED vars
  BY <1>1, <1>7, SameVersion DEF vars, InFlight
<1> QED
  BY <1>2, <1>3, <1>4, <1>5, <1>6, <1>7 DEF Next

\* No reset comes between a read and its store: that would be a second request.
LEMMA ReadFreshStep ==
  ASSUME TypeInv, Solo, MaxConcurrency <= 1, ResetsKnown, ReadFresh, [Next]_vars
  PROVE  ReadFresh'
<1> USE Typed, Ordered
<1>1. ASSUME NEW r \in Slots, NEW q \in Query, NEW reset, Start(r, q, reset)
      PROVE  ReadFresh'
  <2>1. Others(r) /\ InFlight = {} /\ task'[r] # "read"
    BY <1>1, StartAlone, NoneInFlight
  <2> QED
    BY <2>1 DEF ReadFresh, InFlight, Others
<1>2. ASSUME NEW r \in Slots, Read(r) PROVE ReadFresh'
  <2>1. /\ \A t \in Slots : t # r => task'[t] = task[t] /\ got'[t] = got[t]
        /\ got'[r] = db /\ UNCHANGED <<floor, db>>
    BY <1>2 DEF Read, TypeInv, TypeOK
  <2> QED
    BY <2>1, SameVersion DEF ReadFresh, ResetsKnown
<1>3. ASSUME NEW r \in Slots, Store(r) \/ Retry(r) \/ Fail(r) PROVE ReadFresh'
  <2>1. r \in InFlight /\ UNCHANGED <<floor, db>>
    BY <1>3 DEF Store, Retry, Fail, InFlight
  <2>2. Others(r) /\ task'[r] # "read"
    BY <1>3, <2>1, FinishAlone, LookUpAlone DEF Store, Retry, Fail
  <2> QED
    BY <2>1, <2>2 DEF ReadFresh, Others
<1>4. CASE Crash
  BY <1>4 DEF Crash, ReadFresh, TypeInv, TypeOK
<1>5. ASSUME UNCHANGED <<floor, task, got>>, db' \in Versions, db <= db' PROVE ReadFresh'
  <2>1. \A r \in Slots : task[r] = "read" => got[r] <= db'
    <3>1. \A r \in Slots : task[r] = "read" => got[r] \in Nat /\ got[r] <= db /\ db \in Nat /\ db' \in Nat
      BY <1>5 DEF ReadFresh
    <3> QED
      BY <1>5, <3>1
  <2> QED
    BY <1>5, <2>1 DEF ReadFresh
<1>6. CASE DatabaseChanges
  BY <1>5, <1>6, ExploreCacheAssumption DEF DatabaseChanges, Versions
<1>7. CASE UNCHANGED <<db, floor, task, got>>
  BY <1>5, <1>7, SameVersion
<1> QED
  BY <1>1, <1>2, <1>3, <1>4, <1>6, <1>7 DEF Next, OpenSession, CloseSession, vars

\* Saving a cache that is fresh keeps memory and file so, also where it fails.
LEMMA SaveFresh ==
  ASSUME TypeInv, MemoryFresh, ResetSurvivesRestart,
         NEW s \in Sessions, NEW c, Save(s, c), NotOlder(c, floor'[s]),
         \A t \in Sessions \ lost : t # s => NotOlder(c, floor[t]),
         \A t \in Sessions : t # s => floor'[t] = floor[t],
         \A t \in Sessions : Active(t)' => t = s
  PROVE  MemoryFresh' /\ ResetSurvivesRestart'
<1>1. /\ mem'[s] = c /\ \A t \in Sessions : t # s => mem'[t] = mem[t]
      /\ lost' \cup {s} = lost \cup {s}
      /\ file' = c \/ (file' = file /\ s \in lost')
  BY DEF Save, TypeInv, TypeOK
<1>2. \A t \in Sessions \ lost' : NotOlder(c, floor'[t])
  BY <1>1
<1>3. \A t \in Sessions : NotOlder(mem'[t], floor'[t])
  BY <1>1 DEF MemoryFresh
<1>4. \A t \in Sessions : Active(t)' => \A u \in Sessions \ lost' : NotOlder(mem'[t], floor'[u])
  BY <1>1, <1>2
<1>5. \A t \in Sessions : t \notin lost' => NotOlder(file', floor'[t])
  BY <1>1, <1>2 DEF ResetSurvivesRestart
<1>6. MemoryFresh'
  BY <1>3, <1>4 DEF MemoryFresh
<1>7. ResetSurvivesRestart'
  BY <1>5 DEF ResetSurvivesRestart
<1> QED
  BY <1>6, <1>7

\* While nothing is saved, only what sessions are active matters.
LEMMA UnsavedFresh ==
  ASSUME MemoryFresh, ResetSurvivesRestart, UNCHANGED <<mem, file, lost, floor>>,
         \A t \in Sessions : Active(t)' => Active(t)
  PROVE  MemoryFresh' /\ ResetSurvivesRestart'
BY DEF MemoryFresh, ResetSurvivesRestart

\* The session of a request that is over, or goes on, stays the active one.
LEMMA ActiveKept ==
  ASSUME NEW r \in Slots, Others(r), UNCHANGED session,
         r \in InFlight' => asks'[r].on = asks[r].on /\ r \in InFlight
  PROVE  \A t \in Sessions : Active(t)' => Active(t)
BY DEF Active, InFlight, Others

LEMMA MemoryFreshStep ==
  ASSUME AllInv, MaxConcurrency <= 1, [Next]_vars
  PROVE  MemoryFresh' /\ ResetSurvivesRestart'
<1> DEFINE Kept == MemoryFresh' /\ ResetSurvivesRestart'
<1> USE Typed, Ordered DEF AllInv, FreshInv
<1>1. ASSUME NEW s \in Sessions, OpenSession(s) PROVE Kept
  <2>1. /\ mem'[s] = file /\ (\A t \in Sessions : t # s => mem'[t] = mem[t])
        /\ UNCHANGED <<file, lost, floor>>
    BY <1>1 DEF OpenSession, TypeInv, TypeOK
  <2>2. \A p \in Paths : floor[s][p] = Missing
    BY <1>1 DEF OpenSession, ResetsKnown
  <2>3. NotOlder(file, floor[s])
    BY <2>2, NothingResetFresh
  <2>4. \A t \in Sessions : Active(t)' => t = s
    BY <1>1 DEF OpenSession, Active, InFlight, TypeInv, TypeOK
  <2>5. \A t \in Sessions : NotOlder(mem'[t], floor'[t])
    BY <2>1, <2>3 DEF MemoryFresh
  <2>6. \A t \in Sessions : Active(t)' => \A u \in Sessions \ lost' : NotOlder(mem'[t], floor'[u])
    BY <2>1, <2>4 DEF ResetSurvivesRestart
  <2>7. MemoryFresh'
    BY <2>5, <2>6 DEF MemoryFresh
  <2> QED
    BY <2>1, <2>7 DEF ResetSurvivesRestart
<1>2. ASSUME NEW s \in Sessions, CloseSession(s) PROVE Kept
  <2>1. /\ \A t \in Sessions : mem'[t] \in {mem[t], Empty}
        /\ UNCHANGED <<file, lost, floor, task, asks>>
    BY <1>2 DEF CloseSession, TypeInv, TypeOK
  <2>2. \A t \in Sessions : Active(t)' => Active(t)
    BY <1>2 DEF CloseSession, Active, InFlight, TypeInv, TypeOK
  <2>3. \A t \in Sessions : NotOlder(mem'[t], floor'[t])
    BY <2>1, EmptyFresh DEF MemoryFresh
  <2>4. \A t \in Sessions : Active(t)' => \A u \in Sessions \ lost' : NotOlder(mem'[t], floor'[u])
    BY <2>1, <2>2, EmptyFresh DEF MemoryFresh
  <2>5. MemoryFresh'
    BY <2>3, <2>4 DEF MemoryFresh
  <2> QED
    BY <2>1, <2>5 DEF ResetSurvivesRestart
<1>3. CASE Crash
  <2>1. /\ \A t \in Sessions : mem'[t] = Empty
        /\ UNCHANGED <<file, lost, floor>>
    BY <1>3 DEF Crash
  <2>2. \A t \in Sessions : ~Active(t)'
    BY <1>3 DEF Crash, Active, InFlight, TypeInv, TypeOK
  <2>3. \A t \in Sessions : NotOlder(mem'[t], floor'[t])
    BY <2>1, EmptyFresh
  <2>4. MemoryFresh'
    BY <2>2, <2>3 DEF MemoryFresh
  <2> QED
    BY <2>1, <2>4 DEF ResetSurvivesRestart
<1>4. ASSUME NEW r \in Slots, NEW q \in Query, NEW reset \in BOOLEAN,
             reset => q.kind # "find", Start(r, q, reset)
      PROVE  Kept
  <2>1. /\ Others(r) /\ session[q.on] = "open" /\ UNCHANGED <<db, session>>
        /\ InFlight = {} /\ q.on \in Sessions
        /\ task'[r] = "idle" \/ (task'[r] = "fetching" /\ asks'[r] = q)
    BY <1>4, StartAlone, NoneInFlight, QueryTyped
  <2>2. \A t \in InFlight' : t = r /\ asks'[t] = q
    BY <2>1 DEF InFlight, Others
  <2>3. \A t \in Sessions : Active(t)' => t = q.on
    BY <2>1, <2>2 DEF Active, Solo
  <2>4. Active(q.on)
    BY <2>1 DEF Active
  <2>5. CASE reset
    <3> DEFINE c == Sweep(mem[q.on], q.key)
    <3>1. /\ q.key \in Paths /\ Save(q.on, c)
          /\ floor' = [floor EXCEPT ![q.on][q.key] = db]
      BY <1>4, <2>5, QueryTyped DEF Start, Reset
    <3>2. /\ floor'[q.on] = [floor[q.on] EXCEPT ![q.key] = db]
          /\ \A t \in Sessions : t # q.on => floor'[t] = floor[t]
      BY <2>1, <3>1 DEF TypeInv, TypeOK
    <3>3. NotOlder(mem[q.on], floor[q.on]) /\ db \in Cachable
      BY <2>1 DEF MemoryFresh, Cachable
    <3>4. NotOlder(c, floor'[q.on])
      BY <2>1, <3>2, <3>3, SweepFresh
    <3>5. \A t \in Sessions \ lost : NotOlder(c, floor[t])
      BY <2>1, <2>4, SweepFresh DEF MemoryFresh
    <3> HIDE DEF c
    <3> QED
      BY <2>1, <2>3, <3>1, <3>2, <3>4, <3>5, SaveFresh
  <2>6. CASE ~reset
    <3>1. UNCHANGED <<mem, file, lost, floor>>
      BY <1>4, <2>6 DEF Start
    <3> QED
      BY <2>3, <2>4, <3>1, UnsavedFresh
  <2> QED
    BY <2>5, <2>6
<1>5. ASSUME NEW r \in Slots, Store(r) PROVE Kept
  <2>1. /\ Others(r) /\ task'[r] = "idle" /\ r \in InFlight /\ task[r] = "read"
        /\ UNCHANGED <<session, floor>>
    BY <1>5, FinishAlone DEF Store, InFlight
  <2>2. asks[r] \in Query /\ asks[r].on \in Sessions
    BY <2>1
  <2>3. CASE Save(asks[r].on, Put(mem[asks[r].on], asks[r], got[r]))
    <3> DEFINE on == asks[r].on  c == Put(mem[on], asks[r], got[r])
    <3>1. /\ got[r] \in Versions
          /\ \A s \in Sessions : \A p \in Paths : floor[s][p] <= got[r]
      BY <2>1 DEF ReadFresh
    <3>2. Active(on) /\ \A t \in Sessions : Active(t)' => t = on
      BY <2>1 DEF Active, Solo, InFlight, Others
    <3>3. NotOlder(mem[on], floor[on])
      BY <2>2 DEF MemoryFresh
    <3>4. \A t \in Sessions \ lost : NotOlder(mem[on], floor[t])
      BY <2>2, <3>2 DEF MemoryFresh
    <3>5. \A t \in Sessions : NotOlder(mem[on], floor[t]) => NotOlder(c, floor[t])
      BY <2>2, <3>1, PutFresh
    <3>6. NotOlder(c, floor'[on]) /\ (\A t \in Sessions \ lost : NotOlder(c, floor[t]))
      BY <2>1, <2>2, <3>3, <3>4, <3>5
    <3>7. Save(on, c) /\ on \in Sessions /\ floor' = floor
      BY <2>1, <2>2, <2>3
    <3> HIDE DEF on, c
    <3> QED
      BY <3>2, <3>6, <3>7, SaveFresh
  <2>4. CASE UNCHANGED <<mem, file, lost>>
    <3>1. \A t \in Sessions : Active(t)' => Active(t)
      BY <2>1, ActiveKept DEF InFlight
    <3> QED
      BY <2>1, <2>4, <3>1, UnsavedFresh
  <2> QED
    BY <1>5, <2>3, <2>4 DEF Store
<1>6. ASSUME NEW r \in Slots, Read(r) \/ Retry(r) \/ Fail(r) PROVE Kept
  <2>1. r \in InFlight /\ UNCHANGED <<session, mem, file, lost, floor>>
    BY <1>6 DEF Read, Retry, Fail, InFlight
  <2>2. Others(r) /\ (r \in InFlight' => asks'[r] = asks[r])
    BY <1>6, <2>1, FinishAlone, LookUpAlone DEF Read, Retry, Fail, Others, InFlight, TypeInv, TypeOK
  <2>3. \A t \in Sessions : Active(t)' => Active(t)
    BY <2>1, <2>2, ActiveKept
  <2> QED
    BY <2>1, <2>3, UnsavedFresh
<1>7. CASE UNCHANGED <<session, mem, file, lost, floor, task, asks>>
  <2>1. \A t \in Sessions : Active(t)' => Active(t)
    BY <1>7 DEF Active, InFlight
  <2> QED
    BY <1>7, <2>1, UnsavedFresh
<1> QED
  BY <1>1, <1>2, <1>3, <1>4, <1>5, <1>6, <1>7 DEF Next, DatabaseChanges, vars

\* An answer is not older than the reset it came with: a retry that finds it
\* cached meanwhile finds nothing older than the last reset of its path.
LEMMA AnsweredFreshStep ==
  ASSUME AllInv, [Next]_vars
  PROVE  AnsweredFresh'
<1> USE Typed, Ordered DEF AllInv, FreshInv, AnsweredFresh
<1>1. ASSUME NEW r \in Slots, NEW v \in Cachable, NEW answer \in Cachable, Finish(r, v, answer),
             answer = Missing \/ v <= answer
      PROVE  stale' = {}
  <2>1. ~(answer \in Versions /\ answer < v)
    <3>1. answer \in Nat /\ v \in Nat
      OBVIOUS
    <3>2. v <= answer => ~(answer < v)
      BY <3>1
    <3> QED
      BY <1>1, <3>2
  <2> QED
    BY <1>1, <2>1 DEF Finish
<1>2. ASSUME NEW r \in Slots, NEW q \in Query, NEW reset \in BOOLEAN,
             reset => q.kind # "find", Start(r, q, reset)
      PROVE  AnsweredFresh'
  <2>1. q.on \in Sessions /\ db \in Cachable /\ Missing \in Cachable
    BY QueryTyped, MissingTyped DEF Cachable
  <2>2. CASE reset
    <3> DEFINE c == Sweep(mem[q.on], q.key)
    <3>1. Cached(c, q) = Missing
      BY <1>2, <2>1, <2>2, CachedFresh
    <3>2. Finish(r, db, Missing) \/ LookUp(r, q, db, c)
      BY <1>2, <2>2 DEF Start, Reset
    <3> HIDE DEF c
    <3> QED
      BY <1>1, <2>1, <3>1, <3>2, LookUpAlone
  <2>3. CASE ~reset
    <3>1. LookUp(r, q, Missing, mem[q.on])
      BY <1>2, <2>3 DEF Start
    <3>2. Cached(mem[q.on], q) \in Cachable
      BY <2>1, CachedTyped
    <3>3. Missing <= Cached(mem[q.on], q)
      <4>1. Cached(mem[q.on], q) \in Nat
        BY <3>2
      <4> QED
        BY <4>1
    <3> QED
      BY <1>1, <2>1, <3>1, <3>2, <3>3, LookUpAlone
  <2> QED
    BY <2>2, <2>3
\* A request in flight that began with a reset knows a version its path has since.
<1>3. ASSUME NEW r \in InFlight, began[r] # Missing
      PROVE  /\ asks[r].kind # "find" /\ asks[r].key \in Paths
             /\ began[r] <= floor[asks[r].on][asks[r].key]
  BY <1>3, QueryTyped DEF ResetsKnown
<1>4. ASSUME NEW r \in InFlight, NEW w \in Cachable,
             began[r] # Missing => floor[asks[r].on][asks[r].key] <= w
      PROVE  began[r] <= w
  <2>1. began[r] \in Nat /\ w \in Nat
    BY DEF InFlight
  <2>2. CASE began[r] = Missing
    BY <2>1, <2>2
  <2>3. CASE began[r] # Missing
    <3>1. floor[asks[r].on][asks[r].key] \in Nat
      BY <1>3, <2>3 DEF Floors
    <3> QED
      BY <1>3, <1>4, <2>1, <2>3, <3>1
  <2> QED
    BY <2>2, <2>3
<1>5. ASSUME NEW r \in Slots, Store(r) PROVE AnsweredFresh'
  <2>1. r \in InFlight /\ task[r] = "read" /\ Finish(r, began[r], got[r])
    BY <1>5 DEF Store, InFlight
  <2>2. began[r] <= got[r]
    BY <1>3, <1>4, <2>1 DEF ReadFresh
  <2> QED
    BY <1>1, <2>1, <2>2
<1>6. ASSUME NEW r \in Slots, Retry(r) PROVE AnsweredFresh'
  <2> DEFINE m == mem[asks[r].on]
  <2>1. /\ r \in InFlight /\ asks[r] \in Query /\ m \in Cache
        /\ LookUp(r, asks[r], began[r], m)
    BY <1>6 DEF Retry
  <2>2. Cached(m, asks[r]) \in Cachable
    BY <2>1, CachedTyped
  <2>3. NotOlder(m, floor[asks[r].on])
    BY <2>1 DEF MemoryFresh
  <2> HIDE DEF m
  <2>4. Cached(m, asks[r]) # Missing => began[r] <= Cached(m, asks[r])
    BY <1>3, <1>4, <2>1, <2>2, <2>3, CachedFresh
  <2> QED
    BY <1>1, <2>1, <2>2, <2>4, LookUpAlone
<1>7. ASSUME NEW r \in Slots, Fail(r) PROVE AnsweredFresh'
  BY <1>1, <1>7, MissingTyped DEF Fail
<1>8. CASE UNCHANGED stale
  BY <1>8
<1> QED
  BY <1>2, <1>5, <1>6, <1>7, <1>8
     DEF Next, OpenSession, CloseSession, Crash, DatabaseChanges, Read, vars

LEMMA AllInvHolds ==
  ASSUME MaxConcurrency <= 1
  PROVE  Spec => []AllInv
<1>1. Init => FreshInv
  <2> SUFFICES ASSUME Init PROVE FreshInv
    OBVIOUS
  <2>1. InFlight = {} /\ \A s \in Sessions : ~Active(s)
    BY DEF Init, InFlight, Active
  <2>2. \A s \in Sessions : floor[s] \in Floors /\ mem[s] = Empty /\ file = Empty
    BY MissingTyped DEF Init, Floors
  <2>3. MemoryFresh /\ ResetSurvivesRestart
    BY <2>1, <2>2, EmptyFresh DEF MemoryFresh, ResetSurvivesRestart
  <2>4. ResetsKnown /\ ReadFresh
    BY <2>1 DEF Init, ResetsKnown, ReadFresh, Missing
  <2>5. OneRequest /\ AnsweredFresh
    BY <2>1 DEF Init, OneRequest, AnsweredFresh
  <2> QED
    BY <2>3, <2>4, <2>5 DEF FreshInv
<1>2. TypeInv /\ Solo /\ FreshInv /\ [Next]_vars => FreshInv'
  BY OneRequestStep, ResetsKnownStep, ReadFreshStep, MemoryFreshStep, AnsweredFreshStep
     DEF AllInv, FreshInv
<1>3. TypeInv /\ Solo /\ FreshInv => AllInv
  BY DEF AllInv
<1> QED
  BY <1>1, <1>2, <1>3, TypeInvHolds, SoloHolds, PTL DEF Spec

\* One request at a time, nothing cached at, above or below a path, and no search,
\* is older than the last reset of it, for any tree of paths and parts
\* (explore_cache.py:230-259).
THEOREM ResetsInvalidate ==
  ASSUME MaxConcurrency <= 1
  PROVE  Spec => []FreshAfterReset
<1>1. AllInv => FreshAfterReset
  BY DEF AllInv, FreshInv, MemoryFresh, FreshAfterReset
<1> QED
  BY <1>1, AllInvHolds, PTL

\* Nor is what the file holds, whichever session wrote it and whenever the server
\* stopped, unless the reset could not be written (explore_cache.py:256-259).
THEOREM ResetsSurvive ==
  ASSUME MaxConcurrency <= 1
  PROVE  Spec => []ResetSurvivesRestart
<1>1. AllInv => ResetSurvivesRestart
  BY DEF AllInv, FreshInv
<1> QED
  BY <1>1, AllInvHolds, PTL

\* Nor is the answer to a request that resets, even after a retry
\* (dispatcher.py:311-315, 341-345).
THEOREM ResetsAnswerFresh ==
  ASSUME MaxConcurrency <= 1
  PROVE  Spec => []AnsweredFresh
<1>1. AllInv => AnsweredFresh
  BY DEF AllInv, FreshInv
<1> QED
  BY <1>1, AllInvHolds, PTL

-----------------------------------------------------------------------------
(* Parts and what embeds them, one request at a time. *)

\* A cache in which no part is older than what embeds it, and nothing is of the
\* future.
PartsKept(c, v) ==
  /\ \A p \in DescribePaths : \A q \in FanOut[p] :
       c.describe[q] # Missing => c.describe[p] <= c.describe[q]
  /\ \A p \in DescribePaths : c.describe[p] <= v

LEMMA PartsSwept ==
  ASSUME NEW c \in Cache, NEW v \in Versions, PartsKept(c, v), NEW path
  PROVE  PartsKept(Sweep(c, path), v)
<1> DEFINE d == Sweep(c, path)
<1>1. \A p \in DescribePaths : d.describe[p] \in {Missing, c.describe[p]}
  BY DEF Sweep
<1>2. \A p \in DescribePaths : d.describe[p] \in Nat /\ c.describe[p] \in Nat
  BY <1>1, Ordered DEF Cache, Cachable
<1>3. \A p \in DescribePaths : d.describe[p] <= c.describe[p] /\ (d.describe[p] # Missing => d.describe[p] = c.describe[p])
  BY <1>1, <1>2, Ordered
<1>4. \A p \in DescribePaths : FanOut[p] \subseteq DescribePaths
  BY ExploreCacheAssumption
<1> HIDE DEF d
<1>5. v \in Nat
  BY Ordered
<1>6. \A p \in DescribePaths : d.describe[p] <= v
  <2> TAKE p \in DescribePaths
  <2>1. d.describe[p] <= c.describe[p] /\ c.describe[p] <= v
    BY <1>3 DEF PartsKept
  <2> QED
    BY <1>2, <1>5, <2>1
<1>7. ASSUME NEW p \in DescribePaths, NEW q \in FanOut[p], d.describe[q] # Missing
      PROVE  d.describe[p] <= d.describe[q]
  <2>1. q \in DescribePaths
    BY <1>4
  <2>2. d.describe[q] = c.describe[q] /\ d.describe[p] <= c.describe[p]
    BY <1>3, <1>7, <2>1
  <2>3. c.describe[p] <= c.describe[q]
    BY <1>7, <2>2 DEF PartsKept
  <2> QED
    BY <1>2, <2>1, <2>2, <2>3
<1>8. PartsKept(d, v)
  BY <1>6, <1>7 DEF PartsKept
<1> QED
  BY <1>8 DEF d

\* A description is stored with all of its parts, which embed nothing themselves,
\* and is the newest there is.
LEMMA PartsPut ==
  ASSUME NEW c \in Cache, NEW v \in Versions, NEW w \in Versions, w <= v, NEW q \in Query,
         PartsKept(c, w)
  PROVE  PartsKept(Put(c, q, w), v)
<1> DEFINE d == Put(c, q, w)
<1>1. c.describe \in [DescribePaths -> Cachable] /\ w \in Cachable
  BY DEF Cache, Cachable
<1>2. v \in Nat /\ w \in Nat /\ \A p \in DescribePaths : c.describe[p] \in Nat
  BY <1>1, Ordered
<1>3. \A p \in DescribePaths : d.describe[p] =
        IF q.kind = "describe" /\ p \in Keys(q) THEN w ELSE c.describe[p]
  BY <1>1, StoreAtTyped DEF Put
<1>4. ASSUME NEW p \in DescribePaths, q.kind = "describe", p \in Keys(q)
      PROVE  FanOut[p] \subseteq Keys(q)
  <2>1. q.key \in DescribePaths
    BY <1>4 DEF Query
  <2> QED
    BY <1>4, <2>1, ExploreCacheAssumption DEF Keys
<1>5. \A p \in DescribePaths : FanOut[p] \subseteq DescribePaths
  BY ExploreCacheAssumption
<1> HIDE DEF d
<1>6. \A p \in DescribePaths : d.describe[p] \in Nat /\ d.describe[p] <= w
  BY <1>2, <1>3 DEF PartsKept
<1>7. \A p \in DescribePaths : d.describe[p] <= v
  BY <1>2, <1>6
<1>8. ASSUME NEW p \in DescribePaths, NEW k \in FanOut[p], d.describe[k] # Missing
      PROVE  d.describe[p] <= d.describe[k]
  <2>1. k \in DescribePaths
    BY <1>5
  <2>2. CASE q.kind = "describe" /\ k \in Keys(q)
    BY <1>3, <1>6, <2>1, <2>2
  <2>3. CASE ~(q.kind = "describe" /\ k \in Keys(q))
    <3>1. ~(q.kind = "describe" /\ p \in Keys(q))
      BY <1>4, <2>3
    <3>2. d.describe[p] = c.describe[p] /\ d.describe[k] = c.describe[k]
      BY <1>3, <2>1, <2>3, <3>1
    <3> QED
      BY <1>8, <3>2 DEF PartsKept
  <2> QED
    BY <2>2, <2>3
<1>9. PartsKept(d, v)
  BY <1>7, <1>8 DEF PartsKept
<1> QED
  BY <1>9 DEF d

LEMMA PartsEmpty ==
  ASSUME NEW v \in Versions
  PROVE  PartsKept(Empty, v)
<1>1. Missing <= v
  <2>1. v \in Nat /\ Missing = 0
    BY Ordered
  <2> QED
    BY <2>1
<1>2. \A p \in DescribePaths : FanOut[p] \subseteq DescribePaths
  BY ExploreCacheAssumption
<1> QED
  BY <1>1, <1>2 DEF PartsKept, Empty

LEMMA PartsLater ==
  ASSUME NEW c \in Cache, NEW v \in Versions, NEW w \in Versions, v <= w, PartsKept(c, v)
  PROVE  PartsKept(c, w)
<1>1. v \in Nat /\ w \in Nat /\ \A p \in DescribePaths : c.describe[p] \in Nat
  BY Ordered DEF Cache, Cachable
<1>2. \A p \in DescribePaths : c.describe[p] <= w
  BY <1>1 DEF PartsKept
<1> QED
  BY <1>2 DEF PartsKept

\* Memory and file keep their parts, and nothing in memory is newer than what was
\* read and is to be stored.
PartsInv ==
  /\ PartsKept(file, db)
  /\ \A s \in Sessions : PartsKept(mem[s], db)
  /\ \A r \in Slots : task[r] = "read" => \A s \in Sessions : PartsKept(mem[s], got[r])

\* A cache with its parts may be saved while no other request has read.
LEMMA SaveParts ==
  ASSUME TypeInv, PartsInv, NEW s \in Sessions, NEW c, Save(s, c), PartsKept(c, db),
         UNCHANGED db, \A r \in Slots : task'[r] # "read"
  PROVE  PartsInv'
<1>1. \A t \in Sessions : mem'[t] \in {mem[t], c}
  BY DEF Save, TypeInv, TypeOK
<1>2. file' \in {file, c}
  BY DEF Save
<1> QED
  BY <1>1, <1>2 DEF PartsInv

LEMMA PartsInvStep ==
  ASSUME AllInv, MaxConcurrency <= 1, PartsInv, [Next]_vars
  PROVE  PartsInv'
<1> USE Typed, Ordered DEF AllInv, FreshInv
<1>1. ASSUME NEW s \in Sessions, OpenSession(s) \/ CloseSession(s) PROVE PartsInv'
  <2>1. /\ UNCHANGED <<db, file, task, got>>
        /\ \A t \in Sessions : mem'[t] \in {mem[t], Empty, file}
        /\ \A r \in Slots : task[r] = "read" => \A t \in Sessions : mem'[t] \in {mem[t], Empty}
    BY <1>1 DEF OpenSession, CloseSession, InFlight, TypeInv, TypeOK
  <2>2. \A r \in Slots : task[r] = "read" => got[r] \in Versions
    BY DEF ReadFresh
  <2> QED
    BY <2>1, <2>2, PartsEmpty DEF PartsInv
<1>2. CASE Crash
  <2>1. /\ UNCHANGED <<db, file>> /\ (\A r \in Slots : task'[r] # "read")
        /\ \A t \in Sessions : mem'[t] = Empty
    BY <1>2 DEF Crash
  <2> QED
    BY <2>1, PartsEmpty DEF PartsInv
<1>3. CASE DatabaseChanges
  <2>1. db' \in Versions /\ db <= db' /\ UNCHANGED <<file, mem, task, got>>
    <3>1. db \in Nat /\ db' = db + 1 /\ db < MaxVersion
      BY <1>3 DEF DatabaseChanges
    <3> QED
      BY <1>3, <3>1, ExploreCacheAssumption DEF DatabaseChanges, Versions
  <2> QED
    BY <2>1, PartsLater DEF PartsInv
<1>4. ASSUME NEW r \in Slots, NEW q \in Query, NEW reset \in BOOLEAN, Start(r, q, reset)
      PROVE  PartsInv'
  <2>1. Others(r) /\ InFlight = {} /\ task'[r] # "read" /\ UNCHANGED db /\ q.on \in Sessions
    BY <1>4, StartAlone, NoneInFlight, QueryTyped
  <2>2. \A t \in Slots : task'[t] # "read"
    BY <2>1 DEF InFlight, Others
  <2>3. CASE reset
    <3>1. Save(q.on, Sweep(mem[q.on], q.key))
      BY <1>4, <2>3 DEF Start, Reset
    <3>2. PartsKept(Sweep(mem[q.on], q.key), db)
      BY <2>1, PartsSwept DEF PartsInv
    <3> QED
      BY <2>1, <2>2, <3>1, <3>2, SaveParts
  <2>4. CASE ~reset
    BY <1>4, <2>1, <2>2, <2>4 DEF Start, PartsInv
  <2> QED
    BY <2>3, <2>4
<1>5. ASSUME NEW r \in Slots, Read(r) PROVE PartsInv'
  <2>1. /\ UNCHANGED <<db, file, mem>> /\ got'[r] = db
        /\ \A t \in Slots : t # r => task'[t] = task[t] /\ got'[t] = got[t]
    BY <1>5 DEF Read, TypeInv, TypeOK
  <2> QED
    BY <2>1 DEF PartsInv
<1>6. ASSUME NEW r \in Slots, Store(r) PROVE PartsInv'
  <2>1. /\ Others(r) /\ task'[r] = "idle" /\ r \in InFlight /\ task[r] = "read"
        /\ UNCHANGED db
    BY <1>6, FinishAlone DEF Store, InFlight
  <2>2. \A t \in Slots : task'[t] # "read"
    BY <2>1 DEF OneRequest, InFlight, Others
  <2>3. got[r] \in Versions /\ got[r] <= db
    BY <2>1 DEF ReadFresh
  <2>4. CASE Save(asks[r].on, Put(mem[asks[r].on], asks[r], got[r]))
    <3> DEFINE m == mem[asks[r].on]
    <3>1. asks[r] \in Query /\ asks[r].on \in Sessions /\ m \in Cache
      BY <2>1
    <3>2. PartsKept(m, got[r])
      BY <2>1, <3>1 DEF PartsInv
    <3> HIDE DEF m
    <3>3. PartsKept(Put(m, asks[r], got[r]), db)
      BY <2>3, <3>1, <3>2, PartsPut
    <3> QED
      BY <2>1, <2>2, <2>4, <3>1, <3>3, SaveParts DEF m
  <2>5. CASE UNCHANGED <<mem, file, lost>>
    BY <2>1, <2>2, <2>5 DEF PartsInv
  <2> QED
    BY <1>6, <2>4, <2>5 DEF Store
<1>7. ASSUME NEW r \in Slots, Retry(r) \/ Fail(r) PROVE PartsInv'
  <2>1. UNCHANGED <<db, file, mem>> /\ r \in InFlight
    BY <1>7 DEF Retry, Fail
  <2>2. Others(r) /\ task'[r] # "read"
    BY <1>7, <2>1, FinishAlone, LookUpAlone DEF Retry, Fail
  <2> QED
    BY <2>1, <2>2 DEF PartsInv, Others
<1>8. CASE UNCHANGED vars
  BY <1>8 DEF vars, PartsInv
<1> QED
  BY <1>1, <1>2, <1>3, <1>4, <1>5, <1>6, <1>7, <1>8 DEF Next

\* One request at a time, what is cached of a part is never older than a cached
\* description that embeds it, also once it was loaded from the file
\* (explore_cache.py:153-168, 246-254).
THEOREM PartsAreNotOlder ==
  ASSUME MaxConcurrency <= 1
  PROVE  Spec => []PartsNotOlder
<1>1. Init => PartsInv
  <2>1. Init => 1 \in Versions
    BY ExploreCacheAssumption DEF Versions
  <2> QED
    BY <2>1, PartsEmpty DEF Init, PartsInv
<1>2. AllInv /\ PartsInv /\ [Next]_vars => PartsInv'
  BY PartsInvStep
<1>3. PartsInv => PartsNotOlder
  BY DEF PartsInv, PartsKept, PartsNotOlder
<1> QED
  BY <1>1, <1>2, <1>3, AllInvHolds, PTL DEF Spec
=============================================================================
