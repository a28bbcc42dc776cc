---------------------------- MODULE ExploreCache ----------------------------
(***************************************************************************)
(* The explore cache of grannos/explore_cache.py: each connection keeps    *)
(* what explore.list, explore.describe and explore.find returned, and      *)
(* writes all of it to a JSON file after every change.  Connections opened *)
(* with the same parameters, one after the other, have one file.           *)
(*                                                                         *)
(* A cached result is abstracted to the version of the database it was     *)
(* read at.  A session is one connection with its ConnectionCache; a file  *)
(* that is missing, or that cannot be read, loads as an empty cache.       *)
(***************************************************************************)
EXTENDS Naturals, FiniteSets, SequencesExt

CONSTANTS
  Sessions,       \* connections opened with the same parameters, in turn
  Slots,          \* explore requests, each slot taken by one after the other
  MaxConcurrency, \* --max-concurrency
  ListPaths,      \* the paths that are listed
  DescribePaths,  \* the paths that are described
  Searches,       \* the find_key's that are searched for
  FanOut,         \* the paths each description also answers for
  ResetPaths,     \* bound: the paths that the cache is reset at
  MaxVersion      \* bound: versions of the database

ASSUME ExploreCacheAssumption ==
  /\ IsFiniteSet(Slots)
  /\ MaxConcurrency \in Nat
  /\ ListPaths \subseteq Seq(STRING) /\ DescribePaths \subseteq Seq(STRING)
  /\ FanOut \in [DescribePaths -> SUBSET DescribePaths]
  /\ \A p \in DescribePaths : \A q \in FanOut[p] : FanOut[q] = {}  \* a part embeds nothing
  /\ MaxVersion \in Nat \ {0}

Missing == 0
Versions == 1..MaxVersion

\* The three caches, and what a request may ask of them.
Cache ==
  [list     : [ListPaths -> {Missing} \cup Versions],
   describe : [DescribePaths -> {Missing} \cup Versions],
   find     : [Searches -> {Missing} \cup Versions]]

Query ==
  [kind : {"list"},     key : ListPaths,     on : Sessions] \cup
  [kind : {"describe"}, key : DescribePaths, on : Sessions] \cup
  [kind : {"find"},     key : Searches,      on : Sessions]
Nothing == [kind |-> "none"]

\* The paths reset_cache is asked for.
Paths == ListPaths \cup DescribePaths

VARIABLES
  db,      \* the current version of the database
  session, \* the state of each session
  mem,     \* the cache of each session
  file,    \* the cache their file would load as
  lost,    \* the sessions whose last change could not be written to it
  floor,   \* for each session and path, the version at the last reset of it
  task,    \* where the request of each slot is
  asks,    \* its query and session
  began,   \* the version when it was let in, if it asked to reset the cache
  got,     \* what the database gave it
  stale    \* the slots where a reset was answered with what it was to reset

vars == <<db, session, mem, file, lost, floor, task, asks, began, got, stale>>

TypeOK ==
  /\ db \in Versions
  /\ session \in [Sessions -> {"unopened", "open", "closed"}]
  /\ mem \in [Sessions -> Cache]
  /\ file \in Cache
  /\ lost \subseteq Sessions
  /\ floor \in [Sessions -> [Paths -> {Missing} \cup Versions]]
  /\ task \in [Slots -> {"idle", "fetching", "read"}]
  /\ asks \in [Slots -> Query \cup {Nothing}]
  /\ began \in [Slots -> {Missing} \cup Versions]
  /\ got \in [Slots -> {Missing} \cup Versions]
  /\ stale \subseteq Slots

Empty ==
  [list     |-> [p \in ListPaths |-> Missing],
   describe |-> [p \in DescribePaths |-> Missing],
   find     |-> [s \in Searches |-> Missing]]

Init ==
  /\ db = 1
  /\ session = [s \in Sessions |-> "unopened"]
  /\ mem = [s \in Sessions |-> Empty]
  /\ file = Empty
  /\ lost = {}
  /\ floor = [s \in Sessions |-> [p \in Paths |-> Missing]]
  /\ task = [r \in Slots |-> "idle"]
  /\ asks = [r \in Slots |-> Nothing]
  /\ began = [r \in Slots |-> Missing]
  /\ got = [r \in Slots |-> Missing]
  /\ stale = {}

InFlight == {r \in Slots : task[r] # "idle"}

----------------------------------------------------------------------------
(* The cache *)

Cached(c, q) ==
  CASE q.kind = "list"     -> c.list[q.key]
    [] q.kind = "describe" -> c.describe[q.key]
    [] q.kind = "find"     -> c.find[q.key]

\* A reset evicts what is at or below the path, all its ancestors -- which
\* may embed it -- and every search.
Evicted(path, p) == IsPrefix(path, p) \/ IsStrictPrefix(p, path)

\* Mutant: as if a reset kept what lies above the path.
SweepBelow(c, path) ==
  [list     |-> [p \in ListPaths |-> IF IsPrefix(path, p) THEN Missing ELSE c.list[p]],
   describe |-> [p \in DescribePaths |-> IF IsPrefix(path, p) THEN Missing ELSE c.describe[p]],
   find     |-> [s \in Searches |-> Missing]]

Sweep(c, path) ==
  [list     |-> [p \in ListPaths |-> IF Evicted(path, p) THEN Missing ELSE c.list[p]],
   describe |-> [p \in DescribePaths |-> IF Evicted(path, p) THEN Missing ELSE c.describe[p]],
   find     |-> [s \in Searches |-> Missing]]

\* The keys that a result is stored at: a description's parts, those it embeds,
\* are stored with it.
Keys(q) == {q.key} \cup (IF q.kind = "describe" THEN FanOut[q.key] ELSE {})

\* The version v at these keys of one of the caches.
StoreAt(cached, keys, v) == [k \in DOMAIN cached |-> IF k \in keys THEN v ELSE cached[k]]

\* Mutant: as if the parts of a description were stored among the lists too.
PutAnywhere(c, q, v) ==
  [c EXCEPT !.list = [k \in DOMAIN @ \cup Keys(q) |-> v]]

\* Mutant: as if the parts of a description kept what was cached for them.
PutAlone(c, q, v) ==
  [list     |-> IF q.kind = "list" THEN StoreAt(c.list, {q.key}, v) ELSE c.list,
   describe |-> IF q.kind = "describe" THEN StoreAt(c.describe, {q.key}, v) ELSE c.describe,
   find     |-> IF q.kind = "find" THEN StoreAt(c.find, {q.key}, v) ELSE c.find]

Put(c, q, v) ==
  [list     |-> IF q.kind = "list" THEN StoreAt(c.list, Keys(q), v) ELSE c.list,
   describe |-> IF q.kind = "describe" THEN StoreAt(c.describe, Keys(q), v) ELSE c.describe,
   find     |-> IF q.kind = "find" THEN StoreAt(c.find, Keys(q), v) ELSE c.find]

\* Mutant: as if the file were deleted when only searches are left to keep.
SaveDropsSearches(s, c) ==
  /\ mem' = [mem EXCEPT ![s] = c]
  /\ file' = IF c = [Empty EXCEPT !.find = c.find] THEN Empty ELSE c
  /\ lost' = lost \ {s}

\* Session s's cache becomes c.  The file is replaced as a whole, or deleted
\* with nothing left to keep, unless that fails and the old one stays.
Save(s, c) ==
  /\ mem' = [mem EXCEPT ![s] = c]
  /\ \/ file' = c /\ lost' = lost \ {s}
     \/ file' = file /\ lost' = lost \cup {s}

----------------------------------------------------------------------------
(* Sessions *)

\* connect: the cache is loaded from the file.  One session is over before the
\* next begins: sessions that overlap overwrite each other's file.
OpenSession(s) ==
  /\ session[s] = "unopened"
  /\ InFlight = {} /\ \A t \in Sessions : session[t] # "open"
  /\ session' = [session EXCEPT ![s] = "open"]
  /\ mem' = [mem EXCEPT ![s] = file]
  /\ UNCHANGED <<db, file, lost, floor, task, asks, began, got, stale>>

\* disconnect: requests in flight keep the session's cache, and its file.
CloseSession(s) ==
  /\ session[s] = "open"
  /\ session' = [session EXCEPT ![s] = "closed"]
  /\ mem' = IF \E r \in InFlight : asks[r].on = s THEN mem ELSE [mem EXCEPT ![s] = Empty]
  /\ UNCHANGED <<db, file, lost, floor, task, asks, began, got, stale>>

\* The server stops, or is killed.
Crash ==
  /\ session' = [s \in Sessions |-> IF session[s] = "open" THEN "closed" ELSE session[s]]
  /\ session' # session
  /\ mem' = [s \in Sessions |-> Empty]
  /\ task' = [r \in Slots |-> "idle"]
  /\ asks' = [r \in Slots |-> Nothing]
  /\ began' = [r \in Slots |-> Missing]
  /\ got' = [r \in Slots |-> Missing]
  /\ UNCHANGED <<db, file, lost, floor, stale>>

DatabaseChanges ==
  /\ db < MaxVersion
  /\ db' = db + 1
  /\ UNCHANGED <<session, mem, file, lost, floor, task, asks, began, got, stale>>

----------------------------------------------------------------------------
(* Requests *)

\* The request, which reset the cache at version v if at all, is over:
\* answered with what was read at version answer, or else failed.
Finish(r, v, answer) ==
  /\ task' = [task EXCEPT ![r] = "idle"]
  /\ asks' = [asks EXCEPT ![r] = Nothing]
  /\ began' = [began EXCEPT ![r] = Missing]
  /\ got' = [got EXCEPT ![r] = Missing]
  /\ stale' = IF answer \in Versions /\ answer < v THEN stale \cup {r} ELSE stale

\* The request is answered from cache c, or has to fetch.
LookUp(r, q, v, c) ==
  \/ Cached(c, q) # Missing /\ Finish(r, v, Cached(c, q))
  \/ /\ Cached(c, q) = Missing
     /\ task' = [task EXCEPT ![r] = "fetching"]
     /\ asks' = [asks EXCEPT ![r] = q]
     /\ began' = [began EXCEPT ![r] = v]
     /\ got' = [got EXCEPT ![r] = Missing]
     /\ UNCHANGED stale

\* Mutant: as if the cache were consulted before it is reset.
ResetAfterLookUp(r, q) ==
  /\ Save(q.on, Sweep(mem[q.on], q.key))
  /\ floor' = [floor EXCEPT ![q.on][q.key] = db]
  /\ LookUp(r, q, db, mem[q.on])

\* Mutant: as if only the memory were reset, not the file.
ResetMemory(r, q) ==
  /\ mem' = [mem EXCEPT ![q.on] = Sweep(@, q.key)]
  /\ floor' = [floor EXCEPT ![q.on][q.key] = db]
  /\ LookUp(r, q, db, mem'[q.on])
  /\ UNCHANGED <<file, lost>>

\* Request r resets q's path.  It fails if the file cannot be deleted.
Reset(r, q) ==
  LET c == Sweep(mem[q.on], q.key)
  IN  /\ Save(q.on, c)
      /\ floor' = [floor EXCEPT ![q.on][q.key] = db]
      /\ IF c = Empty /\ q.on \in lost' THEN Finish(r, db, Missing) ELSE LookUp(r, q, db, c)

\* A request is let in; it resets the cache if it asks to (explore.find does
\* not look at reset_cache, and resets nothing) and consults it, without
\* suspending in between.
Start(r, q, reset) ==
  /\ r \notin InFlight /\ session[q.on] = "open"
  /\ Cardinality({x \in InFlight : asks[x].on = q.on}) < MaxConcurrency
  /\ IF reset
     THEN Reset(r, q)
     ELSE LookUp(r, q, Missing, mem[q.on]) /\ UNCHANGED <<mem, file, lost, floor>>
  /\ UNCHANGED <<db, session>>

\* The driver reads the database at some point of its call.
Read(r) ==
  /\ task[r] = "fetching"
  /\ task' = [task EXCEPT ![r] = "read"]
  /\ got' = [got EXCEPT ![r] = db]
  /\ UNCHANGED <<db, session, mem, file, lost, floor, asks, began, stale>>

\* The result comes back and is stored, fan-out included; a description of
\* nothing is not.
Store(r) ==
  /\ task[r] = "read"
  /\ Finish(r, began[r], got[r])
  /\ \/ Save(asks[r].on, Put(mem[asks[r].on], asks[r], got[r]))
     \/ asks[r].kind = "describe" /\ UNCHANGED <<mem, file, lost>>
  /\ UNCHANGED <<db, session, floor>>

\* The call loses its connection, which is reopened, and is made once more --
\* cache lookup included.
Retry(r) ==
  /\ r \in InFlight
  /\ LookUp(r, asks[r], began[r], mem[asks[r].on])
  /\ UNCHANGED <<db, session, mem, file, lost, floor>>

\* An error, or a cancel.
Fail(r) ==
  /\ r \in InFlight
  /\ Finish(r, began[r], Missing)
  /\ UNCHANGED <<db, session, mem, file, lost, floor>>

----------------------------------------------------------------------------

Next ==
  \/ \E s \in Sessions : OpenSession(s) \/ CloseSession(s)
  \/ Crash \/ DatabaseChanges
  \/ \E r \in Slots :
       \/ \E q \in Query, reset \in BOOLEAN :
            /\ reset => q.kind # "find" /\ q.key \in ResetPaths
            /\ Start(r, q, reset)
       \/ Read(r) \/ Store(r) \/ Retry(r) \/ Fail(r)

Spec == Init /\ [][Next]_vars

----------------------------------------------------------------------------
(* Properties *)

\* Nothing in c at, above or below a path is older than the last reset of it,
\* and no search is older than any of them.
NotOlder(c, resets) ==
  \A path \in Paths :
    LET Fresh(cached, p) == cached[p] \in {Missing} \cup (resets[path]..MaxVersion)
    IN  /\ \A p \in ListPaths : Evicted(path, p) => Fresh(c.list, p)
        /\ \A p \in DescribePaths : Evicted(path, p) => Fresh(c.describe, p)
        /\ \A s \in Searches : Fresh(c.find, s)

\* A reset invalidates: nothing a session has cached at, above or below the
\* path, and no search, was read before its last reset (explore_cache.py:230-259).
FreshAfterReset ==
  \A s \in Sessions : session[s] = "open" => NotOlder(mem[s], floor[s])

\* A reset "forces fresh data in next session" too: unless it could not be
\* written, what the file holds from then on, whichever session writes it, was
\* not read before the reset (explore_cache.py:256-259, 400-404).
ResetSurvivesRestart ==
  \A s \in Sessions : s \notin lost => NotOlder(file, floor[s])

\* A request that resets the cache is answered with what the database holds
\* then or later, even if it had to be retried (dispatcher.py:311-315, 341-345).
AnsweredFresh == stale = {}

\* What is cached of a part is never older than a cached description that embeds
\* it, of which there may be several -- the table's and that of its columns -- read
\* at different times (explore_cache.py:153-168, 246-254).
PartsNotOlder ==
  \A s \in Sessions : \A p \in DescribePaths : \A q \in FanOut[p] :
    mem[s].describe[q] # Missing => mem[s].describe[p] <= mem[s].describe[q]

\* What the server knew when it stopped, at whatever moment, is what the next
\* session starts from; a write that fails is made up for by the next one
\* (explore_cache.py:203-207, 378-404).
WarmRestart ==
  \A s \in Sessions : session[s] = "open" /\ s \notin lost => file = mem[s]

============================================================================
