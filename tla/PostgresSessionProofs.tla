----------------------- MODULE PostgresSessionProofs ------------------------
(***************************************************************************)
(* Proofs about PostgresSession, for any settings, any number of queries   *)
(* at once and any number of statements and of lost links.                 *)
(*                                                                         *)
(* The settings survive because the entries that are replayed are those of *)
(* what the user set, one for each parameter (Tracked); the metadata is    *)
(* not stale because a query that may still write to the dictionary in use *)
(* began when no statement had finished since (InUse).                     *)
(***************************************************************************)
EXTENDS PostgresSession, TLAPS

TypeOK ==
  /\ catalog \in Nat /\ done \in Nat /\ sets \in Nat /\ losses \in Nat
  /\ dicts \in Seq(Nat) /\ store \in 0..Len(dicts)
  /\ fetch \in [Fetchers -> [pc : {"idle", "asked", "read", "answered"},
                             dict : Nat, answer : Nat, since : Nat]]
  /\ \A f \in Fetchers : fetch[f].pc # "idle" => fetch[f].dict \in 1..Len(dicts)
  /\ stmt \in [pc : {"none", "sent", "ran"}, kind : {"ddl", "set"},
              setting : Settings \union {"none"}]
  /\ stmt.kind = "set" => stmt.setting \in Settings
  /\ link \in {"up", "lost", "replaying"}
  /\ session \in [Settings -> Nat] /\ expected \in [Settings -> Nat]
  /\ tracked \in Seq(Settings \X Nat) /\ replayed \in Nat
  /\ skipped \subseteq Settings

\* Giving one setting a value leaves a table of settings.
LEMMA OverrideTyped ==
  ASSUME NEW S, NEW table \in [S -> Nat], NEW p \in S, NEW v \in Nat
  PROVE  [table EXCEPT ![p] = v] \in [S -> Nat]
OBVIOUS

\* Track replaces the entry of the setting or adds one behind the others.
LEMMA TrackTyped ==
  ASSUME NEW entries \in Seq(Settings \X Nat), NEW p \in Settings, NEW v \in Nat
  PROVE  Track(entries, p, v) \in Seq(Settings \X Nat)
<1> DEFINE e == <<p, v>>
<1>1. e \in Settings \X Nat
  OBVIOUS
<1> HIDE DEF e
<1>2. CASE \E i \in DOMAIN entries : entries[i][1] = p
  <2>1. Track(entries, p, v) =
          [i \in DOMAIN entries |-> IF entries[i][1] = p THEN e ELSE entries[i]]
    BY <1>2, Zenon DEF Track, e
  <2>5. DOMAIN entries = 1..Len(entries)
    OBVIOUS
  <2> DEFINE E == Settings \X Nat
  <2>2. entries \in Seq(E) /\ e \in E
    BY <1>1
  <2> HIDE DEF E
  <2>3. \A i \in 1..Len(entries) :
          (IF entries[i][1] = p THEN e ELSE entries[i]) \in E
    BY <2>2
  <2>4. Track(entries, p, v) \in Seq(E)
    BY <2>1, <2>2, <2>3, <2>5
  <2> QED
    BY <2>4 DEF E
<1>3. CASE ~ \E i \in DOMAIN entries : entries[i][1] = p
  <2>1. Track(entries, p, v) = Append(entries, e)
    BY <1>3 DEF Track, e
  <2> QED
    BY <1>1, <2>1
<1> QED
  BY <1>2, <1>3

\* The types hold from the start, and every step keeps them.
LEMMA TypesHold == Spec => []TypeOK
<1>1. Init => TypeOK
  BY DEF Init, TypeOK, Idle, Nothing, NoStatement, Default
<1>2. TypeOK /\ [Next]_vars => TypeOK'
  <2> SUFFICES ASSUME TypeOK, [Next]_vars PROVE TypeOK'
    OBVIOUS
  <2> USE DEF TypeOK, cacheVars, sessionVars
  <2>1. ASSUME NEW f \in Fetchers, FetchStart(f) PROVE TypeOK'
    <3>1. dicts' \in Seq(Nat) /\ Len(dicts') >= Len(dicts) /\ store' \in 1..Len(dicts')
      BY <2>1 DEF FetchStart, Nothing
    <3>2. dicts'[store'] \in Nat
      BY <3>1
    <3>3. fetch' = [fetch EXCEPT ![f] =
             IF dicts'[store'] # Nothing
             THEN [pc |-> "answered", dict |-> store', answer |-> dicts'[store'], since |-> done]
             ELSE [pc |-> "asked", dict |-> store', answer |-> Nothing, since |-> done]]
      BY <2>1 DEF FetchStart
    <3>4. \A g \in Fetchers : fetch'[g].pc # "idle" => fetch'[g].dict \in 1..Len(dicts')
      BY <3>1, <3>3
    <3> QED
      BY <2>1, <3>1, <3>2, <3>3, <3>4 DEF FetchStart, Nothing
  <2>2. ASSUME NEW f \in Fetchers, FetchRead(f) PROVE TypeOK'
    <3>1. /\ fetch' \in [Fetchers -> [pc : {"idle", "asked", "read", "answered"},
                                      dict : Nat, answer : Nat, since : Nat]]
          /\ \A g \in Fetchers : fetch'[g].dict = fetch[g].dict
          /\ \A g \in Fetchers : fetch[g].pc = "idle" => fetch'[g].pc = "idle"
      BY <2>2 DEF FetchRead
    <3> QED
      BY <2>2, <3>1 DEF FetchRead
  <2>9. ASSUME NEW f \in Fetchers, FetchEnd(f) PROVE TypeOK'
    <3>1. /\ fetch' \in [Fetchers -> [pc : {"idle", "asked", "read", "answered"},
                                      dict : Nat, answer : Nat, since : Nat]]
          /\ \A g \in Fetchers : fetch'[g].dict = fetch[g].dict
          /\ \A g \in Fetchers : fetch[g].pc = "idle" => fetch'[g].pc = "idle"
      BY <2>9 DEF FetchEnd
    <3>2. dicts' \in Seq(Nat) /\ Len(dicts') = Len(dicts)
      BY <2>9 DEF FetchEnd
    <3> QED
      BY <2>9, <3>1, <3>2 DEF FetchEnd
  <2>10. ASSUME NEW f \in Fetchers, FetchNext(f) PROVE TypeOK'
    <3>1. /\ fetch' \in [Fetchers -> [pc : {"idle", "asked", "read", "answered"},
                                      dict : Nat, answer : Nat, since : Nat]]
          /\ \A g \in Fetchers : fetch'[g].pc # "idle" =>
               fetch'[g].dict = fetch[g].dict /\ fetch[g].pc # "idle"
      BY <2>10 DEF FetchNext, Idle, Nothing
    <3> QED
      BY <2>10, <3>1 DEF FetchNext
  <2>3. CASE ExecuteStart("ddl", "none")
    BY <2>3 DEF ExecuteStart
  <2>4. ASSUME NEW p \in Settings, ExecuteStart("set", p) PROVE TypeOK'
    BY <2>4 DEF ExecuteStart
  <2>5. CASE ExecuteRun
    <3>1. stmt' \in [pc : {"none", "sent", "ran"}, kind : {"ddl", "set"},
                     setting : Settings \union {"none"}]
          /\ stmt'.kind = stmt.kind /\ stmt'.setting = stmt.setting
      BY <2>5 DEF ExecuteRun
    <3>2. session' \in [Settings -> Nat]
      <4>1. CASE stmt.kind = "set"
        BY <2>5, <4>1, OverrideTyped DEF ExecuteRun
      <4>2. CASE stmt.kind # "set"
        BY <2>5, <4>2 DEF ExecuteRun
      <4> QED
        BY <4>1, <4>2
    <3>3. catalog' \in Nat
      BY <2>5 DEF ExecuteRun
    <3> QED
      BY <2>5, <3>1, <3>2, <3>3 DEF ExecuteRun
  <2>6. CASE ExecuteEnd
    <3>1. tracked' \in Seq(Settings \X Nat)
      <4>1. CASE stmt.kind = "set"
        BY <2>6, <4>1, TrackTyped DEF ExecuteEnd
      <4>2. CASE stmt.kind # "set"
        BY <2>6, <4>2 DEF ExecuteEnd
      <4> QED
        BY <4>1, <4>2
    <3>2. expected' \in [Settings -> Nat] /\ skipped' \subseteq Settings
      <4>1. CASE stmt.kind = "set"
        <5>1. /\ expected' = [expected EXCEPT ![stmt.setting] = sets]
              /\ skipped' = skipped \ {stmt.setting}
          BY <2>6, <4>1 DEF ExecuteEnd
        <5> QED
          BY <4>1, <5>1, OverrideTyped
      <4>2. CASE stmt.kind # "set"
        BY <2>6, <4>2 DEF ExecuteEnd
      <4> QED
        BY <4>1, <4>2
    <3>3. /\ UNCHANGED <<catalog, sets, losses, dicts, fetch, link, session, replayed>>
          /\ store' = 0 /\ done' = catalog
          /\ stmt' = [pc |-> "none", kind |-> "ddl", setting |-> "none"]
      BY <2>6 DEF ExecuteEnd, InvalidateCache, NoStatement
    <3> QED
      BY <3>1, <3>2, <3>3
  <2>7. CASE Lose
    <3>1. /\ fetch' \in [Fetchers -> [pc : {"idle", "asked", "read", "answered"},
                                      dict : Nat, answer : Nat, since : Nat]]
          /\ \A g \in Fetchers : fetch'[g].pc = "idle"
      BY <2>7 DEF Lose, Idle, Nothing
    <3> QED
      BY <2>7, <3>1 DEF Lose, NoStatement
  <2>8. CASE Reconnect
    BY <2>8 DEF Reconnect, Default
  <2>11. CASE ReplayStatement
    <3>1. tracked[replayed + 1] \in Settings \X Nat
      BY <2>11 DEF ReplayStatement
    <3>2. tracked[replayed + 1][1] \in Settings /\ tracked[replayed + 1][2] \in Nat
      BY <3>1
    <3>3. session' \in [Settings -> Nat]
      BY <2>11, <3>2 DEF ReplayStatement
    <3>4. /\ replayed' = replayed + 1
          /\ UNCHANGED <<catalog, store, dicts, done, fetch, stmt, link, losses,
                         tracked, skipped, expected, sets>>
      BY <2>11 DEF ReplayStatement
    <3> QED
      BY <3>3, <3>4
  <2>12. CASE Replayed
    BY <2>12 DEF Replayed
  <2>14. CASE ReplayStops
    <3>1. /\ link' = "up"
          /\ skipped' = {tracked[i][1] : i \in (replayed + 1)..Len(tracked)}
          /\ UNCHANGED <<catalog, store, dicts, done, fetch, stmt, losses, session,
                         tracked, replayed, expected, sets>>
      BY <2>14 DEF ReplayStops
    <3>2. \A i \in 1..Len(tracked) : tracked[i][1] \in Settings
      <4>1. \A i \in 1..Len(tracked) : tracked[i] \in Settings \X Nat
        OBVIOUS
      <4> QED
        BY <4>1
    <3>3. (replayed + 1)..Len(tracked) \subseteq 1..Len(tracked)
      OBVIOUS
    <3>4. skipped' \subseteq Settings
      BY <3>1, <3>2, <3>3
    <3> QED
      BY <3>1, <3>4
  <2>13. CASE UNCHANGED vars
    BY <2>13 DEF vars
  <2> QED
    BY <2>1, <2>2, <2>3, <2>4, <2>5, <2>6, <2>7, <2>8, <2>9, <2>10, <2>11, <2>12,
       <2>13, <2>14 DEF Next
<1> QED
  BY <1>1, <1>2, PTL DEF Spec

-----------------------------------------------------------------------------
(* The metadata cache *)

\* What is known of versions: a query starts no later than the last finished
\* statement and answers no less than it found, and the dictionary in use holds,
\* or is about to be given, the version of the last finished statement or newer.
InUse ==
  /\ 1 <= done /\ done <= catalog
  /\ \A f \in Fetchers :
       /\ fetch[f].pc # "idle" => fetch[f].since <= done
       /\ fetch[f].pc \in {"read", "answered"} => fetch[f].since <= fetch[f].answer
       /\ fetch[f].pc \in {"asked", "read"} /\ fetch[f].dict = store =>
            fetch[f].since = done
  /\ store # 0 /\ dicts[store] # Nothing => done <= dicts[store]

\* A query that starts after a statement finished answers what the statement
\* left: a query older than it writes to a dictionary that is no longer in use.
THEOREM MetadataNeverStale == Spec => []NoStaleMetadata
<1>1. Init => InUse
  BY DEF Init, InUse, Idle, Nothing
<1>2. TypeOK /\ InUse /\ [Next]_vars => InUse'
  <2> SUFFICES ASSUME TypeOK, InUse, [Next]_vars PROVE InUse'
    OBVIOUS
  <2> USE DEF TypeOK, InUse, cacheVars, sessionVars
  <2>1. ASSUME NEW f \in Fetchers, FetchStart(f) PROVE InUse'
    <3>1. CASE store = 0
      <4>1. /\ store' = Len(dicts) + 1 /\ dicts' = Append(dicts, Nothing)
            /\ dicts'[store'] = Nothing
        BY <2>1, <3>1 DEF FetchStart, Nothing
      <4>2. fetch' = [fetch EXCEPT ![f] = [pc |-> "asked", dict |-> store',
                                           answer |-> Nothing, since |-> done]]
        BY <2>1, <3>1, <4>1 DEF FetchStart
      <4>3. \A g \in Fetchers : fetch[g].pc # "idle" => fetch[g].dict # store'
        BY <4>1
      <4> QED
        BY <2>1, <4>1, <4>2, <4>3 DEF FetchStart
    <3>2. CASE store # 0
      <4>1. store' = store /\ dicts' = dicts
        BY <2>1, <3>2 DEF FetchStart
      <4>2. fetch' = [fetch EXCEPT ![f] =
              IF dicts[store] # Nothing
              THEN [pc |-> "answered", dict |-> store, answer |-> dicts[store], since |-> done]
              ELSE [pc |-> "asked", dict |-> store, answer |-> Nothing, since |-> done]]
        BY <2>1, <3>2 DEF FetchStart
      <4> QED
        BY <2>1, <3>2, <4>1, <4>2 DEF FetchStart
    <3> QED
      BY <3>1, <3>2
  <2>2. ASSUME NEW f \in Fetchers, FetchRead(f) PROVE InUse'
    <3>1. /\ fetch'[f].pc = "read" /\ fetch'[f].answer = catalog
          /\ fetch'[f].dict = fetch[f].dict /\ fetch'[f].since = fetch[f].since
          /\ \A g \in Fetchers \ {f} : fetch'[g] = fetch[g]
      BY <2>2 DEF FetchRead
    <3>2. UNCHANGED <<catalog, store, dicts, done>> /\ fetch[f].pc = "asked"
      BY <2>2 DEF FetchRead
    <3>3. fetch[f].since <= catalog /\ fetch[f].since <= done
      BY <3>2
    <3>4. ASSUME NEW g \in Fetchers
          PROVE  /\ fetch'[g].pc # "idle" => fetch'[g].since <= done
                 /\ fetch'[g].pc \in {"read", "answered"} =>
                      fetch'[g].since <= fetch'[g].answer
                 /\ fetch'[g].pc \in {"asked", "read"} /\ fetch'[g].dict = store =>
                      fetch'[g].since = done
      <4>1. CASE g = f
        BY <3>1, <3>2, <3>3, <4>1
      <4>2. CASE g # f
        BY <3>1, <4>2
      <4> QED
        BY <4>1, <4>2
    <3> QED
      BY <3>2, <3>4
  <2>3. ASSUME NEW f \in Fetchers, FetchEnd(f) PROVE InUse'
    <3>1. /\ fetch'[f].pc = "answered" /\ fetch'[f].answer = fetch[f].answer
          /\ fetch'[f].since = fetch[f].since
          /\ \A g \in Fetchers \ {f} : fetch'[g] = fetch[g]
      BY <2>3 DEF FetchEnd
    <3>2. store # 0 /\ dicts'[store] # Nothing => done <= dicts'[store]
      BY <2>3 DEF FetchEnd
    <3> QED
      BY <2>3, <3>1, <3>2 DEF FetchEnd
  <2>4. ASSUME NEW f \in Fetchers, FetchNext(f) PROVE InUse'
    <3>1. /\ fetch'[f].pc = "idle"
          /\ \A g \in Fetchers \ {f} : fetch'[g] = fetch[g]
      BY <2>4 DEF FetchNext, Idle
    <3> QED
      BY <2>4, <3>1 DEF FetchNext
  <2>5. CASE ExecuteRun
    BY <2>5 DEF ExecuteRun
  <2>6. CASE ExecuteEnd
    <3>1. store' = 0 /\ done' = catalog /\ fetch' = fetch /\ catalog' = catalog
      BY <2>6 DEF ExecuteEnd, InvalidateCache
    <3>2. \A g \in Fetchers : fetch[g].pc # "idle" => fetch[g].dict # 0
      OBVIOUS
    <3> QED
      BY <3>1, <3>2
  <2>7. CASE Lose
    <3>1. \A g \in Fetchers : fetch'[g].pc = "idle"
      BY <2>7 DEF Lose, Idle
    <3> QED
      BY <2>7, <3>1 DEF Lose
  <2>8. CASE Reconnect
    BY <2>8 DEF Reconnect
  <2>9. CASE \/ ExecuteStart("ddl", "none")
             \/ \E p \in Settings : ExecuteStart("set", p)
             \/ ReplayStatement \/ Replayed \/ ReplayStops
    BY <2>9 DEF ExecuteStart, ReplayStatement, Replayed, ReplayStops
  <2>10. CASE UNCHANGED vars
    BY <2>10 DEF vars
  <2> QED
    BY <2>1, <2>2, <2>3, <2>4, <2>5, <2>6, <2>7, <2>8, <2>9, <2>10 DEF Next
<1>3. InUse => NoStaleMetadata
  BY DEF InUse, NoStaleMetadata
<1> QED
  BY <1>1, <1>2, <1>3, TypesHold, PTL DEF Spec
-----------------------------------------------------------------------------
(* The settings *)

\* One entry for each setting the user made, with the value it has.
Tracked ==
  /\ \A i, j \in 1..Len(tracked) : tracked[i][1] = tracked[j][1] => i = j
  /\ \A i \in 1..Len(tracked) : tracked[i][2] = expected[tracked[i][1]]
  /\ \A p \in Settings :
       (\A i \in 1..Len(tracked) : tracked[i][1] # p) => expected[p] = Default

\* What has been replayed is set, and nothing else.
Replaying ==
  link = "replaying" =>
    /\ skipped = {}
    /\ replayed \in 0..Len(tracked)
    /\ \A p \in Settings :
         session[p] = IF \E i \in 1..replayed : tracked[i][1] = p
                      THEN expected[p] ELSE Default

\* A statement is under way on a link in use only, and a SET that was run is all
\* that the session has and the entries do not; what a replay that was cut off
\* left out the session does not have.
Running ==
  /\ link # "up" => stmt.pc = "none"
  /\ link = "up" =>
       session = IF stmt.pc = "ran" /\ stmt.kind = "set"
                 THEN [Kept EXCEPT ![stmt.setting] = sets] ELSE Kept

SettingsInv == Tracked /\ Replaying /\ Running

\* A SET leaves the entries as they should be for the settings it made.
LEMMA TrackKeeps ==
  ASSUME TypeOK, Tracked, NEW p \in Settings, NEW v \in Nat,
         expected' = [expected EXCEPT ![p] = v], tracked' = Track(tracked, p, v)
  PROVE  Tracked'
<1> USE DEF TypeOK, Tracked
<1>1. \A i \in 1..Len(tracked) : tracked[i][1] \in Settings
  <2>1. \A i \in 1..Len(tracked) : tracked[i] \in Settings \X Nat
    OBVIOUS
  <2> QED
    BY <2>1
<1>2. DOMAIN tracked = 1..Len(tracked)
  OBVIOUS
<1>3. expected'[p] = v /\ \A q \in Settings \ {p} : expected'[q] = expected[q]
  OBVIOUS
<1>4. CASE \E i \in 1..Len(tracked) : tracked[i][1] = p
  <2>1. tracked' = [i \in 1..Len(tracked) |->
                      IF tracked[i][1] = p THEN <<p, v>> ELSE tracked[i]]
    BY <1>2, <1>4 DEF Track
  <2>2. tracked' \in Seq(Settings \X Nat)
    BY TrackTyped
  <2>3. Len(tracked') = Len(tracked)
    <3>1. DOMAIN tracked' = 1..Len(tracked)
      BY <2>1
    <3> QED
      BY <2>2, <3>1
  <2>4. \A i \in 1..Len(tracked) :
          /\ tracked'[i][1] = tracked[i][1]
          /\ tracked'[i][2] = IF tracked[i][1] = p THEN v ELSE tracked[i][2]
    <3> TAKE i \in 1..Len(tracked)
    <3>1. tracked'[i] = IF tracked[i][1] = p THEN <<p, v>> ELSE tracked[i]
      BY <2>1
    <3>2. <<p, v>>[1] = p /\ <<p, v>>[2] = v
      OBVIOUS
    <3> QED
      BY <3>1, <3>2, Zenon
  <2>5. \A i, j \in 1..Len(tracked') : tracked'[i][1] = tracked'[j][1] => i = j
    BY <2>3, <2>4
  <2>6. \A i \in 1..Len(tracked') : tracked'[i][2] = expected'[tracked'[i][1]]
    <3> SUFFICES ASSUME NEW i \in 1..Len(tracked)
                 PROVE  tracked'[i][2] = expected'[tracked'[i][1]]
      BY <2>3
    <3>1. CASE tracked[i][1] = p
      BY <1>3, <2>4, <3>1
    <3>2. CASE tracked[i][1] # p
      <4>1. tracked'[i][1] = tracked[i][1] /\ tracked'[i][2] = tracked[i][2]
        BY <2>4, <3>2
      <4>2. expected'[tracked[i][1]] = expected[tracked[i][1]]
        BY <1>1, <1>3, <3>2, Zenon
      <4>3. tracked[i][2] = expected[tracked[i][1]]
        BY Zenon DEF Tracked
      <4> QED
        BY <4>1, <4>2, <4>3, Zenon
    <3> QED
      BY <3>1, <3>2
  <2>7. ASSUME NEW q \in Settings, \A i \in 1..Len(tracked') : tracked'[i][1] # q
        PROVE  expected'[q] = Default
    <3>1. \A i \in 1..Len(tracked) : tracked[i][1] # q
      BY <2>3, <2>4, <2>7
    <3>2. q # p
      BY <1>4, <3>1
    <3> QED
      BY <1>3, <3>1, <3>2
  <2> QED
    BY <2>5, <2>6, <2>7
<1>5. CASE ~ \E i \in 1..Len(tracked) : tracked[i][1] = p
  <2>1. tracked' = Append(tracked, <<p, v>>)
    BY <1>2, <1>5 DEF Track
  <2>2. Len(tracked') = Len(tracked) + 1
    BY <2>1
  <2>3. tracked'[Len(tracked) + 1][1] = p /\ tracked'[Len(tracked) + 1][2] = v
    BY <2>1
  <2>4. \A i \in 1..Len(tracked) : tracked'[i] = tracked[i]
    BY <2>1
  <2>5. \A i \in 1..Len(tracked') : i \in 1..Len(tracked) \/ i = Len(tracked) + 1
    BY <2>2
  <2>6. \A i \in 1..Len(tracked) : tracked'[i][1] # p
    BY <1>5, <2>4
  <2>7. \A i \in 1..Len(tracked') : tracked'[i][2] = expected'[tracked'[i][1]]
    <3> SUFFICES ASSUME NEW i \in 1..Len(tracked')
                 PROVE  tracked'[i][2] = expected'[tracked'[i][1]]
      OBVIOUS
    <3>1. CASE i \in 1..Len(tracked)
      <4>1. tracked'[i] = tracked[i] /\ tracked[i][1] \in Settings \ {p}
        BY <1>1, <1>5, <2>4, <3>1
      <4>2. expected'[tracked[i][1]] = expected[tracked[i][1]]
        BY <1>3, <4>1, Zenon
      <4>3. tracked[i][2] = expected[tracked[i][1]]
        BY <3>1, Zenon DEF Tracked
      <4> QED
        BY <4>1, <4>2, <4>3, Zenon
    <3>2. CASE i = Len(tracked) + 1
      BY <1>3, <2>3, <3>2
    <3> QED
      BY <2>5, <3>1, <3>2
  <2>8. \A i, j \in 1..Len(tracked') : tracked'[i][1] = tracked'[j][1] => i = j
    <3> SUFFICES ASSUME NEW i \in 1..Len(tracked'), NEW j \in 1..Len(tracked'),
                        tracked'[i][1] = tracked'[j][1]
                 PROVE  i = j
      OBVIOUS
    <3>1. CASE i \in 1..Len(tracked) /\ j \in 1..Len(tracked)
      <4>1. tracked'[i] = tracked[i] /\ tracked'[j] = tracked[j]
        BY <2>4, <3>1, Zenon
      <4>2. tracked[i][1] = tracked[j][1]
        BY <4>1, Zenon
      <4> QED
        BY <3>1, <4>2, Zenon DEF Tracked
    <3>2. CASE i = Len(tracked) + 1 /\ j = Len(tracked) + 1
      BY <3>2
    <3>3. CASE i = Len(tracked) + 1 /\ j \in 1..Len(tracked)
      BY <2>3, <2>6, <3>3
    <3>4. CASE i \in 1..Len(tracked) /\ j = Len(tracked) + 1
      BY <2>3, <2>6, <3>4
    <3> QED
      BY <2>5, <3>1, <3>2, <3>3, <3>4
  <2>9. ASSUME NEW q \in Settings, \A i \in 1..Len(tracked') : tracked'[i][1] # q
        PROVE  expected'[q] = Default
    <3>1. Len(tracked) + 1 \in 1..Len(tracked') /\ 1..Len(tracked) \subseteq 1..Len(tracked')
      BY <2>2
    <3>2. q # p
      BY <2>3, <2>9, <3>1
    <3>3. \A i \in 1..Len(tracked) : tracked[i][1] # q
      BY <2>4, <2>9, <3>1
    <3> QED
      BY <1>3, <3>2, <3>3
  <2> QED
    BY <2>7, <2>8, <2>9
<1> QED
  BY <1>4, <1>5

\* A link that is opened again comes into use with the settings of the one that
\* was lost, less those a replay that failed or was cancelled did not reach: what
\* is replayed is one entry for each setting the user made.
THEOREM SettingsAlwaysSurvive == Spec => []SettingsSurvive
<1>1. Init => SettingsInv
  BY DEF Init, SettingsInv, Tracked, Replaying, Running, Kept, NoStatement
<1>2. TypeOK /\ SettingsInv /\ [Next]_vars => SettingsInv'
  <2> SUFFICES ASSUME TypeOK, SettingsInv, [Next]_vars PROVE SettingsInv'
    OBVIOUS
  <2> USE DEF SettingsInv
  <2>1. CASE \/ \E f \in Fetchers : FetchStart(f) \/ FetchRead(f) \/ FetchEnd(f) \/ FetchNext(f)
             \/ UNCHANGED vars
    <3>1. UNCHANGED <<stmt, link, session, tracked, replayed, skipped, expected, sets>>
      BY <2>1 DEF FetchStart, FetchRead, FetchEnd, FetchNext, sessionVars, vars
    <3> QED
      BY <3>1 DEF Tracked, Replaying, Running, Kept
  <2>2. CASE \/ ExecuteStart("ddl", "none")
             \/ \E p \in Settings : ExecuteStart("set", p)
    <3>1. /\ UNCHANGED <<link, session, tracked, replayed, skipped, expected>>
          /\ link = "up" /\ stmt.pc = "none" /\ stmt'.pc = "sent"
      BY <2>2 DEF ExecuteStart, NoStatement
    <3> QED
      BY <3>1 DEF Tracked, Replaying, Running, Kept
  <2>3. CASE ExecuteRun
    <3>1. /\ UNCHANGED <<link, tracked, replayed, skipped, expected, sets>>
          /\ link = "up" /\ stmt.pc = "sent" /\ stmt'.pc = "ran"
          /\ stmt'.kind = stmt.kind /\ stmt'.setting = stmt.setting
      BY <2>3 DEF ExecuteRun, TypeOK
    <3>2. session' = IF stmt.kind = "set"
                     THEN [session EXCEPT ![stmt.setting] = sets] ELSE session
      BY <2>3 DEF ExecuteRun
    <3>3. session = Kept /\ Kept' = Kept
      BY <3>1 DEF Running, Kept
    <3>4. Tracked' /\ Replaying'
      BY <3>1 DEF Tracked, Replaying
    <3>5. Running'
      BY <3>1, <3>2, <3>3 DEF Running
    <3> QED
      BY <3>4, <3>5
  <2>4. CASE ExecuteEnd
    <3>1. /\ UNCHANGED <<link, session, replayed, sets>>
          /\ stmt.pc = "ran" /\ stmt'.pc = "none"
      BY <2>4 DEF ExecuteEnd, NoStatement
    <3>2. link = "up"
      BY <3>1 DEF Running
    <3>3. CASE stmt.kind = "set"
      <4>1. /\ expected' = [expected EXCEPT ![stmt.setting] = sets]
            /\ tracked' = Track(tracked, stmt.setting, sets)
        BY <2>4, <3>3 DEF ExecuteEnd
      <4>2. Tracked'
        BY <3>3, <4>1, TrackKeeps DEF TypeOK
      <4>4. /\ skipped' = skipped \ {stmt.setting} /\ stmt.setting \in Settings
            /\ session = [Kept EXCEPT ![stmt.setting] = sets]
        BY <2>4, <3>1, <3>2, <3>3 DEF ExecuteEnd, Running, TypeOK
      <4>5. ASSUME NEW q \in Settings
            PROVE  session[q] = IF q \in skipped' THEN Default ELSE expected'[q]
        BY <4>1, <4>4 DEF Kept, TypeOK
      <4>6. session \in [Settings -> Nat]
        BY DEF TypeOK
      <4>3. session' = Kept'
        BY <3>1, <4>5, <4>6, Zenon DEF Kept
      <4> QED
        BY <3>1, <3>2, <4>2, <4>3 DEF Replaying, Running
    <3>4. CASE stmt.kind # "set"
      <4>1. UNCHANGED <<expected, tracked, skipped>>
        BY <2>4, <3>4 DEF ExecuteEnd
      <4> QED
        BY <3>1, <3>2, <3>4, <4>1 DEF Tracked, Replaying, Running, Kept
    <3> QED
      BY <3>3, <3>4
  <2>5. CASE Lose
    BY <2>5 DEF Lose, sessionVars, NoStatement, Tracked, Replaying, Running
  <2>6. CASE Reconnect
    <3>1. /\ UNCHANGED <<tracked, expected, sets, stmt>>
          /\ link = "lost" /\ link' = "replaying" /\ replayed' = 0 /\ skipped' = {}
          /\ \A p \in Settings : session'[p] = Default
      BY <2>6 DEF Reconnect
    <3>2. Len(tracked) \in Nat
      BY DEF TypeOK
    <3> QED
      BY <3>1, <3>2 DEF Tracked, Replaying, Running
  <2>7. CASE ReplayStatement
    <3> DEFINE r == replayed + 1
    <3>1. /\ UNCHANGED <<tracked, expected, sets, stmt, link, skipped>>
          /\ link = "replaying" /\ replayed' = r /\ replayed < Len(tracked)
          /\ session' = [session EXCEPT ![tracked[r][1]] = tracked[r][2]]
      BY <2>7 DEF ReplayStatement
    <3>8. Tracked'
      BY <3>1 DEF Tracked
    <3>9. stmt.pc = "none" /\ link' # "up"
      BY <3>1 DEF Running
    <3>2. Tracked' /\ Running'
      BY <3>1, <3>8, <3>9 DEF Running
    <3>10. replayed \in 0..Len(tracked) /\ skipped = {}
      BY <3>1 DEF Replaying
    <3>3. replayed \in 0..Len(tracked) /\ r \in 1..Len(tracked)
      BY <3>1, <3>10
    <3>4. 1..r = (1..replayed) \union {r}
      BY <3>3
    <3>5. tracked[r][1] \in Settings /\ tracked[r][2] = expected[tracked[r][1]]
      <4>1. tracked[r] \in Settings \X Nat
        BY <3>3 DEF TypeOK
      <4> QED
        BY <3>3, <4>1 DEF Tracked
    <3> HIDE DEF r
    <3>6. ASSUME NEW p \in Settings
          PROVE  session'[p] = IF \E i \in 1..r : tracked[i][1] = p
                               THEN expected[p] ELSE Default
      <4>1. CASE p = tracked[r][1]
        BY <3>1, <3>4, <3>5, <4>1 DEF TypeOK
      <4>2. CASE p # tracked[r][1]
        <5>1. session'[p] = session[p]
          BY <3>1, <4>2 DEF TypeOK
        <5>2. (\E i \in 1..r : tracked[i][1] = p) <=> (\E i \in 1..replayed : tracked[i][1] = p)
          BY <3>4, <4>2
        <5> QED
          BY <3>1, <5>1, <5>2 DEF Replaying
      <4> QED
        BY <4>1, <4>2
    <3>7. Replaying'
      <4>1. r \in 0..Len(tracked)
        BY <3>3
      <4> QED
        BY <3>1, <3>6, <3>10, <4>1 DEF Replaying
    <3> QED
      BY <3>2, <3>7
  <2>8. CASE Replayed
    <3>1. /\ UNCHANGED <<tracked, expected, sets, stmt, session, replayed, skipped>>
          /\ link = "replaying" /\ link' = "up" /\ replayed = Len(tracked)
      BY <2>8 DEF Replayed, sessionVars
    <3>2. ASSUME NEW p \in Settings PROVE session[p] = expected[p]
      <4>1. CASE \E i \in 1..Len(tracked) : tracked[i][1] = p
        BY <3>1, <4>1 DEF Replaying
      <4>2. CASE \A i \in 1..Len(tracked) : tracked[i][1] # p
        BY <3>1, <4>2 DEF Replaying, Tracked
      <4> QED
        BY <4>1, <4>2
    <3>3. skipped = {} /\ Kept' = Kept
      BY <3>1 DEF Replaying, Kept
    <3>4. session = Kept
      BY <3>2, <3>3 DEF TypeOK, Kept
    <3> QED
      BY <3>1, <3>3, <3>4 DEF Tracked, Replaying, Running
  <2>9. CASE ReplayStops
    <3>1. /\ UNCHANGED <<tracked, expected, sets, stmt, session, replayed>>
          /\ link = "replaying" /\ link' = "up"
          /\ skipped' = {tracked[i][1] : i \in (replayed + 1)..Len(tracked)}
          /\ replayed \in 0..Len(tracked)
      BY <2>9 DEF ReplayStops, Replaying
    <3>2. ASSUME NEW p \in Settings
          PROVE  session[p] = IF p \in skipped' THEN Default ELSE expected[p]
      <4>1. CASE p \in skipped'
        <5>1. PICK j \in (replayed + 1)..Len(tracked) : tracked[j][1] = p
          BY <3>1, <4>1
        <5>3. j \in 1..Len(tracked) /\ \A i \in 1..replayed : i # j /\ i \in 1..Len(tracked)
          BY <3>1 DEF TypeOK
        <5>2. \A i \in 1..replayed : tracked[i][1] # p
          BY <5>1, <5>3 DEF Tracked
        <5> QED
          BY <3>1, <4>1, <5>2 DEF Replaying
      <4>2. CASE p \notin skipped'
        <5>1. \A i \in (replayed + 1)..Len(tracked) : tracked[i][1] # p
          BY <3>1, <4>2
        <5>2. CASE \E i \in 1..replayed : tracked[i][1] = p
          BY <3>1, <4>2, <5>2 DEF Replaying
        <5>3. CASE \A i \in 1..replayed : tracked[i][1] # p
          <6>1. \A i \in 1..Len(tracked) :
                  i \in 1..replayed \/ i \in (replayed + 1)..Len(tracked)
            BY <3>1 DEF TypeOK
          <6>2. expected[p] = Default
            BY <5>1, <5>3, <6>1 DEF Tracked
          <6> QED
            BY <3>1, <4>2, <5>3, <6>2 DEF Replaying
        <5> QED
          BY <5>2, <5>3
      <4> QED
        BY <4>1, <4>2
    <3>3. session' = Kept'
      BY <3>1, <3>2 DEF TypeOK, Kept
    <3> QED
      BY <3>1, <3>3 DEF Tracked, Replaying, Running
  <2> QED
    BY <2>1, <2>2, <2>3, <2>4, <2>5, <2>6, <2>7, <2>8, <2>9 DEF Next
<1>3. SettingsInv => SettingsSurvive
  BY DEF SettingsInv, Running, SettingsSurvive
<1> QED
  BY <1>1, <1>2, <1>3, TypesHold, PTL DEF Spec
=============================================================================
