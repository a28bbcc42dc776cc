-------------------------- MODULE PostgresSession ---------------------------
(***************************************************************************)
(* What grannos/drivers/postgres keeps for a connection beside the link:   *)
(* the answers of its metadata queries, cached until a statement that      *)
(* returns no rows, and the SET statements to run again on a new link.     *)
(* Requests of one connection run at once when the server is told so.      *)
(* The catalog is a version number; a metadata query answers the version   *)
(* it read.                                                                *)
(***************************************************************************)
EXTENDS Naturals, SequencesExt

CONSTANTS Fetchers,    \* the requests that query metadata
          Settings,    \* the parameters a SET may name
          MaxVersion,  \* how often statements change the catalog
          MaxSets,     \* how often they set a parameter
          MaxLosses    \* how often the link is lost

Nothing == 0
Default == 0

VARIABLES catalog,   \* the server's version
          store,     \* the dictionary the cache has for the connection
          dicts,     \* what each dictionary holds, the dropped ones too
          fetch,     \* fetcher -> [pc, dict, answer, since]
          stmt,      \* the statement under way: [pc, kind, setting]
          done,      \* the version the last finished statement left
          link,      \* up, lost or replaying
          session,   \* the settings of the server's session
          tracked,   \* _session_statements: <<setting, value>> in their order
          replayed,  \* how many of them have been run again
          skipped,   \* the settings a replay that was cut off left out, for the properties
          expected,  \* the settings the user's statements made
          sets, losses

vars == <<catalog, store, dicts, fetch, stmt, done, link, session, tracked,
          replayed, skipped, expected, sets, losses>>
cacheVars == <<store, dicts, done>>
sessionVars == <<session, tracked, replayed, skipped, expected, sets>>

NoStatement == [pc |-> "none", kind |-> "ddl", setting |-> "none"]
Idle == [pc |-> "idle", dict |-> 0, answer |-> Nothing, since |-> Nothing]

Init ==
  /\ catalog = 1 /\ done = 1 /\ store = 0 /\ dicts = <<>>
  /\ fetch = [f \in Fetchers |-> Idle]
  /\ stmt = NoStatement
  /\ link = "up"
  /\ session = [p \in Settings |-> Default] /\ expected = session
  /\ tracked = <<>> /\ replayed = 0 /\ skipped = {}
  /\ sets = 0 /\ losses = 0
-----------------------------------------------------------------------------
\* The link is assigned before the replay, so queries run on it meanwhile.
Held == link \in {"up", "replaying"}

\* _conn_cache: the dictionary of the connection, made when there is none; a
\* cached answer, or the query.
FetchStart(f) ==
  LET d  == IF store = 0 THEN Len(dicts) + 1 ELSE store
      ds == IF store = 0 THEN Append(dicts, Nothing) ELSE dicts
  IN  /\ Held /\ fetch[f].pc = "idle"
      /\ store' = d /\ dicts' = ds
      /\ fetch' = [fetch EXCEPT ![f] =
           IF ds[d] # Nothing
           THEN [pc |-> "answered", dict |-> d, answer |-> ds[d], since |-> done]
           ELSE [pc |-> "asked", dict |-> d, answer |-> Nothing, since |-> done]]
      /\ UNCHANGED <<catalog, stmt, done, link, losses, sessionVars>>

\* The server runs the query.
FetchRead(f) ==
  /\ Held /\ fetch[f].pc = "asked"
  /\ fetch' = [fetch EXCEPT ![f].pc = "read", ![f].answer = catalog]
  /\ UNCHANGED <<catalog, cacheVars, stmt, link, losses, sessionVars>>

\* Its answer goes to the dictionary found at the start, and to the caller
\* from there.
FetchEnd(f) ==
  /\ fetch[f].pc = "read"
  /\ dicts' = [dicts EXCEPT ![fetch[f].dict] = fetch[f].answer]
  /\ fetch' = [fetch EXCEPT ![f].pc = "answered"]
  /\ UNCHANGED <<catalog, store, stmt, done, link, losses, sessionVars>>

FetchNext(f) ==
  /\ fetch[f].pc = "answered"
  /\ fetch' = [fetch EXCEPT ![f] = Idle]
  /\ UNCHANGED <<catalog, cacheVars, stmt, link, losses, sessionVars>>
-----------------------------------------------------------------------------
\* A statement on its way: one that changes the catalog, or a SET.
ExecuteStart(kind, p) ==
  /\ link = "up" /\ stmt = NoStatement
  /\ IF kind = "set" THEN sets < MaxSets ELSE catalog < MaxVersion
  /\ stmt' = [pc |-> "sent", kind |-> kind, setting |-> p]
  /\ sets' = IF kind = "set" THEN sets + 1 ELSE sets
  /\ UNCHANGED <<catalog, cacheVars, fetch, link, losses, session, tracked,
                 replayed, skipped, expected>>

\* The server runs it.
ExecuteRun ==
  /\ link = "up" /\ stmt.pc = "sent"
  /\ stmt' = [stmt EXCEPT !.pc = "ran"]
  /\ IF stmt.kind = "set"
     THEN session' = [session EXCEPT ![stmt.setting] = sets] /\ UNCHANGED catalog
     ELSE catalog' = catalog + 1 /\ UNCHANGED session
  /\ UNCHANGED <<cacheVars, fetch, link, losses, tracked, replayed, skipped,
                 expected, sets>>

\* The entry of a SET: a later one takes the place of an earlier one, in the
\* dictionary's order.  The mutant keeps the earlier.
TrackFirst(entries, p, v) ==
  IF \E i \in DOMAIN entries : entries[i][1] = p
  THEN entries ELSE Append(entries, <<p, v>>)
Track(entries, p, v) ==
  IF \E i \in DOMAIN entries : entries[i][1] = p
  THEN [i \in DOMAIN entries |-> IF entries[i][1] = p THEN <<p, v>> ELSE entries[i]]
  ELSE Append(entries, <<p, v>>)

\* invalidate_cache.  The mutant forgets the answer but keeps the dictionary,
\* for the queries under way to fill.
InvalidateCacheInPlace ==
  /\ dicts' = IF store = 0 THEN dicts ELSE [dicts EXCEPT ![store] = Nothing]
  /\ UNCHANGED store
InvalidateCache == store' = 0 /\ UNCHANGED dicts

ExecuteEnd ==
  /\ stmt.pc = "ran"
  /\ stmt' = NoStatement
  /\ IF stmt.kind = "set"
     THEN /\ tracked' = Track(tracked, stmt.setting, sets)
          /\ expected' = [expected EXCEPT ![stmt.setting] = sets]
          /\ skipped' = skipped \ {stmt.setting}
     ELSE UNCHANGED <<tracked, expected, skipped>>
  /\ InvalidateCache
  /\ done' = catalog
  /\ UNCHANGED <<catalog, fetch, link, losses, session, replayed, sets>>
-----------------------------------------------------------------------------
\* The link is lost with what runs on it; reconnect opens another, assigns it
\* and runs the tracked statements on it, one after another.
Lose ==
  /\ Held /\ losses < MaxLosses
  /\ link' = "lost" /\ losses' = losses + 1
  /\ fetch' = [f \in Fetchers |-> Idle]
  /\ stmt' = NoStatement
  /\ UNCHANGED <<catalog, cacheVars, sessionVars>>

Reconnect ==
  /\ link = "lost"
  /\ link' = "replaying" /\ replayed' = 0 /\ skipped' = {}
  /\ session' = [p \in Settings |-> Default]
  /\ store' = 0
  /\ UNCHANGED <<catalog, dicts, fetch, stmt, done, losses, tracked, expected, sets>>

ReplayStatement ==
  /\ link = "replaying" /\ replayed < Len(tracked)
  /\ session' = [session EXCEPT ![tracked[replayed + 1][1]] = tracked[replayed + 1][2]]
  /\ replayed' = replayed + 1
  /\ UNCHANGED <<catalog, cacheVars, fetch, stmt, link, losses, tracked, skipped,
                 expected, sets>>

Replayed ==
  /\ link = "replaying" /\ replayed = Len(tracked)
  /\ link' = "up"
  /\ UNCHANGED <<catalog, cacheVars, fetch, stmt, losses, sessionVars>>

\* A statement the server refuses raises, and a cancel ends the replay before
\* the next: the link stays in use without the settings that are left.
ReplayStops ==
  /\ link = "replaying" /\ replayed < Len(tracked)
  /\ link' = "up"
  /\ skipped' = {tracked[i][1] : i \in (replayed + 1)..Len(tracked)}
  /\ UNCHANGED <<catalog, cacheVars, fetch, stmt, losses, session, tracked, replayed,
                 expected, sets>>

Next ==
  \/ \E f \in Fetchers : FetchStart(f) \/ FetchRead(f) \/ FetchEnd(f) \/ FetchNext(f)
  \/ ExecuteStart("ddl", "none")
  \/ \E p \in Settings : ExecuteStart("set", p)
  \/ ExecuteRun \/ ExecuteEnd
  \/ Lose \/ Reconnect \/ ReplayStatement \/ Replayed \/ ReplayStops
Spec == Init /\ [][Next]_vars
-----------------------------------------------------------------------------
\* A metadata query that starts once a statement is finished answers what the
\* statement left, however the two and older queries overlap.
NoStaleMetadata ==
  \A f \in Fetchers : fetch[f].pc = "answered" => fetch[f].answer >= fetch[f].since

\* The settings made by the user, less those a replay was cut off before.
Kept == [p \in Settings |-> IF p \in skipped THEN Default ELSE expected[p]]

\* Between statements, a link in use has every setting as the last finished SET
\* of it left it, also once the link was lost and opened again; only those whose
\* turn had not come when a replay failed or was cancelled have the server's own
\* value, until they are set again or the next link's replay reaches them.
SettingsSurvive == link = "up" /\ stmt.pc # "ran" => session = Kept
=============================================================================
