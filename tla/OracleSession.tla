--------------------------- MODULE OracleSession ----------------------------
(***************************************************************************)
(* An Oracle session under grannos/drivers/oracle: statements that set its *)
(* formats or print to DBMS_OUTPUT, LOAD, which sets formats of its own    *)
(* while it sends a file's rows in batches, and reconnecting.  Requests of *)
(* the connection run one at a time.  A format is the number of the        *)
(* statement that set it, Default, one of a load's, or Invalid, which      *)
(* Oracle refuses; of a file's rows a "short" one has too few fields and a *)
(* "bad" one is refused by Oracle.                                         *)
(***************************************************************************)
EXTENDS Integers, SequencesExt, FiniteSets

CONSTANTS Files,      \* the files there are to load
          Batch,      \* rows per round trip
          Chunk,      \* DBMS_OUTPUT_CHUNK
          MaxLines,   \* MAX_DBMS_OUTPUT_LINES
          MaxPrinted, \* lines a statement may print
          MaxRequests \* requests of the session

Parameters == <<"DATE", "TIMESTAMP", "TIMESTAMP_TZ">>  \* NLS_FORMAT_PARAMETERS
Default == 0
Unset == -1           \* a format the LOAD does not name
Invalid == -2
LoadDate == -3        \* its DATEFORMAT and its TIMESTAMPFORMAT
LoadTimestamp == -4

VARIABLES pc,         \* idle, apply, rows, restore, messages, loadMessages, lost or
                      \* replay
          formats,    \* the formats of the server's session
          expected,   \* those the user's statements made
          tracked,    \* _session_statements: parameter -> format, when set
          skipped,    \* the tracked ones that were not run on this link
          unsure,     \* those a statement or a load may have left otherwise than
                      \* the client was told
          wanted,     \* the formats the load sets: parameter -> format or Unset
          previous,   \* what it puts back
          step,       \* the parameter being set or put back
          file,       \* the rows of the load
          sent,       \* how many of its rows were handled
          table,      \* the rows Oracle took
          outcome,    \* of the last load: loaded, rejected, short or other
          line,       \* the line it named
          printed,    \* lines in the session's DBMS_OUTPUT buffer
          collected,  \* those fetched so far, and how many there were to fetch:
                      \* [ok, lines, truncated, of]
          messages,   \* what the last request answered of them
          requests

vars == <<pc, formats, expected, tracked, skipped, unsure, wanted, previous, step,
          file, sent, table, outcome, line, printed, collected, messages, requests>>
trackedVars == <<expected, tracked, skipped>>
formatVars == <<formats, trackedVars, unsure>>
rowVars == <<file, sent, table, outcome, line>>
loadVars == <<wanted, previous, step, rowVars>>
outputVars == <<printed, collected, messages>>

Fresh == [i \in DOMAIN Parameters |-> Default]
NotSet == [i \in DOMAIN Parameters |-> Unset]

Failed == [ok |-> FALSE, lines |-> 0, truncated |-> FALSE, of |-> 0]
Collecting(n) == [ok |-> TRUE, lines |-> 0, truncated |-> FALSE, of |-> n]

Init ==
  /\ pc = "idle" /\ formats = Fresh /\ expected = Fresh /\ tracked = NotSet
  /\ skipped = {} /\ unsure = {}
  /\ wanted = NotSet /\ previous = NotSet /\ step = 1
  /\ file = <<>> /\ sent = 0 /\ table = <<>> /\ outcome = "loaded" /\ line = 0
  /\ printed = 0 /\ collected = Failed /\ messages = Failed /\ requests = 0
-----------------------------------------------------------------------------
\* _collect_messages of a request that succeeded fetches its lines next.
CollectMessages(n) ==
  printed' = n /\ collected' = Collecting(n) /\ messages' = Failed

\* A statement that prints k lines; one that succeeds answers what the buffer
\* then holds, one that fails or is cancelled leaves it.
ExecuteBlock(k, ok) ==
  /\ pc = "idle" /\ requests < MaxRequests
  /\ requests' = requests + 1
  /\ IF ok THEN CollectMessages(printed + k) /\ pc' = "messages"
     ELSE printed' = printed + k /\ messages' = Failed /\ UNCHANGED <<pc, collected>>
  /\ UNCHANGED <<formatVars, loadVars>>

\* ALTER SESSION SET of a format; one that is cancelled may have been run.
ExecuteAlterSession(i) ==
  /\ pc = "idle" /\ requests < MaxRequests
  /\ requests' = requests + 1
  /\ formats' = [formats EXCEPT ![i] = requests + 1]
  /\ expected' = [expected EXCEPT ![i] = requests + 1]
  /\ tracked' = [tracked EXCEPT ![i] = requests + 1]
  /\ skipped' = skipped \ {i} /\ unsure' = unsure \ {i}
  /\ CollectMessages(printed) /\ pc' = "messages"
  /\ UNCHANGED loadVars
CancelAlterSession(i) ==
  /\ pc = "idle" /\ requests < MaxRequests
  /\ requests' = requests + 1
  /\ formats' = [formats EXCEPT ![i] = requests + 1]
  /\ unsure' = unsure \cup {i} /\ messages' = Failed
  /\ UNCHANGED <<pc, trackedVars, loadVars, printed, collected>>
-----------------------------------------------------------------------------
\* _execute_load: DATEFORMAT covers the timestamps unless TIMESTAMPFORMAT does.
ExecuteLoad(f, date, timestamp) ==
  LET ts == IF timestamp # Unset THEN timestamp ELSE date
  IN  /\ pc = "idle" /\ requests < MaxRequests
      /\ requests' = requests + 1
      /\ file' = f /\ sent' = 0 /\ table' = <<>> /\ line' = 0 /\ outcome' = "other"
      /\ wanted' = <<date, ts, ts>>
      /\ previous' = IF date = Unset /\ ts = Unset THEN NotSet
                     ELSE [i \in DOMAIN Parameters |->
                             IF wanted'[i] = Unset THEN Unset ELSE formats[i]]
      /\ step' = 1
      /\ pc' = IF previous' = NotSet THEN "rows" ELSE "apply"
      /\ messages' = Failed
      /\ UNCHANGED <<formatVars, printed, collected>>

\* _apply_load_formats, a parameter at a time.  It is called before the try
\* whose finally puts the formats back.
ApplyFormat ==
  /\ pc = "apply" /\ step <= Len(Parameters) /\ wanted[step] # Invalid
  /\ formats' = IF wanted[step] = Unset THEN formats
                ELSE [formats EXCEPT ![step] = wanted[step]]
  /\ step' = step + 1
  /\ UNCHANGED <<pc, trackedVars, unsure, wanted, previous, rowVars, outputVars, requests>>
FormatsApplied ==
  /\ pc = "apply" /\ step > Len(Parameters)
  /\ pc' = "rows"
  /\ UNCHANGED <<formatVars, loadVars, outputVars, requests>>

\* A load that ends while it sets formats leaves those it has set.
EndApply ==
  /\ pc' = "idle"
  /\ unsure' = unsure \cup {i \in DOMAIN Parameters : i < step /\ wanted[i] # Unset}
  /\ UNCHANGED <<formats, trackedVars, loadVars, outputVars, requests>>
ApplyFails ==
  pc = "apply" /\ step <= Len(Parameters) /\ wanted[step] = Invalid /\ EndApply

\* The next batch: the rows up to its size, to a short one or to the end.
NextRows ==
  LET shorts == {i \in (sent + 1)..Len(file) : file[i] = "short"}
      upTo   == IF sent + Batch < Len(file) THEN sent + Batch ELSE Len(file)
  IN  [full  |-> \A i \in shorts : i > upTo,
       upTo  |-> upTo,
       short |-> IF shorts = {} THEN 0 ELSE CHOOSE i \in shorts : \A j \in shorts : i <= j]

\* How a load's rows end, whichever way: the finally puts the formats back.
\* The mutant does so only for a load that succeeded.
EndRowsOnSuccess(result, l) ==
  /\ outcome' = result /\ line' = l
  /\ IF result = "loaded" THEN pc' = "restore" /\ step' = 1
     ELSE pc' = "idle" /\ UNCHANGED step
EndRows(result, l) ==
  outcome' = result /\ line' = l /\ pc' = "restore" /\ step' = 1

\* The line named for a rejected batch: after a failed array DML rowcount is
\* how many of its rows went in.  The mutant names the batch's first row.
RejectedLineOfBatch(rowcount) == sent + 1
RejectedLine(rowcount) ==
  LET size == NextRows.upTo - sent
  IN  sent + 1 + (IF rowcount < size - 1 THEN rowcount ELSE size - 1)

LoadBatch ==
  LET rows  == SubSeq(file, sent + 1, NextRows.upTo)
      bads  == {i \in DOMAIN rows : rows[i] = "bad"}
      taken == IF bads = {} THEN Len(rows) ELSE (CHOOSE i \in bads : \A j \in bads : i <= j) - 1
  IN  /\ pc = "rows" /\ sent < Len(file) /\ NextRows.full
      /\ table' = table \o SubSeq(rows, 1, taken)
      /\ IF taken < Len(rows)
         THEN EndRows("rejected", RejectedLine(taken)) /\ UNCHANGED sent
         ELSE sent' = NextRows.upTo /\ UNCHANGED <<pc, step, outcome, line>>
      /\ UNCHANGED <<formatVars, wanted, previous, file, outputVars, requests>>
ShortRow ==
  /\ pc = "rows" /\ sent < Len(file) /\ ~NextRows.full
  /\ EndRows("short", NextRows.short)
  /\ UNCHANGED <<formatVars, wanted, previous, file, sent, table, outputVars, requests>>
Loaded ==
  /\ pc = "rows" /\ sent = Len(file)
  /\ CollectMessages(printed) /\ pc' = "loadMessages"
  /\ UNCHANGED <<formatVars, loadVars, requests>>

\* _restore_load_formats, a parameter at a time: an error in one is logged and
\* the next is tried.
RestoreFormat ==
  /\ pc = "restore" /\ step <= Len(Parameters)
  /\ formats' = IF previous[step] = Unset THEN formats
                ELSE [formats EXCEPT ![step] = previous[step]]
  /\ step' = step + 1
  /\ UNCHANGED <<pc, trackedVars, unsure, wanted, previous, rowVars, outputVars, requests>>
RestoreFails ==
  /\ pc = "restore" /\ step <= Len(Parameters) /\ previous[step] # Unset
  /\ unsure' = unsure \cup {step} /\ step' = step + 1
  /\ UNCHANGED <<pc, formats, trackedVars, wanted, previous, rowVars, outputVars, requests>>
Restored ==
  /\ pc = "restore" /\ step > Len(Parameters)
  /\ pc' = "idle"
  /\ UNCHANGED <<formatVars, loadVars, outputVars, requests>>
-----------------------------------------------------------------------------
\* A statement is over, or a load goes on to its finally.
EndMessages ==
  \/ pc = "messages" /\ pc' = "idle" /\ UNCHANGED <<step, outcome, line>>
  \/ pc = "loadMessages" /\ EndRows("loaded", 0)

\* fetch_dbms_output, a chunk at a time until one is not full: the lines past
\* the cap are taken too, and counted as truncated.
GetLines ==
  LET count == IF printed < Chunk THEN printed ELSE Chunk
      room  == IF collected.lines < MaxLines THEN MaxLines - collected.lines ELSE 0
      taken == IF count < room THEN count ELSE room
  IN  /\ pc \in {"messages", "loadMessages"}
      /\ printed' = printed - count
      /\ collected' = [collected EXCEPT !.lines = @ + taken, !.truncated = @ \/ count > room]
      /\ IF count < Chunk THEN messages' = collected' /\ EndMessages
         ELSE UNCHANGED <<pc, step, outcome, line, messages>>
      /\ UNCHANGED <<formatVars, wanted, previous, file, sent, table, requests>>

\* A fetch that fails is logged: the request succeeds without its messages.  A
\* cancel there ends a statement alike.
MessagesFail ==
  /\ EndMessages
  /\ UNCHANGED <<formatVars, wanted, previous, file, sent, table, outputVars, requests>>

\* A cancel ends what is awaited.
CancelLoad ==
  \/ /\ pc \in {"rows", "loadMessages"}
     /\ EndRows("other", 0)
     /\ UNCHANGED <<formatVars, wanted, previous, file, sent, table, outputVars, requests>>
  \/ pc = "apply" /\ EndApply
  \/ /\ pc = "restore" /\ pc' = "idle"
     /\ unsure' = unsure \cup {i \in DOMAIN Parameters : i >= step /\ previous[i] # Unset}
     /\ UNCHANGED <<formats, trackedVars, loadVars, outputVars, requests>>

\* The link is lost, with the session.
Lose ==
  /\ pc # "lost" /\ requests < MaxRequests
  /\ pc' = "lost" /\ requests' = requests + 1
  /\ formats' = Fresh /\ printed' = 0
  /\ outcome' = "other" /\ line' = 0
  /\ UNCHANGED <<trackedVars, unsure, wanted, previous, step, file, sent, table,
                 collected, messages>>

\* reconnect: the new link is assigned, then the tracked statements are run on
\* it one after another, in an order left open.  One that fails, or a cancel,
\* ends the reconnect with the link in use.
Reconnect ==
  /\ pc = "lost"
  /\ pc' = "replay"
  /\ skipped' = {i \in DOMAIN Parameters : tracked[i] # Unset} /\ unsure' = {}
  /\ UNCHANGED <<formats, expected, tracked, loadVars, outputVars, requests>>
ReplayStatement(i) ==
  /\ pc = "replay" /\ i \in skipped
  /\ formats' = [formats EXCEPT ![i] = tracked[i]]
  /\ skipped' = skipped \ {i}
  /\ UNCHANGED <<pc, expected, tracked, unsure, loadVars, outputVars, requests>>
Replayed ==
  /\ pc = "replay" /\ skipped = {}
  /\ pc' = "idle"
  /\ UNCHANGED <<formatVars, loadVars, outputVars, requests>>
ReplayStops ==
  /\ pc = "replay" /\ skipped # {}
  /\ pc' = "idle"
  /\ UNCHANGED <<formatVars, loadVars, outputVars, requests>>

Next ==
  \/ \E k \in 0..MaxPrinted, ok \in BOOLEAN : ExecuteBlock(k, ok)
  \/ \E i \in DOMAIN Parameters :
       ExecuteAlterSession(i) \/ CancelAlterSession(i) \/ ReplayStatement(i)
  \/ \E f \in Files, d \in {Unset, LoadDate, Invalid}, t \in {Unset, LoadTimestamp, Invalid} :
       ExecuteLoad(f, d, t)
  \/ ApplyFormat \/ FormatsApplied \/ ApplyFails
  \/ LoadBatch \/ ShortRow \/ Loaded
  \/ RestoreFormat \/ RestoreFails \/ Restored
  \/ GetLines \/ MessagesFail
  \/ CancelLoad \/ Lose \/ Reconnect \/ Replayed \/ ReplayStops
Spec == Init /\ [][Next]_vars
-----------------------------------------------------------------------------
\* The formats the user's statements made, as far as they are on this link.
Kept(i) == IF i \in skipped THEN Default ELSE expected[i]

\* Between requests a format is the one the user set.  The formats of a load are
\* put back however its rows end (the finally of _execute_load), and those the
\* user set are there on a link that was opened again, but for the ones a replay
\* that failed or was cancelled did not come to, which have the server's default.
\* Nothing is said of a format (unsure) that a cancelled ALTER SESSION named, or
\* that a load had set when it ended setting them, or did not get to put back,
\* until it is set again.  And a request that answers its messages leaves nothing
\* printed for the next one to answer, but says so when it answers fewer lines
\* than it found (queries.py:236-240).
SessionLeftClean ==
  /\ pc = "idle" => \A i \in DOMAIN Parameters \ unsure : formats[i] = Kept(i)
  /\ messages.ok =>
       /\ printed = 0
       /\ messages.lines = (IF messages.of < MaxLines THEN messages.of ELSE MaxLines)
       /\ messages.truncated <=> messages.of > MaxLines

\* A load that failed on a row names the line of the first one Oracle refused,
\* and the table holds just the rows before it; one that succeeded holds all.
LoadNamesTheLine ==
  pc = "restore" =>
    /\ outcome = "loaded" => table = file
    /\ outcome = "rejected" =>
         file[line] = "bad" /\ table = SubSeq(file, 1, line - 1)
    /\ outcome = "short" => file[line] = "short" /\ IsPrefix(table, file)
=============================================================================
