---------------------------- MODULE S3Transfer ------------------------------
(***************************************************************************)
(* One cp, mv or rm of grannos/drivers/s3/driver.py, key by key.  Objects  *)
(* and local files live in places (buckets, or Disk), each a function from *)
(* keys to contents.  The calls run in worker threads, one after another;  *)
(* a cancel is seen before the next call, and any call may fail, the       *)
(* process being killed included.                                          *)
(***************************************************************************)
EXTENDS S3Tree

CONSTANTS Places,     \* the buckets and the local disk
          Disk,       \* the local disk, one of Places
          Commands,   \* [verb, src, srcKey, dst, dstKey, recursive]
          Contents,   \* functions from Places to functions on keys
          DeleteBatch \* keys deleted by one call: 1000

VARIABLES store,      \* what each place holds
          cmd,        \* the command
          first,      \* what each place held when it was given
          pc,         \* match, copy, delete, done or failed
          keys,       \* the keys matched
          n,          \* how many of them the current phase has handled
          cancelled   \* the request was cancelled

vars == <<store, cmd, first, pc, keys, n, cancelled>>

Account == [p \in Places |-> DOMAIN store[p]]
Target(key) ==
  CASE cmd.src = Disk -> UploadKey(cmd.srcKey, cmd.dstKey, key, cmd.recursive)
    [] cmd.dst = Disk ->
         JoinRelativeLocal(cmd.srcKey, cmd.dstKey, key, cmd.recursive, {})
    [] OTHER -> JoinRelative(cmd.srcKey, cmd.dstKey, key, cmd.recursive)

Init ==
  /\ cmd \in Commands
  /\ store \in Contents
  /\ first = store
  /\ pc = "match" /\ keys = <<>> /\ n = 0 /\ cancelled = FALSE

\* The next phase of a command that has gone through its keys.
After(phase) ==
  CASE phase = "match" -> IF cmd.verb = "rm" THEN "delete" ELSE "copy"
    [] phase = "copy"  -> IF cmd.verb = "mv" THEN "delete" ELSE "done"
    [] OTHER           -> "done"

Match ==
  /\ pc = "match" /\ ~cancelled
  /\ keys' = MatchKeys(Account, cmd.src, cmd.srcKey, cmd.recursive)
  /\ pc' = After("match") /\ n' = 0
  /\ UNCHANGED <<store, cmd, first, cancelled>>

Put(place, key, content) ==
  store' = [store EXCEPT ![place] =
              [k \in DOMAIN @ \cup {key} |-> IF k = key THEN content ELSE @[k]]]
Drop(place, gone) ==
  store' = [store EXCEPT ![place] = [k \in DOMAIN @ \ gone |-> @[k]]]

\* copy_object, download_file or upload_file of the next key.
Copy ==
  /\ pc = "copy" /\ n < Len(keys) /\ ~cancelled
  /\ keys[n + 1] \in DOMAIN store[cmd.src]
  /\ Put(cmd.dst, Target(keys[n + 1]), store[cmd.src][keys[n + 1]])
  /\ n' = n + 1
  /\ UNCHANGED <<cmd, first, pc, keys, cancelled>>

\* The mutant of Copied goes on after a copy that failed.
CopiedAnyway ==
  /\ pc = "copy" /\ ~cancelled
  /\ pc' = After("copy") /\ n' = 0
  /\ UNCHANGED <<store, cmd, first, keys, cancelled>>
Copied ==
  /\ pc = "copy" /\ n = Len(keys) /\ ~cancelled
  /\ pc' = After("copy") /\ n' = 0
  /\ UNCHANGED <<store, cmd, first, keys, cancelled>>

\* delete_objects of a batch, or unlink of one local file.
Delete ==
  LET upTo == IF cmd.src = Disk THEN n + 1
              ELSE IF n + DeleteBatch < Len(keys) THEN n + DeleteBatch ELSE Len(keys)
  IN  /\ pc = "delete" /\ n < Len(keys)
      /\ cmd.src # Disk => ~cancelled
      /\ Drop(cmd.src, {keys[i] : i \in (n + 1)..upTo})
      /\ n' = upTo
      /\ UNCHANGED <<cmd, first, pc, keys, cancelled>>

Deleted ==
  /\ pc = "delete" /\ n = Len(keys)
  /\ pc' = "done"
  /\ UNCHANGED <<store, cmd, first, keys, n, cancelled>>

\* A call fails, or the cancel is seen before it.
Fail ==
  /\ pc \in {"match", "copy", "delete"}
  /\ pc' = "failed"
  /\ UNCHANGED <<store, cmd, first, keys, n, cancelled>>

Cancel ==
  /\ pc \in {"match", "copy", "delete"} /\ ~cancelled
  /\ cancelled' = TRUE
  /\ UNCHANGED <<store, cmd, first, pc, keys, n>>

Next == Match \/ Copy \/ Copied \/ Delete \/ Deleted \/ Fail \/ Cancel
Spec == Init /\ [][Next]_vars
-----------------------------------------------------------------------------
\* What the command is about goes to targets of their own, none of which it is
\* about itself: not so when a prefix ends inside a segment, or when a prefix
\* is moved below itself.
About == {k \in DOMAIN first[cmd.src] :
            IF cmd.recursive THEN IsPrefix(cmd.srcKey, k) ELSE k = cmd.srcKey}
Apart ==
  /\ \A k, l \in About : Target(k) = Target(l) => k = l
  /\ cmd.src = cmd.dst => \A k \in About : Target(k) \notin About

\* A copy or a move, finished, failed or cancelled wherever it was, loses
\* nothing: every object it is about is where it was or where it goes.  What a
\* command is not about stays where it is, and nothing is taken away before
\* the last copy is made (_cmd_transfer, _cmd_rm).
NothingLost ==
  /\ cmd.verb # "rm" /\ Apart =>
       \A k \in About :
         \/ k \in DOMAIN store[cmd.src] /\ store[cmd.src][k] = first[cmd.src][k]
         \/ /\ Target(k) \in DOMAIN store[cmd.dst]
            /\ store[cmd.dst][Target(k)] = first[cmd.src][k]
  /\ DOMAIN first[cmd.src] \ About \subseteq DOMAIN store[cmd.src]
  /\ (pc \in {"match", "copy"} \/ cmd.verb = "cp") =>
       DOMAIN first[cmd.src] \subseteq DOMAIN store[cmd.src]
=============================================================================
