---------------------------- MODULE OpenBlocking ----------------------------
(***************************************************************************)
(* open_blocking of grannos/drivers/base.py: a blocking connect runs on a  *)
(* worker thread of the default executor.  A cancel does not wait for it;  *)
(* what it opens after all is closed by a done callback of its future: on  *)
(* a worker thread, or on the event loop once asyncio.run has begun to     *)
(* shut the executor down.                                                 *)
(***************************************************************************)
EXTENDS Naturals, FiniteSets

CONSTANTS
  Connects,  \* the calls of open_blocking
  PoolSize   \* worker threads of the executor

ASSUME OpenBlockingAssumption == IsFiniteSet(Connects) /\ PoolSize \in Nat

VARIABLES
  task,    \* the coroutine of each connect
  thread,  \* its connection, and the worker's calls of fn and of close
  done,    \* the connects whose future the event loop knows to be done
  orphan,  \* the connects with _close_orphan as a callback still to run
  loop     \* the event loop, up to the end of asyncio.run

vars == <<task, thread, done, orphan, loop>>

\* After "opening" fn has raised or opened; after "closing" it is closed.
Threads ==
  {"none", "queued", "opening", "raised", "opened", "unwanted", "closing", "closed"}

TypeOK ==
  /\ task \in [Connects -> {"new", "awaiting", "connected", "failed", "cancelled"}]
  /\ thread \in [Connects -> Threads]
  /\ done \subseteq Connects
  /\ orphan \subseteq Connects
  /\ loop \in {"running", "cancelling", "joining", "closed"}

Init ==
  /\ task = [c \in Connects |-> "new"]
  /\ thread = [c \in Connects |-> "none"]
  /\ done = {}
  /\ orphan = {}
  /\ loop = "running"

----------------------------------------------------------------------------
(* Worker threads *)

InCall == {c \in Connects : thread[c] \in {"opening", "closing"}}
FnOver(c) == thread[c] \notin {"none", "queued", "opening"}
ThreadTo(c, s) == thread' = [thread EXCEPT ![c] = s]

\* An idle worker takes a call, of fn or of close, from the executor's queue.
Begin(c) ==
  /\ Cardinality(InCall) < PoolSize
  /\ \/ thread[c] = "queued" /\ ThreadTo(c, "opening")
     \/ thread[c] = "unwanted" /\ ThreadTo(c, "closing")
  /\ UNCHANGED <<task, done, orphan, loop>>

\* A connect succeeds or not; close's errors are ignored.
End(c) ==
  /\ \/ thread[c] = "opening" /\ \E s \in {"opened", "raised"} : ThreadTo(c, s)
     \/ thread[c] = "closing" /\ ThreadTo(c, "closed")
  /\ UNCHANGED <<task, done, orphan, loop>>

----------------------------------------------------------------------------
(* The event loop *)

TaskTo(c, s) == task' = [task EXCEPT ![c] = s]

Open(c) ==
  /\ task[c] = "new" /\ loop = "running"
  /\ TaskTo(c, "awaiting") /\ ThreadTo(c, "queued")
  /\ UNCHANGED <<done, orphan, loop>>

FutureDone(c) ==
  /\ FnOver(c) /\ c \notin done
  /\ done' = done \cup {c}
  /\ UNCHANGED <<task, thread, orphan, loop>>

\* Mutant: an exception is handed to the caller as if it were a connection.
ReturnOutcome(c) ==
  /\ task[c] = "awaiting" /\ c \in done
  /\ TaskTo(c, thread[c])
  /\ UNCHANGED <<thread, done, orphan, loop>>

Return(c) ==
  /\ task[c] = "awaiting" /\ c \in done
  /\ TaskTo(c, IF thread[c] = "opened" THEN "connected" ELSE "failed")
  /\ UNCHANGED <<thread, done, orphan, loop>>

\* Mutant: a connect that is done already is taken to have been returned.
CancelUnlessDone(c) ==
  /\ task[c] = "awaiting"
  /\ TaskTo(c, "cancelled")
  /\ orphan' = IF c \in done THEN orphan ELSE orphan \cup {c}
  /\ UNCHANGED <<thread, done, loop>>

\* The future may be done by then, and the coroutine about to be resumed.
Cancel(c) ==
  /\ task[c] = "awaiting"
  /\ TaskTo(c, "cancelled")
  /\ orphan' = orphan \cup {c}
  /\ UNCHANGED <<thread, done, loop>>

\* Mutant: a connection that the executor refuses to close stays open.
CloseOrphanOnExecutor(c) ==
  /\ c \in orphan \cap done
  /\ orphan' = orphan \ {c}
  /\ IF thread[c] = "opened" /\ loop # "joining"
     THEN ThreadTo(c, "unwanted") ELSE UNCHANGED thread
  /\ UNCHANGED <<task, done, loop>>

\* The executor closes what was opened, or the loop itself if that refuses.
CloseOrphan(c) ==
  /\ c \in orphan \cap done
  /\ orphan' = orphan \ {c}
  /\ IF thread[c] = "opened"
     THEN ThreadTo(c, IF loop = "joining" THEN "closed" ELSE "unwanted")
     ELSE UNCHANGED thread
  /\ UNCHANGED <<task, done, loop>>

----------------------------------------------------------------------------
(* asyncio.run, when the server stops: every task is cancelled and awaited, *)
(* then the executor takes no more calls and its threads are waited for     *)
(* until they, and the callbacks of their futures, are over.                *)

Stop ==
  /\ loop = "running" /\ loop' = "cancelling"
  /\ UNCHANGED <<task, thread, done, orphan>>

ShutDownExecutor ==
  /\ loop = "cancelling" /\ \A c \in Connects : task[c] # "awaiting"
  /\ loop' = "joining"
  /\ UNCHANGED <<task, thread, done, orphan>>

CloseLoop ==
  /\ loop = "joining"
  /\ \A c \in Connects :
       /\ thread[c] \notin {"queued", "opening", "unwanted", "closing"}
       /\ FnOver(c) => c \in done /\ c \notin orphan
  /\ loop' = "closed"
  /\ UNCHANGED <<task, thread, done, orphan>>

----------------------------------------------------------------------------

Next ==
  \/ \E c \in Connects :
       \/ Begin(c) \/ End(c)
       \/ Open(c) \/ FutureDone(c) \/ Return(c) \/ Cancel(c) \/ CloseOrphan(c)
  \/ Stop \/ ShutDownExecutor \/ CloseLoop

(***************************************************************************)
(* Threads run, a connect and a close end in their own time, and the loop  *)
(* runs its callbacks; asyncio.run leaves no task uncancelled.             *)
(***************************************************************************)
Fairness ==
  /\ \A c \in Connects :
       /\ SF_vars(Begin(c)) /\ WF_vars(End(c))
       /\ WF_vars(FutureDone(c)) /\ WF_vars(CloseOrphan(c))
       /\ WF_vars(Return(c) \/ (loop = "cancelling" /\ Cancel(c)))
  /\ WF_vars(ShutDownExecutor) /\ WF_vars(CloseLoop)

Spec == Init /\ [][Next]_vars /\ Fairness

----------------------------------------------------------------------------
(* Properties *)

\* When asyncio.run is over, every connection ever opened was either returned
\* to the caller of open_blocking or is closed: a cancel at any moment, the
\* shutdown's own included, loses none (base.py:109-125, 139-142).
NothingLeftOpen ==
  loop = "closed" =>
    \A c \in Connects : thread[c] = "opened" => task[c] = "connected"

\* What a cancelled connect opens is closed in the end, although all workers
\* may be held by other connects (base.py:112-113).
CancelledCloses ==
  \A c \in Connects :
    task[c] = "cancelled" ~> thread[c] \in {"raised", "closed"}

============================================================================
