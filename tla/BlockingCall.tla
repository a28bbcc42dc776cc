---------------------------- MODULE BlockingCall ----------------------------
(***************************************************************************)
(* run_blocking of grannos/drivers/base.py: blocking database calls run on *)
(* worker threads of the default executor, on one shared connection, and   *)
(* are cancelled from the event loop by a flag and up to two interrupts.   *)
(*                                                                         *)
(* The event loop (task) and the worker (thread) of a call interleave at   *)
(* every step.  A statement passes check_cancelled, is then for a while in *)
(* the "gap" before it reaches the database, and only while it executes    *)
(* there can an interrupt abort it.  The interrupt is that of sqlite3 and  *)
(* duckdb: it aborts whatever executes on the connection.                  *)
(***************************************************************************)
EXTENDS Naturals, FiniteSets

CONSTANTS
  Calls,          \* the calls of run_blocking on this connection
  MaxConcurrency, \* how many of them the connection lets in at once
  PoolSize,       \* worker threads of the executor
  MaxStatements,  \* bound: statements of one call
  HasInterrupt,   \* whether the driver can abort a statement
  Ending,         \* the calls whose statements end of themselves
  PromptThreads   \* whether INTERRUPT_BACKSTOP outlasts the gap

ASSUME BlockingCallAssumption ==
  /\ IsFiniteSet(Calls)
  /\ MaxConcurrency \in Nat
  /\ PoolSize \in Nat
  /\ MaxStatements \in Nat
  /\ HasInterrupt \in BOOLEAN
  /\ Ending \subseteq Calls
  /\ PromptThreads \in BOOLEAN

VARIABLES
  task,    \* the coroutine of each call
  thread,  \* the worker's side of each call
  todo,    \* statements its function has yet to run
  flagged, \* the calls whose `cancelled' event is set
  done,    \* the calls whose future the event loop knows to be done
  late     \* how many statements reached the database after the flag

vars == <<task, thread, todo, flagged, done, late>>

TaskStates == {"new", "awaiting", "backstop", "draining", "returned", "cancelled"}
ThreadStates ==
  {"none", "queued", "running", "gap", "executing", "aborted", "over"}

TypeOK ==
  /\ task \in [Calls -> TaskStates]
  /\ thread \in [Calls -> ThreadStates]
  /\ todo \in [Calls -> 0..MaxStatements]
  /\ flagged \subseteq Calls
  /\ done \subseteq Calls
  /\ late \in [Calls -> Nat]

Init ==
  /\ task = [c \in Calls |-> "new"]
  /\ thread = [c \in Calls |-> "none"]
  /\ todo = [c \in Calls |-> 0]
  /\ flagged = {}
  /\ done = {}
  /\ late = [c \in Calls |-> 0]

Held == {c \in Calls : task[c] \in {"awaiting", "backstop", "draining"}}
OnWorker == {c \in Calls : thread[c] \in {"running", "gap", "executing", "aborted"}}

ThreadTo(c, s) == thread' = [thread EXCEPT ![c] = s]
TaskTo(c, s) == task' = [task EXCEPT ![c] = s]

----------------------------------------------------------------------------
(* The worker thread *)

\* A worker picks the call up and checks the flag before calling fn.
Begin(c) ==
  /\ thread[c] = "queued"
  /\ Cardinality(OnWorker) < PoolSize
  /\ ThreadTo(c, IF c \in flagged THEN "over" ELSE "running")
  /\ UNCHANGED <<task, todo, flagged, done, late>>

\* Mutant: fn does not stop after its last statement.
CheckPastTheEnd(c) ==
  /\ thread[c] = "running"
  /\ ThreadTo(c, IF c \in flagged THEN "over" ELSE "gap")
  /\ UNCHANGED <<task, todo, flagged, done, late>>

\* Mutant: only the first statement is preceded by a check.
CheckNothing(c) ==
  /\ thread[c] = "running" /\ todo[c] > 0
  /\ ThreadTo(c, "gap")
  /\ UNCHANGED <<task, todo, flagged, done, late>>

\* check_cancelled before the next statement...
Check(c) ==
  /\ thread[c] = "running" /\ todo[c] > 0
  /\ ThreadTo(c, IF c \in flagged THEN "over" ELSE "gap")
  /\ UNCHANGED <<task, todo, flagged, done, late>>

\* ...which then reaches the database...
Reach(c) ==
  /\ thread[c] = "gap"
  /\ ThreadTo(c, "executing")
  /\ late' = IF c \in flagged THEN [late EXCEPT ![c] = @ + 1] ELSE late
  /\ UNCHANGED <<task, todo, flagged, done>>

\* ...where it completes,
Complete(c) ==
  /\ c \in Ending
  /\ thread[c] = "executing"
  /\ ThreadTo(c, "running")
  /\ todo' = [todo EXCEPT ![c] = @ - 1]
  /\ UNCHANGED <<task, flagged, done, late>>

\* or fails, or has been aborted, and the error ends fn...
Raise(c) ==
  /\ \/ thread[c] = "executing" /\ c \in Ending
     \/ thread[c] = "aborted"
  /\ ThreadTo(c, "over")
  /\ UNCHANGED <<task, todo, flagged, done, late>>

\* ...unless the query was best-effort, and fn carries on without it.
Swallow(c) ==
  /\ \/ thread[c] = "executing" /\ c \in Ending
     \/ thread[c] = "aborted"
  /\ ThreadTo(c, "running")
  /\ todo' = [todo EXCEPT ![c] = @ - 1]
  /\ UNCHANGED <<task, flagged, done, late>>

FnReturns(c) ==
  /\ thread[c] = "running" /\ todo[c] = 0
  /\ ThreadTo(c, "over")
  /\ UNCHANGED <<task, todo, flagged, done, late>>

----------------------------------------------------------------------------
(* The event loop *)

Call(c) ==
  /\ task[c] = "new"
  /\ Cardinality(Held) < MaxConcurrency
  /\ TaskTo(c, "awaiting")
  /\ ThreadTo(c, "queued")
  /\ \E n \in 1..MaxStatements : todo' = [todo EXCEPT ![c] = n]
  /\ UNCHANGED <<flagged, done, late>>

\* The worker's call_soon_threadsafe runs: only now is the future done.
FutureDone(c) ==
  /\ thread[c] = "over" /\ c \notin done
  /\ done' = done \cup {c}
  /\ UNCHANGED <<task, thread, todo, flagged, late>>

Return(c) ==
  /\ task[c] = "awaiting" /\ c \in done
  /\ TaskTo(c, "returned")
  /\ UNCHANGED <<thread, todo, flagged, done, late>>

\* `_interrupt': nothing for a done future or a driver with no interrupt;
\* otherwise every statement executing on the connection is aborted.
Interrupt(c) ==
  thread' = IF HasInterrupt /\ c \notin done
            THEN [x \in Calls |-> IF thread[x] = "executing" THEN "aborted" ELSE thread[x]]
            ELSE thread

\* Mutant: a cancel does not wait for the worker.
CancelAtOnce(c) ==
  /\ task[c] = "awaiting"
  /\ flagged' = flagged \cup {c}
  /\ Interrupt(c)
  /\ TaskTo(c, "cancelled")
  /\ UNCHANGED <<todo, done, late>>

\* CancelledError at the await: flag, interrupt, and a bounded wait, none if
\* the future is done.  Later cancels are swallowed by `_wait_quietly'.
Cancel(c) ==
  /\ task[c] = "awaiting"
  /\ flagged' = flagged \cup {c}
  /\ Interrupt(c)
  /\ TaskTo(c, IF c \in done THEN "cancelled" ELSE "backstop")
  /\ UNCHANGED <<todo, done, late>>

\* Mutant: no second interrupt.
BackstopWaits(c) ==
  /\ task[c] = "backstop" /\ c \notin done
  /\ TaskTo(c, "draining")
  /\ UNCHANGED <<thread, todo, flagged, done, late>>

\* Mutant: the second interrupt is left to a timer nobody stops.
BackstopUnstopped(c) ==
  /\ task[c] \in {"backstop", "cancelled"}
  /\ HasInterrupt
  /\ thread' = [x \in Calls |-> IF thread[x] = "executing" THEN "aborted" ELSE thread[x]]
  /\ TaskTo(c, IF c \in done THEN "cancelled" ELSE "draining")
  /\ UNCHANGED <<todo, flagged, done, late>>

\* INTERRUPT_BACKSTOP has elapsed: the second interrupt, then an unbounded wait.
Backstop(c) ==
  /\ task[c] = "backstop" /\ c \notin done
  /\ PromptThreads => thread[c] # "gap"
  /\ Interrupt(c)
  /\ TaskTo(c, "draining")
  /\ UNCHANGED <<todo, flagged, done, late>>

Drained(c) ==
  /\ task[c] \in {"backstop", "draining"} /\ c \in done
  /\ TaskTo(c, "cancelled")
  /\ UNCHANGED <<thread, todo, flagged, done, late>>

----------------------------------------------------------------------------

Worker(c) ==
  \/ Begin(c) \/ Check(c) \/ Reach(c) \/ Complete(c)
  \/ Raise(c) \/ Swallow(c) \/ FnReturns(c)

EventLoop(c) ==
  \/ Call(c) \/ FutureDone(c) \/ Return(c)
  \/ Cancel(c) \/ Backstop(c) \/ Drained(c)

Next == \E c \in Calls : Worker(c) \/ EventLoop(c)

(***************************************************************************)
(* Threads run, an idle worker takes a queued call sooner or later, the    *)
(* loop runs its callbacks and its timer fires.  Nobody has to cancel.     *)
(***************************************************************************)
Fairness ==
  \A c \in Calls :
    /\ SF_vars(Begin(c))
    /\ WF_vars(Check(c) \/ Reach(c) \/ Complete(c) \/ Raise(c) \/ Swallow(c) \/ FnReturns(c))
    /\ WF_vars(FutureDone(c)) /\ WF_vars(Return(c))
    /\ WF_vars(Backstop(c)) /\ WF_vars(Drained(c))

Spec == Init /\ [][Next]_vars /\ Fairness

----------------------------------------------------------------------------
(* Properties *)

\* When run_blocking is over -- returned or cancelled -- its worker has left
\* the connection, so the next request finds it idle (base.py:64-71).
IdleWhenOver ==
  \A c \in Calls : task[c] \in {"returned", "cancelled"} => thread[c] = "over"

\* Once a call is cancelled at most one more of its statements reaches the
\* database: the one that was already past check_cancelled (base.py:73-76).
OneLateStatement == \A c \in Calls : late[c] <= 1

\* `interrupt' "aborts the statement `fn' is running" (base.py:80): no other
\* call's statement is aborted by it, when the connection lets in one request at
\* a time.
OwnStatement ==
  \A c \in Calls : thread[c] = "executing" /\ thread'[c] = "aborted" => c \in flagged'
OwnStatementOnly == [][OwnStatement]_vars

\* A call that waits for a thread while all of them run statements of others that
\* never end.
Crowded(c) ==
  thread[c] = "queued" /\ Cardinality(OnWorker) = PoolSize /\ OnWorker \cap Ending = {}

\* A cancelled call lets go of its connection even if its statements never
\* end: the first interrupt aborts a statement under way, the second one that
\* slipped through the gap, and no other is started (base.py:97-103).  Only in
\* the executor's queue can others hold it up: it looks at its flag once a thread
\* takes it.  (A flag stays up, so this says that each one is followed by an end.)
CancelCompletes ==
  \A c \in Calls : []<>(c \in flagged => task[c] = "cancelled" \/ Crowded(c))

============================================================================
