------------------------- MODULE BlockingCallProofs -------------------------
(***************************************************************************)
(* Proofs about BlockingCall, for any calls, pool and number of statements.*)
(*                                                                         *)
(* Neither invariant is inductive alone.  That the worker is over when the *)
(* coroutine is needs the future in between (Joined); that at most one     *)
(* statement comes late needs to know that a call in the gap has had none  *)
(* (FirstLate); and whose statement an interrupt aborts needs to know that *)
(* a worker only runs for a coroutine that still waits for it (Attended).  *)
(***************************************************************************)
EXTENDS BlockingCall, TLAPS, FiniteSetTheorems

Active == {"gap", "executing", "aborted"}

HasStatement == \A c \in Calls : thread[c] \in Active => todo[c] > 0

Joined ==
  /\ \A c \in done : thread[c] = "over"
  /\ \A c \in Calls : task[c] \in {"returned", "cancelled"} => c \in done

FirstLate ==
  \A c \in Calls :
    /\ late[c] <= 1
    /\ c \notin flagged \/ thread[c] = "gap" => late[c] = 0

Attended ==
  \A c \in Calls :
    /\ task[c] = "new" => thread[c] = "none" /\ c \notin flagged
    /\ thread[c] \in Active \cup {"running"} => c \in Held
    /\ task[c] \in {"backstop", "draining"} => c \in flagged

IInv == TypeOK /\ HasStatement /\ Joined /\ FirstLate /\ Attended

-----------------------------------------------------------------------------

\* No call has begun: each part holds of the initial states.
LEMMA Initially == Init => IInv
<1> SUFFICES ASSUME Init PROVE IInv
  OBVIOUS
<1> USE BlockingCallAssumption DEF Init
<1>1. TypeOK
  BY DEF TypeOK, TaskStates, ThreadStates
<1>2. HasStatement /\ Joined /\ FirstLate /\ Attended
  BY DEF HasStatement, Joined, FirstLate, Attended, Active, Held
<1> QED
  BY <1>1, <1>2 DEF IInv

\* An interrupt changes no worker but an executing one, which it aborts.
LEMMA InterruptAborts ==
  ASSUME TypeOK, NEW c \in Calls, Interrupt(c)
  PROVE  /\ thread' \in [Calls -> ThreadStates]
         /\ \A x \in Calls :
              \/ thread'[x] = thread[x]
              \/ thread[x] = "executing" /\ thread'[x] = "aborted"
BY DEF TypeOK, Interrupt, ThreadStates

\* A step of a worker keeps every part of the invariant.
LEMMA WorkerKeeps ==
  ASSUME IInv, NEW c \in Calls, Worker(c)
  PROVE  IInv'
<1> USE DEF IInv, TypeOK, ThreadTo, TaskStates, ThreadStates
<1> USE DEF HasStatement, Joined, FirstLate, Attended, Active, Held
<1>1. CASE Begin(c)
  BY <1>1 DEF Begin
<1>2. CASE Check(c)
  BY <1>2 DEF Check
<1>3. CASE Reach(c)
  BY <1>3 DEF Reach
<1>4. CASE Complete(c)
  BY <1>4, BlockingCallAssumption DEF Complete
<1>5. CASE Raise(c)
  BY <1>5 DEF Raise
<1>6. CASE Swallow(c)
  BY <1>6, BlockingCallAssumption DEF Swallow
<1>7. CASE FnReturns(c)
  BY <1>7 DEF FnReturns
<1> QED
  BY <1>1, <1>2, <1>3, <1>4, <1>5, <1>6, <1>7 DEF Worker

\* A step of the event loop keeps every part of the invariant.
LEMMA EventLoopKeeps ==
  ASSUME IInv, NEW c \in Calls, EventLoop(c)
  PROVE  IInv'
<1> USE DEF IInv, TypeOK, ThreadTo, TaskTo, TaskStates, ThreadStates
<1> USE DEF HasStatement, Joined, FirstLate, Attended, Active, Held
<1>1. CASE Call(c)
  BY <1>1, BlockingCallAssumption DEF Call
<1>2. CASE FutureDone(c)
  BY <1>2 DEF FutureDone
<1>3. CASE Return(c)
  BY <1>3 DEF Return
<1>4. CASE Cancel(c)
  BY <1>4, InterruptAborts DEF Cancel
<1>5. CASE Backstop(c)
  BY <1>5, InterruptAborts DEF Backstop
<1>6. CASE Drained(c)
  BY <1>6 DEF Drained
<1> QED
  BY <1>1, <1>2, <1>3, <1>4, <1>5, <1>6 DEF EventLoop

\* The invariant the safety theorems rest on is inductive.
LEMMA Inductive == Spec => []IInv
<1>1. Init => IInv
  BY Initially
<1>2. IInv /\ [Next]_vars => IInv'
  <2> SUFFICES ASSUME IInv, [Next]_vars PROVE IInv'
    OBVIOUS
  <2>1. ASSUME NEW c \in Calls, Worker(c) PROVE IInv'
    BY <2>1, WorkerKeeps
  <2>2. ASSUME NEW c \in Calls, EventLoop(c) PROVE IInv'
    BY <2>2, EventLoopKeeps
  <2>3. CASE UNCHANGED vars
    BY <2>3 DEF vars, IInv, TypeOK, HasStatement, Joined, FirstLate, Attended, Held
  <2> QED
    BY <2>1, <2>2, <2>3 DEF Next
<1> QED
  BY <1>1, <1>2, PTL DEF Spec

-----------------------------------------------------------------------------

\* Every variable keeps to its states, however calls, workers and cancels of
\* run_blocking interleave (base.py:59-103).
THEOREM TypeCorrect == Spec => []TypeOK
BY Inductive, PTL DEF IInv

\* Whatever the number of calls and workers, run_blocking never ends, not even
\* cancelled, before its worker has left the connection (base.py:64-71).
THEOREM ConnectionIdleAfterCall == Spec => []IdleWhenOver
<1>1. IInv => IdleWhenOver
  BY DEF IInv, Joined, IdleWhenOver
<1> QED
  BY <1>1, Inductive, PTL

\* Whatever fn does, no second statement of a cancelled call reaches the
\* database (base.py:73-76).
THEOREM AtMostOneLateStatement == Spec => []OneLateStatement
<1>1. IInv => OneLateStatement
  BY DEF IInv, FirstLate, OneLateStatement
<1> QED
  BY <1>1, Inductive, PTL

-----------------------------------------------------------------------------
(* One call at a time *)

Alone == \A x, y \in Held : x = y

\* With max_concurrency 1, two calls are never under way at once.
LEMMA OneHeld ==
  ASSUME MaxConcurrency = 1, IInv, Alone, [Next]_vars
  PROVE  Alone'
<1> USE DEF Alone, Held, IInv, TypeOK, TaskTo
<1>1. ASSUME NEW c \in Calls, Call(c) PROVE Alone'
  <2>1. IsFiniteSet(Held)
    BY FS_Subset, BlockingCallAssumption DEF Held
  <2>2. Cardinality(Held) = 0
    <3> HIDE DEF Held
    <3>1. Cardinality(Held) \in Nat
      BY <2>1, FS_CardinalityType
    <3>2. Cardinality(Held) < 1
      BY <1>1 DEF Call
    <3> QED
      BY <3>1, <3>2
  <2>3. Held = {}
    <3> HIDE DEF Held
    <3> QED
      BY <2>1, <2>2, FS_EmptySet
  <2> QED
    BY <1>1, <2>3 DEF Call
<1>2. ASSUME NEW c \in Calls, EventLoop(c), ~Call(c) PROVE Alone'
  BY <1>2 DEF EventLoop, FutureDone, Return, Cancel, Backstop, Drained
<1>3. ASSUME NEW c \in Calls, Worker(c) PROVE Alone'
  BY <1>3 DEF Worker, Begin, Check, Reach, Complete, Raise, Swallow, FnReturns
<1>4. CASE UNCHANGED vars
  BY <1>4 DEF vars
<1> QED
  BY <1>1, <1>2, <1>3, <1>4 DEF Next

\* On a connection that lets one request in at a time, the interrupt of a
\* cancelled call only ever aborts that call's statement (base.py:80).
THEOREM InterruptsItsOwn ==
  ASSUME MaxConcurrency = 1
  PROVE  Spec => OwnStatementOnly
<1>1. Init => Alone
  BY DEF Init, Alone, Held
<1>2. IInv /\ Alone /\ [Next]_vars => Alone'
  BY OneHeld
<1>3. IInv /\ Alone /\ [Next]_vars => [OwnStatement]_vars
  <2> SUFFICES ASSUME IInv, Alone, [Next]_vars PROVE OwnStatement \/ UNCHANGED vars
    OBVIOUS
  <2>1. ASSUME NEW c \in Calls, Cancel(c) \/ Backstop(c) PROVE OwnStatement
    <3>1. c \in Held /\ c \in flagged'
      BY <2>1 DEF Cancel, Backstop, Held, IInv, Attended
    <3>2. \A x \in Calls : thread[x] = "executing" => x = c
      BY <3>1 DEF IInv, Attended, Active, Alone
    <3> QED
      BY <3>1, <3>2 DEF OwnStatement
  <2>2. ASSUME NEW c \in Calls, Worker(c) PROVE OwnStatement
    BY <2>2 DEF Worker, Begin, Check, Reach, Complete, Raise, Swallow,
                FnReturns, ThreadTo, IInv, TypeOK, OwnStatement
  <2>3. ASSUME NEW c \in Calls, Call(c) \/ FutureDone(c) \/ Return(c) \/ Drained(c)
        PROVE  OwnStatement
    BY <2>3 DEF Call, FutureDone, Return, Drained, ThreadTo, IInv, TypeOK, OwnStatement
  <2> QED
    BY <2>1, <2>2, <2>3 DEF Next, EventLoop
<1> QED
  BY <1>1, <1>2, <1>3, Inductive, PTL DEF Spec, OwnStatementOnly

=============================================================================
