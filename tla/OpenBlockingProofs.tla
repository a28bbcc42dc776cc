------------------------- MODULE OpenBlockingProofs -------------------------
(***************************************************************************)
(* Proofs about OpenBlocking, for any connects and any size of the pool.   *)
(*                                                                         *)
(* That nothing is left open when the loop is closed needs to know what    *)
(* became of each connect before: one that was cancelled still has its     *)
(* callback, or has had it (Accounted), and no coroutine outlives the      *)
(* cancelling of all tasks (Unwound).                                      *)
(***************************************************************************)
EXTENDS OpenBlocking, TLAPS

GivenUp == {"unwanted", "closing", "closed"}

Accounted ==
  \A c \in Connects :
    /\ task[c] = "new" <=> thread[c] = "none"
    /\ c \in orphan => task[c] = "cancelled"
    /\ c \in done => FnOver(c)
    /\ thread[c] \in GivenUp => task[c] = "cancelled"
    /\ task[c] = "connected" => thread[c] = "opened"
    /\ task[c] = "failed" => thread[c] = "raised"
    /\ task[c] = "cancelled" /\ thread[c] \in {"queued", "opening", "opened"}
         => c \in orphan

Unwound ==
  /\ loop \in {"joining", "closed"} => \A c \in Connects : task[c] # "awaiting"
  /\ loop = "closed" =>
       \A c \in Connects :
         /\ thread[c] \notin {"queued", "opening", "unwanted", "closing"}
         /\ FnOver(c) => c \notin orphan

IInv == TypeOK /\ Accounted /\ Unwound

-----------------------------------------------------------------------------

\* Nothing has begun: each part holds of the initial states.
LEMMA Initially == Init => IInv
BY DEF Init, IInv, TypeOK, Accounted, Unwound, FnOver, GivenUp, Threads

\* A worker's step keeps the invariant: it ends what has begun, and closes
\* only what was given up.
LEMMA WorkerKeeps ==
  ASSUME IInv, NEW c \in Connects, Begin(c) \/ End(c)
  PROVE  IInv'
<1> USE DEF IInv, TypeOK, Accounted, Unwound, FnOver, GivenUp, Threads, ThreadTo
<1>1. CASE Begin(c)
  BY <1>1 DEF Begin
<1>2. CASE End(c)
  <2>1. PICK s \in {"opened", "raised", "closed"} :
          /\ ThreadTo(c, s)
          /\ IF s = "closed" THEN thread[c] = "closing" ELSE thread[c] = "opening"
    BY <1>2 DEF End
  <2>2. UNCHANGED <<task, done, orphan, loop>>
    BY <1>2 DEF End
  <2>3. TypeOK'
    BY <2>1, <2>2
  <2>4. Accounted'
    BY <2>1, <2>2
  <2>5. Unwound'
    BY <2>1, <2>2
  <2> QED
    BY <2>3, <2>4, <2>5
<1> QED
  BY <1>1, <1>2

\* A step of the event loop keeps the invariant: what is cancelled gets its
\* callback, and the callback gives up what was opened.
LEMMA EventLoopKeeps ==
  ASSUME IInv, NEW c \in Connects,
         Open(c) \/ FutureDone(c) \/ Return(c) \/ Cancel(c) \/ CloseOrphan(c)
  PROVE  IInv'
<1> USE DEF IInv, TypeOK, Accounted, Unwound, FnOver, GivenUp, Threads, ThreadTo, TaskTo
<1>1. CASE Open(c)
  BY <1>1 DEF Open
<1>2. CASE FutureDone(c)
  BY <1>2 DEF FutureDone
<1>3. CASE Return(c)
  BY <1>3 DEF Return
<1>4. CASE Cancel(c)
  BY <1>4 DEF Cancel
<1>5. CASE CloseOrphan(c)
  BY <1>5 DEF CloseOrphan
<1> QED
  BY <1>1, <1>2, <1>3, <1>4, <1>5

\* The end of asyncio.run keeps it: no task is left when the executor is shut
\* down, and no callback when the loop is closed.
LEMMA ShutdownKeeps ==
  ASSUME IInv, Stop \/ ShutDownExecutor \/ CloseLoop
  PROVE  IInv'
<1> USE DEF IInv, TypeOK, Accounted, Unwound, FnOver, GivenUp, Threads
<1>1. CASE Stop
  BY <1>1 DEF Stop
<1>2. CASE ShutDownExecutor
  BY <1>2 DEF ShutDownExecutor
<1>3. CASE CloseLoop
  BY <1>3 DEF CloseLoop
<1> QED
  BY <1>1, <1>2, <1>3

\* The invariant the safety theorems rest on is inductive.
LEMMA Inductive == Spec => []IInv
<1>1. IInv /\ [Next]_vars => IInv'
  <2> SUFFICES ASSUME IInv, [Next]_vars PROVE IInv'
    OBVIOUS
  <2>1. CASE UNCHANGED vars
    BY <2>1 DEF vars, IInv, TypeOK, Accounted, Unwound, FnOver
  <2>2. CASE Next
    BY <2>2, WorkerKeeps, EventLoopKeeps, ShutdownKeeps DEF Next
  <2> QED
    BY <2>1, <2>2
<1> QED
  BY <1>1, Initially, PTL DEF Spec

\* Every variable keeps to its states, however connects, cancels and the
\* shutdown of open_blocking's loop interleave (base.py:106-142).
THEOREM TypeCorrect == Spec => []TypeOK
BY Inductive, PTL DEF IInv

\* For any number of connects and workers, no connection is left open behind
\* the back of open_blocking's caller when asyncio.run is over
\* (base.py:109-125, 139-142).
THEOREM NoConnectionLost == Spec => []NothingLeftOpen
<1>1. IInv => NothingLeftOpen
  BY DEF IInv, TypeOK, Accounted, Unwound, FnOver, NothingLeftOpen
<1> QED
  BY <1>1, Inductive, PTL

=============================================================================
