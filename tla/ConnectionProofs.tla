-------------------------- MODULE ConnectionProofs --------------------------
(***************************************************************************)
(* Proofs about a connection: the gate every request for it passes, and    *)
(* the parts of a driver behind it, for every value of their constants.    *)
(*                                                                         *)
(* The gate, for any requests, concurrency and bounds: the types, the      *)
(* accounting of the semaphore and the absence of lost wakeups are         *)
(* inductive together; that the count stays below its limit is a           *)
(* consequence of the accounting.                                          *)
(*                                                                         *)
(* The parts: an SQL Server link severs its own socket, the large values   *)
(* kept are the newest, the reader answers every line once, an Oracle      *)
(* session is left as it was found, a load that fails names its line, and  *)
(* a transfer loses nothing. Each part has an inductive invariant of its   *)
(* own, and only the part that a behaviour is about takes steps, so the    *)
(* invariant of PartsSpec is the one of that part.                         *)
(***************************************************************************)
EXTENDS ConnectionGate, ConnectionParts, FiniteSetTheorems, SequenceTheorems, TLAPS

IInv == TypeOK /\ SemaphoreAccounted /\ NoLostWakeup

\* The steps that leave the semaphore's count and queue alone.
Elsewhere ==
  \/ Connects \/ TimerExpires \/ TimerCloses
  \/ \E r \in Requests : Refused(r) \/ NextCall(r) \/ CallLost(r) \/ CloseOld(r) \/ OpenNew(r)
  \/ \E d \in Closers : Disconnects(d)
  \/ \E l \in Links : DropLink(l)
  \/ UNCHANGED vars

\* The steps that leave the `async with' block.
Leaves(r) ==
  CallReturns(r) \/ CallFails(r) \/ OpenFails(r) \/ RetryLost(r) \/ CancelInFlight(r)

\* Every step enters, resumes, cancels a waiter or leaves, or else is a step
\* that the semaphore takes no part in.
LEMMA Cases ==
  ASSUME [Next]_vars
  PROVE  \/ Elsewhere
         \/ \E r \in Requests : Enter(r) \/ Resume(r) \/ CancelQueued(r) \/ Leaves(r)
BY DEF Next, Elsewhere, Leaves, Acquires, CallEnds, Reconnects

-----------------------------------------------------------------------------
(* The semaphore *)

\* Those who hold the semaphore can be counted, and those in one state of it.
LEMMA HoldersFinite ==
  ASSUME NEW S \in SUBSET Requests
  PROVE  IsFiniteSet(S) /\ Cardinality(S) \in Nat
BY FS_Subset, FS_CardinalityType, ConnectionGateAssumption

\* What a step that grants the semaphore to W does to who holds it.
LEMMA GrantHands ==
  ASSUME TypeOK, NEW r \in Requests, NEW s \in States, NEW n \in Nat,
         NEW W, W \in SUBSET (Waiting \ {r}), Grant(W, n, r, s)
  PROVE  /\ value' = n - Cardinality(W)
         /\ pc' \in [Procs -> States]
         /\ Waiting' = ((Waiting \ W) \ {r}) \cup (IF s = "waiting" THEN {r} ELSE {})
         /\ Holders' = ((Holders \ {r}) \cup W) \cup
                         (IF s \in InFlight \cup {"granted"} THEN {r} ELSE {})
         /\ \A w \in W : pc'[w] = "granted"
<1>1. pc' = [p \in Procs |-> IF p = r THEN s ELSE IF p \in W THEN "granted" ELSE pc[p]]
  BY DEF Grant
<1>2. pc' \in [Procs -> States]
  BY <1>1 DEF TypeOK, States
<1>3. Waiting' = ((Waiting \ W) \ {r}) \cup (IF s = "waiting" THEN {r} ELSE {})
  BY <1>1 DEF Waiting, Procs
<1>4. Holders' = ((Holders \ {r}) \cup W) \cup
                   (IF s \in InFlight \cup {"granted"} THEN {r} ELSE {})
  BY <1>1 DEF Holders, Waiting, Procs, InFlight, Calling, Reconnecting
<1>5. \A w \in W : pc'[w] = "granted"
  BY <1>1 DEF Waiting, Procs
<1> QED
  BY <1>2, <1>3, <1>4, <1>5 DEF Grant

\* Of k units, W takes its share and leaves nobody behind unless none is left.
LEMMA FirstTakes ==
  ASSUME NEW k \in Nat, NEW S \in SUBSET Requests, NEW W \in First(k, S)
  PROVE  /\ W \in SUBSET S
         /\ Cardinality(W) \in Nat /\ Cardinality(W) <= k
         /\ Cardinality(W) = k \/ W = S
<1>1. W \in SUBSET S /\ Cardinality(W) <= k /\ (Cardinality(W) = k \/ W = S)
  BY DEF First
<1>2. Cardinality(W) \in Nat
  BY <1>1, HoldersFinite
<1> QED
  BY <1>1, <1>2

\* Handing units to W: the sum is kept when r gives up what n gains.
LEMMA Hands ==
  ASSUME NEW H \in SUBSET Requests, NEW W \in SUBSET Requests, H \cap W = {}
  PROVE  Cardinality(H \cup W) = Cardinality(H) + Cardinality(W)
<1>1. Cardinality(H \cup W) = Cardinality(H) + Cardinality(W) - Cardinality(H \cap W)
  BY FS_Union, HoldersFinite
<1>2. Cardinality(H \cap W) = 0
  BY FS_EmptySet
<1> QED
  BY <1>1, <1>2, HoldersFinite

\* A request that gives up its unit is one holder less.
LEMMA LeavesHolders ==
  ASSUME TypeOK, NEW r \in Requests
  PROVE  /\ Holders \in SUBSET Requests
         /\ Waiting \in SUBSET Requests
         /\ Holders \cap Waiting = {}
         /\ Cardinality(Holders \ {r}) =
              IF r \in Holders THEN Cardinality(Holders) - 1 ELSE Cardinality(Holders)
<1>1. Holders \in SUBSET Requests /\ Waiting \in SUBSET Requests
  BY DEF Holders, Waiting
<1>2. Holders \cap Waiting = {}
  BY DEF Holders, Waiting, InFlight, Calling, Reconnecting
<1> QED
  BY <1>1, <1>2, FS_RemoveElement, HoldersFinite

\* The semaphore survives any step that hands out k of n units, one or all,
\* n being what was free and what r gives back.
LEMMA Handover ==
  ASSUME IInv, NEW r \in Requests, NEW s \in States, s \notin {"waiting", "granted"},
         NEW n \in Nat, NEW k \in Nat, k <= n, k \in {1, n},
         NEW W \in First(k, Waiting \ {r}), Grant(W, n, r, s),
         n + Cardinality(Holders \ {r}) + (IF s \in InFlight THEN 1 ELSE 0)
           = MaxConcurrency
  PROVE  /\ value' \in 0..MaxConcurrency
         /\ pc' \in [Procs -> States]
         /\ SemaphoreAccounted'
         /\ NoLostWakeup'
<1> DEFINE Kept == (Holders \ {r}) \cup (IF s \in InFlight THEN {r} ELSE {})
<1>1. /\ Waiting \ {r} \in SUBSET Requests
      /\ Holders \in SUBSET Requests
      /\ Holders \cap Waiting = {}
  BY LeavesHolders DEF IInv
<1>2. /\ W \in SUBSET (Waiting \ {r})
      /\ Cardinality(W) \in Nat /\ Cardinality(W) <= k
      /\ Cardinality(W) = k \/ W = Waiting \ {r}
  BY <1>1, FirstTakes
<1>3. /\ value' = n - Cardinality(W)
      /\ pc' \in [Procs -> States]
      /\ Waiting' = (Waiting \ W) \ {r}
      /\ Holders' = Kept \cup W
      /\ \A w \in W : pc'[w] = "granted"
  <2> TypeOK
    BY DEF IInv
  <2>1. /\ value' = n - Cardinality(W)
        /\ pc' \in [Procs -> States]
        /\ Waiting' = ((Waiting \ W) \ {r}) \cup (IF s = "waiting" THEN {r} ELSE {})
        /\ Holders' = ((Holders \ {r}) \cup W) \cup
                        (IF s \in InFlight \cup {"granted"} THEN {r} ELSE {})
        /\ \A w \in W : pc'[w] = "granted"
    <3>1. W \in SUBSET (Waiting \ {r})
      BY <1>2
    <3> HIDE DEF Kept
    <3> QED
      BY <3>1, GrantHands
  <2> QED
    BY <2>1
<1>4. Cardinality(Kept) = Cardinality(Holders \ {r}) + (IF s \in InFlight THEN 1 ELSE 0)
  <2>1. Holders \ {r} \in SUBSET Requests
    BY <1>1
  <2>2. IsFiniteSet(Holders \ {r}) /\ Cardinality(Holders \ {r}) \in Nat
    BY <2>1, HoldersFinite
  <2>3. Cardinality((Holders \ {r}) \cup {r}) = Cardinality(Holders \ {r}) + 1
    <3> DEFINE T == Holders \ {r}
    <3>1. r \notin T /\ IsFiniteSet(T)
      BY <2>2
    <3> HIDE DEF T
    <3>2. Cardinality(T \cup {r}) = Cardinality(T) + 1
      BY <3>1, FS_AddElement
    <3> QED
      BY <3>2 DEF T
  <2>4. CASE s \in InFlight
    BY <2>3, <2>4
  <2>5. CASE s \notin InFlight
    <3>1. Kept = Holders \ {r}
      BY <2>5
    <3> QED
      BY <2>2, <2>5, <3>1
  <2> QED
    BY <2>4, <2>5
<1>5. Cardinality(Holders') = Cardinality(Kept) + Cardinality(W)
  <2>1. Kept \in SUBSET Requests /\ W \in SUBSET Requests /\ Kept \cap W = {}
    BY <1>1, <1>2
  <2> HIDE DEF Kept
  <2> QED
    BY <1>3, <2>1, Hands
<1>6. Cardinality(W) \in Nat /\ Cardinality(Kept) \in Nat
  <2>1. Kept \in SUBSET Requests /\ W \in SUBSET Requests
    BY <1>1, <1>2
  <2> HIDE DEF Kept
  <2> QED
    BY <2>1, HoldersFinite
<1>7. SemaphoreAccounted'
  <2>1. value' + Cardinality(Holders') = MaxConcurrency
    <3>1. n + Cardinality(Kept) = MaxConcurrency
      <4>1. Cardinality(Holders \ {r}) \in Nat
        BY <1>1, HoldersFinite
      <4> QED
        BY <1>4, <4>1
    <3> HIDE DEF Kept
    <3> QED
      BY <1>3, <1>5, <1>6, <3>1
  <2> QED
    BY <2>1 DEF SemaphoreAccounted
<1>8. value' \in 0..MaxConcurrency
  <2> HIDE DEF Kept
  <2> QED
    BY <1>2, <1>3, <1>5, <1>6, <1>7, ConnectionGateAssumption DEF SemaphoreAccounted
<1>9. NoLostWakeup'
  <2>1. CASE Cardinality(W) = n
    BY <1>3, <2>1 DEF NoLostWakeup
  <2>2. CASE W = Waiting \ {r}
    BY <1>3, <2>2 DEF NoLostWakeup
  <2>3. CASE Cardinality(W) = 1
    <3>1. W # {}
      BY <2>3, FS_EmptySet
    <3> QED
      BY <1>1, <1>2, <1>3, <3>1 DEF NoLostWakeup
  <2> QED
    BY <1>2, <2>1, <2>2, <2>3
<1> QED
  BY <1>3, <1>7, <1>8, <1>9

\* A connection the driver opens is one of the links.
LEMMA OpenLinkTypes ==
  ASSUME TypeOK, OpenLink
  PROVE  opened' \in 0..MaxLinks /\ opened' \in Links /\ open' \subseteq Links
<1>1. opened \in 0..MaxLinks /\ opened < MaxLinks /\ opened' = opened + 1
  BY DEF TypeOK, OpenLink
<1>2. opened' \in 0..MaxLinks /\ opened' \in Links
  BY <1>1, ConnectionGateAssumption DEF Links
<1> QED
  BY <1>2 DEF TypeOK, OpenLink

\* A step outside the semaphore keeps its accounts (dispatcher.py:66-128, 437-446).
LEMMA ElsewhereKeeps ==
  ASSUME IInv, Elsewhere
  PROVE  IInv'
<1> USE ConnectionGateAssumption DEF IInv, TypeOK, Links, Procs, States, InFlight,
        Calling, Reconnecting, Outcomes, CancelTimer, ResetTimer, Goto, Use
<1>1. TypeOK' /\ value' = value
  <2>1. CASE Connects
    <3>1. CASE ConnectStart \/ ConnectFails
      BY <3>1 DEF ConnectStart, ConnectFails
    <3>2. CASE ConnectRegisters
      BY <3>2, OpenLinkTypes DEF ConnectRegisters
    <3>3. CASE ConnectBadTimeout
      BY <3>3, OpenLinkTypes DEF ConnectBadTimeout
    <3> QED
      BY <2>1, <3>1, <3>2, <3>3 DEF Connects
  <2>2. CASE TimerExpires \/ TimerCloses
    BY <2>2 DEF TimerExpires, TimerCloses
  <2>3. ASSUME NEW r \in Requests, Refused(r) \/ NextCall(r) \/ CallLost(r) \/ CloseOld(r)
        PROVE  TypeOK' /\ value' = value
    <3>1. CASE Refused(r)
      BY <3>1 DEF Refused
    <3>2. CASE NextCall(r)
      BY <3>2 DEF NextCall
    <3>3. CASE CallLost(r)
      BY <3>3 DEF CallLost
    <3>4. CASE CloseOld(r)
      BY <3>4 DEF CloseOld
    <3> QED
      BY <2>3, <3>1, <3>2, <3>3, <3>4
  <2>4. ASSUME NEW r \in Requests, OpenNew(r) PROVE TypeOK' /\ value' = value
    <3>1. opened' \in 0..MaxLinks /\ opened' \in Links /\ open' \subseteq Links
      BY <2>4, OpenLinkTypes DEF OpenNew
    <3> HIDE DEF Links
    <3>2. pc' \in [Procs -> States] /\ uses' \in [Procs -> Links \cup {NoLink}]
      BY <2>4, <3>1 DEF OpenNew
    <3> QED
      BY <2>4, <3>1, <3>2 DEF OpenNew
  <2>5. ASSUME NEW d \in Closers, Disconnects(d) PROVE TypeOK' /\ value' = value
    BY <2>5 DEF Disconnects, Disconnect, Disconnected, CancelDisconnect
  <2>6. ASSUME NEW l \in Links, DropLink(l) PROVE TypeOK' /\ value' = value
    BY <2>6 DEF DropLink
  <2>7. CASE UNCHANGED vars
    BY <2>7 DEF vars
  <2> QED
    BY <2>1, <2>2, <2>3, <2>4, <2>5, <2>6, <2>7 DEF Elsewhere
<1>2. \A r \in Requests :
        /\ pc'[r] = "waiting" <=> pc[r] = "waiting"
        /\ pc'[r] = "granted" <=> pc[r] = "granted"
        /\ pc'[r] \in InFlight <=> pc[r] \in InFlight
  BY DEF Elsewhere, Connects, ConnectStart, ConnectRegisters, ConnectFails,
         ConnectBadTimeout, TimerExpires, TimerCloses, Refused, NextCall, CallLost,
         CloseOld, OpenNew, Disconnects, Disconnect, Disconnected, CancelDisconnect,
         DropLink, vars
<1>3. Holders' = Holders /\ Waiting' = Waiting
  BY <1>2 DEF Holders, Waiting
<1>4. SemaphoreAccounted'
  BY <1>1, <1>3 DEF SemaphoreAccounted
<1>5. NoLostWakeup'
  BY <1>1, <1>2, <1>3 DEF NoLostWakeup
<1> QED
  BY <1>1, <1>4, <1>5

\* Entering keeps the invariant: a free unit is taken, or the request queues.
LEMMA EnterKeeps ==
  ASSUME IInv, NEW r \in Requests, Enter(r)
  PROVE  IInv'
<1> USE ConnectionGateAssumption DEF IInv, TypeOK, Procs, States, InFlight, Calling,
        Reconnecting, Goto, Use
<1>1. CASE value = 0 \/ Queued # {}
  <2>1. /\ pc' = [pc EXCEPT ![r] = "waiting"]
        /\ UNCHANGED <<store, value, expiring, link, open, opened, drops, uses>>
        /\ arrivals' = Append(arrivals, r)
        /\ CancelTimer
        /\ pc[r] = "new"
    BY <1>1 DEF Enter
  <2>2. TypeOK'
    BY <2>1 DEF CancelTimer
  <2>3. SemaphoreAccounted'
    <3>1. Holders' = Holders
      BY <2>1 DEF Holders
    <3> QED
      BY <2>1, <3>1 DEF SemaphoreAccounted
  <2>4. NoLostWakeup'
    BY <1>1, <2>1 DEF NoLostWakeup, Queued, Waiting
  <2> QED
    BY <2>2, <2>3, <2>4
<1>2. CASE ~(value = 0 \/ Queued # {})
  <2>1. /\ pc' = [pc EXCEPT ![r] = "calling"]
        /\ value' = value - 1
        /\ UNCHANGED <<store, arrivals, expiring, link, open, opened, drops>>
        /\ uses' = [uses EXCEPT ![r] = link]
        /\ CancelTimer
        /\ pc[r] = "new"
    BY <1>2 DEF Enter
  <2>2. TypeOK'
    BY <1>2, <2>1 DEF CancelTimer
  <2>3. SemaphoreAccounted'
    <3>1. Holders' = Holders \cup {r} /\ r \notin Holders /\ Holders \in SUBSET Requests
      BY <2>1 DEF Holders
    <3>2. IsFiniteSet(Holders) /\ Cardinality(Holders) \in Nat
      BY <3>1, HoldersFinite
    <3>3. Cardinality(Holders') = Cardinality(Holders) + 1
      BY <3>1, <3>2, FS_AddElement
    <3> QED
      BY <2>1, <3>2, <3>3 DEF SemaphoreAccounted
  <2>4. NoLostWakeup'
    BY <1>2, <2>1 DEF NoLostWakeup, Queued, Waiting
  <2> QED
    BY <2>2, <2>3, <2>4
<1> QED
  BY <1>1, <1>2

\* A waiter that resumes keeps the invariant, and takes the unit it was given.
LEMMA ResumeKeeps ==
  ASSUME IInv, NEW r \in Requests, Resume(r)
  PROVE  IInv'
<1>1. PICK W \in First(value, Waiting) : Grant(W, value, r, "calling")
  BY DEF Resume
<1>2. pc[r] = "granted" /\ value \in Nat /\ value' = value - Cardinality(W)
  BY <1>1, ConnectionGateAssumption DEF Resume, Grant, IInv, TypeOK
<1>3. Waiting \ {r} = Waiting /\ r \in Holders
  BY <1>2 DEF Waiting, Holders
<1>4. value + Cardinality(Holders \ {r}) + 1 = MaxConcurrency
  <2>1. Cardinality(Holders \ {r}) = Cardinality(Holders) - 1
    BY <1>3, LeavesHolders DEF IInv
  <2>2. Holders \in SUBSET Requests
    BY DEF Holders
  <2>3. Cardinality(Holders) \in Nat
    BY <2>2, HoldersFinite
  <2> QED
    BY <1>2, <2>1, <2>3, ConnectionGateAssumption DEF IInv, SemaphoreAccounted
<1>5. /\ value' \in 0..MaxConcurrency
      /\ pc' \in [Procs -> States]
      /\ SemaphoreAccounted'
      /\ NoLostWakeup'
  <2>1. "calling" \in States /\ "calling" \in InFlight
    BY DEF States, InFlight, Calling
  <2>2. value + Cardinality(Holders \ {r}) + (IF "calling" \in InFlight THEN 1 ELSE 0)
          = MaxConcurrency
    BY <1>4, <2>1
  <2>3. W \in First(value, Waiting \ {r})
    BY <1>3
  <2>4. value <= value /\ value \in {1, value}
    BY <1>2
  <2> QED
    BY <1>1, <1>2, <2>1, <2>2, <2>3, <2>4, Handover
<1> QED
  BY <1>5 DEF Resume, Use, IInv, TypeOK

\* Cancelling a waiter keeps the invariant: what it was given moves on.
LEMMA CancelQueuedPreserves ==
  ASSUME IInv, NEW r \in Requests, CancelQueued(r)
  PROVE  IInv'
<1> DEFINE n == IF pc[r] = "granted" THEN value + 1 ELSE value
<1>1. PICK W \in First(n, Waiting \ {r}) : Grant(W, n, r, "cancelled")
  BY DEF CancelQueued
<1>2. /\ pc[r] \in {"waiting", "granted"}
      /\ UNCHANGED <<store, arrivals, timer, expiring, link, open, opened, drops, uses>>
      /\ value \in Nat
  BY ConnectionGateAssumption DEF CancelQueued, IInv, TypeOK
<1>3. "cancelled" \in States /\ "cancelled" \notin InFlight
  BY DEF States, Outcomes, InFlight, Calling, Reconnecting
<1>4. n \in Nat /\ n + Cardinality(Holders \ {r}) = MaxConcurrency
  <2>1. Holders \in SUBSET Requests
    BY DEF Holders
  <2>2. Cardinality(Holders) \in Nat
    BY <2>1, HoldersFinite
  <2>3. Cardinality(Holders \ {r}) =
          IF r \in Holders THEN Cardinality(Holders) - 1 ELSE Cardinality(Holders)
    BY LeavesHolders DEF IInv
  <2>4. r \in Holders <=> pc[r] = "granted"
    BY <1>2 DEF Holders, InFlight, Calling, Reconnecting
  <2> QED
    BY <1>2, <2>2, <2>3, <2>4, ConnectionGateAssumption DEF IInv, SemaphoreAccounted
<1>5. /\ value' \in 0..MaxConcurrency
      /\ pc' \in [Procs -> States]
      /\ SemaphoreAccounted'
      /\ NoLostWakeup'
  <2> HIDE DEF n
  <2>1. n + Cardinality(Holders \ {r}) + (IF "cancelled" \in InFlight THEN 1 ELSE 0)
          = MaxConcurrency
    <3>1. Holders \ {r} \in SUBSET Requests
      BY DEF Holders
    <3>2. Cardinality(Holders \ {r}) \in Nat
      BY <3>1, HoldersFinite
    <3> QED
      BY <1>3, <1>4, <3>2, ConnectionGateAssumption
  <2>2. n <= n /\ n \in {1, n}
    BY <1>4
  <2> QED
    BY <1>1, <1>3, <1>4, <2>1, <2>2, Handover
<1> QED
  BY <1>2, <1>5 DEF IInv, TypeOK

\* Leaving keeps the invariant: the unit goes back, or to the next in line.
LEMMA LeaveKeeps ==
  ASSUME IInv, NEW r \in Requests, NEW s \in Outcomes, pc[r] \in InFlight, Leave(r, s)
  PROVE  /\ value' \in 0..MaxConcurrency
         /\ pc' \in [Procs -> States]
         /\ timer' \in {"none", "armed", "closing", "off"}
         /\ SemaphoreAccounted'
         /\ NoLostWakeup'
<1>1. PICK W \in First(1, Waiting) : Grant(W, value + 1, r, s)
  BY DEF Leave
<1>2. s \in States /\ s \notin InFlight /\ s \notin {"waiting", "granted"}
  BY DEF States, Outcomes, InFlight, Calling, Reconnecting
<1>3. Waiting \ {r} = Waiting /\ r \in Holders
  BY DEF Waiting, Holders, InFlight, Calling, Reconnecting
<1>4. value \in Nat /\ value + 1 + Cardinality(Holders \ {r}) = MaxConcurrency
  <2>1. Holders \in SUBSET Requests
    BY DEF Holders
  <2>2. Cardinality(Holders) \in Nat
    BY <2>1, HoldersFinite
  <2>3. Cardinality(Holders \ {r}) = Cardinality(Holders) - 1
    BY <1>3, LeavesHolders DEF IInv
  <2> QED
    BY <2>2, <2>3, ConnectionGateAssumption DEF IInv, TypeOK, SemaphoreAccounted
<1>5. timer' \in {"none", "armed", "closing", "off"}
  BY DEF Leave, ResetTimer, IInv, TypeOK
<1>6. W \in First(1, Waiting \ {r})
  BY <1>1, <1>3
<1>7. value + 1 + Cardinality(Holders \ {r}) + (IF s \in InFlight THEN 1 ELSE 0)
        = MaxConcurrency
  <2>1. Holders \ {r} \in SUBSET Requests
    BY DEF Holders
  <2>2. Cardinality(Holders \ {r}) \in Nat
    BY <2>1, HoldersFinite
  <2> QED
    BY <1>2, <1>4, <2>2, ConnectionGateAssumption
<1>8. value + 1 \in Nat /\ 1 \in Nat /\ 1 <= value + 1
  BY <1>4
<1> QED
  BY <1>1, <1>2, <1>5, <1>6, <1>7, <1>8, Handover

\* However a request comes to leave, the invariant is kept.
LEMMA LeavesKeeps ==
  ASSUME IInv, NEW r \in Requests, Leaves(r)
  PROVE  IInv'
<1>1. PICK s \in Outcomes : Leave(r, s)
  BY DEF Leaves, CallReturns, CallFails, OpenFails, RetryLost, CancelInFlight, Outcomes
<1>2. /\ pc[r] \in InFlight
      /\ UNCHANGED <<store, arrivals, expiring, link, open, opened, drops, uses>>
  BY DEF Leaves, CallReturns, CallFails, OpenFails, RetryLost, CancelInFlight,
         InFlight, Calling, Reconnecting
<1>3. /\ value' \in 0..MaxConcurrency
      /\ pc' \in [Procs -> States]
      /\ timer' \in {"none", "armed", "closing", "off"}
      /\ SemaphoreAccounted'
      /\ NoLostWakeup'
  BY <1>1, <1>2, LeaveKeeps
<1> QED
  BY <1>2, <1>3 DEF IInv, TypeOK

\* Nobody holds or awaits a unit at first.
LEMMA Initially == Init => IInv
<1> SUFFICES ASSUME Init PROVE IInv
  OBVIOUS
<1>1. TypeOK
  BY ConnectionGateAssumption DEF Init, TypeOK, States
<1>2. Holders = {} /\ Waiting = {}
  BY DEF Init, Holders, Waiting, InFlight, Calling, Reconnecting, Procs
<1>3. SemaphoreAccounted
  BY <1>2, FS_EmptySet, ConnectionGateAssumption DEF Init, SemaphoreAccounted
<1> QED
  BY <1>1, <1>2, <1>3 DEF IInv, NoLostWakeup

\* The invariant the safety theorems rest on is inductive.
LEMMA Inductive == Spec => []IInv
<1>1. IInv /\ [Next]_vars => IInv'
  BY Cases, ElsewhereKeeps, EnterKeeps, ResumeKeeps, CancelQueuedPreserves, LeavesKeeps
<1> QED
  BY Initially, <1>1, PTL DEF Spec

-----------------------------------------------------------------------------

\* Every variable keeps to its states: the semaphore's count between none and
\* max_concurrency, in particular (dispatcher.py:43-131, 496-525).
THEOREM TypeCorrect == Spec => []TypeOK
BY Inductive, PTL DEF IInv

\* For any max_concurrency, no handover, cancel or failure leaks or duplicates
\* a unit of the semaphore (dispatcher.py:71-80).
THEOREM SemaphoreNeverLeaks == Spec => []SemaphoreAccounted
BY Inductive, PTL DEF IInv

\* For any number of requests, no cancel swallows the wakeup of the next in
\* line (dispatcher.py:74, 78).
THEOREM WakeupsNeverLost == Spec => []NoLostWakeup
BY Inductive, PTL DEF IInv

-----------------------------------------------------------------------------
(* One request at a time.  The request in flight then works on the driver's *)
(* link, and has seen it closed by the time it opens another.               *)

Alone == \A x, y \in Holders : x = y

SerialInv ==
  /\ \A r \in Requests : pc[r] \in InFlight => uses[r] = link
  /\ \A r \in Requests : pc[r] = "opening" => link \notin open
  /\ store \in {"absent", "connecting"} =>
       open = {} /\ \A r \in Requests : pc[r] = "new"
  /\ NoStrayLink

\* With max_concurrency 1, two requests never hold the semaphore at once.
LEMMA OneHolder ==
  ASSUME IInv, MaxConcurrency = 1
  PROVE  Alone
<1>1. Holders \in SUBSET Requests
  BY DEF Holders
<1>2. IsFiniteSet(Holders) /\ Cardinality(Holders) \in Nat
  BY <1>1, HoldersFinite
<1>3. Cardinality(Holders) = 0 \/ Cardinality(Holders) = 1
  BY <1>2 DEF IInv, TypeOK, SemaphoreAccounted
<1>4. CASE Cardinality(Holders) = 0
  <2>1. Holders = {}
    BY <1>2, <1>4, FS_EmptySet
  <2> QED
    BY <2>1 DEF Alone
<1>5. CASE Cardinality(Holders) = 1
  <2>1. \E x : Holders = {x}
    BY <1>2, <1>5, FS_Singleton
  <2> QED
    BY <2>1 DEF Alone
<1> QED
  BY <1>3, <1>4, <1>5

\* Where the semaphore hands requests on, no link is touched.
LEMMA SerialQueue ==
  ASSUME IInv, SerialInv, NEW r \in Requests,
         Enter(r) \/ Resume(r) \/ CancelQueued(r) \/ Leaves(r)
  PROVE  SerialInv'
<1>1. /\ UNCHANGED <<store, link, open, opened>>
      /\ store \notin {"absent", "connecting"}
  <2>1. pc[r] = "new" => store = "open"
    BY DEF Enter, Resume, CancelQueued, Leaves, CallReturns, CallFails, OpenFails,
           RetryLost, CancelInFlight, InFlight, Calling, Reconnecting
  <2>2. UNCHANGED <<store, link, open, opened>>
    BY DEF Enter, Resume, CancelQueued, Leaves, CallReturns, CallFails, OpenFails,
           RetryLost, CancelInFlight
  <2> QED
    BY <2>1, <2>2 DEF SerialInv
<1>2. \A x \in Requests :
        pc'[x] \in InFlight =>
          \/ pc'[x] = pc[x] /\ uses'[x] = uses[x]
          \/ pc'[x] = "calling" /\ uses'[x] = link
  <2> USE DEF IInv, TypeOK, Procs, InFlight, Calling, Reconnecting
  <2>1. CASE Enter(r)
    BY <2>1 DEF Enter, Goto, Use
  <2>2. CASE Resume(r)
    BY <2>2 DEF Resume, Grant, Use
  <2>3. CASE CancelQueued(r)
    BY <2>3 DEF CancelQueued, Grant
  <2>4. CASE Leaves(r)
    BY <2>4 DEF Leaves, CallReturns, CallFails, OpenFails, RetryLost, CancelInFlight,
                Leave, Grant
  <2> QED
    BY <2>1, <2>2, <2>3, <2>4
<1> QED
  BY <1>1, <1>2 DEF SerialInv, NoStrayLink, InFlight, Calling, Reconnecting

\* A step of the one request that holds the semaphore, or of no request,
\* leaves no link behind.
LEMMA SerialElsewhere ==
  ASSUME IInv, Alone, SerialInv, Elsewhere
  PROVE  SerialInv'
<1> USE DEF IInv, TypeOK, SerialInv, NoStrayLink, Procs, InFlight, Calling,
        Reconnecting, Goto, Use
<1>1. CASE Connects
  BY <1>1 DEF Connects, ConnectStart, ConnectRegisters, ConnectFails,
              ConnectBadTimeout, OpenLink
<1>2. CASE TimerExpires \/ TimerCloses
  BY <1>2 DEF TimerExpires, TimerCloses
<1>3. ASSUME NEW r \in Requests, Refused(r) PROVE SerialInv'
  BY <1>3 DEF Refused
<1>4. ASSUME NEW r \in Requests, NextCall(r) \/ CallLost(r) PROVE SerialInv'
  BY <1>4 DEF NextCall, CallLost
<1>5. ASSUME NEW r \in Requests, CloseOld(r) PROVE SerialInv'
  BY <1>5 DEF CloseOld
<1>6. ASSUME NEW r \in Requests, OpenNew(r) PROVE SerialInv'
  <2>1. \A x \in Requests : pc[x] \in InFlight => x = r
    BY <1>6 DEF Alone, Holders, OpenNew
  <2> QED
    BY <1>6, <2>1 DEF OpenNew, OpenLink
<1>7. ASSUME NEW d \in Closers, Disconnects(d) PROVE SerialInv'
  BY <1>7, ConnectionGateAssumption
     DEF Disconnects, Disconnect, Disconnected, CancelDisconnect
<1>8. ASSUME NEW l \in Links, DropLink(l) PROVE SerialInv'
  BY <1>8 DEF DropLink
<1>9. CASE UNCHANGED vars
  BY <1>9 DEF vars
<1> QED
  BY <1>1, <1>2, <1>3, <1>4, <1>5, <1>6, <1>7, <1>8, <1>9 DEF Elsewhere

\* With max_concurrency 1, whatever is lost, reconnected, expired, cancelled or
\* disconnected, no link but the driver's own is left open
\* (dispatcher.py:241-245, 431-446).
THEOREM NoLinkLeftBehind ==
  ASSUME MaxConcurrency = 1
  PROVE  Spec => []NoStrayLink
<1>1. Init => SerialInv
  BY DEF Init, SerialInv, NoStrayLink, InFlight, Calling, Reconnecting, Procs
<1>2. IInv /\ SerialInv /\ [Next]_vars => SerialInv'
  BY OneHolder, Cases, SerialQueue, SerialElsewhere
<1>3. SerialInv => NoStrayLink
  BY DEF SerialInv
<1> QED
  BY <1>1, <1>2, <1>3, Inductive, PTL DEF Spec

-----------------------------------------------------------------------------
(* Retries *)

Admitted(r) == pc[r] \in InFlight \cup {"waiting", "granted"}
Ticking == timer \in {"armed", "closing"}
WasQueued(r) == \E i \in DOMAIN arrivals : arrivals[i] = r
AnotherEnded(r) == \E q \in Requests \ {r} : Ended(q)

\* Every request stops the timer when it comes, and only one that ends starts it.
TimerInv ==
  /\ \A r \in Requests : Admitted(r) /\ Ticking => AnotherEnded(r)
  /\ \A r \in Requests : pc[r] \in {"waiting", "granted"} => WasQueued(r)
  /\ MaxConcurrency = 1 =>
       \A r \in Requests : pc[r] \in InFlight /\ Ticking => WasQueued(r)
  /\ store \in {"absent", "connecting"} => \A r \in Requests : pc[r] = "new"
  /\ ~ReconnectCloses => \A r \in Requests : pc[r] # "closing"

\* A request that queued is among the arrivals from then on.
LEMMA ArrivalsGrow ==
  ASSUME IInv, NEW r \in Requests, arrivals' = Append(arrivals, r)
  PROVE  /\ \E i \in DOMAIN arrivals' : arrivals'[i] = r
         /\ \A x \in Requests : WasQueued(x) => \E i \in DOMAIN arrivals' : arrivals'[i] = x
<1>1. arrivals \in Seq(Requests)
  BY DEF IInv, TypeOK
<1>2. /\ DOMAIN arrivals' = 1..(Len(arrivals) + 1) /\ DOMAIN arrivals = 1..Len(arrivals)
      /\ arrivals'[Len(arrivals) + 1] = r
      /\ \A i \in 1..Len(arrivals) : arrivals'[i] = arrivals[i]
      /\ Len(arrivals) \in Nat
  BY <1>1
<1>3. 1..Len(arrivals) \subseteq 1..(Len(arrivals) + 1) /\ Len(arrivals) + 1 \in 1..(Len(arrivals) + 1)
  BY <1>2
<1> QED
  BY <1>2, <1>3, Zenon DEF WasQueued

\* A request that enters stops the timer.
LEMMA EnterStops ==
  ASSUME IInv, TimerInv, NEW r \in Requests, Enter(r)
  PROVE  TimerInv'
<1> USE DEF IInv, TypeOK, TimerInv, Procs
<1>1. ~Ticking'
  BY DEF Enter, CancelTimer, Ticking
<1>2. store' = "open"
  BY DEF Enter
<1>3. \A x \in Requests \ {r} : pc'[x] = pc[x]
  BY DEF Enter, Goto
<1>4. CASE pc'[r] = "waiting" /\ arrivals' = Append(arrivals, r)
  BY <1>1, <1>2, <1>3, <1>4, ArrivalsGrow DEF WasQueued
<1>5. CASE pc'[r] = "calling" /\ arrivals' = arrivals
  BY <1>1, <1>2, <1>3, <1>5 DEF WasQueued
<1> QED
  BY <1>4, <1>5 DEF Enter, Goto

\* Where the semaphore is handed on, nobody joins the queue, and who has ended
\* stays so.
LEMMA HandedOn ==
  ASSUME IInv, TimerInv, NEW r \in Requests, Resume(r) \/ CancelQueued(r) \/ Leaves(r)
  PROVE  /\ UNCHANGED <<arrivals, store>> /\ store \notin {"absent", "connecting"}
         /\ pc[r] \in InFlight \cup {"waiting", "granted"}
         /\ pc'[r] # "closing"
         /\ \A x \in Requests \ {r} :
              pc'[x] = pc[x] \/ (pc[x] = "waiting" /\ pc'[x] = "granted")
<1> USE DEF IInv, TypeOK, TimerInv, Procs, InFlight, Calling, Reconnecting, Waiting
<1>1. CASE Resume(r)
  BY <1>1 DEF Resume, Grant, First
<1>2. CASE CancelQueued(r)
  BY <1>2 DEF CancelQueued, Grant, First
<1>3. CASE Leaves(r)
  <2>1. PICK result \in {"ok", "error", "lost", "cancelled"} : Leave(r, result)
    BY <1>3 DEF Leaves, CallReturns, CallFails, OpenFails, RetryLost, CancelInFlight
  <2>2. UNCHANGED <<arrivals, store>> /\ pc[r] \in InFlight
    BY <1>3 DEF Leaves, CallReturns, CallFails, OpenFails, RetryLost, CancelInFlight
  <2> QED
    BY <2>1, <2>2 DEF Leave, Grant, First
<1> QED
  BY <1>1, <1>2, <1>3

\* A request that resumes was queued, and one that ends is another for the rest.
LEMMA QueueKeepsTimer ==
  ASSUME IInv, TimerInv, NEW r \in Requests, Resume(r) \/ CancelQueued(r) \/ Leaves(r)
  PROVE  TimerInv'
<1> USE DEF IInv, TypeOK, Procs, InFlight, Calling, Reconnecting
<1>1. /\ UNCHANGED <<arrivals, store>> /\ store \notin {"absent", "connecting"}
      /\ Admitted(r) /\ pc'[r] # "closing"
      /\ \A x \in Requests \ {r} :
           pc'[x] = pc[x] \/ (pc[x] = "waiting" /\ pc'[x] = "granted")
  BY HandedOn DEF Admitted
<1>2. \A x \in Requests : Ended(x) => Ended(x)'
  BY <1>1 DEF Ended, Outcomes, Admitted
<1>3. \A x \in Requests : AnotherEnded(x) => AnotherEnded(x)'
  BY <1>2 DEF AnotherEnded
<1>4. \A x \in Requests \ {r} : Admitted(x)' => Admitted(x)
  BY <1>1 DEF Admitted
<1>5. \A x \in Requests : WasQueued(x)' <=> WasQueued(x)
  BY <1>1 DEF WasQueued
<1>6. CASE Resume(r)
  <2>1. timer' = timer /\ pc[r] = "granted" /\ pc'[r] = "calling"
    BY <1>6 DEF Resume, Grant
  <2>2. Admitted(r)
    BY <2>1 DEF Admitted
  <2> QED
    BY <1>1, <1>3, <1>4, <1>5, <2>1, <2>2 DEF TimerInv, Ticking
<1>7. CASE CancelQueued(r)
  <2>1. timer' = timer /\ pc'[r] = "cancelled"
    BY <1>7 DEF CancelQueued, Grant
  <2> QED
    BY <1>1, <1>3, <1>4, <1>5, <2>1 DEF TimerInv, Ticking, Admitted
<1>8. CASE Leaves(r)
  <2>1. pc[r] \in InFlight /\ Ended(r)' /\ pc'[r] \in Outcomes
    BY <1>8 DEF Leaves, CallReturns, CallFails, OpenFails, RetryLost, CancelInFlight,
       Leave, Grant, Ended, Outcomes
  <2>2. \A x \in Requests \ {r} : AnotherEnded(x)'
    BY <2>1 DEF AnotherEnded
  <2>3. ~Admitted(r)'
    BY <2>1 DEF Admitted, Outcomes
  <2>4. MaxConcurrency = 1 => \A x \in Requests \ {r} : pc'[x] \notin InFlight
    <3> SUFFICES ASSUME MaxConcurrency = 1, NEW x \in Requests \ {r}, pc'[x] \in InFlight
                 PROVE  FALSE
      OBVIOUS
    <3>1. pc[x] \in InFlight
      BY <1>1
    <3> QED
      BY <2>1, <3>1, OneHolder DEF Alone, Holders
  <2>5. \A x \in Requests : pc'[x] \in {"waiting", "granted"} => WasQueued(x)'
    BY <1>1, <1>5, <2>3 DEF TimerInv, Admitted
  <2>6. ~ReconnectCloses => \A x \in Requests : pc'[x] # "closing"
    BY <1>1 DEF TimerInv
  <2>7. MaxConcurrency = 1 => \A x \in Requests : pc'[x] \notin InFlight
    BY <2>3, <2>4 DEF Admitted
  <2> QED
    BY <1>1, <2>2, <2>3, <2>5, <2>6, <2>7 DEF TimerInv
<1> QED
  BY <1>6, <1>7, <1>8

\* Elsewhere the timer is started only where no request has come yet.
LEMMA ElsewhereKeepsTimer ==
  ASSUME IInv, TimerInv, Elsewhere
  PROVE  TimerInv'
<1> USE DEF IInv, TypeOK, Procs, InFlight, Calling, Reconnecting, Goto
<1>1. CASE ConnectRegisters
  BY <1>1 DEF ConnectRegisters, OpenLink, TimerInv, Admitted, WasQueued
<1>2. ASSUME UNCHANGED <<arrivals, pc>>, Ticking' => Ticking,
             store' \in {"absent", "connecting"} => store \in {"absent", "connecting"}
      PROVE  TimerInv'
  BY <1>2 DEF TimerInv, Admitted, AnotherEnded, WasQueued, Ended
<1>3. CASE \/ ConnectStart \/ ConnectFails \/ ConnectBadTimeout \/ TimerExpires \/ TimerCloses
           \/ (\E l \in Links : DropLink(l)) \/ UNCHANGED vars
  <2>1. UNCHANGED <<arrivals, pc>>
    BY <1>3 DEF ConnectStart, ConnectFails, ConnectBadTimeout, TimerExpires, TimerCloses,
       DropLink, vars
  <2>2. Ticking' => Ticking
    BY <1>3 DEF ConnectStart, ConnectFails, ConnectBadTimeout, TimerExpires, TimerCloses,
       DropLink, vars, Ticking
  <2>3. store' \in {"absent", "connecting"} => store \in {"absent", "connecting"}
    BY <1>3 DEF ConnectStart, ConnectFails, ConnectBadTimeout, TimerExpires, TimerCloses,
       DropLink, vars
  <2> QED
    BY <1>2, <2>1, <2>2, <2>3
<1>4. ASSUME NEW r \in Requests, Refused(r) PROVE TimerInv'
  BY <1>4 DEF Refused, TimerInv, Admitted, AnotherEnded, WasQueued, Ended, Ticking, Outcomes
<1>5. ASSUME NEW r \in Requests, NextCall(r) \/ CallLost(r) \/ CloseOld(r) \/ OpenNew(r)
      PROVE  TimerInv'
  <2>1. /\ UNCHANGED <<store, arrivals, timer>>
        /\ pc[r] \in InFlight /\ pc'[r] \in InFlight
        /\ \A x \in Requests \ {r} : pc'[x] = pc[x]
        /\ pc'[r] = "closing" => ReconnectCloses
    BY <1>5 DEF NextCall, CallLost, CloseOld, OpenNew
  <2>2. \A x \in Requests : Ended(x)' <=> Ended(x)
    BY <2>1 DEF Ended, Outcomes
  <2> QED
    BY <2>1, <2>2 DEF TimerInv, Admitted, AnotherEnded, WasQueued, Ticking
<1>6. ASSUME NEW d \in Closers, Disconnects(d) PROVE TimerInv'
  <2>1. /\ UNCHANGED arrivals /\ \A x \in Requests : pc'[x] = pc[x]
        /\ Ticking' => Ticking
        /\ store' \in {"absent", "connecting"} => store \in {"absent", "connecting"}
    BY <1>6, ConnectionGateAssumption
       DEF Disconnects, Disconnect, Disconnected, CancelDisconnect, CancelTimer, Ticking
  <2> QED
    BY <2>1 DEF TimerInv, Admitted, AnotherEnded, WasQueued, Ended
<1> QED
  BY <1>1, <1>3, <1>4, <1>5, <1>6 DEF Elsewhere, Connects

\* Whatever the timer and however many requests overlap, the link of a retry is
\* closed by the database, by a disconnect, by the watchdog once another request
\* has ended (one that was waited for, if requests come one at a time) or, where
\* requests overlap, by another's reconnect (dispatcher.py:71-84, 431-446).
THEOREM RetriesUndisturbed == Spec => RetryUndisturbed
<1>1. Init => TimerInv
  BY DEF Init, TimerInv, Admitted, Ticking, InFlight, Calling, Reconnecting, Procs
<1>2. IInv /\ TimerInv /\ [Next]_vars => TimerInv'
  BY Cases, EnterStops, QueueKeepsTimer, ElsewhereKeepsTimer
<1>3. IInv /\ TimerInv /\ [Next]_vars => [Undisturbed]_vars
  <2> SUFFICES ASSUME IInv, TimerInv, [Next]_vars,
                      NEW r \in Requests, pc[r] = "retrying",
                      uses[r] \in open, uses[r] \notin open'
               PROVE  \/ drops' = drops + 1
                      \/ \E d \in Closers : pc[d] = "disconnecting" /\ pc'[d] = "ok"
                      \/ /\ timer = "closing" /\ timer' = "off"
                         /\ AnotherEnded(r)
                         /\ MaxConcurrency > 1 \/ WasQueued(r)
                      \/ /\ ReconnectCloses /\ MaxConcurrency > 1
                         /\ \E q \in Requests \ {r} : pc[q] = "closing" /\ pc'[q] = "opening"
    BY DEF Undisturbed, AnotherEnded, WasQueued
  <2>0. MaxConcurrency = 1 \/ MaxConcurrency > 1
    BY ConnectionGateAssumption
  <2>1. CASE TimerCloses
    <3>1. timer = "closing" /\ timer' = "off"
      BY <2>1 DEF TimerCloses
    <3> QED
      BY <2>0, <3>1 DEF TimerInv, Admitted, Ticking, InFlight, Calling
  <2>2. ASSUME NEW q \in Requests, CloseOld(q)
        PROVE  ReconnectCloses /\ MaxConcurrency > 1 /\ q # r
               /\ pc[q] = "closing" /\ pc'[q] = "opening"
    <3>1. pc[q] = "closing" /\ pc'[q] = "opening" /\ q # r /\ ReconnectCloses
      BY <2>2 DEF CloseOld, Goto, IInv, TypeOK, Procs, TimerInv
    <3>2. MaxConcurrency # 1
      BY <3>1, OneHolder DEF Alone, Holders, InFlight, Calling, Reconnecting
    <3> QED
      BY <2>0, <3>1, <3>2
  <2>3. CASE Elsewhere
    <3>1. \/ \E d \in Closers : Disconnected(d)
          \/ \E l \in Links : DropLink(l)
          \/ TimerCloses \/ \E q \in Requests : CloseOld(q)
      BY <2>3
         DEF Elsewhere, Connects, ConnectStart, ConnectRegisters, ConnectFails,
             ConnectBadTimeout, OpenLink, TimerExpires, Refused, NextCall, CallLost,
             OpenNew, Disconnects, Disconnect, CancelDisconnect, vars
    <3>2. CASE (\E d \in Closers : Disconnected(d)) \/ \E l \in Links : DropLink(l)
      BY <3>2 DEF Disconnected, DropLink, Goto, IInv, TypeOK, Procs
    <3> QED
      BY <2>1, <2>2, <3>1, <3>2
  <2>4. ASSUME NEW x \in Requests, Enter(x) \/ Resume(x) \/ CancelQueued(x) \/ Leaves(x)
        PROVE  FALSE
    BY <2>4 DEF Enter, Resume, CancelQueued, Leaves, CallReturns, CallFails, OpenFails,
                RetryLost, CancelInFlight
  <2> QED
    BY <2>3, <2>4, Cases
<1> QED
  BY <1>1, <1>2, <1>3, Inductive, PTL DEF Spec, RetryUndisturbed
----------------------------------------------------------------------------
(* Sets of numbers and sequences *)

\* A set of natural numbers that is not empty has a least element.
LEMMA LeastElement ==
  ASSUME NEW T \in SUBSET Nat, T # {}
  PROVE  \E x \in T : \A y \in T : x <= y
<1> DEFINE less == {ss \in Nat \X Nat : ss[1] < ss[2]}
<1>1. IsWellFoundedOn(less, Nat)
  BY NatLessThanWellFounded DEF OpToRel
<1>2. PICK x \in T : \A y \in T : <<y, x>> \notin less
  BY <1>1, WFMin
<1>3. ASSUME NEW y \in T PROVE x <= y
  <2>1. <<y, x>> \notin less
    BY <1>2
  <2> QED
    BY <2>1
<1> QED
  BY <1>3

\* A function on 1..n is a sequence of n elements.
LEMMA IsSequence ==
  ASSUME NEW S, NEW n \in Nat, NEW f \in [1..n -> S]
  PROVE  f \in Seq(S) /\ Len(f) = n /\ DOMAIN f = 1..n
<1>1. f \in Seq(S)
  BY SeqDef
<1>2. DOMAIN f = 1..n /\ DOMAIN f = 1..Len(f) /\ Len(f) \in Nat
  BY <1>1, LenProperties
<1> QED
  BY <1>1, <1>2

\* The tail of a sequence is the sequence without its first element.
LEMMA TailFacts ==
  ASSUME NEW S, NEW s \in Seq(S), Len(s) > 0
  PROVE  /\ Tail(s) \in Seq(S) /\ Len(Tail(s)) = Len(s) - 1
         /\ \A i \in 1..(Len(s) - 1) : Tail(s)[i] = s[i + 1]
<1>1. s # <<>>
  BY EmptySeq
<1> QED
  BY <1>1, HeadTailProperties
----------------------------------------------------------------------------
(* The socket behind an SQL Server link *)

\* The cardinality that the parts speak of.
LEMMA SameCardinality ==
  \A S : Link!Cardinality(S) = Cardinality(S)
BY DEF Link!Cardinality, Cardinality

LinkTyped ==
  /\ sockets \in [Fds -> Nat] /\ socketsOpened \in Nat
  /\ before \in [Connections -> SUBSET Fds]
  /\ linkPc \in [Connections -> {"start", "connecting", "connected", "open", "closed"}]
  /\ own \in [Connections -> [fd : Nat, identity : Nat]]
  /\ linked \in [Connections -> [fd : Nat, identity : Nat]]
  /\ severed \subseteq Connections \X Nat

\* The socket of a live connection is where it was opened, and no other's.
Alive(c) ==
  c \in Link!Live =>
    /\ own[c].fd \in Fds /\ sockets[own[c].fd] = own[c].identity
    /\ own[c].identity # Link!Free
    /\ \A d \in Link!Live : own[d].fd = own[c].fd => d = c

\* A socket is a connection's own, or the connection got a descriptor that was
\* listed before it.
Its(c, identity) == identity = own[c].identity \/ own[c].fd \in before[c]

\* What is known of a connection's socket is its own, and only what is known is severed.
Identified(c) ==
  linked[c] # Link!NoLink =>
    linkPc[c] \in {"open", "closed"} /\ Its(c, linked[c].identity)
SeveredOwn ==
  \A s \in severed : linkPc[s[1]] \in {"open", "closed"} /\ Its(s[1], s[2])

LinkInv ==
  /\ LinkTyped
  /\ \A c \in Connections : Alive(c) /\ Identified(c)
  /\ SeveredOwn

\* A descriptor is given out only when it is free.
LEMMA LowestIsFree ==
  ASSUME LinkTyped, Link!CanOpen
  PROVE  Link!Lowest \in Fds /\ sockets[Link!Lowest] = Link!Free
<1> DEFINE free == {f \in Fds : sockets[f] = Link!Free}
<1>1. free # {} /\ free \in SUBSET Nat
  BY LinkAssumption DEF Link!CanOpen
<1>2. PICK f \in free : \A g \in free : f <= g
  BY <1>1, LeastElement
<1>3. f \in Fds /\ sockets[f] = Link!Free /\ \A g \in Fds : sockets[g] = Link!Free => f <= g
  BY <1>2
<1> QED
  BY <1>3 DEF Link!Lowest

\* No connect is under way at first.
LEMMA LinkInitial == Link!Init => LinkInv
  BY DEF Link!Init, LinkInv, LinkTyped, Alive, Identified, SeveredOwn, Link!Live, Link!NoLink, Link!Free

\* Opening a socket takes nothing from those there are.
LEMMA OpeningKeeps ==
  ASSUME LinkTyped, Link!CanOpen,
         sockets' = [sockets EXCEPT ![Link!Lowest] = socketsOpened + 1]
  PROVE  /\ sockets' \in [Fds -> Nat]
         /\ \A f \in Fds : sockets[f] # Link!Free => sockets'[f] = sockets[f]
         /\ Link!Lowest \in Fds /\ sockets'[Link!Lowest] = socketsOpened + 1
BY LowestIsFree DEF LinkTyped

\* Every step of a link keeps what is known of its sockets.
LEMMA LinkInductive ==
  ASSUME LinkInv, [Link!Next]_linkVars
  PROVE  LinkInv'
<1> USE DEF LinkInv
<1>1. ASSUME NEW c \in Connections, Link!ListBefore(c) PROVE LinkInv'
  <2>1. /\ linkPc[c] = "start" /\ linkPc' = [linkPc EXCEPT ![c] = "connecting"]
        /\ before' = [before EXCEPT ![c] = Link!TcpSockets]
        /\ UNCHANGED <<sockets, socketsOpened, own, linked, severed>>
    BY <1>1 DEF Link!ListBefore
  <2>2. LinkTyped'
    BY <2>1 DEF LinkTyped, Link!TcpSockets
  <2>3. Link!Live' = Link!Live
    BY <2>1 DEF Link!Live, LinkTyped
  <2>4. ASSUME NEW d \in Connections PROVE Alive(d)'
    BY <2>1, <2>3, <2>4 DEF Alive
  <2>5. ASSUME NEW d \in Connections PROVE Identified(d)'
    BY <2>1, <2>5 DEF LinkTyped, Identified, Its
  <2>6. SeveredOwn'
    BY <2>1 DEF LinkTyped, SeveredOwn, Its
  <2> QED
    BY <2>2, <2>4, <2>5, <2>6
<1>2. ASSUME NEW c \in Connections, Link!Connect(c) PROVE LinkInv'
  <2> DEFINE lowest == Link!Lowest
             mine   == [fd |-> lowest, identity |-> socketsOpened + 1]
  <2>1. /\ sockets' \in [Fds -> Nat]
        /\ \A f \in Fds : sockets[f] # Link!Free => sockets'[f] = sockets[f]
        /\ lowest \in Fds /\ sockets'[lowest] = socketsOpened + 1
        /\ sockets[lowest] = Link!Free /\ lowest \in Nat /\ socketsOpened + 1 \in Nat \ {0}
    <3>1. LinkTyped /\ Link!CanOpen
          /\ sockets' = [sockets EXCEPT ![Link!Lowest] = socketsOpened + 1]
      BY <1>2 DEF Link!Connect
    <3>2. lowest \in Fds /\ sockets[lowest] = Link!Free
      BY <3>1, LowestIsFree
    <3>3. lowest \in Nat /\ socketsOpened + 1 \in Nat \ {0}
      BY <3>1, <3>2, LinkAssumption DEF LinkTyped
    <3> QED
      BY <3>1, <3>2, <3>3, OpeningKeeps
  <2>2. /\ linkPc[c] = "connecting" /\ linkPc' = [linkPc EXCEPT ![c] = "connected"]
        /\ own' = [own EXCEPT ![c] = mine] /\ socketsOpened' = socketsOpened + 1
        /\ UNCHANGED <<before, linked, severed>>
    BY <1>2 DEF Link!Connect
  <2> HIDE DEF lowest
  <2>3. LinkTyped'
    BY <2>1, <2>2 DEF LinkTyped
  <2>4. Link!Live' = Link!Live \cup {c} /\ c \notin Link!Live
    BY <2>2 DEF Link!Live, LinkTyped
  <2>5. own'[c] = mine /\ \A d \in Connections \ {c} : own'[d] = own[d]
    BY <2>2 DEF LinkTyped
  <2>6. \A d \in Link!Live : d \in Connections \ {c} /\ own[d].fd \in Fds /\ own[d].fd # lowest
    BY <2>1, <2>4 DEF Alive, Link!Live
  <2>7. Alive(c)'
    BY <2>1, <2>4, <2>5, <2>6 DEF Alive, Link!Free
  <2>8. ASSUME NEW d \in Connections, d # c PROVE Alive(d)'
    <3>1. CASE d \in Link!Live
      <4>1. /\ own'[d] = own[d] /\ own[d].fd \in Fds /\ own[d].fd # lowest
            /\ sockets[own[d].fd] = own[d].identity /\ own[d].identity # Link!Free
            /\ \A e \in Link!Live : own[e].fd = own[d].fd => e = d
        BY <2>5, <2>6, <2>8, <3>1 DEF Alive
      <4>2. sockets'[own[d].fd] = own[d].identity
        BY <2>1, <4>1
      <4>3. ASSUME NEW e \in Link!Live', own'[e].fd = own'[d].fd PROVE e = d
        <5>1. e # c
          BY <2>5, <4>1, <4>3
        <5>2. e \in Link!Live /\ own'[e] = own[e]
          BY <2>4, <2>5, <2>6, <4>3, <5>1
        <5> QED
          BY <4>1, <4>3, <5>2
      <4> QED
        BY <4>1, <4>2, <4>3 DEF Alive, Link!Free
    <3>2. CASE d \notin Link!Live
      BY <2>4, <2>8, <3>2 DEF Alive
    <3> QED
      BY <3>1, <3>2
  <2>9. ASSUME NEW d \in Connections PROVE Identified(d)'
    BY <2>2, <2>5, <2>9 DEF Identified, Its, LinkTyped
  <2>10. SeveredOwn'
    BY <2>2, <2>5 DEF LinkTyped, SeveredOwn, Its
  <2> QED
    BY <2>3, <2>7, <2>8, <2>9, <2>10
<1>3. ASSUME NEW c \in Connections, Link!ListAfter(c) PROVE LinkInv'
  <2> DEFINE new == Link!TcpSockets \ before[c]
             chosen == CHOOSE g \in new : TRUE
  <2>1. \/ linked'[c] = Link!NoLink
        \/ linked'[c] = [fd |-> chosen, identity |-> sockets[chosen]] /\ Cardinality(new) = 1
    BY <1>3, SameCardinality DEF Link!ListAfter, LinkTyped
  <2>2. ASSUME Cardinality(new) = 1 PROVE chosen \in Fds /\ Its(c, sockets[chosen])
    <3>1. IsFiniteSet(new) /\ new \subseteq Fds
      <4>1. new \in SUBSET Fds
        BY DEF Link!TcpSockets
      <4> QED
        BY <4>1, LinkAssumption, FS_Subset
    <3>2. PICK x : new = {x}
      BY <2>2, <3>1, FS_Singleton
    <3>3. chosen = x /\ x \in Fds
      BY <3>1, <3>2
    <3>4. ASSUME own[c].fd \notin before[c] PROVE sockets[x] = own[c].identity
      <4>1. /\ own[c].fd \in Fds /\ sockets[own[c].fd] = own[c].identity
            /\ own[c].identity # Link!Free
        BY <1>3 DEF Link!ListAfter, Alive, Link!Live
      <4>2. own[c].fd \in new
        BY <3>4, <4>1 DEF Link!TcpSockets
      <4> QED
        BY <3>2, <4>1, <4>2
    <3> QED
      BY <3>3, <3>4 DEF Its
  <2>3. linked' = [linked EXCEPT ![c] = linked'[c]] /\ linked'[c] \in [fd : Nat, identity : Nat]
    <3>1. linked' = [linked EXCEPT ![c] = linked'[c]]
      BY <1>3 DEF Link!ListAfter, LinkTyped
    <3>2. Link!NoLink \in [fd : Nat, identity : Nat]
      BY DEF Link!NoLink
    <3>3. Cardinality(new) = 1 => chosen \in Nat /\ sockets[chosen] \in Nat
      BY <2>2, LinkAssumption DEF LinkTyped
    <3> HIDE DEF chosen, new
    <3>4. CASE linked'[c] = Link!NoLink
      BY <3>1, <3>2, <3>4
    <3>5. CASE linked'[c] = [fd |-> chosen, identity |-> sockets[chosen]] /\ Cardinality(new) = 1
      BY <3>1, <3>3, <3>5
    <3> QED
      BY <2>1, <3>4, <3>5
  <2>4. /\ linkPc[c] = "connected" /\ linkPc' = [linkPc EXCEPT ![c] = "open"]
        /\ UNCHANGED <<sockets, socketsOpened, before, own, severed>>
    BY <1>3 DEF Link!ListAfter
  <2> HIDE DEF chosen, new
  <2>5. LinkTyped'
    BY <2>3, <2>4 DEF LinkTyped
  <2>6. Identified(c)'
    BY <2>1, <2>2, <2>4 DEF LinkTyped, Identified, Its
  <2>7. ASSUME NEW d \in Connections, d # c PROVE Identified(d)'
    BY <2>3, <2>4, <2>7 DEF LinkTyped, Identified, Its
  <2>8. Link!Live' = Link!Live
    BY <2>4 DEF Link!Live, LinkTyped
  <2>9. ASSUME NEW d \in Connections PROVE Alive(d)'
    BY <2>4, <2>8, <2>9 DEF Alive
  <2>10. SeveredOwn'
    BY <2>4 DEF LinkTyped, SeveredOwn, Its
  <2> QED
    BY <2>5, <2>6, <2>7, <2>9, <2>10
<1>4. ASSUME NEW c \in Connections, Link!Sever(c) PROVE LinkInv'
  <2>1. /\ linked[c].identity \in Nat /\ Its(c, linked[c].identity)
        /\ linkPc[c] \in {"open", "closed"}
        /\ severed' = severed \cup {<<c, linked[c].identity>>}
        /\ UNCHANGED <<sockets, socketsOpened, before, linkPc, own, linked>>
    BY <1>4 DEF Link!Sever, LinkTyped, Identified
  <2>2. LinkTyped'
    BY <2>1 DEF LinkTyped
  <2>3. ASSUME NEW d \in Connections PROVE Alive(d)' /\ Identified(d)'
    BY <2>1, <2>3 DEF Link!Live, Alive, Identified, Its
  <2>4. SeveredOwn'
    BY <2>1 DEF SeveredOwn, Its
  <2> QED
    BY <2>2, <2>3, <2>4
<1>5. ASSUME NEW c \in Connections, Link!Close(c) PROVE LinkInv'
  <2>1. /\ linkPc[c] = "open" /\ linkPc' = [linkPc EXCEPT ![c] = "closed"]
        /\ sockets' = [sockets EXCEPT ![own[c].fd] = Link!Free]
        /\ UNCHANGED <<socketsOpened, before, own, linked, severed>>
    BY <1>5 DEF Link!Close
  <2>2. LinkTyped'
    BY <2>1 DEF LinkTyped, Link!Free
  <2>3. Link!Live' = Link!Live \ {c} /\ c \in Link!Live
    BY <2>1 DEF Link!Live, LinkTyped
  <2>4. ASSUME NEW d \in Connections PROVE Alive(d)'
    <3>1. CASE d = c
      BY <2>3, <3>1 DEF Alive
    <3>2. CASE d # c
      <4>1. d \in Link!Live => own[d].fd # own[c].fd
        BY <2>3, <3>2 DEF Alive
      <4> QED
        BY <2>1, <2>3, <2>4, <4>1 DEF Alive, LinkTyped
    <3> QED
      BY <3>1, <3>2
  <2>5. ASSUME NEW d \in Connections PROVE Identified(d)'
    BY <2>1, <2>5 DEF LinkTyped, Identified, Its
  <2>6. SeveredOwn'
    BY <2>1 DEF LinkTyped, SeveredOwn, Its
  <2> QED
    BY <2>2, <2>4, <2>5, <2>6
<1>6. CASE Link!OtherOpens
  <2>1. /\ sockets' \in [Fds -> Nat]
        /\ \A f \in Fds : sockets[f] # Link!Free => sockets'[f] = sockets[f]
    BY <1>6, OpeningKeeps DEF Link!OtherOpens
  <2>2. socketsOpened' = socketsOpened + 1 /\ UNCHANGED <<before, linkPc, own, linked, severed>>
    BY <1>6 DEF Link!OtherOpens
  <2>3. LinkTyped'
    BY <2>1, <2>2 DEF LinkTyped
  <2>4. Link!Live' = Link!Live
    BY <2>2 DEF Link!Live
  <2>5. ASSUME NEW d \in Connections PROVE Alive(d)' /\ Identified(d)'
    BY <2>1, <2>2, <2>4, <2>5 DEF Alive, Identified, Its
  <2>6. SeveredOwn'
    BY <2>2 DEF SeveredOwn, Its
  <2> QED
    BY <2>3, <2>5, <2>6
<1>7. CASE Link!OtherCloses
  <2>1. PICK f \in Link!TcpSockets \ {own[c].fd : c \in Link!Live} :
          sockets' = [sockets EXCEPT ![f] = Link!Free]
    BY <1>7 DEF Link!OtherCloses
  <2>2. UNCHANGED <<socketsOpened, before, linkPc, own, linked, severed>>
    BY <1>7 DEF Link!OtherCloses
  <2>3. LinkTyped'
    BY <2>1, <2>2 DEF LinkTyped, Link!Free, Link!TcpSockets
  <2>4. Link!Live' = Link!Live
    BY <2>2 DEF Link!Live
  <2>5. ASSUME NEW d \in Connections PROVE Alive(d)' /\ Identified(d)'
    BY <2>1, <2>2, <2>4, <2>5 DEF Alive, Identified, Its, LinkTyped
  <2>6. SeveredOwn'
    BY <2>2 DEF SeveredOwn, Its
  <2> QED
    BY <2>3, <2>5, <2>6
<1>8. CASE UNCHANGED linkVars
  BY <1>8 DEF linkVars, LinkTyped, Alive, Identified, SeveredOwn, Its, Link!Live
<1> QED
  BY <1>1, <1>2, <1>3, <1>4, <1>5, <1>6, <1>7, <1>8 DEF Link!Next

\* A cancel shuts down the socket of the connection it cancels, or none, whatever
\* is opened and closed meanwhile (_connect_tracking_link, _Link.sever); only a
\* connection that got a descriptor listed before it may be taken for another.
THEOREM LinkSeversItsOwn == PartsSpec => []SeversItsOwn
<1> DEFINE Inv == kind = "link" => LinkInv
<1>1. PartsInit => Inv
  BY LinkInitial DEF PartsInit
<1>2. Inv /\ [PartsNext]_partsVars => Inv'
  <2> SUFFICES ASSUME Inv, [PartsNext]_partsVars, kind' = "link" PROVE LinkInv'
    OBVIOUS
  <2>1. kind = "link" /\ [Link!Next]_linkVars
    BY DEF PartsNext, partsVars, linkVars
  <2> QED
    BY <2>1, LinkInductive
<1>3. Inv => SeversItsOwn
  BY DEF SeversItsOwn, Link!SeversItsOwn, LinkInv, SeveredOwn, Its
<1> QED
  BY <1>1, <1>2, <1>3, PTL DEF PartsSpec
----------------------------------------------------------------------------
(* The large values held for later *)

\* The references held when g were given out, oldest first.
HeldOf(g) == IF g < LobCacheMax THEN g ELSE LobCacheMax
Newest(g) == [i \in 1..HeldOf(g) |-> (g - HeldOf(g)) + i]
HeldRefs(g) == ((g - HeldOf(g)) + 1)..g

\* As many references as the last one were given out, the newest are held in
\* order, each with its own value.
GaveOut(g) ==
  /\ Lobs!Given = 1..g
  /\ order = Newest(g)
  /\ DOMAIN cache = HeldRefs(g) /\ \A k \in HeldRefs(g) : cache[k] # <<>> /\ cache[k][2] = k

LobInv ==
  /\ given \in [Results -> Seq(Nat)]
  /\ \E g \in Nat : GaveOut(g)
  /\ \A a \in answers : a.value # <<>> => a.value[2] = a.ref

\* The cardinality that the cache speaks of.
LEMMA SameCount ==
  \A S : Lobs!Cardinality(S) = Cardinality(S)
BY DEF Lobs!Cardinality, Cardinality

\* How many references are held once g are given out, and which.
LEMMA HeldFacts ==
  ASSUME NEW g \in Nat
  PROVE  /\ HeldOf(g) \in Nat /\ HeldOf(g) <= g /\ HeldOf(g) <= LobCacheMax
         /\ g - HeldOf(g) \in Nat
         /\ Newest(g) \in Seq(Nat) /\ Len(Newest(g)) = HeldOf(g)
         /\ \A i \in 1..HeldOf(g) : Newest(g)[i] = (g - HeldOf(g)) + i
<1>1. /\ HeldOf(g) \in Nat /\ HeldOf(g) <= g /\ HeldOf(g) <= LobCacheMax
      /\ g - HeldOf(g) \in Nat
  BY LobAssumption DEF HeldOf
<1>2. \A i \in 1..HeldOf(g) : (g - HeldOf(g)) + i \in Nat
  <2> HIDE DEF HeldOf
  <2> QED
    BY <1>1
<1>3. Newest(g) \in [1..HeldOf(g) -> Nat]
  BY <1>2 DEF Newest
<1>4. \A i \in 1..HeldOf(g) : Newest(g)[i] = (g - HeldOf(g)) + i
  BY DEF Newest
<1>5. Newest(g) \in Seq(Nat) /\ Len(Newest(g)) = HeldOf(g)
  BY <1>1, <1>3, IsSequence
<1> QED
  BY <1>1, <1>4, <1>5

\* Giving out one more reference holds the newest of one more.
LEMMA OneMore ==
  ASSUME NEW g \in Nat
  PROVE  Lobs!Kept(Append(Newest(g), g + 1)) = Newest(g + 1)
<1> DEFINE all == Append(Newest(g), g + 1)
           h == HeldOf(g)
<1>1. /\ all \in Seq(Nat) /\ Len(all) = h + 1 /\ all[h + 1] = g + 1
      /\ \A i \in 1..h : all[i] = Newest(g)[i]
  <2>1. Newest(g) \in Seq(Nat) /\ g + 1 \in Nat /\ Len(Newest(g)) = h
    BY HeldFacts
  <2> QED
    BY <2>1, AppendProperties
<1>2. /\ h \in Nat /\ h <= g /\ h <= LobCacheMax /\ LobCacheMax \in Nat \ {0}
      /\ \A i \in 1..h : Newest(g)[i] = (g - h) + i
  BY HeldFacts, LobAssumption
<1>3. g + 1 \in Nat
  OBVIOUS
<1>4. /\ Newest(g + 1) \in Seq(Nat) /\ Len(Newest(g + 1)) = HeldOf(g + 1)
      /\ \A i \in 1..HeldOf(g + 1) : Newest(g + 1)[i] = ((g + 1) - HeldOf(g + 1)) + i
  BY <1>3, HeldFacts
<1>5. Lobs!Kept(all) = IF Len(all) > LobCacheMax THEN Tail(all) ELSE all
  BY DEF Lobs!Kept
<1>6. h = (IF g < LobCacheMax THEN g ELSE LobCacheMax)
      /\ HeldOf(g + 1) = (IF g + 1 < LobCacheMax THEN g + 1 ELSE LobCacheMax)
  BY DEF HeldOf
<1> SUFFICES Lobs!Kept(all) = Newest(g + 1)
  OBVIOUS
<1> HIDE DEF all, h
<1>7. \A i \in 1..(h + 1) : all[i] = (g - h) + i
  BY <1>1, <1>2
<1>8. CASE h + 1 > LobCacheMax
  <2>1. h = LobCacheMax /\ HeldOf(g + 1) = h
    BY <1>2, <1>6, <1>8
  <2>2. /\ Tail(all) \in Seq(Nat) /\ Len(Tail(all)) = h
        /\ \A i \in 1..h : Tail(all)[i] = all[i + 1]
    BY <1>1, <1>2, TailFacts
  <2>3. \A i \in 1..h : Tail(all)[i] = Newest(g + 1)[i]
    <3> TAKE i \in 1..h
    <3>1. i \in Int /\ i >= 1 /\ i <= h /\ i + 1 \in 1..(h + 1) /\ i \in 1..HeldOf(g + 1)
      BY <1>2, <2>1
    <3>2. Tail(all)[i] = (g - h) + (i + 1)
      BY <1>7, <2>2, <3>1
    <3>3. Newest(g + 1)[i] = ((g + 1) - h) + i
      BY <1>4, <2>1, <3>1
    <3>4. h \in Nat /\ g \in Nat /\ i \in Int
      BY <1>2, <3>1
    <3>5. ((g + 1) - h) + i = (g - h) + (i + 1)
      BY <3>4
    <3> QED
      BY <3>2, <3>3, <3>5
  <2>4. Tail(all) = Newest(g + 1)
    BY <1>4, <2>1, <2>2, <2>3, SeqEqual
  <2> QED
    BY <1>1, <1>5, <1>8, <2>4
<1>9. CASE ~(h + 1 > LobCacheMax)
  <2>1. h = g /\ HeldOf(g + 1) = g + 1
    BY <1>2, <1>6, <1>9
  <2>2. \A i \in 1..(h + 1) : all[i] = Newest(g + 1)[i]
    <3> TAKE i \in 1..(h + 1)
    <3>1. i \in Int /\ i \in 1..HeldOf(g + 1)
      BY <1>2, <2>1
    <3>2. all[i] = (g - h) + i
      BY <1>7
    <3>3. Newest(g + 1)[i] = ((g + 1) - (g + 1)) + i
      BY <1>4, <2>1, <3>1
    <3> QED
      BY <2>1, <3>1, <3>2, <3>3
  <2>3. Len(all) = Len(Newest(g + 1))
    BY <1>1, <1>4, <2>1
  <2>4. all = Newest(g + 1)
    BY <1>1, <1>4, <2>2, <2>3, SeqEqual
  <2> QED
    BY <1>1, <1>5, <1>9, <2>4
<1> QED
  BY <1>8, <1>9

\* The references held are those in the order.
LEMMA RefsOfNewest ==
  ASSUME NEW g \in Nat
  PROVE  Lobs!Range(Newest(g)) = HeldRefs(g)
<1>1. DOMAIN Newest(g) = 1..HeldOf(g)
  BY DEF Newest
<1>0. /\ HeldOf(g) \in Nat /\ HeldOf(g) <= g
      /\ \A i \in 1..HeldOf(g) : Newest(g)[i] = (g - HeldOf(g)) + i
  BY HeldFacts
<1> HIDE DEF HeldOf
<1>2. \A i \in 1..HeldOf(g) : Newest(g)[i] \in HeldRefs(g)
  BY <1>0 DEF HeldRefs
<1>3. ASSUME NEW k \in HeldRefs(g) PROVE \E i \in 1..HeldOf(g) : Newest(g)[i] = k
  <2>1. k - (g - HeldOf(g)) \in 1..HeldOf(g)
    BY <1>0 DEF HeldRefs
  <2>2. Newest(g)[k - (g - HeldOf(g))] = k
    BY <1>0, <2>1 DEF HeldRefs
  <2> QED
    BY <2>1, <2>2
<1> QED
  BY <1>1, <1>2, <1>3 DEF Lobs!Range

\* One more element is one more in the range.
LEMMA RangeGrows ==
  ASSUME NEW s \in Seq(Nat), NEW e \in Nat
  PROVE  Lobs!Range(Append(s, e)) = Lobs!Range(s) \cup {e}
<1> DEFINE t == Append(s, e)
           n == Len(s)
<1>1. n \in Nat /\ DOMAIN s = 1..n
  BY LenProperties
<1>2. t \in Seq(Nat) /\ Len(t) = n + 1 /\ t[n + 1] = e /\ \A i \in 1..n : t[i] = s[i]
  BY AppendProperties
<1>3. DOMAIN t = 1..(n + 1)
  BY <1>2, LenProperties
<1> HIDE DEF t, n
<1>4. 1..(n + 1) = (1..n) \cup {n + 1}
  BY <1>1
<1>5. Lobs!Range(t) = {t[i] : i \in (1..n) \cup {n + 1}}
  BY <1>3, <1>4 DEF Lobs!Range
<1>6. Lobs!Range(s) = {s[i] : i \in 1..n}
  BY <1>1 DEF Lobs!Range
<1> QED
  BY <1>2, <1>5, <1>6 DEF t

\* The cache is empty at first.
LEMMA LobInitial == Lobs!Init => LobInv
<1> SUFFICES ASSUME Lobs!Init PROVE LobInv
  OBVIOUS
<1>1. given \in [Results -> Seq(Nat)] /\ answers = {}
  BY DEF Lobs!Init
<1>2. Lobs!Given = 1..0
  BY DEF Lobs!Init, Lobs!Given, Lobs!Range
<1>3. HeldOf(0) = 0
  BY LobAssumption DEF HeldOf
<1>4. order = Newest(0) /\ DOMAIN cache = {} /\ HeldRefs(0) = {}
  BY <1>3 DEF Lobs!Init, Newest, HeldRefs
<1> QED
  BY <1>1, <1>2, <1>4 DEF LobInv, GaveOut

\* Every step of the cache keeps the newest values, each under its reference.
LEMMA LobInductive ==
  ASSUME LobInv, [Lobs!Next]_lobsVars
  PROVE  LobInv'
<1>1. ASSUME NEW r \in Results, Lobs!RegisterLob(r) PROVE LobInv'
  <2>1. PICK g \in Nat : GaveOut(g)
    BY DEF LobInv
  <2>2. Cardinality(Lobs!Given) + 1 = g + 1
    BY <2>1, FS_Interval DEF GaveOut
  <2>3. /\ order' = Lobs!Kept(Append(order, g + 1))
        /\ cache' = [k \in Lobs!Range(Lobs!Kept(Append(order, g + 1))) |->
                       IF k = g + 1 THEN <<r, g + 1>> ELSE cache[k]]
        /\ given' = [given EXCEPT ![r] = Append(@, g + 1)]
        /\ answers' = answers
    BY <1>1, <2>2, SameCount DEF Lobs!RegisterLob
  <2>4. given' \in [Results -> Seq(Nat)] /\ given'[r] = Append(given[r], g + 1)
        /\ \A q \in Results : q # r => given'[q] = given[q]
    BY <2>3 DEF LobInv
  <2>5. Lobs!Given' = 1..(g + 1)
    <3>1. Lobs!Range(given'[r]) = Lobs!Range(given[r]) \cup {g + 1}
      <4>1. given[r] \in Seq(Nat) /\ g + 1 \in Nat
        BY DEF LobInv
      <4> QED
        BY <2>4, <4>1, RangeGrows
    <3>2. Lobs!Given' = Lobs!Given \cup {g + 1}
      BY <2>4, <3>1 DEF Lobs!Given
    <3>3. 1..(g + 1) = (1..g) \cup {g + 1}
      OBVIOUS
    <3> QED
      BY <2>1, <3>2, <3>3 DEF GaveOut
  <2>6. order' = Newest(g + 1)
    BY <2>1, <2>3, OneMore DEF GaveOut
  <2>7. /\ DOMAIN cache' = HeldRefs(g + 1)
        /\ \A k \in HeldRefs(g + 1) : cache'[k] = IF k = g + 1 THEN <<r, g + 1>> ELSE cache[k]
    BY <2>3, <2>6, RefsOfNewest
  <2>8. \A k \in HeldRefs(g + 1) : k # g + 1 => k \in HeldRefs(g)
    <3>1. g + 1 - HeldOf(g + 1) >= g - HeldOf(g) /\ HeldOf(g) \in Nat /\ HeldOf(g + 1) \in Nat
      BY LobAssumption DEF HeldOf
    <3> QED
      BY <3>1 DEF HeldRefs
  <2>9. \A k \in HeldRefs(g + 1) : cache'[k] # <<>> /\ cache'[k][2] = k
    BY <2>1, <2>7, <2>8 DEF GaveOut
  <2>10. GaveOut(g + 1)'
    BY <2>5, <2>6, <2>7, <2>9 DEF GaveOut
  <2> QED
    BY <2>3, <2>4, <2>10 DEF LobInv
<1>2. ASSUME NEW ref \in Lobs!Given, Lobs!ExploreDownloadRef(ref) PROVE LobInv'
  <2>1. UNCHANGED <<cache, order, given>>
    BY <1>2 DEF Lobs!ExploreDownloadRef
  <2>2. PICK g \in Nat : GaveOut(g)
    BY DEF LobInv
  <2>3. GaveOut(g)'
    BY <2>1, <2>2 DEF GaveOut, Lobs!Given
  <2>4. \A a \in answers' :
          \/ a \in answers
          \/ a.ref = ref /\ a.value = IF ref \in DOMAIN cache THEN cache[ref] ELSE <<>>
    BY <1>2 DEF Lobs!ExploreDownloadRef
  <2>5. \A a \in answers' : a.value # <<>> => a.value[2] = a.ref
    BY <2>2, <2>4 DEF LobInv, GaveOut
  <2> QED
    BY <2>1, <2>3, <2>5 DEF LobInv
<1>3. CASE UNCHANGED lobsVars
  BY <1>3 DEF lobsVars, LobInv, GaveOut, Lobs!Given
<1> QED
  BY <1>1, <1>2, <1>3 DEF Lobs!Next

\* The references of the last LobCacheMax values are good, each for its own
\* value, and no others (_register_lob, explore_download_ref).
THEOREM LobsLatestKept == PartsSpec => []LatestKept
<1> DEFINE Inv == kind = "lobs" => LobInv
<1>1. PartsInit => Inv
  BY LobInitial DEF PartsInit
<1>2. Inv /\ [PartsNext]_partsVars => Inv'
  <2> SUFFICES ASSUME Inv, [PartsNext]_partsVars, kind' = "lobs" PROVE LobInv'
    OBVIOUS
  <2>1. kind = "lobs" /\ [Lobs!Next]_lobsVars
    BY DEF PartsNext, partsVars, lobsVars
  <2> QED
    BY <2>1, LobInductive
<1>3. Inv => LatestKept
  <2> SUFFICES ASSUME LobInv PROVE Lobs!LatestKept
    BY DEF LatestKept
  <2>1. PICK g \in Nat : GaveOut(g)
    BY DEF LobInv
  <2>2. Lobs!Cardinality(Lobs!Given) = g
    BY <2>1, FS_Interval, SameCount DEF GaveOut
  <2>3. Len(order) = HeldOf(g) /\ HeldOf(g) <= LobCacheMax
    BY <2>1, HeldFacts DEF GaveOut
  <2>4. Lobs!Cardinality(DOMAIN cache) = HeldOf(g)
    <3>1. Cardinality(HeldRefs(g)) = HeldOf(g)
      <4> DEFINE h == HeldOf(g)
                 low == (g - h) + 1
      <4>1. h \in Nat /\ h <= g
        BY HeldFacts
      <4>2. HeldRefs(g) = low..g
        BY DEF HeldRefs
      <4> HIDE DEF h
      <4>3. low \in Int /\ g \in Int
        BY <4>1
      <4>4. Cardinality(low..g) = IF low > g THEN 0 ELSE (g - low) + 1
        BY <4>3, FS_Interval
      <4>5. (IF low > g THEN 0 ELSE (g - low) + 1) = h
        BY <4>1
      <4> QED
        BY <4>2, <4>4, <4>5 DEF h
    <3> QED
      BY <2>1, <3>1, SameCount DEF GaveOut
  <2>5. \A ref \in Lobs!Given : ref \in DOMAIN cache <=> ref > g - LobCacheMax
    <3>1. \A ref \in 1..g : ref \in HeldRefs(g) <=> ref > g - LobCacheMax
      BY LobAssumption DEF HeldRefs, HeldOf
    <3> QED
      BY <2>1, <3>1 DEF GaveOut
  <2> QED
    BY <2>2, <2>3, <2>4, <2>5 DEF LobInv, Lobs!LatestKept
<1> QED
  BY <1>1, <1>2, <1>3, PTL DEF PartsSpec
----------------------------------------------------------------------------
(* The reader of the server's lines *)

\* Of a finite set of numbers, one more is at most e than at most s when e is
\* the next after s.
LEMMA CountNext ==
  ASSUME NEW E \in SUBSET Nat, IsFiniteSet(E), NEW s \in Nat, NEW e \in E, s < e,
         \A d \in E : ~(s < d /\ d < e)
  PROVE  /\ Cardinality({d \in E : d <= s}) \in Nat
         /\ Cardinality({d \in E : d <= e}) = Cardinality({d \in E : d <= s}) + 1
<1> DEFINE S == {d \in E : d <= s}
<1>1. {d \in E : d <= e} = S \cup {e}
  <2>1. \A d \in E : d <= e <=> d <= s \/ d = e
    <3> TAKE d \in E
    <3>1. d \in Nat /\ e \in Nat /\ ~(s < d /\ d < e)
      OBVIOUS
    <3> QED
      BY <3>1
  <2> QED
    BY <2>1
<1>2. IsFiniteSet(S) /\ e \notin S
  <2>1. S \in SUBSET E
    OBVIOUS
  <2> QED
    BY <2>1, FS_Subset
<1> QED
  BY <1>1, <1>2, FS_AddElement, FS_CardinalityType

\* Two members of it with as many below them are one.
LEMMA CountTells ==
  ASSUME NEW E \in SUBSET Nat, IsFiniteSet(E), NEW c \in E, NEW e \in E,
         Cardinality({d \in E : d <= c}) = Cardinality({d \in E : d <= e})
  PROVE  c = e
<1>1. ASSUME NEW x \in E, NEW y \in E, x < y,
             Cardinality({d \in E : d <= x}) = Cardinality({d \in E : d <= y})
      PROVE  FALSE
  <2> DEFINE X == {d \in E : d <= x}
             Y == {d \in E : d <= y}
  <2>1. X \in SUBSET Y /\ y \in Y /\ y \notin X
    <3>1. \A d \in E : d \in Nat /\ x \in Nat /\ y \in Nat
      OBVIOUS
    <3>2. \A d \in E : (d <= x => d <= y) /\ y <= y /\ ~(y <= x)
      BY <1>1, <3>1
    <3> QED
      BY <3>2
  <2>2. Y \in SUBSET E
    OBVIOUS
  <2>3. IsFiniteSet(Y)
    BY <2>2, FS_Subset
  <2> HIDE DEF X, Y
  <2>4. X = Y
    BY <1>1, <2>1, <2>3, FS_Subset DEF X, Y
  <2> QED
    BY <2>1, <2>4
<1> QED
  BY <1>1

\* The ends of the lines of the input, and the lines by them.
Ends ==
  {i \in DOMAIN input : input[i] = NL}
    \cup (IF input = <<>> \/ Lines!Last(input) = NL THEN {} ELSE {Len(input) + 1})
EndOf(k) == CHOOSE e \in Ends : Lines!Cardinality({d \in Ends : d <= e}) = k
LengthOf(k) == EndOf(k) - (IF k = 1 THEN 0 ELSE EndOf(k - 1)) - 1
Answer(length) == IF length > Limit THEN Limit + 1 ELSE length
EndsUpTo(x) == Cardinality({d \in Ends : d <= x})

\* The cardinality that the reader speaks of.
LEMMA SameCounting ==
  \A S : Lines!Cardinality(S) = Cardinality(S)
BY DEF Lines!Cardinality, Cardinality

\* The lines of the input, by the places where they end.
LEMMA LinesByEnds ==
  Lines!Lines = [k \in 1..Cardinality(Ends) |-> Answer(LengthOf(k))]
<1>1. Lines!Lines = [k \in 1..Lines!Cardinality(Ends) |-> Answer(LengthOf(k))]
  BY DEF Lines!Lines, Ends, EndOf, LengthOf, Answer
<1> QED
  BY <1>1, SameCounting

Bytes == {input[i] : i \in DOMAIN input}
LineTyped ==
  /\ input \in Seq(Bytes)
  /\ fed \in 0..Len(input) /\ taken \in 0..fed
  /\ eof \in BOOLEAN /\ (eof => fed = Len(input))
  /\ linesPc \in {"line", "head", "skip", "over"}

\* No newline from a place to another.
NoNewline(a, b) == \A i \in a..b : input[i] # NL

\* What has been got are the first lines.
GotFirst ==
  /\ got \in Seq(Nat) /\ Len(got) <= Cardinality(Ends)
  /\ \A k \in 1..Len(got) : got[k] = Lines!Lines[k]

\* The line that is being read begins after s: the reader stands there, or at
\* the end of the input; an oversized line has no newline within the limit, nor
\* where it has been taken.
Reading(s) ==
  /\ EndsUpTo(s) = Len(got)
  /\ linesPc = "line" => taken = s \/ (s = Len(input) + 1 /\ taken = fed /\ eof)
  /\ linesPc = "head" =>
       /\ taken = s /\ consumed \in Nat /\ consumed > Limit /\ s + consumed <= fed
       /\ NoNewline(s + 1, s + consumed)
  /\ linesPc = "skip" =>
       /\ s <= taken /\ NoNewline(s + 1, taken)
       /\ s + Limit + 1 <= fed /\ NoNewline(s + 1, s + Limit + 1)

LineInv ==
  /\ LineTyped /\ GotFirst
  /\ linesPc = "over" => Len(got) = Cardinality(Ends)
  /\ linesPc # "over" => \E s \in {0} \cup Ends : Reading(s)

\* Where the lines of the input end.
LEMMA EndsFacts ==
  ASSUME LineTyped
  PROVE  /\ Len(input) \in Nat /\ DOMAIN input = 1..Len(input)
         /\ Ends \in SUBSET (1..(Len(input) + 1)) /\ IsFiniteSet(Ends)
         /\ \A i \in 1..Len(input) : i \in Ends <=> input[i] = NL
         /\ Len(input) + 1 \in Ends <=> Len(input) > 0 /\ input[Len(input)] # NL
<1>1. Len(input) \in Nat /\ DOMAIN input = 1..Len(input)
  BY LenProperties DEF LineTyped
<1>2. input = <<>> <=> Len(input) = 0
  BY EmptySeq DEF LineTyped
<1>3. Ends = {i \in 1..Len(input) : input[i] = NL}
              \cup (IF Len(input) = 0 \/ input[Len(input)] = NL THEN {} ELSE {Len(input) + 1})
  BY <1>1, <1>2 DEF Ends, Lines!Last
<1>4. Ends \in SUBSET (1..(Len(input) + 1))
  BY <1>1, <1>3
<1>5. IsFiniteSet(Ends)
  <2>1. 1 \in Int /\ Len(input) + 1 \in Int
    BY <1>1
  <2>2. IsFiniteSet(1..(Len(input) + 1))
    BY <2>1, FS_Interval
  <2> QED
    BY <1>4, <2>2, FS_Subset
<1> QED
  BY <1>1, <1>3, <1>4, <1>5

\* The line that begins after s is the next to be got.
LEMMA NextLine ==
  ASSUME LineTyped, GotFirst,
         NEW s \in {0} \cup Ends, EndsUpTo(s) = Len(got),
         NEW e \in Ends, s < e, \A d \in Ends : ~(s < d /\ d < e)
  PROVE  /\ EndsUpTo(e) = Len(got) + 1 /\ Len(got) + 1 <= Cardinality(Ends)
         /\ Lines!Lines[Len(got) + 1] = Answer(e - s - 1)
<1> DEFINE n == Len(got)
<1>1. /\ Ends \in SUBSET Nat /\ IsFiniteSet(Ends) /\ s \in Nat /\ n \in Nat
      /\ \A d \in Ends : d >= 1
  BY EndsFacts, LenProperties DEF GotFirst
<1>2. EndsUpTo(e) = n + 1
  BY <1>1, CountNext DEF EndsUpTo
<1>3. n + 1 <= Cardinality(Ends)
  <2>1. {d \in Ends : d <= e} \in SUBSET Ends
    OBVIOUS
  <2> QED
    BY <1>1, <1>2, <2>1, FS_Subset DEF EndsUpTo
<1>4. \A c \in Ends : EndOf(EndsUpTo(c)) = c
  <2> TAKE c \in Ends
  <2>1. EndOf(EndsUpTo(c)) = CHOOSE x \in Ends : EndsUpTo(x) = EndsUpTo(c)
    BY SameCounting DEF EndOf, EndsUpTo
  <2>2. \A x \in Ends : EndsUpTo(x) = EndsUpTo(c) => x = c
    BY <1>1, CountTells DEF EndsUpTo
  <2> QED
    BY <2>1, <2>2
<1>5. IF n = 0 THEN s = 0 ELSE EndOf(n) = s
  <2>1. CASE s = 0
    <3>1. {d \in Ends : d <= s} = {}
      <4>1. \A d \in Ends : d \in Nat /\ d >= 1
        BY <1>1
      <4>2. \A d \in Ends : ~(d <= s)
        BY <2>1, <4>1
      <4> QED
        BY <4>2
    <3> QED
      BY <2>1, <3>1, FS_EmptySet DEF EndsUpTo
  <2>2. CASE s # 0
    <3>1. s \in Ends /\ EndOf(n) = s
      BY <1>4, <2>2
    <3>2. s \in {d \in Ends : d <= s} /\ IsFiniteSet({d \in Ends : d <= s})
      BY <1>1, <3>1, FS_Subset
    <3>3. n # 0
      BY <3>2, FS_EmptySet DEF EndsUpTo
    <3> QED
      BY <3>1, <3>3
  <2> QED
    BY <2>1, <2>2
<1>6. EndOf(n + 1) = e
  BY <1>2, <1>4
<1>7. Lines!Lines[n + 1] = Answer(LengthOf(n + 1))
  <2>1. n + 1 \in 1..Cardinality(Ends)
    BY <1>1, <1>3, FS_CardinalityType
  <2> QED
    BY <2>1, LinesByEnds
<1>8. LengthOf(n + 1) = e - s - 1
  <2>1. LengthOf(n + 1) = EndOf(n + 1) - (IF n + 1 = 1 THEN 0 ELSE EndOf((n + 1) - 1)) - 1
    BY DEF LengthOf
  <2>2. (n + 1) - 1 = n /\ (n + 1 = 1 <=> n = 0)
    BY <1>1
  <2> QED
    BY <1>5, <1>6, <2>1, <2>2
<1> QED
  BY <1>2, <1>3, <1>7, <1>8

\* The buffer is what was fed and not taken.
LEMMA BufferFacts ==
  ASSUME LineTyped
  PROVE  /\ Len(Lines!Buffer) = fed - taken /\ fed - taken \in Nat
         /\ Lines!Buffer = <<>> <=> fed = taken
         /\ Lines!NewlineAt = {i \in 1..(fed - taken) : input[taken + i] = NL}
<1>1. /\ Len(input) \in Nat /\ fed \in Nat /\ taken \in Nat /\ taken <= fed /\ fed <= Len(input)
      /\ \A i \in 1..Len(input) : input[i] \in Bytes
  BY LenProperties, ElementOfSeq DEF LineTyped
<1>2. \A i \in (taken + 1)..fed : input[i] \in Bytes
  BY <1>1
<1>3. /\ Lines!Buffer \in Seq(Bytes)
      /\ Len(Lines!Buffer) = IF taken + 1 <= fed THEN (fed - (taken + 1)) + 1 ELSE 0
      /\ \A i \in 1..((fed - (taken + 1)) + 1) : Lines!Buffer[i] = input[((taken + 1) + i) - 1]
  <2>1. taken + 1 \in Int /\ fed \in Int
    BY <1>1
  <2> QED
    BY <1>2, <2>1, SubSeqProperties DEF Lines!Buffer
<1>4. Len(Lines!Buffer) = fed - taken /\ fed - taken \in Nat
  BY <1>1, <1>3
<1>5. Lines!Buffer = <<>> <=> fed = taken
  BY <1>1, <1>3, <1>4, EmptySeq
<1>6. DOMAIN Lines!Buffer = 1..(fed - taken)
  BY <1>3, <1>4, LenProperties
<1>7. \A i \in 1..(fed - taken) : Lines!Buffer[i] = input[taken + i]
  <2> TAKE i \in 1..(fed - taken)
  <2>1. i \in 1..((fed - (taken + 1)) + 1) /\ ((taken + 1) + i) - 1 = taken + i
    BY <1>1
  <2> QED
    BY <1>3, <2>1
<1>8. Lines!NewlineAt = {i \in 1..(fed - taken) : input[taken + i] = NL}
  BY <1>6, <1>7 DEF Lines!NewlineAt
<1> QED
  BY <1>4, <1>5, <1>8

\* The separator is the first newline the reader has not given out.
LEMMA SeparatorFacts ==
  ASSUME LineTyped, Lines!NewlineAt # {}
  PROVE  /\ Lines!Separator \in 1..(fed - taken) /\ input[taken + Lines!Separator] = NL
         /\ NoNewline(taken + 1, (taken + Lines!Separator) - 1)
<1>1. Lines!NewlineAt = {i \in 1..(fed - taken) : input[taken + i] = NL}
  BY BufferFacts
<1>2. fed \in Int /\ taken \in Int
  BY LenProperties DEF LineTyped
<1>3. Lines!NewlineAt \in SUBSET Nat
  BY <1>1, <1>2
<1>4. \E x \in Lines!NewlineAt : \A y \in Lines!NewlineAt : x <= y
  BY <1>3, LeastElement
<1>5. Lines!Separator \in Lines!NewlineAt /\ \A y \in Lines!NewlineAt : Lines!Separator <= y
  BY <1>4 DEF Lines!Separator
<1> DEFINE p == Lines!Separator
<1>6. p \in 1..(fed - taken) /\ input[taken + p] = NL
  BY <1>1, <1>5
<1> HIDE DEF p
<1>7. ASSUME NEW i \in (taken + 1)..((taken + p) - 1) PROVE input[i] # NL
  <2>1. /\ p \in Int /\ i \in Int
        /\ i - taken \in 1..(fed - taken) /\ i - taken < p /\ taken + (i - taken) = i
    BY <1>2, <1>6
  <2>2. i - taken \notin Lines!NewlineAt
    BY <1>5, <2>1 DEF p
  <2> QED
    BY <1>1, <2>1, <2>2
<1> QED
  BY <1>6, <1>7 DEF p, NoNewline

\* The end of the line that begins after s.
LEMMA EndsAtNewline ==
  ASSUME LineTyped, NEW s \in Nat, NEW e \in (s + 1)..Len(input),
         input[e] = NL, NoNewline(s + 1, e - 1)
  PROVE  e \in Ends /\ \A d \in Ends : ~(s < d /\ d < e)
<1>1. /\ Len(input) \in Nat /\ Ends \in SUBSET (1..(Len(input) + 1))
      /\ \A i \in 1..Len(input) : i \in Ends <=> input[i] = NL
  BY EndsFacts
<1>2. e \in 1..Len(input)
  BY <1>1
<1>3. ASSUME NEW d \in Ends, s < d, d < e PROVE FALSE
  <2>1. d \in 1..Len(input) /\ d \in (s + 1)..(e - 1)
    BY <1>1, <1>3
  <2> QED
    BY <1>1, <2>1 DEF NoNewline
<1> QED
  BY <1>1, <1>2, <1>3

\* The end of a last line that has no newline.
LEMMA EndsWithInput ==
  ASSUME LineTyped, NEW s \in Nat, s < Len(input), NoNewline(s + 1, Len(input))
  PROVE  Len(input) + 1 \in Ends /\ \A d \in Ends : ~(s < d /\ d < Len(input) + 1)
<1>1. /\ Len(input) \in Nat /\ Ends \in SUBSET (1..(Len(input) + 1))
      /\ \A i \in 1..Len(input) : i \in Ends <=> input[i] = NL
      /\ Len(input) + 1 \in Ends <=> Len(input) > 0 /\ input[Len(input)] # NL
  BY EndsFacts
<1>2. Len(input) \in (s + 1)..Len(input)
  BY <1>1
<1>3. ASSUME NEW d \in Ends, s < d, d < Len(input) + 1 PROVE FALSE
  <2>1. d \in 1..Len(input) /\ d \in (s + 1)..Len(input)
    BY <1>1, <1>3
  <2> QED
    BY <1>1, <2>1 DEF NoNewline
<1> QED
  BY <1>1, <1>2, <1>3 DEF NoNewline

\* One more line is got.
LEMMA GotOne ==
  ASSUME LineTyped, GotFirst, input' = input,
         NEW s \in {0} \cup Ends, EndsUpTo(s) = Len(got),
         NEW e \in Ends, s < e, \A d \in Ends : ~(s < d /\ d < e),
         got' = Append(got, Answer(e - s - 1))
  PROVE  GotFirst' /\ e \in Ends' /\ EndsUpTo(e)' = Len(got')
<1> DEFINE n == Len(got)
           a == Answer(e - s - 1)
<1>1. EndsUpTo(e) = n + 1 /\ n + 1 <= Cardinality(Ends) /\ Lines!Lines[n + 1] = a
  BY NextLine
<1>2. s \in Nat /\ e \in Nat
  BY EndsFacts
<1>3. a \in Nat
  BY <1>2, LineAssumption DEF Answer
<1>4. n \in Nat /\ got \in Seq(Nat) /\ \A k \in 1..n : got[k] = Lines!Lines[k]
  BY LenProperties DEF GotFirst
<1> HIDE DEF a
<1>5. /\ got' \in Seq(Nat) /\ Len(got') = n + 1 /\ got'[n + 1] = a
      /\ \A k \in 1..n : got'[k] = got[k]
  BY <1>3, <1>4, AppendProperties DEF a
<1> HIDE DEF n
<1>6. ASSUME NEW k \in 1..(n + 1) PROVE got'[k] = Lines!Lines[k]
  <2>1. k \in 1..n \/ k = n + 1
    BY <1>4
  <2> QED
    BY <1>1, <1>4, <1>5, <2>1
<1>7. Ends' = Ends /\ Lines!Lines' = Lines!Lines /\ EndsUpTo(e)' = EndsUpTo(e)
  BY LinesByEnds DEF Ends, Lines!Last, Lines!Lines, Lines!Cardinality, EndsUpTo
<1> QED
  BY <1>1, <1>5, <1>6, <1>7 DEF GotFirst

\* The reader has read nothing at first.
LEMMA LineInitial == Lines!Init => LineInv
<1> SUFFICES ASSUME Lines!Init PROVE LineInv
  OBVIOUS
<1>1. LineTyped
  <2>1. input \in Seq(Bytes)
    BY LineAssumption DEF Lines!Init, Bytes
  <2>2. Len(input) \in Nat
    BY <2>1, LenProperties
  <2>3. 0 \in 0..Len(input)
    BY <2>2
  <2>4. fed = 0 /\ taken = 0 /\ eof = FALSE /\ linesPc = "line"
    BY DEF Lines!Init
  <2>5. eof \in BOOLEAN /\ ~eof
    BY <2>4
  <2>6. fed \in 0..Len(input) /\ taken \in 0..fed
    BY <2>2, <2>4
  <2> QED
    BY <2>1, <2>4, <2>5, <2>6 DEF LineTyped
<1>2. EndsUpTo(0) = 0
  <2>1. {d \in Ends : d <= 0} = {}
    <3>1. \A d \in Ends : d \in Nat /\ d >= 1
      BY <1>1, EndsFacts
    <3> QED
      BY <3>1
  <2> QED
    BY <2>1, FS_EmptySet DEF EndsUpTo
<1>3. Len(got) = 0 /\ got \in Seq(Nat)
  BY EmptySeq DEF Lines!Init
<1>4. Cardinality(Ends) >= 0
  BY <1>1, EndsFacts, FS_CardinalityType
<1>5. GotFirst
  BY <1>3, <1>4 DEF GotFirst
<1>6. Reading(0)
  BY <1>2, <1>3 DEF Reading, Lines!Init
<1> QED
  BY <1>1, <1>5, <1>6 DEF LineInv, Lines!Init

\* What the numbers are.
LEMMA LineNumbers ==
  ASSUME LineTyped
  PROVE  /\ Len(input) \in Nat /\ fed \in Nat /\ taken \in Nat
         /\ taken <= fed /\ fed <= Len(input) /\ Limit \in Nat /\ IdHead \in Nat
         /\ \A s \in {0} \cup Ends : s \in Nat /\ s <= Len(input) + 1
<1>1. Len(input) \in Nat /\ Ends \in SUBSET (1..(Len(input) + 1))
  BY EndsFacts
<1> QED
  BY <1>1, LineAssumption DEF LineTyped

\* A step that leaves the input and the lines got leaves the ends.
LEMMA SameLines ==
  ASSUME input' = input
  PROVE  /\ Ends' = Ends /\ Lines!Lines' = Lines!Lines
         /\ \A x : EndsUpTo(x)' = EndsUpTo(x)
         /\ \A a, b : NoNewline(a, b)' = NoNewline(a, b)
         /\ got' = got => GotFirst' = GotFirst
<1>1. Ends' = Ends
  BY DEF Ends, Lines!Last
<1>2. Lines!Lines' = Lines!Lines
  BY DEF Lines!Lines, Lines!Last, Lines!Cardinality
<1> QED
  BY <1>1, <1>2 DEF EndsUpTo, NoNewline, GotFirst

\* The reader is where a line begins when it reads one.
LEMMA AtTheStart ==
  ASSUME LineTyped, linesPc = "line", NEW s \in {0} \cup Ends, Reading(s),
         Lines!NewlineAt # {} \/ Len(Lines!Buffer) > 0
  PROVE  taken = s
<1>1. /\ Len(Lines!Buffer) = fed - taken
      /\ Lines!NewlineAt = {i \in 1..(fed - taken) : input[taken + i] = NL}
  BY BufferFacts
<1>2. taken \in Nat /\ fed \in Nat
  BY LineNumbers
<1>3. taken # fed
  BY <1>1, <1>2
<1> QED
  BY <1>3 DEF Reading

\* A line is longer than the limit where the reader overruns it.
LEMMA OverrunFacts ==
  ASSUME LineTyped, Lines!Overrun
  PROVE  /\ Lines!OverrunAt \in Nat /\ Lines!OverrunAt > Limit /\ taken + Lines!OverrunAt <= fed
         /\ NoNewline(taken + 1, taken + Lines!OverrunAt)
<1>1. /\ fed \in Nat /\ taken \in Nat /\ taken <= fed /\ Limit \in Nat
      /\ Len(Lines!Buffer) = fed - taken /\ fed - taken \in Nat
      /\ Lines!NewlineAt = {i \in 1..(fed - taken) : input[taken + i] = NL}
  BY LineNumbers, BufferFacts
<1>2. CASE Lines!NewlineAt # {}
  <2>1. /\ Lines!Separator \in 1..(fed - taken)
        /\ NoNewline(taken + 1, (taken + Lines!Separator) - 1)
    BY <1>2, SeparatorFacts
  <2>2. Lines!OverrunAt = Lines!Separator - 1 /\ Lines!Separator - 1 > Limit
    BY <1>2 DEF Lines!OverrunAt, Lines!Overrun
  <2>3. taken + Lines!OverrunAt = (taken + Lines!Separator) - 1
    BY <1>1, <2>1, <2>2
  <2> QED
    BY <1>1, <2>1, <2>2, <2>3
<1>3. CASE Lines!NewlineAt = {}
  <2>1. Lines!OverrunAt = fed - taken /\ fed - taken > Limit
    BY <1>1, <1>3 DEF Lines!OverrunAt, Lines!Overrun
  <2>2. ASSUME NEW i \in (taken + 1)..fed PROVE input[i] # NL
    <3>1. i - taken \in 1..(fed - taken) /\ taken + (i - taken) = i
      BY <1>1
    <3> QED
      BY <1>1, <1>3, <3>1
  <2>3. taken + Lines!OverrunAt = fed
    BY <1>1, <2>1
  <2> QED
    BY <1>1, <2>1, <2>2, <2>3 DEF NoNewline
<1> QED
  BY <1>2, <1>3

\* The input has ended, with no newline in what is left of it.
LEMMA IncompleteFacts ==
  ASSUME LineTyped, Lines!Incomplete
  PROVE  /\ fed = Len(input) /\ eof /\ fed - taken <= Limit
         /\ NoNewline(taken + 1, fed)
<1>1. /\ fed \in Nat /\ taken \in Nat /\ taken <= fed /\ Limit \in Nat
      /\ Len(Lines!Buffer) = fed - taken
      /\ Lines!NewlineAt = {i \in 1..(fed - taken) : input[taken + i] = NL}
  BY LineNumbers, BufferFacts
<1>2. eof /\ Lines!NewlineAt = {} /\ ~(Len(Lines!Buffer) > Limit)
  BY DEF Lines!Incomplete, Lines!Overrun
<1>3. ASSUME NEW i \in (taken + 1)..fed PROVE input[i] # NL
  <2>1. i - taken \in 1..(fed - taken) /\ taken + (i - taken) = i
    BY <1>1
  <2> QED
    BY <1>1, <1>2, <2>1
<1> QED
  BY <1>1, <1>2, <1>3 DEF LineTyped, NoNewline

\* Every step of the reader keeps its place among the lines of the input.
LEMMA LineInductive ==
  ASSUME LineInv, [Lines!Next]_linesVars
  PROVE  LineInv'
<1>0. LineTyped /\ GotFirst
  BY DEF LineInv
<1>n. /\ Len(input) \in Nat /\ fed \in Nat /\ taken \in Nat
      /\ taken <= fed /\ fed <= Len(input) /\ Limit \in Nat /\ IdHead \in Nat
      /\ \A s \in {0} \cup Ends : s \in Nat /\ s <= Len(input) + 1
  BY <1>0, LineNumbers
<1>b. /\ Len(Lines!Buffer) = fed - taken /\ fed - taken \in Nat
      /\ Lines!Buffer = <<>> <=> fed = taken
      /\ Lines!NewlineAt = {i \in 1..(fed - taken) : input[taken + i] = NL}
  BY <1>0, BufferFacts
<1>1. CASE Lines!Feed
  <2>1. LineTyped'
    BY <1>0, <1>1, <1>n DEF Lines!Feed, LineTyped, Bytes
  <2>2. GotFirst'
    BY <1>0, <1>1, SameLines DEF Lines!Feed
  <2>3. ASSUME NEW s \in {0} \cup Ends, Reading(s) PROVE Reading(s)'
    BY <1>0, <1>1, <1>n, <2>3, SameLines DEF Lines!Feed, Reading, LineTyped
  <2>4. Ends' = Ends /\ Cardinality(Ends)' = Cardinality(Ends)
    BY <1>1, SameLines DEF Lines!Feed
  <2> QED
    BY <1>1, <2>1, <2>2, <2>3, <2>4 DEF Lines!Feed, LineInv
<1>2. CASE Lines!FeedEof
  <2>1. LineTyped'
    BY <1>0, <1>2 DEF Lines!FeedEof, LineTyped, Bytes
  <2>2. GotFirst'
    BY <1>0, <1>2, SameLines DEF Lines!FeedEof
  <2>3. ASSUME NEW s \in {0} \cup Ends, Reading(s) PROVE Reading(s)'
    BY <1>0, <1>2, <2>3, SameLines DEF Lines!FeedEof, Reading
  <2>4. Ends' = Ends /\ Cardinality(Ends)' = Cardinality(Ends)
    BY <1>2, SameLines DEF Lines!FeedEof
  <2> QED
    BY <1>2, <2>1, <2>2, <2>3, <2>4 DEF Lines!FeedEof, LineInv
<1>3. CASE Lines!ReadLine
  <2>1. PICK s \in {0} \cup Ends : Reading(s)
    BY <1>3 DEF LineInv, Lines!ReadLine
  <2>2. taken = s
    BY <1>0, <1>3, <2>1, AtTheStart DEF Lines!ReadLine, Lines!Found
  <2>3. PICK e \in (s + 1)..fed :
          /\ input[e] = NL /\ NoNewline(s + 1, e - 1) /\ Lines!Separator = e - s
    <3>1. /\ Lines!Separator \in 1..(fed - taken) /\ input[taken + Lines!Separator] = NL
          /\ NoNewline(taken + 1, (taken + Lines!Separator) - 1)
      BY <1>0, <1>3, SeparatorFacts DEF Lines!ReadLine, Lines!Found
    <3>2. taken + Lines!Separator \in (s + 1)..fed
          /\ Lines!Separator = (taken + Lines!Separator) - s
      BY <1>n, <2>2, <3>1
    <3> QED
      BY <2>2, <3>1, <3>2
  <2>4. s \in Nat /\ e \in (s + 1)..Len(input) /\ e \in Nat
    BY <1>n
  <2>5. /\ taken' = e /\ got' = Append(got, e - s - 1) /\ e - s - 1 <= Limit
        /\ UNCHANGED <<input, fed, eof, linesPc, consumed>>
    BY <1>3, <2>2, <2>3, <2>4 DEF Lines!ReadLine, Lines!Found
  <2>6. e \in Ends /\ \A d \in Ends : ~(s < d /\ d < e)
    BY <1>0, <2>3, <2>4, EndsAtNewline
  <2>7. s < e /\ Answer(e - s - 1) = e - s - 1
    BY <1>n, <2>4, <2>5 DEF Answer
  <2>8. GotFirst' /\ e \in Ends' /\ EndsUpTo(e)' = Len(got')
    BY <1>0, <2>1, <2>5, <2>6, <2>7, GotOne DEF Reading
  <2>9. LineTyped'
    BY <1>0, <1>n, <2>4, <2>5 DEF LineTyped, Bytes
  <2>10. linesPc' = "line"
    BY <1>3, <2>5 DEF Lines!ReadLine
  <2>11. Reading(e)'
    BY <2>5, <2>8, <2>10 DEF Reading
  <2> QED
    BY <2>8, <2>9, <2>10, <2>11 DEF LineInv
<1>4. CASE Lines!ReadRest
  <2>1. PICK s \in {0} \cup Ends : Reading(s)
    BY <1>4 DEF LineInv, Lines!ReadRest
  <2>2. fed = Len(input) /\ eof /\ fed - taken <= Limit /\ NoNewline(taken + 1, fed)
    BY <1>0, <1>4, IncompleteFacts DEF Lines!ReadRest
  <2>3. /\ taken' = fed /\ linesPc' = "over" /\ UNCHANGED <<input, fed, eof, consumed>>
        /\ got' = IF fed = taken THEN got ELSE Append(got, fed - taken)
    BY <1>4, <1>b DEF Lines!ReadRest
  <2>4. LineTyped'
    BY <1>0, <1>n, <2>3 DEF LineTyped, Bytes
  <2>5. GotFirst' /\ Len(got') = Cardinality(Ends)
    <3>1. CASE fed = taken
      <4>1. \A d \in Ends : d <= s
        <5>1. Len(input) + 1 \in Ends => s = Len(input) + 1
          <6>1. ASSUME s # Len(input) + 1, Len(input) + 1 \in Ends PROVE FALSE
            <7>1. s = Len(input) /\ s > 0 /\ input[s] # NL
              BY <1>0, <1>4, <1>n, <2>1, <2>2, <3>1, <6>1, EndsFacts DEF Reading, Lines!ReadRest
            <7>2. s \in Ends /\ s \in 1..Len(input)
              BY <1>n, <7>1
            <7> QED
              BY <1>0, <7>1, <7>2, EndsFacts
          <6> QED
            BY <6>1
        <5>2. s >= Len(input)
          BY <1>4, <1>n, <2>1, <2>2, <3>1 DEF Reading, Lines!ReadRest
        <5>3. \A d \in Ends : d \in Nat /\ d <= Len(input) + 1
          BY <1>n
        <5> TAKE d \in Ends
        <5>4. d \in Nat /\ s \in Nat /\ (d = Len(input) + 1 \/ d <= Len(input))
          BY <1>n, <5>3
        <5> QED
          BY <1>n, <5>1, <5>2, <5>4
      <4>2. {d \in Ends : d <= s} = Ends
        BY <4>1
      <4> QED
        BY <1>0, <2>1, <2>3, <3>1, <4>2, SameLines DEF Reading, EndsUpTo
    <3>2. CASE fed # taken
      <4>1. taken = s
        BY <1>0, <1>4, <1>b, <1>n, <2>1, <3>2, AtTheStart DEF Lines!ReadRest
      <4>2. s \in Nat /\ s < Len(input) /\ NoNewline(s + 1, Len(input))
        BY <1>n, <2>2, <3>2, <4>1
      <4>3. Len(input) + 1 \in Ends /\ \A d \in Ends : ~(s < d /\ d < Len(input) + 1)
        BY <1>0, <4>2, EndsWithInput
      <4>4. Answer((Len(input) + 1) - s - 1) = fed - taken /\ s < Len(input) + 1
        BY <1>n, <2>2, <4>1, <4>2 DEF Answer
      <4>5. GotFirst' /\ EndsUpTo(Len(input) + 1)' = Len(got')
        BY <1>0, <2>1, <2>3, <3>2, <4>3, <4>4, GotOne DEF Reading
      <4>6. {d \in Ends : d <= Len(input) + 1} = Ends
        BY <1>n
      <4>7. EndsUpTo(Len(input) + 1)' = EndsUpTo(Len(input) + 1)
        BY <2>3, SameLines DEF EndsUpTo
      <4> QED
        BY <4>5, <4>6, <4>7 DEF EndsUpTo
    <3> QED
      BY <3>1, <3>2
  <2>6. Cardinality(Ends)' = Cardinality(Ends)
    BY <2>3, SameLines
  <2> QED
    BY <2>3, <2>4, <2>5, <2>6 DEF LineInv
<1>5. CASE Lines!ReadOversized
  <2>1. PICK s \in {0} \cup Ends : Reading(s)
    BY <1>5 DEF LineInv, Lines!ReadOversized
  <2>2. Lines!NewlineAt # {} \/ Len(Lines!Buffer) > 0
    BY <1>5, <1>n, <1>b DEF Lines!ReadOversized, Lines!Overrun
  <2>3. taken = s
    BY <1>0, <1>5, <2>1, <2>2, AtTheStart DEF Lines!ReadOversized
  <2>4. /\ Lines!OverrunAt \in Nat /\ Lines!OverrunAt > Limit /\ s + Lines!OverrunAt <= fed
        /\ NoNewline(s + 1, s + Lines!OverrunAt)
    BY <1>0, <1>5, <2>3, OverrunFacts DEF Lines!ReadOversized
  <2>5. /\ consumed' = Lines!OverrunAt /\ linesPc' = "head"
        /\ UNCHANGED <<input, fed, taken, eof, got>>
    BY <1>5 DEF Lines!ReadOversized
  <2>6. LineTyped' /\ GotFirst' /\ Ends' = Ends
    BY <1>0, <2>5, SameLines DEF LineTyped, Bytes
  <2>7. NoNewline(s + 1, s + consumed)'
    BY <2>4, <2>5 DEF NoNewline
  <2>8. Reading(s)'
    BY <2>1, <2>3, <2>4, <2>5, <2>7, SameLines DEF Reading
  <2> QED
    BY <2>5, <2>6, <2>8 DEF LineInv
<1>6. CASE Lines!ReadHead
  <2>1. PICK s \in {0} \cup Ends : Reading(s)
    BY <1>6 DEF LineInv, Lines!ReadHead
  <2>2. /\ taken = s /\ consumed \in Nat /\ consumed > Limit /\ s + consumed <= fed
        /\ NoNewline(s + 1, s + consumed) /\ s \in Nat
    BY <1>6, <1>n, <2>1 DEF Reading, Lines!ReadHead
  <2>3. /\ taken' \in s..(s + consumed) /\ linesPc' = "skip"
        /\ UNCHANGED <<input, fed, eof, consumed, got>>
    BY <1>6, <1>n, <2>2 DEF Lines!ReadHead
  <2>4. LineTyped' /\ GotFirst' /\ Ends' = Ends
    BY <1>0, <1>n, <2>2, <2>3, SameLines DEF LineTyped, Bytes
  <2>5. NoNewline(s + 1, taken)' /\ NoNewline(s + 1, s + Limit + 1)'
    BY <1>n, <2>2, <2>3 DEF NoNewline
  <2>6. s <= taken' /\ s + Limit + 1 <= fed'
    BY <1>n, <2>2, <2>3
  <2>7. Reading(s)'
    BY <2>1, <2>3, <2>5, <2>6, SameLines DEF Reading
  <2> QED
    BY <2>3, <2>4, <2>7 DEF LineInv
<1>7. CASE Lines!SkipToNewline
  <2>1. PICK s \in {0} \cup Ends : Reading(s)
    BY <1>7 DEF LineInv, Lines!SkipToNewline
  <2>2. /\ s \in Nat /\ s <= taken /\ NoNewline(s + 1, taken)
        /\ s + Limit + 1 <= fed /\ NoNewline(s + 1, s + Limit + 1)
    BY <1>7, <1>n, <2>1 DEF Reading, Lines!SkipToNewline
  <2>3. PICK e \in (taken + 1)..fed :
          /\ input[e] = NL /\ NoNewline(taken + 1, e - 1) /\ Lines!Separator = e - taken
    <3>1. /\ Lines!Separator \in 1..(fed - taken) /\ input[taken + Lines!Separator] = NL
          /\ NoNewline(taken + 1, (taken + Lines!Separator) - 1)
      BY <1>0, <1>7, SeparatorFacts DEF Lines!SkipToNewline, Lines!Found
    <3>2. taken + Lines!Separator \in (taken + 1)..fed
          /\ Lines!Separator = (taken + Lines!Separator) - taken
      BY <1>n, <3>1
    <3> QED
      BY <3>1, <3>2
  <2>4. e \in (s + 1)..Len(input) /\ e \in Nat
    BY <1>n, <2>2
  <2>5. NoNewline(s + 1, e - 1)
    BY <1>n, <2>2, <2>3, <2>4 DEF NoNewline
  <2>6. e > s + Limit + 1
    <3>1. ASSUME e <= s + Limit + 1 PROVE FALSE
      <4>1. e \in (s + 1)..(s + Limit + 1)
        BY <1>n, <2>2, <2>4, <3>1
      <4> QED
        BY <2>2, <2>3, <4>1 DEF NoNewline
    <3> QED
      BY <1>n, <2>2, <2>4, <3>1
  <2>7. /\ taken' = e /\ got' = Append(got, Limit + 1) /\ linesPc' = "line"
        /\ UNCHANGED <<input, fed, eof, consumed>>
    BY <1>7, <1>n, <2>3, <2>4 DEF Lines!SkipToNewline
  <2>8. e \in Ends /\ \A d \in Ends : ~(s < d /\ d < e)
    BY <1>0, <2>2, <2>3, <2>4, <2>5, EndsAtNewline
  <2>9. s < e /\ Answer(e - s - 1) = Limit + 1
    BY <1>n, <2>2, <2>4, <2>6 DEF Answer
  <2>10. GotFirst' /\ e \in Ends' /\ EndsUpTo(e)' = Len(got')
    BY <1>0, <2>1, <2>7, <2>8, <2>9, GotOne DEF Reading
  <2>11. LineTyped'
    BY <1>0, <1>n, <2>4, <2>7 DEF LineTyped, Bytes
  <2>12. Reading(e)'
    BY <2>7, <2>10 DEF Reading
  <2> QED
    BY <2>7, <2>10, <2>11, <2>12 DEF LineInv
<1>8. CASE Lines!SkipOverrun
  <2>1. PICK s \in {0} \cup Ends : Reading(s)
    BY <1>8 DEF LineInv, Lines!SkipOverrun
  <2>2. /\ s \in Nat /\ s <= taken /\ NoNewline(s + 1, taken)
        /\ s + Limit + 1 <= fed /\ NoNewline(s + 1, s + Limit + 1)
    BY <1>8, <1>n, <2>1 DEF Reading, Lines!SkipOverrun
  <2>3. /\ Lines!OverrunAt \in Nat /\ taken + Lines!OverrunAt <= fed
        /\ NoNewline(taken + 1, taken + Lines!OverrunAt)
    BY <1>0, <1>8, OverrunFacts DEF Lines!SkipOverrun
  <2>4. /\ taken' = taken + Lines!OverrunAt /\ linesPc' = "skip"
        /\ UNCHANGED <<input, fed, eof, consumed, got>>
    BY <1>8 DEF Lines!SkipOverrun
  <2>5. LineTyped' /\ GotFirst' /\ Ends' = Ends
    BY <1>0, <1>n, <2>3, <2>4, SameLines DEF LineTyped, Bytes
  <2>6. s <= taken' /\ NoNewline(s + 1, taken')
    BY <1>n, <2>2, <2>3, <2>4 DEF NoNewline
  <2>7. NoNewline(s + 1, taken)' /\ NoNewline(s + 1, s + Limit + 1)'
    BY <2>2, <2>4, <2>6 DEF NoNewline
  <2>8. Reading(s)'
    BY <2>1, <2>2, <2>4, <2>6, <2>7, SameLines DEF Reading
  <2> QED
    BY <2>4, <2>5, <2>8 DEF LineInv
<1>9. CASE Lines!SkipToEnd
  <2>1. PICK s \in {0} \cup Ends : Reading(s)
    BY <1>9 DEF LineInv, Lines!SkipToEnd
  <2>2. /\ s \in Nat /\ s <= taken /\ NoNewline(s + 1, taken)
        /\ s + Limit + 1 <= fed /\ NoNewline(s + 1, s + Limit + 1)
    BY <1>9, <1>n, <2>1 DEF Reading, Lines!SkipToEnd
  <2>3. fed = Len(input) /\ eof /\ NoNewline(taken + 1, fed)
    BY <1>0, <1>9, IncompleteFacts DEF Lines!SkipToEnd
  <2>4. s < Len(input) /\ NoNewline(s + 1, Len(input))
    BY <1>n, <2>2, <2>3 DEF NoNewline
  <2>5. /\ taken' = fed /\ got' = Append(got, Limit + 1) /\ linesPc' = "line"
        /\ UNCHANGED <<input, fed, eof, consumed>>
    BY <1>9 DEF Lines!SkipToEnd
  <2>6. PICK e : e = Len(input) + 1
    OBVIOUS
  <2>7. e \in Ends /\ \A d \in Ends : ~(s < d /\ d < e)
    BY <1>0, <2>2, <2>4, <2>6, EndsWithInput
  <2>8. s < e /\ Answer(e - s - 1) = Limit + 1
    BY <1>n, <2>2, <2>3, <2>6 DEF Answer
  <2>9. GotFirst' /\ e \in Ends' /\ EndsUpTo(e)' = Len(got')
    BY <1>0, <2>1, <2>5, <2>7, <2>8, GotOne DEF Reading
  <2>10. LineTyped'
    BY <1>0, <1>n, <2>5 DEF LineTyped, Bytes
  <2>11. Reading(e)'
    BY <2>3, <2>5, <2>6, <2>9 DEF Reading
  <2> QED
    BY <2>5, <2>9, <2>10, <2>11 DEF LineInv
<1>10. CASE UNCHANGED linesVars
  <2>1. LineTyped' /\ GotFirst' /\ Ends' = Ends
    BY <1>0, <1>10, SameLines DEF linesVars, LineTyped, Bytes
  <2>2. \A s : Reading(s)' <=> Reading(s)
    BY <1>10, SameLines DEF linesVars, Reading
  <2> QED
    BY <1>10, <2>1, <2>2 DEF linesVars, LineInv
<1> QED
  BY <1>1, <1>2, <1>3, <1>4, <1>5, <1>6, <1>7, <1>8, <1>9, <1>10 DEF Lines!Next

\* However the input is cut into reads, and wherever a line or the input ends
\* next to the limit, each line is answered once: with itself or with one error
\* (_read_line, _skip_line).
THEOREM ReaderLinesAnsweredOnce == PartsSpec => []LinesAnsweredOnce
<1> DEFINE Inv == kind = "lines" => LineInv
<1>1. PartsInit => Inv
  BY LineInitial DEF PartsInit
<1>2. Inv /\ [PartsNext]_partsVars => Inv'
  <2> SUFFICES ASSUME Inv, [PartsNext]_partsVars, kind' = "lines" PROVE LineInv'
    OBVIOUS
  <2>1. kind = "lines" /\ [Lines!Next]_linesVars
    BY DEF PartsNext, partsVars, linesVars
  <2> QED
    BY <2>1, LineInductive
<1>3. Inv => LinesAnsweredOnce
  <2> SUFFICES ASSUME LineInv PROVE Lines!LinesAnsweredOnce
    BY DEF LinesAnsweredOnce
  <2> DEFINE all == Lines!Lines
  <2>1. /\ got \in Seq(Nat) /\ Len(got) \in Nat /\ DOMAIN got = 1..Len(got)
        /\ Len(got) <= Cardinality(Ends) /\ Cardinality(Ends) \in Nat
        /\ \A k \in 1..Len(got) : got[k] = all[k]
    BY LenProperties, EndsFacts, FS_CardinalityType DEF LineInv, GotFirst
  <2> DEFINE Lengths == Nat \cup {all[k] : k \in 1..Cardinality(Ends)}
  <2>2. /\ got \in Seq(Lengths)
        /\ all \in Seq(Lengths) /\ Len(all) = Cardinality(Ends)
    <3>1. all \in [1..Cardinality(Ends) -> Lengths]
      BY LinesByEnds
    <3>2. Nat \subseteq Lengths
      OBVIOUS
    <3> HIDE DEF all, Lengths
    <3> QED
      BY <2>1, <3>1, <3>2, IsSequence, SeqMonotonic
  <2> HIDE DEF all, Lengths
  <2>3. SubSeq(got, 1, Len(got)) = SubSeq(all, 1, Len(got))
    BY <2>1, <2>2
  <2>4. linesPc = "over" => got = all
    BY <2>1, <2>2, SeqEqual DEF LineInv
  <2> QED
    BY <2>1, <2>2, <2>3, <2>4 DEF Lines!LinesAnsweredOnce, Lines!IsPrefix, all
<1> QED
  BY <1>1, <1>2, <1>3, PTL DEF PartsSpec
----------------------------------------------------------------------------
(* An Oracle session: its formats *)

Slots == 1..3
SessionPcs ==
  {"idle", "apply", "rows", "restore", "messages", "loadMessages", "lost", "replay"}

FormatsTyped ==
  /\ sessionPc \in SessionPcs
  /\ formats \in [Slots -> Int \ {Oracle!Unset}] /\ expected \in [Slots -> Nat]
  /\ tracked \in [Slots -> Nat \cup {Oracle!Unset}]
  /\ skipped \subseteq Slots /\ unsure \subseteq Slots
  /\ wanted \in [Slots -> Int] /\ previous \in [Slots -> Int]
  /\ step \in 1..4 /\ requests \in Nat

\* What the user's statements made is what is tracked of them, the default being
\* what a new session has, and only what is tracked can be skipped.
ExpectedTracked ==
  /\ \A i \in Slots :
       expected[i] = IF tracked[i] = Oracle!Unset THEN Oracle!Default ELSE tracked[i]
  /\ \A i \in skipped : tracked[i] # Oracle!Unset

\* The format is the user's, or the load will put the user's back.
PutsBack(i) ==
  IF previous[i] = Oracle!Unset THEN formats[i] = Oracle!Kept(i) ELSE previous[i] = Oracle!Kept(i)

Follows(i) ==
  /\ sessionPc \in {"idle", "messages", "replay"} => formats[i] = Oracle!Kept(i)
  /\ sessionPc \in {"apply", "rows", "restore", "loadMessages"} => PutsBack(i)
  /\ sessionPc = "apply" =>
       /\ wanted[i] # Oracle!Unset => previous[i] # Oracle!Unset
       /\ i >= step \/ wanted[i] = Oracle!Unset => formats[i] = Oracle!Kept(i)
  /\ sessionPc = "restore" => (i < step => formats[i] = Oracle!Kept(i))

FormatsInv ==
  /\ FormatsTyped /\ ExpectedTracked
  /\ sessionPc = "lost" => formats = Oracle!Fresh
  /\ \A i \in Slots \ unsure : Follows(i)

\* A session has three formats.
LEMMA SlotsAreParameters ==
  /\ DOMAIN Oracle!Parameters = Slots /\ Len(Oracle!Parameters) = 3
  /\ Oracle!Fresh = [i \in Slots |-> 0] /\ Oracle!NotSet = [i \in Slots |-> -1]
BY DEF Oracle!Parameters, Slots, Oracle!Fresh, Oracle!NotSet, Oracle!Default, Oracle!Unset

\* A session has the formats it was opened with.
LEMMA FormatsInitial == Oracle!Init => FormatsInv
BY SlotsAreParameters DEF Oracle!Init, FormatsInv, FormatsTyped, ExpectedTracked, Follows,
   Oracle!Kept, SessionPcs, Oracle!Unset, Oracle!Default, Slots

\* A step that keeps the formats, and does not move what a load puts back, keeps
\* what is known of them.
LEMMA FormatsStay ==
  ASSUME FormatsInv, sessionPc # "lost", sessionPc' \in SessionPcs, sessionPc' # "lost",
         UNCHANGED <<formats, expected, tracked, skipped, wanted, previous>>,
         requests' \in Nat, step' \in 1..4, unsure' \subseteq Slots,
         \A i \in Slots \ unsure' : i \in Slots \ unsure /\ (Follows(i) => Follows(i)')
  PROVE  FormatsInv'
BY DEF FormatsInv, FormatsTyped, ExpectedTracked

\* Every step of a session keeps what is known of its formats.
LEMMA FormatsInductive ==
  ASSUME FormatsInv, [Oracle!Next]_oracleVars
  PROVE  FormatsInv'
<1> USE DEF FormatsInv
<1>p. DOMAIN Oracle!Parameters = Slots /\ Len(Oracle!Parameters) = 3
  BY SlotsAreParameters
<1>t. requests \in Nat /\ step \in 1..4 /\ unsure \subseteq Slots /\ requests + 1 \in Nat
  BY DEF FormatsTyped
<1>1. ASSUME NEW k \in 0..MaxPrinted, NEW ok \in BOOLEAN, Oracle!ExecuteBlock(k, ok)
      PROVE  FormatsInv'
  <2>1. /\ sessionPc = "idle" /\ sessionPc' \in {"idle", "messages"}
        /\ UNCHANGED <<formats, expected, tracked, skipped, unsure, wanted, previous, step>>
        /\ requests' = requests + 1
    BY <1>1 DEF Oracle!ExecuteBlock, Oracle!formatVars, Oracle!trackedVars, Oracle!loadVars
  <2>2. \A i \in Slots : Follows(i) => Follows(i)'
    BY <2>1 DEF Follows, Oracle!Kept
  <2> QED
    BY <1>t, <2>1, <2>2, FormatsStay DEF SessionPcs
<1>2. ASSUME NEW i \in Slots, Oracle!ExecuteAlterSession(i) PROVE FormatsInv'
  <2>1. /\ formats' = [formats EXCEPT ![i] = requests + 1]
        /\ expected' = [expected EXCEPT ![i] = requests + 1]
        /\ tracked' = [tracked EXCEPT ![i] = requests + 1]
        /\ skipped' = skipped \ {i} /\ unsure' = unsure \ {i}
        /\ sessionPc = "idle" /\ sessionPc' = "messages" /\ requests' = requests + 1
        /\ UNCHANGED <<wanted, previous, step>>
    BY <1>2 DEF Oracle!ExecuteAlterSession, Oracle!loadVars
  <2>2. FormatsTyped'
    BY <2>1 DEF FormatsTyped, SessionPcs, Oracle!Unset
  <2>3. ExpectedTracked'
    BY <2>1 DEF FormatsTyped, ExpectedTracked, Oracle!Unset
  <2>4. ASSUME NEW j \in Slots \ unsure' PROVE Follows(j)'
    <3>1. CASE j = i
      BY <2>1, <3>1 DEF Follows, FormatsTyped, Oracle!Kept
    <3>2. CASE j # i
      BY <2>1, <2>4, <3>2 DEF Follows, FormatsTyped, Oracle!Kept
    <3> QED
      BY <3>1, <3>2
  <2> QED
    BY <2>1, <2>2, <2>3, <2>4
<1>3. ASSUME NEW i \in Slots, Oracle!CancelAlterSession(i) PROVE FormatsInv'
  <2>1. /\ formats' = [formats EXCEPT ![i] = requests + 1]
        /\ unsure' = unsure \cup {i} /\ sessionPc = "idle" /\ requests' = requests + 1
        /\ UNCHANGED <<sessionPc, expected, tracked, skipped, wanted, previous, step>>
    BY <1>3 DEF Oracle!CancelAlterSession, Oracle!loadVars, Oracle!trackedVars
  <2>2. FormatsTyped' /\ ExpectedTracked'
    BY <2>1 DEF FormatsTyped, ExpectedTracked, Oracle!Unset
  <2>3. ASSUME NEW j \in Slots \ unsure' PROVE Follows(j)'
    <3>1. j # i /\ j \in Slots \ unsure
      BY <2>1, <2>3
    <3> QED
      BY <2>1, <3>1 DEF Follows, FormatsTyped, Oracle!Kept
  <2> QED
    BY <2>1, <2>2, <2>3
<1>4. ASSUME NEW i \in Slots, Oracle!ReplayStatement(i) PROVE FormatsInv'
  <2>1. /\ formats' = [formats EXCEPT ![i] = tracked[i]] /\ skipped' = skipped \ {i}
        /\ sessionPc = "replay" /\ i \in skipped
        /\ UNCHANGED <<sessionPc, expected, tracked, unsure, wanted, previous, step, requests>>
    BY <1>4 DEF Oracle!ReplayStatement, Oracle!loadVars
  <2>2. tracked[i] \in Nat /\ expected[i] = tracked[i]
    BY <2>1 DEF FormatsTyped, ExpectedTracked
  <2>3. FormatsTyped' /\ ExpectedTracked'
    BY <2>1, <2>2 DEF FormatsTyped, ExpectedTracked, Oracle!Unset
  <2>4. ASSUME NEW j \in Slots \ unsure' PROVE Follows(j)'
    <3>1. CASE j = i
      BY <2>1, <2>2, <3>1 DEF Follows, FormatsTyped, Oracle!Kept
    <3>2. CASE j # i
      BY <2>1, <2>4, <3>2 DEF Follows, FormatsTyped, Oracle!Kept
    <3> QED
      BY <3>1, <3>2
  <2> QED
    BY <2>1, <2>3, <2>4
<1>5. ASSUME NEW f \in Files, NEW d \in {Oracle!Unset, Oracle!LoadDate, Oracle!Invalid},
             NEW t \in {Oracle!Unset, Oracle!LoadTimestamp, Oracle!Invalid},
             Oracle!ExecuteLoad(f, d, t)
      PROVE  FormatsInv'
  <2> DEFINE ts == IF t # Oracle!Unset THEN t ELSE d
  <2>1. /\ wanted' = <<d, ts, ts>>
        /\ previous' = IF d = Oracle!Unset /\ ts = Oracle!Unset THEN Oracle!NotSet
                       ELSE [i \in Slots |-> IF wanted'[i] = Oracle!Unset THEN Oracle!Unset
                                             ELSE formats[i]]
        /\ step' = 1 /\ sessionPc = "idle" /\ sessionPc' \in {"rows", "apply"}
        /\ requests' = requests + 1
        /\ UNCHANGED <<formats, expected, tracked, skipped, unsure>>
    BY <1>5, <1>p DEF Oracle!ExecuteLoad, Oracle!formatVars, Oracle!trackedVars
  <2>2. wanted' \in [Slots -> Int] /\ d \in Int /\ ts \in Int
        /\ wanted'[1] = d /\ wanted'[2] = ts /\ wanted'[3] = ts
    BY <2>1 DEF Slots, Oracle!Unset, Oracle!LoadDate, Oracle!LoadTimestamp, Oracle!Invalid
  <2> HIDE DEF ts
  <2>3. /\ previous' \in [Slots -> Int]
        /\ \A i \in Slots : previous'[i] = IF wanted'[i] = Oracle!Unset THEN Oracle!Unset
                                           ELSE formats[i]
    <3>1. CASE d = Oracle!Unset /\ ts = Oracle!Unset
      BY <2>1, <2>2, <3>1, SlotsAreParameters DEF Slots, Oracle!Unset
    <3>2. CASE ~(d = Oracle!Unset /\ ts = Oracle!Unset)
      BY <2>1, <2>2, <3>2 DEF Slots, Oracle!Unset, FormatsTyped
    <3> QED
      BY <3>1, <3>2
  <2>4. FormatsTyped' /\ ExpectedTracked'
    BY <2>1, <2>2, <2>3 DEF FormatsTyped, ExpectedTracked, SessionPcs
  <2>5. ASSUME NEW j \in Slots \ unsure' PROVE Follows(j)'
    <3>1. formats[j] = Oracle!Kept(j) /\ formats[j] # Oracle!Unset
      BY <2>1, <2>5 DEF Follows, FormatsTyped
    <3> QED
      BY <2>1, <2>3, <3>1 DEF Follows, PutsBack, Oracle!Kept
  <2> QED
    BY <2>1, <2>4, <2>5
<1>6. CASE Oracle!ApplyFormat
  <2>1. /\ sessionPc = "apply" /\ step <= 3 /\ step' = step + 1
        /\ formats' = IF wanted[step] = Oracle!Unset THEN formats
                      ELSE [formats EXCEPT ![step] = wanted[step]]
        /\ UNCHANGED <<sessionPc, expected, tracked, skipped, unsure, wanted, previous, requests>>
    BY <1>6, <1>p DEF Oracle!ApplyFormat, Oracle!trackedVars
  <2>2. FormatsTyped' /\ ExpectedTracked'
    BY <2>1 DEF FormatsTyped, ExpectedTracked, Slots
  <2>3. ASSUME NEW j \in Slots \ unsure' PROVE Follows(j)'
    <3>1. Follows(j) /\ j \in Slots /\ step \in Slots
      BY <2>1, <2>3, <1>t DEF Slots
    <3> QED
      BY <2>1, <3>1 DEF Follows, FormatsTyped, PutsBack, Slots, Oracle!Kept
  <2> QED
    BY <2>1, <2>2, <2>3
<1>7. CASE Oracle!FormatsApplied
  <2>1. /\ sessionPc = "apply" /\ sessionPc' = "rows"
        /\ UNCHANGED <<formats, expected, tracked, skipped, unsure, wanted, previous, step, requests>>
    BY <1>7 DEF Oracle!FormatsApplied, Oracle!formatVars, Oracle!trackedVars, Oracle!loadVars
  <2>2. \A i \in Slots : Follows(i) => Follows(i)'
    BY <2>1 DEF Follows, PutsBack, Oracle!Kept
  <2> QED
    BY <1>t, <2>1, <2>2, FormatsStay DEF SessionPcs
<1>8. ASSUME sessionPc = "apply", Oracle!EndApply PROVE FormatsInv'
  <2>1. /\ sessionPc' = "idle"
        /\ unsure' = unsure \cup {i \in Slots : i < step /\ wanted[i] # Oracle!Unset}
        /\ UNCHANGED <<formats, expected, tracked, skipped, wanted, previous, step, requests>>
    BY <1>8, <1>p DEF Oracle!EndApply, Oracle!trackedVars, Oracle!loadVars
  <2>2. \A i \in Slots \ unsure' : i \in Slots \ unsure /\ (Follows(i) => Follows(i)')
    BY <1>8, <1>t, <2>1 DEF Follows, Slots, Oracle!Kept
  <2> QED
    BY <1>8, <1>t, <2>1, <2>2, FormatsStay DEF SessionPcs
<1>9. CASE Oracle!RestoreFormat
  <2>1. /\ sessionPc = "restore" /\ step <= 3 /\ step' = step + 1
        /\ formats' = IF previous[step] = Oracle!Unset THEN formats
                      ELSE [formats EXCEPT ![step] = previous[step]]
        /\ UNCHANGED <<sessionPc, expected, tracked, skipped, unsure, wanted, previous, requests>>
    BY <1>9, <1>p DEF Oracle!RestoreFormat, Oracle!trackedVars
  <2>2. FormatsTyped' /\ ExpectedTracked'
    BY <2>1 DEF FormatsTyped, ExpectedTracked, Slots
  <2>3. ASSUME NEW j \in Slots \ unsure' PROVE Follows(j)'
    <3>1. Follows(j) /\ j \in Slots /\ step \in Slots
      BY <2>1, <2>3, <1>t DEF Slots
    <3> QED
      BY <2>1, <3>1 DEF Follows, FormatsTyped, PutsBack, Slots, Oracle!Kept
  <2> QED
    BY <2>1, <2>2, <2>3
<1>10. CASE Oracle!RestoreFails
  <2>1. /\ sessionPc = "restore" /\ step <= 3 /\ step' = step + 1 /\ unsure' = unsure \cup {step}
        /\ UNCHANGED <<sessionPc, formats, expected, tracked, skipped, wanted, previous, requests>>
    BY <1>10, <1>p DEF Oracle!RestoreFails, Oracle!trackedVars
  <2>2. step' \in 1..4 /\ unsure' \subseteq Slots
    BY <1>t, <2>1 DEF Slots
  <2>3. \A i \in Slots \ unsure' : i \in Slots \ unsure /\ (Follows(i) => Follows(i)')
    BY <1>t, <2>1 DEF Follows, PutsBack, Slots, Oracle!Kept
  <2> QED
    BY <1>t, <2>1, <2>2, <2>3, FormatsStay DEF SessionPcs
<1>11. CASE Oracle!Restored
  <2>1. sessionPc = "restore" /\ step > 3 /\ sessionPc' = "idle"
        /\ UNCHANGED <<formats, expected, tracked, skipped, unsure, wanted, previous, step, requests>>
    BY <1>11, <1>p DEF Oracle!Restored, Oracle!formatVars, Oracle!trackedVars, Oracle!loadVars
  <2>2. \A i \in Slots : Follows(i) => Follows(i)'
    BY <1>t, <2>1 DEF Follows, Slots, Oracle!Kept
  <2> QED
    BY <1>t, <2>1, <2>2, FormatsStay DEF SessionPcs
<1>12. ASSUME sessionPc \in {"rows", "loadMessages"},
              \/ sessionPc' \in {"rows", "loadMessages"} /\ step' = step
              \/ sessionPc' = "restore" /\ step' = 1,
              UNCHANGED <<formats, expected, tracked, skipped, unsure, wanted, previous, requests>>
       PROVE  FormatsInv'
  <2>1. \A i \in Slots : Follows(i) => Follows(i)'
    BY <1>12 DEF Follows, PutsBack, Slots, Oracle!Kept
  <2> QED
    BY <1>12, <1>t, <2>1, FormatsStay DEF SessionPcs
<1>13. CASE Oracle!LoadBatch \/ Oracle!ShortRow
  <2>1. /\ sessionPc = "rows"
        /\ UNCHANGED <<formats, expected, tracked, skipped, unsure, wanted, previous, requests>>
        /\ \/ UNCHANGED <<sessionPc, step>>
           \/ sessionPc' = "restore" /\ step' = 1
    BY <1>13 DEF Oracle!LoadBatch, Oracle!ShortRow, Oracle!EndRows, Oracle!formatVars,
       Oracle!trackedVars
  <2> QED
    BY <1>12, <2>1
<1>14. CASE Oracle!Loaded
  BY <1>12, <1>14 DEF Oracle!Loaded, Oracle!formatVars, Oracle!trackedVars, Oracle!loadVars
<1>15. CASE Oracle!GetLines \/ Oracle!MessagesFail
  <2>1. /\ UNCHANGED <<formats, expected, tracked, skipped, unsure, wanted, previous, requests>>
        /\ \/ sessionPc \in {"messages", "loadMessages"} /\ UNCHANGED <<sessionPc, step>>
           \/ sessionPc = "messages" /\ sessionPc' = "idle" /\ UNCHANGED step
           \/ sessionPc = "loadMessages" /\ sessionPc' = "restore" /\ step' = 1
    BY <1>15 DEF Oracle!GetLines, Oracle!MessagesFail, Oracle!EndMessages, Oracle!EndRows,
       Oracle!formatVars, Oracle!trackedVars
  <2>2. CASE sessionPc = "messages"
    <3>1. sessionPc' \in {"idle", "messages"} /\ UNCHANGED step
      BY <2>1, <2>2
    <3>2. \A i \in Slots : Follows(i) => Follows(i)'
      BY <2>1, <2>2, <3>1 DEF Follows, Oracle!Kept
    <3> QED
      BY <1>t, <2>1, <2>2, <3>1, <3>2, FormatsStay DEF SessionPcs
  <2>3. CASE sessionPc = "loadMessages"
    BY <1>12, <2>1, <2>3
  <2> QED
    BY <2>1, <2>2, <2>3
<1>16. CASE Oracle!CancelLoad
  <2>1. ASSUME sessionPc \in {"rows", "loadMessages"}, Oracle!EndRows("other", 0),
               UNCHANGED <<Oracle!formatVars, wanted, previous, requests>>
        PROVE  FormatsInv'
    BY <1>12, <2>1 DEF Oracle!EndRows, Oracle!formatVars, Oracle!trackedVars
  <2>2. ASSUME sessionPc = "restore", sessionPc' = "idle",
               unsure' = unsure \cup {i \in Slots : i >= step /\ previous[i] # Oracle!Unset},
               UNCHANGED <<formats, Oracle!trackedVars, Oracle!loadVars, requests>>
        PROVE  FormatsInv'
    <3>1. UNCHANGED <<formats, expected, tracked, skipped, wanted, previous, step, requests>>
      BY <2>2 DEF Oracle!trackedVars, Oracle!loadVars
    <3>2. \A i \in Slots \ unsure' : i \in Slots \ unsure /\ (Follows(i) => Follows(i)')
      BY <1>t, <2>2, <3>1 DEF Follows, PutsBack, Slots, Oracle!Kept
    <3> QED
      BY <1>t, <2>2, <3>1, <3>2, FormatsStay DEF SessionPcs
  <2> QED
    BY <1>16, <1>p, <1>8, <2>1, <2>2 DEF Oracle!CancelLoad
<1>17. CASE Oracle!Lose
  <2>1. /\ sessionPc' = "lost" /\ requests' = requests + 1 /\ formats' = Oracle!Fresh
        /\ UNCHANGED <<expected, tracked, skipped, unsure, wanted, previous, step>>
    BY <1>17 DEF Oracle!Lose, Oracle!trackedVars
  <2>2. FormatsTyped' /\ ExpectedTracked'
    BY <2>1, SlotsAreParameters DEF FormatsTyped, ExpectedTracked, SessionPcs, Oracle!Unset
  <2> QED
    BY <2>1, <2>2, SlotsAreParameters DEF Follows, Oracle!Fresh
<1>18. CASE Oracle!Reconnect
  <2>1. /\ sessionPc = "lost" /\ sessionPc' = "replay"
        /\ skipped' = {i \in Slots : tracked[i] # Oracle!Unset} /\ unsure' = {}
        /\ UNCHANGED <<formats, expected, tracked, wanted, previous, step, requests>>
    BY <1>18, <1>p DEF Oracle!Reconnect, Oracle!loadVars
  <2>2. FormatsTyped' /\ ExpectedTracked'
    BY <2>1 DEF FormatsTyped, ExpectedTracked, SessionPcs
  <2>3. formats = [i \in Slots |-> 0]
    BY <2>1, SlotsAreParameters
  <2>4. ASSUME NEW j \in Slots PROVE Follows(j)'
    BY <2>1, <2>3 DEF Follows, ExpectedTracked, Oracle!Kept, Oracle!Default
  <2> QED
    BY <2>1, <2>2, <2>4
<1>19. CASE Oracle!Replayed \/ Oracle!ReplayStops
  <2>1. /\ sessionPc = "replay" /\ sessionPc' = "idle"
        /\ UNCHANGED <<formats, expected, tracked, skipped, unsure, wanted, previous, step, requests>>
    BY <1>19 DEF Oracle!Replayed, Oracle!ReplayStops, Oracle!formatVars, Oracle!trackedVars,
       Oracle!loadVars
  <2>2. \A i \in Slots : Follows(i) => Follows(i)'
    BY <2>1 DEF Follows, Oracle!Kept
  <2> QED
    BY <1>t, <2>1, <2>2, FormatsStay DEF SessionPcs
<1>20. CASE UNCHANGED oracleVars
  BY <1>20 DEF oracleVars, FormatsTyped, ExpectedTracked, Follows, PutsBack, Oracle!Kept,
     Oracle!Fresh
<1>21. CASE Oracle!ApplyFails
  BY <1>8, <1>21 DEF Oracle!ApplyFails
<1> QED
  BY <1>1, <1>2, <1>3, <1>4, <1>5, <1>6, <1>7, <1>9, <1>10, <1>11, <1>13, <1>14, <1>15, <1>16,
     <1>17, <1>18, <1>19, <1>20, <1>21, <1>p DEF Oracle!Next
----------------------------------------------------------------------------
(* Its messages *)

Fetched == [ok : BOOLEAN, lines : Nat, truncated : BOOLEAN, of : Nat]

\* Of n lines fetched as many are answered as may be, and it is said when some
\* are not.
Counted(record, n) ==
  /\ record.lines = IF n < MaxLines THEN n ELSE MaxLines
  /\ record.truncated <=> n > MaxLines

\* While lines are fetched, those fetched and those printed are those there were.
OutputInv ==
  /\ printed \in Nat /\ collected \in Fetched /\ messages \in Fetched
  /\ sessionPc \in {"messages", "loadMessages"} =>
       /\ collected.ok /\ ~messages.ok /\ printed <= collected.of
       /\ Counted(collected, collected.of - printed)
  /\ messages.ok => printed = 0 /\ Counted(messages, messages.of)

\* Nothing fetched is an answer too.
LEMMA FailedFetched == Oracle!Failed \in Fetched /\ ~Oracle!Failed.ok
BY DEF Oracle!Failed, Fetched

\* Nothing is printed at first.
LEMMA OutputInitial == Oracle!Init => OutputInv
BY DEF Oracle!Init, OutputInv, Fetched, Oracle!Failed

\* A request that succeeded has fetched none of its lines.
LEMMA CollectsFromNone ==
  ASSUME NEW n \in Nat, Oracle!CollectMessages(n)
  PROVE  OutputInv'
<1>1. printed' = n /\ collected' = Oracle!Collecting(n) /\ messages' = Oracle!Failed
  BY DEF Oracle!CollectMessages
<1>2. printed' \in Nat /\ collected' \in Fetched /\ messages' \in Fetched
  BY <1>1 DEF Fetched, Oracle!Collecting, Oracle!Failed
<1>3. collected'.ok /\ ~messages'.ok /\ collected'.of = n /\ collected'.lines = 0
      /\ ~collected'.truncated
  BY <1>1 DEF Oracle!Collecting, Oracle!Failed
<1>4. n - n = 0 /\ (IF 0 < MaxLines THEN 0 ELSE MaxLines) = 0 /\ ~(0 > MaxLines)
  BY OracleAssumption
<1> QED
  BY <1>1, <1>2, <1>3, <1>4 DEF OutputInv, Counted

\* Every step of a session accounts for each line the server printed.
LEMMA OutputInductive ==
  ASSUME OutputInv, [Oracle!Next]_oracleVars
  PROVE  OutputInv'
<1>1. ASSUME NEW k \in 0..MaxPrinted, NEW ok \in BOOLEAN, Oracle!ExecuteBlock(k, ok)
      PROVE  OutputInv'
  <2>1. printed + k \in Nat /\ k \in Nat
    BY OracleAssumption DEF OutputInv
  <2>2. CASE ok
    BY <1>1, <2>1, <2>2, CollectsFromNone DEF Oracle!ExecuteBlock
  <2>3. CASE ~ok
    <3>1. /\ printed' = printed + k /\ messages' = Oracle!Failed
          /\ sessionPc' = "idle" /\ UNCHANGED collected
      BY <1>1, <2>3 DEF Oracle!ExecuteBlock
    <3> QED
      BY <2>1, <3>1, FailedFetched DEF OutputInv
  <2> QED
    BY <2>2, <2>3
<1>2. ASSUME NEW i \in DOMAIN Oracle!Parameters, Oracle!ExecuteAlterSession(i)
      PROVE  OutputInv'
  BY <1>2, CollectsFromNone DEF Oracle!ExecuteAlterSession, OutputInv
<1>9. ASSUME NEW i \in DOMAIN Oracle!Parameters, Oracle!CancelAlterSession(i)
      PROVE  OutputInv'
  BY <1>9, FailedFetched DEF Oracle!CancelAlterSession, OutputInv
<1>10. ASSUME NEW i \in DOMAIN Oracle!Parameters, Oracle!ReplayStatement(i)
       PROVE  OutputInv'
  BY <1>10 DEF Oracle!ReplayStatement, Oracle!outputVars, OutputInv, Counted
<1>3. ASSUME NEW f \in Files, NEW d \in {Oracle!Unset, Oracle!LoadDate, Oracle!Invalid},
             NEW t \in {Oracle!Unset, Oracle!LoadTimestamp, Oracle!Invalid},
             Oracle!ExecuteLoad(f, d, t)
      PROVE  OutputInv'
  <2>1. UNCHANGED <<printed, collected>> /\ messages' = Oracle!Failed
        /\ sessionPc' \in {"rows", "apply"}
    BY <1>3 DEF Oracle!ExecuteLoad
  <2> QED
    BY <2>1 DEF OutputInv, Fetched, Oracle!Failed
<1>4. CASE Oracle!Loaded
  BY <1>4, CollectsFromNone DEF Oracle!Loaded, OutputInv
<1>5. CASE Oracle!GetLines
  <2> DEFINE count == IF printed < Chunk THEN printed ELSE Chunk
             room  == IF collected.lines < MaxLines THEN MaxLines - collected.lines ELSE 0
             more  == IF count < room THEN count ELSE room
  <2>1. /\ sessionPc \in {"messages", "loadMessages"} /\ printed' = printed - count
        /\ collected' = [collected EXCEPT !.lines = @ + more, !.truncated = @ \/ count > room]
        /\ IF count < Chunk THEN messages' = collected'
                                 /\ sessionPc' \notin {"messages", "loadMessages"}
           ELSE UNCHANGED <<sessionPc, messages>>
    BY <1>5 DEF Oracle!GetLines, Oracle!EndMessages, Oracle!EndRows
  <2>2. /\ printed \in Nat /\ collected \in Fetched /\ messages \in Fetched
        /\ collected.ok /\ ~messages.ok /\ printed <= collected.of
        /\ Counted(collected, collected.of - printed)
        /\ MaxLines \in Nat /\ Chunk \in Nat \ {0}
    BY <2>1, OracleAssumption DEF OutputInv
  <2>3. /\ collected.lines \in Nat /\ collected.of \in Nat /\ collected.truncated \in BOOLEAN
        /\ count \in Nat /\ count <= printed /\ more \in Nat /\ printed' \in Nat
        /\ (count < Chunk => printed' = 0)
    BY <2>1, <2>2 DEF Fetched
  <2>4. /\ collected' \in Fetched /\ collected'.ok /\ collected'.of = collected.of
        /\ collected'.lines = collected.lines + more
        /\ collected'.truncated = (collected.truncated \/ count > room)
    <3> DEFINE lines == collected.lines + more
               truncated == collected.truncated \/ count > room
    <3>1. truncated \in BOOLEAN /\ lines \in Nat
      BY <2>3
    <3>2. collected' = [collected EXCEPT !.lines = lines, !.truncated = truncated]
      BY <2>1
    <3> HIDE DEF lines, truncated
    <3>3. collected' \in Fetched /\ collected'.ok = collected.ok /\ collected'.of = collected.of
          /\ collected'.lines = lines /\ collected'.truncated = truncated
      BY <2>2, <3>1, <3>2 DEF Fetched
    <3> QED
      BY <2>2, <3>3 DEF lines, truncated
  <2>5. Counted(collected', collected'.of - printed')
    <3> DEFINE n == collected.of - printed
    <3>1. n \in Nat /\ collected'.of - printed' = n + count
      BY <2>1, <2>2, <2>3, <2>4
    <3>2. /\ collected.lines = IF n < MaxLines THEN n ELSE MaxLines
          /\ collected.truncated <=> n > MaxLines
      BY <2>2 DEF Counted
    <3> HIDE DEF n
    <3>3. collected.lines + more = IF n + count < MaxLines THEN n + count ELSE MaxLines
      BY <2>2, <2>3, <3>1, <3>2
    <3>4. collected.truncated \/ count > room <=> n + count > MaxLines
      BY <2>2, <2>3, <3>1, <3>2
    <3> QED
      BY <2>4, <3>1, <3>3, <3>4 DEF Counted
  <2>6. CASE count < Chunk
    <3>1. messages' = collected' /\ printed' = 0 /\ sessionPc' \notin {"messages", "loadMessages"}
      BY <2>1, <2>3, <2>6
    <3>2. collected'.of - printed' = collected'.of
      BY <2>3, <2>4, <3>1
    <3> QED
      BY <2>3, <2>4, <2>5, <3>1, <3>2 DEF OutputInv
  <2>7. CASE ~(count < Chunk)
    <3>1. UNCHANGED <<sessionPc, messages>> /\ printed' <= collected'.of
      BY <2>1, <2>2, <2>3, <2>4, <2>7
    <3> QED
      BY <2>2, <2>3, <2>4, <2>5, <3>1 DEF OutputInv
  <2> QED
    BY <2>6, <2>7
<1>6. ASSUME UNCHANGED <<printed, collected, messages>>,
             sessionPc' \notin {"messages", "loadMessages"} \/ sessionPc' = sessionPc
      PROVE  OutputInv'
  BY <1>6 DEF OutputInv, Counted
<1>7. CASE Oracle!ApplyFormat \/ Oracle!FormatsApplied \/ Oracle!ApplyFails \/ Oracle!LoadBatch
           \/ Oracle!ShortRow \/ Oracle!RestoreFormat \/ Oracle!Restored \/ Oracle!MessagesFail
           \/ Oracle!CancelLoad \/ Oracle!RestoreFails \/ Oracle!Reconnect \/ Oracle!Replayed
           \/ Oracle!ReplayStops \/ UNCHANGED oracleVars
  <2>1. UNCHANGED <<printed, collected, messages>>
    BY <1>7 DEF Oracle!ApplyFormat, Oracle!FormatsApplied, Oracle!ApplyFails, Oracle!LoadBatch,
       Oracle!ShortRow, Oracle!RestoreFormat, Oracle!Restored, Oracle!MessagesFail,
       Oracle!CancelLoad, Oracle!EndApply, Oracle!RestoreFails, Oracle!Reconnect,
       Oracle!Replayed, Oracle!ReplayStops, Oracle!outputVars, oracleVars
  <2>2. sessionPc' \notin {"messages", "loadMessages"} \/ sessionPc' = sessionPc
    BY <1>7 DEF Oracle!ApplyFormat, Oracle!FormatsApplied, Oracle!ApplyFails, Oracle!LoadBatch,
       Oracle!ShortRow, Oracle!RestoreFormat, Oracle!Restored, Oracle!MessagesFail,
       Oracle!EndMessages, Oracle!EndRows, Oracle!CancelLoad, Oracle!EndApply,
       Oracle!RestoreFails, Oracle!Reconnect, Oracle!Replayed, Oracle!ReplayStops, oracleVars
  <2> QED
    BY <1>6, <2>1, <2>2
<1>8. CASE Oracle!Lose
  BY <1>8 DEF Oracle!Lose, OutputInv, Counted
<1> QED
  BY <1>1, <1>2, <1>3, <1>4, <1>5, <1>7, <1>8, <1>9, <1>10 DEF Oracle!Next

\* Between requests a session has the formats the user set, whether a load set
\* others meanwhile or the link was opened again, but for those that a replay
\* which stopped did not come to, and those a cancelled or failed statement left
\* in doubt; and a request that answers its messages leaves none printed and says
\* so when it answers fewer (_execute_load, reconnect, _collect_messages,
\* fetch_dbms_output).
THEOREM OracleSessionLeftClean == PartsSpec => []SessionLeftClean
<1> DEFINE Inv == kind = "oracle" => FormatsInv /\ OutputInv
<1>1. PartsInit => Inv
  BY FormatsInitial, OutputInitial DEF PartsInit
<1>2. Inv /\ [PartsNext]_partsVars => Inv'
  <2> SUFFICES ASSUME Inv, [PartsNext]_partsVars, kind' = "oracle"
               PROVE  FormatsInv' /\ OutputInv'
    OBVIOUS
  <2>1. kind = "oracle" /\ [Oracle!Next]_oracleVars
    BY DEF PartsNext, partsVars, oracleVars
  <2> QED
    BY <2>1, FormatsInductive, OutputInductive
<1>3. Inv => SessionLeftClean
  BY SlotsAreParameters DEF SessionLeftClean, Oracle!SessionLeftClean, FormatsInv, Follows,
     OutputInv, Counted
<1> QED
  BY <1>1, <1>2, <1>3, PTL DEF PartsSpec
----------------------------------------------------------------------------
(* Its loads *)

Rows == {"ok", "bad", "short"}
Sending == {"apply", "rows", "loadMessages"}

\* What a load says of how its rows ended, once they have.
RowsEnded ==
  /\ outcome = "loaded" => table = file
  /\ outcome = "rejected" => file[line] = "bad" /\ table = SubSeq(file, 1, line - 1)
  /\ outcome = "short" => file[line] = "short" /\ Oracle!IsPrefix(table, file)

\* While a load sends its rows, those sent are those Oracle took.
LoadInv ==
  /\ file \in Seq(Rows) /\ table \in Seq(Rows) /\ sent \in 0..Len(file)
  /\ sessionPc \in Sending => table = SubSeq(file, 1, sent)
  /\ sessionPc = "loadMessages" => sent = Len(file)
  /\ sessionPc = "restore" => RowsEnded

\* No load is under way at first.
LEMMA LoadInitial == Oracle!Init => LoadInv
BY EmptySeq DEF Oracle!Init, LoadInv, Sending

\* The first rows, and the first of those that follow them.
LEMMA MoreRows ==
  ASSUME NEW f \in Seq(Rows), NEW a \in Nat, NEW b \in Nat, a <= b, b <= Len(f),
         NEW m \in 0..(b - a)
  PROVE  /\ SubSeq(f, a + 1, b) \in Seq(Rows) /\ Len(SubSeq(f, a + 1, b)) = b - a
         /\ \A i \in 1..(b - a) : SubSeq(f, a + 1, b)[i] = f[a + i]
         /\ SubSeq(f, 1, a) \o SubSeq(SubSeq(f, a + 1, b), 1, m) = SubSeq(f, 1, a + m)
<1> DEFINE rest == SubSeq(f, a + 1, b)
           head == SubSeq(f, 1, a)
           next == SubSeq(rest, 1, m)
           all  == SubSeq(f, 1, a + m)
<1>1. Len(f) \in Nat /\ \A i \in 1..Len(f) : f[i] \in Rows
  BY LenProperties, ElementOfSeq
<1>2. /\ rest \in Seq(Rows) /\ Len(rest) = b - a
      /\ \A i \in 1..(b - a) : rest[i] = f[a + i]
  <2>1. \A i \in (a + 1)..b : f[i] \in Rows
    BY <1>1
  <2>2. /\ rest \in Seq(Rows)
        /\ Len(rest) = IF a + 1 <= b THEN (b - (a + 1)) + 1 ELSE 0
        /\ \A i \in 1..((b - (a + 1)) + 1) : rest[i] = f[((a + 1) + i) - 1]
    BY <2>1, SubSeqProperties
  <2> HIDE DEF rest
  <2>3. \A i \in 1..(b - a) : i \in 1..((b - (a + 1)) + 1) /\ ((a + 1) + i) - 1 = a + i
    OBVIOUS
  <2> QED
    BY <2>2, <2>3
<1>3. /\ head \in Seq(Rows) /\ Len(head) = a /\ \A i \in 1..a : head[i] = f[i]
  <2>1. \A i \in 1..a : f[i] \in Rows
    BY <1>1
  <2> QED
    BY <2>1, SubSeqProperties
<1>4. /\ next \in Seq(Rows) /\ Len(next) = m /\ \A i \in 1..m : next[i] = f[a + i]
  <2> HIDE DEF rest
  <2>1. \A i \in 1..m : i \in 1..(b - a) /\ rest[i] \in Rows
    BY <1>1, <1>2
  <2>2. m \in Int /\ 1 \in Int
    OBVIOUS
  <2>3. /\ next \in Seq(Rows) /\ Len(next) = (IF 1 <= m THEN (m - 1) + 1 ELSE 0)
        /\ \A i \in 1..((m - 1) + 1) : next[i] = rest[(1 + i) - 1]
    BY <2>1, <2>2, SubSeqProperties
  <2> HIDE DEF next
  <2>4. \A i \in 1..m : i \in 1..((m - 1) + 1) /\ (1 + i) - 1 = i
    OBVIOUS
  <2> QED
    BY <1>2, <2>1, <2>3, <2>4
<1>5. /\ all \in Seq(Rows) /\ Len(all) = a + m /\ \A i \in 1..(a + m) : all[i] = f[i]
  <2>1. \A i \in 1..(a + m) : f[i] \in Rows
    BY <1>1
  <2> QED
    BY <2>1, SubSeqProperties
<1> HIDE DEF rest, head, next, all
<1>6. /\ head \o next \in Seq(Rows) /\ Len(head \o next) = a + m
      /\ \A i \in 1..(a + m) : (head \o next)[i] = IF i <= a THEN head[i] ELSE next[i - a]
  BY <1>3, <1>4, ConcatProperties
<1>7. \A i \in 1..(a + m) : (head \o next)[i] = all[i]
  <2> TAKE i \in 1..(a + m)
  <2>1. CASE i <= a
    BY <1>3, <1>5, <1>6, <2>1
  <2>2. CASE i > a
    <3>1. i - a \in 1..m /\ a + (i - a) = i /\ ~(i <= a)
      BY <2>2
    <3>2. (head \o next)[i] = next[i - a]
      BY <1>6, <3>1
    <3>3. next[i - a] = f[a + (i - a)]
      BY <1>4, <3>1
    <3> QED
      BY <1>5, <3>1, <3>2, <3>3
  <2>3. i <= a \/ i > a
    OBVIOUS
  <2> QED
    BY <2>1, <2>2, <2>3
<1>8. head \o next = all
  BY <1>5, <1>6, <1>7, SeqEqual
<1> QED
  BY <1>2, <1>8 DEF rest, head, next, all

\* A set of numbers that is not empty has the least that CHOOSE gives.
LEMMA LeastChosen ==
  ASSUME NEW T \in SUBSET Nat, T # {}
  PROVE  /\ (CHOOSE i \in T : \A j \in T : i <= j) \in T
         /\ \A j \in T : (CHOOSE i \in T : \A j2 \in T : i <= j2) <= j
<1>1. \E x \in T : \A y \in T : x <= y
  BY LeastElement
<1> QED
  BY <1>1

\* The rows that are sent next.
LEMMA NextRowsFacts ==
  ASSUME LoadInv, sent < Len(file)
  PROVE  /\ Oracle!NextRows.upTo \in Nat /\ sent < Oracle!NextRows.upTo
         /\ Oracle!NextRows.upTo <= Len(file)
         /\ ~Oracle!NextRows.full =>
              Oracle!NextRows.short \in 1..Len(file) /\ file[Oracle!NextRows.short] = "short"
<1> DEFINE shorts == {i \in (sent + 1)..Len(file) : file[i] = "short"}
           upTo   == IF sent + Batch < Len(file) THEN sent + Batch ELSE Len(file)
<1>1. Len(file) \in Nat /\ sent \in Nat /\ Batch \in Nat \ {0}
  BY LenProperties, OracleAssumption DEF LoadInv
<1>2. /\ Oracle!NextRows.full = (\A i \in shorts : i > upTo)
      /\ Oracle!NextRows.upTo = upTo
      /\ shorts # {} =>
           Oracle!NextRows.short = CHOOSE i \in shorts : \A j \in shorts : i <= j
  BY DEF Oracle!NextRows
<1>3. upTo \in Nat /\ sent < upTo /\ upTo <= Len(file)
  BY <1>1
<1>4. ASSUME ~Oracle!NextRows.full
      PROVE  Oracle!NextRows.short \in 1..Len(file) /\ file[Oracle!NextRows.short] = "short"
  <2>1. shorts # {}
    BY <1>2, <1>4
  <2>2. shorts \in SUBSET Nat
    BY <1>1
  <2>3. Oracle!NextRows.short \in shorts
    <3> HIDE DEF shorts
    <3> QED
      BY <1>2, <2>1, <2>2, LeastChosen
  <2> QED
    BY <1>1, <2>3
<1> QED
  BY <1>2, <1>3, <1>4

\* Every step of a load keeps its table a prefix of its file.
LEMMA LoadInductive ==
  ASSUME LoadInv, [Oracle!Next]_oracleVars
  PROVE  LoadInv'
<1>0. /\ file \in Seq(Rows) /\ table \in Seq(Rows) /\ sent \in 0..Len(file)
      /\ Len(file) \in Nat /\ sent \in Nat
  BY LenProperties DEF LoadInv
<1>1. ASSUME NEW f \in Files, NEW d \in {Oracle!Unset, Oracle!LoadDate, Oracle!Invalid},
             NEW t \in {Oracle!Unset, Oracle!LoadTimestamp, Oracle!Invalid},
             Oracle!ExecuteLoad(f, d, t)
      PROVE  LoadInv'
  <2>1. file' = f /\ sent' = 0 /\ table' = <<>> /\ sessionPc' \in {"rows", "apply"}
    BY <1>1 DEF Oracle!ExecuteLoad
  <2>2. f \in Seq(Rows) /\ Len(f) \in Nat
    BY OracleAssumption, LenProperties DEF Rows
  <2>3. SubSeq(f, 1, 0) = <<>>
    BY SubSeqEmpty
  <2>4. <<>> \in Seq(Rows)
    BY EmptySeq
  <2> QED
    BY <2>1, <2>2, <2>3, <2>4 DEF LoadInv, Sending
<1>2. CASE Oracle!LoadBatch
  <2> DEFINE upTo == Oracle!NextRows.upTo
             rows == SubSeq(file, sent + 1, upTo)
             bads == {i \in DOMAIN rows : rows[i] = "bad"}
             took == IF bads = {} THEN Len(rows)
                     ELSE (CHOOSE i \in bads : \A j \in bads : i <= j) - 1
  <2>1. /\ sessionPc = "rows" /\ sent < Len(file)
        /\ table' = table \o SubSeq(rows, 1, took)
        /\ IF took < Len(rows)
           THEN /\ outcome' = "rejected" /\ line' = Oracle!RejectedLine(took)
                /\ sessionPc' = "restore" /\ UNCHANGED sent
           ELSE sent' = upTo /\ UNCHANGED sessionPc
        /\ UNCHANGED file
    BY <1>2 DEF Oracle!LoadBatch, Oracle!EndRows
  <2>2. upTo \in Nat /\ sent < upTo /\ upTo <= Len(file)
    BY <2>1, NextRowsFacts
  <2>3. Oracle!RejectedLine(took) =
          sent + 1 + (IF took < (upTo - sent) - 1 THEN took ELSE (upTo - sent) - 1)
    BY DEF Oracle!RejectedLine
  <2> HIDE DEF upTo
  <2>4. 0 \in 0..(upTo - sent) /\ sent <= upTo
    BY <1>0, <2>2
  <2>5. /\ rows \in Seq(Rows) /\ Len(rows) = upTo - sent
        /\ \A i \in 1..(upTo - sent) : rows[i] = file[sent + i]
    BY <1>0, <2>2, <2>4, MoreRows
  <2>6. bads \in SUBSET (1..(upTo - sent)) /\ bads \in SUBSET Nat
    BY <1>0, <2>2, <2>5, LenProperties
  <2>7. took \in 0..(upTo - sent) /\ (took < upTo - sent => rows[took + 1] = "bad")
    <3>1. CASE bads = {}
      BY <1>0, <2>2, <2>5, <3>1
    <3>2. CASE bads # {}
      <4> DEFINE least == CHOOSE i \in bads : \A j \in bads : i <= j
      <4>1. least \in bads
        <5> HIDE DEF bads
        <5> QED
          BY <2>6, <3>2, LeastChosen
      <4>2. least \in 1..(upTo - sent) /\ rows[least] = "bad" /\ took = least - 1
        BY <2>6, <3>2, <4>1
      <4> HIDE DEF least, took, rows
      <4>3. took + 1 = least
        BY <4>2
      <4> QED
        BY <1>0, <2>2, <4>2, <4>3
    <3> QED
      BY <3>1, <3>2
  <2> HIDE DEF took
  <2>8. table' = SubSeq(file, 1, sent + took) /\ table' \in Seq(Rows)
    <3>1. table = SubSeq(file, 1, sent)
      BY <2>1 DEF LoadInv, Sending
    <3>2. SubSeq(file, 1, sent) \o SubSeq(rows, 1, took) = SubSeq(file, 1, sent + took)
      BY <1>0, <2>2, <2>4, <2>7, MoreRows
    <3>3. sent + took \in Nat /\ sent + took <= Len(file)
      BY <1>0, <2>2, <2>7
    <3>4. \A i \in 1..(sent + took) : file[i] \in Rows
      BY <1>0, <3>3, ElementOfSeq
    <3>5. SubSeq(file, 1, sent + took) \in Seq(Rows)
      BY <3>3, <3>4, SubSeqProperties
    <3> QED
      BY <2>1, <3>1, <3>2, <3>5
  <2> HIDE DEF rows, bads
  <2>9. CASE took < Len(rows)
    <3>1. line' = sent + 1 + took /\ took + 1 \in 1..(upTo - sent)
      BY <1>0, <2>1, <2>2, <2>3, <2>5, <2>7, <2>9
    <3>2. file[line'] = "bad" /\ line' - 1 = sent + took
      BY <1>0, <2>5, <2>7, <2>9, <3>1
    <3>3. RowsEnded'
      BY <2>1, <2>8, <2>9, <3>2 DEF RowsEnded
    <3> QED
      BY <1>0, <2>1, <2>8, <2>9, <3>3 DEF LoadInv, Sending
  <2>10. CASE ~(took < Len(rows))
    <3>1. sent + took = upTo
      BY <1>0, <2>2, <2>5, <2>7, <2>10
    <3> QED
      BY <1>0, <2>1, <2>2, <2>8, <2>10, <3>1 DEF LoadInv, Sending
  <2> QED
    BY <2>9, <2>10
<1>3. CASE Oracle!ShortRow
  <2>1. /\ sessionPc = "rows" /\ sent < Len(file) /\ ~Oracle!NextRows.full
        /\ outcome' = "short" /\ line' = Oracle!NextRows.short /\ sessionPc' = "restore"
        /\ UNCHANGED <<file, sent, table>>
    BY <1>3 DEF Oracle!ShortRow, Oracle!EndRows
  <2>2. file'[line'] = "short"
    BY <2>1, NextRowsFacts
  <2>3. table = SubSeq(file, 1, sent)
    BY <2>1 DEF LoadInv, Sending
  <2>4. Oracle!IsPrefix(table, file)
    <3>1. \A i \in 1..sent : file[i] \in Rows
      BY <1>0, ElementOfSeq
    <3>2. Len(table) = sent
      BY <1>0, <2>3, <3>1, SubSeqProperties
    <3>3. SubSeq(table, 1, sent) = table
      BY <1>0, <3>2, SubSeqFull
    <3> QED
      BY <1>0, <2>3, <3>2, <3>3 DEF Oracle!IsPrefix
  <2>5. RowsEnded'
    BY <2>1, <2>2, <2>4 DEF RowsEnded, Oracle!IsPrefix
  <2> QED
    BY <1>0, <2>1, <2>5 DEF LoadInv, Sending
<1>4. CASE Oracle!Loaded
  BY <1>4 DEF Oracle!Loaded, Oracle!loadVars, Oracle!rowVars, LoadInv, Sending
<1>5. ASSUME UNCHANGED <<file, sent, table, outcome, line>>,
             sessionPc' \notin {"restore", "loadMessages"},
             sessionPc' \in Sending => sessionPc \in Sending
      PROVE  LoadInv'
  BY <1>5 DEF LoadInv
<1>6. ASSUME UNCHANGED <<file, sent, table>>, outcome' = "other", sessionPc' \notin Sending
      PROVE  LoadInv'
  BY <1>6 DEF LoadInv, RowsEnded, Sending
<1>7. ASSUME UNCHANGED <<file, sent, table, outcome, line, sessionPc>>
      PROVE  LoadInv'
  BY <1>7 DEF LoadInv, RowsEnded, Sending
<1>8. CASE Oracle!GetLines \/ Oracle!MessagesFail
  <2>1. UNCHANGED <<file, sent, table>>
    BY <1>8 DEF Oracle!GetLines, Oracle!MessagesFail
  <2>2. \/ UNCHANGED <<sessionPc, outcome, line>>
        \/ sessionPc' = "idle" /\ UNCHANGED <<outcome, line>>
        \/ sessionPc = "loadMessages" /\ sessionPc' = "restore" /\ outcome' = "loaded"
    BY <1>8 DEF Oracle!GetLines, Oracle!MessagesFail, Oracle!EndMessages, Oracle!EndRows
  <2>3. CASE sessionPc = "loadMessages" /\ sessionPc' = "restore" /\ outcome' = "loaded"
    <3>1. table = file
      BY <1>0, <2>3, SubSeqFull DEF LoadInv, Sending
    <3>2. RowsEnded'
      BY <2>1, <2>3, <3>1 DEF RowsEnded
    <3> QED
      BY <1>0, <2>1, <2>3, <3>2 DEF LoadInv, Sending
  <2> QED
    BY <1>5, <1>7, <2>1, <2>2, <2>3 DEF Sending
<1>9. CASE Oracle!CancelLoad \/ Oracle!Lose
  <2>1. UNCHANGED <<file, sent, table>>
    BY <1>9 DEF Oracle!CancelLoad, Oracle!EndApply, Oracle!Lose, Oracle!loadVars, Oracle!rowVars
  <2>2. \/ outcome' = "other" /\ sessionPc' \in {"restore", "lost"}
        \/ sessionPc' = "idle" /\ UNCHANGED <<outcome, line>>
    BY <1>9 DEF Oracle!CancelLoad, Oracle!EndApply, Oracle!Lose, Oracle!EndRows,
       Oracle!loadVars, Oracle!rowVars
  <2> QED
    BY <1>5, <1>6, <2>1, <2>2 DEF Sending
<1>10. CASE Oracle!ApplyFormat \/ Oracle!RestoreFormat \/ Oracle!RestoreFails \/ UNCHANGED oracleVars
  BY <1>7, <1>10 DEF Oracle!ApplyFormat, Oracle!RestoreFormat, Oracle!RestoreFails,
     Oracle!rowVars, oracleVars
<1>11. CASE Oracle!FormatsApplied \/ Oracle!ApplyFails \/ Oracle!Restored \/ Oracle!Reconnect
            \/ Oracle!Replayed \/ Oracle!ReplayStops
  BY <1>5, <1>11 DEF Oracle!FormatsApplied, Oracle!ApplyFails, Oracle!EndApply, Oracle!Restored,
     Oracle!Reconnect, Oracle!Replayed, Oracle!ReplayStops, Oracle!loadVars, Oracle!rowVars, Sending
<1>12. ASSUME NEW k \in 0..MaxPrinted, NEW ok \in BOOLEAN, Oracle!ExecuteBlock(k, ok)
       PROVE  LoadInv'
  BY <1>5, <1>7, <1>12 DEF Oracle!ExecuteBlock, Oracle!loadVars, Oracle!rowVars, Sending
<1>13. ASSUME NEW i \in DOMAIN Oracle!Parameters, Oracle!ExecuteAlterSession(i)
       PROVE  LoadInv'
  BY <1>5, <1>13 DEF Oracle!ExecuteAlterSession, Oracle!loadVars, Oracle!rowVars, Sending
<1>14. ASSUME NEW i \in DOMAIN Oracle!Parameters,
              Oracle!CancelAlterSession(i) \/ Oracle!ReplayStatement(i)
       PROVE  LoadInv'
  BY <1>7, <1>14 DEF Oracle!CancelAlterSession, Oracle!ReplayStatement, Oracle!loadVars,
     Oracle!rowVars
<1> QED
  BY <1>1, <1>2, <1>3, <1>4, <1>8, <1>9, <1>10, <1>11, <1>12, <1>13, <1>14 DEF Oracle!Next

\* A load that failed on a row names the line of the first one Oracle refused,
\* and the table holds just the rows before it; one that succeeded holds all
\* (_load_rows, _insert_batch).
THEOREM OracleLoadNamesTheLine == PartsSpec => []LoadNamesTheLine
<1> DEFINE Inv == kind = "oracle" => LoadInv
<1>1. PartsInit => Inv
  BY LoadInitial DEF PartsInit
<1>2. Inv /\ [PartsNext]_partsVars => Inv'
  <2> SUFFICES ASSUME Inv, [PartsNext]_partsVars, kind' = "oracle" PROVE LoadInv'
    OBVIOUS
  <2>1. kind = "oracle" /\ [Oracle!Next]_oracleVars
    BY DEF PartsNext, partsVars, oracleVars
  <2> QED
    BY <2>1, LoadInductive
<1>3. Inv => LoadNamesTheLine
  BY DEF LoadNamesTheLine, Oracle!LoadNamesTheLine, LoadInv, RowsEnded
<1> QED
  BY <1>1, <1>2, <1>3, PTL DEF PartsSpec
----------------------------------------------------------------------------
(* A transfer of S3 *)

\* One step of putting names in order, and the function of all its steps.
OneName(names, i, before_) ==
  IF i = 0 THEN <<>> ELSE IF NameOrder[i] \in names THEN Append(before_, NameOrder[i]) ELSE before_
IsAmong(names, m, G) == G = [i \in 0..m |-> OneName(names, i, G[i - 1])]

\* There is such a function.
LEMMA AmongExists ==
  ASSUME NEW names
  PROVE  \A m \in Nat : \E G : IsAmong(names, m, G)
<1> DEFINE T == {m \in Nat : ~ \E G : IsAmong(names, m, G)}
<1> SUFFICES ASSUME T # {} PROVE FALSE
  OBVIOUS
<1>1. T \in SUBSET Nat
  OBVIOUS
<1>2. PICK x \in T : \A y \in T : x <= y
  <2> HIDE DEF T
  <2> QED
    BY <1>1, LeastElement
<1>3. x \in Nat /\ ~ \E G : IsAmong(names, x, G)
  OBVIOUS
<1>4. CASE x = 0
  <2> DEFINE G == [i \in 0..0 |-> <<>>]
  <2>1. G = [i \in 0..0 |-> OneName(names, i, G[i - 1])]
    BY DEF OneName
  <2> QED
    BY <1>3, <1>4, <2>1 DEF IsAmong
<1>5. CASE x # 0
  <2>1. x - 1 \in Nat /\ x - 1 \notin T
    BY <1>2, <1>3, <1>5
  <2>2. PICK G : IsAmong(names, x - 1, G)
    BY <2>1
  <2> DEFINE H == [i \in 0..x |-> IF i = x THEN OneName(names, x, G[x - 1]) ELSE G[i]]
  <2>3. \A i \in 0..(x - 1) : G[i] = OneName(names, i, G[i - 1])
    BY <2>2 DEF IsAmong
  <2>4. \A i \in 0..(x - 1) : H[i] = G[i]
    BY <1>3
  <2>5. ASSUME NEW i \in 0..x PROVE H[i] = OneName(names, i, H[i - 1])
    <3>1. CASE i = 0
      <4>1. H[0] = G[0] /\ 0 \in 0..(x - 1)
        BY <1>3, <1>5, <2>4
      <4>2. G[0] = OneName(names, 0, G[0 - 1])
        BY <2>3, <4>1
      <4> QED
        BY <3>1, <4>1, <4>2 DEF OneName
    <3>2. CASE i # 0 /\ i # x
      <4>1. i \in 0..(x - 1) /\ i - 1 \in 0..(x - 1)
        BY <1>3, <3>2
      <4> HIDE DEF H
      <4> QED
        BY <2>3, <2>4, <4>1
    <3>3. CASE i = x
      <4>1. x - 1 \in 0..(x - 1)
        BY <1>3, <1>5
      <4>2. H[x] = OneName(names, x, G[x - 1])
        BY <1>3
      <4> HIDE DEF H
      <4> QED
        BY <2>4, <3>3, <4>1, <4>2
    <3> QED
      BY <3>1, <3>2, <3>3
  <2>6. H = [i \in 0..x |-> H[i]]
    OBVIOUS
  <2>7. H = [i \in 0..x |-> OneName(names, i, H[i - 1])]
    <3> HIDE DEF H
    <3> QED
      BY <2>5, <2>6
  <2> QED
    BY <1>3, <2>7 DEF IsAmong
<1> QED
  BY <1>4, <1>5

\* Names in order are a sequence of those names.
LEMMA InOrderOfNames ==
  ASSUME NEW names
  PROVE  Transfer!InOrder(names, NameOrder) \in Seq(names)
<1> DEFINE m == Len(NameOrder)
           F == CHOOSE G : G = [i \in 0..m |->
                             IF i = 0 THEN <<>>
                             ELSE IF NameOrder[i] \in names THEN Append(G[i - 1], NameOrder[i])
                                  ELSE G[i - 1]]
<1>1. Transfer!InOrder(names, NameOrder) = F[m]
  BY DEF Transfer!InOrder
<1>2. m \in Nat
  BY TransferAssumption, LenProperties
<1>3. F = CHOOSE G : IsAmong(names, m, G)
  BY DEF IsAmong, OneName
<1>4. IsAmong(names, m, F)
  BY <1>2, <1>3, AmongExists
<1> HIDE DEF F, m
<1>5. \A i \in 0..m : F[i] = OneName(names, i, F[i - 1])
  BY <1>4 DEF IsAmong
<1> DEFINE T == {i \in 0..m : F[i] \notin Seq(names)}
<1>6. ASSUME T # {} PROVE FALSE
  <2>1. T \in SUBSET Nat
    BY <1>2
  <2>2. PICK x \in T : \A y \in T : x <= y
    <3> HIDE DEF T
    <3> QED
      BY <1>6, <2>1, LeastElement
  <2>3. x \in 0..m /\ F[x] \notin Seq(names)
    OBVIOUS
  <2>4. x # 0
    BY <1>5, <2>3, EmptySeq DEF OneName
  <2>5. x - 1 \in 0..m /\ x - 1 \notin T
    BY <1>2, <2>2, <2>3, <2>4
  <2>6. F[x - 1] \in Seq(names)
    BY <2>5
  <2>7. F[x] = IF NameOrder[x] \in names THEN Append(F[x - 1], NameOrder[x]) ELSE F[x - 1]
    BY <1>5, <2>3, <2>4 DEF OneName
  <2>8. F[x] \in Seq(names)
    BY <2>6, <2>7, AppendProperties
  <2> QED
    BY <2>3, <2>8
<1>7. m \in 0..m
  BY <1>2
<1> QED
  BY <1>1, <1>6, <1>7

Source == cmd.src
Held == DOMAIN objects[Source]
HeldBefore == DOMAIN first[Source]

\* An object the command is about is where it was, or where it goes.
StillThere(k) == k \in Held /\ objects[Source][k] = first[Source][k]
Arrived(k) ==
  /\ Transfer!Target(k) \in DOMAIN objects[cmd.dst]
  /\ objects[cmd.dst][Transfer!Target(k)] = first[Source][k]

\* The first of the keys matched.
Keys(m) == {keys[i] : i \in 1..m}

TransferTyped ==
  /\ cmd \in Commands /\ DOMAIN objects = Places /\ DOMAIN first = Places
  /\ transferPc \in {"match", "copy", "delete", "done", "failed"}
  /\ Len(keys) \in Nat /\ handled \in 0..Len(keys)

\* The keys matched are what the command is about, or the one it names, which is
\* not there.
Matched ==
  \A i \in 1..Len(keys) :
    keys[i] \in Transfer!About \/ (keys[i] \notin HeldBefore /\ Len(keys) = 1)

\* Nothing is gone before the deletes, which a copy never comes to.
NothingGone ==
  /\ transferPc \in {"match", "copy"} /\ handled = 0 => objects = first
  /\ transferPc = "match" => handled = 0 /\ keys = <<>>
  /\ transferPc = "delete" => cmd.verb # "cp"
  /\ transferPc \in {"match", "copy"} \/ cmd.verb = "cp" => HeldBefore \subseteq Held
  /\ HeldBefore \ Transfer!About \subseteq Held

\* What a copy or a move is about stays until all of it has arrived.
ArrivesFirst ==
  /\ \A k \in Transfer!About : StillThere(k) \/ Arrived(k)
  /\ transferPc \in {"match", "copy"} => \A k \in Transfer!About : StillThere(k)
  /\ transferPc = "copy" => \A k \in Keys(handled) : k \in Transfer!About /\ Arrived(k)
  /\ transferPc = "delete" => \A k \in Keys(Len(keys)) : k \in Transfer!About /\ Arrived(k)

TransferInv ==
  /\ TransferTyped /\ Matched /\ NothingGone
  /\ cmd.verb # "rm" /\ Transfer!Apart => ArrivesFirst

\* No transfer is under way at first.
LEMMA TransferInitial == Transfer!Init => TransferInv
<1> SUFFICES ASSUME Transfer!Init PROVE TransferInv
  OBVIOUS
<1>1. /\ cmd \in Commands /\ objects \in Contents /\ first = objects
      /\ transferPc = "match" /\ keys = <<>> /\ handled = 0
  BY DEF Transfer!Init
<1>2. Len(keys) = 0
  BY <1>1
<1>3. TransferTyped
  BY <1>1, <1>2, TransferAssumption DEF TransferTyped
<1>4. Matched
  BY <1>2 DEF Matched
<1>5. NothingGone
  BY <1>1 DEF NothingGone, HeldBefore, Held
<1>6. ArrivesFirst
  BY <1>1 DEF ArrivesFirst, StillThere, Held, Source, Transfer!About
<1> QED
  BY <1>3, <1>4, <1>5, <1>6 DEF TransferInv

\* What does not change of a command.
LEMMA SameCommand ==
  ASSUME UNCHANGED <<cmd, first>>
  PROVE  /\ Source' = Source /\ HeldBefore' = HeldBefore /\ Transfer!About' = Transfer!About
         /\ \A k : Transfer!Target(k)' = Transfer!Target(k)
         /\ Transfer!Apart' <=> Transfer!Apart
<1>1. \A k : Transfer!Target(k)' = Transfer!Target(k)
  BY DEF Transfer!Target
<1>2. Transfer!About' = Transfer!About
  BY DEF Transfer!About
<1>3. Transfer!Apart' <=> Transfer!Apart
  BY <1>1, <1>2 DEF Transfer!Apart
<1> QED
  BY <1>1, <1>2, <1>3 DEF Source, HeldBefore

\* The keys a listing gives, or the one that is named.
LEMMA MatchesAbout ==
  ASSUME TransferTyped, objects = first
  PROVE  LET matched ==
               Transfer!MatchKeys(Transfer!Account, cmd.src, cmd.srcKey, cmd.recursive)
         IN  /\ Len(matched) \in Nat
             /\ \A i \in 1..Len(matched) :
                  matched[i] \in Transfer!About \/ (matched[i] \notin HeldBefore /\ Len(matched) = 1)
<1> DEFINE matched ==
             Transfer!MatchKeys(Transfer!Account, cmd.src, cmd.srcKey, cmd.recursive)
<1>1. cmd.src \in Places /\ DOMAIN objects = Places
  BY TransferAssumption DEF TransferTyped
<1>2. CASE cmd.recursive
  <2> DEFINE under == Transfer!KeysUnder(Transfer!Account, cmd.src, cmd.srcKey)
  <2>1. matched = Transfer!InOrder(under, NameOrder)
    BY <1>2 DEF Transfer!MatchKeys, Transfer!Sorted
  <2>2. under = Transfer!About
    BY <1>1, <1>2 DEF Transfer!KeysUnder, Transfer!Account, Transfer!About
  <2> HIDE DEF under, matched
  <2>3. matched \in Seq(Transfer!About)
    BY <2>1, <2>2, InOrderOfNames
  <2> QED
    BY <2>3, LenProperties, ElementOfSeq DEF matched
<1>3. CASE ~cmd.recursive
  <2>1. matched = <<>> \/ matched = <<cmd.srcKey>>
    BY <1>3 DEF Transfer!MatchKeys
  <2>2. cmd.srcKey \in Transfer!About \/ cmd.srcKey \notin HeldBefore
    BY <1>3 DEF Transfer!About, HeldBefore, Source
  <2> HIDE DEF matched
  <2>3. CASE matched = <<>>
    BY <2>3 DEF matched
  <2>4. CASE matched = <<cmd.srcKey>>
    <3>1. Len(matched) = 1 /\ matched[1] = cmd.srcKey
      BY <2>4
    <3> QED
      BY <2>2, <3>1 DEF matched
  <2> QED
    BY <2>1, <2>3, <2>4
<1> QED
  BY <1>2, <1>3

\* Every step of a transfer keeps a copy of each object it must keep.
LEMMA TransferInductive ==
  ASSUME TransferInv, [Transfer!Next]_transferVars
  PROVE  TransferInv'
<1>0. /\ cmd \in Commands /\ cmd.src \in Places /\ cmd.dst \in Places
      /\ DOMAIN objects = Places /\ DOMAIN first = Places
      /\ transferPc \in {"match", "copy", "delete", "done", "failed"}
      /\ Len(keys) \in Nat /\ handled \in 0..Len(keys) /\ DeleteBatch \in Nat \ {0}
  BY TransferAssumption DEF TransferInv, TransferTyped
<1>1. CASE Transfer!Match
  <2> DEFINE matched ==
               Transfer!MatchKeys(Transfer!Account, cmd.src, cmd.srcKey, cmd.recursive)
  <2>1. /\ transferPc = "match" /\ keys' = matched /\ handled' = 0
        /\ transferPc' = IF cmd.verb = "rm" THEN "delete" ELSE "copy"
        /\ UNCHANGED <<objects, cmd, first>>
    BY <1>1 DEF Transfer!Match, Transfer!After
  <2>2. objects = first
    BY <2>1 DEF TransferInv, NothingGone
  <2>3. /\ Len(matched) \in Nat
        /\ \A i \in 1..Len(matched) :
             matched[i] \in Transfer!About \/ (matched[i] \notin HeldBefore /\ Len(matched) = 1)
    BY <2>2, MatchesAbout DEF TransferInv
  <2> HIDE DEF matched
  <2>4. TransferTyped' /\ Matched'
    BY <1>0, <2>1, <2>3, SameCommand DEF TransferTyped, Matched
  <2>5. NothingGone'
    BY <2>1, <2>2, SameCommand DEF NothingGone, HeldBefore, Held, Source
  <2>6. ASSUME cmd.verb # "rm", Transfer!Apart PROVE ArrivesFirst'
    <3>1. \A k : StillThere(k)' <=> StillThere(k)
      BY <2>1, SameCommand DEF StillThere, Held, Source
    <3>2. \A k \in Transfer!About : StillThere(k)
      BY <2>1, <2>6 DEF TransferInv, ArrivesFirst
    <3>3. Keys(handled)' = {}
      BY <2>1 DEF Keys
    <3>4. transferPc' = "copy"
      BY <2>1, <2>6
    <3> QED
      BY <3>1, <3>2, <3>3, <3>4, <2>1, SameCommand DEF ArrivesFirst
  <2> QED
    BY <2>1, <2>4, <2>5, <2>6, SameCommand DEF TransferInv
<1>2. CASE Transfer!Copy
  <2> DEFINE key == keys[handled + 1]
             content == objects[cmd.src][key]
  <2>1. /\ transferPc = "copy" /\ handled < Len(keys) /\ key \in Held
        /\ handled' = handled + 1
        /\ objects' = [objects EXCEPT ![cmd.dst] =
                         [k \in DOMAIN objects[cmd.dst] \cup {Transfer!Target(key)} |->
                            IF k = Transfer!Target(key) THEN content
                            ELSE objects[cmd.dst][k]]]
        /\ UNCHANGED <<cmd, first, transferPc, keys>>
    BY <1>2 DEF Transfer!Copy, Transfer!Put, Held, Source
  <2>2. /\ DOMAIN objects' = Places
        /\ \A p \in Places : p # cmd.dst => objects'[p] = objects[p]
        /\ DOMAIN objects'[cmd.dst] = DOMAIN objects[cmd.dst] \cup {Transfer!Target(key)}
        /\ objects'[cmd.dst][Transfer!Target(key)] = content
        /\ \A k \in DOMAIN objects[cmd.dst] :
             k # Transfer!Target(key) => objects'[cmd.dst][k] = objects[cmd.dst][k]
    BY <1>0, <2>1
  <2>3. key \in Transfer!About
    <3>1. handled + 1 \in 1..Len(keys)
      BY <1>0, <2>1
    <3>2. ASSUME key \notin HeldBefore, Len(keys) = 1 PROVE FALSE
      <4>1. handled = 0
        BY <1>0, <2>1, <3>2
      <4>2. objects = first
        BY <2>1, <4>1 DEF TransferInv, NothingGone
      <4> QED
        BY <2>1, <3>2, <4>2 DEF Held, HeldBefore, Source
    <3> QED
      BY <3>1, <3>2 DEF TransferInv, Matched
  <2> HIDE DEF key, content
  <2>4. TransferTyped' /\ Matched'
    BY <1>0, <2>1, <2>2, SameCommand DEF TransferTyped, TransferInv, Matched
  <2>5. Held \subseteq Held'
    BY <1>0, <2>1, <2>2 DEF Held, Source
  <2>6. NothingGone'
    <3>1. handled' # 0
      BY <1>0, <2>1
    <3> QED
      BY <2>1, <2>5, <3>1, SameCommand DEF TransferInv, NothingGone
  <2>7. ASSUME cmd.verb # "rm", Transfer!Apart PROVE ArrivesFirst'
    <3>1. /\ \A k, l \in Transfer!About : Transfer!Target(k) = Transfer!Target(l) => k = l
          /\ cmd.src = cmd.dst =>
               \A k \in Transfer!About : Transfer!Target(k) \notin Transfer!About
      BY <2>7 DEF Transfer!Apart
    <3>2. /\ \A k \in Transfer!About : StillThere(k)
          /\ \A k \in Keys(handled) : k \in Transfer!About /\ Arrived(k)
      BY <2>1, <2>7 DEF TransferInv, ArrivesFirst
    <3>3. \A k \in Transfer!About : StillThere(k)'
      <4> TAKE k \in Transfer!About
      <4>1. k \in DOMAIN objects[cmd.src] /\ objects[cmd.src][k] = first[cmd.src][k]
        BY <3>2 DEF StillThere, Held, Source
      <4>2. k \in DOMAIN objects'[cmd.src] /\ objects'[cmd.src][k] = objects[cmd.src][k]
        BY <1>0, <2>2, <2>3, <3>1, <4>1
      <4> QED
        BY <2>1, <4>1, <4>2 DEF StillThere, Held, Source
    <3>4. content = first[cmd.src][key]
      BY <2>3, <3>2 DEF StillThere, Source, content
    <3>5. \A k \in Transfer!About : k = key \/ Arrived(k) => Arrived(k)'
      <4> TAKE k \in Transfer!About
      <4>1. Arrived(k)' <=> /\ Transfer!Target(k) \in DOMAIN objects'[cmd.dst]
                            /\ objects'[cmd.dst][Transfer!Target(k)] = first[cmd.src][k]
        BY <2>1, SameCommand DEF Arrived, Source
      <4>2. CASE k = key
        BY <2>2, <3>4, <4>1, <4>2
      <4>3. CASE k # key /\ Arrived(k)
        <5>1. Transfer!Target(k) # Transfer!Target(key)
          BY <2>3, <3>1, <4>3
        <5> QED
          BY <2>2, <4>1, <4>3, <5>1 DEF Arrived, Source
      <4> QED
        BY <4>2, <4>3
    <3>6. \A k \in Keys(handled + 1) : k \in Transfer!About /\ Arrived(k)'
      <4>1. \A i \in 1..(handled + 1) : i \in 1..handled \/ keys[i] = key
        BY <1>0 DEF key
      <4>2. \A k \in Keys(handled + 1) : k \in Keys(handled) \/ k = key
        BY <4>1 DEF Keys
      <4> QED
        BY <2>3, <3>2, <3>5, <4>2
    <3>7. /\ Transfer!About' = Transfer!About /\ transferPc' = "copy"
          /\ Keys(handled)' = Keys(handled + 1)
      BY <2>1, SameCommand DEF Keys
    <3> QED
      BY <3>3, <3>6, <3>7 DEF ArrivesFirst
  <2> QED
    BY <2>1, <2>4, <2>6, <2>7, SameCommand DEF TransferInv
<1>3. CASE Transfer!Copied
  <2>1. /\ transferPc = "copy" /\ handled = Len(keys) /\ handled' = 0
        /\ transferPc' = IF cmd.verb = "mv" THEN "delete" ELSE "done"
        /\ UNCHANGED <<objects, cmd, first, keys>>
    BY <1>3 DEF Transfer!Copied, Transfer!After
  <2>2. TransferTyped' /\ Matched' /\ NothingGone'
    BY <1>0, <2>1, SameCommand DEF TransferTyped, TransferInv, Matched, NothingGone, Held, Source
  <2>3. ASSUME cmd.verb # "rm", Transfer!Apart PROVE ArrivesFirst'
    <3>1. \A k : (StillThere(k)' <=> StillThere(k)) /\ (Arrived(k)' <=> Arrived(k))
      BY <2>1, SameCommand DEF StillThere, Arrived, Held, Source
    <3>2. Keys(Len(keys))' = Keys(handled)
      BY <2>1 DEF Keys
    <3> QED
      BY <2>1, <2>3, <3>1, <3>2, SameCommand DEF TransferInv, ArrivesFirst
  <2> QED
    BY <2>1, <2>2, <2>3, SameCommand DEF TransferInv
<1>4. CASE Transfer!Delete
  <2> DEFINE last == IF cmd.src = Disk THEN handled + 1
                     ELSE IF handled + DeleteBatch < Len(keys) THEN handled + DeleteBatch
                          ELSE Len(keys)
  <2>a. /\ transferPc = "delete" /\ handled < Len(keys)
        /\ objects' = [objects EXCEPT ![cmd.src] =
                         [k \in DOMAIN objects[cmd.src] \ {keys[i] : i \in (handled + 1)..last} |->
                            objects[cmd.src][k]]]
        /\ handled' = last
        /\ UNCHANGED <<cmd, first, transferPc, keys>>
    BY <1>4 DEF Transfer!Delete, Transfer!Drop
  <2>b. last \in (handled + 1)..Len(keys)
    BY <1>0, <2>a
  <2> HIDE DEF last
  <2>1. PICK upTo \in (handled + 1)..Len(keys) :
          /\ transferPc = "delete"
          /\ objects' = [objects EXCEPT ![cmd.src] =
                           [k \in DOMAIN objects[cmd.src]
                                    \ {keys[i] : i \in (handled + 1)..upTo} |->
                              objects[cmd.src][k]]]
          /\ handled' = upTo
          /\ UNCHANGED <<cmd, first, transferPc, keys>>
    BY <2>a, <2>b
  <2> DEFINE gone == {keys[i] : i \in (handled + 1)..upTo}
  <2>2. \A k \in gone : \E i \in 1..Len(keys) : k = keys[i]
    BY <1>0, <2>1
  <2> HIDE DEF gone
  <2>3. /\ DOMAIN objects' = Places
        /\ \A p \in Places : p # cmd.src => objects'[p] = objects[p]
        /\ DOMAIN objects'[cmd.src] = DOMAIN objects[cmd.src] \ gone
        /\ \A k \in DOMAIN objects[cmd.src] \ gone : objects'[cmd.src][k] = objects[cmd.src][k]
    BY <1>0, <2>1 DEF gone
  <2>4. TransferTyped' /\ Matched'
    BY <1>0, <2>1, <2>3, SameCommand DEF TransferTyped, TransferInv, Matched
  <2>5. \A k \in gone : k \in Transfer!About \/ k \notin HeldBefore
    BY <2>2 DEF TransferInv, Matched
  <2>6. NothingGone'
    <3>1. cmd.verb # "cp"
      BY <2>1 DEF TransferInv, NothingGone
    <3>2. HeldBefore \ Transfer!About \subseteq Held'
      BY <2>1, <2>3, <2>5 DEF TransferInv, NothingGone, Held, Source
    <3> QED
      BY <2>1, <3>1, <3>2, SameCommand DEF NothingGone
  <2>7. ASSUME cmd.verb # "rm", Transfer!Apart PROVE ArrivesFirst'
    <3>1. cmd.src = cmd.dst =>
            \A k \in Transfer!About : Transfer!Target(k) \notin Transfer!About
      BY <2>7 DEF Transfer!Apart
    <3>2. /\ \A k \in Transfer!About : StillThere(k) \/ Arrived(k)
          /\ \A k \in Keys(Len(keys)) : k \in Transfer!About /\ Arrived(k)
      BY <2>1, <2>7 DEF TransferInv, ArrivesFirst
    <3>3. \A k \in gone : k \in Transfer!About /\ Arrived(k)
      BY <2>2, <3>2 DEF Keys
    <3>4. \A k \in Transfer!About : Arrived(k) => Arrived(k)'
      <4> TAKE k \in Transfer!About
      <4>1. Arrived(k)' <=> /\ Transfer!Target(k) \in DOMAIN objects'[cmd.dst]
                            /\ objects'[cmd.dst][Transfer!Target(k)] = first[cmd.src][k]
        BY <2>1, SameCommand DEF Arrived, Source
      <4>2. ASSUME Arrived(k) PROVE cmd.src = cmd.dst => Transfer!Target(k) \notin gone
        BY <3>1, <3>3
      <4> QED
        BY <1>0, <2>3, <4>1, <4>2 DEF Arrived, Source
    <3>5. \A k \in Transfer!About : StillThere(k) /\ k \notin gone => StillThere(k)'
      BY <2>1, <2>3 DEF StillThere, Held, Source
    <3>6. \A k \in Transfer!About : StillThere(k)' \/ Arrived(k)'
      BY <3>2, <3>3, <3>4, <3>5
    <3>7. \A k \in Keys(Len(keys)) : k \in Transfer!About /\ Arrived(k)'
      BY <3>2, <3>4
    <3>8. /\ Transfer!About' = Transfer!About /\ transferPc' = "delete"
          /\ Keys(Len(keys))' = Keys(Len(keys))
      BY <2>1, SameCommand DEF Keys
    <3> QED
      BY <3>6, <3>7, <3>8 DEF ArrivesFirst
  <2> QED
    BY <2>1, <2>4, <2>6, <2>7, SameCommand DEF TransferInv
<1>5. CASE Transfer!Deleted \/ Transfer!Fail \/ Transfer!Cancel \/ UNCHANGED transferVars
  <2>1. /\ transferPc' \in {transferPc, "done", "failed"}
        /\ UNCHANGED <<objects, cmd, first, keys, handled>>
    BY <1>5 DEF Transfer!Deleted, Transfer!Fail, Transfer!Cancel, transferVars
  <2>2. TransferTyped' /\ Matched' /\ NothingGone'
    BY <1>0, <2>1, SameCommand DEF TransferTyped, TransferInv, Matched, NothingGone, Held, Source
  <2>3. ASSUME cmd.verb # "rm", Transfer!Apart PROVE ArrivesFirst'
    <3>1. \A k : (StillThere(k)' <=> StillThere(k)) /\ (Arrived(k)' <=> Arrived(k))
      BY <2>1, SameCommand DEF StillThere, Arrived, Held, Source
    <3>2. Keys(Len(keys))' = Keys(Len(keys)) /\ Keys(handled)' = Keys(handled)
      BY <2>1 DEF Keys
    <3> QED
      BY <2>1, <2>3, <3>1, <3>2, SameCommand DEF TransferInv, ArrivesFirst
  <2> QED
    BY <2>1, <2>2, <2>3, SameCommand DEF TransferInv
<1> QED
  BY <1>1, <1>2, <1>3, <1>4, <1>5 DEF Transfer!Next

\* A copy or a move, finished, failed or cancelled wherever it was, loses nothing
\* of what it is about, what it is not about stays, and nothing is taken away
\* before the last copy is made (_cmd_transfer, _cmd_rm).
THEOREM TransferNothingLost == PartsSpec => []NothingLost
<1> DEFINE Inv == kind = "transfer" => TransferInv
<1>1. PartsInit => Inv
  BY TransferInitial DEF PartsInit
<1>2. Inv /\ [PartsNext]_partsVars => Inv'
  <2> SUFFICES ASSUME Inv, [PartsNext]_partsVars, kind' = "transfer" PROVE TransferInv'
    OBVIOUS
  <2>1. kind = "transfer" /\ [Transfer!Next]_transferVars
    BY DEF PartsNext, partsVars, transferVars
  <2> QED
    BY <2>1, TransferInductive
<1>3. Inv => NothingLost
  BY DEF NothingLost, Transfer!NothingLost, TransferInv, ArrivesFirst, NothingGone, StillThere,
     Arrived, Held, HeldBefore, Source
<1> QED
  BY <1>1, <1>2, <1>3, PTL DEF PartsSpec
=============================================================================
