--------------------------- MODULE ConnectionGate ---------------------------
(***************************************************************************)
(* One connection of grannos/dispatcher.py: its entry in the store, the    *)
(* semaphore every request to it passes, the idle watchdog, the driver's   *)
(* link to the database, and the reconnect-and-retry around every call.    *)
(* Connections share nothing (explore caches aside), so one is enough.     *)
(*                                                                         *)
(* A step runs from one suspension point of the code to the next.  A link  *)
(* is one session with the database; the driver holds the current one and  *)
(* a call uses the link that was current when it began.  The reconnect of  *)
(* PostgreSQL, Oracle, Elasticsearch, MongoDB, Neo4j and Prometheus first  *)
(* closes the link the driver holds; with ReconnectCloses = FALSE it is    *)
(* that of SQL Server and S3, which only open another.                     *)
(***************************************************************************)
EXTENDS Naturals, Sequences, FiniteSets

CONSTANTS
  Requests,        \* execute, explore.* and session.* requests
  Closers,         \* disconnect requests
  Diagrams,        \* the requests that make several calls (explore.diagram)
  MaxConcurrency,  \* --max-concurrency
  IdleTimeout,     \* whether the idle timeout is enabled
  ReconnectCloses, \* whether the driver's reconnect closes the old link
  MaxLinks,        \* bound: links opened
  MaxDrops         \* bound: links the database drops

ASSUME ConnectionGateAssumption ==
  /\ IsFiniteSet(Requests)
  /\ Requests \cap Closers = {}
  /\ Diagrams \subseteq Requests
  /\ MaxConcurrency \in Nat \ {0}
  /\ IdleTimeout \in BOOLEAN
  /\ ReconnectCloses \in BOOLEAN
  /\ MaxLinks \in Nat
  /\ MaxDrops \in Nat

Links == 1..MaxLinks
NoLink == 0

VARIABLES
  store,     \* the connection's way through ConnectionStore._connections
  value,     \* Semaphore._value
  arrivals,  \* the requests that had to wait for the semaphore, in order
  timer,     \* IdleTimer: its watchdog task
  expiring,  \* the link the watchdog is closing
  link,      \* the driver's link
  open,      \* the links that are open
  opened,    \* how many links were ever opened
  drops,     \* how many links the database dropped
  pc,        \* where each request is
  uses       \* the link each request's current await concerns

vars == <<store, value, arrivals, timer, expiring, link, open, opened, drops,
          pc, uses>>

Calling == {"calling", "retrying"}
Reconnecting == {"closing", "opening"}
InFlight == Calling \cup Reconnecting
Outcomes == {"ok", "error", "lost", "cancelled", "refused"}
States == {"new", "waiting", "granted", "disconnecting"} \cup InFlight \cup Outcomes
Procs == Requests \cup Closers

TypeOK ==
  /\ store \in {"absent", "connecting", "open", "removed", "failed"}
  /\ value \in 0..MaxConcurrency
  /\ arrivals \in Seq(Requests)
  /\ timer \in {"none", "armed", "closing", "off"}
  /\ expiring \in Links \cup {NoLink}
  /\ link \in Links \cup {NoLink}
  /\ open \subseteq Links
  /\ opened \in 0..MaxLinks
  /\ drops \in 0..MaxDrops
  /\ pc \in [Procs -> States]
  /\ uses \in [Procs -> Links \cup {NoLink}]

Init ==
  /\ store = "absent"
  /\ value = MaxConcurrency
  /\ arrivals = <<>>
  /\ timer = "none"
  /\ expiring = NoLink
  /\ link = NoLink
  /\ open = {}
  /\ opened = 0
  /\ drops = 0
  /\ pc = [p \in Procs |-> "new"]
  /\ uses = [p \in Procs |-> NoLink]

Goto(p, s) == pc' = [pc EXCEPT ![p] = s]
Use(p, l) == uses' = [uses EXCEPT ![p] = l]

----------------------------------------------------------------------------
(* connect *)

ConnectStart ==
  /\ store = "absent"
  /\ store' = "connecting"
  /\ UNCHANGED <<value, arrivals, timer, expiring, link, open, opened, drops,
                 pc, uses>>

OpenLink ==
  /\ opened < MaxLinks
  /\ opened' = opened + 1
  /\ open' = open \cup {opened'}

\* The driver is created, then the connection is registered with its timer.
ConnectRegisters ==
  /\ store = "connecting"
  /\ OpenLink
  /\ link' = opened'
  /\ store' = "open"
  /\ timer' = IF IdleTimeout THEN "armed" ELSE "none"
  /\ UNCHANGED <<value, arrivals, expiring, drops, pc, uses>>

\* The database refuses, or the request is cancelled while it connects.
ConnectFails ==
  /\ store = "connecting"
  /\ store' = "failed"
  /\ UNCHANGED <<value, arrivals, timer, expiring, link, open, opened, drops,
                 pc, uses>>

\* float(idle_timeout) raises once the driver is connected: nothing refers to
\* the driver, whose link stays open.
ConnectBadTimeout ==
  /\ store = "connecting"
  /\ OpenLink
  /\ store' = "failed"
  /\ UNCHANGED <<value, arrivals, timer, expiring, link, drops, pc, uses>>

----------------------------------------------------------------------------
(* The idle watchdog *)

\* Mutant: a request that enters leaves the timer running.
CancelNothing == timer' = timer
CancelTimer == timer' = IF timer = "none" THEN "none" ELSE "off"
\* Mutant: the timer is not restarted.
ResetNothing == timer' = timer
ResetTimer == timer' = IF timer = "none" THEN "none" ELSE "armed"

TimerExpires ==
  /\ timer = "armed"
  /\ timer' = "closing"
  /\ expiring' = link
  /\ UNCHANGED <<store, value, arrivals, link, open, opened, drops, pc, uses>>

TimerCloses ==
  /\ timer = "closing"
  /\ timer' = "off"
  /\ open' = open \ {expiring}
  /\ UNCHANGED <<store, value, arrivals, expiring, link, opened, drops, pc, uses>>

----------------------------------------------------------------------------
(* The semaphore.  A waiter that was granted the semaphore stays in the     *)
(* queue until it runs, and newcomers queue behind it.                     *)

Waiting == {r \in Requests : pc[r] = "waiting"}
Queued == {r \in Requests : pc[r] \in {"waiting", "granted"}}

Before(a, b) ==
  \E i, j \in DOMAIN arrivals : i < j /\ arrivals[i] = a /\ arrivals[j] = b

\* The first k requests of S, all of S if it has fewer.
First(k, S) ==
  {W \in SUBSET S : /\ Cardinality(W) <= k
                    /\ Cardinality(W) = k \/ W = S
                    /\ \A a \in W : \A b \in S \ W : Before(a, b)}

\* Request r moves to s, the semaphore's count is n, and it goes to W.
Grant(W, n, r, s) ==
  /\ value' = n - Cardinality(W)
  /\ pc' = [p \in Procs |-> IF p = r THEN s ELSE IF p \in W THEN "granted" ELSE pc[p]]

\* `async with conn': the timer is stopped, then the semaphore is acquired.
Refused(r) ==
  /\ pc[r] = "new" /\ store = "removed"
  /\ Goto(r, "refused")
  /\ UNCHANGED <<store, value, arrivals, timer, expiring, link, open, opened,
                 drops, uses>>

Enter(r) ==
  /\ pc[r] = "new" /\ store = "open"
  /\ CancelTimer
  /\ IF value = 0 \/ Queued # {}
     THEN /\ Goto(r, "waiting")
          /\ arrivals' = Append(arrivals, r)
          /\ UNCHANGED <<value, uses>>
     ELSE /\ Goto(r, "calling")
          /\ value' = value - 1
          /\ Use(r, link)
          /\ UNCHANGED arrivals
  /\ UNCHANGED <<store, expiring, link, open, opened, drops>>

\* A granted waiter runs: it passes on what is left of the semaphore, and
\* its handler makes its call on the link of the moment.
Resume(r) ==
  /\ pc[r] = "granted"
  /\ \E W \in First(value, Waiting) : Grant(W, value, r, "calling")
  /\ Use(r, link)
  /\ UNCHANGED <<store, arrivals, timer, expiring, link, open, opened, drops>>

\* Mutant: a cancelled waiter gives a unit back even if it never had one.
CancelQueuedGivesBack(r) ==
  /\ pc[r] \in {"waiting", "granted"}
  /\ \E W \in First(value + 1, Waiting \ {r}) : Grant(W, value + 1, r, "cancelled")
  /\ UNCHANGED <<store, arrivals, timer, expiring, link, open, opened, drops, uses>>

\* Mutant: a waiter cancelled after the handover keeps its unit.
CancelQueuedKeeps(r) ==
  /\ pc[r] \in {"waiting", "granted"}
  /\ \E W \in First(value, Waiting \ {r}) : Grant(W, value, r, "cancelled")
  /\ UNCHANGED <<store, arrivals, timer, expiring, link, open, opened, drops, uses>>

\* Mutant: a waiter cancelled after the handover wakes nobody in its place.
CancelQueuedWakesNobody(r) ==
  /\ pc[r] \in {"waiting", "granted"}
  /\ Grant({}, IF pc[r] = "granted" THEN value + 1 ELSE value, r, "cancelled")
  /\ UNCHANGED <<store, arrivals, timer, expiring, link, open, opened, drops, uses>>

CancelQueued(r) ==
  /\ pc[r] \in {"waiting", "granted"}
  /\ LET n == IF pc[r] = "granted" THEN value + 1 ELSE value IN
     \E W \in First(n, Waiting \ {r}) : Grant(W, n, r, "cancelled")
  /\ UNCHANGED <<store, arrivals, timer, expiring, link, open, opened, drops, uses>>

\* Mutant: the release wakes nobody.
LeaveWakesNobody(r, outcome) ==
  /\ Grant({}, value + 1, r, outcome)
  /\ ResetTimer

\* Leaving the `async with' block: release, then restart the idle timer.
Leave(r, outcome) ==
  /\ \E W \in First(1, Waiting) : Grant(W, value + 1, r, outcome)
  /\ ResetTimer

----------------------------------------------------------------------------
(* A request in flight *)

CallReturns(r) ==
  /\ pc[r] \in Calling /\ uses[r] \in open
  /\ Leave(r, "ok")
  /\ UNCHANGED <<store, arrivals, expiring, link, open, opened, drops, uses>>

\* A diagram goes on to describe the next table.
NextCall(r) ==
  /\ r \in Diagrams
  /\ pc[r] \in Calling /\ uses[r] \in open
  /\ Goto(r, "calling")
  /\ Use(r, link)
  /\ UNCHANGED <<store, value, arrivals, timer, expiring, link, open, opened, drops>>

CallFails(r) ==
  /\ pc[r] \in Calling
  /\ Leave(r, "error")
  /\ UNCHANGED <<store, arrivals, expiring, link, open, opened, drops, uses>>

\* The call finds its link closed, by whomever: the driver reconnects.
CallLost(r) ==
  /\ pc[r] = "calling" /\ uses[r] \notin open
  /\ Goto(r, IF ReconnectCloses THEN "closing" ELSE "opening")
  /\ Use(r, link)
  /\ UNCHANGED <<store, value, arrivals, timer, expiring, link, open, opened, drops>>

\* The link closed is the driver's when the reconnect began.
CloseOld(r) ==
  /\ pc[r] = "closing"
  /\ open' = open \ {uses[r]}
  /\ Goto(r, "opening")
  /\ UNCHANGED <<store, value, arrivals, timer, expiring, link, opened, drops, uses>>

\* Mutant: the driver keeps its old link.
OpenUnassigned(r) ==
  /\ pc[r] = "opening"
  /\ OpenLink
  /\ Goto(r, "retrying")
  /\ Use(r, opened')
  /\ UNCHANGED <<store, value, arrivals, timer, expiring, link, drops>>

OpenNew(r) ==
  /\ pc[r] = "opening"
  /\ OpenLink
  /\ link' = opened'
  /\ Goto(r, "retrying")
  /\ Use(r, opened')
  /\ UNCHANGED <<store, value, arrivals, timer, expiring, drops>>

OpenFails(r) ==
  /\ pc[r] = "opening"
  /\ Leave(r, "error")
  /\ UNCHANGED <<store, arrivals, expiring, link, open, opened, drops, uses>>

\* One retry, no more: a second loss is reported.
RetryLost(r) ==
  /\ pc[r] = "retrying" /\ uses[r] \notin open
  /\ Leave(r, "lost")
  /\ UNCHANGED <<store, arrivals, expiring, link, open, opened, drops, uses>>

CancelInFlight(r) ==
  /\ pc[r] \in InFlight
  /\ Leave(r, "cancelled")
  /\ UNCHANGED <<store, arrivals, expiring, link, open, opened, drops, uses>>

----------------------------------------------------------------------------
(* disconnect: ConnectionStore.close, then Connection.close *)

Disconnect(d) ==
  /\ pc[d] = "new" /\ store \in {"open", "removed"}
  /\ IF store = "open"
     THEN /\ store' = "removed"
          /\ CancelTimer
          /\ Goto(d, "disconnecting")
          /\ Use(d, link)
     ELSE /\ Goto(d, "ok")
          /\ UNCHANGED <<store, timer, uses>>
  /\ UNCHANGED <<value, arrivals, expiring, link, open, opened, drops>>

Disconnected(d) ==
  /\ pc[d] = "disconnecting"
  /\ open' = open \ {uses[d]}
  /\ Goto(d, "ok")
  /\ UNCHANGED <<store, value, arrivals, timer, expiring, link, opened, drops, uses>>

CancelDisconnect(d) ==
  /\ pc[d] = "disconnecting"
  /\ Goto(d, "cancelled")
  /\ UNCHANGED <<store, value, arrivals, timer, expiring, link, open, opened,
                 drops, uses>>

\* The database, or the network, drops a link.
DropLink(l) ==
  /\ l \in open /\ drops < MaxDrops
  /\ open' = open \ {l}
  /\ drops' = drops + 1
  /\ UNCHANGED <<store, value, arrivals, timer, expiring, link, opened, pc, uses>>

----------------------------------------------------------------------------

Connects == ConnectStart \/ ConnectRegisters \/ ConnectFails \/ ConnectBadTimeout

Acquires(r) == Refused(r) \/ Enter(r) \/ Resume(r) \/ CancelQueued(r)
CallEnds(r) == CallReturns(r) \/ NextCall(r) \/ CallFails(r) \/ CallLost(r) \/ RetryLost(r)
Reconnects(r) == CloseOld(r) \/ OpenNew(r) \/ OpenFails(r)
Disconnects(d) == Disconnect(d) \/ Disconnected(d) \/ CancelDisconnect(d)

Next ==
  \/ Connects
  \/ TimerExpires \/ TimerCloses
  \/ \E r \in Requests :
       Acquires(r) \/ CallEnds(r) \/ Reconnects(r) \/ CancelInFlight(r)
  \/ \E d \in Closers : Disconnects(d)
  \/ \E l \in Links : DropLink(l)

(***************************************************************************)
(* The event loop runs every task that can run; a call on a link ends,     *)
(* and so do opening and closing one; the idle timeout elapses.  Nothing    *)
(* obliges a client to send, a user to cancel or a database to drop a link.*)
(***************************************************************************)
Fairness ==
  /\ WF_vars(ConnectRegisters \/ ConnectFails)
  /\ WF_vars(TimerExpires) /\ WF_vars(TimerCloses)
  /\ \A r \in Requests :
       /\ WF_vars(Resume(r))
       /\ WF_vars(CallReturns(r) \/ CallFails(r) \/ CallLost(r) \/ RetryLost(r))
       /\ WF_vars(Reconnects(r))
  /\ \A d \in Closers : WF_vars(Disconnected(d))

Spec == Init /\ [][Next]_vars /\ Fairness

----------------------------------------------------------------------------
(* Properties *)

\* The requests that hold the semaphore, or were just handed it.
Holders == {r \in Requests : pc[r] \in InFlight \cup {"granted"}}
Busy == Holders # {} \/ Waiting # {}
Ended(p) == pc[p] \in Outcomes

\* Every unit of the semaphore is either free or held by exactly one request,
\* through handover, cancellation while queued and cancellation after the
\* handover (dispatcher.py:71-80): so never more than max_concurrency calls.
SemaphoreAccounted == value + Cardinality(Holders) = MaxConcurrency

\* No request waits for a semaphore that is free, unless one was just handed
\* it and will pass on the rest: no wakeup is lost (dispatcher.py:74, 78).
NoLostWakeup ==
  Waiting # {} => value = 0 \/ \E r \in Requests : pc[r] = "granted"

\* A registered connection nobody uses is watched: whatever was cancelled,
\* queued or interrupted before, its idle timer runs or its link is closed
\* already (dispatcher.py:71-84, README.md:123).
IdleIsWatched ==
  IdleTimeout /\ store = "open" /\ ~Busy =>
    timer \in {"armed", "closing"} \/ link \notin open

\* The idle timer does not fire while a query is running, says
\* test_timer_does_not_fire_while_query_is_running of the watchdog
\* (dispatcher.py:77-84).
NoExpiryWhileRunning ==
  timer = "closing" => \A r \in Requests : pc[r] \notin InFlight

\* With one request at a time, a link is never left open with nobody to close
\* it: an open link is the driver's, or the bad idle_timeout's of a failed
\* connect (dispatcher.py:241-245, 431-446).
NoStrayLink == store # "failed" => open \subseteq {link}

\* What may close the link a request retries its call on (dispatcher.py:431-446):
\* the database, a disconnect, the watchdog that another request restarted when it
\* ended (which with one request at a time is a request this one waited for), and,
\* when requests overlap, the reconnect of another one that lost a link too.
Undisturbed ==
  \A r \in Requests :
    pc[r] = "retrying" /\ uses[r] \in open /\ uses[r] \notin open' =>
      \/ drops' = drops + 1
      \/ \E d \in Closers : pc[d] = "disconnecting" /\ pc'[d] = "ok"
      \/ /\ timer = "closing" /\ timer' = "off"
         /\ \E q \in Requests \ {r} : Ended(q)
         /\ MaxConcurrency > 1 \/ \E i \in DOMAIN arrivals : arrivals[i] = r
      \/ /\ ReconnectCloses /\ MaxConcurrency > 1
         /\ \E q \in Requests \ {r} : pc[q] = "closing" /\ pc'[q] = "opening"
RetryUndisturbed == [][Undisturbed]_vars

\* A request admitted or queued comes to an end (dispatcher.py:180-184).
EveryRequestEnds ==
  \A r \in Requests : pc[r] = "waiting" ~> Ended(r)

\* Every request and the disconnect itself are over, and none was cancelled.
DisconnectedForGood ==
  /\ store = "removed" /\ ~Busy
  /\ \A d \in Closers : pc[d] \in {"new", "ok"}

\* With an idle timer, a link that a late request reopened on a deregistered
\* connection is closed in the end: leaving the request restarted the timer.
ReopenedLinkExpires == DisconnectedForGood ~> link \notin open

============================================================================
