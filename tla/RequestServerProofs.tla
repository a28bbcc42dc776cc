------------------------ MODULE RequestServerProofs -------------------------
(***************************************************************************)
(* Proofs about RequestServer, for any number of lines, ids and any way    *)
(* the lines arrive.                                                       *)
(*                                                                         *)
(* A cancel hits what it names because the table leads an id only to a     *)
(* request that has it (Table), a task only begins once its line was       *)
(* decoded (Queue), and whatever shows that a task was cancelled was asked *)
(* for (Cancels).  That the end of the server is final needs the event     *)
(* loop: it stops the read loop once, and resumes it once per wakeup       *)
(* (LoopInv).                                                              *)
(*                                                                         *)
(* Each step is also one of RequestContract, or leaves what it sees alone: *)
(* a line is answered once, and goes unanswered only if it is excused.     *)
(* That rests on the order of the event loop's queue: tasks start in the   *)
(* order of their lines, so that a cancel reaches a task before its first  *)
(* step only if it was sent before (Withdrawn), and all of them before the *)
(* loop is stopped (Begun).                                                *)
(***************************************************************************)
EXTENDS RequestServer, FiniteSetTheorems, TLAPS

\* A reply is one of the kinds there are, unless its value has no JSON form.
LEMMA RespondTyped ==
  ASSUME TypeOK, NEW n \in Tasks, NEW kind \in {"error", "cancelled"} \cup Outcomes,
         Respond(n, kind)
  PROVE  /\ phase' \in [Tasks -> Phases] /\ doomed' \subseteq Tasks
         /\ out' \in [Tasks -> Seq(ReplyKinds)]
<1>1. kind # "unencodable" => kind \in ReplyKinds
  BY RequestServerAssumption DEF ReplyKinds
<1>2. phase' \in [Tasks -> Phases] /\ doomed' \subseteq Tasks
  BY DEF Respond, Finish, TypeOK, Phases
<1>3. out' \in [Tasks -> Seq(ReplyKinds)]
  BY <1>1 DEF Respond, Write, TypeOK
<1> QED
  BY <1>2, <1>3

\* A queue of callbacks in which no task begins before its line was decoded.
Queue(q, d) ==
  /\ q \in Seq(Callbacks)
  /\ \A k \in 1..Len(q) : q[k].do = "start" => q[k].task \in 1..d

\* Every variable has its type, and what is queued to start was decoded.
TypeInv == TypeOK /\ Queue(ready, decoded)

\* What adding and removing a callback makes of such a queue.
LEMMA QueueTyped ==
  ASSUME NEW d \in Nat, NEW q, Queue(q, d), NEW c \in Callbacks, c.do = "start" => c.task \in 1..d
  PROVE  /\ Queue(Append(q, c), d)
         /\ q # <<>> => Queue(Tail(q), d) /\ Queue(Append(Tail(q), c), d)
<1>1. ASSUME NEW p, Queue(p, d) PROVE Queue(Append(p, c), d)
  <2>1. p \in Seq(Callbacks) /\ Len(p) \in Nat
    BY <1>1 DEF Queue
  <2>2. Append(p, c) \in Seq(Callbacks) /\ Len(Append(p, c)) = Len(p) + 1
    BY <2>1
  <2>3. \A k \in 1..(Len(p) + 1) : Append(p, c)[k] = IF k <= Len(p) THEN p[k] ELSE c
    BY <2>1
  <2> QED
    BY <1>1, <2>1, <2>2, <2>3 DEF Queue
<1>2. ASSUME q # <<>> PROVE Queue(Tail(q), d)
  <2>1. q \in Seq(Callbacks) /\ Len(q) \in Nat /\ Len(q) > 0
    BY <1>2 DEF Queue
  <2>2. Tail(q) \in Seq(Callbacks) /\ Len(Tail(q)) = Len(q) - 1
    BY <2>1
  <2>3. \A k \in 1..(Len(q) - 1) : Tail(q)[k] = q[k + 1]
    BY <2>1
  <2> QED
    BY <2>1, <2>2, <2>3 DEF Queue
<1> QED
  BY <1>1, <1>2

\* The callbacks there are.
LEMMA CallbackTyped ==
  /\ \A n \in Tasks : \A do \in {"start", "wake", "done"} :
       Callback(do, n) \in Callbacks /\ Callback(do, n).do = do /\ Callback(do, n).task = n
  /\ \A do \in {"data", "read", "stop"} : Callback(do, NoTask) \in Callbacks /\ Callback(do, NoTask).do = do
BY DEF Callback, Callbacks

\* What is left of the queue when its head has run, alone or with the callback
\* that the head leaves behind.
LEMMA HeadTyped ==
  ASSUME TypeInv, NEW do, NEW n, Runs(do, n)
  PROVE  /\ Queue(Tail(ready), decoded)
         /\ \A m \in Tasks : Queue(Append(Tail(ready), Callback("done", m)), decoded)
         /\ Queue(Append(Tail(ready), Callback("read", NoTask)), decoded)
         /\ do = "start" => n \in 1..decoded /\ n \in 1..Len(input) /\ input[n] \in Line
<1>1. Queue(ready, decoded) /\ ready # <<>> /\ decoded \in Nat
  BY DEF TypeInv, TypeOK, Runs
<1>2. Queue(Tail(ready), decoded)
  BY <1>1, QueueTyped, CallbackTyped
<1>3. \A m \in Tasks : Queue(Append(Tail(ready), Callback("done", m)), decoded)
  BY <1>1, QueueTyped, CallbackTyped
<1>4. Queue(Append(Tail(ready), Callback("read", NoTask)), decoded)
  BY <1>1, QueueTyped, CallbackTyped
<1>5. do = "start" => n \in 1..decoded
  <2>1. ready[1].do = do /\ ready[1].task = n /\ 1 \in 1..Len(ready)
    BY <1>1 DEF Runs, Callback, Queue
  <2> QED
    BY <1>1, <2>1 DEF Queue
<1>6. 1..decoded \subseteq 1..Len(input) /\ \A m \in 1..Len(input) : input[m] \in Line
  BY DEF TypeInv, TypeOK
<1> QED
  BY <1>2, <1>3, <1>4, <1>5, <1>6

\* A task that ends keeps the queue one.
LEMMA FinishTyped ==
  ASSUME TypeInv, NEW n \in Tasks, NEW do, Runs(do, n), Finish(n)
  PROVE  Queue(ready', decoded)
BY HeadTyped DEF Finish

\* The tasks that are cancelled are queued to wake, in some order.
LEMMA CancelTasksWakes ==
  ASSUME NEW S \in SUBSET Tasks, NEW queue, NEW ended, CancelTasks(S, queue, ended)
  PROVE  \E woken \in Seq(Callbacks) :
           ready' = queue \o woken /\ \A k \in 1..Len(woken) : woken[k].do = "wake"
<1> DEFINE asleep == {t \in S : phase[t] = "suspended"}
<1>1. Cardinality(asleep) \in Nat
  <2>1. IsFiniteSet(Tasks)
    BY RequestServerAssumption, FS_Interval DEF Tasks
  <2>2. asleep \subseteq Tasks
    OBVIOUS
  <2> QED
    BY <2>1, <2>2, FS_Subset, FS_CardinalityType
<1>2. PICK order \in SetToSeqs(asleep) :
        ready' = queue \o [k \in DOMAIN order |-> Callback("wake", order[k])]
  BY DEF CancelTasks
<1>3. order \in [1..Cardinality(asleep) -> asleep]
  BY <1>2 DEF SetToSeqs
<1> DEFINE woken == [k \in DOMAIN order |-> Callback("wake", order[k])]
<1>4. woken \in Seq(Callbacks) /\ \A k \in 1..Len(woken) : woken[k].do = "wake"
  <2>1. \A k \in 1..Cardinality(asleep) :
          Callback("wake", order[k]) \in Callbacks /\ Callback("wake", order[k]).do = "wake"
    BY <1>3, CallbackTyped
  <2> QED
    BY <1>1, <1>3, <2>1
<1> QED
  BY <1>2, <1>4

\* Cancelling tasks keeps the types.
LEMMA CancelTasksTyped ==
  ASSUME TypeOK, NEW S \in SUBSET Tasks, NEW queue, Queue(queue, decoded), NEW ended,
         CancelTasks(S, queue, ended)
  PROVE  /\ phase' \in [Tasks -> Phases] /\ wakeup' \in [Tasks -> Wakeups]
         /\ doomed' \subseteq Tasks /\ Queue(ready', decoded)
<1>1. phase' \in [Tasks -> Phases] /\ wakeup' \in [Tasks -> Wakeups] /\ doomed' \subseteq Tasks
  BY DEF CancelTasks, TypeOK, Phases, Wakeups
<1>2. PICK woken \in Seq(Callbacks) :
        ready' = queue \o woken /\ \A k \in 1..Len(woken) : woken[k].do = "wake"
  BY CancelTasksWakes
<1>3. queue \in Seq(Callbacks) /\ Len(queue) \in Nat /\ Len(woken) \in Nat
  BY DEF Queue
<1>4. queue \o woken \in Seq(Callbacks) /\ Len(queue \o woken) = Len(queue) + Len(woken)
  BY <1>3
<1>5. \A k \in 1..(Len(queue) + Len(woken)) :
        (queue \o woken)[k] = IF k <= Len(queue) THEN queue[k] ELSE woken[k - Len(queue)]
  BY <1>3
<1>6. \A k \in 1..(Len(queue) + Len(woken)) :
        (queue \o woken)[k].do = "start" => k \in 1..Len(queue)
  BY <1>2, <1>3, <1>5
<1>7. Queue(queue \o woken, decoded)
  BY <1>3, <1>4, <1>5, <1>6 DEF Queue
<1> QED
  BY <1>1, <1>2, <1>7

\* The next line, and its task.
LEMMA NextLineTyped ==
  ASSUME TypeOK, NEW kind, Reads(kind)
  PROVE  /\ NextLine \in Tasks /\ NextLine \in 1..Len(input) /\ input[NextLine] \in Line
         /\ input[NextLine].kind = kind /\ decoded' \in 0..Len(input) /\ UNCHANGED <<input, eof>>
         /\ decoded' = NextLine
<1>1. decoded \in Nat /\ Len(input) \in Nat /\ decoded < Len(input) /\ Len(input) <= MaxLines
      /\ MaxLines \in Nat
  BY RequestServerAssumption DEF TypeOK, Reads
<1>2. NextLine \in 1..Len(input) /\ NextLine \in 1..MaxLines
  BY <1>1 DEF NextLine
<1> QED
  BY <1>2 DEF TypeOK, Reads, Tasks

\* A task is queued to start when its line is decoded.
LEMMA CreateTaskTyped ==
  ASSUME TypeInv, NEW kind, Reads(kind), CreateTask
  PROVE  phase' \in [Tasks -> Phases] /\ Queue(ready', decoded')
<1>1. NextLine \in Tasks /\ decoded' = NextLine /\ decoded \in Nat
  BY NextLineTyped DEF TypeInv, TypeOK
<1>2. decoded' = decoded + 1
  BY <1>1 DEF NextLine
<1>3. Queue(ready, decoded')
  <2>1. \A d \in 1..decoded : d \in 1..decoded'
    BY <1>1, <1>2
  <2> QED
    BY <2>1 DEF TypeInv, Queue
<1>4. decoded' \in Nat /\ NextLine \in 1..decoded'
  BY <1>1, <1>2
<1>5. Queue(Append(ready, Callback("start", NextLine)), decoded')
  BY <1>1, <1>3, <1>4, QueueTyped, CallbackTyped
<1> QED
  BY <1>1, <1>5 DEF CreateTask, TypeInv, TypeOK, Phases

\* Waking a task keeps the types.
LEMMA WakeTyped ==
  ASSUME TypeInv, NEW n \in Tasks, NEW w \in Wakeups, Wake(n, w)
  PROVE  TypeInv'
<1>1. decoded \in Nat /\ Queue(ready, decoded)
  BY DEF TypeInv, TypeOK
<1>2. Queue(Append(ready, Callback("wake", n)), decoded)
  BY <1>1, QueueTyped, CallbackTyped
<1>3. UNCHANGED <<input, eof, decoded, reader, last, tasks, doomed, out, shutdown>>
      /\ ready' = Append(ready, Callback("wake", n))
  BY DEF Wake
<1>4. Queue(ready', decoded')
  BY <1>2, <1>3
<1>5. ready' \in Seq(Callbacks)
  BY <1>4 DEF Queue
<1>6. phase' \in [Tasks -> Phases] /\ wakeup' \in [Tasks -> Wakeups]
  BY DEF Wake, TypeInv, TypeOK, Phases
<1> QED
  BY <1>3, <1>4, <1>5, <1>6 DEF TypeInv, TypeOK

\* Stopping, or any change of the queue that keeps it one, with typed parts.
LEMMA TypeOfQueue ==
  ASSUME TypeInv, Queue(ready', decoded), UNCHANGED <<input, decoded>>,
         eof' \in BOOLEAN, reader' \in {"running", "waiting", "woken", "stopped"},
         last' \in Ids \cup {NoId}, tasks' \in [Ids -> Tasks \cup {NoTask}],
         phase' \in [Tasks -> Phases], doomed' \subseteq Tasks, wakeup' \in [Tasks -> Wakeups],
         out' \in [Tasks -> Seq(ReplyKinds)], shutdown' \in {"no", "draining", "cancelling", "exited"}
  PROVE  TypeInv'
<1>1. ready' \in Seq(Callbacks) /\ Queue(ready', decoded')
  BY DEF Queue
<1> QED
  BY <1>1 DEF TypeInv, TypeOK

\* Every step keeps the types: a cancel looks up an id of the client's.
LEMMA TypeStep ==
  ASSUME TypeInv, [Next]_vars
  PROVE  TypeInv'
<1>0. /\ MaxLines \in Nat /\ MaxBurst \in Nat
      /\ Outcomes \subseteq {"result", "error", "unencodable"}
  BY RequestServerAssumption
<1>a. TypeOK /\ decoded \in Nat /\ Queue(ready, decoded)
  BY DEF TypeInv, TypeOK
<1>1. CASE StdinReadable
  <2>1. Queue(ready', decoded)
    BY <1>1, <1>a, QueueTyped, CallbackTyped DEF StdinReadable
  <2> QED
    BY <1>1, <1>a, <2>1, TypeOfQueue DEF StdinReadable, TypeOK
<1>2. CASE ReceiveLines
  <2>1. PICK k \in 1..MaxBurst : \E burst \in [1..k -> Line] :
          ClientSends(input \o burst) /\ input' = input \o burst
    BY <1>2 DEF ReceiveLines
  <2>2. PICK burst \in [1..k -> Line] : ClientSends(input \o burst) /\ input' = input \o burst
    BY <2>1
  <2>3. k \in Nat /\ burst \in Seq(Line) /\ Len(burst) = k
    BY <1>0, <2>1, <2>2
  <2>4. input' \in Seq(Line) /\ Len(input') = Len(input) + k /\ Len(input') <= MaxLines
    <3>1. input \in Seq(Line)
      BY <1>a DEF TypeOK
    <3>2. input \o burst \in Seq(Line) /\ Len(input \o burst) = Len(input) + k
      BY <2>3, <3>1
    <3>3. Len(input \o burst) <= MaxLines
      BY <2>2 DEF ClientSends
    <3> QED
      BY <2>2, <3>2, <3>3
  <2>5. decoded' \in 0..Len(input')
    BY <1>2, <1>a, <2>3, <2>4 DEF ReceiveLines, TypeOK
  <2>6. Queue(ready', decoded) /\ reader' \in {"running", "waiting", "woken", "stopped"}
    BY <1>2, <1>a, HeadTyped DEF ReceiveLines, WakeReader, TypeOK
  <2>7. ready' \in Seq(Callbacks) /\ Queue(ready', decoded')
    BY <1>2, <2>6 DEF ReceiveLines, Queue
  <2> QED
    BY <1>2, <1>a, <2>4, <2>5, <2>6, <2>7 DEF ReceiveLines, TypeInv, TypeOK
<1>3. CASE ReceiveEof
  <2>1. Queue(ready', decoded) /\ reader' \in {"running", "waiting", "woken", "stopped"}
    BY <1>3, <1>a, HeadTyped DEF ReceiveEof, WakeReader, TypeOK
  <2> QED
    BY <1>3, <1>a, <2>1, TypeOfQueue DEF ReceiveEof, TypeOK
<1>4. CASE ResumeReader
  <2>1. Queue(ready', decoded)
    BY <1>4, HeadTyped DEF ResumeReader
  <2> QED
    BY <1>4, <1>a, <2>1, TypeOfQueue DEF ResumeReader, TypeOK
<1>5. CASE StopLoop
  <2>1. Queue(ready', decoded)
    BY <1>5, HeadTyped DEF StopLoop
  <2> QED
    BY <1>5, <1>a, <2>1, TypeOfQueue DEF StopLoop, TypeOK
<1>6. ASSUME NEW kind \in {"request", "cancel", "rejected"}, Reads(kind), CreateTask,
             last' \in Ids \cup {NoId}, tasks' \in [Ids -> Tasks \cup {NoTask}],
             UNCHANGED <<reader, doomed, wakeup, out, shutdown>>
      PROVE  TypeInv'
  <2>1. decoded' \in 0..Len(input) /\ UNCHANGED <<input, eof>>
    BY <1>6, <1>a, NextLineTyped
  <2>2. phase' \in [Tasks -> Phases] /\ Queue(ready', decoded')
    BY <1>6, CreateTaskTyped
  <2>3. ready' \in Seq(Callbacks)
    BY <2>2 DEF Queue
  <2> QED
    BY <1>6, <1>a, <2>1, <2>2, <2>3 DEF TypeInv, TypeOK
<1>7. CASE ReadRequest
  <2>1. Reads("request") /\ NextLine \in Tasks /\ input[NextLine].id \in Ids
    <3>1. Reads("request")
      BY <1>7 DEF ReadRequest
    <3>2. NextLine \in Tasks /\ input[NextLine] \in Line /\ input[NextLine].kind = "request"
      BY <1>a, <3>1, NextLineTyped
    <3> QED
      BY <3>1, <3>2 DEF Line
  <2> QED
    BY <1>6, <1>7, <1>a, <2>1 DEF ReadRequest, TypeOK
<1>8. CASE ReadCancel
  <2>1. Reads("cancel") /\ input[NextLine].id \in Ids \cup {NoId}
    <3>1. Reads("cancel")
      BY <1>8 DEF ReadCancel
    <3>2. input[NextLine] \in Line
      BY <1>a, <3>1, NextLineTyped
    <3> QED
      BY <3>1, <3>2 DEF Line
  <2> QED
    BY <1>6, <1>8, <1>a, <2>1 DEF ReadCancel, TypeOK
<1>9. CASE ReadRejected
  BY <1>6, <1>9, <1>a DEF ReadRejected, TypeOK
<1>10. CASE ReadUndecodable
  <2>1. Queue(Append(ready, Callback("stop", NoTask)), decoded)
    BY <1>a, QueueTyped, CallbackTyped
  <2>2. decoded' \in 0..Len(input) /\ UNCHANGED <<input, eof>> /\ decoded' = decoded + 1
    BY <1>10, <1>a, NextLineTyped DEF ReadUndecodable, NextLine
  <2>3. \A d \in 1..decoded : d \in 1..decoded'
    BY <1>a, <2>2
  <2>4. Queue(ready', decoded')
    BY <1>10, <2>1, <2>3 DEF ReadUndecodable, StopReading, Queue
  <2>5. ready' \in Seq(Callbacks)
    BY <2>4 DEF Queue
  <2> QED
    BY <1>10, <1>a, <2>2, <2>4, <2>5 DEF ReadUndecodable, StopReading, TypeInv, TypeOK
<1>11. CASE BufferEmpty
  <2>1. Queue(Append(ready, Callback("stop", NoTask)), decoded)
    BY <1>a, QueueTyped, CallbackTyped
  <2>2. CASE eof
    BY <1>11, <2>1, <2>2, TypeOfQueue, <1>a DEF BufferEmpty, StopReading, TypeOK
  <2>3. CASE ~eof
    BY <1>11, <2>3, TypeOfQueue, <1>a DEF BufferEmpty, TypeOK
  <2> QED
    BY <2>2, <2>3
<1>12. CASE CancelEverything
  <2>1. CancelTasks({n \in Tasks : ~Finished(n)}, ready, {})
    BY <1>12 DEF CancelEverything
  <2>2. /\ phase' \in [Tasks -> Phases] /\ wakeup' \in [Tasks -> Wakeups]
        /\ doomed' \subseteq Tasks /\ Queue(ready', decoded)
    BY <1>a, <2>1, CancelTasksTyped
  <2> QED
    BY <1>12, <1>a, <2>2, TypeOfQueue DEF CancelEverything, TypeOK
<1>13. CASE Exit
  BY <1>13, <1>a, TypeOfQueue DEF Exit, TypeOK
\* A task that is over, with the reply it has sent.
<1>14. ASSUME NEW n \in Tasks, NEW do, Runs(do, n),
              NEW kind \in {"error", "cancelled"} \cup Outcomes, Respond(n, kind),
              wakeup' \in [Tasks -> Wakeups],
              UNCHANGED <<input, eof, decoded, reader, last, tasks, shutdown>>
       PROVE  TypeInv'
  <2>1. Queue(ready', decoded)
    BY <1>14, FinishTyped DEF Respond
  <2>2. /\ phase' \in [Tasks -> Phases] /\ doomed' \subseteq Tasks
        /\ out' \in [Tasks -> Seq(ReplyKinds)]
    BY <1>14, <1>a, RespondTyped
  <2> QED
    BY <1>14, <1>a, <2>1, <2>2, TypeOfQueue DEF TypeOK
\* A task that goes on, with nothing sent.
<1>15. ASSUME NEW n \in Tasks, NEW do, Runs(do, n), ready' = Tail(ready),
              phase' \in [Tasks -> Phases], doomed' \subseteq Tasks, wakeup' \in [Tasks -> Wakeups],
              UNCHANGED <<input, eof, decoded, reader, last, tasks, out, shutdown>>
       PROVE  TypeInv'
  <2>1. Queue(ready', decoded)
    BY <1>15, HeadTyped
  <2> QED
    BY <1>15, <1>a, <2>1, TypeOfQueue DEF TypeOK
<1>16. ASSUME NEW n \in Tasks, NEW p \in Phases PROVE [phase EXCEPT ![n] = p] \in [Tasks -> Phases]
  BY <1>a DEF TypeOK
<1>17. ASSUME NEW n \in Tasks, NEW w \in Wakeups PROVE [wakeup EXCEPT ![n] = w] \in [Tasks -> Wakeups]
  BY <1>a DEF TypeOK
<1>18. doomed \subseteq Tasks /\ wakeup \in [Tasks -> Wakeups]
  BY <1>a DEF TypeOK
<1>19. /\ "suspended" \in Phases /\ "unwinding" \in Phases
       /\ "none" \in Wakeups /\ "cancel" \in Wakeups /\ "progress" \in Wakeups
       /\ "cancelled" \in Wakeups /\ Outcomes \subseteq Wakeups
  BY DEF Phases, Wakeups
<1>20. ASSUME NEW n \in Tasks, StartRejected(n) PROVE TypeInv'
  BY <1>14, <1>18, <1>20 DEF StartRejected
<1>21. ASSUME NEW n \in Tasks, StartDoomed(n) PROVE TypeInv'
  <2>1. Queue(ready', decoded)
    BY <1>21, FinishTyped DEF StartDoomed
  <2>2. phase' \in [Tasks -> Phases] /\ doomed' \subseteq Tasks
    BY <1>21, <1>a DEF StartDoomed, Finish, TypeOK, Phases
  <2> QED
    BY <1>21, <1>a, <2>1, <2>2, TypeOfQueue DEF StartDoomed, TypeOK
<1>22. ASSUME NEW n \in Tasks, StartRequest(n) PROVE TypeInv'
  <2>1. CASE phase' = [phase EXCEPT ![n] = "suspended"] /\ ready' = Tail(ready)
             /\ UNCHANGED <<doomed, wakeup, out>>
    BY <1>15, <1>16, <1>18, <1>19, <1>22, <2>1 DEF StartRequest
  <2>2. ASSUME NEW o \in Outcomes, Respond(n, o), wakeup' = [wakeup EXCEPT ![n] = o]
        PROVE  TypeInv'
    BY <1>14, <1>17, <1>19, <1>22, <2>2 DEF StartRequest
  <2> QED
    BY <1>22, <2>1, <2>2 DEF StartRequest
<1>23. ASSUME NEW n \in Tasks, StartCancel(n) PROVE TypeInv'
  <2>1. CASE Respond(n, "error") /\ UNCHANGED wakeup
    BY <1>14, <1>18, <1>23, <2>1 DEF StartCancel
  <2>2. CASE /\ CancelTasks(Registered(input[n].target), Tail(ready), {n})
             /\ input[n].target # NoId /\ out' = Write(n, "ok")
    <3>1. Queue(Tail(ready), decoded) /\ input[n] \in Line
      BY <1>23, HeadTyped DEF StartCancel
    <3>2. input[n].target \in Ids
      BY <2>2, <3>1 DEF Line
    <3>3. Registered(input[n].target) \in SUBSET Tasks
      BY <1>a, <3>2 DEF Registered, TypeOK
    <3>4. /\ phase' \in [Tasks -> Phases] /\ wakeup' \in [Tasks -> Wakeups]
          /\ doomed' \subseteq Tasks /\ Queue(ready', decoded)
      BY <1>a, <2>2, <3>1, <3>3, CancelTasksTyped
    <3>5. out' \in [Tasks -> Seq(ReplyKinds)]
      BY <1>a, <2>2 DEF Write, TypeOK, ReplyKinds
    <3> QED
      BY <1>23, <1>a, <3>4, <3>5, TypeOfQueue DEF StartCancel, TypeOK
  <2> QED
    BY <1>23, <2>1, <2>2 DEF StartCancel
<1>24. ASSUME NEW n \in Tasks, WakeProgress(n) PROVE TypeInv'
  BY <1>15, <1>16, <1>17, <1>18, <1>19, <1>24 DEF WakeProgress
<1>25. ASSUME NEW n \in Tasks, WakeCancelled(n) PROVE TypeInv'
  <2>1. CASE Respond(n, "cancelled")
    BY <1>14, <1>17, <1>19, <1>25, <2>1 DEF WakeCancelled
  <2>2. CASE /\ phase' = [phase EXCEPT ![n] = "unwinding"] /\ doomed' = doomed \ {n}
             /\ ready' = Tail(ready) /\ UNCHANGED out
    BY <1>15, <1>16, <1>17, <1>18, <1>19, <1>25, <2>2 DEF WakeCancelled
  <2> QED
    BY <1>25, <2>1, <2>2 DEF WakeCancelled
<1>26. ASSUME NEW n \in Tasks, WakeDone(n) PROVE TypeInv'
  BY <1>14, <1>18, <1>26 DEF WakeDone
<1>27. ASSUME NEW n \in Tasks, RequestDone(n) PROVE TypeInv'
  <2>1. Queue(ready', decoded)
    BY <1>27, HeadTyped DEF RequestDone
  <2>2. tasks' \in [Ids -> Tasks \cup {NoTask}]
    BY <1>27, <1>a DEF RequestDone, TypeOK
  <2> QED
    BY <1>27, <1>a, <2>1, <2>2, TypeOfQueue DEF RequestDone, TypeOK
<1>28. ASSUME NEW n \in Tasks, DispatcherActs(n) PROVE TypeInv'
  BY <1>19, <1>28, WakeTyped DEF DispatcherActs, DispatchProgress, DispatchUnwound, DispatchEnds
<1>29. CASE UNCHANGED vars
  BY <1>29, <1>a, TypeOfQueue DEF vars, TypeOK
<1>30. ASSUME NEW n \in Tasks, TaskRuns(n) PROVE TypeInv'
  BY <1>20, <1>21, <1>22, <1>23, <1>24, <1>25, <1>26, <1>27, <1>30 DEF TaskRuns
<1> QED
  BY <1>1, <1>2, <1>3, <1>4, <1>5, <1>7, <1>8, <1>9, <1>10, <1>11, <1>12, <1>13, <1>28, <1>29, <1>30
     DEF Next, LoopRuns, ReaderRuns, Exited

\* The types, and what they rest on, hold throughout.
LEMMA TypeInvHolds == Spec => []TypeInv
<1>1. Init => TypeInv
  <2> SUFFICES ASSUME Init PROVE TypeInv
    OBVIOUS
  <2>1. Queue(ready, decoded)
    BY DEF Init, Queue
  <2>2. /\ phase \in [Tasks -> Phases] /\ wakeup \in [Tasks -> Wakeups] /\ doomed \subseteq Tasks
        /\ tasks \in [Ids -> Tasks \cup {NoTask}]
    BY DEF Init, Phases, Wakeups
  <2>3. out \in [Tasks -> Seq(ReplyKinds)]
    BY DEF Init
  <2>4. /\ input \in Seq(Line) /\ Len(input) <= MaxLines /\ decoded \in 0..Len(input)
        /\ ready \in Seq(Callbacks)
    BY RequestServerAssumption DEF Init
  <2>5. /\ eof \in BOOLEAN /\ reader \in {"running", "waiting", "woken", "stopped"}
        /\ last \in Ids \cup {NoId} /\ shutdown \in {"no", "draining", "cancelling", "exited"}
    BY DEF Init
  <2> QED
    BY <2>1, <2>2, <2>3, <2>4, <2>5 DEF TypeInv, TypeOK
<1> QED
  BY <1>1, TypeStep, PTL DEF Spec

\* Every variable of the server keeps its type, for any number of lines and ids
\* (server.py:60-205).
THEOREM TypeCorrect == Spec => []TypeOK
<1>1. TypeInv => TypeOK
  BY DEF TypeInv
<1> QED
  BY <1>1, TypeInvHolds, PTL

----------------------------------------------------------------------------
(* The read loop is resumed once for each wakeup, and stopped once *)

\* The queue q has at most one callback that does this; or none.
AtMost(q, do) == \A j, k \in 1..Len(q) : q[j].do = do /\ q[k].do = do => j = k
None(q, do) == \A k \in 1..Len(q) : q[k].do # do

\* The callbacks of q that do this were in p, whose head may have run.
From(q, p, do) ==
  \E ran \in {0, 1} : \A k \in 1..Len(q) :
    q[k].do = do => k + ran \in 1..Len(p) /\ p[k + ran].do = do

LoopInv ==
  /\ AtMost(ready, "read") /\ AtMost(ready, "stop")
  /\ reader # "woken" => None(ready, "read")
  /\ reader # "stopped" \/ shutdown # "no" => None(ready, "stop")
  /\ reader # "stopped" => shutdown = "no"

\* A queue from p has no more of these callbacks than p.
LEMMA FromKeeps ==
  ASSUME NEW do, NEW p, NEW q, Len(p) \in Nat, Len(q) \in Nat, From(q, p, do)
  PROVE  (AtMost(p, do) => AtMost(q, do)) /\ (None(p, do) => None(q, do))
<1>1. PICK ran \in {0, 1} : \A k \in 1..Len(q) :
        q[k].do = do => k + ran \in 1..Len(p) /\ p[k + ran].do = do
  BY DEF From
<1>2. AtMost(p, do) => AtMost(q, do)
  <2> SUFFICES ASSUME AtMost(p, do), NEW j \in 1..Len(q), NEW k \in 1..Len(q),
                      q[j].do = do, q[k].do = do
               PROVE  j = k
    BY DEF AtMost
  <2>1. j + ran = k + ran
    BY <1>1 DEF AtMost
  <2> QED
    BY <1>1, <2>1
<1>3. None(p, do) => None(q, do)
  BY <1>1 DEF None
<1> QED
  BY <1>2, <1>3

\* What the steps do to the queue.
LEMMA QueueSteps ==
  ASSUME NEW p \in Seq(Callbacks), NEW do
  PROVE  /\ From(p, p, do)
         /\ p # <<>> => From(Tail(p), p, do) /\ Len(Tail(p)) \in Nat
         /\ \A c \in Callbacks : c.do # do =>
              /\ From(Append(p, c), p, do)
              /\ p # <<>> => From(Append(Tail(p), c), p, do)
         /\ \A c \in Callbacks : None(p, do) =>
              /\ AtMost(Append(p, c), do)
              /\ p # <<>> => AtMost(Append(Tail(p), c), do)
         /\ p # <<>> /\ AtMost(p, do) /\ Head(p).do = do => None(Tail(p), do)
<1>1. From(p, p, do)
  <2>1. \A k \in 1..Len(p) : k + 0 = k
    OBVIOUS
  <2> QED
    BY <2>1 DEF From
<1>2. ASSUME p # <<>>
      PROVE  /\ Tail(p) \in Seq(Callbacks) /\ Len(Tail(p)) = Len(p) - 1 /\ Len(p) > 0 /\ Len(p) \in Nat
             /\ \A k \in 1..(Len(p) - 1) : Tail(p)[k] = p[k + 1] /\ k + 1 \in 1..Len(p)
  BY <1>2
<1>3. ASSUME p # <<>> PROVE From(Tail(p), p, do)
  BY <1>2, <1>3 DEF From
<1>4. ASSUME NEW c \in Callbacks, NEW q \in Seq(Callbacks)
      PROVE  /\ Len(Append(q, c)) = Len(q) + 1 /\ Len(q) \in Nat
             /\ \A k \in 1..(Len(q) + 1) : Append(q, c)[k] = IF k <= Len(q) THEN q[k] ELSE c
  BY <1>4
<1>5. ASSUME NEW c \in Callbacks, c.do # do PROVE From(Append(p, c), p, do)
  <2>1. \A k \in 1..Len(Append(p, c)) : Append(p, c)[k].do = do => k + 0 \in 1..Len(p) /\ p[k + 0].do = do
    BY <1>4, <1>5
  <2> QED
    BY <2>1 DEF From
<1>6. ASSUME NEW c \in Callbacks, c.do # do, p # <<>> PROVE From(Append(Tail(p), c), p, do)
  <2>1. \A k \in 1..Len(Append(Tail(p), c)) :
          Append(Tail(p), c)[k].do = do => k + 1 \in 1..Len(p) /\ p[k + 1].do = do
    BY <1>2, <1>4, <1>6
  <2> QED
    BY <2>1 DEF From
<1>7. ASSUME NEW q \in Seq(Callbacks), NEW c \in Callbacks, None(q, do) PROVE AtMost(Append(q, c), do)
  <2>1. \A k \in 1..Len(Append(q, c)) : Append(q, c)[k].do = do => k = Len(q) + 1
    BY <1>4, <1>7 DEF None
  <2> QED
    BY <2>1 DEF AtMost
<1>8. ASSUME p # <<>>, None(p, do) PROVE None(Tail(p), do)
  BY <1>2, <1>8 DEF None
<1>9. ASSUME p # <<>>, AtMost(p, do), Head(p).do = do PROVE None(Tail(p), do)
  <2>1. p[1].do = do /\ 1 \in 1..Len(p)
    BY <1>2, <1>9
  <2>2. \A k \in 1..(Len(p) - 1) : k + 1 # 1
    BY <1>2, <1>9
  <2> QED
    BY <1>2, <1>9, <2>1, <2>2 DEF AtMost, None
<1>10. p # <<>> => From(Tail(p), p, do) /\ Len(Tail(p)) \in Nat
  BY <1>2, <1>3
<1>11. \A c \in Callbacks : c.do # do =>
         /\ From(Append(p, c), p, do)
         /\ p # <<>> => From(Append(Tail(p), c), p, do)
  BY <1>5, <1>6
<1>12. \A c \in Callbacks : None(p, do) =>
         /\ AtMost(Append(p, c), do)
         /\ p # <<>> => AtMost(Append(Tail(p), c), do)
  BY <1>2, <1>7, <1>8
<1> QED
  BY <1>1, <1>9, <1>10, <1>11, <1>12

\* The callbacks that cancellation adds are wakeups.
LEMMA CancelTasksFrom ==
  ASSUME TypeOK, NEW S \in SUBSET Tasks, NEW queue \in Seq(Callbacks), NEW ended,
         NEW do \in {"read", "stop"}, From(queue, ready, do), CancelTasks(S, queue, ended)
  PROVE  From(ready', ready, do)
<1>1. PICK woken \in Seq(Callbacks) :
        ready' = queue \o woken /\ \A k \in 1..Len(woken) : woken[k].do = "wake"
  BY CancelTasksWakes
<1>2. Len(queue) \in Nat /\ Len(woken) \in Nat /\ Len(queue \o woken) = Len(queue) + Len(woken)
  OBVIOUS
<1>3. \A k \in 1..(Len(queue) + Len(woken)) :
        (queue \o woken)[k] = IF k <= Len(queue) THEN queue[k] ELSE woken[k - Len(queue)]
  BY <1>2
<1>4. \A k \in 1..Len(queue \o woken) :
        (queue \o woken)[k].do = do => k \in 1..Len(queue) /\ queue[k].do = do
  BY <1>1, <1>2, <1>3
<1> QED
  BY <1>1, <1>4 DEF From

\* Every step keeps that: the read loop waits for a line before it is resumed.
LEMMA LoopStep ==
  ASSUME TypeInv, LoopInv, [Next]_vars
  PROVE  LoopInv'
<1>1. ready \in Seq(Callbacks) /\ Len(ready) \in Nat /\ Len(ready') \in Nat
  BY TypeStep DEF TypeInv, TypeOK
<1>2. /\ \A do \in {"data", "read", "stop"} :
           Callback(do, NoTask) \in Callbacks /\ Callback(do, NoTask).do = do
      /\ \A n \in Tasks, do \in {"start", "wake", "done"} :
           Callback(do, n) \in Callbacks /\ Callback(do, n).do = do
  BY CallbackTyped
\* A step that neither resumes the read loop nor stops it.
<1>3. ASSUME From(ready', ready, "read"), From(ready', ready, "stop"), reader' = reader,
             shutdown' = shutdown \/ (shutdown # "no" /\ shutdown' # "no")
      PROVE  LoopInv'
  <2>1. /\ AtMost(ready', "read") /\ AtMost(ready', "stop")
        /\ None(ready, "read") => None(ready', "read")
        /\ None(ready, "stop") => None(ready', "stop")
    BY <1>1, <1>3, FromKeeps DEF LoopInv
  <2> QED
    BY <1>3, <2>1 DEF LoopInv
<1>4. ASSUME NEW do, NEW n, Runs(do, n)
      PROVE  ready # <<>> /\ Head(ready).do = do /\ reader # "running"
  BY <1>4 DEF Runs, Callback
<1>5. ASSUME NEW n \in Tasks, NEW do, Runs(do, n),
             ready' \in {Tail(ready), Append(Tail(ready), Callback("done", n))},
             UNCHANGED <<reader, shutdown>>
      PROVE  LoopInv'
  <2>1. ready # <<>>
    BY <1>4, <1>5
  <2>2. Callback("done", n) \in Callbacks /\ Callback("done", n).do = "done"
    BY <1>2
  <2>3. ASSUME NEW what \in {"read", "stop"} PROVE From(ready', ready, what)
    <3>1. From(Tail(ready), ready, what)
      BY <1>1, <2>1, QueueSteps
    <3>2. From(Append(Tail(ready), Callback("done", n)), ready, what)
      BY <1>1, <2>1, <2>2, QueueSteps
    <3> QED
      BY <1>5, <3>1, <3>2
  <2> QED
    BY <1>3, <1>5, <2>3
<1>6. ASSUME NEW c \in Callbacks, c.do \notin {"read", "stop"}, ready' = Append(ready, c),
             UNCHANGED <<reader, shutdown>>
      PROVE  LoopInv'
  <2>1. From(ready', ready, "read")
    BY <1>1, <1>6, QueueSteps
  <2>2. From(ready', ready, "stop")
    BY <1>1, <1>6, QueueSteps
  <2> QED
    BY <1>3, <1>6, <2>1, <2>2
<1>7. CASE StdinReadable
  BY <1>2, <1>6, <1>7 DEF StdinReadable
\* A read loop that waits is not queued to be resumed.
<1>8. ASSUME Runs("data", NoTask), WakeReader, UNCHANGED shutdown PROVE LoopInv'
  <2>1. ready # <<>>
    BY <1>4, <1>8
  <2>2. CASE reader = "waiting"
    <3>1. None(ready, "read") /\ None(ready, "stop") /\ shutdown = "no"
      BY <2>2 DEF LoopInv
    <3>2. ready' = Append(Tail(ready), Callback("read", NoTask)) /\ reader' = "woken" /\ shutdown' = "no"
      BY <1>8, <2>2, <3>1 DEF WakeReader
    <3>3. AtMost(ready', "read")
      BY <1>1, <1>2, <2>1, <3>1, <3>2, QueueSteps
    <3>4. From(ready', ready, "stop")
      BY <1>1, <1>2, <2>1, <3>2, QueueSteps
    <3>5. None(ready', "stop") /\ AtMost(ready', "stop")
      BY <1>1, <3>1, <3>4, FromKeeps DEF LoopInv
    <3> QED
      BY <3>2, <3>3, <3>5 DEF LoopInv
  <2>3. CASE reader # "waiting"
    <3>1. ready' = Tail(ready) /\ reader' = reader
      BY <1>8, <2>3 DEF WakeReader
    <3>2. From(ready', ready, "read") /\ From(ready', ready, "stop")
      BY <1>1, <2>1, <3>1, QueueSteps
    <3> QED
      BY <1>3, <1>8, <3>1, <3>2
  <2> QED
    BY <2>2, <2>3
<1>9. CASE ReceiveLines
  BY <1>8, <1>9 DEF ReceiveLines
<1>10. CASE ReceiveEof
  BY <1>8, <1>10 DEF ReceiveEof
<1>11. CASE ResumeReader
  <2>1. ready # <<>> /\ Head(ready).do = "read"
    BY <1>4, <1>11 DEF ResumeReader
  <2>2. reader = "woken"
    <3>1. 1 \in 1..Len(ready) /\ ready[1].do = "read"
      BY <1>1, <2>1
    <3> QED
      BY <3>1 DEF LoopInv, None
  <2>3. ready' = Tail(ready) /\ reader' = "running" /\ shutdown' = "no" /\ None(ready, "stop")
    BY <1>11, <2>2 DEF ResumeReader, LoopInv
  <2>4. None(ready', "read") /\ AtMost(ready', "read")
    BY <1>1, <2>1, <2>3, QueueSteps DEF LoopInv, None, AtMost
  <2>5. None(ready', "stop") /\ AtMost(ready', "stop")
    BY <1>1, <2>1, <2>3, QueueSteps, FromKeeps DEF LoopInv
  <2> QED
    BY <2>3, <2>4, <2>5 DEF LoopInv
<1>12. CASE StopLoop
  <2>1. ready # <<>> /\ Head(ready).do = "stop" /\ ready' = Tail(ready) /\ reader' = reader
        /\ shutdown' = "draining"
    BY <1>4, <1>12 DEF StopLoop
  <2>2. reader = "stopped"
    <3>1. 1 \in 1..Len(ready) /\ ready[1].do = "stop"
      BY <1>1, <2>1
    <3> QED
      BY <3>1 DEF LoopInv, None
  <2>3. None(ready', "stop") /\ AtMost(ready', "stop")
    BY <1>1, <2>1, QueueSteps DEF LoopInv, None, AtMost
  <2>4. None(ready', "read") /\ AtMost(ready', "read")
    BY <1>1, <2>1, <2>2, QueueSteps, FromKeeps DEF LoopInv
  <2> QED
    BY <2>1, <2>2, <2>3, <2>4 DEF LoopInv
<1>13. ASSUME NEW kind, Reads(kind), CreateTask, UNCHANGED <<reader, shutdown>>, NextLine \in Tasks
       PROVE  LoopInv'
  BY <1>2, <1>6, <1>13 DEF CreateTask
<1>14. CASE ReadRequest
  BY <1>13, <1>14, NextLineTyped DEF ReadRequest, TypeInv
<1>15. CASE ReadCancel
  BY <1>13, <1>15, NextLineTyped DEF ReadCancel, TypeInv
<1>16. CASE ReadRejected
  BY <1>13, <1>16, NextLineTyped DEF ReadRejected, TypeInv
\* The read loop stops from "running", so nothing has stopped it before.
<1>17. ASSUME reader = "running", StopReading, UNCHANGED shutdown PROVE LoopInv'
  <2>1. None(ready, "read") /\ None(ready, "stop") /\ shutdown' = "no"
    BY <1>17 DEF LoopInv
  <2>2. ready' = Append(ready, Callback("stop", NoTask)) /\ reader' = "stopped"
    BY <1>17 DEF StopReading
  <2>3. AtMost(ready', "stop")
    BY <1>1, <1>2, <2>1, <2>2, QueueSteps
  <2>4. From(ready', ready, "read")
    BY <1>1, <1>2, <2>2, QueueSteps
  <2>5. None(ready', "read") /\ AtMost(ready', "read")
    BY <1>1, <2>1, <2>4, FromKeeps DEF LoopInv
  <2> QED
    BY <2>1, <2>2, <2>3, <2>5 DEF LoopInv
<1>18. CASE ReadUndecodable
  BY <1>17, <1>18 DEF ReadUndecodable, Reads
<1>19. CASE BufferEmpty
  <2>1. CASE eof
    BY <1>17, <1>19, <2>1 DEF BufferEmpty
  <2>2. CASE ~eof
    BY <1>19, <2>2 DEF BufferEmpty, LoopInv
  <2> QED
    BY <2>1, <2>2
<1>20. ASSUME NEW S \in SUBSET Tasks, NEW queue \in Seq(Callbacks), NEW ended,
              From(queue, ready, "read"), From(queue, ready, "stop"),
              CancelTasks(S, queue, ended), reader' = reader,
              shutdown' = shutdown \/ (shutdown # "no" /\ shutdown' # "no")
       PROVE  LoopInv'
  BY <1>3, <1>20, CancelTasksFrom DEF TypeInv
<1>21. CASE CancelEverything
  <2>1. From(ready, ready, "read") /\ From(ready, ready, "stop")
    BY <1>1, QueueSteps
  <2>2. CancelTasks({n \in Tasks : ~Finished(n)}, ready, {})
    BY <1>21 DEF CancelEverything
  <2> QED
    BY <1>1, <1>20, <1>21, <2>1, <2>2 DEF CancelEverything
<1>22. CASE UNCHANGED <<ready, reader>> /\ (shutdown' = shutdown \/ (shutdown # "no" /\ shutdown' # "no"))
  BY <1>1, <1>3, <1>22, QueueSteps
<1>23. ASSUME NEW n \in Tasks, NEW do, Runs(do, n), Finish(n), UNCHANGED <<reader, shutdown>>
       PROVE  LoopInv'
  BY <1>5, <1>23 DEF Finish
<1>24. ASSUME NEW n \in Tasks, StartCancel(n) PROVE LoopInv'
  <2>1. CASE Respond(n, "error")
    BY <1>23, <1>24, <2>1 DEF StartCancel, Respond
  <2>2. CASE /\ CancelTasks(Registered(input[n].target), Tail(ready), {n})
             /\ input[n].target # NoId
    <3>1. Tail(ready) \in Seq(Callbacks) /\ ready # <<>> /\ input[n] \in Line
      BY <1>4, <1>24, HeadTyped DEF StartCancel, Queue
    <3>2. input[n].target \in Ids
      BY <2>2, <3>1 DEF Line
    <3>3. Registered(input[n].target) \in SUBSET Tasks
      BY <3>2 DEF Registered, TypeInv, TypeOK
    <3>4. From(Tail(ready), ready, "read") /\ From(Tail(ready), ready, "stop")
      BY <1>1, <3>1, QueueSteps
    <3> QED
      BY <1>20, <1>24, <2>2, <3>1, <3>3, <3>4 DEF StartCancel
  <2> QED
    BY <1>24, <2>1, <2>2 DEF StartCancel
<1>25. ASSUME NEW n \in Tasks, TaskRuns(n) PROVE LoopInv'
  <2>1. CASE StartRejected(n)
    BY <1>23, <2>1 DEF StartRejected, Respond
  <2>2. CASE StartDoomed(n)
    BY <1>23, <2>2 DEF StartDoomed
  <2>3. CASE StartRequest(n)
    BY <1>5, <1>23, <2>3 DEF StartRequest, Respond
  <2>4. CASE WakeProgress(n)
    BY <1>5, <2>4 DEF WakeProgress
  <2>5. CASE WakeCancelled(n)
    BY <1>5, <1>23, <2>5 DEF WakeCancelled, Respond
  <2>6. CASE WakeDone(n)
    BY <1>23, <2>6 DEF WakeDone, Respond
  <2>7. CASE RequestDone(n)
    BY <1>5, <2>7 DEF RequestDone
  <2> QED
    BY <1>24, <1>25, <2>1, <2>2, <2>3, <2>4, <2>5, <2>6, <2>7 DEF TaskRuns
<1>26. ASSUME NEW n \in Tasks, DispatcherActs(n) PROVE LoopInv'
  BY <1>2, <1>6, <1>26 DEF DispatcherActs, DispatchProgress, DispatchUnwound, DispatchEnds, Wake
<1>27. CASE Exit
  BY <1>22, <1>27 DEF Exit
<1>28. CASE UNCHANGED vars
  BY <1>22, <1>28 DEF vars
<1> QED
  BY <1>7, <1>9, <1>10, <1>11, <1>12, <1>14, <1>15, <1>16, <1>18, <1>19, <1>21, <1>25, <1>26, <1>27, <1>28
     DEF Next, LoopRuns, ReaderRuns, Exited

----------------------------------------------------------------------------
(* A cancel only hits what it names *)

\* The table leads an id only to a request that has it, whichever entries the
\* done callbacks have removed.
Table ==
  \A i \in Ids : tasks[i] # NoTask =>
    tasks[i] \in 1..decoded /\ input[tasks[i]].kind = "request" /\ input[tasks[i]].id = i

\* A cancel of this line's id was read.
AskedFor(n) ==
  /\ n \in 1..Len(input)
  /\ \E m \in 1..Len(input) : input[m].kind = "cancel" /\ input[m].target = input[n].id

Closing == shutdown \in {"cancelling", "exited"}

ToldCancelled(n) == \E k \in DOMAIN out[n] : out[n][k] = "cancelled"

\* What a task carries of a cancellation, from the call of Task.cancel() on.
Touched(n) ==
  \/ n \in doomed
  \/ wakeup[n] \in {"cancel", "cancelled"}
  \/ phase[n] = "unwinding"
  \/ ToldCancelled(n)

Cancels == \A n \in Tasks : Touched(n) => AskedFor(n) \/ Closing

\* Lines are only added, and a server that is closing down stays so.
LEMMA LinesStay ==
  ASSUME TypeInv, [Next]_vars
  PROVE  /\ Len(input) <= Len(input') /\ \A m \in 1..Len(input) : input'[m] = input[m]
         /\ Len(input) \in Nat /\ Len(input') \in Nat
<1>1. input \in Seq(Line) /\ Len(input) \in Nat
  BY DEF TypeInv, TypeOK
<1>2. CASE ReceiveLines
  <2>1. MaxBurst \in Nat
    BY RequestServerAssumption
  <2>2. PICK k \in 1..MaxBurst : \E burst \in [1..k -> Line] : input' = input \o burst
    BY <1>2 DEF ReceiveLines
  <2>3. PICK burst \in [1..k -> Line] : input' = input \o burst
    BY <2>2
  <2>4. k \in Nat /\ burst \in Seq(Line) /\ Len(burst) = k
    BY <2>1, <2>2, <2>3
  <2>5. Len(input') = Len(input) + k /\ \A m \in 1..Len(input) : input'[m] = input[m]
    BY <1>1, <2>3, <2>4
  <2> QED
    BY <1>1, <2>4, <2>5
<1>3. CASE UNCHANGED input
  BY <1>1, <1>3
<1> QED
  BY <1>2, <1>3
     DEF Next, LoopRuns, ReaderRuns, TaskRuns, DispatcherActs, Exited, vars, Reads,
         StdinReadable, ReceiveEof, ResumeReader, StopLoop, ReadRequest, ReadCancel,
         ReadRejected, ReadUndecodable, BufferEmpty, CancelEverything, Exit,
         StartRejected, StartDoomed, StartRequest, StartCancel, WakeProgress,
         WakeCancelled, WakeDone, RequestDone, DispatchProgress, DispatchUnwound,
         DispatchEnds, Wake

LEMMA ClosingStays ==
  ASSUME TypeInv, LoopInv, [Next]_vars, Closing
  PROVE  Closing'
<1>1. ~StopLoop
  <2> SUFFICES ASSUME StopLoop PROVE FALSE
    OBVIOUS
  <2>1. ready \in Seq(Callbacks) /\ ready # <<>> /\ Head(ready).do = "stop"
    BY DEF StopLoop, Runs, Callback, TypeInv, TypeOK
  <2>2. 1 \in 1..Len(ready) /\ ready[1].do = "stop"
    BY <2>1
  <2> QED
    BY <2>2 DEF LoopInv, None, Closing
<1> QED
  BY <1>1
     DEF Closing, Next, LoopRuns, ReaderRuns, TaskRuns, DispatcherActs, Exited, vars,
         StdinReadable, ReceiveLines, ReceiveEof, ResumeReader, ReadRequest, ReadCancel,
         ReadRejected, ReadUndecodable, BufferEmpty, CancelEverything, Exit,
         StartRejected, StartDoomed, StartRequest, StartCancel, WakeProgress,
         WakeCancelled, WakeDone, RequestDone, DispatchProgress, DispatchUnwound,
         DispatchEnds, Wake

\* What was asked for stays asked for.
LEMMA AskedForStays ==
  ASSUME TypeInv, [Next]_vars, NEW n \in Tasks, AskedFor(n)
  PROVE  AskedFor(n)'
BY LinesStay DEF AskedFor

\* Entries only come from a request that is decoded, and others are removed.
LEMMA TableStep ==
  ASSUME TypeInv, Table, [Next]_vars
  PROVE  Table'
<1>1. tasks \in [Ids -> Tasks \cup {NoTask}] /\ decoded \in Nat /\ decoded <= Len(input)
  BY DEF TypeInv, TypeOK
<1>2. CASE ReadRequest
  <2>1. Reads("request")
    BY <1>2 DEF ReadRequest
  <2>2. /\ decoded' = NextLine /\ input' = input /\ input[NextLine] \in Line
        /\ input[NextLine].kind = "request"
    BY <2>1, NextLineTyped DEF TypeInv
  <2>3. tasks' = [tasks EXCEPT ![input[NextLine].id] = NextLine]
    BY <1>2 DEF ReadRequest
  <2>4. \A i \in Ids : tasks'[i] = IF i = input[NextLine].id THEN NextLine ELSE tasks[i]
    BY <1>1, <2>3
  <2>5. decoded' = decoded + 1
    BY <2>2 DEF NextLine
  <2> QED
    BY <1>1, <2>2, <2>4, <2>5 DEF Table
<1>3. CASE \E n \in Tasks : RequestDone(n)
  <2>1. \A i \in Ids : tasks'[i] \in {tasks[i], NoTask}
    BY <1>1, <1>3 DEF RequestDone
  <2>2. decoded' = decoded /\ input' = input
    BY <1>3 DEF RequestDone
  <2> QED
    BY <2>1, <2>2 DEF Table
<1>4. CASE UNCHANGED tasks /\ decoded' \in Nat /\ decoded <= decoded'
  <2>1. \A m \in 1..decoded : m \in 1..decoded' /\ input'[m] = input[m]
    BY <1>1, <1>4, LinesStay
  <2> QED
    BY <1>4, <2>1 DEF Table
<1>5. \A kind : Reads(kind) => decoded' \in Nat /\ decoded <= decoded'
  BY <1>1 DEF Reads, NextLine
<1>6. CASE UNCHANGED <<tasks, decoded>>
  BY <1>1, <1>4, <1>6
<1>7. CASE ReadCancel \/ ReadRejected \/ ReadUndecodable
  BY <1>4, <1>5, <1>7 DEF ReadCancel, ReadRejected, ReadUndecodable
<1> QED
  BY <1>2, <1>3, <1>6, <1>7
     DEF Next, LoopRuns, ReaderRuns, TaskRuns, DispatcherActs, Exited, vars,
         StdinReadable, ReceiveLines, ReceiveEof, ResumeReader, StopLoop,
         BufferEmpty, CancelEverything, Exit,
         StartRejected, StartDoomed, StartRequest, StartCancel, WakeProgress,
         WakeCancelled, WakeDone, DispatchProgress, DispatchUnwound,
         DispatchEnds, Wake
\* Only a cancel that is read, and the end of the server, touch a task anew.
LEMMA CancelsStep ==
  ASSUME TypeInv, LoopInv, Table, Cancels, [Next]_vars
  PROVE  Cancels'
<1> SUFFICES ASSUME NEW n \in Tasks, Touched(n)', ~Touched(n)
             PROVE  AskedFor(n)' \/ Closing'
  BY AskedForStays, ClosingStays DEF Cancels
<1>1. /\ TypeOK
      /\ \A m \in Tasks : out[m] \in Seq(ReplyKinds) /\ Len(out[m]) \in Nat
      /\ Outcomes \subseteq {"result", "error", "unencodable"}
  BY RequestServerAssumption DEF TypeInv, TypeOK
\* A step that does not touch n.
<1>2. ASSUME phase'[n] \in {phase[n], "created", "suspended", "woken", "finished"},
             n \in doomed' => n \in doomed,
             wakeup'[n] = wakeup[n] \/ wakeup'[n] \notin {"cancel", "cancelled"},
             \/ out'[n] = out[n]
             \/ \E kind : kind # "cancelled" /\ out'[n] = Append(out[n], kind)
      PROVE  FALSE
  <2>1. ~ToldCancelled(n)'
    <3>1. ~ToldCancelled(n) /\ out[n] \in Seq(ReplyKinds)
      BY <1>1 DEF Touched
    <3>2. CASE out'[n] = out[n]
      BY <3>1, <3>2 DEF ToldCancelled
    <3>3. ASSUME NEW kind, kind # "cancelled", out'[n] = Append(out[n], kind) PROVE ~ToldCancelled(n)'
      <4>1. /\ DOMAIN out'[n] = 1..(Len(out[n]) + 1)
            /\ \A k \in 1..(Len(out[n]) + 1) : out'[n][k] = IF k <= Len(out[n]) THEN out[n][k] ELSE kind
        BY <3>1, <3>3
      <4>2. DOMAIN out[n] = 1..Len(out[n]) /\ Len(out[n]) \in Nat
        BY <3>1
      <4> QED
        BY <3>1, <3>3, <4>1, <4>2 DEF ToldCancelled
    <3> QED
      BY <1>2, <3>2, <3>3
  <2> QED
    BY <1>2, <2>1 DEF Touched
<1>3. ASSUME UNCHANGED <<doomed, wakeup, out>>,
             phase'[n] \in {phase[n], "created", "suspended", "woken", "finished"}
      PROVE  FALSE
  BY <1>2, <1>3
<1>4. phase \in [Tasks -> Phases] /\ wakeup \in [Tasks -> Wakeups] /\ doomed \subseteq Tasks
      /\ out \in [Tasks -> Seq(ReplyKinds)]
  BY <1>1 DEF TypeOK
<1>5. CASE StdinReadable \/ LoopRuns
  BY <1>3, <1>5 DEF StdinReadable, LoopRuns, ReceiveLines, ReceiveEof, ResumeReader, StopLoop
<1>6. CASE ReaderRuns
  <2>1. CreateTask => phase'[n] \in {phase[n], "created"}
    BY <1>4 DEF CreateTask
  <2> QED
    BY <1>3, <1>6, <2>1
       DEF ReaderRuns, ReadRequest, ReadCancel, ReadRejected, ReadUndecodable, BufferEmpty
<1>7. CASE CancelEverything
  BY <1>7 DEF CancelEverything, Closing
<1>8. CASE Exit
  BY <1>8 DEF Exit, Closing
\* A task that answers with anything else, and was not touched.
<1>9. ASSUME NEW m \in Tasks, NEW kind, kind # "cancelled", Respond(m, kind),
             wakeup'[n] = wakeup[n] \/ wakeup'[n] \notin {"cancel", "cancelled"}
      PROVE  FALSE
  <2>1. phase'[n] \in {phase[n], "finished"} /\ doomed' \subseteq doomed
    BY <1>4, <1>9 DEF Respond, Finish
  <2>2. out'[n] = out[n] \/ out'[n] = Append(out[n], kind)
    BY <1>4, <1>9 DEF Respond, Write
  <2> QED
    BY <1>2, <1>9, <2>1, <2>2
<1>10. ASSUME NEW m \in Tasks, StartCancel(m) PROVE AskedFor(n)'
  <2>1. CASE Respond(m, "error") /\ UNCHANGED wakeup
    BY <1>9, <2>1
  <2>2. CASE /\ CancelTasks(Registered(input[m].target), Tail(ready), {m})
             /\ input[m].target # NoId /\ out' = Write(m, "ok")
    <3>1. m \in 1..Len(input) /\ input[m] \in Line /\ input[m].kind = "cancel" /\ input' = input
      BY <1>10, HeadTyped DEF StartCancel
    <3>2. input[m].target \in Ids
      BY <2>2, <3>1 DEF Line
    <3>3. n \in Registered(input[m].target)
      <4> SUFFICES ASSUME n \notin Registered(input[m].target) PROVE FALSE
        OBVIOUS
      <4>1. phase'[n] \in {phase[n], "finished"} /\ wakeup'[n] = wakeup[n] /\ (n \in doomed' => n \in doomed)
        BY <2>2 DEF CancelTasks
      <4>2. out'[n] = out[n] \/ out'[n] = Append(out[n], "ok")
        BY <1>4, <2>2 DEF Write
      <4> QED
        BY <1>2, <4>1, <4>2
    <3>4. n = tasks[input[m].target] /\ n # NoTask
      BY <3>3 DEF Registered
    <3>5. n \in 1..decoded /\ input[n].id = input[m].target
      BY <3>2, <3>4 DEF Table
    <3>6. n \in 1..Len(input)
      BY <1>1, <3>5 DEF TypeOK
    <3> QED
      BY <3>1, <3>5, <3>6 DEF AskedFor
  <2> QED
    BY <1>10, <2>1, <2>2 DEF StartCancel
<1>11. ASSUME NEW m \in Tasks, StartRequest(m) PROVE FALSE
  <2>1. CASE phase' = [phase EXCEPT ![m] = "suspended"] /\ UNCHANGED <<doomed, wakeup, out>>
    BY <1>3, <1>4, <2>1
  <2>2. ASSUME NEW o \in Outcomes, Respond(m, o), wakeup' = [wakeup EXCEPT ![m] = o] PROVE FALSE
    <3>1. o \notin {"cancel", "cancelled"}
      BY <1>1
    <3>2. wakeup'[n] = wakeup[n] \/ wakeup'[n] = o
      BY <1>4, <2>2
    <3> QED
      BY <1>9, <2>2, <3>1, <3>2
  <2> QED
    BY <1>11, <2>1, <2>2 DEF StartRequest
\* A task that is woken to be cancelled was touched before.
<1>12. ASSUME NEW m \in Tasks, WakeCancelled(m) PROVE FALSE
  <2>1. m # n
    BY <1>12 DEF WakeCancelled, Found, Touched
  <2>2. wakeup'[n] = wakeup[n] /\ phase'[n] = phase[n] /\ out'[n] = out[n] /\ doomed' \subseteq doomed
    BY <1>4, <1>12, <2>1 DEF WakeCancelled, Respond, Finish, Write
  <2> QED
    BY <1>2, <2>2
<1>13. ASSUME NEW m \in Tasks, WakeDone(m) PROVE FALSE
  <2>1. CASE Found(m) = "cancelled"
    <3>1. m # n
      BY <2>1 DEF Found, Touched
    <3>2. wakeup'[n] = wakeup[n] /\ phase'[n] = phase[n] /\ out'[n] = out[n] /\ doomed' \subseteq doomed
      BY <1>4, <1>13, <3>1 DEF WakeDone, Respond, Finish, Write
    <3> QED
      BY <1>2, <3>2
  <2>2. CASE Found(m) # "cancelled"
    BY <1>9, <1>13, <2>2 DEF WakeDone
  <2> QED
    BY <2>1, <2>2
<1>14. ASSUME NEW m \in Tasks, TaskRuns(m), ~StartCancel(m) PROVE FALSE
  <2>1. CASE StartRejected(m)
    BY <1>9, <2>1 DEF StartRejected
  <2>2. CASE StartDoomed(m)
    <3>1. phase'[n] \in {phase[n], "finished"} /\ doomed' \subseteq doomed
      BY <1>4, <2>2 DEF StartDoomed, Finish
    <3> QED
      BY <1>2, <2>2, <3>1 DEF StartDoomed
  <2>3. CASE WakeProgress(m)
    <3>1. /\ phase'[n] \in {phase[n], "suspended"}
          /\ wakeup'[n] = wakeup[n] \/ wakeup'[n] = "none"
      BY <1>4, <2>3 DEF WakeProgress
    <3> QED
      BY <1>2, <2>3, <3>1 DEF WakeProgress
  <2>4. CASE RequestDone(m)
    BY <1>3, <2>4 DEF RequestDone
  <2> QED
    BY <1>11, <1>12, <1>13, <1>14, <2>1, <2>2, <2>3, <2>4 DEF TaskRuns
<1>15. ASSUME NEW m \in Tasks, DispatcherActs(m) PROVE FALSE
  <2>1. ASSUME NEW w, Wake(m, w), w \notin {"cancel", "cancelled"} PROVE FALSE
    <3>1. /\ phase'[n] \in {phase[n], "woken"}
          /\ wakeup'[n] = wakeup[n] \/ wakeup'[n] = w
      BY <1>4, <2>1 DEF Wake
    <3> QED
      BY <1>2, <2>1, <3>1 DEF Wake
  <2>2. CASE DispatchUnwound(m)
    <3>1. m # n
      BY <2>2 DEF DispatchUnwound, Touched
    <3>2. wakeup'[n] = wakeup[n] /\ phase'[n] = phase[n] /\ out' = out /\ doomed' = doomed
      BY <1>4, <2>2, <3>1 DEF DispatchUnwound, Wake
    <3> QED
      BY <1>2, <3>2
  <2> QED
    BY <1>1, <1>15, <2>1, <2>2 DEF DispatcherActs, DispatchProgress, DispatchEnds
<1>16. CASE UNCHANGED vars
  BY <1>3, <1>16 DEF vars
<1> QED
  BY <1>5, <1>6, <1>7, <1>8, <1>10, <1>14, <1>15, <1>16 DEF Next, Exited

\* A request is told "cancelled" only if a cancel naming its id was read, or the
\* server is closing down, however ids are reused and entries of the table are
\* lost (server.py:152-170).
THEOREM CancelsHitWhatTheyName == Spec => []CancelledOnlyOnDemand
<1> DEFINE Inv == TypeInv /\ LoopInv /\ Table /\ Cancels
<1>1. Init => LoopInv /\ Table /\ Cancels
  <2> SUFFICES ASSUME Init PROVE LoopInv /\ Table /\ Cancels
    OBVIOUS
  <2>1. LoopInv
    BY DEF Init, LoopInv, AtMost, None
  <2>2. Table
    BY DEF Init, Table
  <2>3. Cancels
    BY DEF Init, Cancels, Touched, ToldCancelled
  <2> QED
    BY <2>1, <2>2, <2>3
<1>2. Inv /\ [Next]_vars => Inv'
  BY TypeStep, LoopStep, TableStep, CancelsStep
<1>3. Inv => CancelledOnlyOnDemand
  <2> SUFFICES ASSUME Inv, NEW n \in Requests, ToldCancelled(n)
               PROVE  \/ \E m \in 1..Len(input) : input[m].kind = "cancel" /\ input[m].target = input[n].id
                      \/ shutdown \in {"cancelling", "exited"}
    BY DEF CancelledOnlyOnDemand, ToldCancelled
  <2>1. n \in Tasks
    BY RequestServerAssumption DEF Requests, Tasks, TypeInv, TypeOK
  <2> QED
    BY <2>1 DEF Cancels, Touched, AskedFor, Closing
<1> QED
  BY <1>1, <1>2, <1>3, TypeInvHolds, PTL DEF Spec
----------------------------------------------------------------------------
(* The steps of the contract *)

\* The queue q starts tasks in the order of their lines, and before it stops
\* the loop; it wakes each task once.
Ordered(q) ==
  /\ \A j, k \in 1..Len(q) :
       q[j].do = "start" /\ q[k].do = "start" /\ j < k => q[j].task < q[k].task
  /\ \A j, k \in 1..Len(q) :
       q[j].do = "wake" /\ q[k].do = "wake" /\ q[j].task = q[k].task => j = k
  /\ \A j, k \in 1..Len(q) : q[j].do = "stop" /\ q[k].do = "start" => k < j

\* The queue q has what tasks in these phases wait for.
Matches(q, ph) ==
  /\ \A k \in 1..Len(q) : q[k].do = "start" => ph[q[k].task] = "created"
  /\ \A k \in 1..Len(q) : q[k].do = "wake" => ph[q[k].task] = "woken"
  /\ \A n \in Tasks : ph[n] = "created" =>
       \E k \in 1..Len(q) : q[k].do = "start" /\ q[k].task = n

\* The queue q is p, after the callbacks that ran (none, or its head) and before
\* those that were added.
Moves(q, p, ran, added) ==
  /\ ran \in {0, 1} /\ ran <= Len(p)
  /\ Len(q) = Len(p) - ran + Len(added)
  /\ \A k \in 1..(Len(p) - ran) : q[k] = p[k + ran]
  /\ \A i \in 1..Len(added) : q[Len(p) - ran + i] = added[i]

\* The head of p ran, and was a step of task n.
Stepped(p, ran, n) == ran = 1 /\ p[1].do \in {"start", "wake"} /\ p[1].task = n

LEMMA MovesOfQueue ==
  ASSUME NEW p \in Seq(Callbacks)
  PROVE  /\ Moves(p, p, 0, <<>>)
         /\ p # <<>> => Moves(Tail(p), p, 1, <<>>)
         /\ \A c \in Callbacks : Moves(Append(p, c), p, 0, <<c>>)
         /\ \A c \in Callbacks : p # <<>> => Moves(Append(Tail(p), c), p, 1, <<c>>)
         /\ \A s \in Seq(Callbacks) : Moves(p \o s, p, 0, s)
         /\ \A s \in Seq(Callbacks) : p # <<>> => Moves(Tail(p) \o s, p, 1, s)
<1>1. Len(p) \in Nat /\ Len(<<>>) = 0
  OBVIOUS
<1>2. Moves(p, p, 0, <<>>)
  BY <1>1 DEF Moves
<1>3. p # <<>> => /\ Tail(p) \in Seq(Callbacks) /\ Len(Tail(p)) = Len(p) - 1 /\ 1 <= Len(p)
                  /\ \A k \in 1..(Len(p) - 1) : Tail(p)[k] = p[k + 1]
  OBVIOUS
<1>4. p # <<>> => Moves(Tail(p), p, 1, <<>>)
  BY <1>1, <1>3 DEF Moves
<1>5. ASSUME NEW q \in Seq(Callbacks), NEW s \in Seq(Callbacks)
      PROVE  /\ Len(q \o s) = Len(q) + Len(s) /\ Len(q) \in Nat /\ Len(s) \in Nat
             /\ \A k \in 1..Len(q) : (q \o s)[k] = q[k]
             /\ \A i \in 1..Len(s) : (q \o s)[Len(q) + i] = s[i]
  <2>1. /\ Len(q \o s) = Len(q) + Len(s) /\ Len(q) \in Nat /\ Len(s) \in Nat
        /\ \A k \in 1..(Len(q) + Len(s)) : (q \o s)[k] = IF k <= Len(q) THEN q[k] ELSE s[k - Len(q)]
    OBVIOUS
  <2>2. \A i \in 1..Len(s) : Len(q) + i \in 1..(Len(q) + Len(s)) /\ ~(Len(q) + i <= Len(q))
                             /\ (Len(q) + i) - Len(q) = i
    BY <2>1
  <2> QED
    BY <2>1, <2>2
<1>6. \A s \in Seq(Callbacks) : Moves(p \o s, p, 0, s)
  BY <1>1, <1>5 DEF Moves
<1>7. \A s \in Seq(Callbacks) : p # <<>> => Moves(Tail(p) \o s, p, 1, s)
  BY <1>1, <1>3, <1>5 DEF Moves
<1>8. ASSUME NEW q \in Seq(Callbacks), NEW c \in Callbacks
      PROVE  /\ Len(Append(q, c)) = Len(q) + 1 /\ Len(<<c>>) = 1 /\ <<c>>[1] = c
             /\ \A k \in 1..Len(q) : Append(q, c)[k] = q[k]
             /\ Append(q, c)[Len(q) + 1] = c
  OBVIOUS
<1>9. \A c \in Callbacks : Moves(Append(p, c), p, 0, <<c>>)
  BY <1>1, <1>8 DEF Moves
<1>10. \A c \in Callbacks : p # <<>> => Moves(Append(Tail(p), c), p, 1, <<c>>)
  BY <1>1, <1>3, <1>8 DEF Moves
<1> QED
  BY <1>2, <1>4, <1>6, <1>7, <1>9, <1>10

\* A queue stays ordered if the task that is added comes last and before any stop,
\* and the tasks that are woken were not queued to wake.
LEMMA OrderKept ==
  ASSUME NEW p \in Seq(Callbacks), NEW q, NEW ran, NEW added \in Seq(Callbacks),
         Ordered(p), Moves(q, p, ran, added),
         \A i \in 1..Len(added) : added[i].do = "start" =>
           /\ Len(added) = 1 /\ None(p, "stop")
           /\ \A k \in 1..Len(p) : p[k].do = "start" => p[k].task < added[i].task,
         \A i \in 1..Len(added) : added[i].do = "wake" =>
           \A k \in 1..Len(p) : p[k].do = "wake" => p[k].task # added[i].task,
         \A i, j \in 1..Len(added) :
           added[i].do = "wake" /\ added[j].do = "wake" /\ added[i].task = added[j].task => i = j
  PROVE  Ordered(q)
<1> DEFINE kept == Len(p) - ran
<1>1. /\ Len(p) \in Nat /\ Len(added) \in Nat /\ kept \in Nat /\ Len(q) = kept + Len(added)
      /\ \A k \in 1..kept : k + ran \in 1..Len(p) /\ q[k] = p[k + ran]
      /\ \A i \in 1..Len(added) : q[kept + i] = added[i]
  BY DEF Moves
<1>2. ASSUME NEW k \in 1..Len(q), k \notin 1..kept
      PROVE  k - kept \in 1..Len(added) /\ q[k] = added[k - kept]
  <2>1. k - kept \in 1..Len(added) /\ kept + (k - kept) = k
    BY <1>1, <1>2
  <2> QED
    BY <1>1, <2>1
<1>3. ran \in {0, 1}
  BY DEF Moves
<1> HIDE DEF kept
<1>4. ASSUME NEW j \in 1..Len(q), NEW k \in 1..Len(q), q[j].do = "start", q[k].do = "start", j < k
      PROVE  q[j].task < q[k].task
  <2>1. CASE j \in 1..kept /\ k \in 1..kept
    <3>1. j + ran < k + ran
      BY <1>3, <1>4
    <3>2. /\ j + ran \in 1..Len(p) /\ q[j] = p[j + ran]
          /\ k + ran \in 1..Len(p) /\ q[k] = p[k + ran]
      BY <1>1, <2>1
    <3>3. p[j + ran].task < p[k + ran].task
      BY <1>4, <3>1, <3>2 DEF Ordered
    <3> QED
      BY <3>2, <3>3
  <2>2. CASE j \in 1..kept /\ k \notin 1..kept
    <3>1. j + ran \in 1..Len(p) /\ q[j] = p[j + ran]
      BY <1>1, <2>2
    <3>2. k - kept \in 1..Len(added) /\ q[k] = added[k - kept]
      BY <1>2, <2>2
    <3> QED
      BY <1>4, <3>1, <3>2
  <2>3. CASE j \notin 1..kept
    <3>1. k \notin 1..kept
      BY <1>1, <1>4, <2>3
    <3>2. /\ j - kept \in 1..Len(added) /\ k - kept \in 1..Len(added)
          /\ q[k] = added[k - kept]
      BY <1>2, <2>3, <3>1
    <3>3. Len(added) = 1
      BY <1>4, <3>2
    <3>4. j - kept = 1 /\ k - kept = 1
      BY <3>2, <3>3
    <3> QED
      BY <1>1, <1>4, <3>4
  <2> QED
    BY <2>1, <2>2, <2>3
<1>5. ASSUME NEW j \in 1..Len(q), NEW k \in 1..Len(q),
             q[j].do = "wake", q[k].do = "wake", q[j].task = q[k].task
      PROVE  j = k
  <2>1. CASE j \in 1..kept /\ k \in 1..kept
    <3>1. j + ran = k + ran
      BY <1>1, <1>5, <2>1 DEF Ordered
    <3> QED
      BY <1>3, <3>1
  <2>2. CASE j \in 1..kept /\ k \notin 1..kept
    <3>1. j + ran \in 1..Len(p) /\ q[j] = p[j + ran]
      BY <1>1, <2>2
    <3>2. k - kept \in 1..Len(added) /\ q[k] = added[k - kept]
      BY <1>2, <2>2
    <3> QED
      BY <1>5, <3>1, <3>2
  <2>3. CASE j \notin 1..kept /\ k \in 1..kept
    <3>1. k + ran \in 1..Len(p) /\ q[k] = p[k + ran]
      BY <1>1, <2>3
    <3>2. j - kept \in 1..Len(added) /\ q[j] = added[j - kept]
      BY <1>2, <2>3
    <3> QED
      BY <1>5, <3>1, <3>2
  <2>4. CASE j \notin 1..kept /\ k \notin 1..kept
    <3>1. j - kept = k - kept
      BY <1>2, <1>5, <2>4
    <3> QED
      BY <1>1, <3>1
  <2> QED
    BY <2>1, <2>2, <2>3, <2>4
<1>6. ASSUME NEW j \in 1..Len(q), NEW k \in 1..Len(q), q[j].do = "stop", q[k].do = "start"
      PROVE  k < j
  <2>1. CASE j \in 1..kept /\ k \in 1..kept
    <3>1. k + ran < j + ran
      BY <1>1, <1>6, <2>1 DEF Ordered
    <3> QED
      BY <1>3, <3>1
  <2>2. CASE j \in 1..kept /\ k \notin 1..kept
    <3>1. j + ran \in 1..Len(p) /\ q[j] = p[j + ran]
      BY <1>1, <2>2
    <3>2. k - kept \in 1..Len(added) /\ q[k] = added[k - kept]
      BY <1>2, <2>2
    <3> QED
      BY <1>6, <3>1, <3>2 DEF None
  <2>3. CASE j \notin 1..kept /\ k \in 1..kept
    BY <1>1, <2>3
  <2>4. CASE j \notin 1..kept /\ k \notin 1..kept
    <3>1. /\ j - kept \in 1..Len(added) /\ k - kept \in 1..Len(added) /\ Len(added) = 1
          /\ added[j - kept].do = "stop" /\ added[k - kept].do = "start"
      BY <1>2, <1>6, <2>4
    <3>2. j - kept = 1 /\ k - kept = 1
      BY <3>1
    <3> QED
      BY <3>1, <3>2
  <2> QED
    BY <2>1, <2>2, <2>3, <2>4
<1> QED
  BY <1>4, <1>5, <1>6 DEF Ordered

\* The queue still matches the phases if only the task that ran leaves one of
\* those that wait for it, and those that are added are in them.
LEMMA MatchKept ==
  ASSUME NEW p \in Seq(Callbacks), NEW q, NEW ran, NEW added \in Seq(Callbacks),
         NEW ph, NEW new, Ordered(p), Matches(p, ph), Moves(q, p, ran, added),
         \A k \in 1..Len(p) : p[k].do \in {"start", "wake"} => p[k].task \in Tasks,
         \A n \in Tasks : ph[n] \in {"created", "woken"} => new[n] = ph[n] \/ Stepped(p, ran, n),
         \A i \in 1..Len(added) : added[i].do = "start" => new[added[i].task] = "created",
         \A i \in 1..Len(added) : added[i].do = "wake" => new[added[i].task] = "woken",
         \A n \in Tasks : new[n] = "created" =>
           \/ ph[n] = "created" /\ ~Stepped(p, ran, n)
           \/ \E i \in 1..Len(added) : added[i].do = "start" /\ added[i].task = n
  PROVE  Matches(q, new)
<1> DEFINE kept == Len(p) - ran
<1>1. /\ Len(p) \in Nat /\ Len(added) \in Nat /\ kept \in Nat /\ Len(q) = kept + Len(added)
      /\ \A k \in 1..kept : k + ran \in 1..Len(p) /\ q[k] = p[k + ran]
      /\ \A i \in 1..Len(added) : q[kept + i] = added[i]
      /\ ran \in {0, 1}
  BY DEF Moves
<1>2. ASSUME NEW k \in 1..Len(q), k \notin 1..kept
      PROVE  k - kept \in 1..Len(added) /\ q[k] = added[k - kept]
  <2>1. k - kept \in 1..Len(added) /\ kept + (k - kept) = k
    BY <1>1, <1>2
  <2> QED
    BY <1>1, <2>1
\* A task whose callback stays queued did not run.
<1>3. ASSUME NEW k \in 1..kept, q[k].do \in {"start", "wake"}
      PROVE  ~Stepped(p, ran, q[k].task)
  <2> SUFFICES ASSUME Stepped(p, ran, q[k].task) PROVE FALSE
    OBVIOUS
  <2>1. ran = 1 /\ 1 \in 1..Len(p) /\ k + 1 \in 1..Len(p) /\ q[k] = p[k + 1] /\ 1 < k + 1
        /\ p[1].do \in {"start", "wake"} /\ p[1].task = p[k + 1].task
    BY <1>1 DEF Stepped
  <2>2. p[1].do = p[k + 1].do
    BY <1>3, <2>1 DEF Matches
  <2>3. p[1].task \in Int
    BY <2>1 DEF Tasks
  <2> QED
    BY <1>3, <2>1, <2>2, <2>3 DEF Ordered
<1>4. ASSUME NEW k \in 1..Len(q), q[k].do \in {"start", "wake"}
      PROVE  new[q[k].task] = IF q[k].do = "start" THEN "created" ELSE "woken"
  <2>1. CASE k \in 1..kept
    <3>1. /\ q[k] = p[k + ran] /\ k + ran \in 1..Len(p) /\ q[k].task \in Tasks
          /\ ph[q[k].task] = IF q[k].do = "start" THEN "created" ELSE "woken"
      BY <1>1, <1>4, <2>1 DEF Matches
    <3> QED
      BY <1>3, <1>4, <2>1, <3>1
  <2>2. CASE k \notin 1..kept
    <3>1. k - kept \in 1..Len(added) /\ q[k] = added[k - kept]
      BY <1>2, <2>2
    <3> QED
      BY <1>4, <3>1
  <2> QED
    BY <2>1, <2>2
<1>5. ASSUME NEW n \in Tasks, new[n] = "created"
      PROVE  \E k \in 1..Len(q) : q[k].do = "start" /\ q[k].task = n
  <2>1. CASE ph[n] = "created" /\ ~Stepped(p, ran, n)
    <3>1. PICK k \in 1..Len(p) : p[k].do = "start" /\ p[k].task = n
      BY <2>1 DEF Matches
    <3>2. k - ran \in 1..kept /\ (k - ran) + ran = k
      BY <1>1, <2>1, <3>1 DEF Stepped
    <3>3. k - ran \in 1..Len(q) /\ q[k - ran] = p[(k - ran) + ran]
      BY <1>1, <3>2
    <3>4. q[k - ran] = p[k]
      BY <3>2, <3>3
    <3> QED
      BY <3>1, <3>3, <3>4
  <2>2. CASE \E i \in 1..Len(added) : added[i].do = "start" /\ added[i].task = n
    <3>1. PICK i \in 1..Len(added) : added[i].do = "start" /\ added[i].task = n
      BY <2>2
    <3>2. kept + i \in 1..Len(q)
      BY <1>1
    <3>3. q[kept + i] = added[i]
      BY <1>1
    <3> QED
      BY <3>1, <3>2, <3>3
  <2> QED
    BY <1>5, <2>1, <2>2
<1> QED
  BY <1>4, <1>5 DEF Matches
----------------------------------------------------------------------------
(* What the server keeps, beyond the types *)

\* The queue starts what was created, in order.
QueueInv == Ordered(ready) /\ Matches(ready, phase)

\* A line that is not decoded has no task yet.
Unread(n) == n > decoded => phase[n] = "absent" /\ n \notin doomed

\* Nothing is answered before the task ends.
Silent(n) == phase[n] # "finished" => out[n] = <<>>

\* Only requests are ever suspended.
UnderWay(n) == phase[n] \in {"suspended", "woken", "unwinding"} => IsRequest(n)

\* Every task has begun when the loop is stopped.
Begun(n) == shutdown # "no" => phase[n] # "created"

\* A task cancelled before its first step is a request that was withdrawn.
Withdrawn(n) == n \in doomed /\ phase[n] = "created" => IsRequest(n) /\ CancelledInAdvance(n)

LineInv(n) == Unread(n) /\ Silent(n) /\ UnderWay(n) /\ Begun(n) /\ Withdrawn(n)

LinesInv == \A n \in Tasks : LineInv(n)

\* The head of the queue, and the task it is a step of.
LEMMA HeadMatches ==
  ASSUME TypeInv, QueueInv, NEW do, NEW n, Runs(do, n)
  PROVE  /\ ready # <<>> /\ ready \in Seq(Callbacks) /\ 1 \in 1..Len(ready)
         /\ ready[1].do = do /\ ready[1].task = n
         /\ do = "start" => phase[n] = "created"
         /\ do = "wake" => phase[n] = "woken"
<1>1. ready # <<>> /\ ready \in Seq(Callbacks) /\ Head(ready) = Callback(do, n)
  BY DEF Runs, TypeInv, TypeOK
<1>2. 1 \in 1..Len(ready) /\ ready[1].do = do /\ ready[1].task = n
  BY <1>1 DEF Callback
<1> QED
  BY <1>1, <1>2 DEF QueueInv, Matches

LEMMA QueueStep ==
  ASSUME TypeInv, LoopInv, QueueInv, LinesInv, [Next]_vars
  PROVE  QueueInv'
<1>1. /\ ready \in Seq(Callbacks) /\ phase \in [Tasks -> Phases] /\ phase' \in [Tasks -> Phases]
      /\ \A k \in 1..Len(ready) : ready[k].do \in {"start", "wake"} => ready[k].task \in Tasks
  <2>1. ready \in Seq(Callbacks) /\ phase \in [Tasks -> Phases] /\ phase' \in [Tasks -> Phases]
    BY TypeStep DEF TypeInv, TypeOK
  <2> QED
    BY <2>1 DEF Callbacks
<1>2. /\ \A do \in {"data", "read", "stop"} :
           Callback(do, NoTask) \in Callbacks /\ Callback(do, NoTask).do = do
      /\ \A n \in Tasks, do \in {"start", "wake", "done"} :
           Callback(do, n) \in Callbacks /\ Callback(do, n).do = do /\ Callback(do, n).task = n
  BY CallbackTyped
\* A step that adds no step of a task.
<1>3. ASSUME NEW ran, NEW added \in Seq(Callbacks), Moves(ready', ready, ran, added),
             \A i \in 1..Len(added) : added[i].do \notin {"start", "wake"},
             \A n \in Tasks : phase[n] \in {"created", "woken"} => phase'[n] = phase[n] \/ Stepped(ready, ran, n),
             \A n \in Tasks : phase'[n] = "created" => phase[n] = "created" /\ ~Stepped(ready, ran, n)
      PROVE  QueueInv'
  <2>1. Ordered(ready')
    BY <1>1, <1>3, OrderKept DEF QueueInv
  <2>2. Matches(ready', phase')
    BY <1>1, <1>3, MatchKept DEF QueueInv
  <2> QED
    BY <2>1, <2>2 DEF QueueInv
<1>4. ASSUME NEW c \in Callbacks, c.do \notin {"start", "wake"}
      PROVE  \E added \in Seq(Callbacks) :
               added = <<c>> /\ \A i \in 1..Len(added) : added[i].do \notin {"start", "wake"}
  <2>1. /\ <<c>> \in Seq(Callbacks)
        /\ \A i \in 1..Len(<<c>>) : <<c>>[i].do \notin {"start", "wake"}
    BY <1>4
  <2> QED
    BY <2>1
<1>0. \E added \in Seq(Callbacks) :
        added = <<>> /\ \A i \in 1..Len(added) : added[i].do \notin {"start", "wake"}
  <2>1. <<>> \in Seq(Callbacks) /\ \A i \in 1..Len(<<>>) : <<>>[i].do \notin {"start", "wake"}
    OBVIOUS
  <2> QED
    BY <2>1
<1>5. ASSUME NEW c \in Callbacks, c.do \notin {"start", "wake"}, ready' = Append(ready, c), UNCHANGED phase
      PROVE  QueueInv'
  <2>1. PICK added \in Seq(Callbacks) :
          added = <<c>> /\ \A i \in 1..Len(added) : added[i].do \notin {"start", "wake"}
    BY <1>4, <1>5
  <2>2. Moves(ready', ready, 0, added)
    BY <1>1, <1>5, <2>1, MovesOfQueue
  <2>3. \A n \in Tasks : ~Stepped(ready, 0, n) /\ phase'[n] = phase[n]
    BY <1>5 DEF Stepped
  <2> QED
    BY <1>3, <2>1, <2>2, <2>3
<1>6. ASSUME NEW do, NEW n, Runs(do, n), do \notin {"start", "wake"}, UNCHANGED phase,
             \/ ready' = Tail(ready)
             \/ \E c \in Callbacks : c.do \notin {"start", "wake"} /\ ready' = Append(Tail(ready), c)
      PROVE  QueueInv'
  <2>1. ready # <<>> /\ ready[1].do = do
    BY <1>6, HeadMatches
  <2>4. \A m \in Tasks : ~Stepped(ready, 1, m) /\ phase'[m] = phase[m]
    BY <1>6, <2>1 DEF Stepped
  <2>2. CASE ready' = Tail(ready)
    <3>1. PICK added \in Seq(Callbacks) :
            added = <<>> /\ \A i \in 1..Len(added) : added[i].do \notin {"start", "wake"}
      BY <1>0
    <3>2. Moves(ready', ready, 1, added)
      BY <1>1, <2>1, <2>2, <3>1, MovesOfQueue
    <3> QED
      BY <1>3, <2>4, <3>1, <3>2
  <2>3. ASSUME NEW c \in Callbacks, c.do \notin {"start", "wake"}, ready' = Append(Tail(ready), c)
        PROVE  QueueInv'
    <3>1. PICK added \in Seq(Callbacks) :
            added = <<c>> /\ \A i \in 1..Len(added) : added[i].do \notin {"start", "wake"}
      BY <1>4, <2>3
    <3>2. Moves(ready', ready, 1, added)
      BY <1>1, <2>1, <2>3, <3>1, MovesOfQueue
    <3> QED
      BY <1>3, <2>4, <3>1, <3>2
  <2> QED
    BY <1>6, <2>2, <2>3
\* A step of task n.
<1>7. ASSUME NEW n \in Tasks, NEW do \in {"start", "wake"}, Runs(do, n),
             NEW x, x \notin {"created", "woken"}, phase' = [phase EXCEPT ![n] = x],
             ready' \in {Tail(ready), Append(Tail(ready), Callback("done", n))}
      PROVE  QueueInv'
  <2>1. ready # <<>> /\ Stepped(ready, 1, n)
    BY <1>7, HeadMatches DEF Stepped
  <2>2. \A m \in Tasks : phase'[m] = IF m = n THEN x ELSE phase[m]
    BY <1>1, <1>7
  <2>3. \A m \in Tasks : Stepped(ready, 1, m) => m = n
    BY <2>1 DEF Stepped
  <2>4. CASE ready' = Tail(ready)
    <3>1. PICK added \in Seq(Callbacks) :
            added = <<>> /\ \A i \in 1..Len(added) : added[i].do \notin {"start", "wake"}
      BY <1>0
    <3>2. Moves(ready', ready, 1, added)
      BY <1>1, <2>1, <2>4, <3>1, MovesOfQueue
    <3> QED
      BY <1>3, <1>7, <2>1, <2>2, <2>3, <3>1, <3>2
  <2>5. CASE ready' = Append(Tail(ready), Callback("done", n))
    <3>1. Callback("done", n) \in Callbacks /\ Callback("done", n).do \notin {"start", "wake"}
      BY <1>2
    <3>2. PICK added \in Seq(Callbacks) :
            /\ added = <<Callback("done", n)>>
            /\ \A i \in 1..Len(added) : added[i].do \notin {"start", "wake"}
      BY <1>4, <3>1
    <3>3. Moves(ready', ready, 1, added)
      BY <1>1, <2>1, <2>5, <3>1, <3>2, MovesOfQueue
    <3> QED
      BY <1>3, <1>7, <2>1, <2>2, <2>3, <3>2, <3>3
  <2> QED
    BY <1>7, <2>4, <2>5
<1>8. ASSUME NEW n \in Tasks, NEW do \in {"start", "wake"}, Runs(do, n), Finish(n)
      PROVE  QueueInv'
  BY <1>7, <1>8 DEF Finish
\* The next line's task, after those of the lines before it.
<1>9. ASSUME NEW kind, Reads(kind), CreateTask
      PROVE  QueueInv'
  <2>1. NextLine \in Tasks /\ NextLine = decoded + 1 /\ decoded \in Nat
    BY <1>9, NextLineTyped DEF TypeInv, TypeOK, NextLine
  <2> DEFINE added == <<Callback("start", NextLine)>>
  <2>2. added \in Seq(Callbacks) /\ Len(added) = 1 /\ added[1].do = "start" /\ added[1].task = NextLine
    BY <1>2, <2>1
  <2>3. Moves(ready', ready, 0, added)
    BY <1>1, <1>2, <1>9, <2>1, MovesOfQueue DEF CreateTask
  <2>4. phase[NextLine] = "absent" /\ \A m \in Tasks : phase'[m] = IF m = NextLine THEN "created" ELSE phase[m]
    BY <1>1, <1>9, <2>1 DEF LinesInv, LineInv, Unread, CreateTask
  <2>5. None(ready, "stop")
    BY <1>9 DEF Reads, LoopInv
  <2>6. \A k \in 1..Len(ready) : ready[k].do = "start" => ready[k].task < NextLine
    BY <1>1, <2>1 DEF TypeInv, Queue
  <2> HIDE DEF added
  <2>7. Ordered(ready')
    BY <1>1, <2>2, <2>3, <2>5, <2>6, OrderKept DEF QueueInv
  <2>8. \A m \in Tasks : phase'[m] = "created" =>
          \/ phase[m] = "created" /\ ~Stepped(ready, 0, m)
          \/ \E i \in 1..Len(added) : added[i].do = "start" /\ added[i].task = m
    BY <2>2, <2>4 DEF Stepped
  <2>10. /\ \A i \in 1..Len(added) : added[i].do = "start" /\ phase'[added[i].task] = "created"
         /\ \A m \in Tasks : phase[m] \in {"created", "woken"} => phase'[m] = phase[m]
    BY <2>1, <2>2, <2>4
  <2>9. Matches(ready', phase')
    BY <1>1, <2>2, <2>3, <2>8, <2>10, MatchKept DEF QueueInv
  <2> QED
    BY <2>7, <2>9 DEF QueueInv
\* Tasks that were not queued to wake.
<1>10. ASSUME NEW ran, NEW added \in Seq(Callbacks), Moves(ready', ready, ran, added),
              \A i \in 1..Len(added) : added[i].do = "wake" /\ added[i].task \in Tasks
                /\ phase[added[i].task] \notin {"created", "woken"} /\ phase'[added[i].task] = "woken",
              \A i, j \in 1..Len(added) : added[i].task = added[j].task => i = j,
              \A n \in Tasks : phase[n] \in {"created", "woken"} => phase'[n] = phase[n] \/ Stepped(ready, ran, n),
              \A n \in Tasks : phase'[n] = "created" => phase[n] = "created" /\ ~Stepped(ready, ran, n)
       PROVE  QueueInv'
  <2>1. \A i \in 1..Len(added) : \A k \in 1..Len(ready) :
          ready[k].do = "wake" => ready[k].task # added[i].task
    BY <1>10 DEF QueueInv, Matches
  <2>2. Ordered(ready')
    BY <1>1, <1>10, <2>1, OrderKept DEF QueueInv
  <2>3. Matches(ready', phase')
    BY <1>1, <1>10, MatchKept DEF QueueInv
  <2> QED
    BY <2>2, <2>3 DEF QueueInv
<1>11. ASSUME NEW n \in Tasks, NEW w, phase[n] \in {"suspended", "unwinding"}, Wake(n, w)
       PROVE  QueueInv'
  <2> DEFINE added == <<Callback("wake", n)>>
  <2>1. added \in Seq(Callbacks) /\ Len(added) = 1 /\ added[1].do = "wake" /\ added[1].task = n
    BY <1>2
  <2>2. Moves(ready', ready, 0, added)
    BY <1>1, <1>2, <1>11, MovesOfQueue DEF Wake
  <2>3. \A m \in Tasks : phase'[m] = IF m = n THEN "woken" ELSE phase[m]
    BY <1>1, <1>11 DEF Wake
  <2> HIDE DEF added
  <2> QED
    BY <1>10, <1>11, <2>1, <2>2, <2>3 DEF Stepped
<1>12. ASSUME NEW S \in SUBSET Tasks, NEW ran \in {0, 1}, NEW ended,
              NEW queue, CancelTasks(S, queue, ended),
              \/ ran = 0 /\ queue = ready
              \/ ran = 1 /\ queue = Tail(ready) /\ ready # <<>>,
              \A n \in Tasks : n \in ended <=> Stepped(ready, ran, n),
              ran = 1 => \A n \in Tasks : Stepped(ready, ran, n) => phase[n] = "created"
       PROVE  QueueInv'
  <2> DEFINE asleep == {t \in S : phase[t] = "suspended"}
  <2>1. \A m \in Tasks : phase'[m] = IF m \in asleep THEN "woken"
                                     ELSE IF m \in ended THEN "finished" ELSE phase[m]
    BY <1>12 DEF CancelTasks
  <2>2. PICK order \in SetToSeqs(asleep) :
          ready' = queue \o [k \in DOMAIN order |-> Callback("wake", order[k])]
    BY <1>12 DEF CancelTasks
  <2>3. Cardinality(asleep) \in Nat
    <3>1. IsFiniteSet(Tasks)
      BY RequestServerAssumption, FS_Interval DEF Tasks
    <3>2. asleep \subseteq Tasks
      OBVIOUS
    <3> QED
      BY <3>1, <3>2, FS_Subset, FS_CardinalityType
  <2>4. /\ order \in [1..Cardinality(asleep) -> asleep]
        /\ \A i, j \in 1..Cardinality(asleep) : i # j => order[i] # order[j]
    BY <2>2 DEF SetToSeqs
  <2> DEFINE added == [k \in DOMAIN order |-> Callback("wake", order[k])]
  <2>5. /\ added \in Seq(Callbacks) /\ Len(added) = Cardinality(asleep)
        /\ \A i \in 1..Len(added) : added[i].do = "wake" /\ added[i].task = order[i] /\ order[i] \in asleep
    <3>1. \A k \in 1..Cardinality(asleep) :
            /\ order[k] \in Tasks
            /\ Callback("wake", order[k]) \in Callbacks
            /\ Callback("wake", order[k]).do = "wake" /\ Callback("wake", order[k]).task = order[k]
      BY <1>2, <2>4
    <3>2. added = [k \in 1..Cardinality(asleep) |-> Callback("wake", order[k])]
      BY <2>4
    <3>3. added \in Seq(Callbacks) /\ Len(added) = Cardinality(asleep)
      BY <2>3, <3>1, <3>2
    <3> QED
      BY <2>4, <3>1, <3>2, <3>3
  <2>6. ready' = queue \o added
    BY <2>2
  <2> HIDE DEF added
  <2>7. Moves(ready', ready, ran, added)
    <3>1. Moves(ready \o added, ready, 0, added) /\ (ready # <<>> => Moves(Tail(ready) \o added, ready, 1, added))
      BY <1>1, <2>5, MovesOfQueue
    <3>2. CASE ran = 0 /\ queue = ready
      BY <2>6, <3>1, <3>2
    <3>3. CASE ran = 1 /\ queue = Tail(ready) /\ ready # <<>>
      BY <2>6, <3>1, <3>3
    <3> QED
      BY <1>12, <3>2, <3>3
  <2>8. \A i \in 1..Len(added) : added[i].do = "wake" /\ added[i].task \in Tasks
          /\ phase[added[i].task] \notin {"created", "woken"} /\ phase'[added[i].task] = "woken"
    BY <2>1, <2>5
  <2>9. \A i, j \in 1..Len(added) : added[i].task = added[j].task => i = j
    BY <2>4, <2>5
  <2>10. /\ \A n \in Tasks : phase[n] \in {"created", "woken"} => phase'[n] = phase[n] \/ Stepped(ready, ran, n)
         /\ \A n \in Tasks : phase'[n] = "created" => phase[n] = "created" /\ ~Stepped(ready, ran, n)
    BY <1>12, <2>1
  <2> QED
    BY <1>10, <2>5, <2>7, <2>8, <2>9, <2>10
<1>13. CASE StdinReadable
  BY <1>2, <1>5, <1>13 DEF StdinReadable
<1>14. ASSUME Runs("data", NoTask), WakeReader, UNCHANGED phase PROVE QueueInv'
  BY <1>2, <1>6, <1>14 DEF WakeReader
<1>15. CASE LoopRuns
  <2>1. CASE ReceiveLines
    BY <1>14, <2>1 DEF ReceiveLines
  <2>2. CASE ReceiveEof
    BY <1>14, <2>2 DEF ReceiveEof
  <2>3. CASE ResumeReader
    BY <1>6, <2>3 DEF ResumeReader
  <2>4. CASE StopLoop
    BY <1>6, <2>4 DEF StopLoop
  <2> QED
    BY <1>15, <2>1, <2>2, <2>3, <2>4 DEF LoopRuns
<1>16. CASE ReadRequest \/ ReadCancel \/ ReadRejected
  BY <1>9, <1>16 DEF ReadRequest, ReadCancel, ReadRejected
<1>17. CASE UNCHANGED <<ready, phase>>
  BY <1>17 DEF QueueInv
<1>18. CASE ReadUndecodable \/ BufferEmpty
  <2>1. StopReading /\ UNCHANGED phase => QueueInv'
    BY <1>2, <1>5 DEF StopReading
  <2> QED
    BY <1>17, <1>18, <2>1 DEF ReadUndecodable, BufferEmpty
<1>19. CASE CancelEverything
  <2>1. CancelTasks({n \in Tasks : ~Finished(n)}, ready, {})
    BY <1>19 DEF CancelEverything
  <2>2. {n \in Tasks : ~Finished(n)} \in SUBSET Tasks /\ \A n \in Tasks : n \in {} <=> Stepped(ready, 0, n)
    BY DEF Stepped
  <2>3. ASSUME NEW S \in SUBSET Tasks, CancelTasks(S, ready, {}) PROVE QueueInv'
    BY <1>12, <2>2, <2>3, 0 \in {0, 1}, 0 # 1
  <2> QED
    BY <2>1, <2>2, <2>3
<1>20. ASSUME NEW n \in Tasks, StartCancel(n) PROVE QueueInv'
  <2>1. CASE Respond(n, "error")
    BY <1>8, <1>20, <2>1 DEF StartCancel, Respond
  <2>2. CASE /\ CancelTasks(Registered(input[n].target), Tail(ready), {n})
             /\ input[n].target # NoId
    <3>1. input[n] \in Line /\ input[n].kind = "cancel"
      BY <1>20, HeadTyped DEF StartCancel
    <3>2. input[n].target \in Ids
      BY <2>2, <3>1 DEF Line
    <3>3. Registered(input[n].target) \in SUBSET Tasks
      BY <3>2 DEF Registered, TypeInv, TypeOK
    <3>4. ready # <<>> /\ phase[n] = "created" /\ \A m \in Tasks : m = n <=> Stepped(ready, 1, m)
      BY <1>20, HeadMatches DEF StartCancel, Stepped
    <3> QED
      BY <1>12, <2>2, <3>3, <3>4
  <2> QED
    BY <1>20, <2>1, <2>2 DEF StartCancel
<1>21. ASSUME NEW n \in Tasks, TaskRuns(n) PROVE QueueInv'
  <2>1. CASE StartRejected(n)
    BY <1>8, <2>1 DEF StartRejected, Respond
  <2>2. CASE StartDoomed(n)
    BY <1>8, <2>2 DEF StartDoomed
  <2>3. CASE StartRequest(n)
    <3>1. Runs("start", n)
      BY <2>3 DEF StartRequest
    <3>2. phase' = [phase EXCEPT ![n] = "suspended"] /\ ready' = Tail(ready) => QueueInv'
      BY <1>7, <3>1
    <3>3. Finish(n) => QueueInv'
      BY <1>8, <3>1
    <3> QED
      BY <2>3, <3>2, <3>3 DEF StartRequest, Respond
  <2>4. CASE WakeProgress(n)
    BY <1>7, <2>4 DEF WakeProgress
  <2>5. CASE WakeCancelled(n)
    <3>1. Runs("wake", n)
      BY <2>5 DEF WakeCancelled
    <3>2. phase' = [phase EXCEPT ![n] = "unwinding"] /\ ready' = Tail(ready) => QueueInv'
      BY <1>7, <3>1
    <3>3. Finish(n) => QueueInv'
      BY <1>8, <3>1
    <3> QED
      BY <2>5, <3>2, <3>3 DEF WakeCancelled, Respond
  <2>6. CASE WakeDone(n)
    BY <1>8, <2>6 DEF WakeDone, Respond
  <2>7. CASE RequestDone(n)
    BY <1>6, <2>7 DEF RequestDone
  <2> QED
    BY <1>20, <1>21, <2>1, <2>2, <2>3, <2>4, <2>5, <2>6, <2>7 DEF TaskRuns
<1>22. ASSUME NEW n \in Tasks, DispatcherActs(n) PROVE QueueInv'
  BY <1>11, <1>22 DEF DispatcherActs, DispatchProgress, DispatchUnwound, DispatchEnds
<1>23. CASE Exit
  BY <1>17, <1>23 DEF Exit
<1>24. CASE UNCHANGED vars
  BY <1>17, <1>24 DEF vars
<1> QED
  BY <1>13, <1>15, <1>16, <1>18, <1>19, <1>21, <1>22, <1>23, <1>24 DEF Next, ReaderRuns, Exited
\* What a line that was decoded says stays as it is.
LEMMA DecodedStays ==
  ASSUME TypeInv, [Next]_vars, NEW n \in Tasks, n <= decoded
  PROVE  /\ n \in 1..Len(input) /\ n \in 1..Len(input')
         /\ IsRequest(n)' = IsRequest(n) /\ CancelledInAdvance(n)' = CancelledInAdvance(n)
<1>1. decoded \in Nat /\ decoded <= Len(input) /\ Len(input) \in Nat /\ n \in Nat /\ 1 <= n
  BY DEF TypeInv, TypeOK, Tasks
<1>2. Len(input) <= Len(input') /\ Len(input') \in Nat /\ \A m \in 1..Len(input) : input'[m] = input[m]
  BY LinesStay
<1>3. n \in 1..Len(input) /\ n \in 1..Len(input') /\ \A m \in 1..(n - 1) : m \in 1..Len(input)
  BY <1>1, <1>2
<1>4. IsRequest(n)' = IsRequest(n)
  BY <1>2, <1>3 DEF IsRequest
<1>5. CancelledInAdvance(n)' = CancelledInAdvance(n)
  BY <1>2, <1>3 DEF CancelledInAdvance
<1> QED
  BY <1>3, <1>4, <1>5

\* A line that a step leaves alone, and one whose task it takes further.
LEMMA LineKept ==
  ASSUME TypeInv, [Next]_vars, NEW n \in Tasks, LineInv(n),
         phase'[n] = phase[n], out'[n] = out[n], n \in doomed' => n \in doomed,
         decoded' \in Nat, decoded <= decoded', shutdown' = shutdown \/ shutdown # "no"
  PROVE  LineInv(n)'
<1>1. decoded \in Nat /\ n \in Nat
  BY DEF TypeInv, TypeOK, Tasks
<1>2. CASE n > decoded
  <2>1. phase'[n] = "absent" /\ n \notin doomed' /\ out'[n] = <<>>
    BY <1>2 DEF LineInv, Unread, Silent
  <2> QED
    BY <2>1 DEF LineInv, Unread, Silent, UnderWay, Begun, Withdrawn
<1>3. CASE n <= decoded
  BY <1>1, <1>3, DecodedStays DEF LineInv, Unread, Silent, UnderWay, Begun, Withdrawn
<1> QED
  BY <1>1, <1>2, <1>3

LEMMA LineMoves ==
  ASSUME TypeInv, [Next]_vars, NEW n \in Tasks, LineInv(n), phase[n] # "absent",
         phase'[n] \in {"suspended", "woken", "unwinding", "finished"},
         phase'[n] # "finished" => out'[n] = <<>> /\ IsRequest(n),
         decoded' \in Nat, decoded <= decoded'
  PROVE  LineInv(n)'
<1>1. decoded \in Nat /\ n \in Nat
  BY DEF TypeInv, TypeOK, Tasks
<1>2. n <= decoded
  BY <1>1 DEF LineInv, Unread
<1>3. n <= decoded' /\ IsRequest(n)' = IsRequest(n)
  BY <1>1, <1>2, DecodedStays
<1> QED
  BY <1>1, <1>3 DEF LineInv, Unread, Silent, UnderWay, Begun, Withdrawn

LEMMA LinesStep ==
  ASSUME TypeInv, LoopInv, Table, QueueInv, LinesInv, [Next]_vars
  PROVE  LinesInv'
<1>1. /\ phase \in [Tasks -> Phases] /\ doomed \subseteq Tasks
      /\ out \in [Tasks -> Seq(ReplyKinds)] /\ decoded \in Nat
  BY DEF TypeInv, TypeOK
<1>2. \A n \in Tasks : LineInv(n) /\ n \in Nat
  BY DEF LinesInv, Tasks
<1>3. ASSUME UNCHANGED <<phase, out, doomed, decoded>>, shutdown' = shutdown \/ shutdown # "no"
      PROVE  LinesInv'
  BY <1>1, <1>2, <1>3, LineKept DEF LinesInv
<1>4. ASSUME NEW kind, Reads(kind), UNCHANGED <<out, doomed, shutdown>>,
             CreateTask \/ UNCHANGED phase
      PROVE  LinesInv'
  <2>1. NextLine \in Tasks /\ NextLine = decoded + 1 /\ decoded' = decoded + 1
    BY <1>4, NextLineTyped DEF TypeInv, NextLine
  <2>2. shutdown = "no"
    BY <1>4 DEF Reads, LoopInv
  <2>3. ASSUME NEW n \in Tasks, phase'[n] = phase[n] PROVE LineInv(n)'
    BY <1>1, <1>2, <1>4, <2>1, <2>3, LineKept
  <2>4. CASE CreateTask
    <3>1. \A n \in Tasks : phase'[n] = IF n = NextLine THEN "created" ELSE phase[n]
      BY <1>1, <2>4 DEF CreateTask
    <3>2. phase[NextLine] = "absent" /\ NextLine \notin doomed /\ out[NextLine] = <<>>
      BY <1>1, <1>2, <2>1 DEF LineInv, Unread, Silent
    <3>3. phase'[NextLine] = "created" /\ NextLine \notin doomed' /\ out'[NextLine] = <<>>
          /\ ~(NextLine > decoded') /\ shutdown' = "no"
      BY <1>1, <1>4, <2>1, <2>2, <3>1, <3>2
    <3>4. \A n : n = NextLine => LineInv(n)'
      BY <3>3 DEF LineInv, Unread, Silent, UnderWay, Begun, Withdrawn
    <3> QED
      BY <2>3, <3>1, <3>4 DEF LinesInv
  <2>5. CASE UNCHANGED phase
    BY <2>3, <2>5 DEF LinesInv
  <2> QED
    BY <1>4, <2>4, <2>5
\* A step of the task n, or of the dispatcher for it.
<1>5. ASSUME NEW n \in Tasks, phase[n] # "absent",
             NEW x \in {"suspended", "woken", "unwinding", "finished"}, phase' = [phase EXCEPT ![n] = x],
             \A m \in Tasks : m # n => out'[m] = out[m],
             x # "finished" => out' = out /\ phase[n] # "finished" /\ IsRequest(n),
             doomed' \subseteq doomed, UNCHANGED <<decoded, shutdown>>
      PROVE  LinesInv'
  <2>1. \A m \in Tasks : phase'[m] = IF m = n THEN x ELSE phase[m]
    BY <1>1, <1>5
  <2>2. \A m \in Tasks : m # n => LineInv(m)'
    BY <1>1, <1>2, <1>5, <2>1, LineKept
  <2>3. x # "finished" => out'[n] = <<>>
    BY <1>2, <1>5 DEF LineInv, Silent
  <2>4. LineInv(n)'
    BY <1>1, <1>2, <1>5, <2>1, <2>3, LineMoves
  <2> QED
    BY <2>2, <2>4 DEF LinesInv
<1>6. ASSUME NEW n \in Tasks, NEW do \in {"start", "wake"}, Runs(do, n), Finish(n),
             \A m \in Tasks : m # n => out'[m] = out[m], UNCHANGED <<decoded, shutdown>>
      PROVE  LinesInv'
  <2>1. phase[n] # "absent"
    BY <1>6, HeadMatches
  <2>2. phase' = [phase EXCEPT ![n] = "finished"] /\ doomed' \subseteq doomed
    BY <1>6 DEF Finish
  <2> QED
    BY <1>5, <1>6, <2>1, <2>2
<1>7. ASSUME NEW n \in Tasks, NEW kind, Respond(n, kind)
      PROVE  \A m \in Tasks : m # n => out'[m] = out[m]
  BY <1>1, <1>7 DEF Respond, Write
<1>8. ASSUME NEW S \in SUBSET Tasks, NEW queue, NEW ended \in SUBSET Tasks, CancelTasks(S, queue, ended),
             \A m \in Tasks : m \notin ended => out'[m] = out[m],
             \A m \in ended : phase[m] = "created",
             \A m \in S : phase[m] = "created" => m \notin ended /\ IsRequest(m) /\ CancelledInAdvance(m),
             UNCHANGED decoded, shutdown' = shutdown \/ shutdown # "no"
      PROVE  LinesInv'
  <2> SUFFICES ASSUME NEW m \in Tasks PROVE LineInv(m)'
    BY DEF LinesInv
  <2>1. /\ phase'[m] = IF m \in S /\ phase[m] = "suspended" THEN "woken"
                       ELSE IF m \in ended THEN "finished" ELSE phase[m]
        /\ m \in doomed' <=> m \in doomed \/ (m \in S /\ phase[m] \in {"created", "woken"})
    BY <1>8 DEF CancelTasks
  <2>2. CASE m \in S /\ phase[m] = "suspended"
    <3>1. m \notin ended /\ out'[m] = out[m] /\ out[m] = <<>> /\ IsRequest(m) /\ phase'[m] = "woken"
      BY <1>2, <1>8, <2>1, <2>2 DEF LineInv, Silent, UnderWay
    <3>2. phase'[m] = "woken" /\ out'[m] = <<>> /\ IsRequest(m) /\ phase[m] # "absent" /\ LineInv(m)
      BY <1>2, <2>2, <3>1
    <3> QED
      BY <1>1, <1>8, <3>2, LineMoves
  <2>3. CASE m \in ended
    <3>1. phase'[m] = "finished" /\ phase[m] # "absent"
      BY <1>8, <2>1, <2>3
    <3> QED
      BY <1>1, <1>2, <1>8, <3>1, LineMoves
  <2>4. CASE m \in S /\ phase[m] = "created"
    <3>1. phase'[m] = "created" /\ out'[m] = out[m] /\ IsRequest(m) /\ CancelledInAdvance(m)
      BY <1>8, <2>1, <2>4
    <3>2. m <= decoded /\ out[m] = <<>> /\ shutdown = "no"
      BY <1>1, <1>2, <2>4 DEF LineInv, Unread, Silent, Begun
    <3>3. IsRequest(m)' /\ CancelledInAdvance(m)' /\ ~(m > decoded') /\ shutdown' = "no"
      BY <1>1, <1>2, <1>8, <3>1, <3>2, DecodedStays
    <3> QED
      BY <3>1, <3>2, <3>3 DEF LineInv, Unread, Silent, UnderWay, Begun, Withdrawn
  <2>5. CASE m \in S /\ phase[m] = "woken" /\ m \notin ended
    <3>1. phase'[m] = "woken" /\ out'[m] = <<>> /\ IsRequest(m)
      BY <1>2, <1>8, <2>1, <2>5 DEF LineInv, Silent, UnderWay
    <3> QED
      BY <1>1, <1>2, <1>8, <2>5, <3>1, LineMoves
  <2>6. CASE m \notin ended /\ (m \notin S \/ phase[m] \notin {"suspended", "created", "woken"})
    <3>1. phase'[m] = phase[m] /\ out'[m] = out[m] /\ (m \in doomed' => m \in doomed)
      BY <1>8, <2>1, <2>6
    <3> QED
      BY <1>1, <1>2, <1>8, <3>1, LineKept
  <2> QED
    BY <2>2, <2>3, <2>4, <2>5, <2>6
<1>9. CASE StdinReadable
  BY <1>3, <1>9 DEF StdinReadable
\* Whatever was created is queued to start before the loop is stopped.
<1>10. CASE StopLoop
  <2>1. ready[1].do = "stop" /\ 1 \in 1..Len(ready)
    BY <1>10, HeadMatches DEF StopLoop
  <2>2. \A k \in 1..Len(ready) : ready[k].do # "start"
    <3> SUFFICES ASSUME NEW k \in 1..Len(ready), ready[k].do = "start" PROVE FALSE
      OBVIOUS
    <3>1. k < 1
      BY <2>1 DEF QueueInv, Ordered
    <3> QED
      BY <3>1
  <2>3. \A n \in Tasks : phase[n] # "created"
    BY <2>2 DEF QueueInv, Matches
  <2>4. UNCHANGED <<phase, out, doomed, decoded, input>>
    BY <1>10 DEF StopLoop
  <2> QED
    BY <1>2, <2>3, <2>4
       DEF LinesInv, LineInv, Unread, Silent, UnderWay, Begun, Withdrawn, IsRequest, CancelledInAdvance
<1>11. CASE ReceiveLines \/ ReceiveEof \/ ResumeReader
  BY <1>3, <1>11 DEF ReceiveLines, ReceiveEof, ResumeReader
<1>12. CASE ReadRequest \/ ReadCancel \/ ReadRejected \/ ReadUndecodable
  BY <1>4, <1>12 DEF ReadRequest, ReadCancel, ReadRejected, ReadUndecodable
<1>13. CASE BufferEmpty
  BY <1>3, <1>13 DEF BufferEmpty
<1>14. CASE CancelEverything
  <2>1. CancelTasks({n \in Tasks : ~Finished(n)}, ready, {}) /\ UNCHANGED <<out, decoded>> /\ shutdown # "no"
    BY <1>14 DEF CancelEverything
  <2>2. \A m \in Tasks : phase[m] # "created"
    BY <1>2, <2>1 DEF LineInv, Begun
  <2>3. {n \in Tasks : ~Finished(n)} \in SUBSET Tasks /\ {} \in SUBSET Tasks
    OBVIOUS
  <2> QED
    BY <1>8, <2>1, <2>2, <2>3
<1>15. CASE Exit
  BY <1>3, <1>15 DEF Exit
\* A cancel only finds a task that is still to start if it was sent before.
<1>16. ASSUME NEW n \in Tasks, StartCancel(n) PROVE LinesInv'
  <2>1. Runs("start", n) /\ phase[n] = "created" /\ UNCHANGED <<decoded, shutdown>>
    BY <1>16, HeadMatches DEF StartCancel
  <2>2. CASE Respond(n, "error")
    BY <1>6, <1>7, <2>1, <2>2 DEF Respond
  <2>3. CASE /\ CancelTasks(Registered(input[n].target), Tail(ready), {n})
             /\ input[n].target # NoId /\ out' = Write(n, "ok")
    <3>1. input[n] \in Line /\ input[n].kind = "cancel"
      BY <1>16, HeadTyped DEF StartCancel
    <3>2. input[n].target \in Ids
      BY <2>3, <3>1 DEF Line
    <3>3. Registered(input[n].target) \in SUBSET Tasks
      BY <3>2 DEF Registered, TypeInv, TypeOK
    <3>4. ASSUME NEW m \in Registered(input[n].target)
          PROVE  m # n /\ IsRequest(m) /\ input[m].id = input[n].target
      <4>1. m = tasks[input[n].target] /\ m # NoTask
        BY DEF Registered
      <4> QED
        BY <3>1, <3>2, <4>1 DEF Table, IsRequest
    <3>5. ASSUME NEW m \in Registered(input[n].target), phase[m] = "created"
          PROVE  CancelledInAdvance(m)
      <4>1. m \in Tasks /\ m # n
        BY <3>3, <3>4
      <4>2. PICK k \in 1..Len(ready) : ready[k].do = "start" /\ ready[k].task = m
        BY <3>5, <4>1 DEF QueueInv, Matches
      <4>3. 1 \in 1..Len(ready) /\ ready[1].do = "start" /\ ready[1].task = n
        BY <2>1, HeadMatches
      <4>4. k # 1
        BY <4>1, <4>2, <4>3
      <4>5. n < m
        BY <4>2, <4>3, <4>4 DEF QueueInv, Ordered
      <4>6. n \in 1..(m - 1)
        BY <1>2, <4>1, <4>5 DEF Tasks
      <4> QED
        BY <3>1, <3>4, <4>6 DEF CancelledInAdvance
    <3>6. \A m \in Tasks : m # n => out'[m] = out[m]
      BY <1>1, <2>3 DEF Write
    <3> QED
      BY <1>8, <2>1, <2>3, <3>3, <3>4, <3>5, <3>6
  <2> QED
    BY <1>16, <2>2, <2>3 DEF StartCancel
<1>17. ASSUME NEW n \in Tasks, TaskRuns(n) PROVE LinesInv'
  <2>1. CASE StartRejected(n)
    BY <1>6, <1>7, <2>1 DEF StartRejected, Respond
  <2>2. CASE StartDoomed(n)
    BY <1>6, <2>2 DEF StartDoomed
  <2>3. CASE StartRequest(n)
    <3>1. Runs("start", n) /\ IsRequest(n) /\ phase[n] = "created" /\ UNCHANGED <<decoded, shutdown>>
      BY <2>3, HeadMatches DEF StartRequest
    <3>2. phase' = [phase EXCEPT ![n] = "suspended"] /\ UNCHANGED <<doomed, out>> => LinesInv'
      BY <1>5, <3>1
    <3>3. \A o : Respond(n, o) => LinesInv'
      BY <1>6, <1>7, <3>1 DEF Respond
    <3> QED
      BY <2>3, <3>2, <3>3 DEF StartRequest
  <2>4. CASE WakeProgress(n)
    <3>1. phase[n] = "woken" /\ IsRequest(n)
      BY <1>2, <2>4, HeadMatches DEF WakeProgress, LineInv, UnderWay
    <3> QED
      BY <1>5, <2>4, <3>1 DEF WakeProgress
  <2>5. CASE WakeCancelled(n)
    <3>1. Runs("wake", n) /\ phase[n] = "woken" /\ IsRequest(n) /\ UNCHANGED <<decoded, shutdown>>
      BY <1>2, <2>5, HeadMatches DEF WakeCancelled, LineInv, UnderWay
    <3>2. phase' = [phase EXCEPT ![n] = "unwinding"] /\ doomed' = doomed \ {n} /\ UNCHANGED out => LinesInv'
      BY <1>5, <3>1
    <3>3. Respond(n, "cancelled") => LinesInv'
      BY <1>6, <1>7, <3>1 DEF Respond
    <3> QED
      BY <2>5, <3>2, <3>3 DEF WakeCancelled
  <2>6. CASE WakeDone(n)
    BY <1>6, <1>7, <2>6 DEF WakeDone, Respond
  <2>7. CASE RequestDone(n)
    BY <1>3, <2>7 DEF RequestDone
  <2> QED
    BY <1>16, <1>17, <2>1, <2>2, <2>3, <2>4, <2>5, <2>6, <2>7 DEF TaskRuns
<1>18. ASSUME NEW n \in Tasks, DispatcherActs(n) PROVE LinesInv'
  <2>1. ASSUME NEW w, Wake(n, w), phase[n] \in {"suspended", "unwinding"} PROVE LinesInv'
    <3>1. IsRequest(n)
      BY <1>2, <2>1 DEF LineInv, UnderWay
    <3> QED
      BY <1>5, <2>1, <3>1 DEF Wake
  <2> QED
    BY <1>18, <2>1 DEF DispatcherActs, DispatchProgress, DispatchUnwound, DispatchEnds
<1>19. CASE UNCHANGED vars
  BY <1>3, <1>19 DEF vars
<1> QED
  BY <1>9, <1>10, <1>11, <1>12, <1>13, <1>14, <1>15, <1>17, <1>18, <1>19
     DEF Next, LoopRuns, ReaderRuns, Exited
----------------------------------------------------------------------------
(* What the contract sees *)

\* How far a line has come, and whether it may go unanswered: the mapping of
\* Contract in RequestServer, line by line.
Status(n) ==
  IF phase[n] = "absent" THEN "unread"
  ELSE IF Len(out[n]) > 1 THEN "answered twice"
  ELSE IF Answered(n) THEN "answered"
  ELSE IF Finished(n) THEN "dropped" ELSE "open"

Excused(n) ==
  /\ n \in Requests
  /\ CancelledInAdvance(n) \/ (Finished(n) /\ wakeup[n] = "unencodable")

\* The contract's variables.
Statuses == [n \in Tasks |-> Status(n)]
Excuses == {n \in Tasks : Excused(n)}

Alike(n) == Status(n)' = Status(n) /\ Excused(n)' = Excused(n)

\* What one line may do in a step, all others staying as they are.
ReadOne(n) == Status(n) = "unread" /\ Status(n)' = "open" /\ ~Excused(n)
AnsweredOne(n) == Status(n) = "open" /\ Status(n)' = "answered" /\ Excused(n)' = Excused(n)
DroppedOne(n) == Status(n) = "open" /\ Status(n)' = "dropped" /\ Excused(n)'

OneLine ==
  \/ \A n \in Tasks : Alike(n)
  \/ \E n \in Tasks : /\ ReadOne(n) \/ AnsweredOne(n) \/ DroppedOne(n)
                      /\ \A m \in Tasks : m # n => Alike(m)

\* A line is alike after a step that does not begin or end its task.
LEMMA AlikeKept ==
  ASSUME TypeInv, [Next]_vars, NEW n \in Tasks, LineInv(n),
         decoded' \in Nat, decoded <= decoded', n <= decoded \/ n > decoded' \/ ~IsRequest(n)',
         out'[n] = out[n],
         \/ phase'[n] = phase[n] /\ wakeup'[n] = wakeup[n]
         \/ {phase[n], phase'[n]} \cap {"absent", "finished"} = {}
  PROVE  Alike(n)
<1>1. decoded \in Nat /\ n \in Nat /\ 1 <= n
  BY DEF TypeInv, TypeOK, Tasks
<1>2. Status(n)' = Status(n)
  BY DEF Status, Answered, Finished
<1>3. Excused(n)' = Excused(n)
  <2>1. CASE n <= decoded
    <3>1. /\ n \in 1..decoded /\ n \in 1..decoded'
          /\ IsRequest(n)' = IsRequest(n) /\ CancelledInAdvance(n)' = CancelledInAdvance(n)
      BY <1>1, <2>1, DecodedStays
    <3>2. (Finished(n) /\ wakeup[n] = "unencodable")' = (Finished(n) /\ wakeup[n] = "unencodable")
      BY DEF Finished
    <3>3. (n \in Requests) = IsRequest(n) /\ (n \in Requests)' = IsRequest(n)'
      BY <3>1 DEF Requests, IsRequest
    <3> QED
      BY <3>1, <3>2, <3>3 DEF Excused
  <2>2. CASE n > decoded
    <3>1. n \notin Requests /\ (n \in Requests)' = FALSE
      BY <1>1, <2>2 DEF Requests
    <3> QED
      BY <3>1 DEF Excused
  <2> QED
    BY <1>1, <2>1, <2>2
<1> QED
  BY <1>2, <1>3 DEF Alike

\* The step of a task that ends it: it is answered, or was excused.
LEMMA EndsOnce ==
  ASSUME TypeInv, LinesInv, [Next]_vars, NEW n \in Tasks,
         phase[n] \notin {"absent", "finished"}, phase' = [phase EXCEPT ![n] = "finished"],
         \A m \in Tasks : m # n => out'[m] = out[m] /\ wakeup'[m] = wakeup[m],
         \/ \E kind : out'[n] = Append(out[n], kind) /\ (IsRequest(n) => wakeup'[n] # "unencodable")
         \/ out'[n] = out[n] /\ IsRequest(n) /\ (CancelledInAdvance(n) \/ wakeup'[n] = "unencodable"),
         UNCHANGED decoded
  PROVE  OneLine
<1>1. /\ decoded \in Nat /\ n \in Nat /\ 1 <= n /\ phase \in [Tasks -> Phases] /\ LineInv(n)
      /\ \A m \in Tasks : m \in Nat
  BY DEF TypeInv, TypeOK, Tasks, LinesInv
<1>2. n <= decoded /\ out[n] = <<>>
  BY <1>1 DEF LineInv, Unread, Silent
<1>3. phase'[n] = "finished" /\ \A m \in Tasks : m # n => phase'[m] = phase[m]
  BY <1>1
<1>4. \A m \in Tasks : m # n => Alike(m)
  <2>1. \A m \in Tasks : m <= decoded \/ m > decoded'
    BY <1>1
  <2> QED
    BY <1>1, <1>3, <2>1, AlikeKept DEF LinesInv
<1>5. Status(n) = "open"
  BY <1>2 DEF Status, Answered, Finished
<1>6. /\ IsRequest(n)' = IsRequest(n) /\ CancelledInAdvance(n)' = CancelledInAdvance(n)
  BY <1>2, DecodedStays
<1>7. (n \in Requests) = IsRequest(n) /\ (n \in Requests)' = IsRequest(n)'
  BY <1>1, <1>2 DEF Requests, IsRequest
<1>8. CASE \E kind : out'[n] = Append(out[n], kind) /\ (IsRequest(n) => wakeup'[n] # "unencodable")
  <2>1. out'[n] # <<>> /\ Len(out'[n]) = 1
    BY <1>2, <1>8
  <2>2. Status(n)' = "answered"
    BY <1>3, <2>1 DEF Status, Answered, Finished
  <2>3. Excused(n)' = Excused(n)
    BY <1>3, <1>6, <1>7, <1>8 DEF Excused, Finished
  <2> QED
    BY <1>4, <1>5, <2>2, <2>3 DEF OneLine, AnsweredOne
<1>9. CASE out'[n] = out[n] /\ IsRequest(n) /\ (CancelledInAdvance(n) \/ wakeup'[n] = "unencodable")
  <2>1. Status(n)' = "dropped"
    BY <1>2, <1>3, <1>9 DEF Status, Answered, Finished
  <2>2. Excused(n)'
    BY <1>3, <1>6, <1>7, <1>9 DEF Excused, Finished
  <2> QED
    BY <1>4, <1>5, <2>1, <2>2 DEF OneLine, DroppedOne
<1> QED
  BY <1>8, <1>9

LEMMA OneLineStep ==
  ASSUME TypeInv, LoopInv, Table, QueueInv, LinesInv, [Next]_vars
  PROVE  OneLine
<1>1. /\ phase \in [Tasks -> Phases] /\ wakeup \in [Tasks -> Wakeups] /\ decoded \in Nat
      /\ out \in [Tasks -> Seq(ReplyKinds)] /\ Outcomes \subseteq {"result", "error", "unencodable"}
      /\ \A n \in Tasks : n \in Nat /\ LineInv(n)
  BY RequestServerAssumption DEF TypeInv, TypeOK, LinesInv, Tasks
<1>2. ASSUME UNCHANGED <<phase, out, decoded, wakeup>> PROVE OneLine
  <2>1. \A n \in Tasks : n <= decoded \/ n > decoded'
    BY <1>1, <1>2
  <2> QED
    BY <1>1, <1>2, <2>1, AlikeKept DEF OneLine
<1>3. ASSUME NEW kind, Reads(kind), UNCHANGED <<out, wakeup>>,
             CreateTask \/ (UNCHANGED phase /\ kind # "request")
      PROVE  OneLine
  <2>1. /\ NextLine \in Tasks /\ NextLine = decoded + 1 /\ decoded' = decoded + 1
        /\ input[NextLine].kind = kind /\ UNCHANGED input
    BY <1>3, NextLineTyped DEF TypeInv, NextLine
  <2>2. ASSUME NEW n \in Tasks, phase'[n] = phase[n], n # NextLine \/ ~IsRequest(n)' PROVE Alike(n)
    <3>1. n <= decoded \/ n > decoded' \/ ~IsRequest(n)'
      BY <1>1, <2>1, <2>2
    <3>2. /\ decoded' \in Nat /\ decoded <= decoded' /\ LineInv(n)
          /\ out'[n] = out[n] /\ wakeup'[n] = wakeup[n]
      BY <1>1, <1>3, <2>1
    <3> QED
      BY <2>2, <3>1, <3>2, AlikeKept
  <2>3. CASE CreateTask
    <3>1. \A n \in Tasks : phase'[n] = IF n = NextLine THEN "created" ELSE phase[n]
      BY <1>1, <2>3 DEF CreateTask
    <3>2. phase[NextLine] = "absent" /\ out[NextLine] = <<>> /\ NextLine \notin Requests
      BY <1>1, <2>1 DEF LineInv, Unread, Silent, Requests
    <3>3. phase'[NextLine] = "created" /\ out'[NextLine] = <<>>
      BY <1>3, <2>1, <3>1, <3>2
    <3>4. \A n : n = NextLine => ReadOne(n)
      BY <3>2, <3>3 DEF ReadOne, Status, Answered, Finished, Excused
    <3>5. \A n \in Tasks : n # NextLine => Alike(n)
      BY <2>2, <3>1
    <3> QED
      BY <2>1, <3>4, <3>5 DEF OneLine
  <2>4. CASE UNCHANGED phase /\ kind # "request"
    <3>1. \A n \in Tasks : n # NextLine \/ ~IsRequest(n)'
      BY <2>1, <2>4 DEF IsRequest
    <3> QED
      BY <2>2, <2>4, <3>1 DEF OneLine
  <2> QED
    BY <1>3, <2>3, <2>4
\* A task goes on: what the contract sees of its line stays.
<1>4. ASSUME NEW n \in Tasks, phase[n] \notin {"absent", "finished"},
             NEW x \in {"suspended", "woken", "unwinding"}, phase' = [phase EXCEPT ![n] = x],
             \A m \in Tasks : m # n => wakeup'[m] = wakeup[m], UNCHANGED <<out, decoded>>
      PROVE  OneLine
  <2>1. \A m \in Tasks : phase'[m] = IF m = n THEN x ELSE phase[m]
    BY <1>1, <1>4
  <2>2. \A m \in Tasks : m <= decoded \/ m > decoded'
    BY <1>1, <1>4
  <2>3. \A m \in Tasks : m # n => Alike(m)
    BY <1>1, <1>4, <2>1, <2>2, AlikeKept
  <2>4. {phase[n], phase'[n]} \cap {"absent", "finished"} = {}
    BY <1>4, <2>1
  <2>5. Alike(n)
    BY <1>1, <1>4, <2>2, <2>4, AlikeKept
  <2> QED
    BY <2>3, <2>5 DEF OneLine
<1>5. ASSUME NEW n \in Tasks, NEW do \in {"start", "wake"}, Runs(do, n)
      PROVE  phase[n] \notin {"absent", "finished"}
  BY <1>5, HeadMatches
\* A task answers with anything but a result that has no JSON form.
<1>6. ASSUME NEW n \in Tasks, NEW do \in {"start", "wake"}, Runs(do, n),
             NEW kind, kind # "unencodable", Respond(n, kind), UNCHANGED decoded,
             \A m \in Tasks : m # n => wakeup'[m] = wakeup[m],
             IsRequest(n) => wakeup'[n] # "unencodable"
      PROVE  OneLine
  <2>1. phase' = [phase EXCEPT ![n] = "finished"] /\ phase[n] \notin {"absent", "finished"}
    BY <1>5, <1>6 DEF Respond, Finish
  <2>2. out'[n] = Append(out[n], kind) /\ \A m \in Tasks : m # n => out'[m] = out[m]
    BY <1>1, <1>6 DEF Respond, Write
  <2> QED
    BY <1>6, <2>1, <2>2, EndsOnce
\* A task ends without an answer.
<1>7. ASSUME NEW n \in Tasks, NEW do \in {"start", "wake"}, Runs(do, n), Finish(n), UNCHANGED <<out, decoded>>,
             \A m \in Tasks : m # n => wakeup'[m] = wakeup[m],
             IsRequest(n), CancelledInAdvance(n) \/ wakeup'[n] = "unencodable"
      PROVE  OneLine
  <2>1. phase' = [phase EXCEPT ![n] = "finished"] /\ phase[n] \notin {"absent", "finished"}
    BY <1>5, <1>7 DEF Finish
  <2>2. out'[n] = out[n] /\ \A m \in Tasks : m # n => out'[m] = out[m]
    BY <1>7
  <2> QED
    BY <1>7, <2>1, <2>2, EndsOnce
<1>8. CASE StdinReadable \/ LoopRuns
  BY <1>2, <1>8 DEF StdinReadable, LoopRuns, ReceiveLines, ReceiveEof, ResumeReader, StopLoop
<1>9. CASE ReaderRuns
  <2>1. CASE ReadRequest \/ ReadCancel \/ ReadRejected
    BY <1>3, <2>1 DEF ReadRequest, ReadCancel, ReadRejected
  <2>2. CASE ReadUndecodable
    BY <1>3, <2>2 DEF ReadUndecodable
  <2>3. CASE BufferEmpty
    BY <1>2, <2>3 DEF BufferEmpty
  <2> QED
    BY <1>9, <2>1, <2>2, <2>3 DEF ReaderRuns
<1>10. ASSUME NEW S \in SUBSET Tasks, NEW queue, NEW ended, CancelTasks(S, queue, ended),
              NEW m \in Tasks, m \notin ended, out'[m] = out[m], UNCHANGED decoded
       PROVE  Alike(m)
  <2>1. m <= decoded \/ m > decoded'
    BY <1>1, <1>10
  <2>2. \/ phase[m] = "suspended" /\ phase'[m] = "woken"
        \/ phase'[m] = phase[m] /\ wakeup'[m] = wakeup[m]
    BY <1>10 DEF CancelTasks
  <2>3. \/ phase'[m] = phase[m] /\ wakeup'[m] = wakeup[m]
        \/ {phase[m], phase'[m]} \cap {"absent", "finished"} = {}
    BY <2>2
  <2> QED
    BY <1>1, <1>10, <2>1, <2>3, AlikeKept
<1>11. CASE CancelEverything
  <2>1. CancelTasks({n \in Tasks : ~Finished(n)}, ready, {}) /\ UNCHANGED <<out, decoded>>
    BY <1>11 DEF CancelEverything
  <2>2. \A m \in Tasks : Alike(m)
    BY <1>10, <2>1
  <2> QED
    BY <2>2 DEF OneLine
<1>12. ASSUME NEW n \in Tasks, StartCancel(n) PROVE OneLine
  <2>1. /\ Runs("start", n) /\ phase[n] = "created" /\ ~IsRequest(n) /\ UNCHANGED decoded
    BY <1>12, HeadMatches DEF StartCancel, IsRequest
  <2>2. CASE Respond(n, "error") /\ UNCHANGED wakeup
    BY <1>6, <2>1, <2>2
  <2>3. CASE /\ CancelTasks(Registered(input[n].target), Tail(ready), {n})
             /\ input[n].target # NoId /\ out' = Write(n, "ok")
    <3>1. input[n] \in Line /\ input[n].kind = "cancel" /\ n \in 1..decoded
      BY <1>12, HeadTyped DEF StartCancel
    <3>2. input[n].target \in Ids
      BY <2>3, <3>1 DEF Line
    <3>3. Registered(input[n].target) \in SUBSET Tasks
      BY <3>2 DEF Registered, TypeInv, TypeOK
    <3>4. out'[n] = Append(out[n], "ok") /\ \A m \in Tasks : m # n => out'[m] = out[m]
      BY <1>1, <2>3 DEF Write
    <3>5. \A m \in Tasks : m # n => Alike(m)
      <4> SUFFICES ASSUME NEW m \in Tasks, m # n PROVE Alike(m)
        OBVIOUS
      <4>1. m \notin {n} /\ out'[m] = out[m]
        BY <3>4
      <4> QED
        BY <1>10, <2>1, <2>3, <3>3, <4>1
    <3>6. out[n] = <<>> /\ phase'[n] = "finished"
      BY <1>1, <2>1, <2>3 DEF LineInv, Silent, CancelTasks
    <3>7. out'[n] # <<>> /\ Len(out'[n]) = 1
      BY <3>4, <3>6
    <3>8. Status(n) = "open" /\ Status(n)' = "answered"
      BY <2>1, <3>6, <3>7 DEF Status, Answered, Finished
    <3>9. ~IsRequest(n)'
      BY <1>1, <2>1, <3>1, DecodedStays
    <3>10. Excused(n)' = Excused(n)
      BY <2>1, <3>9 DEF Excused, Requests, IsRequest
    <3> QED
      BY <3>5, <3>8, <3>10 DEF OneLine, AnsweredOne
  <2> QED
    BY <1>12, <2>2, <2>3 DEF StartCancel
<1>13. ASSUME NEW n \in Tasks, StartRequest(n) PROVE OneLine
  <2>1. Runs("start", n) /\ IsRequest(n) /\ phase[n] = "created" /\ UNCHANGED decoded
    BY <1>13, HeadMatches DEF StartRequest
  <2>2. CASE phase' = [phase EXCEPT ![n] = "suspended"] /\ UNCHANGED <<wakeup, out>>
    BY <1>4, <2>1, <2>2
  <2>3. ASSUME NEW o \in Outcomes, Respond(n, o), wakeup' = [wakeup EXCEPT ![n] = o] PROVE OneLine
    <3>1. wakeup'[n] = o /\ \A m \in Tasks : m # n => wakeup'[m] = wakeup[m]
      BY <1>1, <2>3
    <3>2. CASE o = "unencodable"
      BY <1>7, <2>1, <2>3, <3>1, <3>2 DEF Respond
    <3>3. CASE o # "unencodable"
      BY <1>6, <2>1, <2>3, <3>1, <3>3
    <3> QED
      BY <3>2, <3>3
  <2> QED
    BY <1>13, <2>2, <2>3 DEF StartRequest
<1>14. ASSUME NEW n \in Tasks, WakeCancelled(n) PROVE OneLine
  <2>1. /\ Runs("wake", n) /\ phase[n] = "woken" /\ UNCHANGED decoded
        /\ wakeup'[n] = "cancel" /\ \A m \in Tasks : m # n => wakeup'[m] = wakeup[m]
    BY <1>1, <1>14, HeadMatches DEF WakeCancelled
  <2>2. CASE Respond(n, "cancelled")
    BY <1>6, <2>1, <2>2
  <2>3. CASE phase' = [phase EXCEPT ![n] = "unwinding"] /\ UNCHANGED out
    BY <1>4, <2>1, <2>3
  <2> QED
    BY <1>14, <2>2, <2>3 DEF WakeCancelled
<1>15. ASSUME NEW n \in Tasks, WakeDone(n) PROVE OneLine
  <2>1. /\ Runs("wake", n) /\ phase[n] = "woken" /\ UNCHANGED <<decoded, wakeup>>
        /\ Respond(n, Found(n)) /\ Found(n) = wakeup[n] /\ IsRequest(n)
    BY <1>1, <1>15, HeadMatches DEF WakeDone, Found, LineInv, UnderWay
  <2>2. CASE Found(n) = "unencodable"
    BY <1>7, <2>1, <2>2 DEF Respond
  <2>3. CASE Found(n) # "unencodable"
    BY <1>6, <2>1, <2>3
  <2> QED
    BY <2>2, <2>3
<1>16. ASSUME NEW n \in Tasks, TaskRuns(n) PROVE OneLine
  <2>1. CASE StartRejected(n)
    BY <1>6, <2>1 DEF StartRejected, IsRequest
  <2>2. CASE StartDoomed(n)
    <3>1. Runs("start", n) /\ phase[n] = "created" /\ n \in doomed
      BY <2>2, HeadMatches DEF StartDoomed
    <3>2. IsRequest(n) /\ CancelledInAdvance(n)
      BY <1>1, <3>1 DEF LineInv, Withdrawn
    <3> QED
      BY <1>7, <2>2, <3>1, <3>2 DEF StartDoomed
  <2>3. CASE WakeProgress(n)
    <3>1. phase[n] = "woken" /\ \A m \in Tasks : m # n => wakeup'[m] = wakeup[m]
      BY <1>1, <2>3, HeadMatches DEF WakeProgress
    <3> QED
      BY <1>4, <2>3, <3>1 DEF WakeProgress
  <2>4. CASE RequestDone(n)
    BY <1>2, <2>4 DEF RequestDone
  <2> QED
    BY <1>12, <1>13, <1>14, <1>15, <1>16, <2>1, <2>2, <2>3, <2>4 DEF TaskRuns
<1>17. ASSUME NEW n \in Tasks, DispatcherActs(n) PROVE OneLine
  <2>1. ASSUME NEW w, Wake(n, w), phase[n] \in {"suspended", "unwinding"} PROVE OneLine
    <3>1. \A m \in Tasks : m # n => wakeup'[m] = wakeup[m]
      BY <1>1, <2>1 DEF Wake
    <3> QED
      BY <1>4, <2>1, <3>1 DEF Wake
  <2> QED
    BY <1>17, <2>1 DEF DispatcherActs, DispatchProgress, DispatchUnwound, DispatchEnds
<1>18. CASE Exit \/ UNCHANGED vars
  BY <1>2, <1>18 DEF Exit, vars
<1> QED
  BY <1>8, <1>9, <1>11, <1>16, <1>17, <1>18 DEF Next, Exited
----------------------------------------------------------------------------
(* The mapping *)

\* The contract's variables are the mapping's.
LEMMA Mapping == TypeOK => Contract!vars = <<Statuses, Excuses>>
<1> SUFFICES ASSUME TypeOK PROVE Contract!vars = <<Statuses, Excuses>>
  OBVIOUS
<1>1. {n \in Requests : CancelledInAdvance(n) \/ (Finished(n) /\ wakeup[n] = "unencodable")} = Excuses
  <2>1. Requests \subseteq Tasks
    BY RequestServerAssumption DEF Requests, TypeOK, Tasks
  <2> QED
    BY <2>1 DEF Excuses, Excused
<1> QED
  BY <1>1 DEF Contract!vars, Statuses, Status

\* What a line does is a step of the contract.
LEMMA OneLineMaps ==
  ASSUME OneLine, Contract!vars = <<Statuses, Excuses>>, Contract!vars' = <<Statuses, Excuses>>'
  PROVE  [Contract!Next]_(Contract!vars)
<1> DEFINE status == Contract!vars[1]
           excused == Contract!vars[2]
<1>1. /\ status = Statuses /\ excused = Excuses /\ status' = Statuses' /\ excused' = Excuses'
  OBVIOUS
<1>2. CASE \A n \in Tasks : Alike(n)
  <2>1. Statuses' = Statuses /\ Excuses' = Excuses
    BY <1>2 DEF Alike, Statuses, Excuses
  <2> QED
    BY <2>1
<1>3. ASSUME NEW n \in Tasks, \A m \in Tasks : m # n => Alike(m)
      PROVE  /\ \A v : Status(n)' = v => Statuses' = [Statuses EXCEPT ![n] = v]
             /\ Statuses[n] = Status(n)
             /\ Excused(n)' => Excuses' = Excuses \cup {n}
             /\ Excused(n)' = Excused(n) => Excuses' = Excuses
             /\ ~Excused(n)' /\ ~Excused(n) => Excuses' = Excuses
  BY <1>3 DEF Alike, Statuses, Excuses
<1>4. ASSUME NEW n \in Tasks, ReadOne(n), \A m \in Tasks : m # n => Alike(m) PROVE Contract!Read(n)
  <2>1. status[n] = "unread" /\ status' = [status EXCEPT ![n] = "open"] /\ excused' \in {excused, excused \cup {n}}
    BY <1>1, <1>3, <1>4 DEF ReadOne
  <2> QED
    BY <2>1 DEF Contract!Read, Contract!vars
<1>5. ASSUME NEW n \in Tasks, AnsweredOne(n), \A m \in Tasks : m # n => Alike(m) PROVE Contract!Answer(n)
  <2>1. status[n] = "open" /\ status' = [status EXCEPT ![n] = "answered"] /\ excused' = excused
    BY <1>1, <1>3, <1>5 DEF AnsweredOne
  <2> QED
    BY <2>1 DEF Contract!Answer, Contract!vars
<1>6. ASSUME NEW n \in Tasks, DroppedOne(n), \A m \in Tasks : m # n => Alike(m) PROVE Contract!Drop(n)
  <2>1. status[n] = "open" /\ status' = [status EXCEPT ![n] = "dropped"]
        /\ excused' \in {excused, excused \cup {n}} /\ n \in excused'
    BY <1>1, <1>3, <1>6 DEF DroppedOne
  <2> QED
    BY <2>1 DEF Contract!Drop, Contract!vars
<1> QED
  BY <1>2, <1>4, <1>5, <1>6 DEF OneLine, Contract!Next

LEMMA InitMaps == Init => Contract!Init
<1> SUFFICES ASSUME Init PROVE Contract!Init
  OBVIOUS
<1>1. \A n \in Tasks : Status(n) = "unread"
  BY DEF Init, Status
<1>2. Requests = {}
  BY DEF Init, Requests
<1> QED
  BY <1>1, <1>2 DEF Contract!Init, Status

\* The read loop, its tasks and their cancellation do what the contract allows and
\* nothing else, for any number of lines, however they arrive and whatever is
\* cancelled: a line that was read is answered at most once, and it is dropped
\* only if the client withdrew it before sending it or its result has no JSON form
\* (server.py:100-140, 152-170).
THEOREM AnswersKeepTheContract == Spec => Contract!Init /\ [][Contract!Next]_(Contract!vars)
<1> DEFINE Inv == TypeInv /\ LoopInv /\ Table /\ QueueInv /\ LinesInv
<1>1. Init => LoopInv /\ Table /\ QueueInv /\ LinesInv
  <2> SUFFICES ASSUME Init PROVE LoopInv /\ Table /\ QueueInv /\ LinesInv
    OBVIOUS
  <2>1. LoopInv /\ Table
    BY DEF Init, LoopInv, AtMost, None, Table
  <2>2. QueueInv
    BY DEF Init, QueueInv, Ordered, Matches
  <2>3. LinesInv
    BY DEF Init, LinesInv, LineInv, Unread, Silent, UnderWay, Begun, Withdrawn
  <2> QED
    BY <2>1, <2>2, <2>3
<1>2. Inv /\ [Next]_vars => Inv'
  BY TypeStep, LoopStep, TableStep, QueueStep, LinesStep
<1>0. (TypeOK => Contract!vars = <<Statuses, Excuses>>)'
  BY Mapping, PTL
<1>3. Inv /\ [Next]_vars => [Contract!Next]_(Contract!vars)
  <2> SUFFICES ASSUME Inv, [Next]_vars PROVE [Contract!Next]_(Contract!vars)
    OBVIOUS
  <2>1. TypeOK /\ TypeOK'
    BY TypeStep DEF TypeInv
  <2>2. Contract!vars = <<Statuses, Excuses>>
    BY <2>1, Mapping
  <2>3. Contract!vars' = <<Statuses, Excuses>>'
    BY <1>0, <2>1
  <2>4. OneLine
    BY OneLineStep
  <2> QED
    BY <2>2, <2>3, <2>4, OneLineMaps
<1>4. Spec => []TypeInv
  BY TypeInvHolds
<1> QED
  BY <1>1, <1>2, <1>3, <1>4, InitMaps, PTL DEF Spec
============================================================================
