--------------------------- MODULE RequestServer ---------------------------
(***************************************************************************)
(* The stdio server of grannos/server.py: the read loop that turns each    *)
(* line into an asyncio task, the table of in-flight tasks, the cancel     *)
(* method, and what each task writes to stdout.                            *)
(*                                                                         *)
(* Line number n is handled by task n.  The event loop is modelled by the  *)
(* FIFO queue `ready' of callbacks: a task starts, and is woken, only when *)
(* its entry reaches the head.  Bytes reach the StreamReader in a callback *)
(* too, and wake the read loop, itself a task: once resumed it works       *)
(* through all the lines received before anything else runs.               *)
(* `_send' never suspends (nothing awaits under its lock, so the lock is   *)
(* always free), hence a reply is written in the step that produces it.    *)
(*                                                                         *)
(* What a method does between its first await and its end is the           *)
(* dispatcher's business and is left to the environment here.              *)
(***************************************************************************)
EXTENDS Naturals, SequencesExt

CONSTANTS
  Ids,          \* the request ids the client uses
  NoId,         \* an id no request has, or none: what cancels and rejected lines have
  MaxLines,     \* bound: how many lines the client sends
  MaxBurst,     \* bound: how many lines one read of the pipe brings
  Progress,     \* whether a dispatch reports progress on its way
  Outcomes,     \* how a dispatch may end, of {"result", "error", "unencodable"}
  ReuseIds,     \* whether the client ever sends two requests with one id
  MaxOutstanding \* how many unanswered requests the client allows itself

ASSUME RequestServerAssumption ==
  /\ NoId \notin Ids
  /\ MaxLines \in Nat
  /\ MaxBurst \in Nat
  /\ Progress \in BOOLEAN
  /\ Outcomes \subseteq {"result", "error", "unencodable"}
  /\ ReuseIds \in BOOLEAN
  /\ MaxOutstanding \in Nat

Tasks == 1..MaxLines
NoTask == 0

(***************************************************************************)
(* What `_read_line' and `decode' make of a line.  "rejected" covers both  *)
(* an oversized line and a DecodeError: each is answered with an error,    *)
(* whose id (the one that could be recovered) is left out.  "undecodable"  *)
(* bytes raise a UnicodeDecodeError, which nothing in the loop catches.    *)
(***************************************************************************)
Line ==
  [kind : {"request"},     id : Ids,            target : {NoId}]          \cup
  [kind : {"cancel"},      id : {NoId},         target : Ids \cup {NoId}] \cup
  [kind : {"rejected"},    id : {NoId},         target : {NoId}]         \cup
  [kind : {"undecodable"}, id : {NoId},         target : {NoId}]

VARIABLES
  input,    \* the lines received so far; the reader's buffer is their tail
  eof,      \* whether the end of the input was received
  decoded,  \* how many lines the read loop has consumed
  reader,   \* the read loop
  last,     \* id of the last request decoded: run()'s local variable `req'
  tasks,    \* Server._tasks
  phase,    \* where each task is
  doomed,   \* tasks asked to cancel before they could be woken for it
  wakeup,   \* what a woken task finds
  ready,    \* the event loop's queue of callbacks
  out,      \* the replies written to stdout for each line, progress left out
  shutdown  \* asyncio.run after run() has returned or raised

vars == <<input, eof, decoded, reader, last, tasks, phase, doomed, wakeup, ready, out, shutdown>>

Phases == {"absent", "created", "suspended", "woken", "unwinding", "finished"}
Wakeups == {"none", "progress", "cancel", "cancelled"} \cup Outcomes
ReplyKinds == {"result", "error", "cancelled", "ok"}
Callbacks ==
  [do : {"start", "wake", "done"}, task : Tasks] \cup
  [do : {"data", "read", "stop"}, task : {NoTask}]

Callback(do, n) == [do |-> do, task |-> n]

TypeOK ==
  /\ input \in Seq(Line) /\ Len(input) <= MaxLines
  /\ eof \in BOOLEAN
  /\ decoded \in 0..Len(input)
  /\ reader \in {"running", "waiting", "woken", "stopped"}
  /\ last \in Ids \cup {NoId}
  /\ tasks \in [Ids -> Tasks \cup {NoTask}]
  /\ phase \in [Tasks -> Phases]
  /\ doomed \subseteq Tasks
  /\ wakeup \in [Tasks -> Wakeups]
  /\ ready \in Seq(Callbacks)
  /\ out \in [Tasks -> Seq(ReplyKinds)]
  /\ shutdown \in {"no", "draining", "cancelling", "exited"}

Init ==
  /\ input = <<>>
  /\ eof = FALSE
  /\ decoded = 0
  /\ reader = "running"
  /\ last = NoId
  /\ tasks = [i \in Ids |-> NoTask]
  /\ phase = [n \in Tasks |-> "absent"]
  /\ doomed = {}
  /\ wakeup = [n \in Tasks |-> "none"]
  /\ ready = <<>>
  /\ out = [n \in Tasks |-> <<>>]
  /\ shutdown = "no"

IsRequest(n) == input[n].kind = "request"
Requests == {n \in 1..decoded : IsRequest(n)}
Answered(n) == out[n] # <<>>
Finished(n) == phase[n] = "finished"

----------------------------------------------------------------------------
(* The event loop runs the head of `ready' unless the read loop is running *)

Runs(do, n) ==
  /\ reader # "running"
  /\ ready # <<>>
  /\ Head(ready) = Callback(do, n)

\* The selector reports stdin readable; the pipe is read when its turn comes.
StdinReadable ==
  /\ reader # "stopped" /\ ~eof
  /\ ~Contains(ready, Callback("data", NoTask))
  /\ ready' = Append(ready, Callback("data", NoTask))
  /\ UNCHANGED <<input, eof, decoded, reader, last, tasks, phase, doomed,
                 wakeup, out, shutdown>>

\* The client's discipline: its ids, and its window of unanswered requests.
ClientSends(lines) ==
  LET requests == {n \in DOMAIN lines : lines[n].kind = "request"} IN
  /\ Len(lines) <= MaxLines
  /\ ReuseIds \/ \A m, n \in requests : lines[m].id = lines[n].id => m = n
  /\ Cardinality({n \in requests : ~Answered(n)}) <= MaxOutstanding

\* A read loop waiting for a line is woken by whatever arrives.
WakeReader ==
  /\ reader' = IF reader = "waiting" THEN "woken" ELSE reader
  /\ ready' = IF reader = "waiting"
              THEN Append(Tail(ready), Callback("read", NoTask))
              ELSE Tail(ready)

ReceiveLines ==
  /\ Runs("data", NoTask)
  /\ \E k \in 1..MaxBurst : \E burst \in [1..k -> Line] :
       /\ ClientSends(input \o burst)
       /\ input' = input \o burst
  /\ WakeReader
  /\ UNCHANGED <<eof, decoded, last, tasks, phase, doomed, wakeup, out, shutdown>>

ReceiveEof ==
  /\ Runs("data", NoTask)
  /\ eof' = TRUE
  /\ WakeReader
  /\ UNCHANGED <<input, decoded, last, tasks, phase, doomed, wakeup, out, shutdown>>

ResumeReader ==
  /\ Runs("read", NoTask)
  /\ reader' = "running"
  /\ ready' = Tail(ready)
  /\ UNCHANGED <<input, eof, decoded, last, tasks, phase, doomed, wakeup, out,
                 shutdown>>

----------------------------------------------------------------------------
(* The read loop *)

NextLine == decoded + 1

\* The next line of the buffer is of this kind, and its task is created.
Reads(kind) ==
  /\ reader = "running"
  /\ decoded < Len(input) /\ input[NextLine].kind = kind
  /\ decoded' = NextLine
  /\ UNCHANGED <<input, eof>>

CreateTask ==
  /\ phase' = [phase EXCEPT ![NextLine] = "created"]
  /\ ready' = Append(ready, Callback("start", NextLine))

\* Mutant: a request is registered as the task after its own.
ReadRequestOffByOne ==
  /\ Reads("request") /\ CreateTask
  /\ last' = input[NextLine].id
  /\ tasks' = [tasks EXCEPT ![last'] = NextLine + 1]
  /\ UNCHANGED <<reader, doomed, wakeup, out, shutdown>>

\* Mutant: a request is registered under the id decoded before its own.
ReadRequestUnderLast ==
  /\ Reads("request") /\ CreateTask
  /\ last' = input[NextLine].id
  /\ tasks' = [tasks EXCEPT ![IF last = NoId THEN last' ELSE last] = NextLine]
  /\ UNCHANGED <<reader, doomed, wakeup, out, shutdown>>

ReadRequest ==
  /\ Reads("request") /\ CreateTask
  /\ last' = input[NextLine].id
  /\ tasks' = [tasks EXCEPT ![last'] = NextLine]
  /\ UNCHANGED <<reader, doomed, wakeup, out, shutdown>>

ReadCancel ==
  /\ Reads("cancel") /\ CreateTask
  /\ last' = input[NextLine].id
  /\ UNCHANGED <<reader, tasks, doomed, wakeup, out, shutdown>>

ReadRejected ==
  /\ Reads("rejected") /\ CreateTask
  /\ UNCHANGED <<reader, last, tasks, doomed, wakeup, out, shutdown>>

\* Mutant: the end of run() does not stop the event loop.
StopNothing ==
  /\ reader' = "stopped"
  /\ UNCHANGED ready

\* run() ends, on end of input or on an exception it does not catch, and
\* asyncio.run stops the event loop from a callback of its own.
StopReading ==
  /\ reader' = "stopped"
  /\ ready' = Append(ready, Callback("stop", NoTask))

ReadUndecodable ==
  /\ Reads("undecodable")
  /\ StopReading
  /\ UNCHANGED <<last, tasks, phase, doomed, wakeup, out, shutdown>>

BufferEmpty ==
  /\ reader = "running" /\ decoded = Len(input)
  /\ IF eof THEN StopReading ELSE reader' = "waiting" /\ UNCHANGED ready
  /\ UNCHANGED <<input, eof, decoded, last, tasks, phase, doomed, wakeup, out,
                 shutdown>>

----------------------------------------------------------------------------
(* Tasks *)

\* A task that ends schedules its done callback; only requests have one.
Finish(n) ==
  /\ phase' = [phase EXCEPT ![n] = "finished"]
  /\ doomed' = doomed \ {n}
  /\ ready' = IF IsRequest(n) THEN Append(Tail(ready), Callback("done", n))
              ELSE Tail(ready)

Write(n, kind) == [out EXCEPT ![n] = Append(@, kind)]

\* `_handle' has its response and sends it.  encode() raises TypeError for a
\* value json_default does not know: the task then ends and nothing is sent.
Respond(n, kind) ==
  /\ Finish(n)
  /\ out' = IF kind = "unencodable" THEN out
            ELSE Write(n, kind)

StartRejected(n) ==
  /\ Runs("start", n) /\ input[n].kind = "rejected"
  /\ n \notin doomed
  /\ Respond(n, "error")
  /\ UNCHANGED <<input, eof, decoded, reader, last, tasks, wakeup, shutdown>>

\* The first step of a task already cancelled throws CancelledError at the
\* top of the coroutine, before `_handle' has entered its try block.
StartDoomed(n) ==
  /\ Runs("start", n) /\ n \in doomed
  /\ Finish(n)
  /\ UNCHANGED <<input, eof, decoded, reader, last, tasks, wakeup, out, shutdown>>

\* A dispatch that never suspends (capabilities, a cached result, a parameter
\* error) is answered at once.
StartRequest(n) ==
  /\ Runs("start", n) /\ IsRequest(n) /\ n \notin doomed
  /\ \/ /\ phase' = [phase EXCEPT ![n] = "suspended"]
        /\ ready' = Tail(ready)
        /\ UNCHANGED <<doomed, wakeup, out>>
     \/ \E o \in Outcomes :
          /\ Respond(n, o)
          /\ wakeup' = [wakeup EXCEPT ![n] = o]
  /\ UNCHANGED <<input, eof, decoded, reader, last, tasks, shutdown>>

\* Task.cancel() on each task of S, by a callback that leaves `queue' behind
\* and ends the tasks of `ended'.  It cancels what a suspended task awaits,
\* which schedules its wakeup; a task yet to start, or whose wakeup is already
\* scheduled, is marked to be cancelled when it next runs.  One that is
\* unwinding ignores it (_wait_quietly), and so does a finished one.
CancelTasks(S, queue, ended) ==
  LET asleep == {t \in S : phase[t] = "suspended"} IN
  /\ phase' = [t \in Tasks |-> IF t \in asleep THEN "woken"
                               ELSE IF t \in ended THEN "finished" ELSE phase[t]]
  /\ wakeup' = [t \in Tasks |-> IF t \in asleep THEN "cancel" ELSE wakeup[t]]
  /\ doomed' = doomed \cup {t \in S : phase[t] \in {"created", "woken"}}
  /\ \E order \in SetToSeqs(asleep) :
       ready' = queue \o [k \in DOMAIN order |-> Callback("wake", order[k])]

\* The tasks the table knows by this id: one or none.
Registered(id) == {tasks[id]} \ {NoTask}

\* `_handle_cancel' never suspends: it cancels and acknowledges in one step.
StartCancel(n) ==
  /\ Runs("start", n) /\ input[n].kind = "cancel" /\ n \notin doomed
  /\ IF input[n].target = NoId
     THEN Respond(n, "error") /\ UNCHANGED wakeup
     ELSE /\ CancelTasks(Registered(input[n].target), Tail(ready), {n})
          /\ out' = Write(n, "ok")
  /\ UNCHANGED <<input, eof, decoded, reader, last, tasks, shutdown>>

\* A woken request: what it finds, or CancelledError if it was doomed meanwhile.
Found(n) == IF n \in doomed /\ wakeup[n] # "cancelled" THEN "cancel" ELSE wakeup[n]

WakeProgress(n) ==
  /\ Runs("wake", n) /\ Found(n) = "progress"
  /\ phase' = [phase EXCEPT ![n] = "suspended"]
  /\ ready' = Tail(ready)
  /\ wakeup' = [wakeup EXCEPT ![n] = "none"]
  /\ UNCHANGED <<input, eof, decoded, reader, last, tasks, doomed, out, shutdown>>

\* Mutant: a CancelledError ends the task before it has answered.
WakeCancelledSilently(n) ==
  /\ Runs("wake", n) /\ Found(n) = "cancel"
  /\ Finish(n)
  /\ wakeup' = [wakeup EXCEPT ![n] = "cancel"]
  /\ UNCHANGED <<input, eof, decoded, reader, last, tasks, out, shutdown>>

\* CancelledError surfaces in the dispatch, which either lets it out at once
\* or first waits for a worker thread to let go of the connection.
WakeCancelled(n) ==
  /\ Runs("wake", n) /\ Found(n) = "cancel"
  /\ \/ Respond(n, "cancelled")
     \/ /\ phase' = [phase EXCEPT ![n] = "unwinding"]
        /\ doomed' = doomed \ {n}
        /\ ready' = Tail(ready)
        /\ UNCHANGED out
  /\ wakeup' = [wakeup EXCEPT ![n] = "cancel"]
  /\ UNCHANGED <<input, eof, decoded, reader, last, tasks, shutdown>>

WakeDone(n) ==
  /\ Runs("wake", n) /\ Found(n) \in Outcomes \cup {"cancelled"}
  /\ Respond(n, Found(n))
  /\ UNCHANGED <<input, eof, decoded, reader, last, tasks, wakeup, shutdown>>

\* The done callback reads run()'s variable `req' when it runs, not when it
\* was created: it removes whatever id was decoded last.
RequestDone(n) ==
  /\ Runs("done", n)
  /\ tasks' = IF last = NoId THEN tasks ELSE [tasks EXCEPT ![last] = NoTask]
  /\ ready' = Tail(ready)
  /\ UNCHANGED <<input, eof, decoded, reader, last, phase, doomed, wakeup, out, shutdown>>

----------------------------------------------------------------------------
(* What the dispatcher does to a suspended request *)

Wake(n, w) ==
  /\ phase' = [phase EXCEPT ![n] = "woken"]
  /\ wakeup' = [wakeup EXCEPT ![n] = w]
  /\ ready' = Append(ready, Callback("wake", n))
  /\ UNCHANGED <<input, eof, decoded, reader, last, tasks, doomed, out, shutdown>>

DispatchProgress(n) ==
  /\ phase[n] = "suspended"
  /\ Progress
  /\ Wake(n, "progress")

DispatchEnds(n, o) == phase[n] = "suspended" /\ Wake(n, o)

DispatchUnwound(n) == phase[n] = "unwinding" /\ Wake(n, "cancelled")

----------------------------------------------------------------------------
(* asyncio.run, once run() has returned or raised *)

StopLoop ==
  /\ Runs("stop", NoTask)
  /\ shutdown' = "draining"
  /\ ready' = Tail(ready)
  /\ UNCHANGED <<input, eof, decoded, reader, last, tasks, phase, doomed, wakeup, out>>

\* The callbacks already queued behind the stop run first, or do not.
CancelEverything ==
  /\ shutdown = "draining"
  /\ shutdown' = "cancelling"
  /\ CancelTasks({n \in Tasks : ~Finished(n)}, ready, {})
  /\ UNCHANGED <<input, eof, decoded, reader, last, tasks, out>>

Exit ==
  /\ shutdown = "cancelling"
  /\ \A n \in Tasks : phase[n] \in {"absent", "finished"}
  /\ shutdown' = "exited"
  /\ UNCHANGED <<input, eof, decoded, reader, last, tasks, phase, doomed, wakeup, ready, out>>

----------------------------------------------------------------------------

ReaderRuns ==
  \/ ReadRequest \/ ReadCancel \/ ReadRejected \/ ReadUndecodable \/ BufferEmpty

LoopRuns == ReceiveLines \/ ReceiveEof \/ ResumeReader \/ StopLoop

TaskRuns(n) ==
  \/ StartRejected(n) \/ StartDoomed(n) \/ StartRequest(n) \/ StartCancel(n)
  \/ WakeProgress(n) \/ WakeCancelled(n) \/ WakeDone(n) \/ RequestDone(n)

DispatcherActs(n) ==
  \/ DispatchProgress(n) \/ DispatchUnwound(n)
  \/ \E o \in Outcomes : DispatchEnds(n, o)

Exited == shutdown = "exited" /\ UNCHANGED vars

Next ==
  \/ /\ shutdown # "exited"
     /\ \/ StdinReadable \/ LoopRuns \/ ReaderRuns
        \/ CancelEverything \/ Exit
        \/ \E n \in Tasks : TaskRuns(n) \/ DispatcherActs(n)
  \/ Exited

(***************************************************************************)
(* The event loop keeps running callbacks; the read loop, which blocks the *)
(* event loop while it runs, drains its buffer; and every dispatch ends,   *)
(* however often it reports progress first -- an assumption on databases   *)
(* and drivers, which put no limit of their own on a statement.            *)
(***************************************************************************)
Fairness ==
  /\ WF_vars(ReaderRuns)
  /\ WF_vars(LoopRuns \/ \E n \in Tasks : TaskRuns(n))
  /\ SF_vars(\E n \in Tasks, o \in Outcomes : DispatchEnds(n, o))
  /\ WF_vars(\E n \in Tasks : DispatchUnwound(n))
  /\ WF_vars(CancelEverything) /\ WF_vars(Exit)

Spec == Init /\ [][Next]_vars /\ Fairness

----------------------------------------------------------------------------
(* Properties *)

\* The client asked for line n's id to be cancelled before it sent line n.
CancelledInAdvance(n) ==
  \E m \in 1..(n - 1) : input[m].kind = "cancel" /\ input[m].target = input[n].id

\* A request is told "cancelled" only if a cancel naming its id was read, or
\* the server is closing down: a cancel never hits a request it does not name,
\* whatever the state of the task table (server.py:152-153, 168-170).
CancelledOnlyOnDemand ==
  \A n \in Requests :
    (\E k \in DOMAIN out[n] : out[n][k] = "cancelled") =>
      \/ \E m \in 1..Len(input) :
           input[m].kind = "cancel" /\ input[m].target = input[n].id
      \/ shutdown \in {"cancelling", "exited"}

\* The table of server.py:76-77, "Maps request id to its in-flight task": a
\* request under way is the one its id leads to, so that a cancel reaches it.
InFlightListed ==
  \A n \in Requests : ~Finished(n) => tasks[input[n].id] = n

\* decode() turns whatever is wrong with a line into a DecodeError, so the
\* read loop only ends at the end of the input (protocol.py:924-925).
OnlyEndOfInputStops ==
  reader = "stopped" => eof

\* Once the input ends, or the read loop dies, the process ends too: every
\* task is cancelled and each of them unwinds (server.py:113-115).
StoppedServerExits == reader = "stopped" ~> shutdown = "exited"

\* What the client is promised of each line, RequestContract's view of it.
Contract == INSTANCE RequestContract WITH
  Lines   <- Tasks,
  status  <- [n \in Tasks |->
                IF phase[n] = "absent" THEN "unread"
                ELSE IF Len(out[n]) > 1 THEN "answered twice"
                ELSE IF Answered(n) THEN "answered"
                ELSE IF Finished(n) THEN "dropped" ELSE "open"],
  excused <- {n \in Requests : \/ CancelledInAdvance(n)
                              \/ (Finished(n) /\ wakeup[n] = "unencodable")}

ImplementsContract == Contract!Spec

============================================================================
