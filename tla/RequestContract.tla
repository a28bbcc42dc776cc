-------------------------- MODULE RequestContract --------------------------
(***************************************************************************)
(* What the server promises of every line a client sends: once read it is  *)
(* answered exactly once, unless it is excused -- the client had withdrawn *)
(* the request before sending it, or its result has no JSON form.          *)
(***************************************************************************)
CONSTANT Lines

VARIABLES
  status,   \* how far each line has come
  excused   \* the lines that may go unanswered

vars == <<status, excused>>

Init ==
  /\ status = [n \in Lines |-> "unread"]
  /\ excused = {}

\* Lines are read in any number of steps; a withdrawn one is excused at once.
Read(n) ==
  /\ status[n] = "unread"
  /\ status' = [status EXCEPT ![n] = "open"]
  /\ excused' \in {excused, excused \cup {n}}

Answer(n) ==
  /\ status[n] = "open"
  /\ status' = [status EXCEPT ![n] = "answered"]
  /\ UNCHANGED excused

\* The result may turn out, at the very end, to have no JSON form.
Drop(n) ==
  /\ status[n] = "open"
  /\ status' = [status EXCEPT ![n] = "dropped"]
  /\ excused' \in {excused, excused \cup {n}}
  /\ n \in excused'

Next == \E n \in Lines : Read(n) \/ Answer(n) \/ Drop(n)

Spec ==
  /\ Init
  /\ [][Next]_vars
  /\ WF_vars(\E n \in Lines : Answer(n) \/ Drop(n))

============================================================================
