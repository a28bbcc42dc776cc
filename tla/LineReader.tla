---------------------------- MODULE LineReader ------------------------------
(***************************************************************************)
(* How the server takes request lines off its input: _read_line and        *)
(* _skip_line of grannos/server.py over asyncio's StreamReader, whose      *)
(* buffer fills while a read waits.  A stream is a sequence of bytes, of   *)
(* which only the newline NL is told apart.                                *)
(***************************************************************************)
EXTENDS Naturals, SequencesExt

CONSTANTS Streams,  \* the inputs
          NL,       \* the newline
          Limit,    \* the reader's limit
          IdHead    \* _ID_HEAD_BYTES, the bytes kept of an oversized line

VARIABLES input,    \* all of the input
          fed,      \* how many of its bytes have come
          taken,    \* how many the reader has given out
          eof,      \* the end of the input has been seen
          pc,       \* line, head, skip, drop or over
          consumed, \* what the last LimitOverrunError had consumed
          got       \* what _read_line has returned or raised, in order

vars == <<input, fed, taken, eof, pc, consumed, got>>

Buffer == SubSeq(input, taken + 1, fed)
NewlineAt == {i \in DOMAIN Buffer : Buffer[i] = NL}
Separator == CHOOSE i \in NewlineAt : \A j \in NewlineAt : i <= j

\* readuntil: it finds the newline within the limit, overruns it, ends with
\* what is left of the input, or waits.
Found == NewlineAt # {} /\ Separator - 1 <= Limit
Overrun == IF NewlineAt # {} THEN Separator - 1 > Limit ELSE Len(Buffer) > Limit
\* The mutant of OverrunAt counts the newline that was found.
OverrunAtNewline == IF NewlineAt # {} THEN Separator ELSE Len(Buffer)
OverrunAt == IF NewlineAt # {} THEN Separator - 1 ELSE Len(Buffer)
Incomplete == NewlineAt = {} /\ ~Overrun /\ eof

Init ==
  /\ input \in Streams
  /\ fed = 0 /\ taken = 0 /\ eof = FALSE
  /\ pc = "line" /\ consumed = 0 /\ got = <<>>

Feed ==
  /\ fed < Len(input)
  /\ \E n \in (fed + 1)..Len(input) : fed' = n
  /\ UNCHANGED <<input, taken, eof, pc, consumed, got>>
FeedEof ==
  /\ fed = Len(input) /\ ~eof
  /\ eof' = TRUE
  /\ UNCHANGED <<input, fed, taken, pc, consumed, got>>

\* _read_line: a line, the rest of the input, or an oversized line.
ReadLine ==
  /\ pc = "line" /\ Found
  /\ taken' = taken + Separator
  /\ got' = Append(got, Separator - 1)
  /\ UNCHANGED <<input, fed, eof, pc, consumed>>
ReadRest ==
  /\ pc = "line" /\ Incomplete
  /\ taken' = fed
  /\ got' = IF Buffer = <<>> THEN got ELSE Append(got, Len(Buffer))
  /\ pc' = "over"
  /\ UNCHANGED <<input, fed, eof, consumed>>
ReadOversized ==
  /\ pc = "line" /\ Overrun
  /\ consumed' = OverrunAt
  /\ pc' = "head"
  /\ UNCHANGED <<input, fed, taken, eof, got>>

\* The head of an oversized line, for its id.
ReadHead ==
  /\ pc = "head"
  /\ taken' = taken + (IF consumed < IdHead THEN consumed ELSE IdHead)
  /\ pc' = "skip"
  /\ UNCHANGED <<input, fed, eof, consumed, got>>

\* _skip_line: up to the newline, past what overran, or to the end.
SkipToNewline ==
  /\ pc = "skip" /\ Found
  /\ taken' = taken + Separator
  /\ got' = Append(got, Limit + 1)
  /\ pc' = "line"
  /\ UNCHANGED <<input, fed, eof, consumed>>
SkipOverrun ==
  /\ pc = "skip" /\ Overrun
  /\ taken' = taken + OverrunAt
  /\ UNCHANGED <<input, fed, eof, pc, consumed, got>>
SkipToEnd ==
  /\ pc = "skip" /\ Incomplete
  /\ taken' = fed
  /\ got' = Append(got, Limit + 1)
  /\ pc' = "line"
  /\ UNCHANGED <<input, fed, eof, consumed>>

Next ==
  \/ Feed \/ FeedEof \/ ReadLine \/ ReadRest \/ ReadOversized
  \/ ReadHead \/ SkipToNewline \/ SkipOverrun \/ SkipToEnd
Spec == Init /\ [][Next]_vars
-----------------------------------------------------------------------------
\* The lengths of the lines of the input, those over the limit as Limit + 1.
Lines ==
  LET ends == {i \in DOMAIN input : input[i] = NL}
                \cup (IF input = <<>> \/ Last(input) = NL THEN {} ELSE {Len(input) + 1})
      End(k)   == CHOOSE e \in ends : Cardinality({d \in ends : d <= e}) = k
      Length(k) == End(k) - (IF k = 1 THEN 0 ELSE End(k - 1)) - 1
  IN  [k \in 1..Cardinality(ends) |->
         IF Length(k) > Limit THEN Limit + 1 ELSE Length(k)]

\* However the input is cut into reads, and wherever a line or the input ends
\* next to the limit, each line is answered once: with itself or one error.
LinesAnsweredOnce ==
  /\ IsPrefix(got, Lines)
  /\ pc = "over" => got = Lines
=============================================================================
