------------------------------- MODULE Place --------------------------------
(***************************************************************************)
(* The rectangles a diagram's tables are given: place of                   *)
(* grannos/diagram/place.py, and compact of grannos/diagram/route.py.      *)
(* The rows of a column are l.row_order[c], the height and the width of    *)
(* each node's box h[id] and w[id].                                        *)
(***************************************************************************)
EXTENDS Layout

CONSTANTS StubLen,      \* STUB_LEN
          AlignSweeps,  \* _ALIGN_SWEEPS
          Lanes         \* bound: how many lines between the boxes the routes take

ASSUME PlaceAssumption == StubLen \in Nat /\ AlignSweeps \in Nat /\ Lanes \in Nat

MaxOf(a, b) == IF a >= b THEN a ELSE b
MinOf(a, b) == IF a <= b THEN a ELSE b

\* round: to the nearest, and between two to the even one.
RoundHalfEven(a, b) ==
  LET q == a \div b  r == a % b
  IN  IF 2 * r < b \/ (2 * r = b /\ q % 2 = 0) THEN q ELSE q + 1

\* The left edge of each column, with a channel between two of them for as many
\* lanes as edges cross it.
Columns(l) == Ascending(DOMAIN l.row_order)
Crossing(l, edges, c) ==
  Cardinality({i \in DOMAIN edges : LET a == l.column[edges[i].source]
                                        b == l.column[edges[i].target]
                                    IN  c \in a..(b - 1) \/ c \in b..(a - 1)})
Channel(l, edges, c, padding) ==
  MaxOf(2 * padding + Crossing(l, edges, c), 2 * StubLen + 1)
ColumnWidth(l, w, c) == Max({w[id] : id \in Range(l.row_order[c])})
ColumnX(l, w, edges, padding) ==
  LET columns == Columns(l)
      room == [j \in DOMAIN columns |->
                 ColumnWidth(l, w, columns[j]) + Channel(l, edges, columns[j], padding)]
  IN  [c \in DOMAIN l.row_order |-> Sums(room)[PositionIn(columns, c) - 1]]

\* The lines that boxes of a column take, each with the gap below it.
Lines(ids, h, gap) == Sums([i \in DOMAIN ids |-> h[ids[i]] + gap])
InitialRows(l, h, gap) ==
  [id \in DOMAIN l.column |->
     LET ids == l.row_order[l.column[id]]
     IN  Lines(ids, h, gap)[PositionIn(ids, id) - 1]]
-----------------------------------------------------------------------------
\* The nodes a node's edges join it to in the next column on one side.
Partners(l, edges, id, direction) ==
  {m \in Neighbors(edges, id) : l.column[m] - l.column[id] = direction}
Priority(l, edges, id) ==
  Cardinality(Partners(l, edges, id, -1)) + Cardinality(Partners(l, edges, id, 1))

\* Where _nudge moves the i-th box of a column for it to be as near to a row as
\* its column-mates allow: those of lower priority are pushed along, up to the
\* first of an equal one or a higher, which stays.
NudgeLimit(ids, i, desired, y, h, p, gap) ==
  LET barriers == {k \in DOMAIN ids : p[ids[k]] >= p[ids[i]]}
      below == {k \in barriers : k > i}
      above == {k \in barriers : k < i}
      Room(from, to) == Lines(ids, h, gap)[to - 1] - Lines(ids, h, gap)[from - 1]
  IN  IF desired > y[ids[i]]
      THEN IF below = {} THEN desired
           ELSE MinOf(desired, y[ids[Min(below)]] - Room(i, Min(below)))
      ELSE IF above = {} THEN desired
           ELSE MaxOf(desired, y[ids[Max(above)]] + Room(Max(above), i))

\* The box moved to its limit, and the boxes pushed: each keeps its gap from the
\* one before it, as one that has it already does.  The mutant of PushUp pushes
\* none.
PushDown(ids, i, limit, y, h, gap) ==
  LET row[d \in 0..(Len(ids) - i)] ==
        IF d = 0 THEN limit
        ELSE MaxOf(y[ids[i + d]], row[d - 1] + h[ids[i + d - 1]] + gap)
  IN  [id \in DOMAIN y |-> IF \E k \in i..Len(ids) : ids[k] = id
                           THEN row[PositionIn(ids, id) - i] ELSE y[id]]
PushUpNone(ids, i, limit, y, h, gap) == [y EXCEPT ![ids[i]] = limit]
PushUp(ids, i, limit, y, h, gap) ==
  LET row[d \in 0..(i - 1)] ==
        IF d = 0 THEN limit ELSE MinOf(y[ids[i - d]], row[d - 1] - h[ids[i - d]] - gap)
  IN  [id \in DOMAIN y |-> IF \E k \in 1..i : ids[k] = id
                           THEN row[i - PositionIn(ids, id)] ELSE y[id]]

Nudge(ids, i, desired, y, h, p, gap) ==
  LET row   == y[ids[i]]
      limit == NudgeLimit(ids, i, desired, y, h, p, gap)
  IN  IF desired > row /\ limit > row THEN PushDown(ids, i, limit, y, h, gap)
      ELSE IF desired < row /\ limit < row THEN PushUp(ids, i, limit, y, h, gap)
      ELSE y

\* A column is pulled toward its partners on one side, its best connected boxes
\* first.
Toward(l, edges, y, h, gap, p, id, direction) ==
  LET ids  == l.row_order[l.column[id]]
      refs == Partners(l, edges, id, direction)
      sum  == SumOver([m \in refs |-> y[m] + h[m] \div 2], refs)
  IN  IF refs = {} THEN y
      ELSE Nudge(ids, PositionIn(ids, id),
                 RoundHalfEven(sum, Cardinality(refs)) - h[id] \div 2, y, h, p, gap)
Pull(l, edges, y, h, gap, c, direction) ==
  LET ids == l.row_order[c]
      p   == [id \in Range(ids) |-> Priority(l, edges, id)]
      First(a, b) == \/ p[a] > p[b]
                     \/ p[a] = p[b] /\ PositionIn(ids, a) < PositionIn(ids, b)
      order == Sorted(Range(ids), {q \in Range(ids) \X Range(ids) : First(q[1], q[2])})
      pulled[k \in 0..Len(ids)] ==
        IF k = 0 THEN y ELSE Toward(l, edges, pulled[k - 1], h, gap, p, order[k], direction)
  IN  pulled[Len(ids)]

\* The columns of a sequence pulled one after the other, and the sweeps of them.
PullAll(l, edges, y, h, gap, columns, direction) ==
  LET pulled[k \in 0..Len(columns)] ==
        IF k = 0 THEN y ELSE Pull(l, edges, pulled[k - 1], h, gap, columns[k], direction)
  IN  pulled[Len(columns)]
AlignRows(l, edges, y, h, gap) ==
  LET swept[k \in 0..AlignSweeps] ==
        IF k = 0 THEN y
        ELSE PullAll(l, edges, PullAll(l, edges, swept[k - 1], h, gap, Columns(l), -1),
                     h, gap, Reversed(Columns(l)), 1)
  IN  swept[AlignSweeps]
-----------------------------------------------------------------------------
Margin(edges) == MaxOf(Len(edges), StubLen + 1)
PlaceBoxes(l, edges, h, w, spacing) ==
  LET y     == AlignRows(l, edges, InitialRows(l, h, spacing.box_gap), h, spacing.box_gap)
      shift == MaxOf(-Min(Range(y)), 0)
      x     == ColumnX(l, w, edges, spacing.channel_padding)
  IN  [id \in DOMAIN y |->
         [top |-> y[id] + shift + Margin(edges), left |-> x[l.column[id]] + Margin(edges),
          height |-> h[id], width |-> w[id]]]

\* The rows and the columns the boxes take.
RowsOf(rect) == rect.top..(rect.top + rect.height - 1)
ColsOf(rect) == rect.left..(rect.left + rect.width - 1)

\* _compact_axis: of the lines between two that are used at most one is kept.
CompactAxis(used) ==
  [v \in used |->
     LET before == {u \in used : u < v}
     IN  Cardinality(before) + Cardinality({u \in before : u + 1 \notin used})]

\* The boxes once the unused lines are gone, where the edges used some too.
Compact(rects, rows, cols) ==
  LET rowMap == CompactAxis(rows \cup UNION {RowsOf(r) : r \in Range(rects)})
      colMap == CompactAxis(cols \cup UNION {ColsOf(r) : r \in Range(rects)})
  IN  [id \in DOMAIN rects |->
         [rects[id] EXCEPT !.top = rowMap[@], !.left = colMap[@]]]
=============================================================================
