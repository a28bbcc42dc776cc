------------------------------- MODULE Layout -------------------------------
(***************************************************************************)
(* The columns and rows a diagram's tables are given                       *)
(* (grannos/diagram/layout.py).  Nodes are 1..n and an edge is a record    *)
(* with a source and a target; no two edges join the same nodes, and every *)
(* node can be reached from every other.  Each loop of the code is a       *)
(* function from the number of its passes to what they leave.              *)
(***************************************************************************)
EXTENDS Integers, Sequences, FiniteSetsExt, Functions

CONSTANT KLMaxRounds  \* _KL_MAX_ROUNDS

ASSUME LayoutAssumption == KLMaxRounds \in Nat

\* A set in the order of a relation: the i-th is the one that i - 1 come before.
Sorted(S, before) ==
  [i \in 1..Cardinality(S) |->
     CHOOSE x \in S : Cardinality({y \in S : <<y, x>> \in before}) = i - 1]
Ascending(ids) == Sorted(ids, {p \in ids \X ids : p[1] < p[2]})
PositionIn(s, x) == CHOOSE i \in DOMAIN s : s[i] = x

\* The sums of the first numbers of a sequence, and of a function on some ids.
Sums(s) ==
  LET sum[k \in 0..Len(s)] == IF k = 0 THEN 0 ELSE sum[k - 1] + s[k]
  IN  sum
SumOver(f, ids) ==
  Sums([i \in 1..Cardinality(ids) |-> f[Ascending(ids)[i]]])[Cardinality(ids)]

Touches(e, id) == id \in {e.source, e.target}
OtherEnd(e, id) == IF e.source = id THEN e.target ELSE e.source
EdgesOf(edges, id) == {i \in DOMAIN edges : Touches(edges[i], id)}
Neighbors(edges, id) == {OtherEnd(edges[i], id) : i \in EdgesOf(edges, id)}

Degree(edges, id) == Cardinality(EdgesOf(edges, id))
SelectHub(n, edges) ==
  Min({h \in 1..n : \A i \in 1..n : Degree(edges, i) <= Degree(edges, h)})

\* The nodes at most k edges away from one, for each k.
Within(n, edges, from) ==
  LET near[k \in 0..n] ==
        IF k = 0 THEN {from}
        ELSE LET before == near[k - 1]
             IN  before \cup (1..n \cap UNION {Neighbors(edges, m) : m \in before})
  IN  near
BfsDistance(n, edges, hub) ==
  LET near == Within(n, edges, hub)
  IN  [id \in 1..n |-> IF id \in near[n] THEN Min({k \in 0..n : id \in near[k]}) ELSE 0]
-----------------------------------------------------------------------------
(* The sides, as the set of the nodes to the right of the hub *)

Others(n, hub) == (1..n) \ {hub}
RestEdges(edges, hub) == {e \in Range(edges) : ~Touches(e, hub)}

\* What is connected to a node: in every set that has the node and both ends of
\* each edge of which it has one.
Closed(c, rest) == \A e \in rest : e.source \in c <=> e.target \in c
Component(ids, rest, id) ==
  {m \in ids : \A c \in SUBSET ids : (id \in c /\ Closed(c, rest)) => m \in c}
ConnectedComponents(ids, rest) == {Component(ids, rest, id) : id \in ids}

\* The largest component first, each to the lighter side.
Assigned(side, c) ==
  IF Cardinality(side.right) <= Cardinality(side.left)
  THEN [side EXCEPT !.right = @ \cup c] ELSE [side EXCEPT !.left = @ \cup c]
LptAssign(components) ==
  LET Before(c, d) == \/ Cardinality(c) > Cardinality(d)
                      \/ Cardinality(c) = Cardinality(d) /\ Min(c) < Min(d)
      ordered == Sorted(components, {p \in components \X components : Before(p[1], p[2])})
      sides[k \in 0..Cardinality(components)] ==
        IF k = 0 THEN [right |-> {}, left |-> {}] ELSE Assigned(sides[k - 1], ordered[k])
  IN  sides[Cardinality(components)].right

\* Two sides grown from the neighbors of the hub, 1 the right one: a node and its
\* neighbors that are left, in the order of its edges, at a time, by the smaller
\* side; one that has nowhere to grow takes the lowest node that is left.
FoundFrom(edges, id, left) ==
  LET es == Ascending({i \in EdgesOf(edges, id) : OtherEnd(edges[i], id) \in left})
  IN  [k \in DOMAIN es |-> OtherEnd(edges[es[k]], id)]
Grow(ids, edges, g) ==
  LET left     == ids \ (g.taken[1] \cup g.taken[2])
      s        == IF Cardinality(g.taken[1]) <= Cardinality(g.taken[2]) THEN 1 ELSE 2
      frontier == g.frontier[s]
      growing  == {i \in DOMAIN frontier : FoundFrom(edges, frontier[i], left) # <<>>}
      new      == IF growing # {} THEN FoundFrom(edges, frontier[Min(growing)], left)
                  ELSE <<Min(left)>>
      rest     == IF growing # {} THEN SubSeq(frontier, Min(growing) + 1, Len(frontier))
                  ELSE <<>>
  IN  IF left = {} THEN g
      ELSE [taken |-> [g.taken EXCEPT ![s] = @ \cup Range(new)],
            frontier |-> [g.frontier EXCEPT ![s] = rest \o new]]
Alternate(seeds, parity) ==
  [i \in 1..((Len(seeds) + parity) \div 2) |-> seeds[2 * i - parity]]
GrowBalanced(ids, edges, seeds) ==
  LET seeded == <<Alternate(seeds, 1), Alternate(seeds, 0)>>
      grown[k \in 0..Cardinality(ids)] ==
        IF k = 0 THEN [taken |-> [s \in 1..2 |-> Range(seeded[s])], frontier |-> seeded]
        ELSE Grow(ids, edges, grown[k - 1])
  IN  grown[Cardinality(ids)].taken[1]

\* Kernighan and Lin's swaps: while there is one, of the pairs whose exchange
\* takes the most edges from between the sides the first.
Crossed(e, right) == (e.source \in right) # (e.target \in right)
Gain(rest, right, u, v) ==
  LET D(id) == Cardinality({e \in rest : Touches(e, id) /\ Crossed(e, right)})
               - Cardinality({e \in rest : Touches(e, id) /\ ~Crossed(e, right)})
  IN  D(u) + D(v) - (IF \E e \in rest : Touches(e, u) /\ Touches(e, v) THEN 2 ELSE 0)
Swapped(ids, rest, right) ==
  LET gains == {p \in right \X (ids \ right) : Gain(rest, right, p[1], p[2]) > 0}
      First(p, q) ==
        LET g == Gain(rest, right, p[1], p[2])  h == Gain(rest, right, q[1], q[2])
        IN  g > h \/ (g = h /\ (p[1] < q[1] \/ (p[1] = q[1] /\ p[2] <= q[2])))
      best  == CHOOSE p \in gains : \A q \in gains : First(p, q)
  IN  IF gains = {} THEN right ELSE (right \ {best[1]}) \cup {best[2]}
KlSwap(ids, rest, right) ==
  LET after[k \in 0..KLMaxRounds] ==
        IF k = 0 THEN right ELSE Swapped(ids, rest, after[k - 1])
  IN  after[KLMaxRounds]

Grown(n, edges, hub) ==
  GrowBalanced(Others(n, hub), edges, Ascending(Neighbors(edges, hub)))
PartitionSides(n, edges, hub) ==
  LET rest       == RestEdges(edges, hub)
      components == ConnectedComponents(Others(n, hub), rest)
      right      == IF Cardinality(components) > 1 THEN LptAssign(components)
                    ELSE KlSwap(Others(n, hub), rest, Grown(n, edges, hub))
  IN  [id \in Others(n, hub) |-> IF id \in right THEN 1 ELSE -1]
-----------------------------------------------------------------------------
\* One pass of _bump_same_column_edges moves the target of each edge within a
\* column, or its source where the target is the hub, further out.
Bumped(column, hub, e) ==
  LET id == IF e.target # hub THEN e.target ELSE e.source
  IN  [column EXCEPT ![id] = IF column[e.source] # column[e.target] THEN @
                             ELSE IF @ >= 0 THEN @ + 1 ELSE @ - 1]
BumpPass(column, hub, edges) ==
  LET after[k \in 0..Len(edges)] ==
        IF k = 0 THEN column ELSE Bumped(after[k - 1], hub, edges[k])
  IN  after[Len(edges)]
\* The mutant makes one.
BumpSameColumnEdgesOnce(n, column, hub, edges) == BumpPass(column, hub, edges)
\* They go on while an edge is within a column, which ends in MaxPasses or fewer.
MaxPasses(n) == 2 * n * n
BumpSameColumnEdges(n, column, hub, edges) ==
  LET passed[k \in 0..MaxPasses(n)] ==
        IF k = 0 THEN column
        ELSE LET before == passed[k - 1]
             IN  IF \E e \in Range(edges) : before[e.source] = before[e.target]
                 THEN BumpPass(before, hub, edges) ELSE before
  IN  passed[MaxPasses(n)]

SignedColumns(n, edges, hub, side) ==
  LET distance == BfsDistance(n, edges, hub)
      column   == BumpSameColumnEdges(
                    n, [id \in 1..n |-> IF id = hub THEN 0 ELSE side[id] * distance[id]],
                    hub, edges)
  IN  [id \in 1..n |-> column[id] - Min(Range(column))]
-----------------------------------------------------------------------------
\* The mean of the positions of a node's neighbors on one side of it, or its own
\* position, as a fraction.
Barycenter(rows, column, edges, id, direction) ==
  LET refs == {m \in Neighbors(edges, id) : (column[m] - column[id]) * direction > 0}
      At   == [m \in refs |-> PositionIn(rows[column[m]], m)]
  IN  IF refs = {} THEN [sum |-> PositionIn(rows[column[id]], id), of |-> 1]
      ELSE [sum |-> SumOver(At, refs), of |-> Cardinality(refs)]

SortColumn(rows, column, edges, c, direction) ==
  LET ids == Range(rows[c])
      key == [id \in ids |-> Barycenter(rows, column, edges, id, direction)]
      Before(i, j) ==
        \/ key[i].sum * key[j].of < key[j].sum * key[i].of
        \/ key[i].sum * key[j].of = key[j].sum * key[i].of /\ i < j
  IN  [rows EXCEPT ![c] = Sorted(ids, {p \in ids \X ids : Before(p[1], p[2])})]

\* The columns of a sequence sorted one after the other.
Swept(rows, column, edges, columns, direction) ==
  LET after[k \in 0..Len(columns)] ==
        IF k = 0 THEN rows
        ELSE SortColumn(after[k - 1], column, edges, columns[k], direction)
  IN  after[Len(columns)]

Reversed(s) == [i \in 1..Len(s) |-> s[Len(s) + 1 - i]]
OrderColumns(n, edges, column) ==
  LET columns == Ascending(Range(column))
      first   == [c \in Range(column) |-> Ascending({id \in 1..n : column[id] = c})]
      Round(rows) ==
        Swept(Swept(rows, column, edges, columns, -1), column, edges, Reversed(columns), 1)
  IN  Round(Round(first))

ComputeLayout(n, edges) ==
  LET hub    == SelectHub(n, edges)
      column == SignedColumns(n, edges, hub, PartitionSides(n, edges, hub))
  IN  [hub |-> hub, column |-> column, row_order |-> OrderColumns(n, edges, column)]
=============================================================================
