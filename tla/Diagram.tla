------------------------------- MODULE Diagram ------------------------------
(***************************************************************************)
(* explore.diagram (grannos/diagram): what was discovered is laid out in   *)
(* columns, placed, and placed again with more room when an edge finds no  *)
(* route.  The routes themselves are a search not modelled here: any rows  *)
(* and columns may be used by them, and any placement may turn out to have *)
(* no room.                                                                *)
(***************************************************************************)
EXTENDS Discovery, Place

VARIABLES layout,
          rung,     \* the spacing tried
          rects

drawingVars == <<layout, rung, rects>>
diagramVars == <<discoveryVars, drawingVars>>

DiagramInit == DiscoveryInit /\ layout = <<>> /\ rung = 1 /\ rects = <<>>

LayOut ==
  /\ Discovered
  /\ layout' = ComputeLayout(Len(nodes), edges)
  /\ UNCHANGED <<rung, rects>>
-----------------------------------------------------------------------------
\* The lines of a table's box: its borders, its key, its foreign keys, and one
\* for the columns left out, or for there being none.  Its width stands for that
\* of its texts.
BoxLines(node) ==
  IF node.unavailable \/ node.columns = 0 THEN 3
  ELSE 3 + node.fk_columns + (IF node.columns > 1 + node.fk_columns THEN 1 ELSE 0)
BoxWidth(node) == IF node.unavailable THEN 5 ELSE 4

SpacingLadder(n) ==
  <<[box_gap |-> 1, channel_padding |-> 1], [box_gap |-> 2, channel_padding |-> 1],
    [box_gap |-> 2, channel_padding |-> 3],
    [box_gap |-> 3, channel_padding |-> 1 + (n \div 2)],
    [box_gap |-> 3, channel_padding |-> 1 + n]>>
Spacing == SpacingLadder(Len(edges))[rung]

PlaceNodes ==
  /\ phase = "layout" /\ phase' = "place" /\ Draw
  /\ rects' = PlaceBoxes(layout, edges, [i \in DOMAIN nodes |-> BoxLines(nodes[i])],
                         [i \in DOMAIN nodes |-> BoxWidth(nodes[i])], Spacing)
  /\ UNCHANGED <<layout, rung>>

NoRoute ==
  /\ phase = "place" /\ edges # <<>>
  /\ IF rung < Len(SpacingLadder(Len(edges)))
     THEN phase' = "layout" /\ rung' = rung + 1
     ELSE phase' = "unroutable" /\ UNCHANGED rung
  /\ Draw /\ UNCHANGED <<layout, rects>>

\* The lines of the canvas that no box takes: the margin, the gaps and the
\* channels.  Those past the last box move none when they go.
Free(used) == (0..Max(used)) \ used
FreeLines ==
  ({"row"} \X Free(UNION {RowsOf(r) : r \in Range(rects)}))
  \cup ({"column"} \X Free(UNION {ColsOf(r) : r \in Range(rects)}))

\* The routes take some of them, and what is not taken goes.
CompactRows ==
  /\ phase = "place" /\ phase' = "compacted" /\ Draw
  /\ \E n \in 0..(IF edges = <<>> THEN 0 ELSE Lanes) : \E taken \in [1..n -> FreeLines] :
       LET Of(axis) == {l[2] : l \in {m \in Range(taken) : m[1] = axis}}
       IN  rects' = Compact(rects, Of("row"), Of("column"))
  /\ UNCHANGED <<layout, rung>>

\* Each step is one of a discovery, with what it draws.
DiagramNext ==
  \/ Start /\ UNCHANGED drawingVars
  \/ PopLeft /\ UNCHANGED drawingVars
  \/ Follow /\ UNCHANGED drawingVars
  \/ DescribeRaises /\ UNCHANGED drawingVars
  \/ DropTable /\ UNCHANGED drawingVars
  \/ LayOut \/ PlaceNodes \/ NoRoute \/ CompactRows
DiagramSpec == DiagramInit /\ [][DiagramNext]_diagramVars
-----------------------------------------------------------------------------
\* No edge joins two tables of a column; a table is as many columns from the hub
\* as edges or more, and none shares the hub's; and each column's rows are its
\* tables, each once.
InColumns ==
  LET n == Len(nodes)  hub == layout.hub  column == layout.column
      distance == BfsDistance(n, edges, hub)
  IN  /\ \A i \in DOMAIN edges : column[edges[i].source] # column[edges[i].target]
      /\ \A id \in Others(n, hub) :
           /\ column[id] # column[hub]
           /\ column[id] - column[hub] >= distance[id] \/ column[hub] - column[id] >= distance[id]
      /\ Min(Range(column)) = 0
      /\ DOMAIN layout.row_order = Range(column)
      /\ \A c \in Range(column) :
           /\ Range(layout.row_order[c]) = {id \in 1..n : column[id] = c}
           /\ Len(layout.row_order[c]) = Cardinality({id \in 1..n : column[id] = c})

\* Without the hub, what is still connected is on one side of it when it comes
\* apart, with no more than the largest part between the two, and is otherwise
\* divided with no more edges across than it was grown with, and, unless those
\* are more than the rounds of swaps, none that a swap would spare.
Divided ==
  LET n == Len(nodes)  hub == layout.hub
      rest  == RestEdges(edges, hub)
      parts == ConnectedComponents(Others(n, hub), rest)
      right == {id \in Others(n, hub) : layout.column[id] > layout.column[hub]}
      left  == Others(n, hub) \ right
      Across(ids) == Cardinality({e \in rest : Crossed(e, ids)})
  IN  /\ Cardinality(parts) > 1 =>
           /\ \A p \in parts : p \subseteq right \/ p \subseteq left
           /\ \A p, q \in {right, left} :
                Cardinality(p) - Cardinality(q) <= Max({Cardinality(r) : r \in parts})
      /\ Cardinality(parts) <= 1 =>
           /\ Across(right) <= Across(Grown(n, edges, hub))
           /\ Across(Grown(n, edges, hub)) <= KLMaxRounds =>
                \A u \in right, v \in left : Across((right \ {u}) \cup {v}) >= Across(right)

\* A layout is right once it is computed.
LaidOut == phase = "layout" /\ rung = 1 => InColumns /\ Divided

\* The boxes of a column stay in its order, apart by the gap or more, or by a
\* line once compacted; those of two columns keep a channel between them, wide
\* enough for two stubs and the edges that cross it, or a line; and none is
\* outside the canvas.
Placed ==
  phase \in {"place", "compacted"} =>
    LET columns == Columns(layout)
        Gap == IF phase = "compacted" THEN 1 ELSE Spacing.box_gap
        Wide(c) == IF phase = "compacted" THEN 1
                   ELSE MaxOf(2 * Spacing.channel_padding + Crossing(layout, edges, c), 2 * StubLen + 1)
        Edge == IF phase = "compacted" THEN 0 ELSE Margin(edges)
    IN  /\ \A c \in DOMAIN layout.row_order :
             \A i \in 1..(Len(layout.row_order[c]) - 1) :
               LET a == rects[layout.row_order[c][i]]  b == rects[layout.row_order[c][i + 1]]
               IN  b.top - (a.top + a.height) >= Gap
        /\ \A j \in 1..(Len(columns) - 1) :
             \A a \in Range(layout.row_order[columns[j]]), b \in Range(layout.row_order[columns[j + 1]]) :
               rects[b].left - (rects[a].left + rects[a].width) >= Wide(columns[j])
        /\ \A r \in Range(rects) : r.top >= Edge /\ r.left >= Edge
        /\ \A id \in DOMAIN rects : rects[id].height = BoxLines(nodes[id])
=============================================================================
