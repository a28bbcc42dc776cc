------------------------------ MODULE Discovery -----------------------------
(***************************************************************************)
(* How a diagram is discovered (grannos/diagram/graph.py): from one table  *)
(* to those it refers to and those that refer to it, a describe at a time, *)
(* up to a depth.                                                          *)
(*                                                                         *)
(* A schema has tables 1..tables and the paths that name them: names[p] is *)
(* the table of path p, and path 1 the one asked for.  A table may have    *)
(* several paths, for paths are compared as they are spelled: Oracle looks *)
(* a name up in upper case, SQLite in any.  A foreign key is of a column   *)
(* of its own, in the table at the path the catalog has for it, and refers *)
(* to the key of the table at a path as it was written; plain is how many  *)
(* other columns each table has.                                           *)
(*                                                                         *)
(* A table may be dropped while the describes are awaited.  The drivers    *)
(* then describe it as a table without columns ("empty"); where the        *)
(* foreign keys that refer to it stay, as in SQLite, they are "dangling";  *)
(* a describe may also find nothing at its path ("unresolved").  What is   *)
(* drawn of what was discovered is in Diagram.                             *)
(***************************************************************************)
EXTENDS Integers, Sequences, FiniteSets

CONSTANTS Schemas,  \* [tables, names, fks, plain, droppable, gone]
          MaxDepth  \* MAX_DEPTH

ASSUME DiscoveryAssumption ==
  /\ MaxDepth \in Nat \ {0}
  /\ \A s \in Schemas :
       /\ s.tables \in Nat \ {0}
       /\ s.names \in Seq(1..s.tables) /\ s.names # <<>>
       /\ s.fks \in Seq([table : DOMAIN s.names, ref : DOMAIN s.names])
       /\ s.plain \in [1..s.tables -> Nat]
       /\ s.droppable \subseteq 1..s.tables
       /\ s.gone \in {"empty", "dangling", "unresolved"}

VARIABLES schema,
          dropped,  \* the tables dropped since
          phase,    \* start, discover or error, or one of those that draw
          nodes,    \* nodes[i]: [path, columns, fk_columns, refs, unavailable]
          edges,    \* [source, target, fk_side, fk]
          queue,    \* the nodes to expand: [id, refs, depth]
          cur       \* the one being expanded, with the references it has left

graphVars == <<schema, dropped, nodes, edges, queue, cur>>
discoveryVars == <<phase, graphVars>>

Drawing == {"layout", "place", "compacted", "unroutable"}
Nobody == [id |-> 0, refs |-> <<>>, depth |-> 0]

Relations == INSTANCE Relational

TableAt(path) == schema.names[path]

\* The two tables of a foreign key, whether it is still there, and those a table
\* shows.
Ends(i) == {TableAt(schema.fks[i].table), TableAt(schema.fks[i].ref)}
Live(i) ==
  /\ TableAt(schema.fks[i].table) \notin dropped
  /\ schema.gone = "dangling" \/ TableAt(schema.fks[i].ref) \notin dropped
Shown(t) == {i \in DOMAIN schema.fks : t \in Ends(i) /\ t \notin dropped /\ Live(i)}

\* A table as the driver describes it: its key first, which the foreign keys of
\* other tables refer to, then its own foreign keys.
Numbers == [i \in DOMAIN schema.fks |-> i]
Incoming(t) ==
  Relations!InOrder({i \in Shown(t) : TableAt(schema.fks[i].ref) = t}, Numbers)
Outgoing(t) ==
  Relations!InOrder({i \in Shown(t) : TableAt(schema.fks[i].table) = t}, Numbers)
Sided(fks, side) == [i \in DOMAIN fks |-> [fk |-> fks[i], side |-> side]]
Columnless(path, unavailable) ==
  [path |-> path, unavailable |-> unavailable, columns |-> 0, fk_columns |-> 0, refs |-> <<>>]
Described(path) ==
  LET t == TableAt(path)
  IN  IF t \in dropped THEN Columnless(path, FALSE)
      ELSE [path |-> path, unavailable |-> FALSE,
            columns |-> 1 + Len(Outgoing(t)) + schema.plain[t], fk_columns |-> Len(Outgoing(t)),
            refs |-> Sided(Incoming(t), "target") \o Sided(Outgoing(t), "source")]
Unavailable(path) == Columnless(path, TRUE)
Resolves(path) == TableAt(path) \notin dropped \/ schema.gone # "unresolved"

RefPath(ref) ==
  IF ref.side = "source" THEN schema.fks[ref.fk].ref ELSE schema.fks[ref.fk].table

DiscoveryInit ==
  /\ schema \in Schemas /\ dropped = {} /\ phase = "start"
  /\ nodes = <<>> /\ edges = <<>> /\ queue = <<>> /\ cur = Nobody

Start ==
  /\ phase = "start"
  /\ IF Resolves(1)
     THEN /\ phase' = "discover"
          /\ nodes' = <<Described(1)>>
          /\ queue' = <<[id |-> 1, refs |-> Described(1).refs, depth |-> 0]>>
     ELSE phase' = "error" /\ UNCHANGED <<nodes, queue>>
  /\ UNCHANGED <<schema, dropped, edges, cur>>

PopLeft ==
  /\ phase = "discover" /\ cur.refs = <<>> /\ queue # <<>>
  /\ cur' = Head(queue) /\ queue' = Tail(queue)
  /\ UNCHANGED <<schema, dropped, phase, nodes, edges>>

Visited(path) == \E i \in DOMAIN nodes : nodes[i].path = path
NodeOf(path) == CHOOSE i \in DOMAIN nodes : nodes[i].path = path

\* Whether a table this deep is expanded.  The mutant expands one level more.
ExpandsPast(depth) == depth <= MaxDepth
Expands(depth) == depth < MaxDepth

\* One edge for two tables, whichever of them it is found from.
Seen(a, b) == \E i \in DOMAIN edges : {edges[i].source, edges[i].target} = {a, b}
Connect(ref, target) ==
  edges' = IF Seen(cur.id, target) THEN edges
           ELSE Append(edges, [source |-> cur.id, target |-> target,
                               fk_side |-> ref.side, fk |-> ref.fk])

Follow ==
  /\ phase = "discover" /\ cur.refs # <<>>
  /\ cur' = [cur EXCEPT !.refs = Tail(@)]
  /\ LET ref == Head(cur.refs)  path == RefPath(Head(cur.refs)) IN
       \/ path = nodes[cur.id].path /\ UNCHANGED <<nodes, edges, queue>>
       \/ /\ path # nodes[cur.id].path /\ Visited(path)
          /\ Connect(ref, NodeOf(path))
          /\ UNCHANGED <<nodes, queue>>
       \/ /\ ~Visited(path)
          /\ nodes' = Append(nodes, IF Resolves(path) THEN Described(path)
                                    ELSE Unavailable(path))
          /\ queue' = IF Resolves(path) /\ Expands(cur.depth + 1)
                      THEN Append(queue, [id |-> Len(nodes) + 1, refs |-> Described(path).refs,
                                          depth |-> cur.depth + 1])
                      ELSE queue
          /\ Connect(ref, Len(nodes) + 1)
  /\ UNCHANGED <<schema, dropped, phase>>

\* A describe raises, and with it the whole of the discovery.
DescribeRaises ==
  /\ \/ phase = "start"
     \/ phase = "discover" /\ cur.refs # <<>> /\ ~Visited(RefPath(Head(cur.refs)))
  /\ phase' = "error" /\ UNCHANGED graphVars

\* Someone else's DROP TABLE.
DropTable ==
  /\ phase \in {"start", "discover"} /\ dropped = {}
  /\ \E t \in schema.droppable : dropped' = {t}
  /\ UNCHANGED <<schema, phase, nodes, edges, queue, cur>>

Discovered ==
  /\ phase = "discover" /\ cur.refs = <<>> /\ queue = <<>>
  /\ phase' = "layout"
  /\ UNCHANGED graphVars

\* What is drawn of the graph leaves it.
Draw == phase \in Drawing /\ phase' \in Drawing /\ UNCHANGED graphVars

DiscoveryNext ==
  Start \/ PopLeft \/ Follow \/ DescribeRaises \/ DropTable \/ Discovered \/ Draw
DiscoverySpec == DiscoveryInit /\ [][DiscoveryNext]_discoveryVars
-----------------------------------------------------------------------------
\* What is at most k steps away from first, where next[s] are those a step from s.
Away(first, next) ==
  LET reached[k \in 0..MaxDepth] ==
        IF k = 0 THEN {first}
        ELSE reached[k - 1] \cup UNION {next[s] : s \in reached[k - 1]}
  IN  reached

\* The tables at most k foreign keys away from the first in the schema as it was,
\* and in what is left of it, where a table dropped leads nowhere.
Tables == 1..schema.tables
Joined(s, t) == \E i \in DOMAIN schema.fks : Ends(i) = {s, t}
StillJoined(s, t) == \E i \in Shown(s) : Ends(i) = {s, t}
Reached == Away(TableAt(1), [s \in Tables |-> {t \in Tables : Joined(s, t)}])
StillReached == Away(TableAt(1), [s \in Tables |-> {t \in Tables : StillJoined(s, t)}])
Near(t, k) == t \in Reached[k]
StillNear(t, k) == t \in StillReached[k]

Paths == {nodes[i].path : i \in DOMAIN nodes}
Pairs == {{nodes[edges[i].source].path, nodes[edges[i].target].path} : i \in DOMAIN edges}

\* A diagram has a box for each path by which it came to a table, and one edge
\* for two boxes, of a foreign key from its owner to the table it refers to; it
\* has none deeper than it goes.  It has a box of each table within its depth in
\* what is left of the schema, and an edge for each two of them that are still
\* joined unless both are as deep as it goes, whenever a table was dropped.  Only
\* a table dropped is unavailable (discover).  A table that is spelled in two
\* ways has two boxes.
DiscoveredOnce ==
  phase = "layout" =>
    /\ Cardinality(Paths) = Len(nodes)
    /\ Cardinality(Pairs) = Len(edges)
    /\ \A i \in DOMAIN edges :
         LET e     == edges[i]
             owner == IF e.fk_side = "source" THEN e.source ELSE e.target
             other == IF e.fk_side = "source" THEN e.target ELSE e.source
         IN  /\ TableAt(schema.fks[e.fk].table) = TableAt(nodes[owner].path)
             /\ TableAt(schema.fks[e.fk].ref) = TableAt(nodes[other].path)
             /\ e.source # e.target
             /\ Near(TableAt(nodes[e.source].path), MaxDepth - 1)
    /\ \A i \in DOMAIN nodes :
         /\ Near(TableAt(nodes[i].path), MaxDepth)
         /\ nodes[i].unavailable => TableAt(nodes[i].path) \in dropped
    /\ \A t \in Tables : StillNear(t, MaxDepth) => \E p \in Paths : TableAt(p) = t
    /\ \A s, t \in Tables :
         s # t /\ StillNear(s, MaxDepth - 1) /\ StillJoined(s, t) =>
           \E pair \in Pairs : {TableAt(p) : p \in pair} = {s, t}
=============================================================================
