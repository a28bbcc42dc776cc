----------------------------- MODULE DiagramProofs ----------------------------
(***************************************************************************)
(* Proofs about diagrams, for any schema and spelling of its tables, depth, *)
(* table dropped meanwhile, spacing and lines the routes take.             *)
(*                                                                         *)
(* Discovery.  That what is there is right (GraphInv) is inductive with    *)
(* what is to be expanded: every entry is of a table no deeper than it     *)
(* says.  That nothing is missed (CompleteInv) rests on the order of the   *)
(* queue, whose depths ascend: of each table that is still as near as the  *)
(* one being expanded a box was expanded, or waits no deeper; and as long  *)
(* as the next level is to be expanded, no box is left out.  A table that  *)
(* is dropped only takes away from what has to be followed.                *)
(*                                                                         *)
(* Drawing.  Each table found hangs on one found before it (Hangs), so     *)
(* that what is laid out is in one piece, as the layout needs; a layout    *)
(* stays that of the graph (LaidInv), and boxes are as far apart as they   *)
(* have to be (DrawnInv).                                                  *)
(***************************************************************************)
EXTENDS Diagram, LayoutProofs

Sides == {"target", "source"}
Refs == [fk : Nat, side : Sides]
Nodes == [path : Nat, unavailable : BOOLEAN, columns : Nat, fk_columns : Nat, refs : Seq(Refs)]
Edges == [source : Nat, target : Nat, fk_side : Sides, fk : Nat]
Entries == [id : Nat, refs : Seq(Refs), depth : Nat]
Fks == DOMAIN schema.fks

GraphTyped ==
  /\ schema \in Schemas /\ phase \in {"start", "discover", "error"} \cup Drawing
  /\ nodes \in Seq(Nodes) /\ edges \in Seq(Edges) /\ queue \in Seq(Entries) /\ cur \in Entries

\* The end of a foreign key that is at the table whose reference it is.
OwnTable(ref) ==
  TableAt(IF ref.side = "source" THEN schema.fks[ref.fk].table ELSE schema.fks[ref.fk].ref)

\* Each path is found once, and its table no deeper than it may be.
NodesRight ==
  /\ \A i, j \in 1..Len(nodes) : nodes[i].path = nodes[j].path => i = j
  /\ \A i \in 1..Len(nodes) :
       /\ nodes[i].path \in DOMAIN schema.names /\ Near(TableAt(nodes[i].path), MaxDepth)
       /\ nodes[i].unavailable => TableAt(nodes[i].path) \in dropped

\* An edge has the ends of its foreign key, and is found from a table that is
\* expanded; no two have the same ends.
EdgeRight(e) ==
  /\ e.source \in 1..Len(nodes) /\ e.target \in 1..Len(nodes) /\ e.source # e.target
  /\ e.fk \in Fks
  /\ OwnTable([fk |-> e.fk, side |-> e.fk_side]) = TableAt(nodes[e.source].path)
  /\ RefPath([fk |-> e.fk, side |-> e.fk_side]) = nodes[e.target].path
  /\ Near(TableAt(nodes[e.source].path), MaxDepth - 1)
EdgesRight ==
  /\ \A i \in 1..Len(edges) : EdgeRight(edges[i])
  /\ \A i, j \in 1..Len(edges) :
       {edges[i].source, edges[i].target} = {edges[j].source, edges[j].target} => i = j

\* What is to be expanded are references of its own table.
EntryRight(entry) ==
  /\ entry.id \in 1..Len(nodes)
  /\ entry.depth \in 0..(MaxDepth - 1) /\ Near(TableAt(nodes[entry.id].path), entry.depth)
  /\ \A k \in 1..Len(entry.refs) :
       entry.refs[k].fk \in Fks /\ OwnTable(entry.refs[k]) = TableAt(nodes[entry.id].path)

GraphInv ==
  /\ GraphTyped /\ NodesRight /\ EdgesRight
  /\ \A k \in 1..Len(queue) : EntryRight(queue[k])
  /\ cur = Nobody \/ EntryRight(cur)
  /\ phase = "start" => nodes = <<>>
  /\ phase \in Drawing => queue = <<>> /\ cur.refs = <<>>
-----------------------------------------------------------------------------
\* A reference of a box leads to itself, or to a box it has an edge with.
Followed(id, path) ==
  \/ path = nodes[id].path
  \/ \E j \in 1..Len(nodes) : nodes[j].path = path /\ Seen(id, j)

\* The references of a table that is there are followed, or among those that are
\* left, unless their foreign key went.
Covered(id, refs) ==
  TableAt(nodes[id].path) \notin dropped =>
    \A ref \in [fk : Fks, side : Sides] :
      Live(ref.fk) /\ OwnTable(ref) = TableAt(nodes[id].path) =>
        Followed(id, RefPath(ref)) \/ \E k \in 1..Len(refs) : refs[k] = ref

QueueInOrder ==
  /\ \A k \in 1..Len(queue) :
       /\ Covered(queue[k].id, queue[k].refs)
       /\ queue[k].depth \in {cur.depth, cur.depth + 1}
  /\ \A k, l \in 1..Len(queue) : k < l => queue[k].depth <= queue[l].depth

\* A box is expanded, is being expanded, or waits no deeper.
Handled(i, depth) ==
  \/ Covered(i, <<>>) \/ i = cur.id
  \/ \E k \in 1..Len(queue) : queue[k].id = i /\ queue[k].depth <= depth

NothingMissed ==
  /\ cur # Nobody => Covered(cur.id, cur.refs)
  /\ \A t : StillNear(t, cur.depth) =>
       \E i \in 1..Len(nodes) : TableAt(nodes[i].path) = t /\ Handled(i, cur.depth)
  /\ cur.depth + 1 < MaxDepth => \A i \in 1..Len(nodes) : Handled(i, cur.depth + 1)

CompleteInv == phase \in {"discover"} \cup Drawing => QueueInOrder /\ NothingMissed
-----------------------------------------------------------------------------
(* The references of a table *)

\* A schema, its paths, and its foreign keys by number.
LEMMA SchemaFacts ==
  ASSUME schema \in Schemas
  PROVE  /\ schema.tables \in Nat \ {0} /\ schema.plain \in [Tables -> Nat]
         /\ 1 \in DOMAIN schema.names /\ DOMAIN schema.names \subseteq Nat
         /\ \A p \in DOMAIN schema.names : TableAt(p) \in Tables
         /\ Len(schema.fks) \in Nat /\ Fks = 1..Len(schema.fks)
         /\ \A i \in Fks : schema.fks[i].table \in DOMAIN schema.names
                          /\ schema.fks[i].ref \in DOMAIN schema.names
         /\ Len(Numbers) = Len(schema.fks) /\ \A i \in Fks : Numbers[i] = i
<1> DEFINE S == [table : DOMAIN schema.names, ref : DOMAIN schema.names]
<1>1. /\ schema.tables \in Nat \ {0} /\ schema.plain \in [1..schema.tables -> Nat]
      /\ schema.names \in Seq(1..schema.tables) /\ schema.names # <<>>
      /\ schema.fks \in Seq(S)
  BY DiscoveryAssumption
<1>2. /\ Len(schema.fks) \in Nat /\ Fks = 1..Len(schema.fks)
      /\ \A i \in 1..Len(schema.fks) : schema.fks[i] \in S
  BY <1>1, LenProperties, ElementOfSeq DEF Fks
<1>3. Numbers \in [1..Len(schema.fks) -> Nat]
  BY <1>2 DEF Numbers, Fks
<1>4. Len(Numbers) = Len(schema.fks)
  BY <1>2, <1>3, IsSequence
<1>5. /\ DOMAIN schema.names = 1..Len(schema.names) /\ Len(schema.names) \in Nat \ {0}
      /\ \A p \in 1..Len(schema.names) : schema.names[p] \in 1..schema.tables
  BY <1>1, LenProperties, ElementOfSeq, EmptySeq
<1>6. /\ 1 \in DOMAIN schema.names /\ DOMAIN schema.names \subseteq Nat
      /\ \A p \in DOMAIN schema.names : TableAt(p) \in Tables
  BY <1>5 DEF TableAt, Tables
<1> QED
  BY <1>1, <1>2, <1>4, <1>6 DEF Numbers, Fks, Tables

\* A set of foreign keys in order has each of them, and no others.
LEMMA NumbersInOrder ==
  ASSUME schema \in Schemas, NEW S \in SUBSET Fks
  PROVE  /\ Relations!InOrder(S, Numbers) \in Seq(S)
         /\ \A x \in S : \E k \in 1..Len(Relations!InOrder(S, Numbers)) :
              Relations!InOrder(S, Numbers)[k] = x
<1> DEFINE n == Len(Numbers)
           body(G, i) == IF i = 0 THEN <<>>
                         ELSE IF Numbers[i] \in S THEN Append(G[i - 1], Numbers[i])
                              ELSE G[i - 1]
           F == CHOOSE G : G = [i \in 0..n |-> body(G, i)]
<1>1. n \in Nat /\ Fks = 1..n /\ \A i \in 1..n : Numbers[i] = i
  BY SchemaFacts
<1>2. Relations!InOrder(S, Numbers) = F[n]
  BY DEF Relations!InOrder
<1> HIDE DEF n
<1>3. \E G : G = [i \in 0..n |-> body(G, i)]
  <2> DEFINE step == [i \in 1..n |-> [s \in Seq(S) |->
                       IF Numbers[i] \in S THEN Append(s, Numbers[i]) ELSE s]]
  <2>1. step \in [1..n -> [Seq(S) -> Seq(S)]]
    BY Appended
  <2>2. <<>> \in Seq(S)
    BY EmptySeq
  <2>3. PICK G \in [0..n -> Seq(S)] : G[0] = <<>> /\ \A i \in 1..n : G[i] = step[i][G[i - 1]]
    <3> DEFINE V == Seq(S)
               first == <<>>
    <3>1. n \in Nat /\ first \in V /\ step \in [1..n -> [V -> V]]
      BY <1>1, <2>1, <2>2
    <3> HIDE DEF step, V, first
    <3>2. \E G \in [0..n -> V] : Recurs(G, n, first, step)
      BY <3>1, RecursionExists
    <3> QED
      BY <3>2 DEF V, first, Recurs
  <2>4. ASSUME NEW i \in 0..n PROVE G[i] = body(G, i)
    <3>1. CASE i = 0
      BY <2>3, <3>1
    <3>2. CASE i # 0
      <4>1. i \in 1..n /\ i - 1 \in 0..n
        BY <1>1, <3>2
      <4>2. G[i - 1] \in Seq(S)
        BY <2>3, <4>1
      <4> QED
        BY <2>3, <3>2, <4>1, <4>2
    <3> QED
      BY <3>1, <3>2
  <2>5. G = [i \in 0..n |-> G[i]]
    BY <2>3
  <2>6. G = [i \in 0..n |-> body(G, i)]
    <3> HIDE DEF body
    <3> QED
      BY <2>4, <2>5
  <2> QED
    BY <2>6
<1>4. F = [i \in 0..n |-> body(F, i)]
  <2> HIDE DEF body
  <2> QED
    BY <1>3
<1> HIDE DEF F
<1>5. F[0] = <<>> /\ \A i \in 1..n : F[i] = IF i \in S THEN Append(F[i - 1], i) ELSE F[i - 1]
  <2>0. \A i \in 0..n : F[i] = body(F, i)
    <3> HIDE DEF body
    <3> QED
      BY <1>4
  <2>1. F[0] = <<>> /\ \A i \in 0..n : F[i] = body(F, i)
    <3>1. 0 \in 0..n
      BY <1>1
    <3>2. F[0] = body(F, 0)
      BY <2>0, <3>1
    <3> QED
      BY <2>0, <3>2
  <2>2. ASSUME NEW i \in 1..n PROVE F[i] = IF i \in S THEN Append(F[i - 1], i) ELSE F[i - 1]
    <3>1. i \in 0..n /\ i # 0 /\ Numbers[i] = i
      BY <1>1
    <3>2. F[i] = body(F, i)
      BY <2>1, <3>1
    <3> QED
      BY <3>1, <3>2
  <2> QED
    BY <2>1, <2>2
<1> DEFINE Has(i) == /\ F[i] \in Seq(S)
                     /\ \A x \in S : x <= i => \E k \in 1..Len(F[i]) : F[i][k] = x
           I == {i \in 0..n : Has(i)}
<1>6. 0 \in I
  <2>1. \A x \in S : ~(x <= 0)
    BY <1>1
  <2>2. F[0] \in Seq(S) /\ 0 \in 0..n
    BY <1>1, <1>5, EmptySeq
  <2> QED
    BY <2>1, <2>2
<1>7. ASSUME NEW i \in 1..n, i - 1 \in I PROVE i \in I
  <2> SUFFICES Has(i)
    BY <1>1
  <2> DEFINE s == F[i - 1]
  <2>1. s \in Seq(S) /\ \A x \in S : x <= i - 1 => \E k \in 1..Len(s) : s[k] = x
    BY <1>7
  <2>2. F[i] = IF i \in S THEN Append(s, i) ELSE s
    BY <1>5
  <2> HIDE DEF s
  <2>3. CASE i \notin S
    <3>1. \A x \in S : x <= i => x <= i - 1
      BY <1>1, <2>3
    <3> QED
      BY <2>1, <2>2, <2>3, <3>1
  <2>4. CASE i \in S
    <3>1. /\ F[i] \in Seq(S) /\ Len(s) \in Nat /\ Len(F[i]) = Len(s) + 1
          /\ \A k \in 1..Len(s) : F[i][k] = s[k]
          /\ F[i][Len(s) + 1] = i
      BY <2>1, <2>2, <2>4, Appended
    <3>2. ASSUME NEW x \in S, x <= i PROVE \E k \in 1..Len(F[i]) : F[i][k] = x
      <4>1. CASE x = i
        BY <3>1, <4>1
      <4>2. CASE x # i
        <5>1. x <= i - 1
          BY <1>1, <3>2, <4>2
        <5>2. PICK k \in 1..Len(s) : s[k] = x
          BY <2>1, <5>1
        <5> QED
          BY <3>1, <5>2
      <4> QED
        BY <4>1, <4>2
    <3> QED
      BY <3>1, <3>2
  <2> QED
    BY <2>3, <2>4
<1>8. n \in I
  <2> HIDE DEF I
  <2>1. 0..n \subseteq I
    BY <1>1, <1>6, <1>7, AllNumbers
  <2> QED
    BY <1>1, <2>1
<1> QED
  BY <1>1, <1>2, <1>8

\* A set of foreign keys in order, as the references of one side.
LEMMA SidedFacts ==
  ASSUME schema \in Schemas, NEW S \in SUBSET Fks, NEW side \in Sides
  PROVE  LET refs == Sided(Relations!InOrder(S, Numbers), side) IN
         /\ refs \in Seq(Refs)
         /\ \A k \in 1..Len(refs) : refs[k].fk \in S /\ refs[k].side = side
         /\ \A x \in S : \E k \in 1..Len(refs) : refs[k] = [fk |-> x, side |-> side]
<1> DEFINE s == Relations!InOrder(S, Numbers)
           refs == Sided(s, side)
<1>1. s \in Seq(S) /\ \A x \in S : \E k \in 1..Len(s) : s[k] = x
  BY NumbersInOrder
<1> HIDE DEF s
<1>2. Len(s) \in Nat /\ DOMAIN s = 1..Len(s) /\ \A k \in 1..Len(s) : s[k] \in S
  BY <1>1, LenProperties, ElementOfSeq
<1>3. S \subseteq Nat
  BY SchemaFacts
<1>4. refs \in [1..Len(s) -> Refs] /\ \A k \in 1..Len(s) : refs[k] = [fk |-> s[k], side |-> side]
  BY <1>2, <1>3 DEF Sided, Refs
<1> HIDE DEF refs
<1>5. refs \in Seq(Refs) /\ Len(refs) = Len(s)
  <2>1. Len(s) \in Nat /\ refs \in [1..Len(s) -> Refs]
    BY <1>2, <1>4
  <2> QED
    BY <2>1, IsSequence
<1> QED
  BY <1>1, <1>2, <1>4, <1>5 DEF refs, s

\* A table that was dropped is described without columns.
LEMMA ColumnlessFacts ==
  ASSUME schema \in Schemas, NEW path \in DOMAIN schema.names, NEW unavailable \in BOOLEAN
  PROVE  /\ Columnless(path, unavailable) \in Nodes /\ Columnless(path, unavailable).path = path
         /\ Columnless(path, unavailable).unavailable = unavailable
         /\ \A k : ~(k \in 1..Len(Columnless(path, unavailable).refs))
BY SchemaFacts, EmptySeq DEF Columnless, Nodes

\* A table that is there is described with its own references, all that are live.
LEMMA ShownFacts ==
  ASSUME schema \in Schemas, NEW path \in DOMAIN schema.names, TableAt(path) \notin dropped
  PROVE  /\ Described(path) \in Nodes /\ Described(path).path = path
         /\ ~Described(path).unavailable
         /\ \A k \in 1..Len(Described(path).refs) :
              /\ Described(path).refs[k].fk \in Fks
              /\ OwnTable(Described(path).refs[k]) = TableAt(path)
         /\ \A ref \in [fk : Fks, side : Sides] :
              Live(ref.fk) /\ OwnTable(ref) = TableAt(path) =>
                \E k \in 1..Len(Described(path).refs) : Described(path).refs[k] = ref
<1> DEFINE t == TableAt(path)
           I == {i \in Shown(t) : TableAt(schema.fks[i].ref) = t}
           O == {i \in Shown(t) : TableAt(schema.fks[i].table) = t}
           in == Sided(Incoming(t), "target")
           out == Sided(Outgoing(t), "source")
           refs == in \o out
<1>1. I \in SUBSET Fks /\ O \in SUBSET Fks /\ "target" \in Sides /\ "source" \in Sides
  BY DEF Fks, Sides, Shown
<1>2. /\ in \in Seq(Refs)
      /\ \A k \in 1..Len(in) : in[k].fk \in I /\ in[k].side = "target"
      /\ \A x \in I : \E k \in 1..Len(in) : in[k] = [fk |-> x, side |-> "target"]
  <2>1. Incoming(t) = Relations!InOrder(I, Numbers)
    BY DEF Incoming
  <2> HIDE DEF I
  <2> QED
    BY <1>1, <2>1, SidedFacts
<1>3. /\ out \in Seq(Refs)
      /\ \A k \in 1..Len(out) : out[k].fk \in O /\ out[k].side = "source"
      /\ \A x \in O : \E k \in 1..Len(out) : out[k] = [fk |-> x, side |-> "source"]
  <2>1. Outgoing(t) = Relations!InOrder(O, Numbers)
    BY DEF Outgoing
  <2> HIDE DEF O
  <2> QED
    BY <1>1, <2>1, SidedFacts
<1>4. Outgoing(t) \in Seq(O) /\ Len(Outgoing(t)) \in Nat
  <2>1. Outgoing(t) = Relations!InOrder(O, Numbers)
    BY DEF Outgoing
  <2> HIDE DEF O
  <2> QED
    BY <1>1, <2>1, NumbersInOrder, LenProperties
<1>5. /\ Described(path).refs = refs /\ Described(path).path = path
      /\ ~Described(path).unavailable
      /\ Described(path) = [path |-> path, unavailable |-> FALSE,
                            columns |-> 1 + Len(Outgoing(t)) + schema.plain[t],
                            fk_columns |-> Len(Outgoing(t)), refs |-> refs]
  BY DEF Described
<1> HIDE DEF in, out
<1>6. /\ refs \in Seq(Refs) /\ Len(in) \in Nat /\ Len(out) \in Nat
      /\ Len(refs) = Len(in) + Len(out)
      /\ \A k \in 1..(Len(in) + Len(out)) :
           refs[k] = IF k <= Len(in) THEN in[k] ELSE out[k - Len(in)]
  BY <1>2, <1>3, ConcatProperties, LenProperties
<1> HIDE DEF refs
<1>7. schema.plain[t] \in Nat /\ path \in Nat
  BY SchemaFacts
<1>8. Described(path) \in Nodes
  BY <1>4, <1>5, <1>6, <1>7 DEF Nodes
<1>9. ASSUME NEW k \in 1..Len(refs) PROVE refs[k].fk \in Fks /\ OwnTable(refs[k]) = t
  <2>1. CASE k <= Len(in)
    <3>1. k \in 1..Len(in) /\ refs[k] = in[k]
      BY <1>6, <2>1
    <3>2. in[k].fk \in I /\ in[k].side = "target"
      BY <1>2, <3>1
    <3> QED
      BY <1>1, <3>1, <3>2 DEF OwnTable
  <2>2. CASE ~(k <= Len(in))
    <3>1. k - Len(in) \in 1..Len(out) /\ refs[k] = out[k - Len(in)]
      BY <1>6, <2>2
    <3>2. out[k - Len(in)].fk \in O /\ out[k - Len(in)].side = "source"
      BY <1>3, <3>1
    <3> QED
      BY <1>1, <3>1, <3>2 DEF OwnTable
  <2> QED
    BY <2>1, <2>2
<1>10. ASSUME NEW ref \in [fk : Fks, side : Sides], Live(ref.fk), OwnTable(ref) = t
       PROVE  \E k \in 1..Len(refs) : refs[k] = ref
  <2>1. ref = [fk |-> ref.fk, side |-> ref.side] /\ ref.fk \in Fks
    BY <1>10
  <2>2. CASE ref.side = "target"
    <3>1. ref.fk \in I
      BY <1>10, <2>1, <2>2 DEF OwnTable, Fks, Shown, Ends
    <3>2. PICK k \in 1..Len(in) : in[k] = [fk |-> ref.fk, side |-> "target"]
      BY <1>2, <3>1
    <3>3. k \in 1..Len(refs) /\ refs[k] = in[k]
      BY <1>6
    <3> QED
      BY <2>1, <2>2, <3>2, <3>3
  <2>3. CASE ref.side = "source"
    <3>1. ref.fk \in O
      BY <1>10, <2>1, <2>3 DEF OwnTable, Fks, Shown, Ends
    <3>2. PICK k \in 1..Len(out) : out[k] = [fk |-> ref.fk, side |-> "source"]
      BY <1>3, <3>1
    <3>3. k + Len(in) \in 1..Len(refs) /\ refs[k + Len(in)] = out[k]
      <4>1. /\ k + Len(in) \in 1..(Len(in) + Len(out)) /\ ~(k + Len(in) <= Len(in))
            /\ (k + Len(in)) - Len(in) = k
        BY <1>6
      <4> QED
        BY <1>6, <4>1
    <3> QED
      BY <2>1, <2>3, <3>2, <3>3
  <2> QED
    BY <2>2, <2>3 DEF Sides
<1> QED
  BY <1>5, <1>8, <1>9, <1>10

\* What a table is described as, there or not.
LEMMA DescribedFacts ==
  ASSUME schema \in Schemas, NEW path \in DOMAIN schema.names
  PROVE  /\ Described(path) \in Nodes /\ Described(path).path = path
         /\ ~Described(path).unavailable
         /\ \A k \in 1..Len(Described(path).refs) :
              /\ Described(path).refs[k].fk \in Fks
              /\ OwnTable(Described(path).refs[k]) = TableAt(path)
         /\ TableAt(path) \notin dropped =>
              \A ref \in [fk : Fks, side : Sides] :
                Live(ref.fk) /\ OwnTable(ref) = TableAt(path) =>
                  \E k \in 1..Len(Described(path).refs) : Described(path).refs[k] = ref
<1>1. CASE TableAt(path) \in dropped
  <2>1. Described(path) = Columnless(path, FALSE)
    BY <1>1 DEF Described
  <2> QED
    BY <1>1, <2>1, ColumnlessFacts
<1>2. CASE TableAt(path) \notin dropped
  BY <1>2, ShownFacts
<1> QED
  BY <1>1, <1>2
-----------------------------------------------------------------------------
(* The tables within a distance *)

\* What is away from first at a distance is what is at a lesser one, and those a
\* step from it.
LEMMA AwayFacts ==
  ASSUME NEW T, NEW first \in T, NEW next \in [T -> SUBSET T]
  PROVE  LET R == Away(first, next) IN
         /\ R[0] = {first}
         /\ \A k \in 1..MaxDepth : R[k] = R[k - 1] \cup UNION {next[s] : s \in R[k - 1]}
         /\ \A k \in 0..MaxDepth : R[k] \subseteq T
<1> DEFINE n == MaxDepth
           V == SUBSET T
           more(before) == before \cup UNION {next[s] : s \in before}
           body(G, k) == IF k = 0 THEN {first} ELSE more(G[k - 1])
           one == {first}
           R == Away(first, next)
<1>1. n \in Nat \ {0} /\ one \in V
  BY DiscoveryAssumption
<1>2. R = CHOOSE G : G = [k \in 0..n |-> body(G, k)]
  BY DEF Away
<1>9. ASSUME NEW before \in V PROVE more(before) \in V
  OBVIOUS
<1>3. \E G : G = [k \in 0..n |-> body(G, k)]
  <2> DEFINE step == [k \in 1..n |-> [before \in V |-> more(before)]]
  <2>1. step \in [1..n -> [V -> V]]
    <3> HIDE DEF more, V
    <3> QED
      BY <1>9
  <2>2. \E G \in [0..n -> V] : Recurs(G, n, one, step)
    <3> HIDE DEF step, n, V, one
    <3> QED
      BY <1>1, <2>1, RecursionExists
  <2>3. PICK G \in [0..n -> V] : G[0] = one /\ \A k \in 1..n : G[k] = step[k][G[k - 1]]
    BY <2>2 DEF Recurs
  <2>4. ASSUME NEW k \in 0..n PROVE G[k] = body(G, k)
    <3>1. CASE k = 0
      BY <2>3, <3>1
    <3>2. CASE k # 0
      <4>1. k \in 1..n /\ k - 1 \in 0..n
        BY <1>1, <3>2
      <4>2. G[k - 1] \in V
        BY <2>3, <4>1
      <4>3. step[k][G[k - 1]] = more(G[k - 1])
        <5> HIDE DEF more, V
        <5> QED
          BY <4>1, <4>2
      <4> HIDE DEF step, more
      <4> QED
        BY <2>3, <3>2, <4>1, <4>3
    <3> QED
      BY <3>1, <3>2
  <2>5. G = [k \in 0..n |-> G[k]]
    BY <2>3
  <2>6. G = [k \in 0..n |-> body(G, k)]
    <3> HIDE DEF body
    <3> QED
      BY <2>4, <2>5
  <2> QED
    BY <2>6
<1> HIDE DEF R
<1>4. R = [k \in 0..n |-> body(R, k)]
  <2> HIDE DEF body
  <2> QED
    BY <1>2, <1>3
<1>5. \A k \in 0..n : R[k] = body(R, k)
  <2> HIDE DEF body
  <2> QED
    BY <1>4
<1>6. R[0] = one
  <2>1. 0 \in 0..n
    BY <1>1
  <2>2. R[0] = body(R, 0)
    BY <1>5, <2>1
  <2> QED
    BY <2>2
<1>7. \A k \in 1..n : R[k] = more(R[k - 1])
  <2> SUFFICES ASSUME NEW k \in 1..n PROVE R[k] = more(R[k - 1])
    OBVIOUS
  <2>1. k \in 0..n /\ k # 0
    BY <1>1
  <2>2. R[k] = body(R, k)
    BY <1>5, <2>1
  <2> HIDE DEF more
  <2> QED
    BY <2>1, <2>2
<1> DEFINE S == {k \in 0..n : R[k] \in V}
<1>8. 0..n \subseteq S
  <2>1. 0 \in S
    BY <1>1, <1>6
  <2>2. ASSUME NEW k \in 1..n, k - 1 \in S PROVE k \in S
    <3>1. R[k] \in V
      <4>1. R[k - 1] \in V
        BY <2>2
      <4> HIDE DEF more, V
      <4> QED
        BY <1>7, <1>9, <4>1
    <3> QED
      BY <1>1, <3>1
  <2> HIDE DEF S
  <2> QED
    BY <1>1, <2>1, <2>2, AllNumbers
<1> QED
  BY <1>6, <1>7, <1>8 DEF R

\* The same of the tables, all of them and those that are left.
LEMMA NearFacts ==
  ASSUME schema \in Schemas
  PROVE  /\ \A t : Near(t, 0) <=> t = TableAt(1)
         /\ \A k \in 0..MaxDepth : \A t : Near(t, k) => t \in Tables
         /\ \A k \in 1..MaxDepth : \A t :
              Near(t, k) <=> \/ Near(t, k - 1)
                             \/ t \in Tables /\ \E s : Near(s, k - 1) /\ Joined(s, t)
<1> DEFINE next == [s \in Tables |-> {t \in Tables : Joined(s, t)}]
<1>1. TableAt(1) \in Tables /\ next \in [Tables -> SUBSET Tables]
  BY SchemaFacts
<1>2. Reached = Away(TableAt(1), next)
  BY DEF Reached
<1> HIDE DEF next
<1>3. /\ Reached[0] = {TableAt(1)}
      /\ \A k \in 1..MaxDepth :
           Reached[k] = Reached[k - 1] \cup UNION {next[s] : s \in Reached[k - 1]}
      /\ \A k \in 0..MaxDepth : Reached[k] \subseteq Tables
  BY <1>1, <1>2, AwayFacts
<1>4. ASSUME NEW k \in 1..MaxDepth, NEW t
      PROVE  Near(t, k) <=> \/ Near(t, k - 1)
                            \/ t \in Tables /\ \E s : Near(s, k - 1) /\ Joined(s, t)
  <2>1. k - 1 \in 0..MaxDepth
    BY DiscoveryAssumption
  <2>2. t \in Reached[k] <=> t \in Reached[k - 1] \/ \E s \in Reached[k - 1] : t \in next[s]
    BY <1>3
  <2>3. \A s \in Reached[k - 1] : t \in next[s] <=> t \in Tables /\ Joined(s, t)
    BY <1>3, <2>1 DEF next
  <2> QED
    BY <2>2, <2>3 DEF Near
<1> QED
  BY <1>3, <1>4 DEF Near

LEMMA StillNearFacts ==
  ASSUME schema \in Schemas
  PROVE  /\ \A t : StillNear(t, 0) <=> t = TableAt(1)
         /\ \A k \in 0..MaxDepth : \A t : StillNear(t, k) => t \in Tables
         /\ \A k \in 1..MaxDepth : \A t :
              StillNear(t, k) <=> \/ StillNear(t, k - 1)
                                  \/ t \in Tables /\ \E s : StillNear(s, k - 1) /\ StillJoined(s, t)
<1> DEFINE next == [s \in Tables |-> {t \in Tables : StillJoined(s, t)}]
<1>1. TableAt(1) \in Tables /\ next \in [Tables -> SUBSET Tables]
  BY SchemaFacts
<1>2. StillReached = Away(TableAt(1), next)
  BY DEF StillReached
<1> HIDE DEF next
<1>3. /\ StillReached[0] = {TableAt(1)}
      /\ \A k \in 1..MaxDepth :
           StillReached[k] = StillReached[k - 1] \cup UNION {next[s] : s \in StillReached[k - 1]}
      /\ \A k \in 0..MaxDepth : StillReached[k] \subseteq Tables
  BY <1>1, <1>2, AwayFacts
<1>4. ASSUME NEW k \in 1..MaxDepth, NEW t
      PROVE  StillNear(t, k) <=> \/ StillNear(t, k - 1)
                                 \/ t \in Tables /\ \E s : StillNear(s, k - 1) /\ StillJoined(s, t)
  <2>1. k - 1 \in 0..MaxDepth
    BY DiscoveryAssumption
  <2>2. t \in StillReached[k]
          <=> t \in StillReached[k - 1] \/ \E s \in StillReached[k - 1] : t \in next[s]
    BY <1>3
  <2>3. \A s \in StillReached[k - 1] : t \in next[s] <=> t \in Tables /\ StillJoined(s, t)
    BY <1>3, <2>1 DEF next
  <2> QED
    BY <2>2, <2>3 DEF StillNear
<1> QED
  BY <1>3, <1>4 DEF StillNear

\* What is away at a distance is so at a greater one too,
LEMMA AwayFarther ==
  ASSUME NEW T, NEW first \in T, NEW next \in [T -> SUBSET T],
         NEW j \in 0..MaxDepth, NEW k \in 0..MaxDepth, j <= k
  PROVE  Away(first, next)[j] \subseteq Away(first, next)[k]
<1> DEFINE R == Away(first, next)
           S == {m \in 0..MaxDepth : m < j \/ R[j] \subseteq R[m]}
<1>1. MaxDepth \in Nat
  BY DiscoveryAssumption
<1>2. \A m \in 1..MaxDepth : R[m - 1] \subseteq R[m]
  BY AwayFacts
<1> HIDE DEF R
<1>3. 0 \in S
  BY <1>1
<1>4. ASSUME NEW m \in 1..MaxDepth, m - 1 \in S PROVE m \in S
  <2>1. CASE m = j
    BY <1>1, <2>1
  <2>2. CASE m < j
    BY <1>1, <2>2
  <2>3. CASE m > j
    BY <1>1, <1>2, <1>4, <2>3
  <2> QED
    BY <1>1, <2>1, <2>2, <2>3
<1>5. 0..MaxDepth \subseteq S
  <2> HIDE DEF S
  <2> QED
    BY <1>1, <1>3, <1>4, AllNumbers
<1> QED
  BY <1>1, <1>5 DEF R

LEMMA NearFarther ==
  ASSUME schema \in Schemas, NEW t, NEW j \in 0..MaxDepth, NEW k \in 0..MaxDepth, j <= k
  PROVE  (Near(t, j) => Near(t, k)) /\ (StillNear(t, j) => StillNear(t, k))
<1>1. TableAt(1) \in Tables
  BY SchemaFacts
<1>2. Reached[j] \subseteq Reached[k]
  <2> DEFINE next == [s \in Tables |-> {u \in Tables : Joined(s, u)}]
  <2>1. next \in [Tables -> SUBSET Tables] /\ Reached = Away(TableAt(1), next)
    BY DEF Reached
  <2> HIDE DEF next
  <2> QED
    BY <1>1, <2>1, AwayFarther
<1>3. StillReached[j] \subseteq StillReached[k]
  <2> DEFINE next == [s \in Tables |-> {u \in Tables : StillJoined(s, u)}]
  <2>1. next \in [Tables -> SUBSET Tables] /\ StillReached = Away(TableAt(1), next)
    BY DEF StillReached
  <2> HIDE DEF next
  <2> QED
    BY <1>1, <2>1, AwayFarther
<1> QED
  BY <1>2, <1>3 DEF Near, StillNear

\* and with fewer steps there is less.
LEMMA AwayLess ==
  ASSUME NEW T, NEW first \in T, NEW less \in [T -> SUBSET T], NEW next \in [T -> SUBSET T],
         \A s \in T : less[s] \subseteq next[s]
  PROVE  \A k \in 0..MaxDepth : Away(first, less)[k] \subseteq Away(first, next)[k]
<1> DEFINE L == Away(first, less)
           R == Away(first, next)
           S == {k \in 0..MaxDepth : L[k] \subseteq R[k]}
<1>1. MaxDepth \in Nat
  BY DiscoveryAssumption
<1>2. /\ L[0] = {first} /\ R[0] = {first}
      /\ \A k \in 1..MaxDepth : L[k] = L[k - 1] \cup UNION {less[s] : s \in L[k - 1]}
      /\ \A k \in 0..MaxDepth : L[k] \subseteq T
  BY AwayFacts
<1>3. \A k \in 1..MaxDepth : R[k] = R[k - 1] \cup UNION {next[s] : s \in R[k - 1]}
  BY AwayFacts
<1> HIDE DEF L, R
<1>4. 0 \in S
  BY <1>1, <1>2
<1>5. ASSUME NEW k \in 1..MaxDepth, k - 1 \in S PROVE k \in S
  <2>1. k - 1 \in 0..MaxDepth /\ k \in 0..MaxDepth /\ L[k - 1] \subseteq R[k - 1]
        /\ L[k - 1] \subseteq T
    BY <1>1, <1>2, <1>5
  <2>2. ASSUME NEW t \in L[k] PROVE t \in R[k]
    <3>1. t \in L[k - 1] \/ \E s \in L[k - 1] : t \in less[s]
      BY <1>2, <2>2
    <3>2. \A s \in L[k - 1] : t \in less[s] => s \in R[k - 1] /\ t \in next[s]
      BY <2>1
    <3>3. t \in R[k - 1] \/ \E s \in R[k - 1] : t \in next[s]
      BY <2>1, <3>1, <3>2
    <3> QED
      BY <1>3, <3>3
  <2> QED
    BY <2>1, <2>2
<1>6. 0..MaxDepth \subseteq S
  <2> HIDE DEF S
  <2> QED
    BY <1>1, <1>4, <1>5, AllNumbers
<1> QED
  BY <1>6 DEF L, R

\* The table a reference leads to is joined to the one it is of.
LEMMA RefJoins ==
  ASSUME schema \in Schemas, NEW ref, ref.fk \in Fks
  PROVE  /\ OwnTable(ref) \in Tables /\ RefPath(ref) \in DOMAIN schema.names
         /\ TableAt(RefPath(ref)) \in Tables
         /\ Joined(OwnTable(ref), TableAt(RefPath(ref)))
         /\ Ends(ref.fk) = {OwnTable(ref), TableAt(RefPath(ref))}
BY SchemaFacts DEF OwnTable, RefPath, Joined, Fks, Ends

\* Tables that are joined still are so by a live reference of either.
LEMMA JoinedByRef ==
  ASSUME NEW s, NEW t, StillJoined(s, t)
  PROVE  /\ s \notin dropped
         /\ \E ref \in [fk : Fks, side : Sides] :
              Live(ref.fk) /\ OwnTable(ref) = s /\ TableAt(RefPath(ref)) = t
<1>1. PICK i \in Fks : Live(i) /\ Ends(i) = {s, t} /\ s \notin dropped
  BY DEF StillJoined, Shown, Fks
<1> DEFINE a == TableAt(schema.fks[i].table)
           b == TableAt(schema.fks[i].ref)
<1>2. {a, b} = {s, t}
  BY <1>1 DEF Ends
<1> HIDE DEF a, b
<1>3. CASE a = s /\ b = t
  <2>1. [fk |-> i, side |-> "source"] \in [fk : Fks, side : Sides]
    BY DEF Sides
  <2> QED
    BY <1>1, <1>3, <2>1 DEF OwnTable, RefPath, a, b
<1>4. CASE a = t /\ b = s
  <2>1. [fk |-> i, side |-> "target"] \in [fk : Fks, side : Sides]
    BY DEF Sides
  <2> QED
    BY <1>1, <1>4, <2>1 DEF OwnTable, RefPath, a, b
<1> QED
  BY <1>2, <1>3, <1>4

\* A schema that stays is as joined as it was, and no more so when a table is
\* dropped.
LEMMA SameSchema ==
  ASSUME schema' = schema
  PROVE  /\ Reached' = Reached /\ Fks' = Fks
         /\ \A p : TableAt(p)' = TableAt(p)
         /\ \A ref : RefPath(ref)' = RefPath(ref) /\ OwnTable(ref)' = OwnTable(ref)
         /\ \A t, k : Near(t, k)' <=> Near(t, k)
<1>1. Reached' = Reached
  BY DEF Reached, Tables, Joined, Ends, TableAt
<1> QED
  BY <1>1 DEF Fks, RefPath, OwnTable, Near, TableAt

LEMMA LiveKept ==
  ASSUME schema' = schema, dropped \subseteq dropped'
  PROVE  /\ \A i : Live(i)' => Live(i)
         /\ \A s, t : StillJoined(s, t)' => StillJoined(s, t)
<1>1. \A i : Live(i)' => Live(i)
  BY DEF Live, TableAt
<1>2. ASSUME NEW s, NEW t, StillJoined(s, t)' PROVE StillJoined(s, t)
  <2>1. PICK i \in DOMAIN schema.fks : Ends(i) = {s, t} /\ s \in Ends(i) /\ s \notin dropped /\ Live(i)'
    BY <1>2 DEF StillJoined, Shown, Ends, TableAt
  <2> QED
    BY <1>1, <2>1 DEF StillJoined, Shown
<1> QED
  BY <1>1, <1>2

LEMMA StillNearKept ==
  ASSUME schema \in Schemas, schema' = schema, dropped \subseteq dropped'
  PROVE  \A k \in 0..MaxDepth : \A t : StillNear(t, k)' => StillNear(t, k)
<1> DEFINE less == [s \in Tables |-> {t \in Tables : StillJoined(s, t)'}]
           next == [s \in Tables |-> {t \in Tables : StillJoined(s, t)}]
<1>1. /\ TableAt(1) \in Tables /\ less \in [Tables -> SUBSET Tables]
      /\ next \in [Tables -> SUBSET Tables]
  BY SchemaFacts
<1>2. \A s \in Tables : less[s] \subseteq next[s]
  BY LiveKept
<1>3. StillReached = Away(TableAt(1), next)
  BY DEF StillReached
<1>4. StillReached' = Away(TableAt(1), less)
  BY DEF StillReached, Tables, TableAt
<1> HIDE DEF less, next
<1>5. \A k \in 0..MaxDepth : StillReached'[k] \subseteq StillReached[k]
  BY <1>1, <1>2, <1>3, <1>4, AwayLess
<1> QED
  BY <1>5 DEF StillNear
-----------------------------------------------------------------------------
(* The graph is right *)

\* The nodes of before are nodes of now.
NodesKept ==
  /\ Len(nodes) \in Nat /\ Len(nodes') \in Nat /\ Len(nodes) <= Len(nodes')
  /\ \A i \in 1..Len(nodes) : nodes'[i] = nodes[i]

\* The graph is right when there is none,
LEMMA GraphInitial == DiscoveryInit => GraphInv
<1> SUFFICES ASSUME DiscoveryInit PROVE GraphInv
  OBVIOUS
<1>1. cur \in Entries
  BY EmptySeq DEF DiscoveryInit, Nobody, Entries
<1>2. GraphTyped
  BY <1>1, EmptySeq DEF DiscoveryInit, GraphTyped
<1>3. Len(nodes) = 0 /\ Len(edges) = 0 /\ Len(queue) = 0
  BY EmptySeq DEF DiscoveryInit
<1> QED
  BY <1>2, <1>3 DEF DiscoveryInit, GraphInv, NodesRight, EdgesRight, Drawing

\* The one being expanded is a table that may be, and its next reference is one
\* of its own.
LEMMA CurrentFacts ==
  ASSUME GraphInv, cur.refs # <<>>
  PROVE  LET ref == Head(cur.refs) IN
         /\ cur.id \in 1..Len(nodes) /\ cur.depth \in 0..(MaxDepth - 1)
         /\ Near(TableAt(nodes[cur.id].path), cur.depth) /\ Near(TableAt(nodes[cur.id].path), MaxDepth - 1)
         /\ ref \in Refs /\ ref.fk \in Fks /\ ref.side \in Sides
         /\ OwnTable(ref) = TableAt(nodes[cur.id].path)
         /\ RefPath(ref) \in DOMAIN schema.names /\ Near(TableAt(RefPath(ref)), cur.depth + 1)
         /\ Near(TableAt(RefPath(ref)), MaxDepth) /\ Joined(TableAt(nodes[cur.id].path), TableAt(RefPath(ref)))
<1> DEFINE ref == Head(cur.refs)
<1>1. schema \in Schemas /\ cur.refs \in Seq(Refs) /\ MaxDepth \in Nat \ {0}
  BY DiscoveryAssumption DEF GraphInv, GraphTyped, Entries
<1>2. EntryRight(cur)
  BY DEF GraphInv, Nobody
<1>3. ref = cur.refs[1] /\ Len(cur.refs) \in Nat \ {0}
  BY <1>1, Taken
<1>4. ref \in Refs
  <2>1. 1 \in 1..Len(cur.refs)
    BY <1>3
  <2> QED
    BY <1>1, <1>3, <2>1, ElementOfSeq
<1>5. /\ cur.id \in 1..Len(nodes) /\ cur.depth \in 0..(MaxDepth - 1)
      /\ Near(TableAt(nodes[cur.id].path), cur.depth) /\ ref.fk \in Fks
      /\ OwnTable(ref) = TableAt(nodes[cur.id].path)
  BY <1>2, <1>3 DEF EntryRight
<1> HIDE DEF ref
<1>6. Near(TableAt(nodes[cur.id].path), MaxDepth - 1)
  BY <1>1, <1>5, NearFarther
<1>7. /\ RefPath(ref) \in DOMAIN schema.names /\ TableAt(RefPath(ref)) \in Tables
      /\ Joined(TableAt(nodes[cur.id].path), TableAt(RefPath(ref)))
  BY <1>1, <1>5, RefJoins
<1>8. Near(TableAt(RefPath(ref)), cur.depth + 1)
  <2>1. cur.depth + 1 \in 1..MaxDepth /\ (cur.depth + 1) - 1 = cur.depth
    BY <1>1, <1>5
  <2> QED
    BY <1>1, <1>5, <1>7, <2>1, NearFacts
<1>9. Near(TableAt(RefPath(ref)), MaxDepth)
  <2>1. cur.depth + 1 \in 0..MaxDepth /\ MaxDepth \in 0..MaxDepth /\ cur.depth + 1 <= MaxDepth
    BY <1>1, <1>5
  <2> QED
    BY <1>1, <1>8, <2>1, NearFarther
<1> QED
  BY <1>4, <1>5, <1>6, <1>7, <1>8, <1>9 DEF ref, Refs

\* What is right of an edge, and of an entry, in the next state.
EdgeRightThen(e) ==
  /\ e.source \in 1..Len(nodes') /\ e.target \in 1..Len(nodes') /\ e.source # e.target
  /\ e.fk \in Fks /\ OwnTable([fk |-> e.fk, side |-> e.fk_side]) = TableAt(nodes'[e.source].path)
  /\ RefPath([fk |-> e.fk, side |-> e.fk_side]) = nodes'[e.target].path
  /\ Near(TableAt(nodes'[e.source].path), MaxDepth - 1)
EntryRightThen(entry) ==
  /\ entry.id \in 1..Len(nodes')
  /\ entry.depth \in 0..(MaxDepth - 1) /\ Near(TableAt(nodes'[entry.id].path), entry.depth)
  /\ \A k \in 1..Len(entry.refs) :
       entry.refs[k].fk \in Fks /\ OwnTable(entry.refs[k]) = TableAt(nodes'[entry.id].path)

\* What was right remains so while the nodes are kept.
LEMMA RightKept ==
  ASSUME NodesKept
  PROVE  /\ \A e : EdgeRight(e) => EdgeRightThen(e)
         /\ \A entry : EntryRight(entry) => EntryRightThen(entry)
BY DEF NodesKept, EdgeRight, EdgeRightThen, EntryRight, EntryRightThen

\* What is right in the next state, of the edges and entries there are then.
LEMMA RightThen ==
  ASSUME schema' = schema
  PROVE  /\ (\A i \in 1..Len(edges') : EdgeRightThen(edges'[i]))
              => (\A i \in 1..Len(edges) : EdgeRight(edges[i]))'
         /\ (\A k \in 1..Len(queue') : EntryRightThen(queue'[k]))
              => (\A k \in 1..Len(queue) : EntryRight(queue[k]))'
         /\ EntryRightThen(cur') => EntryRight(cur)'
BY SameSchema DEF EdgeRight, EdgeRightThen, EntryRight, EntryRightThen, OwnTable, RefPath, Near, Fks

\* The edge of the reference that is followed is right, and not there twice.
LEMMA EdgesConnected ==
  ASSUME GraphInv, schema' = schema, NodesKept, cur.refs # <<>>,
         NEW target, target \in 1..Len(nodes'), target # cur.id,
         nodes'[target].path = RefPath(Head(cur.refs)), Connect(Head(cur.refs), target)
  PROVE  edges' \in Seq(Edges) /\ EdgesRight'
<1> DEFINE ref == Head(cur.refs)
           e == [source |-> cur.id, target |-> target, fk_side |-> ref.side, fk |-> ref.fk]
<1>1. edges \in Seq(Edges) /\ EdgesRight /\ schema \in Schemas /\ Len(edges) \in Nat
  BY LenProperties DEF GraphInv, GraphTyped
<1>2. /\ cur.id \in 1..Len(nodes) /\ ref \in Refs /\ ref.fk \in Fks /\ ref.side \in Sides
      /\ OwnTable(ref) = TableAt(nodes[cur.id].path) /\ Near(TableAt(nodes[cur.id].path), MaxDepth - 1)
  BY CurrentFacts
<1>3. /\ Len(nodes) \in Nat /\ Len(nodes') \in Nat /\ Len(nodes) <= Len(nodes')
      /\ \A i \in 1..Len(nodes) : nodes'[i] = nodes[i]
  BY DEF NodesKept
<1>4. \A i \in 1..Len(edges) : EdgeRightThen(edges[i])
  BY <1>1, RightKept DEF EdgesRight
<1>5. e \in Edges
  BY <1>2, <1>3 DEF Edges, Refs
<1>6. EdgeRightThen(e)
  <2>1. nodes'[cur.id] = nodes[cur.id] /\ cur.id \in 1..Len(nodes')
    BY <1>2, <1>3
  <2>2. OwnTable([fk |-> ref.fk, side |-> ref.side]) = OwnTable(ref)
        /\ RefPath([fk |-> ref.fk, side |-> ref.side]) = RefPath(ref)
    BY DEF OwnTable, RefPath
  <2> QED
    BY <1>2, <2>1, <2>2 DEF EdgeRightThen
<1> HIDE DEF e
<1>7. edges' = IF Seen(cur.id, target) THEN edges ELSE Append(edges, e)
  BY DEF Connect, e
<1>8. e.source = cur.id /\ e.target = target
  BY DEF e
<1>9. /\ edges' \in Seq(Edges) /\ Len(edges') \in Nat
      /\ \A i \in 1..Len(edges') :
           \/ i \in 1..Len(edges) /\ edges'[i] = edges[i]
           \/ ~Seen(cur.id, target) /\ i = Len(edges) + 1 /\ edges'[i] = e
  <2>1. CASE Seen(cur.id, target)
    BY <1>1, <1>7, <2>1
  <2>2. CASE ~Seen(cur.id, target)
    <3>1. /\ edges' \in Seq(Edges) /\ Len(edges') = Len(edges) + 1
          /\ \A i \in 1..Len(edges) : edges'[i] = edges[i]
          /\ edges'[Len(edges) + 1] = e
      BY <1>1, <1>5, <1>7, <2>2, Appended
    <3> QED
      BY <1>1, <2>2, <3>1
  <2> QED
    BY <2>1, <2>2
<1>10. \A i \in 1..Len(edges') : EdgeRightThen(edges'[i])
  BY <1>4, <1>6, <1>9
<1>11. (\A i \in 1..Len(edges) : EdgeRight(edges[i]))'
  BY <1>10, RightThen
<1>12. ASSUME ~Seen(cur.id, target), NEW i \in 1..Len(edges)
       PROVE  {edges[i].source, edges[i].target} # {e.source, e.target}
  <2>1. i \in DOMAIN edges
    BY <1>1, LenProperties
  <2> QED
    BY <1>8, <1>12, <2>1 DEF Seen
<1>13. ASSUME NEW i \in 1..Len(edges'), NEW j \in 1..Len(edges'),
              {edges'[i].source, edges'[i].target} = {edges'[j].source, edges'[j].target}
       PROVE  i = j
  <2>1. CASE i \in 1..Len(edges) /\ edges'[i] = edges[i] /\ j \in 1..Len(edges) /\ edges'[j] = edges[j]
    BY <1>1, <1>13, <2>1 DEF EdgesRight
  <2>2. CASE ~Seen(cur.id, target) /\ i = Len(edges) + 1 /\ edges'[i] = e
    <3>1. ~(j \in 1..Len(edges) /\ edges'[j] = edges[j])
      BY <1>12, <1>13, <2>2
    <3> QED
      BY <1>9, <2>2, <3>1
  <2>3. CASE ~Seen(cur.id, target) /\ j = Len(edges) + 1 /\ edges'[j] = e
    <3>1. ~(i \in 1..Len(edges) /\ edges'[i] = edges[i])
      BY <1>12, <1>13, <2>3
    <3> QED
      BY <1>9, <2>3, <3>1
  <2> QED
    BY <1>9, <2>1, <2>2, <2>3
<1> QED
  BY <1>9, <1>11, <1>13 DEF EdgesRight

\* A step that keeps the nodes keeps each of them.
LEMMA NodesStay == ASSUME GraphInv, UNCHANGED nodes PROVE NodesKept
BY LenProperties DEF NodesKept, GraphInv, GraphTyped

\* A step that keeps the graph keeps what is right of it.
LEMMA GraphStays ==
  ASSUME GraphInv, UNCHANGED <<schema, nodes, edges>>
  PROVE  /\ (dropped' = dropped \/ dropped = {}) => NodesRight'
         /\ EdgesRight'
<1>1. NodesKept
  BY NodesStay
<1>2. NodesRight /\ EdgesRight
  BY DEF GraphInv
<1>3. EdgesRight'
  <2>1. \A i \in 1..Len(edges') : EdgeRightThen(edges'[i])
    BY <1>1, <1>2, RightKept DEF EdgesRight
  <2> QED
    BY <1>2, <2>1, RightThen DEF EdgesRight
<1>4. ASSUME dropped' = dropped \/ dropped = {} PROVE NodesRight'
  BY <1>2, <1>4, SameSchema DEF NodesRight, Near
<1> QED
  BY <1>3, <1>4

\* So does one that keeps the entries too, or drops a table.
LEMMA EntriesStay ==
  ASSUME GraphInv, UNCHANGED <<schema, nodes, queue, cur>>
  PROVE  /\ (\A k \in 1..Len(queue) : EntryRight(queue[k]))'
         /\ (cur = Nobody \/ EntryRight(cur))'
<1>1. NodesKept
  BY NodesStay
<1>2. \A k \in 1..Len(queue') : EntryRightThen(queue'[k])
  BY <1>1, RightKept DEF GraphInv
<1>3. cur' = Nobody \/ EntryRightThen(cur')
  BY <1>1, RightKept DEF GraphInv
<1> QED
  BY <1>2, <1>3, RightThen DEF Nobody

\* when the next table is to be expanded,
LEMMA GraphPopLeft == ASSUME GraphInv, PopLeft PROVE GraphInv'
<1>1. /\ cur' = Head(queue) /\ queue' = Tail(queue) /\ queue # <<>>
      /\ UNCHANGED <<schema, dropped, phase, nodes, edges>> /\ phase = "discover"
  BY DEF PopLeft
<1>2. /\ schema \in Schemas /\ nodes \in Seq(Nodes) /\ edges \in Seq(Edges)
      /\ queue \in Seq(Entries)
  BY DEF GraphInv, GraphTyped
<1>3. /\ cur' = queue[1] /\ queue' \in Seq(Entries) /\ Len(queue) \in Nat \ {0}
      /\ Len(queue') = Len(queue) - 1 /\ \A k \in 1..(Len(queue) - 1) : queue'[k] = queue[k + 1]
  BY <1>1, <1>2, Taken
<1>4. GraphTyped'
  <2>1. cur' \in Entries
    <3>1. 1 \in 1..Len(queue)
      BY <1>3
    <3> QED
      BY <1>2, <1>3, <3>1, ElementOfSeq
  <2> QED
    BY <1>1, <1>2, <1>3, <2>1 DEF GraphTyped
<1>5. NodesKept /\ \A k \in 1..Len(queue) : EntryRightThen(queue[k])
  BY <1>1, NodesStay, RightKept DEF GraphInv
<1>6. EntryRightThen(cur') /\ \A k \in 1..Len(queue') : EntryRightThen(queue'[k])
  <2>1. 1 \in 1..Len(queue) /\ \A k \in 1..Len(queue') : k + 1 \in 1..Len(queue)
    BY <1>3
  <2> QED
    BY <1>3, <1>5, <2>1
<1>7. NodesRight' /\ EdgesRight'
  BY <1>1, GraphStays
<1> QED
  BY <1>1, <1>4, <1>6, <1>7, RightThen DEF GraphInv, Drawing

\* when a table is dropped,
LEMMA GraphDropTable == ASSUME GraphInv, DropTable PROVE GraphInv'
<1>1. /\ UNCHANGED <<schema, phase, nodes, edges, queue, cur>> /\ dropped = {}
  BY DEF DropTable
<1>2. GraphTyped'
  BY <1>1 DEF GraphInv, GraphTyped
<1> QED
  BY <1>1, <1>2, GraphStays, EntriesStay DEF GraphInv

\* when there is nothing left to expand,
LEMMA GraphDiscovered == ASSUME GraphInv, Discovered PROVE GraphInv'
<1>1. /\ UNCHANGED graphVars /\ phase = "discover" /\ phase' = "layout"
      /\ queue = <<>> /\ cur.refs = <<>>
  BY DEF Discovered
<1>2. GraphTyped'
  BY <1>1 DEF GraphInv, GraphTyped, graphVars, Drawing
<1> QED
  BY <1>1, <1>2, GraphStays, EntriesStay DEF GraphInv, graphVars

\* and when it is drawn,
LEMMA GraphDraw == ASSUME GraphInv, Draw PROVE GraphInv'
<1>1. UNCHANGED graphVars /\ phase \in Drawing /\ phase' \in Drawing
  BY DEF Draw
<1>2. GraphTyped'
  BY <1>1 DEF GraphInv, GraphTyped, graphVars
<1> QED
  BY <1>1, <1>2, GraphStays, EntriesStay DEF GraphInv, graphVars, Drawing

\* or nothing happens,
LEMMA GraphStutter == ASSUME GraphInv, UNCHANGED discoveryVars PROVE GraphInv'
<1>1. UNCHANGED graphVars /\ UNCHANGED phase
  BY DEF discoveryVars
<1>2. GraphTyped'
  BY <1>1 DEF GraphInv, GraphTyped, graphVars
<1> QED
  BY <1>1, <1>2, GraphStays, EntriesStay DEF GraphInv, graphVars

\* when a describe raises;
LEMMA GraphDescribeRaises == ASSUME GraphInv, DescribeRaises PROVE GraphInv'
<1>1. UNCHANGED graphVars /\ phase' = "error"
  BY DEF DescribeRaises
<1>2. GraphTyped'
  BY <1>1 DEF GraphInv, GraphTyped, graphVars
<1> QED
  BY <1>1, <1>2, GraphStays, EntriesStay DEF GraphInv, graphVars, Drawing

\* with the first table in it,
LEMMA GraphStart == ASSUME GraphInv, Start PROVE GraphInv'
<1>1. schema \in Schemas /\ MaxDepth \in Nat \ {0} /\ 1 \in DOMAIN schema.names
  BY DiscoveryAssumption, SchemaFacts DEF GraphInv, GraphTyped
<1>2. UNCHANGED <<schema, dropped, edges, cur>> /\ nodes = <<>> /\ Len(nodes) = 0
  BY EmptySeq DEF GraphInv, Start
<1>3. Len(edges) = 0 /\ Len(queue) = 0 /\ cur = Nobody
  <2>1. Len(edges) \in Nat /\ Len(queue) \in Nat
    BY LenProperties DEF GraphInv, GraphTyped
  <2>2. \A i : ~(i \in 1..Len(nodes))
    BY <1>2
  <2>3. ~(1 \in 1..Len(edges))
    BY <2>2 DEF GraphInv, EdgesRight, EdgeRight
  <2>4. ~(1 \in 1..Len(queue)) /\ cur = Nobody
    BY <2>2 DEF GraphInv, EntryRight
  <2> QED
    BY <2>1, <2>3, <2>4
<1>4. EdgesRight'
  BY <1>2, <1>3 DEF EdgesRight
<1>5. CASE ~Resolves(1)
  <2>1. phase' = "error" /\ UNCHANGED <<nodes, queue>>
    BY <1>5 DEF Start
  <2>2. GraphTyped'
    BY <1>2, <2>1 DEF GraphInv, GraphTyped
  <2> QED
    BY <1>2, <1>3, <1>4, <2>1, <2>2 DEF GraphInv, NodesRight, Drawing
<1>6. CASE Resolves(1)
  <2> DEFINE node == Described(1)
             entry == [id |-> 1, refs |-> node.refs, depth |-> 0]
  <2>1. phase' = "discover" /\ nodes' = <<node>> /\ queue' = <<entry>>
    BY <1>6 DEF Start
  <2>2. /\ node \in Nodes /\ node.path = 1 /\ ~node.unavailable
        /\ \A k \in 1..Len(node.refs) :
             node.refs[k].fk \in Fks /\ OwnTable(node.refs[k]) = TableAt(1)
    BY <1>1, DescribedFacts
  <2> HIDE DEF node
  <2>3. entry \in Entries
    BY <2>2 DEF Entries, Nodes
  <2>4. nodes' \in Seq(Nodes) /\ Len(nodes') = 1 /\ nodes'[1] = node
    BY <2>1, <2>2
  <2>5. queue' \in Seq(Entries) /\ Len(queue') = 1 /\ queue'[1] = entry
    BY <2>1, <2>3
  <2>6. GraphTyped'
    BY <1>2, <2>1, <2>4, <2>5 DEF GraphInv, GraphTyped
  <2>7. Near(TableAt(1), 0) /\ Near(TableAt(1), MaxDepth)
    <3>1. Near(TableAt(1), 0)
      BY <1>1, NearFacts
    <3>2. 0 \in 0..MaxDepth /\ MaxDepth \in 0..MaxDepth /\ 0 <= MaxDepth
      BY <1>1
    <3> QED
      BY <1>1, <3>1, <3>2, NearFarther
  <2>8. NodesRight'
    BY <1>1, <1>2, <2>2, <2>4, <2>7, SameSchema DEF NodesRight, Near
  <2>9. EntryRightThen(entry)
    BY <1>1, <2>2, <2>4, <2>7 DEF EntryRightThen
  <2>10. (\A k \in 1..Len(queue) : EntryRight(queue[k]))'
    BY <1>2, <2>5, <2>9, RightThen
  <2> QED
    BY <1>2, <1>3, <1>4, <2>1, <2>6, <2>8, <2>10 DEF GraphInv, Drawing, Nobody
<1> QED
  BY <1>5, <1>6

\* The steps of Follow: the reference is of the table itself, of one that was
\* found, or of another.
FollowSelf ==
  /\ RefPath(Head(cur.refs)) = nodes[cur.id].path /\ UNCHANGED <<nodes, edges, queue>>
FollowVisited ==
  LET path == RefPath(Head(cur.refs)) IN
  /\ path # nodes[cur.id].path /\ Visited(path)
  /\ Connect(Head(cur.refs), NodeOf(path))
  /\ UNCHANGED <<nodes, queue>>
FollowNew ==
  LET path == RefPath(Head(cur.refs)) IN
  /\ ~Visited(path)
  /\ nodes' = Append(nodes, IF Resolves(path) THEN Described(path) ELSE Unavailable(path))
  /\ queue' = IF Resolves(path) /\ Expands(cur.depth + 1)
              THEN Append(queue, [id |-> Len(nodes) + 1, refs |-> Described(path).refs,
                                  depth |-> cur.depth + 1])
              ELSE queue
  /\ Connect(Head(cur.refs), Len(nodes) + 1)

\* What following a reference leaves to follow, and the three ways it goes.
LEMMA FollowCases ==
  ASSUME GraphInv, Follow
  PROVE  /\ UNCHANGED <<schema, dropped, phase>> /\ phase = "discover" /\ cur.refs # <<>>
         /\ FollowSelf \/ FollowVisited \/ FollowNew
         /\ cur' = [cur EXCEPT !.refs = Tail(cur.refs)] /\ cur' \in Entries
         /\ cur'.id = cur.id /\ cur'.depth = cur.depth /\ cur'.refs = Tail(cur.refs)
         /\ Len(cur.refs) \in Nat \ {0} /\ Len(cur'.refs) = Len(cur.refs) - 1
         /\ \A k \in 1..(Len(cur.refs) - 1) : cur'.refs[k] = cur.refs[k + 1]
         /\ Head(cur.refs) = cur.refs[1]
<1>1. /\ UNCHANGED <<schema, dropped, phase>> /\ phase = "discover" /\ cur.refs # <<>>
      /\ cur' = [cur EXCEPT !.refs = Tail(cur.refs)]
      /\ FollowSelf \/ FollowVisited \/ FollowNew
  BY DEF Follow, FollowSelf, FollowVisited, FollowNew
<1>2. cur \in Entries /\ cur.refs \in Seq(Refs)
  BY DEF GraphInv, GraphTyped, Entries
<1>3. /\ Tail(cur.refs) \in Seq(Refs) /\ Head(cur.refs) = cur.refs[1]
      /\ Len(cur.refs) \in Nat \ {0} /\ Len(Tail(cur.refs)) = Len(cur.refs) - 1
      /\ \A k \in 1..(Len(cur.refs) - 1) : Tail(cur.refs)[k] = cur.refs[k + 1]
  BY <1>1, <1>2, Taken
<1>4. cur' \in Entries /\ cur'.id = cur.id /\ cur'.depth = cur.depth /\ cur'.refs = Tail(cur.refs)
  BY <1>1, <1>2, <1>3 DEF Entries
<1> QED
  BY <1>1, <1>3, <1>4

\* The node of a table that was found.
LEMMA NodeOfFacts ==
  ASSUME NEW path, Visited(path), nodes \in Seq(Nodes)
  PROVE  NodeOf(path) \in 1..Len(nodes) /\ nodes[NodeOf(path)].path = path
BY LenProperties DEF Visited, NodeOf

\* and with what a reference leads to.
LEMMA GraphFollow == ASSUME GraphInv, Follow PROVE GraphInv'
<1> DEFINE ref == Head(cur.refs)
           path == RefPath(ref)
<1>1. /\ schema \in Schemas /\ nodes \in Seq(Nodes) /\ edges \in Seq(Edges)
      /\ queue \in Seq(Entries) /\ MaxDepth \in Nat \ {0} /\ Len(nodes) \in Nat
      /\ NodesRight /\ EdgesRight /\ \A k \in 1..Len(queue) : EntryRight(queue[k])
  BY DiscoveryAssumption, LenProperties DEF GraphInv, GraphTyped
<1>2. /\ UNCHANGED <<schema, dropped, phase>> /\ phase = "discover" /\ cur.refs # <<>>
      /\ FollowSelf \/ FollowVisited \/ FollowNew
      /\ cur' \in Entries /\ cur'.id = cur.id /\ cur'.depth = cur.depth
      /\ Len(cur.refs) \in Nat \ {0} /\ Len(cur'.refs) = Len(cur.refs) - 1
      /\ \A k \in 1..(Len(cur.refs) - 1) : cur'.refs[k] = cur.refs[k + 1]
  BY FollowCases
<1>3. /\ cur.id \in 1..Len(nodes) /\ cur.depth \in 0..(MaxDepth - 1)
      /\ path \in DOMAIN schema.names /\ Near(TableAt(path), cur.depth + 1) /\ Near(TableAt(path), MaxDepth)
  BY <1>2, CurrentFacts
<1>4. EntryRight(cur)
  BY <1>2, EmptySeq DEF GraphInv, Nobody
<1>5. ASSUME NodesKept PROVE EntryRightThen(cur')
  <2>1. EntryRightThen(cur)
    BY <1>4, <1>5, RightKept
  <2>2. \A k \in 1..Len(cur'.refs) : k + 1 \in 1..Len(cur.refs) /\ cur'.refs[k] = cur.refs[k + 1]
    BY <1>2
  <2> QED
    BY <1>2, <2>1, <2>2 DEF EntryRightThen
<1>6. CASE FollowSelf \/ FollowVisited
  <2>1. UNCHANGED <<nodes, queue>> /\ NodesKept
    BY <1>6, NodesStay DEF FollowSelf, FollowVisited
  <2>2. edges' \in Seq(Edges) /\ EdgesRight'
    <3>1. CASE FollowSelf
      BY <1>1, <1>2, <3>1, GraphStays DEF FollowSelf
    <3>2. CASE FollowVisited
      <4> DEFINE target == NodeOf(path)
      <4>1. path # nodes[cur.id].path /\ Visited(path) /\ Connect(ref, target)
        BY <3>2 DEF FollowVisited
      <4>2. target \in 1..Len(nodes) /\ nodes[target].path = path
        BY <1>1, <4>1, NodeOfFacts
      <4>3. target \in 1..Len(nodes') /\ nodes'[target].path = path /\ target # cur.id
        BY <2>1, <4>1, <4>2
      <4> HIDE DEF target
      <4> QED
        BY <1>2, <2>1, <4>1, <4>3, EdgesConnected
    <3> QED
      BY <1>6, <3>1, <3>2
  <2>3. GraphTyped'
    BY <1>1, <1>2, <2>1, <2>2 DEF GraphTyped
  <2>4. NodesRight'
    BY <1>1, <1>2, <2>1, SameSchema DEF NodesRight, Near
  <2>5. \A k \in 1..Len(queue') : EntryRightThen(queue'[k])
    BY <1>1, <2>1, RightKept
  <2> QED
    BY <1>2, <1>5, <2>1, <2>2, <2>3, <2>4, <2>5, RightThen DEF GraphInv, Drawing
<1>7. CASE FollowNew
  <2> DEFINE node == IF Resolves(path) THEN Described(path) ELSE Unavailable(path)
             entry == [id |-> Len(nodes) + 1, refs |-> Described(path).refs,
                       depth |-> cur.depth + 1]
  <2>1. /\ ~Visited(path) /\ nodes' = Append(nodes, node) /\ Connect(ref, Len(nodes) + 1)
        /\ queue' = IF Resolves(path) /\ Expands(cur.depth + 1)
                    THEN Append(queue, entry) ELSE queue
    BY <1>7 DEF FollowNew
  <2>2. /\ Described(path) \in Nodes /\ Described(path).path = path
        /\ ~Described(path).unavailable
        /\ \A k \in 1..Len(Described(path).refs) :
             /\ Described(path).refs[k].fk \in Fks
             /\ OwnTable(Described(path).refs[k]) = TableAt(path)
    BY <1>1, <1>3, DescribedFacts
  <2>4. node \in Nodes /\ node.path = path /\ (node.unavailable => TableAt(path) \in dropped)
    <3>1. CASE ~Resolves(path)
      <4>1. Unavailable(path) \in Nodes /\ Unavailable(path).path = path
        BY <1>1, <1>3, ColumnlessFacts DEF Unavailable
      <4> QED
        BY <3>1, <4>1 DEF Resolves
    <3>2. CASE Resolves(path)
      BY <2>2, <3>2
    <3> QED
      BY <3>1, <3>2
  <2>5. entry \in Entries
    <3>1. Described(path).refs \in Seq(Refs)
      BY <2>2 DEF Nodes
    <3>2. Len(nodes) + 1 \in Nat /\ cur.depth + 1 \in Nat
      BY <1>1, <1>3
    <3> QED
      BY <3>1, <3>2 DEF Entries
  <2> HIDE DEF node, path
  <2>6. /\ nodes' \in Seq(Nodes) /\ Len(nodes') = Len(nodes) + 1
        /\ \A i \in 1..Len(nodes) : nodes'[i] = nodes[i]
        /\ nodes'[Len(nodes) + 1] = node
    BY <1>1, <2>1, <2>4, Appended
  <2>7. NodesKept
    BY <1>1, <2>6 DEF NodesKept
  <2>8. edges' \in Seq(Edges) /\ EdgesRight'
    <3> DEFINE target == Len(nodes) + 1
    <3>1. target \in 1..Len(nodes') /\ target # cur.id /\ nodes'[target].path = path
      BY <1>1, <1>3, <2>4, <2>6
    <3>2. Connect(ref, target)
      BY <2>1
    <3> HIDE DEF target
    <3> QED
      BY <1>2, <2>7, <3>1, <3>2, EdgesConnected DEF path
  <2>9. NodesRight'
    <3>1. \A i \in 1..Len(nodes) : nodes[i].path # path
      BY <1>1, <2>1, LenProperties DEF Visited
    <3>2. \A i \in 1..Len(nodes') :
            \/ i \in 1..Len(nodes) /\ nodes'[i] = nodes[i]
            \/ i = Len(nodes) + 1 /\ nodes'[i] = node
      BY <1>1, <2>6
    <3>3. ASSUME NEW i \in 1..Len(nodes'), NEW j \in 1..Len(nodes'),
                 nodes'[i].path = nodes'[j].path
          PROVE  i = j
      <4>1. CASE i \in 1..Len(nodes) /\ j \in 1..Len(nodes)
        <5>1. nodes[i].path = nodes[j].path
          BY <2>6, <3>3, <4>1
        <5> QED
          BY <1>1, <4>1, <5>1 DEF NodesRight
      <4>2. CASE ~(i \in 1..Len(nodes) /\ j \in 1..Len(nodes))
        BY <2>4, <3>1, <3>2, <3>3, <4>2
      <4> QED
        BY <4>1, <4>2
    <3>4. ASSUME NEW i \in 1..Len(nodes') PROVE
            /\ nodes'[i].path \in DOMAIN schema.names /\ Near(TableAt(nodes'[i].path), MaxDepth)
            /\ nodes'[i].unavailable => TableAt(nodes'[i].path) \in dropped
      <4>1. CASE i \in 1..Len(nodes) /\ nodes'[i] = nodes[i]
        BY <1>1, <4>1 DEF NodesRight
      <4>2. CASE nodes'[i] = node
        BY <1>3, <2>4, <4>2
      <4> QED
        BY <3>2, <4>1, <4>2
    <3> QED
      BY <1>2, <3>3, <3>4, SameSchema DEF NodesRight, Near
  <2>10. queue' \in Seq(Entries) /\ \A k \in 1..Len(queue') : EntryRightThen(queue'[k])
    <3>1. \A k \in 1..Len(queue) : EntryRightThen(queue[k])
      BY <1>1, <2>7, RightKept
    <3>2. CASE Resolves(path) /\ Expands(cur.depth + 1)
      <4>1. /\ queue' \in Seq(Entries) /\ Len(queue) \in Nat /\ Len(queue') = Len(queue) + 1
            /\ \A k \in 1..Len(queue) : queue'[k] = queue[k]
            /\ queue'[Len(queue) + 1] = entry
        <5>1. queue' = Append(queue, entry)
          BY <2>1, <3>2
        <5> HIDE DEF entry
        <5> QED
          BY <1>1, <2>5, <5>1, Appended
      <4>2. EntryRightThen(entry)
        <5>1. cur.depth + 1 \in 0..(MaxDepth - 1)
          BY <1>1, <1>3, <3>2 DEF Expands
        <5>2. Len(nodes) + 1 \in 1..Len(nodes') /\ nodes'[Len(nodes) + 1].path = path
          BY <1>1, <2>4, <2>6
        <5> QED
          BY <1>3, <2>2, <5>1, <5>2 DEF EntryRightThen
      <4> HIDE DEF entry
      <4>3. ASSUME NEW k \in 1..Len(queue') PROVE EntryRightThen(queue'[k])
        <5>1. k \in 1..Len(queue) \/ k = Len(queue) + 1
          BY <4>1
        <5> QED
          BY <3>1, <4>1, <4>2, <5>1
      <4> QED
        BY <4>1, <4>3
    <3>3. CASE ~(Resolves(path) /\ Expands(cur.depth + 1))
      BY <1>1, <2>1, <3>1, <3>3
    <3> QED
      BY <3>2, <3>3
  <2>11. GraphTyped'
    BY <1>1, <1>2, <2>6, <2>8, <2>10 DEF GraphTyped
  <2> QED
    BY <1>2, <1>5, <2>7, <2>8, <2>9, <2>10, <2>11, RightThen DEF GraphInv, Drawing
<1> QED
  BY <1>2, <1>6, <1>7

\* What is found is right at every step of a discovery (discover).
THEOREM GraphIsRight == DiscoverySpec => []GraphInv
<1>1. ASSUME GraphInv, [DiscoveryNext]_discoveryVars PROVE GraphInv'
  BY <1>1, GraphStart, GraphPopLeft, GraphFollow, GraphDropTable, GraphDiscovered, GraphDraw,
     GraphDescribeRaises, GraphStutter DEF DiscoveryNext
<1> QED
  BY <1>1, GraphInitial, PTL DEF DiscoverySpec
-----------------------------------------------------------------------------
(* Nothing is missed *)

\* The edges of before are edges of now.
EdgesKept ==
  /\ Len(edges) \in Nat /\ Len(edges') \in Nat /\ Len(edges) <= Len(edges')
  /\ \A i \in 1..Len(edges) : edges'[i] = edges[i]

\* What was followed of a table, in the next state.
FollowedThen(id, path) ==
  \/ path = nodes'[id].path
  \/ \E j \in 1..Len(nodes') :
       /\ nodes'[j].path = path
       /\ \E i \in 1..Len(edges') : {edges'[i].source, edges'[i].target} = {id, j}
CoveredThen(id, refs) ==
  TableAt(nodes'[id].path) \notin dropped =>
    \A ref \in [fk : Fks, side : Sides] :
      Live(ref.fk) /\ OwnTable(ref) = TableAt(nodes'[id].path) =>
        FollowedThen(id, RefPath(ref)) \/ \E k \in 1..Len(refs) : refs[k] = ref

\* The graph is in sequences.
LEMMA Lengths ==
  ASSUME GraphInv
  PROVE  /\ DOMAIN nodes = 1..Len(nodes) /\ DOMAIN edges = 1..Len(edges)
         /\ Len(nodes) \in Nat /\ Len(edges) \in Nat /\ Len(queue) \in Nat
         /\ schema \in Schemas /\ MaxDepth \in Nat \ {0}
         /\ \A k \in 1..Len(queue) : queue[k].id \in 1..Len(nodes) /\ queue[k].depth \in 0..(MaxDepth - 1)
         /\ cur.depth \in 0..(MaxDepth - 1) /\ (cur # Nobody => cur.id \in 1..Len(nodes))
BY LenProperties, DiscoveryAssumption DEF GraphInv, GraphTyped, EntryRight, Nobody

\* What was followed remains so while the graph is kept.
LEMMA FollowedKept ==
  ASSUME GraphInv, NodesKept, EdgesKept
  PROVE  /\ \A id \in 1..Len(nodes) : \A path : Followed(id, path) => FollowedThen(id, path)
         /\ \A id \in 1..Len(nodes) : \A refs : Covered(id, refs) => CoveredThen(id, refs)
<1>1. ASSUME NEW id \in 1..Len(nodes), NEW path, Followed(id, path)
      PROVE  FollowedThen(id, path)
  <2>1. CASE path = nodes[id].path
    BY <1>1, <2>1 DEF NodesKept, FollowedThen
  <2>2. CASE path # nodes[id].path
    <3>1. PICK j \in 1..Len(nodes) : nodes[j].path = path /\ Seen(id, j)
      BY <1>1, <2>2 DEF Followed
    <3>2. PICK i \in 1..Len(edges) : {edges[i].source, edges[i].target} = {id, j}
      BY <3>1, Lengths DEF Seen
    <3>3. /\ j \in 1..Len(nodes') /\ nodes'[j].path = path
          /\ i \in 1..Len(edges') /\ {edges'[i].source, edges'[i].target} = {id, j}
      <4>1. j \in 1..Len(nodes') /\ nodes'[j] = nodes[j]
        BY DEF NodesKept
      <4>2. i \in 1..Len(edges') /\ edges'[i] = edges[i]
        BY DEF EdgesKept
      <4> QED
        BY <3>1, <3>2, <4>1, <4>2
    <3> QED
      BY <3>3 DEF FollowedThen
  <2> QED
    BY <2>1, <2>2
<1>2. ASSUME NEW id \in 1..Len(nodes), NEW refs, Covered(id, refs) PROVE CoveredThen(id, refs)
  <2>1. nodes'[id] = nodes[id]
    BY <1>2 DEF NodesKept
  <2> QED
    BY <1>1, <1>2, <2>1 DEF Covered, CoveredThen
<1> QED
  BY <1>1, <1>2

\* What was followed of what is there is so in the next state, where less is there.
LEMMA CoveredIsThen ==
  ASSUME schema' = schema, dropped \subseteq dropped', GraphInv'
  PROVE  /\ (\A k \in 1..Len(queue') : CoveredThen(queue'[k].id, queue'[k].refs))
              => (\A k \in 1..Len(queue) : Covered(queue[k].id, queue[k].refs))'
         /\ CoveredThen(cur'.id, cur'.refs) => Covered(cur.id, cur.refs)'
         /\ \A i : CoveredThen(i, <<>>) => Covered(i, <<>>)'
<1>1. DOMAIN nodes' = 1..Len(nodes') /\ DOMAIN edges' = 1..Len(edges')
  BY LenProperties DEF GraphInv, GraphTyped
<1>2. \A t : t \notin dropped' => t \notin dropped
  OBVIOUS
<1>3. \A i : Live(i)' => Live(i)
  BY LiveKept
<1>4. (\A k \in 1..Len(queue') : CoveredThen(queue'[k].id, queue'[k].refs))
        => (\A k \in 1..Len(queue) : Covered(queue[k].id, queue[k].refs))'
  <2> SUFFICES ASSUME NEW k \in 1..Len(queue'), CoveredThen(queue'[k].id, queue'[k].refs)
               PROVE  Covered(queue[k].id, queue[k].refs)'
    OBVIOUS
  <2> QED
    BY <1>1, <1>2, <1>3
       DEF Covered, CoveredThen, Followed, FollowedThen, Seen, OwnTable, RefPath, Fks, TableAt
<1>5. CoveredThen(cur'.id, cur'.refs) => Covered(cur.id, cur.refs)'
  BY <1>1, <1>2, <1>3
     DEF Covered, CoveredThen, Followed, FollowedThen, Seen, OwnTable, RefPath, Fks, TableAt
<1>6. ASSUME NEW i, CoveredThen(i, <<>>) PROVE Covered(i, <<>>)'
  <2>1. ASSUME NEW refs, CoveredThen(i, refs) PROVE Covered(i, refs)'
    BY <1>1, <1>2, <1>3, <2>1
       DEF Covered, CoveredThen, Followed, FollowedThen, Seen, OwnTable, RefPath, Fks, TableAt
  <2> QED
    BY <1>6, <2>1
<1> QED
  BY <1>4, <1>5, <1>6

\* A table still joined to one whose references are followed is found.
LEMMA JoinedIsFound ==
  ASSUME GraphInv, NEW i \in 1..Len(nodes), Covered(i, <<>>), NEW t,
         StillJoined(TableAt(nodes[i].path), t)
  PROVE  \E j \in 1..Len(nodes) : TableAt(nodes[j].path) = t /\ (j = i \/ Seen(i, j))
<1>1. TableAt(nodes[i].path) \notin dropped
  BY JoinedByRef
<1>2. PICK ref \in [fk : Fks, side : Sides] :
        Live(ref.fk) /\ OwnTable(ref) = TableAt(nodes[i].path) /\ TableAt(RefPath(ref)) = t
  BY JoinedByRef
<1>3. Followed(i, RefPath(ref))
  <2>1. \A k : ~(k \in 1..Len(<<>>))
    BY EmptySeq
  <2> QED
    BY <1>1, <1>2, <2>1 DEF Covered
<1> QED
  BY <1>2, <1>3 DEF Followed

\* When the tables at most d away were expanded, those one further are found.
LEMMA OneFurther ==
  ASSUME GraphInv, NEW d \in 0..(MaxDepth - 1),
         \A s : StillNear(s, d) =>
           \E i \in 1..Len(nodes) : TableAt(nodes[i].path) = s /\ Covered(i, <<>>),
         NEW t, StillNear(t, d + 1)
  PROVE  \E i \in 1..Len(nodes) : TableAt(nodes[i].path) = t
<1>1. schema \in Schemas /\ MaxDepth \in Nat \ {0}
  BY Lengths
<1>2. StillNear(t, d) \/ \E s : StillNear(s, d) /\ StillJoined(s, t)
  <2>1. d + 1 \in 1..MaxDepth /\ (d + 1) - 1 = d
    BY <1>1
  <2> QED
    BY <1>1, <2>1, StillNearFacts
<1>3. ASSUME NEW s, StillNear(s, d), StillJoined(s, t)
      PROVE  \E i \in 1..Len(nodes) : TableAt(nodes[i].path) = t
  <2>1. PICK i \in 1..Len(nodes) : TableAt(nodes[i].path) = s /\ Covered(i, <<>>)
    BY <1>3
  <2> QED
    BY <1>3, <2>1, JoinedIsFound
<1> QED
  BY <1>2, <1>3

\* A box that was handled is so while none is taken from the queue, and for any
\* greater depth.
LEMMA HandledKept ==
  ASSUME GraphInv, GraphInv', schema' = schema, dropped \subseteq dropped', NodesKept, EdgesKept,
         cur'.id = cur.id, \A k \in 1..Len(queue) : k \in 1..Len(queue') /\ queue'[k] = queue[k]
  PROVE  \A i \in 1..Len(nodes), depth \in Nat : Handled(i, depth) => Handled(i, depth)'
<1> SUFFICES ASSUME NEW i \in 1..Len(nodes), NEW depth \in Nat, Handled(i, depth)
             PROVE  Handled(i, depth)'
  OBVIOUS
<1>1. Covered(i, <<>>) => Covered(i, <<>>)'
  BY FollowedKept, CoveredIsThen
<1>2. (\E k \in 1..Len(queue) : queue[k].id = i /\ queue[k].depth <= depth)
        => \E k \in 1..Len(queue') : queue'[k].id = i /\ queue'[k].depth <= depth
  OBVIOUS
<1> QED
  BY <1>1, <1>2 DEF Handled

LEMMA HandledLater ==
  ASSUME GraphInv, NEW i, NEW d \in Nat, NEW e \in Nat, d <= e, Handled(i, d)
  PROVE  Handled(i, e)
<1>1. \A k \in 1..Len(queue) : queue[k].depth <= d => queue[k].depth <= e
  BY Lengths
<1> QED
  BY <1>1 DEF Handled

\* Nothing is missed when the next table is expanded: were it one level deeper,
\* all that is found at the level before was expanded,
LEMMA CompletePopLeft == ASSUME GraphInv, CompleteInv, PopLeft, GraphInv' PROVE CompleteInv'
<1>1. /\ cur' = Head(queue) /\ queue' = Tail(queue) /\ queue # <<>> /\ cur.refs = <<>>
      /\ UNCHANGED <<schema, dropped, phase, nodes, edges>> /\ phase = "discover"
  BY DEF PopLeft
<1> SUFFICES QueueInOrder' /\ NothingMissed'
  BY DEF CompleteInv
<1>2. QueueInOrder /\ NothingMissed
  BY <1>1 DEF CompleteInv
<1>3. /\ cur' = queue[1] /\ Len(queue) \in Nat \ {0} /\ Len(queue') = Len(queue) - 1
      /\ \A k \in 1..(Len(queue) - 1) : queue'[k] = queue[k + 1]
  <2>1. queue \in Seq(Entries)
    BY DEF GraphInv, GraphTyped
  <2> QED
    BY <1>1, <2>1, Taken
<1>4. /\ 1 \in 1..Len(queue)
      /\ \A k \in 1..Len(queue') : k + 1 \in 1..Len(queue) /\ queue'[k] = queue[k + 1]
  BY <1>3
<1>5. NodesKept /\ EdgesKept
  BY <1>1, Lengths DEF NodesKept, EdgesKept
<1>6. \A k \in 1..Len(queue) : /\ queue[k].id \in 1..Len(nodes)
                               /\ queue[k].depth \in 0..(MaxDepth - 1)
                               /\ CoveredThen(queue[k].id, queue[k].refs)
  BY <1>2, <1>5, Lengths, FollowedKept DEF QueueInOrder
<1>7. cur.depth \in 0..(MaxDepth - 1) /\ MaxDepth \in Nat \ {0} /\ schema \in Schemas
  BY Lengths
<1>8. cur'.depth \in {cur.depth, cur.depth + 1} /\ cur'.depth \in 0..(MaxDepth - 1)
  BY <1>2, <1>3, <1>4, <1>6 DEF QueueInOrder
<1>9. QueueInOrder'
  <2>1. (\A k \in 1..Len(queue) : Covered(queue[k].id, queue[k].refs))'
    BY <1>1, <1>4, <1>6, CoveredIsThen
  <2>2. ASSUME NEW k \in 1..Len(queue') PROVE queue'[k].depth \in {cur'.depth, cur'.depth + 1}
    <3>1. queue[k + 1].depth \in {cur.depth, cur.depth + 1} /\ queue[1].depth <= queue[k + 1].depth
      <4>1. k + 1 \in 1..Len(queue) /\ 1 < k + 1
        BY <1>4
      <4> QED
        BY <1>2, <1>4, <4>1 DEF QueueInOrder
    <3> QED
      BY <1>3, <1>4, <1>7, <1>8, <3>1
  <2>3. \A k, l \in 1..Len(queue') : k < l => queue'[k].depth <= queue'[l].depth
    <3> SUFFICES ASSUME NEW k \in 1..Len(queue'), NEW l \in 1..Len(queue'), k < l
                 PROVE  queue'[k].depth <= queue'[l].depth
      OBVIOUS
    <3>1. k + 1 \in 1..Len(queue) /\ l + 1 \in 1..Len(queue) /\ k + 1 < l + 1
      BY <1>4
    <3> QED
      BY <1>2, <1>4, <3>1 DEF QueueInOrder
  <2> QED
    BY <2>1, <2>2, <2>3 DEF QueueInOrder
<1>10. ASSUME NEW i \in 1..Len(nodes), i = cur.id PROVE Covered(i, <<>>)
  <2>1. cur # Nobody
    BY <1>10 DEF Nobody
  <2> QED
    BY <1>1, <1>2, <1>10, <2>1 DEF NothingMissed
<1>11. ASSUME NEW i \in 1..Len(nodes), NEW depth \in Nat, Handled(i, depth)
       PROVE  Handled(i, depth)'
  <2>1. CASE Covered(i, <<>>) \/ i = cur.id
    <3>1. Covered(i, <<>>)'
      BY <1>1, <1>5, <1>10, <2>1, FollowedKept, CoveredIsThen
    <3> QED
      BY <3>1 DEF Handled
  <2>2. ASSUME NEW k \in 1..Len(queue), queue[k].id = i, queue[k].depth <= depth
        PROVE  \/ i = cur'.id
               \/ \E l \in 1..Len(queue') : queue'[l].id = i /\ queue'[l].depth <= depth
    <3>1. CASE k = 1
      BY <1>3, <2>2, <3>1
    <3>2. CASE k # 1
      <4>1. k - 1 \in 1..Len(queue') /\ (k - 1) + 1 = k
        BY <1>3, <3>2
      <4>2. queue'[k - 1] = queue[k]
        BY <1>4, <4>1
      <4> QED
        BY <2>2, <4>1, <4>2
    <3> QED
      BY <3>1, <3>2
  <2> QED
    BY <1>11, <2>1, <2>2 DEF Handled
<1>12. cur.depth + 1 < MaxDepth => \A i \in 1..Len(nodes) : Handled(i, cur.depth + 1)
  BY <1>2 DEF NothingMissed
<1>13. ASSUME NEW t, StillNear(t, cur'.depth)
       PROVE  \E i \in 1..Len(nodes) : TableAt(nodes[i].path) = t /\ Handled(i, cur'.depth)
  <2>1. CASE cur'.depth = cur.depth
    BY <1>2, <1>13, <2>1 DEF NothingMissed
  <2>2. CASE cur'.depth = cur.depth + 1
    <3>1. ASSUME NEW k \in 1..Len(queue) PROVE ~(queue[k].depth <= cur.depth)
      <4>1. queue[1].depth <= queue[k].depth
        <5>1. k = 1 \/ 1 < k
          BY <1>3
        <5> QED
          BY <1>2, <1>4, <1>6, <5>1 DEF QueueInOrder
      <4> QED
        BY <1>3, <1>6, <1>7, <2>2, <4>1
    <3>2. ASSUME NEW s, StillNear(s, cur.depth)
          PROVE  \E i \in 1..Len(nodes) : TableAt(nodes[i].path) = s /\ Covered(i, <<>>)
      <4>1. PICK i \in 1..Len(nodes) : TableAt(nodes[i].path) = s /\ Handled(i, cur.depth)
        BY <1>2, <3>2 DEF NothingMissed
      <4>2. Covered(i, <<>>)
        BY <1>10, <3>1, <4>1 DEF Handled
      <4> QED
        BY <4>1, <4>2
    <3>3. \E i \in 1..Len(nodes) : TableAt(nodes[i].path) = t
      <4>1. StillNear(t, cur.depth + 1)
        BY <1>13, <2>2
      <4> QED
        BY <1>7, <3>2, <4>1, OneFurther
    <3>4. cur.depth + 1 < MaxDepth
      BY <1>7, <1>8, <2>2
    <3> QED
      BY <1>12, <2>2, <3>3, <3>4
  <2> QED
    BY <1>8, <2>1, <2>2
<1>14. NothingMissed'
  <2>1. Covered(cur.id, cur.refs)'
    BY <1>1, <1>3, <1>4, <1>6, CoveredIsThen
  <2>2. ASSUME NEW t, t \in StillReached'[cur'.depth]
        PROVE  (\E i \in 1..Len(nodes) : TableAt(nodes[i].path) = t /\ Handled(i, cur.depth))'
    <3>1. StillNear(t, cur'.depth)
      <4>1. cur'.depth \in 0..MaxDepth
        BY <1>7, <1>8
      <4> QED
        BY <1>1, <1>7, <2>2, <4>1, StillNearKept DEF StillNear
    <3>2. PICK i \in 1..Len(nodes) : TableAt(nodes[i].path) = t /\ Handled(i, cur'.depth)
      BY <1>13, <3>1
    <3>3. Handled(i, cur.depth)'
      <4>1. PICK d \in Nat : d = cur'.depth /\ Handled(i, d)
        BY <1>8, <3>2
      <4>2. Handled(i, d)'
        BY <1>11, <4>1
      <4> QED
        BY <4>1, <4>2 DEF Handled
    <3> QED
      BY <1>1, <3>2, <3>3 DEF TableAt
  <2>3. ASSUME cur'.depth + 1 < MaxDepth, NEW i \in 1..Len(nodes')
        PROVE  Handled(i, cur.depth + 1)'
    <3>1. cur.depth + 1 < MaxDepth /\ cur.depth + 1 <= cur'.depth + 1
      BY <1>7, <1>8, <2>3
    <3>2. Handled(i, cur.depth + 1)
      BY <1>1, <1>12, <2>3, <3>1
    <3>3. cur.depth + 1 \in Nat /\ cur'.depth + 1 \in Nat /\ i \in 1..Len(nodes)
      BY <1>1, <1>7, <1>8, <2>3
    <3>4. PICK d \in Nat : d = cur'.depth + 1 /\ Handled(i, d)
      BY <3>1, <3>2, <3>3, HandledLater
    <3>5. Handled(i, d)'
      BY <1>11, <3>3, <3>4
    <3> QED
      BY <3>4, <3>5 DEF Handled
  <2> QED
    BY <2>1, <2>2, <2>3 DEF NothingMissed, StillNear
<1> QED
  BY <1>9, <1>14

\* The edge of the reference that is followed is there then.
LEMMA Connected ==
  ASSUME GraphInv, cur.refs # <<>>, NEW target, target \in Nat, Connect(Head(cur.refs), target)
  PROVE  /\ EdgesKept
         /\ \E i \in 1..Len(edges') : {edges'[i].source, edges'[i].target} = {cur.id, target}
<1> DEFINE ref == Head(cur.refs)
           e == [source |-> cur.id, target |-> target, fk_side |-> ref.side, fk |-> ref.fk]
<1>1. edges \in Seq(Edges) /\ Len(edges) \in Nat /\ DOMAIN edges = 1..Len(edges)
  BY Lengths DEF GraphInv, GraphTyped
<1>2. e \in Edges
  <2>1. cur.id \in Nat /\ ref \in Refs
    BY CurrentFacts, Lengths
  <2> QED
    BY <2>1 DEF Edges, Refs
<1>3. CASE Seen(cur.id, target)
  <2>1. edges' = edges
    BY <1>3 DEF Connect
  <2>2. PICK i \in 1..Len(edges) : {edges[i].source, edges[i].target} = {cur.id, target}
    BY <1>1, <1>3 DEF Seen
  <2>3. EdgesKept
    BY <1>1, <2>1 DEF EdgesKept
  <2>4. i \in 1..Len(edges') /\ {edges'[i].source, edges'[i].target} = {cur.id, target}
    BY <2>1, <2>2
  <2> QED
    BY <2>3, <2>4
<1>4. CASE ~Seen(cur.id, target)
  <2>1. edges' = Append(edges, e)
    BY <1>4 DEF Connect
  <2>2. e.source = cur.id /\ e.target = target
    OBVIOUS
  <2> HIDE DEF e
  <2>3. /\ Len(edges') = Len(edges) + 1 /\ \A i \in 1..Len(edges) : edges'[i] = edges[i]
        /\ edges'[Len(edges) + 1] = e
    BY <1>1, <1>2, <2>1, Appended
  <2>4. Len(edges) + 1 \in 1..Len(edges')
    BY <1>1, <2>3
  <2>5. {edges'[Len(edges) + 1].source, edges'[Len(edges) + 1].target} = {cur.id, target}
    BY <2>2, <2>3
  <2>6. EdgesKept
    BY <1>1, <2>3 DEF EdgesKept
  <2> QED
    BY <2>4, <2>5, <2>6
<1> QED
  BY <1>3, <1>4

\* The reference that is followed is, then, and those left are the ones to follow.
LEMMA FollowedThenLeft ==
  ASSUME GraphInv, Follow, GraphInv', Covered(cur.id, cur.refs)
  PROVE  NodesKept /\ EdgesKept /\ CoveredThen(cur'.id, cur'.refs)
<1> DEFINE ref == Head(cur.refs)
           path == RefPath(ref)
<1>1. /\ FollowSelf \/ FollowVisited \/ FollowNew
      /\ cur'.id = cur.id /\ Len(cur.refs) \in Nat \ {0} /\ Len(cur'.refs) = Len(cur.refs) - 1
      /\ \A k \in 1..(Len(cur.refs) - 1) : cur'.refs[k] = cur.refs[k + 1]
      /\ ref = cur.refs[1] /\ cur.refs # <<>>
  BY FollowCases
<1>2. /\ nodes \in Seq(Nodes) /\ Len(nodes) \in Nat /\ Len(edges) \in Nat
      /\ cur.id \in 1..Len(nodes)
  BY <1>1, CurrentFacts, Lengths DEF GraphInv, GraphTyped
<1>3. NodesKept /\ EdgesKept /\ FollowedThen(cur.id, path)
  <2>1. CASE FollowSelf
    BY <1>2, <2>1 DEF FollowSelf, NodesKept, EdgesKept, FollowedThen
  <2>2. CASE FollowVisited
    <3> DEFINE target == NodeOf(path)
    <3>1. Visited(path) /\ Connect(ref, target) /\ UNCHANGED nodes
      BY <2>2 DEF FollowVisited
    <3>2. target \in 1..Len(nodes) /\ nodes[target].path = path
      BY <1>2, <3>1, NodeOfFacts
    <3> HIDE DEF target
    <3>3. target \in Nat
      BY <1>2, <3>2
    <3>4. EdgesKept /\ \E i \in 1..Len(edges') :
                         {edges'[i].source, edges'[i].target} = {cur.id, target}
      BY <1>1, <3>1, <3>3, Connected
    <3>5. target \in 1..Len(nodes') /\ nodes'[target].path = path /\ NodesKept
      BY <1>2, <3>1, <3>2 DEF NodesKept
    <3> QED
      BY <3>4, <3>5 DEF FollowedThen
  <2>3. CASE FollowNew
    <3> DEFINE target == Len(nodes) + 1
               node == IF Resolves(path) THEN Described(path) ELSE Unavailable(path)
    <3>1. Connect(ref, target) /\ nodes' = Append(nodes, node)
      BY <2>3 DEF FollowNew
    <3>2. node.path = path
      BY DEF Unavailable, Described, Columnless
    <3> HIDE DEF node
    <3>3. /\ Len(nodes') = Len(nodes) + 1 /\ \A i \in 1..Len(nodes) : nodes'[i] = nodes[i]
          /\ nodes'[target] = node
      BY <1>2, <3>1, AppendProperties
    <3>4. target \in Nat /\ target \in 1..Len(nodes') /\ nodes'[target].path = path /\ NodesKept
      BY <1>2, <3>2, <3>3 DEF NodesKept
    <3> HIDE DEF target
    <3>5. EdgesKept /\ \E i \in 1..Len(edges') :
                         {edges'[i].source, edges'[i].target} = {cur.id, target}
      BY <1>1, <3>1, <3>4, Connected
    <3> QED
      BY <3>4, <3>5 DEF FollowedThen
  <2> QED
    BY <1>1, <2>1, <2>2, <2>3
<1>4. CoveredThen(cur.id, cur.refs)
  BY <1>2, <1>3, FollowedKept
<1>5. ASSUME TableAt(nodes'[cur.id].path) \notin dropped,
             NEW r \in [fk : Fks, side : Sides], Live(r.fk),
             OwnTable(r) = TableAt(nodes'[cur.id].path)
      PROVE  FollowedThen(cur.id, RefPath(r)) \/ \E k \in 1..Len(cur'.refs) : cur'.refs[k] = r
  <2>1. FollowedThen(cur.id, RefPath(r)) \/ \E k \in 1..Len(cur.refs) : cur.refs[k] = r
    BY <1>4, <1>5 DEF CoveredThen
  <2>2. ASSUME NEW k \in 1..Len(cur.refs), cur.refs[k] = r
        PROVE  r = ref \/ \E l \in 1..Len(cur'.refs) : cur'.refs[l] = r
    <3>1. CASE k = 1
      BY <1>1, <2>2, <3>1
    <3>2. CASE k # 1
      <4>1. k - 1 \in 1..(Len(cur.refs) - 1) /\ (k - 1) + 1 = k /\ k - 1 \in 1..Len(cur'.refs)
        BY <1>1, <3>2
      <4>2. cur'.refs[k - 1] = r
        BY <1>1, <2>2, <4>1
      <4> QED
        BY <4>1, <4>2
    <3> QED
      BY <3>1, <3>2
  <2> QED
    BY <1>3, <2>1, <2>2
<1> QED
  BY <1>1, <1>3, <1>5 DEF CoveredThen

\* when a reference of it is followed: a table it leads to that is as near waits
\* no deeper, or was dropped,
LEMMA CompleteFollow == ASSUME GraphInv, CompleteInv, Follow, GraphInv' PROVE CompleteInv'
<1> DEFINE path == RefPath(Head(cur.refs))
           new == [id |-> Len(nodes) + 1, refs |-> Described(path).refs,
                   depth |-> cur.depth + 1]
           queues == FollowNew /\ Resolves(path) /\ Expands(cur.depth + 1)
<1>1. /\ UNCHANGED <<schema, dropped, phase>> /\ phase = "discover" /\ cur.refs # <<>>
      /\ FollowSelf \/ FollowVisited \/ FollowNew
      /\ cur'.id = cur.id /\ cur'.depth = cur.depth
  BY FollowCases
<1> SUFFICES QueueInOrder' /\ NothingMissed'
  BY DEF CompleteInv
<1>2. QueueInOrder /\ NothingMissed /\ cur # Nobody
  BY <1>1 DEF CompleteInv, Nobody
<1>3. NodesKept /\ EdgesKept /\ CoveredThen(cur'.id, cur'.refs)
  BY <1>2, FollowedThenLeft DEF NothingMissed
<1>4. /\ schema \in Schemas /\ nodes \in Seq(Nodes) /\ Len(nodes) \in Nat
      /\ queue \in Seq(Entries) /\ Len(queue) \in Nat /\ MaxDepth \in Nat \ {0}
      /\ cur.depth \in 0..(MaxDepth - 1) /\ path \in DOMAIN schema.names
  BY <1>1, Lengths, CurrentFacts DEF GraphInv, GraphTyped
<1>5. ASSUME FollowNew
      PROVE  Len(nodes') = Len(nodes) + 1 /\ nodes'[Len(nodes) + 1].path = path
  <2> DEFINE node == IF Resolves(path) THEN Described(path) ELSE Unavailable(path)
  <2>1. nodes' = Append(nodes, node)
    BY <1>5 DEF FollowNew
  <2>2. node.path = path
    BY DEF Described, Unavailable, Columnless
  <2> HIDE DEF node
  <2> QED
    BY <1>4, <2>1, <2>2, AppendProperties
<1>6. Len(nodes') = Len(nodes) \/ FollowNew
  BY <1>1 DEF FollowSelf, FollowVisited
<1>7. queue' = IF queues THEN Append(queue, new) ELSE queue
  BY <1>1 DEF FollowSelf, FollowVisited, FollowNew
<1>8. ASSUME NEW k \in 1..Len(queue)
      PROVE  /\ queue[k].depth \in {cur.depth, cur.depth + 1}
             /\ CoveredThen(queue[k].id, queue[k].refs)
  <2>1. queue[k].id \in 1..Len(nodes)
    BY Lengths
  <2> QED
    BY <1>2, <1>3, <2>1, FollowedKept DEF QueueInOrder
<1>9. /\ new.depth = cur.depth + 1 /\ new.id = Len(nodes) + 1
      /\ queues => CoveredThen(new.id, new.refs)
  <2>1. TableAt(path) \notin dropped =>
          \A r \in [fk : Fks, side : Sides] :
            Live(r.fk) /\ OwnTable(r) = TableAt(path) =>
              \E k \in 1..Len(new.refs) : new.refs[k] = r
    BY <1>4, DescribedFacts
  <2>2. new.depth = cur.depth + 1 /\ new.id = Len(nodes) + 1
    OBVIOUS
  <2> HIDE DEF new, path
  <2> QED
    BY <1>5, <2>1, <2>2 DEF CoveredThen
<1> HIDE DEF new
<1>10. /\ Len(queue') = IF queues THEN Len(queue) + 1 ELSE Len(queue)
       /\ \A k \in 1..Len(queue) : k \in 1..Len(queue') /\ queue'[k] = queue[k]
       /\ queues => queue'[Len(queue) + 1] = new
  <2> HIDE DEF queues
  <2>1. CASE queues
    <3>1. Len(queue') = Len(queue) + 1 /\ queue'[Len(queue) + 1] = new
          /\ \A k \in 1..Len(queue) : queue'[k] = queue[k]
      BY <1>4, <1>7, <2>1, AppendProperties
    <3> QED
      BY <1>4, <2>1, <3>1
  <2>2. CASE ~queues
    BY <1>7, <2>2
  <2> QED
    BY <2>1, <2>2
<1>11. ASSUME NEW k \in 1..Len(queue')
       PROVE  \/ k \in 1..Len(queue) /\ queue'[k] = queue[k]
              \/ queues /\ k = Len(queue) + 1 /\ queue'[k] = new
  <2> HIDE DEF queues
  <2> QED
    BY <1>4, <1>10
<1>12. QueueInOrder'
  <2>1. ASSUME NEW k \in 1..Len(queue')
        PROVE  /\ queue'[k].depth \in {cur.depth, cur.depth + 1}
               /\ CoveredThen(queue'[k].id, queue'[k].refs)
    BY <1>8, <1>9, <1>11
  <2>2. (\A k \in 1..Len(queue) : Covered(queue[k].id, queue[k].refs))'
    BY <1>1, <2>1, CoveredIsThen
  <2>3. ASSUME NEW k \in 1..Len(queue'), NEW l \in 1..Len(queue'), k < l
        PROVE  queue'[k].depth <= queue'[l].depth
    <3>1. CASE l \in 1..Len(queue) /\ queue'[l] = queue[l]
      <4>1. k \in 1..Len(queue) /\ queue'[k] = queue[k]
        BY <1>4, <1>11, <2>3, <3>1
      <4> QED
        BY <1>2, <2>3, <3>1, <4>1 DEF QueueInOrder
    <3>2. CASE queue'[l] = new
      BY <1>4, <1>9, <2>1, <3>2
    <3> QED
      BY <1>11, <3>1, <3>2
  <2> QED
    BY <1>1, <2>1, <2>2, <2>3 DEF QueueInOrder
<1>13. NothingMissed'
  <2>1. Covered(cur.id, cur.refs)'
    BY <1>1, <1>3, CoveredIsThen
  <2>2. \A i \in 1..Len(nodes), depth \in Nat : Handled(i, depth) => Handled(i, depth)'
    BY <1>1, <1>3, <1>10, HandledKept
  <2>3. \A i \in 1..Len(nodes) : i \in 1..Len(nodes') /\ nodes'[i] = nodes[i]
    BY <1>3 DEF NodesKept
  <2>4. ASSUME NEW t, t \in StillReached'[cur'.depth]
        PROVE  (\E i \in 1..Len(nodes) : TableAt(nodes[i].path) = t /\ Handled(i, cur.depth))'
    <3>1. StillNear(t, cur.depth)
      <4>1. cur.depth \in 0..MaxDepth /\ t \in StillReached'[cur.depth]
        BY <1>1, <1>4, <2>4
      <4> QED
        BY <1>1, <1>4, <4>1, StillNearKept DEF StillNear
    <3>2. PICK i \in 1..Len(nodes) : TableAt(nodes[i].path) = t /\ Handled(i, cur.depth)
      BY <1>2, <3>1 DEF NothingMissed
    <3>3. PICK d \in Nat : d = cur.depth /\ Handled(i, d)
      BY <1>4, <3>2
    <3>4. Handled(i, d)' /\ d = cur'.depth
      BY <1>1, <2>2, <3>3
    <3>5. Handled(i, cur.depth)'
      BY <3>4 DEF Handled
    <3>6. TableAt(nodes[i].path)' = t
      BY <1>1, <2>3, <3>2 DEF TableAt
    <3> QED
      BY <2>3, <3>5, <3>6
  <2>5. ASSUME cur'.depth + 1 < MaxDepth, NEW i \in 1..Len(nodes')
        PROVE  Handled(i, cur.depth + 1)'
    <3>1. CASE i \in 1..Len(nodes)
      <4>1. PICK d \in Nat : d = cur.depth + 1 /\ Handled(i, d)
        BY <1>1, <1>2, <1>4, <2>5, <3>1 DEF NothingMissed
      <4>2. Handled(i, d)' /\ d = cur'.depth + 1
        BY <1>1, <2>2, <3>1, <4>1
      <4> QED
        BY <4>2 DEF Handled
    <3>2. CASE i \notin 1..Len(nodes)
      <4>1. FollowNew /\ i = Len(nodes) + 1 /\ Expands(cur.depth + 1)
        BY <1>1, <1>4, <1>5, <1>6, <2>5, <3>2 DEF Expands
      <4>2. CASE Resolves(path)
        <5>1. Len(queue) + 1 \in 1..Len(queue') /\ queue'[Len(queue) + 1] = new
          BY <1>4, <1>10, <4>1, <4>2
        <5>2. new.id = i /\ new.depth <= cur'.depth + 1
          BY <1>1, <1>4, <1>9, <4>1
        <5> QED
          BY <5>1, <5>2 DEF Handled
      <4>3. CASE ~Resolves(path)
        <5>1. CoveredThen(i, <<>>)
          BY <1>5, <4>1, <4>3 DEF CoveredThen, Resolves
        <5>2. Covered(i, <<>>)'
          BY <1>1, <5>1, CoveredIsThen
        <5> QED
          BY <5>2 DEF Handled
      <4> QED
        BY <4>2, <4>3
    <3> QED
      BY <3>1, <3>2
  <2> QED
    BY <2>1, <2>4, <2>5 DEF NothingMissed, StillNear
<1> QED
  BY <1>12, <1>13

\* or with the first table found.
LEMMA CompleteStart == ASSUME GraphInv, CompleteInv, Start, GraphInv' PROVE CompleteInv'
<1>1. UNCHANGED <<schema, dropped, edges, cur>> /\ nodes = <<>> /\ schema \in Schemas
      /\ 1 \in DOMAIN schema.names /\ MaxDepth \in Nat \ {0}
  BY Lengths, SchemaFacts DEF GraphInv, Start
<1>2. cur = Nobody
  <2>1. \A i : ~(i \in 1..Len(nodes))
    BY <1>1, EmptySeq
  <2> QED
    BY <2>1 DEF GraphInv, EntryRight
<1>3. CASE ~Resolves(1)
  BY <1>3 DEF Start, CompleteInv, Drawing
<1>4. CASE Resolves(1)
  <2> SUFFICES QueueInOrder' /\ NothingMissed'
    BY DEF CompleteInv
  <2> DEFINE node == Described(1)
             entry == [id |-> 1, refs |-> node.refs, depth |-> 0]
  <2>1. nodes' = <<node>> /\ queue' = <<entry>>
    BY <1>4 DEF Start
  <2>2. /\ node.path = 1
        /\ TableAt(1) \notin dropped =>
             \A r \in [fk : Fks, side : Sides] :
               Live(r.fk) /\ OwnTable(r) = TableAt(1) => \E k \in 1..Len(node.refs) : node.refs[k] = r
    BY <1>1, DescribedFacts
  <2> HIDE DEF node
  <2>3. /\ Len(nodes') = 1 /\ nodes'[1].path = 1 /\ Len(queue') = 1 /\ queue'[1] = entry
        /\ entry.id = 1 /\ entry.refs = node.refs /\ entry.depth = 0
    BY <2>1, <2>2
  <2> HIDE DEF entry
  <2>4. CoveredThen(entry.id, entry.refs)
    BY <2>2, <2>3 DEF CoveredThen
  <2>5. cur'.depth = 0 /\ cur' = Nobody
    BY <1>1, <1>2 DEF Nobody
  <2>6. \A k \in 1..Len(queue') : k = 1 /\ queue'[k] = entry
    BY <2>3
  <2>7. QueueInOrder'
    <3>1. (\A k \in 1..Len(queue) : Covered(queue[k].id, queue[k].refs))'
      BY <1>1, <2>4, <2>6, CoveredIsThen
    <3> QED
      BY <2>3, <2>5, <2>6, <3>1 DEF QueueInOrder
  <2>8. NothingMissed'
    <3>1. ASSUME NEW d \in Nat PROVE Handled(1, d)'
      <4>1. 1 \in 1..Len(queue') /\ queue'[1].id = 1 /\ queue'[1].depth <= d
        BY <2>3
      <4> QED
        BY <4>1 DEF Handled
    <3>2. \A i \in 1..Len(nodes') : i = 1
      BY <2>3
    <3>3. ASSUME NEW t, t \in StillReached'[cur'.depth]
          PROVE  (\E i \in 1..Len(nodes) : TableAt(nodes[i].path) = t /\ Handled(i, cur.depth))'
      <4>1. t = TableAt(1)
        <5>1. 0 \in 0..MaxDepth /\ t \in StillReached'[0]
          BY <1>1, <2>5, <3>3
        <5>2. StillNear(t, 0)
          BY <1>1, <5>1, StillNearKept DEF StillNear
        <5> QED
          BY <1>1, <5>2, StillNearFacts
      <4>2. 1 \in 1..Len(nodes') /\ TableAt(nodes[1].path)' = t
        BY <1>1, <2>3, <4>1 DEF TableAt
      <4>3. Handled(1, cur.depth)'
        <5>1. PICK d \in Nat : d = cur'.depth
          BY <2>5
        <5> QED
          BY <3>1, <5>1 DEF Handled
      <4> QED
        BY <4>2, <4>3
    <3>4. ASSUME NEW i \in 1..Len(nodes') PROVE Handled(i, cur.depth + 1)'
      <4>1. PICK d \in Nat : d = cur'.depth + 1
        BY <2>5
      <4> QED
        BY <3>1, <3>2, <4>1 DEF Handled
    <3> QED
      BY <2>5, <3>3, <3>4 DEF NothingMissed, StillNear, Nobody
  <2> QED
    BY <2>7, <2>8
<1> QED
  BY <1>3, <1>4

\* A step that leaves the graph and the queue leaves nothing to be missed, a table
\* dropped or not.
LEMMA CompleteStays ==
  ASSUME GraphInv, CompleteInv, GraphInv', UNCHANGED <<schema, nodes, edges, queue, cur>>,
         dropped \subseteq dropped',
         phase' \in {"discover"} \cup Drawing => phase \in {"discover"} \cup Drawing
  PROVE  CompleteInv'
<1> SUFFICES ASSUME QueueInOrder, NothingMissed PROVE QueueInOrder' /\ NothingMissed'
  BY DEF CompleteInv
<1>1. NodesKept /\ EdgesKept
  BY Lengths DEF NodesKept, EdgesKept
<1>2. \A id \in 1..Len(nodes) : \A refs : Covered(id, refs) => CoveredThen(id, refs)
  BY <1>1, FollowedKept
<1>3. schema \in Schemas /\ MaxDepth \in Nat \ {0} /\ cur.depth \in 0..(MaxDepth - 1)
  BY Lengths
<1>4. QueueInOrder'
  <2>1. \A k \in 1..Len(queue') : CoveredThen(queue'[k].id, queue'[k].refs)
    BY <1>2, Lengths DEF QueueInOrder
  <2>2. (\A k \in 1..Len(queue) : Covered(queue[k].id, queue[k].refs))'
    BY <2>1, CoveredIsThen
  <2> QED
    BY <2>2 DEF QueueInOrder
<1>5. NothingMissed'
  <2>1. ASSUME cur' # Nobody PROVE Covered(cur.id, cur.refs)'
    <3>1. cur # Nobody /\ cur.id \in 1..Len(nodes)
      BY <2>1, Lengths DEF Nobody
    <3>2. CoveredThen(cur'.id, cur'.refs)
      BY <1>2, <3>1 DEF NothingMissed
    <3> QED
      BY <3>2, CoveredIsThen
  <2>2. \A i \in 1..Len(nodes), depth \in Nat : Handled(i, depth) => Handled(i, depth)'
    BY <1>1, HandledKept
  <2>3. ASSUME NEW t, t \in StillReached'[cur'.depth]
        PROVE  (\E i \in 1..Len(nodes) : TableAt(nodes[i].path) = t /\ Handled(i, cur.depth))'
    <3>1. StillNear(t, cur.depth)
      <4>1. cur.depth \in 0..MaxDepth /\ t \in StillReached'[cur.depth]
        BY <1>3, <2>3
      <4> QED
        BY <1>3, <4>1, StillNearKept DEF StillNear
    <3>2. PICK i \in 1..Len(nodes) : TableAt(nodes[i].path) = t /\ Handled(i, cur.depth)
      BY <3>1 DEF NothingMissed
    <3>3. PICK d \in Nat : d = cur.depth /\ Handled(i, d)
      BY <1>3, <3>2
    <3>4. Handled(i, d)' /\ d = cur'.depth
      BY <2>2, <3>3
    <3>5. Handled(i, cur.depth)' /\ TableAt(nodes[i].path)' = t
      BY <3>2, <3>4 DEF Handled, TableAt
    <3> QED
      BY <3>5
  <2>4. ASSUME cur'.depth + 1 < MaxDepth, NEW i \in 1..Len(nodes')
        PROVE  Handled(i, cur.depth + 1)'
    <3>1. PICK d \in Nat : d = cur.depth + 1 /\ Handled(i, d)
      BY <1>3, <2>4 DEF NothingMissed
    <3>2. Handled(i, d)' /\ d = cur'.depth + 1
      BY <2>2, <2>4, <3>1
    <3> QED
      BY <3>2 DEF Handled
  <2> QED
    BY <2>1, <2>3, <2>4 DEF NothingMissed, StillNear, Nobody
<1> QED
  BY <1>4, <1>5

\* At no step of a discovery is a table or a foreign key missed of those that are
\* there still (discover).
THEOREM NothingIsMissed == DiscoverySpec => []CompleteInv
<1>1. DiscoveryInit => CompleteInv
  BY DEF DiscoveryInit, CompleteInv, Drawing
<1>2. ASSUME GraphInv, CompleteInv, [DiscoveryNext]_discoveryVars, GraphInv' PROVE CompleteInv'
  <2>1. CASE DropTable
    BY <1>2, <2>1, CompleteStays DEF DropTable
  <2>2. CASE Discovered
    BY <1>2, <2>2, CompleteStays DEF Discovered, graphVars
  <2>3. CASE Draw
    BY <1>2, <2>3, CompleteStays DEF Draw, graphVars
  <2>4. CASE DescribeRaises
    BY <2>4 DEF DescribeRaises, CompleteInv, Drawing
  <2>5. CASE UNCHANGED discoveryVars
    BY <1>2, <2>5, CompleteStays DEF discoveryVars, graphVars
  <2> QED
    BY <1>2, <2>1, <2>2, <2>3, <2>4, <2>5, CompleteStart, CompletePopLeft, CompleteFollow
       DEF DiscoveryNext
<1> QED
  BY <1>1, <1>2, GraphIsRight, PTL DEF DiscoverySpec
-----------------------------------------------------------------------------
(* What is discovered *)

\* Each path has one box, and each two of them one edge.
LEMMA FoundOnce ==
  ASSUME GraphInv
  PROVE  Cardinality(Paths) = Len(nodes) /\ Cardinality(Pairs) = Len(edges)
<1>1. /\ DOMAIN nodes = 1..Len(nodes) /\ DOMAIN edges = 1..Len(edges)
      /\ Len(nodes) \in Nat /\ Len(edges) \in Nat /\ NodesRight /\ EdgesRight
  BY Lengths DEF GraphInv
<1>2. Cardinality(Paths) = Len(nodes)
  <2> DEFINE n == Len(nodes)
             f == [i \in 1..n |-> nodes[i].path]
  <2>1. /\ n \in Nat /\ DOMAIN f = 1..n /\ f = [i \in 1..n |-> f[i]]
        /\ \A i, j \in 1..n : f[i] = f[j] => i = j
    BY <1>1 DEF NodesRight
  <2>2. Paths = {f[i] : i \in 1..n}
    BY <1>1 DEF Paths
  <2> HIDE DEF f, n
  <2>3. Cardinality({f[i] : i \in 1..n}) = n
    BY <2>1, ValuesOf
  <2> QED
    BY <2>2, <2>3 DEF n
<1>3. Cardinality(Pairs) = Len(edges)
  <2> DEFINE n == Len(edges)
             f == [i \in 1..n |-> {nodes[edges[i].source].path, nodes[edges[i].target].path}]
  <2>1. n \in Nat /\ DOMAIN f = 1..n /\ f = [i \in 1..n |-> f[i]]
    BY <1>1
  <2>2. ASSUME NEW i \in 1..n, NEW j \in 1..n, f[i] = f[j] PROVE i = j
    <3>1. {nodes[edges[i].source].path, nodes[edges[i].target].path}
            = {nodes[edges[j].source].path, nodes[edges[j].target].path}
      BY <2>2
    <3>2. /\ edges[i].source \in 1..Len(nodes) /\ edges[i].target \in 1..Len(nodes)
          /\ edges[j].source \in 1..Len(nodes) /\ edges[j].target \in 1..Len(nodes)
      BY <1>1 DEF EdgesRight, EdgeRight
    <3>3. {edges[i].source, edges[i].target} = {edges[j].source, edges[j].target}
      BY <1>1, <3>1, <3>2 DEF NodesRight
    <3> QED
      BY <1>1, <3>3 DEF EdgesRight
  <2>3. Pairs = {f[i] : i \in 1..n}
    BY <1>1 DEF Pairs
  <2> HIDE DEF f, n
  <2>4. Cardinality({f[i] : i \in 1..n}) = n
    BY <2>1, <2>2, ValuesOf
  <2> QED
    BY <2>3, <2>4 DEF n
<1> QED
  BY <1>2, <1>3

\* When the queue is done, every box that was handled was expanded, and with it
\* one of each table that is left within a depth less.
LEMMA AllCovered ==
  ASSUME GraphInv, NothingMissed, queue = <<>>, cur.refs = <<>>
  PROVE  \A k \in 0..(MaxDepth - 1) : \A t : StillNear(t, k) =>
           \E i \in 1..Len(nodes) : TableAt(nodes[i].path) = t /\ Covered(i, <<>>)
<1> DEFINE Expanded(t) == \E i \in 1..Len(nodes) : TableAt(nodes[i].path) = t /\ Covered(i, <<>>)
           n == MaxDepth - 1
           S == {k \in 0..n : \A t : StillNear(t, k) => Expanded(t)}
<1>1. schema \in Schemas /\ MaxDepth \in Nat \ {0} /\ n \in Nat /\ cur.depth \in 0..n
  BY Lengths
<1>2. ASSUME NEW i \in 1..Len(nodes), NEW depth, Handled(i, depth) PROVE Covered(i, <<>>)
  <2>1. \A k : ~(k \in 1..Len(queue))
    BY EmptySeq
  <2>2. i = cur.id => cur # Nobody
    BY DEF Nobody
  <2> QED
    BY <1>2, <2>1, <2>2 DEF Handled, NothingMissed
<1>3. ASSUME NEW t, StillNear(t, cur.depth) PROVE Expanded(t)
  <2>1. PICK i \in 1..Len(nodes) : TableAt(nodes[i].path) = t /\ Handled(i, cur.depth)
    BY <1>3 DEF NothingMissed
  <2> QED
    BY <1>2, <2>1
<1>4. ASSUME NEW k \in 0..n, k <= cur.depth, NEW t, StillNear(t, k) PROVE Expanded(t)
  <2>1. k \in 0..MaxDepth /\ cur.depth \in 0..MaxDepth
    BY <1>1
  <2>2. StillNear(t, cur.depth)
    BY <1>1, <1>4, <2>1, NearFarther
  <2> QED
    BY <1>3, <2>2
<1>5. 0 \in S
  BY <1>1, <1>4
<1>6. ASSUME NEW k \in 1..n, k - 1 \in S PROVE k \in S
  <2>1. CASE k <= cur.depth
    BY <1>1, <1>4, <2>1
  <2>2. CASE cur.depth < k
    <3>1. cur.depth + 1 < MaxDepth
      BY <1>1, <2>2
    <3>2. \A i \in 1..Len(nodes) : Covered(i, <<>>)
      BY <1>2, <3>1 DEF NothingMissed
    <3>3. k - 1 \in 0..(MaxDepth - 1) /\ (k - 1) + 1 = k
      BY <1>1
    <3>4. \A s : StillNear(s, k - 1) => Expanded(s)
      BY <1>6
    <3>5. ASSUME NEW t, StillNear(t, k) PROVE Expanded(t)
      <4>1. StillNear(t, (k - 1) + 1)
        BY <3>3, <3>5
      <4>2. \E i \in 1..Len(nodes) : TableAt(nodes[i].path) = t
        BY <3>3, <3>4, <4>1, OneFurther
      <4> QED
        BY <3>2, <4>2
    <3>6. k \in 0..n
      BY <1>1
    <3> HIDE DEF Expanded
    <3> QED
      BY <3>5, <3>6
  <2> QED
    BY <1>1, <2>1, <2>2
<1>7. 0..n \subseteq S
  <2> HIDE DEF S, n
  <2> QED
    BY <1>1, <1>5, <1>6, AllNumbers
<1> QED
  BY <1>7

\* Then each table that is left within the depth has a box,
LEMMA AllFound ==
  ASSUME GraphInv, NothingMissed, queue = <<>>, cur.refs = <<>>, NEW t, StillNear(t, MaxDepth)
  PROVE  \E p \in Paths : TableAt(p) = t
<1>1. MaxDepth \in Nat \ {0} /\ DOMAIN nodes = 1..Len(nodes)
  BY Lengths
<1> DEFINE d == MaxDepth - 1
<1>2. d \in 0..(MaxDepth - 1) /\ d + 1 = MaxDepth
  BY <1>1
<1>3. \A s : StillNear(s, d) =>
        \E i \in 1..Len(nodes) : TableAt(nodes[i].path) = s /\ Covered(i, <<>>)
  BY <1>2, AllCovered
<1> HIDE DEF d
<1>4. \E i \in 1..Len(nodes) : TableAt(nodes[i].path) = t
  BY <1>2, <1>3, OneFurther
<1> QED
  BY <1>1, <1>4 DEF Paths

\* and an edge with each that is joined to it still, unless both are as deep as it
\* goes.
LEMMA AllJoined ==
  ASSUME GraphInv, NothingMissed, queue = <<>>, cur.refs = <<>>,
         NEW s, NEW t, s # t, StillNear(s, MaxDepth - 1), StillJoined(s, t)
  PROVE  \E pair \in Pairs : {TableAt(p) : p \in pair} = {s, t}
<1>1. MaxDepth \in Nat \ {0} /\ MaxDepth - 1 \in 0..(MaxDepth - 1)
  BY Lengths
<1>2. PICK i \in 1..Len(nodes) : TableAt(nodes[i].path) = s /\ Covered(i, <<>>)
  BY <1>1, AllCovered
<1>3. PICK j \in 1..Len(nodes) : TableAt(nodes[j].path) = t /\ (j = i \/ Seen(i, j))
  BY <1>2, JoinedIsFound
<1>4. PICK e \in DOMAIN edges : {edges[e].source, edges[e].target} = {i, j}
  BY <1>2, <1>3 DEF Seen
<1> DEFINE pair == {nodes[edges[e].source].path, nodes[edges[e].target].path}
<1>5. pair = {nodes[i].path, nodes[j].path}
  BY <1>4
<1>6. pair \in Pairs
  BY DEF Pairs
<1> HIDE DEF pair
<1>7. {TableAt(p) : p \in pair} = {s, t}
  BY <1>2, <1>3, <1>5
<1> QED
  BY <1>6, <1>7

\* The ends of an edge are those of its foreign key.
LEMMA EdgeFacts ==
  ASSUME GraphInv, NEW i \in 1..Len(edges)
  PROVE  LET e     == edges[i]
             owner == IF e.fk_side = "source" THEN e.source ELSE e.target
             other == IF e.fk_side = "source" THEN e.target ELSE e.source
         IN  /\ TableAt(schema.fks[e.fk].table) = TableAt(nodes[owner].path)
             /\ TableAt(schema.fks[e.fk].ref) = TableAt(nodes[other].path)
             /\ e.source # e.target
             /\ Near(TableAt(nodes[e.source].path), MaxDepth - 1)
<1> DEFINE e == edges[i]
<1>1. EdgeRight(e)
  BY DEF GraphInv, EdgesRight
<1> HIDE DEF e
<1>2. CASE e.fk_side = "source"
  BY <1>1, <1>2 DEF EdgeRight, OwnTable, RefPath, e
<1>3. CASE e.fk_side # "source"
  BY <1>1, <1>3 DEF EdgeRight, OwnTable, RefPath, e
<1> QED
  BY <1>2, <1>3

\* What is discovered is a box for each path, none deeper than it goes, of every
\* table that is left within the depth, and an edge for two of them that are still
\* joined, whatever the schema, the spelling, the depth and the table dropped
\* meanwhile (discover).
THEOREM DiscoveryIsRight == DiscoverySpec => []DiscoveredOnce
<1>1. ASSUME GraphInv, CompleteInv PROVE DiscoveredOnce
  <2> SUFFICES ASSUME phase = "layout" PROVE DiscoveredOnce
    BY DEF DiscoveredOnce
  <2>1. /\ queue = <<>> /\ cur.refs = <<>> /\ NodesRight /\ NothingMissed
    BY <1>1 DEF GraphInv, CompleteInv, Drawing
  <2>2. DOMAIN nodes = 1..Len(nodes) /\ DOMAIN edges = 1..Len(edges)
    BY <1>1, Lengths
  <2>3. \A i \in DOMAIN edges :
          LET e     == edges[i]
              owner == IF e.fk_side = "source" THEN e.source ELSE e.target
              other == IF e.fk_side = "source" THEN e.target ELSE e.source
          IN  /\ TableAt(schema.fks[e.fk].table) = TableAt(nodes[owner].path)
              /\ TableAt(schema.fks[e.fk].ref) = TableAt(nodes[other].path)
              /\ e.source # e.target
              /\ Near(TableAt(nodes[e.source].path), MaxDepth - 1)
    BY <1>1, <2>2, EdgeFacts
  <2>4. \A i \in DOMAIN nodes : /\ Near(TableAt(nodes[i].path), MaxDepth)
                                /\ nodes[i].unavailable => TableAt(nodes[i].path) \in dropped
    BY <2>1, <2>2 DEF NodesRight
  <2>5. \A t \in Tables : StillNear(t, MaxDepth) => \E p \in Paths : TableAt(p) = t
    BY <1>1, <2>1, AllFound
  <2>6. \A s, t \in Tables :
          s # t /\ StillNear(s, MaxDepth - 1) /\ StillJoined(s, t) =>
            \E pair \in Pairs : {TableAt(p) : p \in pair} = {s, t}
    BY <1>1, <2>1, AllJoined
  <2> QED
    BY <1>1, <2>3, <2>4, <2>5, <2>6, FoundOnce DEF DiscoveredOnce
<1> QED
  BY <1>1, GraphIsRight, NothingIsMissed, PTL
-----------------------------------------------------------------------------
(* The layout *)

\* Once there is a table, each of the others has an edge with one found before it.
Hangs ==
  /\ phase \in {"discover"} \cup Drawing => nodes # <<>>
  /\ \A i \in 2..Len(nodes) :
       \E j \in 1..(i - 1), k \in 1..Len(edges) : {edges[k].source, edges[k].target} = {i, j}

\* What is found stays joined as long as tables and edges are only added.
LEMMA HangsStays ==
  ASSUME Hangs, NodesKept, EdgesKept, Len(nodes') = Len(nodes), nodes # <<>> => nodes' # <<>>,
         phase' \in {"discover"} \cup Drawing => phase \in {"discover"} \cup Drawing
  PROVE  Hangs'
<1>1. ASSUME NEW i \in 2..Len(nodes')
      PROVE  \E j \in 1..(i - 1), k \in 1..Len(edges') : {edges'[k].source, edges'[k].target} = {i, j}
  <2>1. PICK j \in 1..(i - 1), k \in 1..Len(edges) : {edges[k].source, edges[k].target} = {i, j}
    BY DEF Hangs
  <2>2. k \in 1..Len(edges') /\ edges'[k] = edges[k]
    BY DEF EdgesKept
  <2> QED
    BY <2>1, <2>2
<1> QED
  BY <1>1 DEF Hangs

\* Steps that leave the tables and edges alone keep them.
LEMMA GraphVarsKept ==
  ASSUME GraphInv, UNCHANGED <<nodes, edges>>
  PROVE  NodesKept /\ EdgesKept /\ Len(nodes') = Len(nodes) /\ (nodes # <<>> => nodes' # <<>>)
BY Lengths DEF NodesKept, EdgesKept

\* A table that is found by following a reference is joined to the table that
\* has it.
LEMMA HangsFollow == ASSUME GraphInv, Hangs, Follow, GraphInv' PROVE Hangs'
<1> DEFINE ref == Head(cur.refs)
           path == RefPath(ref)
<1>1. /\ UNCHANGED <<schema, dropped, phase>> /\ phase = "discover" /\ cur.refs # <<>>
      /\ FollowSelf \/ FollowVisited \/ FollowNew
  BY FollowCases
<1>2. /\ Len(nodes) \in Nat /\ Len(edges) \in Nat /\ Len(nodes') \in Nat /\ Len(edges') \in Nat
      /\ nodes \in Seq(Nodes) /\ nodes' \in Seq(Nodes')
  BY Lengths, LenProperties DEF GraphInv, GraphTyped
<1>3. cur.id \in 1..Len(nodes)
  BY <1>1, CurrentFacts
<1>4. CASE FollowSelf
  BY <1>1, <1>4, GraphVarsKept, HangsStays DEF FollowSelf
<1>5. CASE FollowVisited
  <2>1. UNCHANGED nodes /\ Visited(path) /\ Connect(ref, NodeOf(path))
    BY <1>5 DEF FollowVisited
  <2>2. NodeOf(path) \in Nat
    BY <1>2, <2>1, NodeOfFacts
  <2>3. EdgesKept
    <3> HIDE DEF path
    <3> QED
      BY <1>1, <2>1, <2>2, Connected
  <2> QED
    BY <1>1, <2>1, <2>3, NodesStay, HangsStays
<1>6. CASE FollowNew
  <2> DEFINE t == Len(nodes) + 1
             node == IF Resolves(path) THEN Described(path) ELSE Unavailable(path)
  <2>1. nodes' = Append(nodes, node) /\ Connect(ref, t)
    BY <1>6 DEF FollowNew
  <2>2. node \in Nodes
    <3>1. schema \in Schemas /\ path \in DOMAIN schema.names
      BY <1>1, CurrentFacts, Lengths
    <3> HIDE DEF path
    <3>2. Described(path) \in Nodes
      BY <3>1, DescribedFacts
    <3>3. Unavailable(path) \in Nodes
      BY <3>1, ColumnlessFacts DEF Unavailable
    <3> QED
      BY <3>2, <3>3
  <2> HIDE DEF node, path
  <2>3. Len(nodes') = t /\ nodes' # <<>>
    <3>1. Len(Append(nodes, node)) = Len(nodes) + 1
      BY <1>2, <2>2, Appended
    <3>2. Len(<<>>) = 0
      BY EmptySeq
    <3> QED
      BY <1>2, <2>1, <3>1, <3>2
  <2>4. EdgesKept /\ \E k \in 1..Len(edges') : {edges'[k].source, edges'[k].target} = {cur.id, t}
    <3>1. t \in Nat
      BY <1>2
    <3> HIDE DEF t
    <3> QED
      BY <1>1, <2>1, <3>1, Connected
  <2>5. ASSUME NEW i \in 2..Len(nodes')
        PROVE  \E j \in 1..(i - 1), k \in 1..Len(edges') : {edges'[k].source, edges'[k].target} = {i, j}
    <3>1. CASE i = t
      <4>1. cur.id \in 1..(i - 1)
        BY <1>2, <1>3, <3>1
      <4>2. PICK k \in 1..Len(edges') : {edges'[k].source, edges'[k].target} = {cur.id, t}
        BY <2>4
      <4>3. {edges'[k].source, edges'[k].target} = {i, cur.id}
        BY <3>1, <4>2
      <4> QED
        BY <4>1, <4>3
    <3>2. CASE i # t
      <4>1. i \in 2..Len(nodes)
        BY <1>2, <2>3, <3>2
      <4>2. PICK j \in 1..(i - 1), k \in 1..Len(edges) : {edges[k].source, edges[k].target} = {i, j}
        BY <4>1 DEF Hangs
      <4>3. k \in 1..Len(edges') /\ edges'[k] = edges[k]
        BY <2>4 DEF EdgesKept
      <4> QED
        BY <4>2, <4>3
    <3> QED
      BY <3>1, <3>2
  <2> QED
    BY <2>3, <2>5 DEF Hangs
<1> QED
  BY <1>1, <1>4, <1>5, <1>6

\* The first table is joined to no other.
LEMMA HangsStart == ASSUME GraphInv, Hangs, Start PROVE Hangs'
<1>1. phase = "start" /\ nodes = <<>> /\ UNCHANGED edges
  BY DEF Start, GraphInv
<1>2. CASE ~Resolves(1)
  <2>1. phase' = "error" /\ UNCHANGED nodes
    BY <1>2 DEF Start
  <2> QED
    BY <1>1, <2>1 DEF Hangs, Drawing
<1>3. CASE Resolves(1)
  <2>1. nodes' = <<Described(1)>>
    BY <1>3 DEF Start
  <2>2. Len(nodes') = 1 /\ nodes' # <<>>
    BY <2>1
  <2> QED
    BY <2>2 DEF Hangs
<1> QED
  BY <1>2, <1>3

\* Every table is joined to the first by edges of tables found.
THEOREM GraphHangs == DiscoverySpec => []Hangs
<1>1. DiscoveryInit => Hangs
  <2>1. Len(<<>>) = 0
    BY EmptySeq
  <2> QED
    BY <2>1 DEF DiscoveryInit, Hangs, Drawing
<1>2. ASSUME GraphInv, Hangs, [DiscoveryNext]_discoveryVars, GraphInv' PROVE Hangs'
  <2>1. CASE UNCHANGED <<nodes, edges>>
             /\ (phase' \in {"discover"} \cup Drawing => phase \in {"discover"} \cup Drawing)
    BY <1>2, <2>1, GraphVarsKept, HangsStays
  <2>2. PopLeft \/ DropTable \/ Discovered \/ Draw \/ UNCHANGED discoveryVars
          => UNCHANGED <<nodes, edges>>
             /\ (phase' \in {"discover"} \cup Drawing => phase \in {"discover"} \cup Drawing)
    BY DEF PopLeft, DropTable, Discovered, Draw, graphVars, discoveryVars
  <2>3. CASE DescribeRaises
    BY <1>2, <2>3, GraphVarsKept, HangsStays DEF DescribeRaises, graphVars, Drawing
  <2> QED
    BY <1>2, <2>1, <2>2, <2>3, HangsStart, HangsFollow DEF DiscoveryNext
<1> QED
  BY <1>1, <1>2, GraphIsRight, PTL DEF DiscoverySpec

\* What is laid out is a graph in one piece.
LEMMA GraphFound ==
  ASSUME GraphInv, Hangs, phase \in {"discover"} \cup Drawing
  PROVE  Graph(Len(nodes), edges)
<1> DEFINE n == Len(nodes)
<1>1. n \in Nat \ {0} /\ Len(edges) \in Nat /\ DOMAIN edges = 1..Len(edges)
  <2>1. n \in Nat /\ Len(edges) \in Nat /\ DOMAIN edges = 1..Len(edges)
    BY Lengths
  <2>2. n # 0
    <3>1. nodes # <<>> /\ nodes \in Seq(Nodes)
      BY DEF Hangs, GraphInv, GraphTyped
    <3> QED
      BY <3>1, EmptySeq
  <2> QED
    BY <2>1, <2>2
<1>2. \A i \in 1..Len(edges) : /\ edges[i].source \in 1..n /\ edges[i].target \in 1..n
                               /\ edges[i].source # edges[i].target
  BY DEF GraphInv, EdgesRight, EdgeRight
<1>3. \A i \in 2..n : \E j \in 1..(i - 1), k \in 1..Len(edges) : {edges[k].source, edges[k].target} = {i, j}
  BY DEF Hangs
<1> HIDE DEF n
<1>4. ASSUME NEW c \in SUBSET (1..n), c # {},
             \A i \in 1..Len(edges) : edges[i].source \in c <=> edges[i].target \in c
      PROVE  1 \in c
  <2>1. PICK x \in c : \A y \in c : x <= y
    <3>1. c \in SUBSET Nat
      BY <1>1
    <3> QED
      BY <1>4, <3>1, LeastNumber
  <2> SUFFICES ASSUME x # 1 PROVE FALSE
    BY <2>1
  <2>2. x \in 2..n
    BY <1>1, <2>1
  <2>3. PICK j \in 1..(x - 1), k \in 1..Len(edges) : {edges[k].source, edges[k].target} = {x, j}
    BY <1>3, <2>2
  <2>4. j \in c
    <3>1. \/ edges[k].source = x /\ edges[k].target = j
          \/ edges[k].source = j /\ edges[k].target = x
      BY <2>3
    <3> QED
      BY <1>4, <2>1, <3>1
  <2> QED
    BY <2>1, <2>2, <2>3, <2>4
<1>5. ASSUME NEW c \in SUBSET (1..n), c # {},
             \A i \in 1..Len(edges) : edges[i].source \in c <=> edges[i].target \in c
      PROVE  c = 1..n
  <2> DEFINE d == (1..n) \ c
  <2>1. d \in SUBSET (1..n) /\ \A i \in 1..Len(edges) : edges[i].source \in d <=> edges[i].target \in d
    BY <1>2, <1>5
  <2>2. 1 \in c /\ 1 \notin d
    BY <1>4, <1>5
  <2>3. d = {}
    <3> HIDE DEF d
    <3> QED
      BY <1>4, <2>1, <2>2
  <2> QED
    BY <2>3
<1> QED
  BY <1>1, <1>2, <1>5 DEF Graph, n

\* What is drawn is of a discovery.
LEMMA DiagramDiscovers == DiagramSpec => DiscoverySpec
<1>1. DiagramInit => DiscoveryInit
  BY DEF DiagramInit
<1>2. [DiagramNext]_diagramVars => [DiscoveryNext]_discoveryVars
  BY DEF DiagramNext, diagramVars, DiscoveryNext, LayOut, PlaceNodes, NoRoute, CompactRows
<1> QED
  BY <1>1, <1>2, PTL DEF DiagramSpec, DiscoverySpec

\* A diagram that is drawn is laid out, at a spacing there is.
LaidInv ==
  /\ rung \in 1..5
  /\ phase \in Drawing => LayoutOf(Len(nodes), edges, layout)

\* From the layout on, a diagram has a layout of the graph that was discovered,
\* and one of the five spacings.
THEOREM DiagramIsLaid == DiagramSpec => []LaidInv
<1>1. DiagramInit => LaidInv
  BY DEF DiagramInit, DiscoveryInit, LaidInv, Drawing
<1>2. ASSUME GraphInv, Hangs, LaidInv, [DiagramNext]_diagramVars PROVE LaidInv'
  <2>1. CASE UNCHANGED drawingVars /\ (phase' \in Drawing => phase \in Drawing /\ UNCHANGED graphVars)
    BY <1>2, <2>1 DEF LaidInv, drawingVars, graphVars
  <2>2. Start \/ PopLeft \/ Follow \/ DescribeRaises \/ DropTable => ~(phase' \in Drawing)
    BY DEF Start, PopLeft, Follow, DescribeRaises, DropTable, Drawing
  <2>3. CASE LayOut
    <3>1. phase = "discover" /\ rung' = rung /\ UNCHANGED graphVars
          /\ layout' = ComputeLayout(Len(nodes), edges)
      BY <2>3 DEF LayOut, Discovered
    <3>2. LayoutOf(Len(nodes), edges, ComputeLayout(Len(nodes), edges))
      BY <1>2, <3>1, GraphFound, ComputeLayoutFacts
    <3> QED
      BY <1>2, <3>1, <3>2 DEF LaidInv, graphVars
  <2>4. CASE PlaceNodes \/ CompactRows
    BY <1>2, <2>4 DEF PlaceNodes, CompactRows, Draw, LaidInv, graphVars
  <2>5. CASE NoRoute
    <3>1. Draw /\ layout' = layout
      BY <2>5 DEF NoRoute
    <3>2. rung' \in 1..5
      <4>1. Len(SpacingLadder(Len(edges))) = 5
        BY DEF SpacingLadder
      <4> QED
        BY <1>2, <2>5, <4>1 DEF NoRoute, LaidInv
    <3> QED
      BY <1>2, <3>1, <3>2 DEF LaidInv, Draw, graphVars
  <2>6. CASE UNCHANGED diagramVars
    BY <2>1, <2>6 DEF diagramVars, discoveryVars
  <2> QED
    BY <1>2, <2>1, <2>2, <2>3, <2>4, <2>5, <2>6 DEF DiagramNext
<1>3. DiagramSpec => []GraphInv /\ []Hangs
  BY DiagramDiscovers, GraphIsRight, GraphHangs, PTL
<1> QED
  BY <1>1, <1>2, <1>3, PTL DEF DiagramSpec

\* The edges that are left without a node join two others each.
LEMMA RestJoins ==
  ASSUME GraphInv, NEW hub
  PROVE  Joining(Others(Len(nodes), hub), RestEdges(edges, hub))
<1> DEFINE n == Len(nodes)
           rest == RestEdges(edges, hub)
<1>1. DOMAIN edges = 1..Len(edges) /\ Len(edges) \in Nat /\ edges = [i \in 1..Len(edges) |-> edges[i]]
  <2>1. DOMAIN edges = 1..Len(edges) /\ Len(edges) \in Nat
    BY Lengths
  <2>2. edges \in Seq(Edges)
    BY DEF GraphInv, GraphTyped
  <2>3. edges \in [1..Len(edges) -> Edges]
    BY <2>2, LenProperties
  <2> QED
    BY <2>1, <2>3
<1>2. IsFiniteSet(rest)
  <2>1. IsFiniteSet(1..Len(edges))
    BY <1>1, UpTo
  <2>2. IsFiniteSet(Range(edges))
    BY <1>1, <2>1, FiniteRange
  <2>3. rest \subseteq Range(edges)
    BY DEF RestEdges
  <2> QED
    BY <2>2, <2>3, FS_Subset
<1>3. ASSUME NEW e \in rest
      PROVE  /\ e.source \in Others(n, hub) /\ e.target \in Others(n, hub) /\ e.source # e.target
             /\ \E i \in 1..Len(edges) : e = edges[i]
  <2>1. PICK i \in 1..Len(edges) : e = edges[i]
    BY <1>1 DEF RestEdges, Range
  <2>2. e.source \in 1..n /\ e.target \in 1..n /\ e.source # e.target
    BY <2>1 DEF GraphInv, EdgesRight, EdgeRight
  <2>3. ~Touches(e, hub)
    BY DEF RestEdges
  <2> QED
    BY <2>1, <2>2, <2>3 DEF Touches, Others
<1>4. ASSUME NEW e \in rest, NEW f \in rest, {e.source, e.target} = {f.source, f.target} PROVE e = f
  <2>1. PICK i \in 1..Len(edges), j \in 1..Len(edges) : e = edges[i] /\ f = edges[j]
    BY <1>3
  <2>2. i = j
    BY <1>4, <2>1 DEF GraphInv, EdgesRight
  <2> QED
    BY <2>1, <2>2
<1> QED
  BY <1>2, <1>3, <1>4 DEF Joining

\* What lies to the right of the hub is what was assigned there.
LEMMA RightSide ==
  ASSUME GraphInv, LayoutOf(Len(nodes), edges, layout), Len(nodes) \in Nat
  PROVE  LET hub   == layout.hub
             ids   == Others(Len(nodes), hub)
             rest  == RestEdges(edges, hub)
             parts == ConnectedComponents(ids, rest)
             right == {id \in ids : layout.column[id] > layout.column[hub]}
             to    == IF Cardinality(parts) > 1 THEN LptAssign(parts)
                      ELSE KlSwap(ids, rest, Grown(Len(nodes), edges, hub))
         IN  to \subseteq ids => right = to
<1> DEFINE hub   == layout.hub
           ids   == Others(Len(nodes), hub)
           rest  == RestEdges(edges, hub)
           parts == ConnectedComponents(ids, rest)
           right == {id \in ids : layout.column[id] > layout.column[hub]}
           to    == IF Cardinality(parts) > 1 THEN LptAssign(parts)
                    ELSE KlSwap(ids, rest, Grown(Len(nodes), edges, hub))
<1>1. PartitionSides(Len(nodes), edges, hub) = [id \in ids |-> IF id \in to THEN 1 ELSE -1]
  BY DEF PartitionSides
<1>2. \A id \in ids : layout.column[id] > layout.column[hub] <=> PartitionSides(Len(nodes), edges, hub)[id] = 1
  BY DEF LayoutOf
<1> HIDE DEF to, ids
<1>3. \A id \in ids : layout.column[id] > layout.column[hub] <=> id \in to
  BY <1>1, <1>2
<1>4. to \subseteq ids => right = to
  BY <1>3
<1> QED
  BY <1>4 DEF to, ids

\* The sides of a layout are divided as the code promises.
LEMMA LaidDivided ==
  ASSUME GraphInv, Graph(Len(nodes), edges), LayoutOf(Len(nodes), edges, layout)
  PROVE  Divided
<1> DEFINE n     == Len(nodes)
           hub   == layout.hub
           ids   == Others(n, hub)
           rest  == RestEdges(edges, hub)
           parts == ConnectedComponents(ids, rest)
           right == {id \in ids : layout.column[id] > layout.column[hub]}
           left  == ids \ right
           sizes == {Cardinality(r) : r \in parts}
           start == Grown(n, edges, hub)
<1>1. n \in Nat /\ hub \in 1..n /\ ids \in SUBSET (1..n)
  BY DEF Graph, LayoutOf, Others
<1>2. Joining(ids, rest)
  BY RestJoins
<1>3. Parts(n, parts) /\ UNION parts = ids
  <2> HIDE DEF ids, rest
  <2> QED
    BY <1>1, <1>2, ConnectedParts
<1>4. start \in SUBSET ids /\ NodeSet(ids)
  <2>1. start \in SUBSET ids
    BY <1>1, GrownFacts
  <2>2. IsFiniteSet(ids) /\ ids \subseteq Nat
    <3> HIDE DEF ids
    <3>1. IsFiniteSet(1..n) /\ 1..n \subseteq Nat
      BY <1>1, UpTo
    <3> QED
      BY <1>1, <3>1, FS_Subset
  <2> QED
    BY <2>1, <2>2 DEF NodeSet
<1> DEFINE to == IF Cardinality(parts) > 1 THEN LptAssign(parts) ELSE KlSwap(ids, rest, start)
<1>5. to \subseteq ids => right = to
  BY <1>1, RightSide
<1>6. ASSUME Cardinality(parts) > 1
      PROVE  /\ \A p \in parts : p \subseteq right \/ p \subseteq left
             /\ \A p, q \in {right, left} : Cardinality(p) - Cardinality(q) <= Max(sizes)
  <2> HIDE DEF ids, rest, parts, right
  <2>1. IsFiniteSet(parts) /\ \A p \in parts : Cardinality(p) \in Nat
    <3>1. parts \in SUBSET SUBSET (1..n) /\ IsFiniteSet(1..n)
      BY <1>1, <1>3, UpTo DEF Parts
    <3>2. IsFiniteSet(parts)
      BY <3>1, FS_SUBSET, FS_Subset
    <3> QED
      BY <3>1, <3>2, FS_Subset, FS_CardinalityType
  <2>2. Max(sizes) \in Nat /\ \A p \in parts : Cardinality(p) <= Max(sizes)
    <3>1. parts # {}
      BY <1>6, FS_EmptySet
    <3>2. IsFiniteSet(sizes)
      <4> DEFINE f == [r \in parts |-> Cardinality(r)]
      <4>1. DOMAIN f = parts /\ f = [r \in parts |-> f[r]] /\ sizes = Range(f)
        BY DEF Range
      <4> HIDE DEF f, sizes
      <4> QED
        BY <2>1, <4>1, FiniteRange
    <3>3. sizes \in SUBSET Int /\ sizes \in SUBSET Nat /\ sizes # {}
      BY <2>1, <3>1
    <3>4. Max(sizes) \in sizes /\ \A x \in sizes : Max(sizes) >= x
      <4> HIDE DEF sizes
      <4> QED
        BY <3>2, <3>3, MaxFacts
    <3>5. ASSUME NEW p \in parts PROVE Cardinality(p) <= Max(sizes)
      <4>1. Cardinality(p) \in sizes
        OBVIOUS
      <4> HIDE DEF sizes
      <4>2. Max(sizes) >= Cardinality(p) /\ Max(sizes) \in Nat /\ Cardinality(p) \in Nat
        BY <2>1, <3>3, <3>4, <4>1
      <4> QED
        BY <4>2
    <3> QED
      BY <3>3, <3>4, <3>5
  <2> HIDE DEF sizes
  <2>3. LET r == LptAssign(parts)  l == (UNION parts) \ r
        IN  /\ r \subseteq UNION parts /\ \A p \in parts : p \subseteq r \/ p \subseteq l
            /\ Cardinality(r) - Cardinality(l) <= Max(sizes)
            /\ Cardinality(l) - Cardinality(r) <= Max(sizes)
    BY <1>3, <2>2, LptFacts
  <2>4. right = LptAssign(parts)
    BY <1>3, <1>5, <1>6, <2>3
  <2>5. /\ \A p \in parts : p \subseteq right \/ p \subseteq left
        /\ Cardinality(right) - Cardinality(left) <= Max(sizes)
        /\ Cardinality(left) - Cardinality(right) <= Max(sizes)
    BY <1>3, <2>3, <2>4
  <2>6. Cardinality(right) \in Nat /\ Cardinality(left) \in Nat
    <3>1. right \subseteq ids
      BY <1>3, <2>3, <2>4
    <3>2. IsFiniteSet(right) /\ IsFiniteSet(left)
      BY <1>4, <3>1, FS_Subset DEF NodeSet
    <3> QED
      BY <3>2, FS_CardinalityType
  <2> HIDE DEF left
  <2> QED
    BY <2>2, <2>5, <2>6
<1>7. ASSUME Cardinality(parts) <= 1
      PROVE  /\ Across(rest, right) <= Across(rest, start)
             /\ Across(rest, start) <= KLMaxRounds =>
                  \A u \in right, v \in left : Across(rest, (right \ {u}) \cup {v}) >= Across(rest, right)
  <2> HIDE DEF ids, rest, right, start
  <2>1. LET r == KlSwap(ids, rest, start)
        IN  /\ r \in SUBSET ids /\ Across(rest, r) <= Across(rest, start)
            /\ Across(rest, start) <= KLMaxRounds =>
                 \A u \in r, v \in ids \ r : Across(rest, (r \ {u}) \cup {v}) >= Across(rest, r)
    BY <1>2, <1>4, KlFacts
  <2>2. ~(Cardinality(parts) > 1)
    <3>1. Cardinality(parts) \in Nat
      <4> HIDE DEF parts
      <4>1. parts \in SUBSET SUBSET (1..n) /\ IsFiniteSet(1..n)
        BY <1>1, <1>3, UpTo DEF Parts
      <4> QED
        BY <4>1, FS_SUBSET, FS_Subset, FS_CardinalityType
    <3> HIDE DEF parts
    <3> QED
      BY <1>7, <3>1
  <2> HIDE DEF parts
  <2>3. right = KlSwap(ids, rest, start)
    BY <1>5, <2>1, <2>2
  <2> QED
    BY <2>1, <2>3
<1> QED
  BY <1>6, <1>7 DEF Divided, Across

\* The columns of a layout have no edge within, and its rows each table once.
LEMMA LaidInColumns ==
  ASSUME GraphInv, LayoutOf(Len(nodes), edges, layout)
  PROVE  InColumns
<1> DEFINE n == Len(nodes)
           column == layout.column
           hub == layout.hub
           distance == BfsDistance(n, edges, hub)
<1>1. hub \in 1..n /\ ColumnsOf(n, edges, hub, column) /\ layout.row_order \in RowOrders(n, column)
  BY DEF LayoutOf
<1>2. DOMAIN edges = 1..Len(edges)
  BY Lengths
<1> HIDE DEF n, column, hub
<1>3. \A i \in DOMAIN edges : column[edges[i].source] # column[edges[i].target]
  BY <1>1, <1>2 DEF ColumnsOf, Crosses
<1>4. \A id \in Others(n, hub) :
        /\ column[id] # column[hub]
        /\ column[id] - column[hub] >= distance[id] \/ column[hub] - column[id] >= distance[id]
  BY <1>1 DEF ColumnsOf
<1>5. Min(Range(column)) = 0 /\ DOMAIN layout.row_order = Range(column)
  BY <1>1 DEF ColumnsOf, RowOrders
<1>6. ASSUME NEW c \in Range(column)
      PROVE  /\ Range(layout.row_order[c]) = {id \in 1..n : column[id] = c}
             /\ Len(layout.row_order[c]) = Cardinality({id \in 1..n : column[id] = c})
  <2>1. Lists(layout.row_order[c], In(n, column, c))
    BY <1>1 DEF RowOrders
  <2>2. Range(layout.row_order[c]) = In(n, column, c)
    BY <2>1, PositionFacts
  <2> QED
    BY <2>1, <2>2 DEF Lists, In
<1> QED
  BY <1>3, <1>4, <1>5, <1>6 DEF InColumns, n, column, hub

\* Every diagram is laid out as LaidOut says, for any schema, depth and number of
\* rounds: columns with no edge within one of them, rows that have each table
\* once, and sides of the hub that are whole parts, balanced, or without a swap
\* that would spare an edge.
THEOREM LayoutIsRight == DiagramSpec => []LaidOut
<1>1. ASSUME GraphInv, Hangs, LaidInv PROVE LaidOut
  <2> SUFFICES ASSUME phase = "layout" PROVE InColumns /\ Divided
    BY DEF LaidOut
  <2>1. LayoutOf(Len(nodes), edges, layout) /\ Graph(Len(nodes), edges)
    BY <1>1, GraphFound DEF LaidInv, Drawing
  <2> QED
    BY <1>1, <2>1, LaidInColumns, LaidDivided
<1>2. DiagramSpec => []GraphInv /\ []Hangs
  BY DiagramDiscovers, GraphIsRight, GraphHangs, PTL
<1> QED
  BY <1>1, <1>2, DiagramIsLaid, PTL
-----------------------------------------------------------------------------
(* The boxes *)

\* What is placed at a spacing, and what is left of it once compacted.
Channels == [c \in Range(layout.column) |-> Channel(layout, edges, c, Spacing.channel_padding)]
DrawnInv ==
  phase \in {"place", "compacted"} =>
    /\ rects \in Boxes(Len(nodes))
    /\ \A id \in 1..Len(nodes) : rects[id].height = BoxLines(nodes[id])
    /\ phase = "place" =>
         /\ \A id \in 1..Len(nodes) : rects[id].top >= Margin(edges) /\ rects[id].left >= Margin(edges)
         /\ Spread(layout, rects, Spacing.box_gap, Channels)
    /\ phase = "compacted" => Spread(layout, rects, 1, Ones(layout))

\* Every spacing of the ladder keeps a line between two boxes.
LEMMA SpacingFacts ==
  ASSUME GraphInv, LaidInv
  PROVE  Spacing.box_gap \in Nat \ {0} /\ Spacing.channel_padding \in Nat
<1> DEFINE n == Len(edges)
<1>1. n \in Nat /\ n \div 2 \in Nat
  <2>1. n \in Nat
    BY Lengths
  <2> HIDE DEF n
  <2> QED
    BY <2>1
<1>2. Spacing = SpacingLadder(n)[rung] /\ rung \in 1..5
  BY DEF Spacing, LaidInv
<1> HIDE DEF n
<1>3. CASE rung = 1
  BY <1>1, <1>2, <1>3 DEF SpacingLadder
<1>4. CASE rung = 2
  BY <1>1, <1>2, <1>4 DEF SpacingLadder
<1>5. CASE rung = 3
  BY <1>1, <1>2, <1>5 DEF SpacingLadder
<1>6. CASE rung = 4
  BY <1>1, <1>2, <1>6 DEF SpacingLadder
<1>7. CASE rung = 5
  BY <1>1, <1>2, <1>7 DEF SpacingLadder
<1> QED
  BY <1>2, <1>3, <1>4, <1>5, <1>6, <1>7

\* What is laid out has rows that list each column once, and a graph in one piece.
LEMMA LaidRows ==
  ASSUME GraphInv, Hangs, LaidInv, phase \in Drawing
  PROVE  Rows(Len(nodes), layout) /\ Graph(Len(nodes), edges)
<1>1. Graph(Len(nodes), edges)
  BY GraphFound
<1>2. Len(nodes) \in Nat \ {0}
  BY <1>1 DEF Graph
<1> QED
  BY <1>1, <1>2 DEF LaidInv, LayoutOf, ColumnsOf, Rows

\* Every box has a height and a width.
LEMMA BoxSizes ==
  ASSUME GraphInv
  PROVE  /\ DOMAIN nodes = 1..Len(nodes)
         /\ [i \in DOMAIN nodes |-> BoxLines(nodes[i])] \in [1..Len(nodes) -> Nat \ {0}]
         /\ [i \in DOMAIN nodes |-> BoxWidth(nodes[i])] \in [1..Len(nodes) -> Nat \ {0}]
<1>1. DOMAIN nodes = 1..Len(nodes) /\ \A i \in 1..Len(nodes) : nodes[i] \in Nodes
  <2>1. nodes \in Seq(Nodes) /\ DOMAIN nodes = 1..Len(nodes)
    BY Lengths DEF GraphInv, GraphTyped
  <2> QED
    BY <2>1
<1>2. ASSUME NEW node \in Nodes PROVE BoxLines(node) \in Nat \ {0} /\ BoxWidth(node) \in Nat \ {0}
  <2>1. node.fk_columns \in Nat
    BY DEF Nodes
  <2> QED
    BY <2>1 DEF BoxLines, BoxWidth
<1> QED
  BY <1>1, <1>2

\* Placing what is laid out, at any spacing.
LEMMA DrawnPlace == ASSUME GraphInv, Hangs, LaidInv, PlaceNodes PROVE DrawnInv'
<1> DEFINE n == Len(nodes)
           h == [i \in DOMAIN nodes |-> BoxLines(nodes[i])]
           w == [i \in DOMAIN nodes |-> BoxWidth(nodes[i])]
           spacing == Spacing
           placed == PlaceBoxes(layout, edges, h, w, spacing)
<1>1. /\ phase = "layout" /\ phase' = "place" /\ rects' = placed /\ UNCHANGED <<layout, rung, graphVars>>
  BY DEF PlaceNodes, Draw
<1>2. Rows(n, layout) /\ Graph(n, edges)
  BY <1>1, LaidRows DEF Drawing
<1>3. DOMAIN nodes = 1..n /\ h \in [1..n -> Nat \ {0}] /\ w \in [1..n -> Nat \ {0}]
  BY BoxSizes
<1>4. spacing.box_gap \in Nat /\ spacing.channel_padding \in Nat
  BY SpacingFacts
<1>5. \A id \in 1..n : h[id] = BoxLines(nodes[id])
  BY <1>3
<1>6. /\ UNCHANGED <<layout, rung, edges, nodes>> /\ Spacing' = Spacing
      /\ Channels' = [c \in Range(layout.column) |-> Channel(layout, edges, c, spacing.channel_padding)]
  BY <1>1 DEF graphVars, Spacing, Channels
<1> HIDE DEF h, w, spacing
<1>7. /\ placed \in Boxes(n)
      /\ \A id \in 1..n : /\ placed[id].height = h[id]
                          /\ placed[id].top >= Margin(edges) /\ placed[id].left >= Margin(edges)
      /\ Spread(layout, placed, spacing.box_gap,
                [c \in Range(layout.column) |-> Channel(layout, edges, c, spacing.channel_padding)])
  <2> HIDE DEF n, placed
  <2>1. WellPlaced(n, layout, edges, h, spacing, PlaceBoxes(layout, edges, h, w, spacing))
    BY <1>2, <1>3, <1>4, PlaceBoxesFacts
  <2> QED
    BY <2>1 DEF WellPlaced, placed
<1> HIDE DEF placed
<1> QED
  BY <1>1, <1>5, <1>6, <1>7 DEF DrawnInv, spacing

\* The lines taken on an axis are numbers, and not without end.
LEMMA TakenFacts ==
  ASSUME NEW n \in Nat, NEW taken \in [1..n -> FreeLines], NEW axis
  PROVE  LET lines == {l[2] : l \in {m \in Range(taken) : m[1] = axis}}
         IN  lines \in SUBSET Nat /\ IsFiniteSet(lines)
<1> DEFINE lines == {l[2] : l \in {m \in Range(taken) : m[1] = axis}}
           f == [i \in 1..n |-> taken[i][2]]
<1>1. \A used : Free(used) \subseteq Nat
  BY DEF Free
<1>2. \A l \in FreeLines : l[2] \in Nat
  BY <1>1 DEF FreeLines
<1>3. lines \subseteq Range(f) /\ lines \subseteq Nat
  BY <1>2 DEF Range
<1>4. IsFiniteSet(Range(f))
  <2>1. IsFiniteSet(1..n) /\ DOMAIN f = 1..n /\ f = [i \in 1..n |-> f[i]]
    BY UpTo
  <2> HIDE DEF f
  <2> QED
    BY <2>1, FiniteRange
<1> QED
  BY <1>3, <1>4, FS_Subset

\* Compacting keeps a line between any two boxes that had more.
LEMMA DrawnCompact == ASSUME GraphInv, Hangs, LaidInv, DrawnInv, CompactRows PROVE DrawnInv'
<1> DEFINE n == Len(nodes)
<1>1. phase = "place" /\ phase' = "compacted" /\ UNCHANGED <<layout, rung, graphVars>>
  BY DEF CompactRows, Draw
<1>0. PICK lanes \in 0..(IF edges = <<>> THEN 0 ELSE Lanes) : \E taken \in [1..lanes -> FreeLines] :
        rects' = Compact(rects, {l[2] : l \in {m \in Range(taken) : m[1] = "row"}},
                         {l[2] : l \in {m \in Range(taken) : m[1] = "column"}})
  BY DEF CompactRows
<1>2. PICK taken \in [1..lanes -> FreeLines] :
        rects' = Compact(rects, {l[2] : l \in {m \in Range(taken) : m[1] = "row"}},
                         {l[2] : l \in {m \in Range(taken) : m[1] = "column"}})
  BY <1>0
<1> DEFINE top == {l[2] : l \in {m \in Range(taken) : m[1] = "row"}}
           left == {l[2] : l \in {m \in Range(taken) : m[1] = "column"}}
<1>3. Rows(n, layout) /\ Graph(n, edges)
  BY <1>1, LaidRows DEF Drawing
<1>4. top \in SUBSET Nat /\ IsFiniteSet(top) /\ left \in SUBSET Nat /\ IsFiniteSet(left)
  <2>1. lanes \in Nat
    BY PlaceAssumption
  <2> QED
    BY <2>1, TakenFacts
<1>5. rects' = Compact(rects, top, left)
  BY <1>2
<1>6. /\ rects \in Boxes(n) /\ \A id \in 1..n : rects[id].height = BoxLines(nodes[id])
      /\ Spread(layout, rects, Spacing.box_gap, Channels)
  BY <1>1 DEF DrawnInv
<1>7. Spacing.box_gap \in Nat \ {0} /\ Channels \in [Range(layout.column) -> Nat \ {0}]
  <2>1. Spacing.box_gap \in Nat \ {0} /\ Spacing.channel_padding \in Nat
    BY SpacingFacts
  <2>2. \A c \in Range(layout.column) : Channel(layout, edges, c, Spacing.channel_padding) \in Nat \ {0}
    BY <1>3, <2>1, ChannelFacts
  <2> QED
    BY <2>1, <2>2 DEF Channels
<1> HIDE DEF top, left
<1>8. /\ Compact(rects, top, left) \in Boxes(n)
      /\ \A id \in 1..n : Compact(rects, top, left)[id].height = rects[id].height
      /\ Spread(layout, Compact(rects, top, left), 1, Ones(layout))
  <2> HIDE DEF n
  <2> QED
    BY <1>3, <1>4, <1>6, <1>7, CompactFacts
<1>9. UNCHANGED <<layout, nodes, edges>> /\ Ones(layout)' = Ones(layout)
  BY <1>1 DEF graphVars, Ones
<1> QED
  BY <1>1, <1>5, <1>6, <1>8, <1>9 DEF DrawnInv

\* What is drawn depends on the layout, the spacing and the boxes alone.
LEMMA DrawnStays ==
  ASSUME DrawnInv, UNCHANGED <<phase, nodes, edges, layout, rung, rects>>
  PROVE  DrawnInv'
BY DEF DrawnInv, Channels, Spacing, Ones

\* Placed boxes are as far apart as the spacing asks, and compacted ones by a line:
\* what a placement is compacted from is spread.
THEOREM DiagramIsDrawn == DiagramSpec => []DrawnInv
<1>1. DiagramInit => DrawnInv
  BY DEF DiagramInit, DiscoveryInit, DrawnInv
<1>2. ASSUME GraphInv, Hangs, LaidInv, DrawnInv, [DiagramNext]_diagramVars PROVE DrawnInv'
  <2>1. CASE phase' \notin {"place", "compacted"}
    BY <2>1 DEF DrawnInv
  <2>2. Start \/ PopLeft \/ Follow \/ DescribeRaises \/ LayOut \/ NoRoute
          => phase' \notin {"place", "compacted"}
    BY <1>2 DEF Start, PopLeft, Follow, DescribeRaises, LayOut, Discovered, NoRoute
  <2>3. DropTable => phase' \notin {"place", "compacted"}
    BY DEF DropTable
  <2>4. CASE PlaceNodes
    BY <1>2, <2>4, DrawnPlace
  <2>5. CASE CompactRows
    BY <1>2, <2>5, DrawnCompact
  <2>6. CASE UNCHANGED diagramVars
    BY <1>2, <2>6, DrawnStays DEF diagramVars, discoveryVars, graphVars, drawingVars
  <2> QED
    BY <1>2, <2>1, <2>2, <2>3, <2>4, <2>5, <2>6 DEF DiagramNext
<1>3. DiagramSpec => []GraphInv /\ []Hangs
  BY DiagramDiscovers, GraphIsRight, GraphHangs, PTL
<1> QED
  BY <1>1, <1>2, <1>3, DiagramIsLaid, PTL DEF DiagramSpec

\* Every placement and every compacted one keeps the order of each column, the gaps
\* between its boxes, the channels between columns and the margins, for any schema,
\* any heights and any lines the routes take.
THEOREM PlacementIsRight == DiagramSpec => []Placed
<1>1. ASSUME GraphInv, Hangs, LaidInv, DrawnInv PROVE Placed
  <2> SUFFICES ASSUME phase \in {"place", "compacted"} PROVE Placed
    BY DEF Placed
  <2> DEFINE n == Len(nodes)
             columns == Columns(layout)
             gap == IF phase = "compacted" THEN 1 ELSE Spacing.box_gap
             wide(c) == IF phase = "compacted" THEN 1
                        ELSE MaxOf(2 * Spacing.channel_padding + Crossing(layout, edges, c), 2 * StubLen + 1)
             edge == IF phase = "compacted" THEN 0 ELSE Margin(edges)
  <2>1. /\ rects \in Boxes(n) /\ \A id \in 1..n : rects[id].height = BoxLines(nodes[id])
        /\ phase = "place" =>
             /\ \A id \in 1..n : rects[id].top >= Margin(edges) /\ rects[id].left >= Margin(edges)
             /\ Spread(layout, rects, Spacing.box_gap, Channels)
        /\ phase = "compacted" => Spread(layout, rects, 1, Ones(layout))
    BY <1>1 DEF DrawnInv
  <2>2. Rows(n, layout)
    BY <1>1, LaidRows DEF Drawing
  <2>3. DOMAIN layout.row_order = Range(layout.column) /\ Lists(columns, Range(layout.column))
    BY <2>2, ColumnsFacts
  <2>4. DOMAIN rects = 1..n /\ \A id \in 1..n : rects[id].top \in Nat /\ rects[id].left \in Nat
    BY <2>1 DEF Boxes
  <2> DEFINE across == IF phase = "compacted" THEN Ones(layout) ELSE Channels
  <2>5. Spread(layout, rects, gap, across)
    BY <2>1
  <2>6. \A c \in Range(layout.column) : across[c] = wide(c)
    BY DEF Ones, Channels, Channel
  <2>7. \A j \in 1..(Len(columns) - 1) : columns[j] \in Range(layout.column)
    <3>1. Len(columns) \in Nat /\ \A j \in 1..Len(columns) : columns[j] \in Range(layout.column)
      BY <2>3 DEF Lists
    <3> QED
      BY <3>1
  <2>8. \A id \in 1..n : rects[id].top >= edge /\ rects[id].left >= edge
    BY <2>1, <2>4
  <2> HIDE DEF gap, wide, edge, across, n
  <2>9. \A c \in DOMAIN layout.row_order :
          \A i \in 1..(Len(layout.row_order[c]) - 1) :
            LET a == rects[layout.row_order[c][i]]  b == rects[layout.row_order[c][i + 1]]
            IN  b.top - (a.top + a.height) >= gap
    BY <2>3, <2>5 DEF Spread
  <2>10. \A j \in 1..(Len(columns) - 1) :
           \A a \in Range(layout.row_order[columns[j]]), b \in Range(layout.row_order[columns[j + 1]]) :
             rects[b].left - (rects[a].left + rects[a].width) >= wide(columns[j])
    BY <2>5, <2>6, <2>7 DEF Spread
  <2>11. /\ \A r \in Range(rects) : r.top >= edge /\ r.left >= edge
         /\ \A id \in DOMAIN rects : rects[id].height = BoxLines(nodes[id])
    BY <2>1, <2>4, <2>8 DEF Range
  <2> QED
    BY <2>9, <2>10, <2>11 DEF Placed, gap, wide, edge
<1>2. DiagramSpec => []GraphInv /\ []Hangs
  BY DiagramDiscovers, GraphIsRight, GraphHangs, PTL
<1> QED
  BY <1>1, <1>2, DiagramIsLaid, DiagramIsDrawn, PTL
=============================================================================
