--------------------------- MODULE SqlServerTree ----------------------------
(***************************************************************************)
(* The object tree of grannos/drivers/sqlserver/driver.py, read from the   *)
(* sys... catalog views, which name every object by its schema.            *)
(***************************************************************************)
EXTENDS Relational

FindPaths ==
  [schema |-> <<<<"*">>>>,
   table  |-> <<<<"*", "*">>>>,
   view   |-> <<<<"*", "*">>>>,
   column |-> <<<<"*", "*", "columns", "*">>>>,
   index  |-> <<<<"*", "*", "indices", "*">>>>]

\* sys.indexes: the server keeps one for the primary key and for each UNIQUE
\* constraint.  A heap, which has no name, is left out of every query.
SysIndexes(db, id) ==
  LET t     == TableOf(db, id)
      Of(k) == [name |-> k.name, cols |-> k.cols, incl |-> <<>>, unique |-> TRUE]
  IN  (IF t.pk.cols = <<>> THEN <<>> ELSE <<Of(t.pk)>>)
      \o [i \in DOMAIN t.uniq |-> Of(t.uniq[i])]
      \o t.idx

UniqueColumns(db, id) ==
  {CHOOSE c \in Range(x.cols \o x.incl) : TRUE :
     x \in {y \in Range(SysIndexes(db, id)) :
              y.unique /\ Cardinality(Range(y.cols \o y.incl)) = 1}}

OutgoingReferences(db, id) == ReferencesOf(db, id, UniqueColumns(db, id))
IncomingReferences(db, id) ==
  FlattenSeq([i \in DOMAIN db.order |->
    SelectSeq(OutgoingReferences(db, db.order[i]), LAMBDA r : r.ref_table = id)])

IndexOf(x, table) ==
  [kind |-> "index", name |-> x.name, fields |-> x.cols, unique |-> x.unique,
   tables |-> <<table>>, included_columns |-> x.incl]

DescribeIndices(db, id) ==
  LET rows == SysIndexes(db, id)
  IN  [i \in DOMAIN rows |-> IndexOf(rows[i], id[2])]

DescribeIndex(db, id, name) ==
  LET rows == SelectSeq(SysIndexes(db, id), LAMBDA x : x.name = name)
  IN  IF rows = <<>> THEN None ELSE IndexOf(Head(rows), id[2])

DescribeField(db, id, c) ==
  LET t       == TableOf(db, id)
      indices == DescribeIndices(db, id)
  IN  IF c \notin Range(t.cols) THEN None
      ELSE FieldDescription(c, c \in Range(t.pk.cols),
             Exclusive(indices, c), Composite(indices, c),
             GroupByColumn(OutgoingReferences(db, id), c),
             GroupByRefColumn(IncomingReferences(db, id), c))

DescribeEntity(db, id) ==
  LET t        == TableOf(db, id)
      indices  == DescribeIndices(db, id)
      outgoing == OutgoingReferences(db, id)
      incoming == IncomingReferences(db, id)
  IN  EntityDescription(id,
        [i \in DOMAIN t.cols |->
           FieldDescription(t.cols[i], t.cols[i] \in Range(t.pk.cols),
             Collected(indices, t.cols[i], TRUE),
             Collected(indices, t.cols[i], FALSE),
             GroupByColumn(outgoing, t.cols[i]),
             GroupByRefColumn(incoming, t.cols[i]))])

\* TABLE_TYPE in lower case: a table is listed as a "base table".
List(db, path) ==
  CASE path = <<>> -> Items(db.schemas, "schema", TRUE)
    [] Is(path, <<"*">>) ->
         LET tables == SelectSeq(db.order, LAMBDA o : o[1] = path[1])
         IN  [i \in DOMAIN tables |->
                Item(tables[i][2],
                     IF db.tab[tables[i]].kind = "table" THEN "base table" ELSE "view",
                     TRUE)]
    [] Is(path, <<"*", "*">>) -> Items(<<"columns", "indices">>, "group", TRUE)
    [] Is(path, <<"*", "*", "columns">>) ->
         Items(TableOf(db, <<path[1], path[2]>>).cols, "type", FALSE)
    [] Is(path, <<"*", "*", "indices">>) ->
         LET list == SysIndexes(db, <<path[1], path[2]>>)
         IN  [i \in DOMAIN list |-> Item(list[i].name, "nonclustered", FALSE)]
    [] OTHER -> <<>>

Describe(db, path) ==
  IF Len(path) < 2 THEN None
  ELSE LET id == <<path[1], path[2]>> IN
    CASE Len(path) = 2 -> DescribeEntity(db, id)
      [] Is(path, <<"*", "*", "columns", "*">>) -> DescribeField(db, id, path[4])
      [] Is(path, <<"*", "*", "indices">>) ->
           GroupDescription("indices", DescribeIndices(db, id))
      [] Is(path, <<"*", "*", "indices", "*">>) -> DescribeIndex(db, id, path[4])
      [] Is(path, <<"*", "*", "relationships", "*">>) ->
           FindReference(OutgoingReferences(db, id), path[4])
      [] OTHER -> None
=============================================================================
