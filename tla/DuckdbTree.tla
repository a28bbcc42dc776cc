----------------------------- MODULE DuckdbTree -----------------------------
(***************************************************************************)
(* The object tree of grannos/drivers/duckdb/driver.py, read from the      *)
(* information_schema and the duckdb_...() catalog functions.  A foreign   *)
(* key stays within its schema.                                            *)
(***************************************************************************)
EXTENDS Relational

FindPaths ==
  [schema |-> <<<<"*">>>>,
   table  |-> <<<<"*", "*">>>>,
   view   |-> <<<<"*", "*">>>>,
   column |-> <<<<"*", "*", "columns", "*">>>>,
   index  |-> <<<<"*", "*", "indices", "*">>>>]

\* The columns a primary key or UNIQUE constraint has alone: they have no
\* entry in duckdb_indexes().
UniqueColumns(db, id) ==
  LET t == TableOf(db, id)
  IN  {k.cols[1] : k \in {x \in {t.pk} \cup Range(t.uniq) : Len(x.cols) = 1}}

OutgoingReferences(db, id) == ReferencesOf(db, id, UniqueColumns(db, id))

\* The foreign keys of the tables of the schema, its own included.
IncomingReferences(db, id) ==
  LET tables == SelectSeq(db.order, LAMBDA o : o[1] = id[1])
  IN  FlattenSeq([i \in DOMAIN tables |->
        SelectSeq(OutgoingReferences(db, tables[i]), LAMBDA r : r.ref_table = id)])

\* An index on plain columns: its key is parsed from the statement kept of it.
IndexOf(id, x) == IndexDescription(x.name, x.cols, x.unique, <<id[2]>>)

DescribeIndices(db, id) ==
  LET list == TableOf(db, id).idx
  IN  [i \in DOMAIN list |-> IndexOf(id, list[i])]

DescribeIndex(db, id, name) ==
  LET rows == SelectSeq(TableOf(db, id).idx, LAMBDA x : x.name = name)
  IN  IF rows = <<>> THEN None ELSE IndexOf(id, Head(rows))

DescribeField(db, id, c) ==
  LET t       == TableOf(db, id)
      indices == DescribeIndices(db, id)
  IN  IF c \notin Range(t.cols) THEN None
      ELSE FieldDescription(c, c \in Range(t.pk.cols),
             Exclusive(indices, c), Composite(indices, c),
             GroupByColumn(OutgoingReferences(db, id), c),
             GroupByRefColumn(IncomingReferences(db, id), c))

DescribeEntity(db, id) ==
  LET t        == TableOf(db, id)
      indices  == DescribeIndices(db, id)
      outgoing == OutgoingReferences(db, id)
      incoming == IncomingReferences(db, id)
  IN  EntityDescription(id,
        [i \in DOMAIN t.cols |->
           FieldDescription(t.cols[i], t.cols[i] \in Range(t.pk.cols),
             Collected(indices, t.cols[i], TRUE),
             Collected(indices, t.cols[i], FALSE),
             GroupByColumn(outgoing, t.cols[i]),
             GroupByRefColumn(incoming, t.cols[i]))])

List(db, path) ==
  CASE path = <<>> -> Items(db.schemas, "schema", TRUE)
    [] Is(path, <<"*">>) ->
         LET tables == SelectSeq(db.order, LAMBDA o : o[1] = path[1])
         IN  [i \in DOMAIN tables |->
                Item(tables[i][2], db.tab[tables[i]].kind, TRUE)]
    [] Is(path, <<"*", "*">>) ->
         Items(<<"columns", "indices", "foreign_keys">>, "group", TRUE)
    [] Is(path, <<"*", "*", "columns">>) ->
         Items(TableOf(db, <<path[1], path[2]>>).cols, "type", FALSE)
    [] Is(path, <<"*", "*", "indices">>) ->
         LET list == TableOf(db, <<path[1], path[2]>>).idx
         IN  [i \in DOMAIN list |-> Item(list[i].name, "index", FALSE)]
    [] Is(path, <<"*", "*", "foreign_keys">>) ->
         LET fks == TableOf(db, <<path[1], path[2]>>).fk
         IN  Items([i \in DOMAIN fks |-> "a -> t.b"], "foreign_key", FALSE)
    [] OTHER -> <<>>

Describe(db, path) ==
  IF Len(path) < 2 THEN None
  ELSE LET id == <<path[1], path[2]>> IN
    CASE Len(path) = 2 -> DescribeEntity(db, id)
      [] Is(path, <<"*", "*", "columns", "*">>) -> DescribeField(db, id, path[4])
      [] Is(path, <<"*", "*", "indices">>) ->
           GroupDescription("indices", DescribeIndices(db, id))
      [] Is(path, <<"*", "*", "indices", "*">>) -> DescribeIndex(db, id, path[4])
      [] Is(path, <<"*", "*", "relationships", "*">>) ->
           FindReference(OutgoingReferences(db, id), path[4])
      [] OTHER -> None
=============================================================================
