---------------------------- MODULE PostgresTree ----------------------------
(***************************************************************************)
(* The object tree of grannos/drivers/postgres/driver.py, with the catalog *)
(* queries of grannos/drivers/postgres/queries.py: each operator named     *)
(* after a fetch_... function is what its statement selects.               *)
(***************************************************************************)
EXTENDS Relational

FindPaths ==
  [schema |-> <<<<"*">>>>,
   table  |-> <<<<"*", "*">>>>,
   view   |-> <<<<"*", "*">>>>,
   column |-> <<<<"*", "*", "columns", "*">>>>,
   index  |-> <<<<"*", "*", "indexes", "*">>>>]

\* pg_index: the server keeps an index for the primary key and for each
\* UNIQUE constraint, beside those that are created.
PgIndex(db, id) ==
  LET t     == TableOf(db, id)
      Of(k) == [name |-> k.name, cols |-> k.cols, incl |-> <<>>, unique |-> TRUE]
  IN  (IF t.pk.cols = <<>> THEN <<>> ELSE <<Of(t.pk)>>)
      \o [i \in DOMAIN t.uniq |-> Of(t.uniq[i])]
      \o t.idx

\* What the listings select.
FetchSchemas(db) == db.schemas
FetchTablesAndViews(db, schema) ==
  SelectSeq(db.order, LAMBDA o : o[1] = schema)
FetchColumnNames(db, id) == TableOf(db, id).cols
FetchIndexNames(db, id) == [i \in DOMAIN PgIndex(db, id) |-> PgIndex(db, id)[i].name]

\* information_schema.key_column_usage, by the schema and the name of the
\* constraint: a foreign key's name is unique only among its table's.
KeyColumnUsage(db, schema, name) ==
  UNION {Range(k.cols) :
           k \in {x \in UNION {{db.tab[o].pk} \cup Range(db.tab[o].uniq)
                                 \cup {[name |-> f.name, cols |-> f.cols] :
                                         f \in Range(db.tab[o].fk)} :
                                 o \in {d \in DOMAIN db.tab : d[1] = schema}} :
                    x.name = name}}

FetchPkColumns(db, id) ==
  IF TableOf(db, id).pk.cols = <<>> THEN {}
  ELSE KeyColumnUsage(db, id[1], TableOf(db, id).pk.name)

\* The columns of the UNIQUE indexes on one column, INCLUDE ones counted.
FetchUniqueColumns(db, id) ==
  {x.cols[1] : x \in {y \in Range(PgIndex(db, id)) :
                        y.unique /\ Len(y.cols \o y.incl) = 1}}

FetchOutgoingReferences(db, id) ==
  ReferencesOf(db, id, FetchUniqueColumns(db, id))

\* Of every table of every schema; in the order of the tables here, by name of
\* the constraint there.
FetchIncomingReferences(db, id) ==
  FlattenSeq([i \in DOMAIN db.order |->
    SelectSeq(FetchOutgoingReferences(db, db.order[i]),
              LAMBDA r : r.ref_table = id)])

\* The indexes of a table, by the table's schema and name, and one index by
\* that schema and its own name: names of indexes are unique in a schema.
FetchIndexMetasForTable(db, id) == PgIndex(db, id)
FetchIndexMeta(db, schema, name) ==
  LET rows == {x \in UNION {Range(PgIndex(db, o)) :
                              o \in {d \in DOMAIN db.tab : d[1] = schema}} :
                 x.name = name}
  IN  IF rows = {} THEN None ELSE CHOOSE x \in rows : TRUE

IndexOf(x, table) ==
  [kind |-> "index", name |-> x.name, fields |-> x.cols, unique |-> x.unique,
   tables |-> <<table>>, included_columns |-> x.incl]

DescribeIndices(db, id) ==
  LET metas == FetchIndexMetasForTable(db, id)
  IN  [i \in DOMAIN metas |-> IndexOf(metas[i], id[2])]

DescribeIndex(db, id, name) ==
  LET meta == FetchIndexMeta(db, id[1], name)
  IN  IF meta = None THEN None ELSE IndexOf(meta, id[2])

\* build_column_index_lists, at one column: the indexes it has alone, the others.
ColumnIndexLists(db, id, c) ==
  LET indices == DescribeIndices(db, id)
  IN  [excl |-> Collected(indices, c, TRUE), comp |-> Collected(indices, c, FALSE)]

FetchColumnDetails(db, id) == TableOf(db, id).cols
FieldOf(db, id, c) ==
  LET lists == ColumnIndexLists(db, id, c) IN
  FieldDescription(c, c \in FetchPkColumns(db, id), lists.excl, lists.comp,
    GroupByColumn(FetchOutgoingReferences(db, id), c),
    GroupByRefColumn(FetchIncomingReferences(db, id), c))

DescribeField(db, id, c) ==
  IF c \in Range(FetchColumnDetails(db, id)) THEN FieldOf(db, id, c) ELSE None

DescribeEntity(db, id) ==
  LET cols == FetchColumnDetails(db, id)
  IN  EntityDescription(id, [i \in DOMAIN cols |-> FieldOf(db, id, cols[i])])

List(db, path) ==
  CASE path = <<>> -> Items(FetchSchemas(db), "schema", TRUE)
    [] Is(path, <<"*">>) ->
         LET tables == FetchTablesAndViews(db, path[1])
         IN  [i \in DOMAIN tables |->
                Item(tables[i][2], db.tab[tables[i]].kind, TRUE)]
    [] Is(path, <<"*", "*">>) -> Items(<<"columns", "indexes">>, "group", TRUE)
    [] Is(path, <<"*", "*", "columns">>) ->
         Items(FetchColumnNames(db, <<path[1], path[2]>>), "type", FALSE)
    [] Is(path, <<"*", "*", "indexes">>) ->
         Items(FetchIndexNames(db, <<path[1], path[2]>>), "btree", FALSE)
    [] OTHER -> <<>>

Describe(db, path) ==
  IF Len(path) < 2 THEN None
  ELSE LET id == <<path[1], path[2]>> IN
    CASE Len(path) = 2 -> DescribeEntity(db, id)
      [] Is(path, <<"*", "*", "indexes">>) ->
           GroupDescription("indices", DescribeIndices(db, id))
      [] Is(path, <<"*", "*", "indexes", "*">>) -> DescribeIndex(db, id, path[4])
      [] Is(path, <<"*", "*", "columns", "*">>) -> DescribeField(db, id, path[4])
      [] Is(path, <<"*", "*", "relationships", "*">>) ->
           FindReference(FetchOutgoingReferences(db, id), path[4])
      [] OTHER -> None
=============================================================================
