----------------------------- MODULE SqliteTree -----------------------------
(***************************************************************************)
(* The object tree of grannos/drivers/sqlite/driver.py.  The catalog is    *)
(* read with PRAGMAs; a database has one schema, left out of the paths.    *)
(***************************************************************************)
EXTENDS Relational

Main == "main"

FindPaths ==
  [table  |-> <<<<"*">>>>,
   view   |-> <<<<"*">>>>,
   column |-> <<<<"*", "columns", "*">>>>,
   index  |-> <<<<"*", "indices", "*">>>>]

\* PRAGMA table_info and index_list, and the columns index_xinfo marks as key.
TableInfo(db, t) == TableOf(db, <<Main, t>>).cols
IndexList(db, t) == TableOf(db, <<Main, t>>).idx

\* _unique_columns_sync: the primary key unless composite, and the columns a
\* UNIQUE index has alone.
UniqueColumns(db, t) ==
  LET pk == TableOf(db, <<Main, t>>).pk.cols
  IN  (IF Len(pk) = 1 THEN Range(pk) ELSE {})
      \cup {x.cols[1] : x \in {y \in Range(IndexList(db, t)) :
                                 y.unique /\ Len(y.cols) = 1}}

OutgoingReferences(db, t) ==
  ReferencesOf(db, <<Main, t>>, UniqueColumns(db, t))

\* The foreign keys of every other table that name this one.
IncomingReferences(db, t) ==
  LET others == SelectSeq(db.order, LAMBDA o : o # <<Main, t>>)
  IN  FlattenSeq([i \in DOMAIN others |->
        SelectSeq(OutgoingReferences(db, others[i][2]),
                  LAMBDA r : r.ref_table = <<Main, t>>)])

DescribeIndex(db, t, name) ==
  LET found == SelectSeq(IndexList(db, t), LAMBDA x : x.name = name)
  IN  IF found = <<>> THEN None
      ELSE IndexDescription(name, Head(found).cols, Head(found).unique, <<t>>)

DescribeIndices(db, t) ==
  LET list == IndexList(db, t)
  IN  [i \in DOMAIN list |-> DescribeIndex(db, t, list[i].name)]

DescribeField(db, t, c) ==
  LET pk      == TableOf(db, <<Main, t>>).pk.cols
      indices == DescribeIndices(db, t)
  IN  IF c \notin Range(TableInfo(db, t)) THEN None
      ELSE FieldDescription(c, c \in Range(pk),
             Exclusive(indices, c), Composite(indices, c),
             GroupByColumn(OutgoingReferences(db, t), c),
             GroupByRefColumn(IncomingReferences(db, t), c))

DescribeEntity(db, t) ==
  LET cols     == TableInfo(db, t)
      pk       == TableOf(db, <<Main, t>>).pk.cols
      indices  == DescribeIndices(db, t)
      outgoing == OutgoingReferences(db, t)
      incoming == IncomingReferences(db, t)
  IN  EntityDescription(<<Main, t>>,
        [i \in DOMAIN cols |->
           FieldDescription(cols[i], cols[i] \in Range(pk),
             Collected(indices, cols[i], TRUE), Collected(indices, cols[i], FALSE),
             GroupByColumn(outgoing, cols[i]),
             GroupByRefColumn(incoming, cols[i]))])

List(db, path) ==
  CASE path = <<>> ->
         [i \in DOMAIN db.order |->
            Item(db.order[i][2], db.tab[db.order[i]].kind, TRUE)]
    [] Is(path, <<"*">>) ->
         Items(<<"columns", "indices", "foreign_keys">>, "group", TRUE)
    [] Is(path, <<"*", "columns">>) ->
         Items(TableInfo(db, path[1]), "type", FALSE)
    [] Is(path, <<"*", "indices">>) ->
         [i \in DOMAIN IndexList(db, path[1]) |->
            Item(IndexList(db, path[1])[i].name, "index", FALSE)]
    [] Is(path, <<"*", "foreign_keys">>) ->
         Items([i \in DOMAIN OutgoingReferences(db, path[1]) |-> "a -> t.b"],
               "foreign_key", FALSE)
    [] OTHER -> <<>>

Describe(db, path) ==
  CASE Is(path, <<"*">>) -> DescribeEntity(db, path[1])
    [] Is(path, <<"*", "columns", "*">>) -> DescribeField(db, path[1], path[3])
    [] Is(path, <<"*", "indices">>) ->
         GroupDescription("indices", DescribeIndices(db, path[1]))
    [] Is(path, <<"*", "indices", "*">>) -> DescribeIndex(db, path[1], path[3])
    [] Is(path, <<"*", "relationships", "*">>) ->
         FindReference(OutgoingReferences(db, path[1]), path[3])
    [] OTHER -> None
=============================================================================
