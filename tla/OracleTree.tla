----------------------------- MODULE OracleTree -----------------------------
(***************************************************************************)
(* The object tree and the one-query find of grannos/drivers/oracle/       *)
(* driver.py, with the dictionary queries of grannos/drivers/oracle/       *)
(* queries.py: each operator named after a fetch_... function is what its  *)
(* statement selects.  The schemas of db are the ones not Oracle's own.    *)
(***************************************************************************)
EXTENDS Relational

CONSTANT Upper  \* each name folded to upper case, the names Oracle stores

FindPaths ==
  [schema |-> <<<<"*">>>>,
   table  |-> <<<<"*", "*">>>>,
   view   |-> <<<<"*", "*">>>>,
   column |-> <<<<"*", "*", "columns", "*">>>>,
   index  |-> <<<<"*", "*", "indexes", "*">>>>]

\* ALL_INDEXES of a table: an index has an owner of its own.  The indexes that
\* back constraints are generated.
AllIndexes(db, id) ==
  LET t     == TableOf(db, id)
      Of(k) == [name |-> k.name, owner |-> id[1], cols |-> k.cols, unique |-> TRUE]
  IN  (IF t.pk.cols = <<>> THEN <<>> ELSE <<Of(t.pk)>>)
      \o [i \in DOMAIN t.uniq |-> Of(t.uniq[i])]
      \o t.idx

\* What the listings select.
FetchSchemas(db) == db.schemas
FetchTablesAndViews(db, schema) ==
  SelectSeq(db.order, LAMBDA o : o[1] = schema)
FetchColumnNames(db, id) == TableOf(db, id).cols
FetchIndexNames(db, id) == [i \in DOMAIN AllIndexes(db, id) |-> AllIndexes(db, id)[i].name]

FetchPkColumns(db, id) == Range(TableOf(db, id).pk.cols)

\* The columns a primary key or UNIQUE constraint has alone.
FetchUniqueColumns(db, id) ==
  LET t == TableOf(db, id)
  IN  {k.cols[1] : k \in {x \in {t.pk} \cup Range(t.uniq) : Len(x.cols) = 1}}

FetchOutgoingReferences(db, id) ==
  ReferencesOf(db, id, FetchUniqueColumns(db, id))
FetchIncomingReferences(db, id) ==
  FlattenSeq([i \in DOMAIN db.order |->
    SelectSeq(FetchOutgoingReferences(db, db.order[i]),
              LAMBDA r : r.ref_table = id)])

\* The fields of the indexes of a table, by their owner's schema and the
\* table's name; of one index, by its owner and name.
FetchIndexFieldsForTable(db, id, name) ==
  LET rows == {x \in UNION {Range(AllIndexes(db, o)) :
                              o \in {d \in DOMAIN db.tab : d[2] = id[2]}} :
                 x.owner = id[1] /\ x.name = name}
  IN  IF rows = {} THEN <<>> ELSE (CHOOSE x \in rows : TRUE).cols
FetchIndexMetasForTable(db, id) == AllIndexes(db, id)
FetchIndexMeta(db, schema, name) ==
  LET rows == {x \in UNION {Range(AllIndexes(db, o)) : o \in DOMAIN db.tab} :
                 x.owner = schema /\ x.name = name}
  IN  IF rows = {} THEN None ELSE CHOOSE x \in rows : TRUE

DescribeIndices(db, id) ==
  LET metas == FetchIndexMetasForTable(db, id)
  IN  [i \in DOMAIN metas |->
         IndexDescription(metas[i].name,
           FetchIndexFieldsForTable(db, id, metas[i].name),
           metas[i].unique, <<id[2]>>)]

DescribeIndex(db, id, name) ==
  LET meta == FetchIndexMeta(db, id[1], name)
  IN  IF meta = None THEN None
      ELSE IndexDescription(name, meta.cols, meta.unique, <<id[2]>>)

\* build_column_index_lists, at one column: the indexes it has alone, the others.
ColumnIndexLists(db, id, c) ==
  LET indices == DescribeIndices(db, id)
  IN  [excl |-> Collected(indices, c, TRUE), comp |-> Collected(indices, c, FALSE)]

FetchColumnDetails(db, id) == TableOf(db, id).cols
FieldOf(db, id, c) ==
  LET lists == ColumnIndexLists(db, id, c) IN
  FieldDescription(c, c \in FetchPkColumns(db, id), lists.excl, lists.comp,
    GroupByColumn(FetchOutgoingReferences(db, id), c),
    GroupByRefColumn(FetchIncomingReferences(db, id), c))

DescribeField(db, id, c) ==
  IF c \in Range(FetchColumnDetails(db, id)) THEN FieldOf(db, id, c) ELSE None

DescribeEntity(db, id) ==
  LET cols == FetchColumnDetails(db, id)
  IN  EntityDescription(id, [i \in DOMAIN cols |-> FieldOf(db, id, cols[i])])

\* Paths are folded to upper case on their way into the dictionary.
List(db, path) ==
  LET id == <<Upper[path[1]], Upper[path[2]]>> IN
  CASE path = <<>> -> Items(FetchSchemas(db), "schema", TRUE)
    [] Is(path, <<"*">>) ->
         LET tables == FetchTablesAndViews(db, Upper[path[1]])
         IN  [i \in DOMAIN tables |->
                Item(tables[i][2], db.tab[tables[i]].kind, TRUE)]
    [] Is(path, <<"*", "*">>) -> Items(<<"columns", "indexes">>, "group", TRUE)
    [] Is(path, <<"*", "*", "columns">>) ->
         Items(FetchColumnNames(db, id), "type", FALSE)
    [] Is(path, <<"*", "*", "indexes">>) ->
         Items(FetchIndexNames(db, id), "normal", FALSE)
    [] OTHER -> <<>>

Describe(db, path) ==
  IF Len(path) < 2 THEN None
  ELSE LET id == <<Upper[path[1]], Upper[path[2]]>> IN
    CASE Len(path) = 2 -> DescribeEntity(db, id)
      [] Is(path, <<"*", "*", "indexes">>) ->
           GroupDescription("indices", DescribeIndices(db, id))
      [] Is(path, <<"*", "*", "indexes", "*">>) ->
           DescribeIndex(db, id, Upper[path[4]])
      [] Is(path, <<"*", "*", "columns", "*">>) ->
           DescribeField(db, id, Upper[path[4]])
      [] Is(path, <<"*", "*", "relationships", "*">>) ->
           FindReference(FetchOutgoingReferences(db, id), Upper[path[4]])
      [] OTHER -> None

-----------------------------------------------------------------------------
(* explore_find: one query for each kind of node.  A scope is a record of  *)
(* the type and the name of an ancestor.                                   *)

NameForms(name) == {name, Upper[name]}
ScopeNames(scopes, types) ==
  UNION {NameForms(s.name) : s \in {x \in scopes : x.type \in types}}
InScope(name, names) == names = {} \/ name \in names

\* A synonym resolves to its base, and its own owner is what a scope names.
FindTablesAndViews(db, name, schemas) ==
  {o \in DOMAIN db.tab :
     \/ o[2] \in NameForms(name) /\ InScope(o[1], schemas)
     \/ \E s \in db.synonyms : /\ s.name \in NameForms(name) /\ s.base = o
                               /\ InScope(s.owner, schemas)}

FindColumns(db, name, schemas, tables) ==
  UNION {{<<o[1], o[2], "columns", c>> :
            c \in Range(db.tab[o].cols) \cap NameForms(name)} :
           o \in {d \in DOMAIN db.tab : InScope(d[1], schemas) /\ InScope(d[2], tables)}}

FindIndexes(db, name, schemas, tables) ==
  UNION {{<<o[1], o[2], "indexes", n>> :
            n \in {x.name : x \in Range(AllIndexes(db, o))} \cap NameForms(name)} :
           o \in {d \in DOMAIN db.tab : InScope(d[1], schemas) /\ InScope(d[2], tables)}}

\* The paths found, or that the search is left to the walk.
Find(db, type, name, scopes) ==
  LET schemas == ScopeNames(scopes, {"schema"})
      tables  == ScopeNames(scopes, {"table", "view"})
  IN  CASE type \in {"table", "view"} -> FindTablesAndViews(db, name, schemas)
        [] type = "column" -> FindColumns(db, name, schemas, tables)
        [] type = "index" -> FindIndexes(db, name, schemas, tables)
        [] OTHER -> {<<"not supported">>}
=============================================================================
