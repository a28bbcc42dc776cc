---------------------------- MODULE ElasticTree -----------------------------
(***************************************************************************)
(* The object tree of grannos/drivers/elasticsearch/driver.py.  A cluster  *)
(* maps each index to [props, aliases, hidden].  A property of a mapping   *)
(* is [name, type, properties, fields], its type "object" when it has      *)
(* none of its own.                                                        *)
(***************************************************************************)
EXTENDS Relational

CONSTANT NameOrder  \* the names of the indices, in the order they sort

FindPaths ==
  [index |-> <<<<"*">>>>,
   field |-> <<<<"*", "mappings", "*">>>>,
   alias |-> <<<<"*", "aliases", "*">>>>]

\* _flatten_fields: each property under its path, then the sub-properties and
\* the multi-fields below it.
RECURSIVE FlattenFields(_, _)
FlattenFields(props, prefix) ==
  FlattenSeq([i \in DOMAIN props |->
    LET path == (IF prefix = "" THEN "" ELSE prefix \o ".") \o props[i].name
    IN  <<[path |-> path, type |-> props[i].type]>>
        \o FlattenFields(props[i].properties, path)
        \o FlattenFields(props[i].fields, path)])

\* The indices a name stands for: itself, or those it is an alias of.
Resolve(cluster, name) ==
  {i \in DOMAIN cluster : i = name \/ name \in Range(cluster[i].aliases)}

\* _fields: a dictionary filled in the order of the indices: a path keeps its
\* first place and takes its last type.
Fields(cluster, name) ==
  LET names == InOrder(Resolve(cluster, name), NameOrder)
      all   == FlattenSeq([i \in DOMAIN names |->
                             FlattenFields(cluster[names[i]].props, "")])
      new(i) == \A j \in 1..(i - 1) : all[j].path # all[i].path
      last(p) == CHOOSE i \in DOMAIN all :
                   all[i].path = p /\ \A j \in DOMAIN all : all[j].path = p => j <= i
      at(k) == CHOOSE i \in DOMAIN all :
                 new(i) /\ Cardinality({j \in 1..i : new(j)}) = k
  IN  [k \in 1..Cardinality({i \in DOMAIN all : new(i)}) |->
         [path |-> all[at(k)].path, type |-> all[last(all[at(k)].path)].type]]

List(cluster, path) ==
  CASE path = <<>> ->
         Items(InOrder({i \in DOMAIN cluster : ~cluster[i].hidden}, NameOrder),
               "index", TRUE)
    [] Is(path, <<"*">>) -> Items(<<"mappings", "aliases">>, "group", TRUE)
    [] Is(path, <<"*", "mappings">>) ->
         LET fields == Fields(cluster, path[1])
         IN  [i \in DOMAIN fields |-> Item(fields[i].path, fields[i].type, FALSE)]
    [] Is(path, <<"*", "aliases">>) ->
         IF path[1] \in DOMAIN cluster
         THEN Items(cluster[path[1]].aliases, "alias", FALSE) ELSE <<>>
    [] OTHER -> <<>>

Describe(cluster, path) ==
  IF Len(path) # 1 THEN None
  ELSE LET fields == Fields(cluster, path[1])
       IN  [kind |-> "entity", name |-> path[1],
            properties |-> [i \in DOMAIN fields |->
              [kind |-> "field", name |-> fields[i].path, types |-> {fields[i].type}]]]
=============================================================================
