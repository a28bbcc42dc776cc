----------------------------- MODULE Neo4jTree ------------------------------
(***************************************************************************)
(* The object tree of grannos/drivers/neo4j/driver.py.  A graph holds      *)
(*   nodes   : each node's [labels, props], props the names it has a value *)
(*             of, mapped to the value's type                              *)
(*   rels    : each relationship's [type, from, to, props], from and to    *)
(*             indices of nodes                                            *)
(*   indexes : in the order SHOW INDEXES gives them, by name               *)
(***************************************************************************)
EXTENDS Relational

CONSTANT NameOrder  \* every name, in the order they sort

FindPaths ==
  [label             |-> <<<<"entities", "*">>>>,
   relationship_type |-> <<<<"relationships", "*">>>>,
   property          |-> <<<<"entities", "*", "properties", "*">>,
                           <<"relationships", "*", "properties", "*">>>>,
   index             |-> <<<<"indexes", "*">>>>]

Sorted(names) == InOrder(names, NameOrder)

Labels(g) == UNION {n.labels : n \in Range(g.nodes)}
RelationshipTypes(g) == {r.type : r \in Range(g.rels)}
NodeProperties(g, label) ==
  UNION {DOMAIN n.props : n \in {m \in Range(g.nodes) : label \in m.labels}}
RelationshipProperties(g, type) ==
  UNION {DOMAIN r.props : r \in {s \in Range(g.rels) : s.type = type}}

\* A row of db.schema.nodeTypeProperties or relTypeProperties for each property
\* the members of a group have: its types, and whether all of them have it.
SchemaRows(group) ==
  {[name |-> p, types |-> {m.props[p] : m \in {x \in group : p \in DOMAIN x.props}},
    mandatory |-> \A m \in group : p \in DOMAIN m.props] :
     p \in UNION {DOMAIN m.props : m \in group}}
NodeRows(g, label) ==
  UNION {SchemaRows({n \in Range(g.nodes) : n.labels = ls}) :
           ls \in {m.labels : m \in {x \in Range(g.nodes) : label \in x.labels}}}
RelRows(g, type) == SchemaRows({r \in Range(g.rels) : r.type = type})

\* One entry for a property, whichever combinations of labels carry it.
AggregateProperties(rows) ==
  LET names == Sorted({r.name : r \in rows})
      Of(p) == {r \in rows : r.name = p}
  IN  [i \in DOMAIN names |->
         [kind |-> "field", name |-> names[i],
          types |-> UNION {r.types : r \in Of(names[i])},
          nullable |-> ~(\A r \in Of(names[i]) : r.mandatory)]]

NodeFieldDescriptions(g, label) == AggregateProperties(NodeRows(g, label))
RelationshipFieldDescriptions(g, type) == AggregateProperties(RelRows(g, type))
FieldNamed(fields, name) ==
  LET found == SelectSeq(fields, LAMBDA f : f.name = name)
  IN  IF found = <<>> THEN None ELSE Head(found)

\* The connections of a relationship: every pair of its ends' labels.
Connections(g, r) ==
  {[rel_type |-> r.type, from_label |-> f, to_label |-> t] :
     f \in g.nodes[r.from].labels, t \in g.nodes[r.to].labels}
NodeConnections(g, label) ==
  UNION {Connections(g, r) : r \in
           {s \in Range(g.rels) :
              label \in g.nodes[s.from].labels \cup g.nodes[s.to].labels}}
RelationshipTypeConnections(g, type) ==
  UNION {Connections(g, r) : r \in {s \in Range(g.rels) : s.type = type}}

EntityOf(name, kind, fields, connections) ==
  [kind |-> kind, name |-> name, properties |-> fields, connections |-> connections]
SpecToDescription(spec) ==
  IndexDescription(spec.name, spec.properties, spec.constraint, spec.labels)

List(g, path) ==
  CASE path = <<>> -> Items(<<"entities", "relationships", "indexes">>, "group", TRUE)
    [] Is(path, <<"indexes">>) ->
         Items([i \in DOMAIN g.indexes |-> g.indexes[i].name], "index", FALSE)
    [] Is(path, <<"entities">>) -> Items(Sorted(Labels(g)), "label", TRUE)
    [] Is(path, <<"relationships">>) ->
         Items(Sorted(RelationshipTypes(g)), "relationship_type", TRUE)
    [] Len(path) = 2 /\ path[1] \in {"entities", "relationships"} ->
         Items(<<"properties">>, "group", TRUE)
    [] Is(path, <<"entities", "*", "properties">>) ->
         Items(Sorted(NodeProperties(g, path[2])), "property", FALSE)
    [] Is(path, <<"relationships", "*", "properties">>) ->
         Items(Sorted(RelationshipProperties(g, path[2])), "property", FALSE)
    [] OTHER -> <<>>

Describe(g, path) ==
  CASE Is(path, <<"indexes">>) ->
         GroupDescription("indices",
           [i \in DOMAIN g.indexes |-> SpecToDescription(g.indexes[i])])
    [] Is(path, <<"indexes", "*">>) ->
         FieldNamed([i \in DOMAIN g.indexes |-> SpecToDescription(g.indexes[i])], path[2])
    [] Is(path, <<"entities", "*">>) ->
         EntityOf(path[2], "node", NodeFieldDescriptions(g, path[2]),
                  NodeConnections(g, path[2]))
    [] Is(path, <<"entities", "*", "properties">>) ->
         GroupDescription("fields", NodeFieldDescriptions(g, path[2]))
    [] Is(path, <<"entities", "*", "properties", "*">>) ->
         FieldNamed(NodeFieldDescriptions(g, path[2]), path[4])
    [] Is(path, <<"relationships", "*">>) ->
         EntityOf(path[2], "relationship", RelationshipFieldDescriptions(g, path[2]),
                  RelationshipTypeConnections(g, path[2]))
    [] Is(path, <<"relationships", "*", "properties">>) ->
         GroupDescription("fields", RelationshipFieldDescriptions(g, path[2]))
    [] Is(path, <<"relationships", "*", "properties", "*">>) ->
         FieldNamed(RelationshipFieldDescriptions(g, path[2]), path[4])
    [] OTHER -> None
=============================================================================
