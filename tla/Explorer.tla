------------------------------ MODULE Explorer ------------------------------
(***************************************************************************)
(* A client that walks the object tree of a connection: it lists a path    *)
(* (_handle_explore_list of grannos/dispatcher.py) and goes down to one of *)
(* the nodes that can be expanded.  Nothing else on the server changes     *)
(* while it does; ExploreCache models what a change does.                  *)
(***************************************************************************)
EXTENDS FindWalk

CONSTANT Servers  \* [driver, content]: what there is to explore

VARIABLES server,  \* the one explored
          path     \* where the client is

vars == <<server, path>>

Listed(p) == ExploreList(server.driver, server.content, p)
Described(p) == ExploreDescribe(server.driver, server.content, p)

Init == server \in Servers /\ path = <<>>

Expand ==
  \E item \in Range(Listed(path)) :
    /\ item.expandable
    /\ path' = Append(path, item.name)
    /\ UNCHANGED server

Spec == Init /\ [][Expand]_vars
-----------------------------------------------------------------------------
\* Where a driver that describes the fields of an entity one by one has them.
FieldsOf ==
  CASE server.driver \in RelationalDrivers -> <<"columns">>
    [] server.driver = "neo4j" -> <<"properties">>
    [] OTHER -> <<>>

\* S3: each key of a level is under one of the items listed.  A key with an
\* empty segment is out of reach: the prefix that holds it is listed by the
\* name of its parent.
Below == IF Len(path) = 1 THEN <<>> ELSE S3!Join(Append(Tail(path), <<>>))
KeysReached(listed) ==
  LET Covers(item, rest) ==
        IF item.type = "object" THEN item.name = rest
        ELSE IsPrefix(Append(item.name, S3!Slash), rest)
  IN  \A key \in S3!KeysUnder(server.content, Head(path), Below) :
        LET rest == S3!Without(key, Below)
        IN  (rest # <<>> /\ Head(rest) # S3!Slash) =>
              \E item \in Range(listed) : Covers(item, rest)

\* The parts of what is described or listed here, each with the path at which it
\* is described on its own: the fields of an entity and, in a table, the foreign
\* key of each, the members of a group, the objects of a level of S3.
Part(at, what) == [at |-> path \o at, what |-> what]
PartsOf(whole, listed) ==
  LET When(c, S) == IF c THEN Range(S) ELSE {}
      entity == whole.kind = "entity"
      group  == whole.kind \in {"indices", "fields"}
  IN  {Part(Append(FieldsOf, f.name), f) :
         f \in When(entity /\ server.driver # "elasticsearch", whole.properties)}
      \cup {Part(<<"relationships", f.name>>, FindReference(f.outgoing_references, f.name)) :
              f \in When(entity /\ server.driver \in RelationalDrivers, whole.properties)}
      \cup {Part(<<m.name>>, m) : m \in When(group, whole.members)}
      \cup {Part(<<x.name>>, [kind |-> "record", name |-> Below \o x.name]) :
              x \in {y \in When(server.driver = "s3", listed) : y.type = "object"}}

\* A part is described alike on its own and within the whole, and the members of
\* a group are what is listed in it.  Each driver does these with queries and
\* code of their own.
PartsAgree ==
  \A whole \in {Described(path)} : \A listed \in {Listed(path)} :
    /\ \A part \in PartsOf(whole, listed) : Described(part.at) = part.what
    /\ whole.kind \in {"indices", "fields"} =>
         [i \in DOMAIN whole.members |-> whole.members[i].name]
           = [i \in DOMAIN listed |-> listed[i].name]
    /\ (server.driver = "s3" /\ path # <<>>) => KeysReached(listed)

\* Where a table is described, and the columns of it that show a reference in one
\* of the two ways.
TablePath(id) == IF server.driver = "sqlite" THEN <<id[2]>> ELSE id
Showing(id, in, r) ==
  {f.name : f \in {g \in Range(Described(TablePath(id)).properties) : r \in Range(g[in])}}

\* A foreign key is shown by both of its tables, each time by the one column it
\* is about.  SQLite does not tell a table of its references to itself, nor of one
\* that names no column of it, which is shown by its own column only.
KeyAgrees(f) ==
  /\ \A r \in Range(f.outgoing_references) :
       (server.driver = "sqlite" => r.ref_table # r.table) =>
         Showing(r.ref_table, "incoming_references", r) = {r.ref_column} \ {NoColumn}
  /\ \A r \in Range(f.incoming_references) :
       Showing(r.table, "outgoing_references", r) = {r.column}

\* A connection between two labels is shown by both and by its relationship type.
ConnectionAgrees(e) ==
  \A p \in {<<"entities", e.from_label>>, <<"entities", e.to_label>>,
             <<"relationships", e.rel_type>>} :
    \A shown \in {Described(p).connections} : e \in shown

\* What joins two entities is described alike from both of them, by queries that
\* each driver has for either side.
EdgesAgree ==
  \A whole \in {Described(path)} :
    whole.kind = "entity" =>
      /\ server.driver \in RelationalDrivers =>
           \A f \in Range(whole.properties) : KeyAgrees(f)
      /\ server.driver = "neo4j" => \A e \in whole.connections : ConnectionAgrees(e)

\* The kinds of node a path may be of, by the templates of the driver, and the
\* scopes that name its ancestors.
TypesOf(p) ==
  {t \in DOMAIN FindPaths(server.driver) :
     \E template \in Range(FindPaths(server.driver)[t]) : Is(p, template)}
ScopesOf(p) ==
  UNION {{[type |-> t, name |-> p[i]] : t \in TypesOf(SubSeq(p, 1, i))} :
           i \in 1..(Len(p) - 1)}

\* The nodes of a level that a search may be for.
Nodes == {item.name : item \in {x \in Range(Listed(path)) : x.type # "group"}}

\* Whatever a client lists it can also find: a search within the ancestors of a
\* node, for its name in any case, answers that node, or those of its level
\* that differ from it in case only when none is spelled as the search.  It
\* answers nothing else where its type lives in one place of the tree.
ListedIsFound ==
  \A nodes \in {Nodes} : \A n \in nodes : \A type \in TypesOf(Append(path, n)) :
    \A name \in Spellings(n) :
      \A answer \in {ExploreFind(server.driver, server.content, type, name,
                                 ScopesOf(Append(path, n)))} :
        LET same   == {m \in nodes : SameName(m, name)}
            wanted == {Append(path, m) : m \in IF name \in same THEN {name} ELSE same}
        IN  /\ ~answer.error
            /\ wanted \subseteq answer.found
            /\ Len(Templates(server.driver, type)) = 1 => answer.found = wanted

\* A search without scopes answers each such node too, or fails: it is never
\* cut short; and what it answers is in the tree.
FoundIsListed ==
  \A n \in Nodes : \A type \in TypesOf(Append(path, n)) :
    \A answer \in {ExploreFind(server.driver, server.content, type, n, {})} :
      /\ answer.error \/ Append(path, n) \in answer.found
      /\ \A p \in answer.found :
           /\ SameName(Last(p), n)
           /\ \E item \in Range(Listed(Front(p))) : item.name = Last(p)
=============================================================================
