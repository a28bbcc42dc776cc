----------------------------- MODULE MCExplorer -----------------------------
(***************************************************************************)
(* What is explored, for TLC: the metadata that a PostgreSQL session keeps, *)
(* the object trees of small servers of every kind, and the diagrams of    *)
(* small schemas.  A behaviour is of one of them, named by kind: the       *)
(* session's state is in its own variables and stays as it begins in the   *)
(* behaviours of the others.                                               *)
(***************************************************************************)
EXTENDS PostgresSession, Diagram, TLC

CONSTANTS r1, r2
TwoFetchers == {r1, r2}
TwoSettings == {"p", "q"}

\* The variables of the other machines, in the order of their modules.
VARIABLES kind, x1, x2
others == <<diagramVars, x1, x2>>
allVars == <<kind, vars, others>>

\* Names in lower case, and Oracle's in upper case.
Uppercase ==
  "a" :> "A" @@ "b" :> "B" @@ "t" :> "T" @@ "u" :> "U" @@ "s1" :> "S1" @@ "s2" :> "S2" @@ "s3" :> "S3"
  @@ "pk" :> "PK" @@ "ua" :> "UA" @@ "ib" :> "IB" @@ "iba" :> "IBA" @@ "f" :> "F"
  @@ "g" :> "G" @@ "h" :> "H" @@ "pku" :> "PKU"
  @@ "columns" :> "COLUMNS" @@ "indexes" :> "INDEXES"
UpperNames == [n \in DOMAIN Uppercase \cup Range(Uppercase) |->
                 IF n \in DOMAIN Uppercase THEN Uppercase[n] ELSE n]
CaseVariants(n) ==
  IF n \notin DOMAIN UpperNames THEN {n}
  ELSE {m \in DOMAIN UpperNames : UpperNames[m] = UpperNames[n]}

\* The databases: t with its keys and indexes, u and s2.t that may refer to it.
Shapes ==
  [pk : {<<>>, <<"a">>, <<"a", "b">>}, uniq : {<<>>, <<"a">>},
   idx : {{}, {"ib"}, {"ib", "iba"}}, u : {"none", "one", "two", "both", "unnamed"},
   self : BOOLEAN, cross : BOOLEAN]

NoKey == [name |-> "", cols |-> <<>>]
RelationalDrivers == {"sqlite", "duckdb", "postgres", "oracle", "sqlserver"}

Database(driver, s) ==
  LET U(n)  == IF driver = "oracle" THEN UpperNames[n] ELSE n
      Us(q) == [i \in DOMAIN q |-> U(q[i])]
      Id(in, t) ==
        IF driver = "sqlite" THEN <<"main", t>> ELSE <<U(in), U(t)>>
      Index(n, cols) ==
        CASE driver \in {"postgres", "sqlserver"} ->
               [name |-> U(n), cols |-> Us(cols), incl |-> <<>>, unique |-> n = "ib"]
          [] driver = "oracle" ->
               [name |-> U(n), owner |-> U("s1"), cols |-> Us(cols), unique |-> n = "ib"]
          [] OTHER -> [name |-> n, cols |-> cols, unique |-> n = "ib"]
      \* SQLite keeps an index for a UNIQUE constraint.
      Own(q) == IF driver = "sqlite" /\ s.uniq # <<>>
                THEN <<[name |-> "ua", cols |-> s.uniq, unique |-> TRUE]>> \o q ELSE q
      Key(n, cols, refCols) ==
        [name |-> U(n), cols |-> Us(cols), ref |-> Id("s1", "t"), refCols |-> Us(refCols)]
      t == [kind |-> "table", cols |-> Us(<<"a", "b">>),
            pk |-> [name |-> U("pk"), cols |-> Us(s.pk)],
            uniq |-> IF s.uniq = <<>> THEN <<>>
                     ELSE <<[name |-> U("ua"), cols |-> Us(s.uniq)]>>,
            idx |-> Own((IF "ib" \in s.idx THEN <<Index("ib", <<"b">>)>> ELSE <<>>)
                        \o (IF "iba" \in s.idx THEN <<Index("iba", <<"b", "a">>)>>
                            ELSE <<>>)),
            fk |-> IF s.self THEN <<Key("f", <<"b">>, <<"a">>)>> ELSE <<>>]
      u == [kind |-> "table", cols |-> Us(<<"a", "b">>),
            pk |-> [name |-> U("pku"), cols |-> Us(<<"a">>)], uniq |-> <<>>,
            idx |-> <<>>,
            fk |-> CASE s.u = "none" -> <<>>
                     [] s.u = "one" -> <<Key("g", <<"a">>, <<"a">>)>>
                     [] s.u = "unnamed" -> <<[Key("g", <<"a">>, <<>>) EXCEPT !.refCols = <<Relations!NoColumn>>]>>
                     [] s.u = "two" -> <<Key("g", <<"a", "b">>, <<"a", "b">>)>>
                     [] OTHER -> <<Key("g", <<"a">>, <<"a">>), Key("h", <<"a">>, <<"b">>)>>]
      v == [kind |-> "view", cols |-> Us(<<"a">>), pk |-> NoKey, uniq |-> <<>>,
            idx |-> <<>>, fk |-> <<>>]
      w == [v EXCEPT !.kind = "table",
                     !.fk = IF s.cross THEN <<Key("f", <<"a">>, <<"b">>)>> ELSE <<>>]
      alone == driver \in {"sqlite", "duckdb"}
      order == <<Id("s1", "t"), Id("s1", "u")>>
               \o (IF driver = "sqlite" THEN <<>> ELSE <<Id("s2", "t")>>)
      tables == Id("s1", "t") :> t @@ Id("s1", "u") :> u
                @@ (IF driver = "sqlite" THEN <<>> ELSE Id("s2", "t") :> (IF alone THEN v ELSE w))
  IN  [schemas |-> Us(<<"s1", "s2", "s3">>), order |-> order, tab |-> tables,
       synonyms |-> {}]

\* A key that names no column is one of SQLite.
Databases ==
  {[driver |-> d, content |-> Database(d, s)] : d \in RelationalDrivers,
     s \in {x \in Shapes : x.u # "unnamed"}}
  \cup {[driver |-> "sqlite", content |-> Database("sqlite", s)] :
           s \in {x \in Shapes : x.u = "unnamed"}}
-----------------------------------------------------------------------------
OneIndex == "_id_" :> [key |-> <<"_id">>, unique |-> FALSE]
TwoIndexes == OneIndex @@ "x" :> [key |-> <<"y", "x">>, unique |-> TRUE]
MongoServers ==
  {"db" :> ("c" :> [docs |-> docs, idx |-> idx]
            @@ "b.files" :> [docs |-> <<<<"_id">>>>, idx |-> OneIndex] @@ more)
   @@ "e" :> <<>> :
     docs \in {<<>>, <<<<"_id", "x">>, <<"_id", "y", "x">>>>}, idx \in {OneIndex, TwoIndexes},
     more \in {<<>>, "b.chunks" :> [docs |-> <<>>, idx |-> OneIndex]}}

Node(ls, ps) == [labels |-> ls, props |-> ps]
Rel(f, t, ps) == [type |-> "R", from |-> f, to |-> t, props |-> ps]
Graphs ==
  {[nodes |-> <<Node({"p"}, a), Node({"p", "q"}, b), Node({"r"}, <<>>)>>,
    rels |-> rels,
    indexes |-> <<[name |-> "i", properties |-> <<"x">>, constraint |-> TRUE, labels |-> <<"p">>]>>] :
     a \in {<<>>, "x" :> "int"}, b \in {<<>>, "x" :> "str", "y" :> "int" @@ "x" :> "int"},
     rels \in {<<>>, <<Rel(1, 2, <<>>)>>, <<Rel(2, 3, "x" :> "int"), Rel(1, 1, <<>>)>>}}

Prop(n, ty, sub, multi) == [name |-> n, type |-> ty, properties |-> sub, fields |-> multi]
Keyword == <<Prop("k", "keyword", <<>>, <<>>)>>
Clusters ==
  {"i" :> [props |-> ps, aliases |-> as, hidden |-> FALSE]
   @@ "j" :> [props |-> <<Prop("x", "long", <<>>, <<>>)>>, aliases |-> <<"z">>, hidden |-> h] :
     ps \in {<<>>, <<Prop("x", "text", <<>>, Keyword), Prop("y", "object", Keyword, <<>>)>>},
     as \in {<<>>, <<"z">>}, h \in BOOLEAN}

Series(m, l) == [metric |-> m, labels |-> l]
Scrapes ==
  {[series |-> s, targets |-> t, help |-> {"m"}] :
     s \in SUBSET {Series("m", "job" :> "j" @@ "instance" :> "i"),
                   Series("m", "job" :> "j" @@ "instance" :> "k" @@ "x" :> "1"),
                   Series("n", "x" :> "2")},
     t \in {{}, {[job |-> "j", instance |-> "i", error |-> ""],
                 [job |-> "j", instance |-> "k", error |-> "down"]}}}

Accounts ==
  {<<"b">> :> keys :
     keys \in SUBSET {<<"a">>, <<"d", "/", "a">>, <<"d", "/">>, <<"d", "/", "/", "a">>,
                      <<"d", "/", "e", "/", "a">>, <<"e", "/", "a">>}}

Names ==
  <<"_id_", "b", "b.chunks", "b.files", "c", "db", "e", "i", "instance", "j", "job", "k",
    "m", "n", "p", "q", "r", "R", "x", "y", "z", "1", "2">>
\* The buckets, and what a level may list.
Keys == <<<<"/">>, <<"a">>, <<"b">>, <<"d", "/">>, <<"e", "/">>>>
BucketNames == {"b"}
NoneConfigured == <<>>

Of(driver, contents) == {[driver |-> driver, content |-> c] : c \in contents}
AllServers ==
  Databases \cup Of("mongodb", MongoServers) \cup Of("neo4j", Graphs)
  \cup Of("elasticsearch", Clusters) \cup Of("prometheus", Scrapes)
  \cup Of("s3", Accounts)

Tree ==
  INSTANCE Explorer WITH
    Upper <- UpperNames, Buckets <- BucketNames, NameOrder <- Names,
    Configured <- NoneConfigured, KeyOrder <- Keys, Spellings <- CaseVariants,
    MaxListCalls <- 6, Servers <- AllServers, server <- x1, path <- x2
-----------------------------------------------------------------------------
\* Every set of these foreign keys among four tables, of which one is dropped or
\* none; the same of fewer keys where a dropped table is described in another way,
\* and where the table asked for and that of a key are spelled in two ways; and
\* wheels of six around the first, with and without some of it.
Fk(t, r) == [table |-> t, ref |-> r]
FewKeys == <<Fk(1, 2), Fk(1, 3), Fk(3, 1), Fk(4, 1), Fk(2, 3), Fk(3, 4), Fk(4, 4)>>
Spokes == <<Fk(2, 1), Fk(3, 1), Fk(1, 4), Fk(5, 1), Fk(1, 6)>>
Rim == <<Fk(2, 3), Fk(3, 4), Fk(4, 5), Fk(5, 6), Fk(6, 2), Fk(2, 5), Fk(3, 6)>>
Among(keys, s) == SelectSeq(keys, LAMBDA k : k \in s)
Small(names, fks, gone) ==
  [tables |-> 4, names |-> names, plain |-> <<0, 1, 0, 1>>, droppable |-> {1, 3}, fks |-> fks,
   gone |-> gone]
\* Path 5 is how the catalog spells the first table, 6 how a key spells the third.
Spelled == <<Fk(5, 2), Fk(2, 6), Fk(3, 4), Fk(4, 5), Fk(3, 6)>>
SmallSchemas ==
  {Small(<<1, 2, 3, 4>>, Among(FewKeys, s), "empty") : s \in SUBSET Range(FewKeys)}
  \cup {Small(<<1, 2, 3, 4>>, Among(SubSeq(FewKeys, 2, 6), s), gone) :
           s \in SUBSET Range(SubSeq(FewKeys, 2, 6)), gone \in {"dangling", "unresolved"}}
  \cup {Small(<<1, 2, 3, 4, 1, 3>>, Among(Spelled, s), gone) :
           s \in SUBSET Range(Spelled), gone \in {"empty", "dangling"}}
Wheels ==
  {[tables |-> 6, names |-> <<1, 2, 3, 4, 5, 6>>, plain |-> <<0, 2, 0, 1, 0, 0>>,
    droppable |-> {}, fks |-> Among(Spokes, s) \o Among(Rim, r), gone |-> "empty"] :
     s \in {Range(Spokes), {Fk(2, 1), Fk(3, 1)}, {Fk(1, 4)}}, r \in SUBSET Range(Rim)}
SchemasToDraw == SmallSchemas \cup Wheels
-----------------------------------------------------------------------------
NoDiagram ==
  /\ phase = "start" /\ schema = 0 /\ dropped = 0 /\ nodes = 0 /\ edges = 0 /\ queue = 0 /\ cur = 0
  /\ layout = 0 /\ rung = 0 /\ rects = 0
NoTree == x1 = 0 /\ x2 = 0

MCInit ==
  /\ Init
  /\ \/ kind = "postgres" /\ NoTree /\ NoDiagram
     \/ kind = "tree" /\ Tree!Init /\ NoDiagram
     \/ kind = "diagram" /\ NoTree /\ DiagramInit

MCNext ==
  /\ UNCHANGED kind
  /\ \/ kind = "postgres" /\ Next /\ UNCHANGED others
     \/ /\ UNCHANGED vars
        /\ \/ kind = "tree" /\ Tree!Expand /\ UNCHANGED diagramVars
           \/ kind = "diagram" /\ DiagramNext /\ UNCHANGED <<x1, x2>>

MCSpec == MCInit /\ [][MCNext]_allVars

\* The properties of the trees, stated in their module; those of the others
\* have their own names here.
PartsAgree == kind = "tree" => Tree!PartsAgree
EdgesAgree == kind = "tree" => Tree!EdgesAgree
ListedIsFound == kind = "tree" => Tree!ListedIsFound
FoundIsListed == kind = "tree" => Tree!FoundIsListed
=============================================================================
