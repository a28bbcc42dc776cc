----------------------------- MODULE MongoTree ------------------------------
(***************************************************************************)
(* The object tree of grannos/drivers/mongodb/driver.py.  A server maps    *)
(* its databases to their collections, and those to [docs, idx]: the       *)
(* documents, each the sequence of its keys, and the specification of each *)
(* index by its name, [key, unique].  A GridFS bucket b is the pair of     *)
(* collections b.files and b.chunks.  No collection is itself called       *)
(* "gridfs": the driver keeps that name for the group of the buckets.      *)
(***************************************************************************)
EXTENDS Relational

CONSTANTS Buckets,   \* the names a bucket may have
          NameOrder  \* every name, in the order they sort

FindPaths ==
  [database      |-> <<<<"*">>>>,
   collection    |-> <<<<"*", "*">>>>,
   field         |-> <<<<"*", "*", "fields", "*">>>>,
   index         |-> <<<<"*", "*", "indexes", "*">>>>,
   gridfs_bucket |-> <<<<"*", "gridfs", "*">>>>]

Sorted(names) == InOrder(names, NameOrder)

CollectionNames(server, d) == IF d \in DOMAIN server THEN DOMAIN server[d] ELSE {}
CollectionOf(server, d, c) ==
  IF c \in CollectionNames(server, d) THEN server[d][c]
  ELSE [docs |-> <<>>, idx |-> <<>>]
IndexInformation(server, d, c) == CollectionOf(server, d, c).idx

GridfsBuckets(names) == {b \in Buckets : b \o ".files" \in names}
IsGridfsInternal(name, buckets) ==
  \E b \in buckets : name \in {b \o ".files", b \o ".chunks"}

\* The keys of the documents sampled, in the order they are first seen: ten
\* documents, and no collection here has more.
SampleFields(server, d, c) ==
  LET keys == FlattenSeq(CollectionOf(server, d, c).docs)
      first(i) == \A j \in 1..(i - 1) : keys[j] # keys[i]
  IN  [k \in 1..Cardinality(Range(keys)) |->
         keys[CHOOSE i \in DOMAIN keys :
                first(i) /\ Cardinality({j \in 1..i : first(j)}) = k]]

SpecToIndexDescription(name, spec, c) ==
  IndexDescription(name, spec.key, spec.unique, <<c>>)

\* The names of the plain collections, and a group when there are buckets.
ListDatabase(server, d) ==
  LET names   == CollectionNames(server, d)
      buckets == GridfsBuckets(names)
  IN  Items(Sorted({n \in names : ~IsGridfsInternal(n, buckets)}), "collection", TRUE)
      \o (IF buckets = {} THEN <<>> ELSE <<Item("gridfs", "group", TRUE)>>)

List(server, path) ==
  CASE path = <<>> -> Items(Sorted(DOMAIN server), "database", TRUE)
    [] Is(path, <<"*">>) -> ListDatabase(server, path[1])
    [] Is(path, <<"*", "gridfs">>) ->
         Items(Sorted(GridfsBuckets(CollectionNames(server, path[1]))),
               "gridfs_bucket", FALSE)
    [] Is(path, <<"*", "*">>) /\ path[2] # "gridfs" ->
         Items(<<"fields", "indexes">>, "group", TRUE)
    [] Is(path, <<"*", "*", "fields">>) ->
         Items(SampleFields(server, path[1], path[2]), "field", FALSE)
    [] Is(path, <<"*", "*", "indexes">>) ->
         Items(Sorted(DOMAIN IndexInformation(server, path[1], path[2])), "index", FALSE)
    [] OTHER -> <<>>

\* What a bucket's statistics say: how many files there are.
DescribeGridfsBucket(server, d, b) ==
  [kind |-> "record", name |-> b,
   files |-> Len(CollectionOf(server, d, b \o ".files").docs)]

Describe(server, path) ==
  LET info == IndexInformation(server, path[1], path[2])
      names == Sorted(DOMAIN info)
  IN  CASE Is(path, <<"*", "*", "indexes">>) ->
             GroupDescription("indices", [i \in DOMAIN names |->
               SpecToIndexDescription(names[i], info[names[i]], path[2])])
        [] Is(path, <<"*", "*", "indexes", "*">>) ->
             IF path[4] \notin DOMAIN info THEN None
             ELSE SpecToIndexDescription(path[4], info[path[4]], path[2])
        [] Is(path, <<"*", "gridfs", "*">>) /\ path[3] # "indexes" ->
             DescribeGridfsBucket(server, path[1], path[3])
        [] OTHER -> None
=============================================================================
