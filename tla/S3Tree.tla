------------------------------- MODULE S3Tree -------------------------------
(***************************************************************************)
(* The object tree of grannos/drivers/s3/driver.py and how its commands    *)
(* name objects.  A key is a sequence of characters, of which only "/" is  *)
(* told apart.  An account maps each bucket to the set of its keys.        *)
(***************************************************************************)
EXTENDS Relational

CONSTANTS Configured,  \* the "buckets" parameter: buckets to show, <<>> for all
          NameOrder    \* every bucket and key, in the order they sort

Slash == "/"
Sorted(names) == InOrder(names, NameOrder)

ListBuckets(account) == IF Configured # <<>> THEN Configured ELSE Sorted(DOMAIN account)
KeysUnder(account, bucket, prefix) ==
  {k \in (IF bucket \in DOMAIN account THEN account[bucket] ELSE {}) :
     IsPrefix(prefix, k)}

\* str.join, rstrip, lstrip and rsplit(...)[-1] on "/".
Join(segments) ==
  FlattenSeq([i \in DOMAIN segments |->
                IF i = 1 THEN segments[i] ELSE <<Slash>> \o segments[i]])
StripRight(s) ==
  SubSeq(s, 1, Cardinality({i \in DOMAIN s : \E j \in i..Len(s) : s[j] # Slash}))
StripLeft(s) ==
  SubSeq(s, 1 + Cardinality({i \in DOMAIN s : \A j \in 1..i : s[j] = Slash}), Len(s))
LastSegment(s) ==
  SubSeq(s, 1 + Cardinality({i \in DOMAIN s : \E j \in i..Len(s) : s[j] = Slash}), Len(s))
Without(s, prefix) == SubSeq(s, Len(prefix) + 1, Len(s))

\* What follows a prefix, up to its first "/", or all of it when there is none.
Cut(rest) ==
  SubSeq(rest, 1, 1 + Cardinality({i \in DOMAIN rest : \A j \in 1..i : rest[j] # Slash}))
Nested(rest) == Slash \in Range(rest)

\* A level: a prefix for each next segment that has keys below it, then the
\* objects of the level, but for the one that marks the level itself.
ListLevel(account, bucket, prefix) ==
  LET rests    == {Without(k, prefix) : k \in KeysUnder(account, bucket, prefix)}
      prefixes == Sorted({Cut(r) : r \in {x \in rests : Nested(x)}})
      objects  == Sorted({r \in rests : ~Nested(r) /\ r # <<>>})
  IN  [i \in DOMAIN prefixes |->
         Item(LastSegment(StripRight(prefix \o prefixes[i])), "prefix", TRUE)]
      \o Items(objects, "object", FALSE)

List(account, path) ==
  IF path = <<>> THEN Items(ListBuckets(account), "bucket", TRUE)
  ELSE ListLevel(account, Head(path),
         IF Len(path) = 1 THEN <<>> ELSE Join(Tail(path)) \o <<Slash>>)

Describe(account, path) ==
  CASE path = <<>> -> None
    [] Len(path) = 1 -> [kind |-> "document"]
    [] OTHER ->
         LET key == Join(Tail(path))
         IN  IF key \in KeysUnder(account, Head(path), key)
             THEN [kind |-> "record", name |-> key] ELSE None

\* The keys a command is about, and where a key goes: to a bucket, or to the
\* local files, whose directories are given by dirs.
MatchKeys(account, bucket, prefix, recursive) ==
  IF recursive THEN Sorted(KeysUnder(account, bucket, prefix))
  ELSE IF prefix = <<>> THEN <<>> ELSE <<prefix>>

JoinRelative(src, dst, key, recursive) ==
  LET rel == StripLeft(Without(key, src))
  IN  IF ~recursive
      THEN IF dst = <<>> \/ Last(dst) = Slash THEN dst \o LastSegment(key) ELSE dst
      ELSE IF rel = <<>> THEN dst ELSE StripRight(dst) \o <<Slash>> \o rel

JoinRelativeLocal(src, dst, key, recursive, dirs) ==
  LET rel == StripLeft(Without(key, src))
  IN  IF ~recursive
      THEN IF dst \in dirs THEN Join(<<dst, LastSegment(key)>>) ELSE dst
      ELSE Join(<<dst, IF rel = <<>> THEN LastSegment(key) ELSE rel>>)

\* _upload_sync's targets: a directory keeps its relative paths.
UploadKey(src, dst, file, recursive) ==
  IF recursive
  THEN LET rel == StripLeft(Without(file, src))
       IN  IF dst = <<>> THEN rel ELSE StripRight(dst) \o <<Slash>> \o rel
  ELSE IF dst = <<>> \/ Last(dst) = Slash THEN dst \o LastSegment(file) ELSE dst
=============================================================================
