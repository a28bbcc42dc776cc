------------------------------ MODULE FindWalk ------------------------------
(***************************************************************************)
(* explore.find: grannos/explore_find.py, which walks the templates of a   *)
(* driver's FIND_PATHS, and the query that Oracle answers a search with.   *)
(* A scope is a record [type, name].                                       *)
(***************************************************************************)
EXTENDS ObjectTrees

CONSTANTS
  Spellings(_),  \* a name in every case
  MaxListCalls   \* MAX_LIST_CALLS

SameName(a, b) == Spellings(a) = Spellings(b)
Templates(driver, type) ==
  IF type \in DOMAIN FindPaths(driver) THEN FindPaths(driver)[type] ELSE <<>>

\* Whether the scopes allow a name at the i-th position of a template: the
\* types that live at that level, if any of them is in scope, name it.
Constraints(driver, template, i, scopes) ==
  {s \in scopes : SubSeq(template, 1, i) \in Range(Templates(driver, s.type))}
Allowed(driver, template, i, scopes, name) ==
  LET here == Constraints(driver, template, i, scopes)
  IN  here # {} => \E s \in here : SameName(s.name, name)

\* Several walks taken together, and the listings spent on them and before.
Gather(spent, walks) ==
  [paths |-> FlattenSeq([k \in DOMAIN walks |-> walks[k].paths]),
   calls |-> spent + FoldSeq(LAMBDA w, n : w.calls + n, 0, walks)]

\* What is found below a prefix from the i-th position on, and the listings
\* spent on it.  Groups are passed through by their name only.
RECURSIVE Walk(_, _, _, _, _, _, _)
Walk(driver, content, template, i, prefix, scopes, name) ==
  LET items    == SelectSeq(ExploreList(driver, content, prefix),
                            LAMBDA x : x.type # "group")
      matching == SelectSeq(items, LAMBDA x : SameName(x.name, name))
      children == SelectSeq(items,
                    LAMBDA x : Allowed(driver, template, i, scopes, x.name))
  IN  CASE i = Len(template) ->
             [paths |-> [k \in DOMAIN matching |-> Append(prefix, matching[k].name)],
              calls |-> 1]
        [] i < Len(template) /\ template[i] # "*" ->
             Walk(driver, content, template, i + 1, Append(prefix, template[i]),
                  scopes, name)
        [] OTHER ->
             Gather(1, [k \in DOMAIN children |->
                          Walk(driver, content, template, i + 1,
                               Append(prefix, children[k].name), scopes, name)])

\* The mutant of PreferExact: never the others.
PreferExactOnly(paths, name) == SelectSeq(paths, LAMBDA p : Last(p) = name)
PreferExact(paths, name) ==
  IF \E p \in Range(paths) : Last(p) = name
  THEN SelectSeq(paths, LAMBDA p : Last(p) = name) ELSE paths

\* walk_find: the paths found, or an error when that takes too many listings.
TooMany == [found |-> {}, error |-> TRUE]
Answer(paths) == [found |-> paths, error |-> FALSE]

\* Its mutant answers with what was found when the listings ran out.
WalkFindShort(driver, content, type, name, scopes) ==
  LET templates == Templates(driver, type)
      Found(k)  == Walk(driver, content, templates[k], 1, <<>>, scopes, name)
      Spent(k)  == FoldSeq(LAMBDA j, n : Found(j).calls + n, 0,
                           [j \in 1..k |-> j])
      within    == SelectSeq([k \in DOMAIN templates |-> k],
                             LAMBDA k : Spent(k) <= MaxListCalls)
  IN  Answer(Range(PreferExact(
        FlattenSeq([i \in DOMAIN within |-> Found(within[i]).paths]), name)))

WalkFind(driver, content, type, name, scopes) ==
  LET templates == Templates(driver, type)
      Within(all) == IF all.calls > MaxListCalls THEN TooMany
                     ELSE Answer(Range(PreferExact(all.paths, name)))
  IN  Within(Gather(0, [k \in DOMAIN templates |->
                          Walk(driver, content, templates[k], 1, <<>>, scopes, name)]))

\* CachingDriver.explore_find: the driver's own search where it has one.
ExploreFind(driver, content, type, name, scopes) ==
  IF driver = "oracle" /\ type \in {"table", "view", "column", "index"}
  THEN Answer(Oracle!Find(content, type, name, scopes))
  ELSE WalkFind(driver, content, type, name, scopes)
=============================================================================
