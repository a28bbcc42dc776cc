------------------------------ MODULE LobCache ------------------------------
(***************************************************************************)
(* The large values of results, kept for a later download by               *)
(* BaseDriver._register_lob and explore_download_ref in                    *)
(* grannos/drivers/base.py.  References are numbered in the order they are *)
(* given out.  The rows of two results may interleave.                     *)
(***************************************************************************)
EXTENDS Naturals, SequencesExt

CONSTANTS LobCacheMax,  \* _LOB_CACHE_MAX
          Results,      \* the requests that return values
          MaxValues     \* values per result

VARIABLES cache,     \* _lob_cache: the references held, each with its value
          order,     \* _lob_cache_order
          given,     \* the references each result has given out
          answers    \* what downloads have answered: [ref, value] or [ref, none]

vars == <<cache, order, given, answers>>

Given == UNION {Range(given[r]) : r \in Results}

Init ==
  /\ cache = <<>> /\ order = <<>>
  /\ given = [r \in Results |-> <<>>]
  /\ answers = {}

\* What is held once a reference joins: the oldest is let go when they are too
\* many.  The mutant lets the newest go.
KeptNewest(all) == IF Len(all) > LobCacheMax THEN Front(all) ELSE all
Kept(all) == IF Len(all) > LobCacheMax THEN Tail(all) ELSE all

RegisterLob(r) ==
  LET ref == Cardinality(Given) + 1
  IN  /\ Len(given[r]) < MaxValues
      /\ order' = Kept(Append(order, ref))
      /\ cache' = [k \in Range(Kept(Append(order, ref))) |->
                     IF k = ref THEN <<r, ref>> ELSE cache[k]]
      /\ given' = [given EXCEPT ![r] = Append(@, ref)]
      /\ UNCHANGED answers

ExploreDownloadRef(ref) ==
  /\ answers' = answers \cup
       {[ref |-> ref, value |-> IF ref \in DOMAIN cache THEN cache[ref] ELSE <<>>]}
  /\ UNCHANGED <<cache, order, given>>

Next ==
  \/ \E r \in Results : RegisterLob(r)
  \/ \E ref \in Given : ExploreDownloadRef(ref)
Spec == Init /\ [][Next]_vars
-----------------------------------------------------------------------------
\* The references of a result, while it is among the last LobCacheMax values
\* of all results, can all be fetched; each gives its own value; and no more
\* values than that are held.
LatestKept ==
  /\ \A ref \in Given :
       ref \in DOMAIN cache <=> ref > Cardinality(Given) - LobCacheMax
  /\ \A a \in answers : a.value # <<>> => a.value[2] = a.ref
  /\ Len(order) = Cardinality(DOMAIN cache) /\ Len(order) <= LobCacheMax
=============================================================================
