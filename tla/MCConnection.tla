---------------------------- MODULE MCConnection ----------------------------
(***************************************************************************)
(* The machines of a connection, for TLC: the gate its requests pass two   *)
(* at a time, the calls it makes one at a time, and the parts it has.  A   *)
(* behaviour is of one of these machines, named by kind: the gate's state  *)
(* stays as it begins in the behaviours of the others.                     *)
(***************************************************************************)
EXTENDS ConnectionGate, ConnectionParts, TLC

CONSTANTS c1, c2, c3, r1, r2, r3, d1

\* Two of three requests at a time.
NoDiagrams == {}
OneCloser == {d1}
ThreeRequests == {r1, r2, r3}
RequestSymmetry == Permutations(ThreeRequests)

\* Three calls, one at a time, with statements that end and slow threads.
VARIABLES task, thread, todo, flagged, done, late
Serial ==
  INSTANCE BlockingCall WITH
    Calls <- {c1, c2, c3}, MaxConcurrency <- 1, PoolSize <- 1, MaxStatements <- 2,
    HasInterrupt <- TRUE, Ending <- {c1, c2, c3}, PromptThreads <- FALSE
-----------------------------------------------------------------------------
\* Two connections among three sockets more.
ThreeFds == 1..3
TwoConnections == {c1, c2}

\* Files of up to three rows, in batches of two.
FilesOfRows ==
  {<<>>, <<"ok", "ok", "ok">>, <<"ok", "bad", "ok">>, <<"ok", "ok", "bad">>,
   <<"bad", "short">>, <<"ok", "ok", "short">>}

\* Up to four objects, moved and copied within a bucket, from it and to it.
ObjectKeys == <<<<"a">>, <<"d">>, <<"d", "/", "a">>, <<"d", "/", "e">>>>
PlaceNames == {"b", "c", "disk"}
Stores ==
  {[p \in PlaceNames |-> [k \in (IF p = "c" THEN there ELSE here) |-> <<p, k>>]] :
     here \in SUBSET {ObjectKeys[i] : i \in DOMAIN ObjectKeys}, there \in {{}, {<<"a">>}}}
Transfers ==
  {[verb |-> v, src |-> p[1], srcKey |-> k, dst |-> p[2], dstKey |-> l, recursive |-> r] :
     v \in {"cp", "mv", "rm"}, p \in {<<"b", "b">>, <<"b", "c">>, <<"b", "disk">>, <<"disk", "c">>},
     k \in {<<>>, <<"a">>, <<"d">>, <<"d", "/">>}, l \in {<<>>, <<"a">>, <<"e", "/">>}, r \in BOOLEAN}
TransfersOfObjects == {c \in Transfers : c.verb = "rm" => c.dst = "b" /\ c.dstKey = <<>>}
NoneConfigured == <<>>

\* Inputs of up to eight bytes, with lines of up to three.
Inputs == UNION {[1..n -> {"x", "nl"}] : n \in 0..8}
-----------------------------------------------------------------------------
serialVars == <<task, thread, todo, flagged, done, late>>
allVars == <<vars, serialVars, partsVars>>
SerialUnused == task = 0 /\ thread = 0 /\ todo = 0 /\ flagged = 0 /\ done = 0 /\ late = 0

MCInit ==
  /\ Init
  /\ \/ kind = "gate" /\ SerialUnused /\ PartsUnused
     \/ kind = "serial" /\ Serial!Init /\ PartsUnused
     \/ SerialUnused /\ PartsInit

MCNext ==
  \/ kind = "gate" /\ Next /\ UNCHANGED <<serialVars, partsVars>>
  \/ kind = "serial" /\ Serial!Next /\ UNCHANGED <<vars, partsVars>>
  \/ PartsNext /\ UNCHANGED <<vars, serialVars>>

MCSpec == MCInit /\ [][MCNext]_allVars
-----------------------------------------------------------------------------
\* The property of the calls, stated in BlockingCall.
OwnStatementOnly == [][kind = "serial" => Serial!OwnStatement]_allVars
=============================================================================
