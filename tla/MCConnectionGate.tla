--------------------------- MODULE MCConnectionGate ---------------------------
(* ConnectionGate with a few requests, for TLC. *)
EXTENDS ConnectionGate, TLC
CONSTANTS r1, r2, r3, d1

None == {}
OneRequest == {r1}
TwoRequests == {r1, r2}
ThreeRequests == {r1, r2, r3}
OneCloser == {d1}

RequestSymmetry == Permutations(ThreeRequests)
===============================================================================
