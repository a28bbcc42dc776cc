--------------------------- MODULE MCOpenBlocking ---------------------------
(* OpenBlocking with a few connects, for TLC. *)
EXTENDS OpenBlocking
CONSTANTS c1, c2, c3
ThreeConnects == {c1, c2, c3}
=============================================================================
