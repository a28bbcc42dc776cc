--------------------------- MODULE MCRequestServer ---------------------------
(* RequestServer with small sets of ids, for TLC. *)
EXTENDS RequestServer
CONSTANTS i1, i2

OneId == {i1}
TwoIds == {i1, i2}

Results == {"result"}
SomeResults == {"result", "unencodable"}
==============================================================================
