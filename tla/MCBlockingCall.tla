---------------------------- MODULE MCBlockingCall ----------------------------
(* BlockingCall with three calls, for TLC. *)
EXTENDS BlockingCall
CONSTANTS c1, c2, c3
ThreeCalls == {c1, c2, c3}
OneCall == {c1}
===============================================================================
