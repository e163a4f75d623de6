---------------------------- MODULE MCOutputCapture ----------------------------
(***************************************************************************)
(* OutputCapture for TLC: two streams, limits on both sides of what the    *)
(* command can write.                                                      *)
(***************************************************************************)
EXTENDS OutputCapture

MCLimits == {0, 1, 2, 4}
=============================================================================
