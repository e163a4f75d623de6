---------------------------- MODULE MCCommandRunner ----------------------------
(***************************************************************************)
(* CommandRunner for TLC; the numbers of groups and commands are in the    *)
(* configurations.                                                         *)
(***************************************************************************)
EXTENDS CommandRunner
=============================================================================
