-------------------------- MODULE MCPrivilegeManager --------------------------
(* PrivilegeManager with two callers and the ids of root and of one user. *)
EXTENDS PrivilegeManager

MCIds == {0, 1}

=============================================================================
