----------------------------- MODULE MCRecordStore -----------------------------
(***************************************************************************)
(* RecordStore for TLC: two record commands and a runner.  The recorders   *)
(* are interchangeable.                                                    *)
(***************************************************************************)
EXTENDS RecordStore, TLC

MCVersions == {1, 2}
Symmetry   == Permutations(Recorders)
=============================================================================
