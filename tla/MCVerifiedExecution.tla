-------------------------- MODULE MCVerifiedExecution --------------------------
(***************************************************************************)
(* VerifiedExecution for TLC: two recorded paths, a content that is no     *)
(* record's, and one that extends a recorded one. The inodes are           *)
(* interchangeable.                                                        *)
(***************************************************************************)
EXTENDS VerifiedExecution, TLC

CONSTANTS bin1, bin2

Interchangeable == Permutations(Inodes)

MCNames    == {bin1, bin2}
MCRecorded == bin1 :> <<"a">> @@ bin2 :> <<"b", "c">>
MCContents == {<<"a">>, <<"x">>, <<"a", "x">>, <<"b", "c">>}
=============================================================================
