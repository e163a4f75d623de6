----------------------------- MODULE GroupSequence -----------------------------
(***************************************************************************)
(* What the runner promises about a run, whatever happens inside a group:  *)
(* groups run one at a time in the order of the configuration; each ends   *)
(* completed (every command succeeded), unverified (skipped, no command    *)
(* ran) or failed; the exit code is 0 exactly when no group failed and     *)
(* none was left out.                                                      *)
(***************************************************************************)
EXTENDS Integers

CONSTANT NGroups   \* number of selected groups

VARIABLES
    outcome,   \* per group: what became of it
    exitCode   \* -1 while the run goes on

Group == 1 .. NGroups
Ended == {"completed", "unverified", "failed"}

Init ==
    /\ outcome = [g \in Group |-> "pending"]
    /\ exitCode = -1

Begin(g) ==
    /\ exitCode = -1
    /\ outcome[g] = "pending"
    /\ \A h \in 1 .. g - 1 : outcome[h] \in Ended
    /\ outcome' = [outcome EXCEPT ![g] = "running"]
    /\ UNCHANGED exitCode

End(g) ==
    /\ exitCode = -1
    /\ outcome[g] = "running"
    /\ \E o \in Ended : outcome' = [outcome EXCEPT ![g] = o]
    /\ UNCHANGED exitCode

AllWell == \A g \in Group : outcome[g] \in {"completed", "unverified"}

\* The run ends; groups may be left over only with exit code 1.
Exit ==
    /\ exitCode = -1
    /\ exitCode' = IF AllWell THEN 0 ELSE 1
    /\ UNCHANGED outcome

Next == (\E g \in Group : Begin(g) \/ End(g)) \/ Exit

Spec == Init /\ [][Next]_<<outcome, exitCode>>
=============================================================================
