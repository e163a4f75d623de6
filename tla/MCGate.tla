-------------------------------- MODULE MCGate --------------------------------
(***************************************************************************)
(* What stands before the start of a command: the evaluation of its risk   *)
(* and the verification of the file that is executed. A behaviour is one   *)
(* of RiskEvaluation or one of VerifiedExecution.                          *)
(***************************************************************************)
EXTENDS MCRiskEvaluation, MCVerifiedExecution

VARIABLE part   \* the module whose behaviour this is

GateInit ==
  \/ /\ part = "risk" /\ Init
     /\ ExecInit /\ dir = [p \in Names |-> Nothing] /\ data = [i \in Inodes |-> <<"x">>]
     /\ ~useFd /\ expandedCmd = bin1
  \/ /\ part = "execution" /\ ExecInit
     /\ Init /\ mode = "run"

\* A run of the evaluation may stop between commands.
GateNext ==
  \/ part = "risk" /\ Next /\ UNCHANGED <<execVars, part>>
  \/ part = "risk" /\ UNCHANGED <<riskVars, execVars, part>>
  \/ part = "execution" /\ ExecNext /\ UNCHANGED <<riskVars, part>>

GateSpec == GateInit /\ [][GateNext]_<<riskVars, execVars, part>>
=============================================================================
