------------------------- MODULE CommandRunnerProofs -------------------------
(***************************************************************************)
(* Proofs about CommandRunner, for every number of groups and commands:    *)
(* the invariants of a run and that it implements GroupSequence.           *)
(***************************************************************************)
EXTENDS CommandRunner, SequenceTheorems, TLAPS

-----------------------------------------------------------------------------
(* The inductive invariant, by concern. *)

\* The steps of ExecuteGroup before its first command, and those of a command.
Setup   == {"expand", "workdir", "preexpand", "toctou", "verify"}
Working == {"validate", "evaluate", "gate", "start", "fork", "wait", "identity", "record"}
Unwind  == {"cleanup", "notify", "classify"}
InGroup == Setup \cup {"commands"} \cup Working \cup Unwind \cup {"aborted"}

\* Where the runner is decides which errors can be pending and whether there
\* is a context, a plan, a child and an exit code.
FlowInv ==
    /\ pc \in InGroup => g \in Group
    /\ pc \in Setup => c = 0
    /\ pc \in Working => c \in 1 .. NCommands
    /\ pc \in Setup \cup {"commands"} \cup Working => groupErr = "none" /\ result = "none"
    /\ pc \in Unwind =>
          \/ result = "success" /\ groupErr = "none"
          \/ result = "error" /\ groupErr \in {"failed", "canceled", "deadline"}
          \/ result = "none" /\ groupErr \in {"failed", "verification"}
    /\ pc \in Working => cmdCtx # "none"
    /\ cmdErr # "verification"
    /\ pc \notin {"identity", "record", "aborted"} /\ child # "held" => cmdErr = "none"
    /\ pc = "wait" <=> child # "none"
    /\ pc \notin (Working \ {"validate", "evaluate"}) \cup {"aborted"} => plan = "none"
    /\ pc = "gate" => plan # "none"
    /\ pc \in {"start", "fork", "wait", "identity"} => plan = "bound"
    /\ exitCode = -1 <=> pc \notin {"exited", "aborted"}

\* The audit log knows nothing of commands to come, and of the current one
\* what its step has decided.
AuditInv ==
    /\ \A x \in Command : Len(audit[x]) <= 1
    /\ \A x \in Command : x[1] > g \/ (x[1] = g /\ x[2] > c) => audit[x] = <<>>
    /\ pc \in {"validate", "evaluate", "gate"} => audit[current] = <<>>
    /\ pc \in {"start", "fork", "wait", "identity"} => audit[current] = <<"allow">>
    /\ pc = "record" /\ plan # "none" => Len(audit[current]) = 1

\* Every command started so far was gated and is not after the current one,
\* which itself is not among them before Fork.
StartedInv ==
    /\ \A i \in 1 .. Len(started) :
          /\ started[i][1] \in verified /\ audit[started[i]] = <<"allow">>
          /\ started[i][1] < g \/ (started[i][1] = g /\ started[i][2] <= c)
          /\ pc \in {"validate", "evaluate", "gate", "start", "fork"} =>
                started[i][1] < g \/ started[i][2] < c
    /\ pc = "wait" => Len(started) >= 1 /\ started[Len(started)] = current
    /\ \A i, j \in 1 .. Len(started) :
          i < j => \/ started[i][1] < started[j][1]
                   \/ started[i][1] = started[j][1] /\ started[i][2] < started[j][2]

\* The commands before the current one succeeded, and no other.
SucceededInv ==
    /\ \A i \in 1 .. Len(started), k \in 1 .. NCommands :
          k < started[i][2] => <<started[i][1], k>> \in succeeded
    /\ pc = "commands" => \A k \in 1 .. NCommands : k <= c => <<g, k>> \in succeeded
    /\ pc \in Working => \A k \in 1 .. NCommands : k < c => <<g, k>> \in succeeded
    /\ \A i \in Group, k \in 1 .. NCommands :
          <<i, k>> \in succeeded => i < g \/ (i = g /\ k <= c)
    /\ pc \in Working => <<g, c>> \notin succeeded

\* After the signal no context is active, so no further command passes Start.
SignalInv ==
    /\ ctx = "active" => afterSignal = 0
    /\ ctx = "canceled" => cmdCtx # "active"
    /\ pc = "fork" => afterSignal = 0
    /\ afterSignal <= 1

\* The only temporary directory is that of the current group.
TempInv ==
    /\ pc \in {"expand", "workdir"} => workDir = "fixed"
    /\ ~keepTempDirs /\ ~cleanupLost =>
          IF pc \in {"preexpand", "toctou", "verify", "commands", "cleanup", "aborted"} \cup Working
          THEN tempDirs = IF workDir = "temp" THEN {g} ELSE {}
          ELSE tempDirs = {}

\* The report of a group that was dealt with.
Reported(i) ==
    /\ notified[i] = "success" <=> i \in verified /\ AllSucceeded(i)
    /\ notified[i] = "error" <=> i \in verified /\ ~AllSucceeded(i)
    /\ i \in preExecErrs => i \notin verified

\* The groups i that were dealt with.
Past(i) == i < g \/ pc \in {"next", "exit", "exited"}

ReportInv ==
    /\ \A i \in Group : i > g => i \notin verified /\ i \notin preExecErrs /\ notified[i] = "none"
    /\ pc \in Setup => g \notin verified
    /\ pc \in {"commands"} \cup Working => g \in verified
    /\ pc \in Unwind => /\ result = "none" <=> g \notin verified
                        /\ result = "success" => AllSucceeded(g)
                        /\ result = "error" => ~AllSucceeded(g)
    /\ pc \in InGroup \ {"classify"} => notified[g] = "none"
    /\ pc = "classify" => notified[g] = result
    /\ pc \in InGroup => g \notin preExecErrs
    /\ \A i \in Group : i <= g /\ Past(i) => Reported(i)

\* Group i does not make the exit code 1.
Fine(i) == i \in preExecErrs \/ notified[i] = "success"

\* What Execute returns depends on the groups dealt with.
ErrorInv ==
    /\ pc \notin {"exit", "exited"} =>
          (groupErrs = <<>> <=> \A i \in Group : i <= g /\ Past(i) => Fine(i))
    /\ pc = "exit" => (runErr = "none" <=> g = NGroups /\ \A i \in Group : Fine(i))

IInv == /\ TypeOK /\ FlowInv /\ AuditInv /\ StartedInv /\ SucceededInv
        /\ SignalInv /\ TempInv /\ ReportInv /\ ErrorInv
-----------------------------------------------------------------------------
(* Types. *)

\* Inside a group there is a current group, inside a command a current command.
LEMMA HereTyped ==
  ASSUME TypeOK, FlowInv
  PROVE  /\ pc \in InGroup => g \in Group
         /\ pc \in Working => current \in Command
BY DEF FlowInv, TypeOK, InGroup, Working, Command, current

\* The audit log stays one sequence of decisions per command.
LEMMA LogTyped ==
  ASSUME TypeOK, current \in Command,
         NEW decision \in {"allow", "deny"}, Log(decision)
  PROVE  audit' \in [Command -> Seq({"allow", "deny"})]
<1>1. Append(audit[current], decision) \in Seq({"allow", "deny"})
  BY AppendProperties DEF TypeOK
<1> QED
  BY <1>1 DEF TypeOK, Log

\* What was started are commands of the configuration.
LEMMA StartedTyped ==
  ASSUME TypeOK
  PROVE  /\ Len(started) \in Nat
         /\ \A i \in 1 .. Len(started) :
               /\ started[i] \in Command
               /\ started[i] = <<started[i][1], started[i][2]>>
               /\ started[i][1] \in Nat /\ started[i][2] \in Nat
<1>1. Len(started) \in Nat /\ \A i \in 1 .. Len(started) : started[i] \in Command
  BY ElementOfSeq, LenProperties DEF TypeOK
<1>2. \A x \in Command : x = <<x[1], x[2]>> /\ x[1] \in Nat /\ x[2] \in Nat
  BY NGroupsAssumption, NCommandsAssumption DEF Command, Group
<1> QED
  BY <1>1, <1>2

\* Fork appends the current command to those started.
LEMMA ForkAppends ==
  ASSUME TypeOK, current \in Command, started' = Append(started, current)
  PROVE  /\ started' \in Seq(Command)
         /\ Len(started') = Len(started) + 1
         /\ \A i \in 1 .. Len(started) : started'[i] = started[i]
         /\ started'[Len(started) + 1] = current
         /\ \A i \in 1 .. Len(started') : i \in 1 .. Len(started) \/ i = Len(started) + 1
<1>1. started \in Seq(Command)
  BY DEF TypeOK
<1>2. /\ started' \in Seq(Command)
      /\ Len(started') = Len(started) + 1
      /\ \A i \in 1 .. Len(started) : started'[i] = started[i]
      /\ started'[Len(started) + 1] = current
  BY <1>1, AppendProperties
<1> QED
  BY <1>1, <1>2, LenProperties

\* The first decision about a command.
LEMMA FirstDecision ==
  ASSUME TypeOK, current \in Command, audit[current] = <<>>,
         NEW decision \in {"allow", "deny"}, Log(decision)
  PROVE  \A x \in Command : audit'[x] = IF x = current THEN <<decision>> ELSE audit[x]
<1>1. Append(audit[current], decision) = <<decision>>
  OBVIOUS
<1> QED
  BY <1>1 DEF TypeOK, Log

-----------------------------------------------------------------------------
(* The actions that log, start and move on to the next command. *)

\* Before its first decision a command is in no log and not started.
LEMMA Undecided ==
  ASSUME IInv, pc \in {"validate", "evaluate", "gate", "start", "fork"}
  PROVE  /\ current \in Command
         /\ pc \in {"evaluate", "gate"} => audit[current] = <<>>
         /\ \A i \in 1 .. Len(started) : started[i] # current
<1>1. current \in Command
  BY HereTyped DEF IInv, Working
<1>2. pc \in {"evaluate", "gate"} => audit[current] = <<>>
  BY DEF IInv, AuditInv
<1>3. g \in Nat /\ c \in Nat
  BY NGroupsAssumption, NCommandsAssumption DEF IInv, TypeOK
<1>4. \A i \in 1 .. Len(started) : started[i] # current
  BY <1>3, StartedTyped DEF IInv, StartedInv, current
<1> QED
  BY <1>1, <1>2, <1>4

\* A decision concerns no command that was started and is the only one.
LEMMA DecisionKeeps ==
  ASSUME IInv, pc \in {"evaluate", "gate"}, UNCHANGED <<g, c, started, verified>>,
         NEW decision \in {"allow", "deny"}, Log(decision)
  PROVE  /\ \A x \in Command : Len(audit'[x]) <= 1
         /\ \A x \in Command : x[1] > g \/ (x[1] = g /\ x[2] > c) => audit'[x] = <<>>
         /\ audit'[current] = <<decision>> /\ Len(audit'[current]) = 1
         /\ \A i \in 1 .. Len(started) : audit'[started[i]] = audit[started[i]]
<1>1. current \in Command /\ audit[current] = <<>>
  BY Undecided
<1>2. \A x \in Command : audit'[x] = IF x = current THEN <<decision>> ELSE audit[x]
  BY <1>1, FirstDecision DEF IInv
<1>3. Len(<<decision>>) = 1
  OBVIOUS
<1>4. g \in Nat /\ c \in Nat
  BY NGroupsAssumption, NCommandsAssumption DEF IInv, TypeOK
<1>5. ~(current[1] > g) /\ ~(current[1] = g /\ current[2] > c)
  BY <1>4 DEF current
<1>6. \A i \in 1 .. Len(started) : started[i] \in Command /\ started[i] # current
  BY StartedTyped, Undecided DEF IInv
<1>7. \A x \in Command : Len(audit[x]) <= 1
  BY DEF IInv, AuditInv
<1>8. \A x \in Command : x[1] > g \/ (x[1] = g /\ x[2] > c) => audit[x] = <<>>
  BY DEF IInv, AuditInv
<1>9. ASSUME NEW x \in Command PROVE Len(audit'[x]) <= 1
  <2>1. CASE x = current
    <3>1. audit'[x] = <<decision>>
      BY <1>2, <2>1
    <3> QED
      BY <1>3, <3>1
  <2>2. CASE x # current
    BY <1>2, <1>7, <2>2
  <2> QED
    BY <2>1, <2>2
<1>10. \A x \in Command : x[1] > g \/ (x[1] = g /\ x[2] > c) => audit'[x] = <<>>
  BY <1>2, <1>5, <1>8
<1>11. audit'[current] = <<decision>> /\ Len(audit'[current]) = 1
  BY <1>1, <1>2, <1>3
<1>12. \A i \in 1 .. Len(started) : audit'[started[i]] = audit[started[i]]
  BY <1>2, <1>6
<1> QED
  BY <1>9, <1>10, <1>11, <1>12

\* A new group or command is after all that were started.
LEMMA AdvanceStarted ==
  ASSUME IInv, UNCHANGED <<started, verified, audit>>, pc' # "wait",
         \/ g' = g + 1 /\ c' = 0
         \/ g' = g /\ c' = c + 1
  PROVE  StartedInv'
<1>1. g \in Nat /\ c \in Nat
  BY NGroupsAssumption, NCommandsAssumption DEF IInv, TypeOK
<1>2. \A i \in 1 .. Len(started) : started[i][1] \in Nat /\ started[i][2] \in Nat
  BY StartedTyped DEF IInv
<1>3. \A i \in 1 .. Len(started) :
          started[i][1] < g' \/ (started[i][1] = g' /\ started[i][2] < c')
  BY <1>1, <1>2 DEF IInv, StartedInv
<1>4. \A i \in 1 .. Len(started) :
          started[i][1] < g' \/ (started[i][1] = g' /\ started[i][2] <= c')
  BY <1>1, <1>2, <1>3
<1>5. \A i \in 1 .. Len(started) :
         started[i][1] \in verified /\ audit[started[i]] = <<"allow">>
  BY DEF IInv, StartedInv
<1>6. \A i, j \in 1 .. Len(started) :
         i < j => \/ started[i][1] < started[j][1]
                  \/ started[i][1] = started[j][1] /\ started[i][2] < started[j][2]
  BY DEF IInv, StartedInv
<1> QED
  BY <1>3, <1>4, <1>5, <1>6 DEF StartedInv

\* Fork starts the current command: gated, and after all that were started.
LEMMA ForkStarted ==
  ASSUME IInv, pc = "fork", pc' \in {"wait", "identity"}, UNCHANGED <<g, c, verified, audit>>,
         \/ started' = Append(started, current)
         \/ UNCHANGED started /\ pc' = "identity"
  PROVE  StartedInv'
<1>1. CASE UNCHANGED started /\ pc' = "identity"
  BY <1>1 DEF IInv, StartedInv
<1>2. CASE started' = Append(started, current)
  <2>1. g \in Nat /\ c \in Nat
    BY NGroupsAssumption, NCommandsAssumption DEF IInv, TypeOK
  <2>2. current \in Command /\ current' = current /\ current = <<g, c>>
    BY Undecided DEF current
  <2>3. g \in verified /\ audit[current] = <<"allow">>
    BY DEF IInv, ReportInv, AuditInv, Working
  <2>4. /\ Len(started) \in Nat /\ Len(started') = Len(started) + 1
        /\ \A i \in 1 .. Len(started) : started'[i] = started[i]
        /\ started'[Len(started) + 1] = <<g, c>>
        /\ \A i \in 1 .. Len(started') : i \in 1 .. Len(started) \/ i = Len(started) + 1
    BY <1>2, <2>2, ForkAppends, StartedTyped DEF IInv
  <2>5. \A i \in 1 .. Len(started) :
           started[i][1] < g \/ (started[i][1] = g /\ started[i][2] < c)
    BY <2>1, StartedTyped DEF IInv, StartedInv
  <2>6. ASSUME NEW i \in 1 .. Len(started')
        PROVE  /\ started'[i][1] \in verified /\ audit[started'[i]] = <<"allow">>
               /\ started'[i][1] < g \/ (started'[i][1] = g /\ started'[i][2] <= c)
    <3>1. CASE i \in 1 .. Len(started)
      BY <2>4, <3>1 DEF IInv, StartedInv
    <3>2. CASE i = Len(started) + 1
      <4>1. started'[i] = <<g, c>> /\ started'[i] = current
        BY <2>2, <2>4, <3>2
      <4> QED
        BY <2>1, <2>3, <4>1
    <3> QED
      BY <2>4, <3>1, <3>2
  <2>7. ASSUME NEW i \in 1 .. Len(started'), NEW j \in 1 .. Len(started'), i < j
        PROVE  \/ started'[i][1] < started'[j][1]
               \/ started'[i][1] = started'[j][1] /\ started'[i][2] < started'[j][2]
    <3>1. i \in 1 .. Len(started)
      BY <2>4, <2>7
    <3>2. CASE j \in 1 .. Len(started)
      BY <2>4, <2>7, <3>1, <3>2 DEF IInv, StartedInv
    <3>3. CASE j = Len(started) + 1
      BY <2>4, <2>5, <3>1, <3>3
    <3> QED
      BY <2>4, <3>2, <3>3
  <2>8. Len(started') >= 1 /\ started'[Len(started')] = current'
    BY <2>2, <2>4
  <2> QED
    BY <2>6, <2>7, <2>8 DEF StartedInv
<1> QED
  BY <1>1, <1>2

\* ... and all earlier commands of its group succeeded.
LEMMA ForkSucceeded ==
  ASSUME IInv, pc = "fork", started' = Append(started, current)
  PROVE  \A i \in 1 .. Len(started'), k \in 1 .. NCommands :
            k < started'[i][2] => <<started'[i][1], k>> \in succeeded
<1>1. current \in Command /\ current = <<g, c>>
  BY Undecided DEF current
<1>2. /\ \A i \in 1 .. Len(started) : started'[i] = started[i]
      /\ started'[Len(started) + 1] = <<g, c>>
      /\ \A i \in 1 .. Len(started') : i \in 1 .. Len(started) \/ i = Len(started) + 1
  BY <1>1, ForkAppends DEF IInv
<1>3. \A k \in 1 .. NCommands : k < c => <<g, k>> \in succeeded
  BY DEF IInv, SucceededInv, Working
<1> SUFFICES ASSUME NEW i \in 1 .. Len(started'), NEW k \in 1 .. NCommands,
                    k < started'[i][2]
             PROVE  <<started'[i][1], k>> \in succeeded
  OBVIOUS
<1>4. CASE i \in 1 .. Len(started)
  BY <1>2, <1>4 DEF IInv, SucceededInv
<1>5. CASE i = Len(started) + 1
  BY <1>2, <1>3, <1>5
<1> QED
  BY <1>2, <1>4, <1>5

\* A step that starts nothing, moves on neither to another command nor back to a step
\* before Fork, and forgets no decision and no verified group.
LEMMA QuietStarted ==
  ASSUME IInv, UNCHANGED <<g, c, started>>, verified \subseteq verified',
         pc' = "wait" => pc = "wait",
         pc' \in {"validate", "evaluate", "gate", "start", "fork"} =>
            pc \in {"validate", "evaluate", "gate", "start", "fork"},
         \A i \in 1 .. Len(started) : audit'[started[i]] = audit[started[i]]
  PROVE  StartedInv'
<1>1. StartedInv
  BY DEF IInv
<1>2. ASSUME NEW i \in 1 .. Len(started)
      PROVE  /\ started[i][1] \in verified' /\ audit'[started[i]] = <<"allow">>
             /\ started[i][1] < g \/ (started[i][1] = g /\ started[i][2] <= c)
             /\ pc' \in {"validate", "evaluate", "gate", "start", "fork"} =>
                   started[i][1] < g \/ started[i][2] < c
  <2>1. started[i][1] \in verified /\ audit[started[i]] = <<"allow">>
    BY <1>1, <1>2 DEF StartedInv
  <2>2. /\ started[i][1] < g \/ (started[i][1] = g /\ started[i][2] <= c)
        /\ pc \in {"validate", "evaluate", "gate", "start", "fork"} =>
              started[i][1] < g \/ started[i][2] < c
    BY <1>1, <1>2 DEF StartedInv
  <2> QED
    BY <1>2, <2>1, <2>2
<1>3. pc' = "wait" => Len(started) >= 1 /\ started[Len(started)] = current'
  BY <1>1 DEF StartedInv, current
<1>4. \A i, j \in 1 .. Len(started) :
        i < j => \/ started[i][1] < started[j][1]
                 \/ started[i][1] = started[j][1] /\ started[i][2] < started[j][2]
  BY <1>1 DEF StartedInv
<1> QED
  BY <1>2, <1>3, <1>4 DEF StartedInv

\* Every action keeps the types.
LEMMA TypeStep == IInv /\ [Next]_vars => TypeOK'
<1> SUFFICES ASSUME IInv, [Next]_vars PROVE TypeOK'
  OBVIOUS
<1> USE NGroupsAssumption, NCommandsAssumption DEF IInv, TypeOK, FlowInv, Setup, Working,
        Unwind, InGroup, PCs, Errors, options, loop, groupSt, command, history, logs, Goto
<1>1. CASE NextGroup
  <2>1. FirstError \in Errors
    BY HeadTailProperties DEF FirstError
  <2>2. g < NGroups => g + 1 \in 0 .. NGroups
    OBVIOUS
  <2>3. 0 \in 0 .. NCommands
    BY NCommandsAssumption
  <2> QED
    BY <1>1, <2>1, <2>2, <2>3 DEF NextGroup
<1>2. CASE Classify
  <2>1. groupErr = "failed" => Append(groupErrs, groupErr) \in Seq({"failed"})
    BY AppendProperties
  <2>2. groupErrs' \in Seq({"failed"})
    BY <1>2, <2>1 DEF Classify
  <2>3. preExecErrs' \subseteq Group
    BY <1>2, HereTyped DEF Classify
  <2> QED
    BY <1>2, <2>2, <2>3 DEF Classify
<1>3. CASE Exit
  BY <1>3 DEF Exit
<1>4. CASE ExpandGroup
  BY <1>4 DEF ExpandGroup, GroupCheck
<1>5. CASE ResolveGroupWorkDir
  BY <1>5 DEF ResolveGroupWorkDir
<1>6. CASE PreExpandCommands
  BY <1>6 DEF PreExpandCommands, GroupCheck
<1>7. CASE RunGroupTOCTOUCheck
  BY <1>7 DEF RunGroupTOCTOUCheck, GroupCheck
<1>8. CASE VerifyGroupFiles
  BY <1>8 DEF VerifyGroupFiles, GroupCheck
<1>9. CASE NextCommand
  <2>1. c < NCommands => c + 1 \in 0 .. NCommands
    OBVIOUS
  <2> QED
    BY <1>9, <2>1 DEF NextCommand, MoreCommands, CommandContext
<1>10. CASE Cleanup
  <2>1. tempDirs' \subseteq Group /\ cleanupLost' \in BOOLEAN
    BY <1>10 DEF Cleanup
  <2> QED
    BY <1>10, <2>1 DEF Cleanup
<1>11. CASE Notify
  BY <1>11 DEF Notify
<1>12. CASE ValidateCommand
  BY <1>12 DEF ValidateCommand, CommandFails
<1>13. CASE EvaluateRisk
  <2>1. audit' \in [Command -> Seq({"allow", "deny"})]
    BY <1>13, HereTyped, LogTyped DEF EvaluateRisk
  <2> QED
    BY <1>13, <2>1 DEF EvaluateRisk, CommandFails
<1>14. CASE RiskGate
  <2>1. audit' \in [Command -> Seq({"allow", "deny"})]
    BY <1>14, HereTyped, LogTyped DEF RiskGate
  <2> QED
    BY <1>14, <2>1 DEF RiskGate, CommandFails
<1>15. CASE Start
  BY <1>15 DEF Start
<1>16. CASE Fork
  <2>1. started' \in Seq(Command)
    BY <1>16, HereTyped, ForkAppends DEF Fork
  <2>2. afterSignal' \in Nat
    BY <1>16 DEF Fork
  <2> QED
    BY <1>16, <2>1, <2>2 DEF Fork
<1>17. CASE CheckIdentity
  BY <1>17 DEF CheckIdentity
<1>18. CASE Record
  <2>1. current \in Command
    BY <1>18, HereTyped DEF Record
  <2> QED
    BY <1>18, <2>1 DEF Record
<1>19. CASE Signal
  BY <1>19 DEF Signal
<1>20. CASE Deadline
  BY <1>20 DEF Deadline
<1>21. CASE ChildEnds
  BY <1>21 DEF ChildEnds, ChildGone
<1>22. CASE Kill
  <2>1. current \in Command
    BY <1>22, HereTyped DEF Kill, ChildGone
  <2> QED
    BY <1>22, <2>1 DEF Kill, ChildGone
<1>25. CASE PipesClosed
  BY <1>25 DEF PipesClosed
<1>23. CASE Exited
  BY <1>23 DEF Exited, vars
<1>24. CASE UNCHANGED vars
  BY <1>24 DEF vars
<1> QED
  BY <1>1, <1>2, <1>3, <1>4, <1>5, <1>6, <1>7, <1>8, <1>9, <1>10, <1>11, <1>12, <1>13,
     <1>14, <1>15, <1>16, <1>17, <1>18, <1>19, <1>20, <1>21, <1>22, <1>23, <1>24, <1>25 DEF Next,
     RunnerStep

\* Where the runner is decides what is pending.
LEMMA FlowStep == IInv /\ [Next]_vars => FlowInv'
<1> SUFFICES ASSUME IInv, [Next]_vars PROVE FlowInv'
  OBVIOUS
<1> USE NGroupsAssumption, NCommandsAssumption DEF IInv, TypeOK, FlowInv, Setup, Working,
        Unwind, InGroup, PCs, Errors, Group, options, loop, groupSt, command, history, logs,
        Goto
<1>1. CASE NextGroup
  BY <1>1 DEF NextGroup, FirstError
<1>2. CASE Classify
  BY <1>2 DEF Classify
<1>3. CASE Exit
  BY <1>3 DEF Exit
<1>4. CASE ExpandGroup
  BY <1>4 DEF ExpandGroup, GroupCheck
<1>5. CASE ResolveGroupWorkDir
  BY <1>5 DEF ResolveGroupWorkDir
<1>6. CASE PreExpandCommands
  BY <1>6 DEF PreExpandCommands, GroupCheck
<1>7. CASE RunGroupTOCTOUCheck
  BY <1>7 DEF RunGroupTOCTOUCheck, GroupCheck
<1>8. CASE VerifyGroupFiles
  BY <1>8 DEF VerifyGroupFiles, GroupCheck
<1>9. CASE NextCommand
  BY <1>9 DEF NextCommand, MoreCommands, CommandContext
<1>10. CASE Cleanup
  BY <1>10 DEF Cleanup
<1>11. CASE Notify
  BY <1>11 DEF Notify
<1>12. CASE ValidateCommand
  BY <1>12 DEF ValidateCommand, CommandFails
<1>13. CASE EvaluateRisk
  BY <1>13 DEF EvaluateRisk, CommandFails, Log
<1>14. CASE RiskGate
  BY <1>14 DEF RiskGate, CommandFails, Log, Allowed
<1>15. CASE Start
  BY <1>15 DEF Start
<1>16. CASE Fork
  BY <1>16 DEF Fork
<1>17. CASE CheckIdentity
  BY <1>17 DEF CheckIdentity
<1>18. CASE Record
  BY <1>18 DEF Record
<1>19. CASE Signal
  BY <1>19 DEF Signal
<1>20. CASE Deadline
  BY <1>20 DEF Deadline
<1>21. CASE ChildEnds
  BY <1>21 DEF ChildEnds, ChildGone
<1>22. CASE Kill
  BY <1>22 DEF Kill, ChildGone
<1>25. CASE PipesClosed
  BY <1>25 DEF PipesClosed
<1>23. CASE Exited
  BY <1>23 DEF Exited, vars
<1>24. CASE UNCHANGED vars
  BY <1>24 DEF vars
<1> QED
  BY <1>1, <1>2, <1>3, <1>4, <1>5, <1>6, <1>7, <1>8, <1>9, <1>10, <1>11, <1>12, <1>13,
     <1>14, <1>15, <1>16, <1>17, <1>18, <1>19, <1>20, <1>21, <1>22, <1>23, <1>24, <1>25 DEF Next,
     RunnerStep

\* The audit log stays in step with the current command.
LEMMA AuditStep == IInv /\ [Next]_vars => AuditInv'
<1> SUFFICES ASSUME IInv, [Next]_vars PROVE AuditInv'
  OBVIOUS
<1> USE NGroupsAssumption, NCommandsAssumption DEF IInv, TypeOK, FlowInv, AuditInv, Setup,
        Working, Unwind, InGroup, PCs, Errors, Group, Command, current, options, loop,
        groupSt, command, history, logs, Goto
<1>1. CASE NextGroup
  BY <1>1 DEF NextGroup, FirstError
<1>2. CASE Classify
  BY <1>2 DEF Classify
<1>3. CASE Exit
  BY <1>3 DEF Exit
<1>4. CASE ExpandGroup
  BY <1>4 DEF ExpandGroup, GroupCheck
<1>5. CASE ResolveGroupWorkDir
  BY <1>5 DEF ResolveGroupWorkDir
<1>6. CASE PreExpandCommands
  BY <1>6 DEF PreExpandCommands, GroupCheck
<1>7. CASE RunGroupTOCTOUCheck
  BY <1>7 DEF RunGroupTOCTOUCheck, GroupCheck
<1>8. CASE VerifyGroupFiles
  BY <1>8 DEF VerifyGroupFiles, GroupCheck
<1>9. CASE NextCommand
  BY <1>9 DEF NextCommand, MoreCommands, CommandContext
<1>10. CASE Cleanup
  BY <1>10 DEF Cleanup
<1>11. CASE Notify
  BY <1>11 DEF Notify
<1>12. CASE ValidateCommand
  BY <1>12 DEF ValidateCommand, CommandFails
<1>13. CASE EvaluateRisk
  <2>1. CASE UNCHANGED audit
    BY <1>13, <2>1 DEF EvaluateRisk, Log, CommandFails
  <2>2. CASE audit' # audit
    BY <1>13, <2>2, DecisionKeeps DEF EvaluateRisk, CommandFails
  <2> QED
    BY <2>1, <2>2
<1>14. CASE RiskGate
  <2>1. CASE UNCHANGED audit
    BY <1>14, <2>1 DEF RiskGate, Log, CommandFails
  <2>2. CASE audit' # audit
    BY <1>14, <2>2, DecisionKeeps DEF RiskGate, CommandFails
  <2> QED
    BY <2>1, <2>2
<1>15. CASE Start
  BY <1>15 DEF Start
<1>16. CASE Fork
  BY <1>16 DEF Fork
<1>17. CASE CheckIdentity
  BY <1>17 DEF CheckIdentity
<1>18. CASE Record
  BY <1>18 DEF Record
<1>19. CASE Signal
  BY <1>19 DEF Signal
<1>20. CASE Deadline
  BY <1>20 DEF Deadline
<1>21. CASE ChildEnds
  BY <1>21 DEF ChildEnds, ChildGone
<1>22. CASE Kill
  BY <1>22 DEF Kill, ChildGone
<1>25. CASE PipesClosed
  BY <1>25 DEF PipesClosed
<1>23. CASE Exited
  BY <1>23 DEF Exited, vars
<1>24. CASE UNCHANGED vars
  BY <1>24 DEF vars
<1> QED
  BY <1>1, <1>2, <1>3, <1>4, <1>5, <1>6, <1>7, <1>8, <1>9, <1>10, <1>11, <1>12, <1>13,
     <1>14, <1>15, <1>16, <1>17, <1>18, <1>19, <1>20, <1>21, <1>22, <1>23, <1>24, <1>25 DEF Next,
     RunnerStep

\* What was started stays gated and in order.
LEMMA StartedStep == IInv /\ [Next]_vars => StartedInv'
<1> SUFFICES ASSUME IInv, [Next]_vars PROVE StartedInv'
  OBVIOUS
<1> USE NGroupsAssumption, NCommandsAssumption DEF IInv, TypeOK, FlowInv, AuditInv,
        StartedInv, Setup, Working, Unwind, InGroup, PCs, Errors, Group, Command, current,
        options, loop, groupSt, command, history, logs, Goto
<1>1. CASE NextGroup
  <2>1. CASE UNCHANGED <<g, c>>
    <3>1. UNCHANGED <<started, audit, verified>> /\ pc' \notin {"wait", "validate", "evaluate", "gate", "start", "fork"}
      BY <1>1, <2>1 DEF NextGroup
    <3> QED
      BY <2>1, <3>1, QuietStarted
  <2>2. CASE g' = g + 1 /\ c' = 0
    BY <1>1, <2>2, AdvanceStarted DEF NextGroup
  <2> QED
    BY <1>1, <2>1, <2>2 DEF NextGroup
<1>2. CASE Classify
  BY <1>2 DEF Classify
<1>3. CASE Exit
  BY <1>3 DEF Exit
<1>4. CASE ExpandGroup
  <2>1. UNCHANGED <<g, c, started, audit>> /\ verified \subseteq verified'
    BY <1>4 DEF ExpandGroup, GroupCheck
  <2>2. pc' \notin {"wait", "validate", "evaluate", "gate", "start", "fork"}
    BY <1>4 DEF ExpandGroup, GroupCheck
  <2> QED
    BY <2>1, <2>2, QuietStarted
<1>5. CASE ResolveGroupWorkDir
  <2>1. UNCHANGED <<g, c, started, audit>> /\ verified \subseteq verified'
    BY <1>5 DEF ResolveGroupWorkDir
  <2>2. pc' \notin {"wait", "validate", "evaluate", "gate", "start", "fork"}
    BY <1>5 DEF ResolveGroupWorkDir
  <2> QED
    BY <2>1, <2>2, QuietStarted
<1>6. CASE PreExpandCommands
  <2>1. UNCHANGED <<g, c, started, audit>> /\ verified \subseteq verified'
    BY <1>6 DEF PreExpandCommands, GroupCheck
  <2>2. pc' \notin {"wait", "validate", "evaluate", "gate", "start", "fork"}
    BY <1>6 DEF PreExpandCommands, GroupCheck
  <2> QED
    BY <2>1, <2>2, QuietStarted
<1>7. CASE RunGroupTOCTOUCheck
  <2>1. UNCHANGED <<g, c, started, audit>> /\ verified \subseteq verified'
    BY <1>7 DEF RunGroupTOCTOUCheck, GroupCheck
  <2>2. pc' \notin {"wait", "validate", "evaluate", "gate", "start", "fork"}
    BY <1>7 DEF RunGroupTOCTOUCheck, GroupCheck
  <2> QED
    BY <2>1, <2>2, QuietStarted
<1>8. CASE VerifyGroupFiles
  <2>1. UNCHANGED <<g, c, started, audit>> /\ verified \subseteq verified'
    BY <1>8 DEF VerifyGroupFiles, GroupCheck
  <2>2. pc' \notin {"wait", "validate", "evaluate", "gate", "start", "fork"}
    BY <1>8 DEF VerifyGroupFiles, GroupCheck
  <2> QED
    BY <2>1, <2>2, QuietStarted
<1>9. CASE NextCommand
  <2>1. UNCHANGED <<started, verified, audit>> /\ pc' # "wait"
    BY <1>9 DEF NextCommand
  <2>2. CASE g' = g /\ c' = c + 1
    BY <2>1, <2>2, AdvanceStarted
  <2>3. CASE UNCHANGED <<g, c>> /\ pc' \notin {"validate", "evaluate", "gate", "start", "fork"}
    BY <2>1, <2>3, QuietStarted
  <2> QED
    BY <1>9, <2>2, <2>3 DEF NextCommand, MoreCommands
<1>10. CASE Cleanup
  BY <1>10 DEF Cleanup
<1>11. CASE Notify
  BY <1>11 DEF Notify
<1>12. CASE ValidateCommand
  BY SMTT(30), <1>12 DEF ValidateCommand, CommandFails
<1>13. CASE EvaluateRisk
  <2>1. \A i \in 1 .. Len(started) : audit'[started[i]] = audit[started[i]]
    <3>1. CASE UNCHANGED audit
      BY <3>1
    <3>2. CASE audit' # audit
      BY <1>13, <3>2, DecisionKeeps DEF EvaluateRisk
    <3> QED
      BY <3>1, <3>2
  <2>2. UNCHANGED <<g, c, started, verified>> /\ pc = "evaluate" /\ pc' \in {"gate", "record"}
    BY <1>13 DEF EvaluateRisk, CommandFails
  <2> QED
    BY <2>1, <2>2, QuietStarted
<1>14. CASE RiskGate
  <2>1. CASE UNCHANGED audit
    BY <1>14, <2>1 DEF RiskGate, Log, CommandFails
  <2>2. CASE audit' # audit
    <3>1. \A i \in 1 .. Len(started) : audit'[started[i]] = audit[started[i]]
      BY <1>14, <2>2, DecisionKeeps DEF RiskGate
    <3> QED
      BY <1>14, <3>1 DEF RiskGate, CommandFails
  <2> QED
    BY <2>1, <2>2
<1>15. CASE Start
  BY <1>15 DEF Start
<1>16. CASE Fork
  BY <1>16, ForkStarted DEF Fork
<1>17. CASE CheckIdentity
  BY <1>17 DEF CheckIdentity
<1>18. CASE Record
  BY <1>18 DEF Record
<1>19. CASE Signal
  BY <1>19 DEF Signal
<1>20. CASE Deadline
  <2>1. UNCHANGED <<g, c, started, audit>> /\ verified \subseteq verified'
    BY <1>20 DEF Deadline
  <2>2. pc' = pc
    BY <1>20 DEF Deadline
  <2> QED
    BY <2>1, <2>2, QuietStarted
<1>21. CASE ChildEnds
  BY <1>21 DEF ChildEnds, ChildGone
<1>22. CASE Kill
  BY <1>22 DEF Kill, ChildGone
<1>25. CASE PipesClosed
  BY <1>25 DEF PipesClosed
<1>23. CASE Exited
  <2>1. UNCHANGED <<g, c, started, audit>> /\ verified \subseteq verified'
    BY <1>23 DEF Exited, vars
  <2>2. pc' = pc
    BY <1>23 DEF Exited, vars
  <2> QED
    BY <2>1, <2>2, QuietStarted
<1>24. CASE UNCHANGED vars
  <2>1. UNCHANGED <<g, c, started, audit>> /\ verified \subseteq verified'
    BY <1>24 DEF vars
  <2>2. pc' = pc
    BY <1>24 DEF vars
  <2> QED
    BY <2>1, <2>2, QuietStarted
<1> QED
  BY <1>1, <1>2, <1>3, <1>4, <1>5, <1>6, <1>7, <1>8, <1>9, <1>10, <1>11, <1>12, <1>13,
     <1>14, <1>15, <1>16, <1>17, <1>18, <1>19, <1>20, <1>21, <1>22, <1>23, <1>24, <1>25 DEF Next,
     RunnerStep

\* A command is reached only when those before it succeeded.
LEMMA SucceededStep == IInv /\ [Next]_vars => SucceededInv'
<1> SUFFICES ASSUME IInv, [Next]_vars PROVE SucceededInv'
  OBVIOUS
<1> USE NGroupsAssumption, NCommandsAssumption DEF IInv, TypeOK, FlowInv, StartedInv,
        SucceededInv, Setup, Working, Unwind, InGroup, PCs, Errors, Group, Command, current,
        options, loop, groupSt, command, history, logs, Goto
<1>1. CASE NextGroup
  <2>1. /\ started' = started /\ succeeded' = succeeded
        /\ pc' \notin Working /\ pc' # "commands"
    BY <1>1 DEF NextGroup
  <2>2. g \in Nat /\ ((g' = g /\ c' = c) \/ g' = g + 1)
    BY <1>1 DEF NextGroup
  <2>3. \A i \in Group, k \in 1 .. NCommands :
          <<i, k>> \in succeeded' => i < g' \/ (i = g' /\ k <= c')
    BY <2>1, <2>2
  <2>4. \A i \in 1 .. Len(started'), k \in 1 .. NCommands :
          k < started'[i][2] => <<started'[i][1], k>> \in succeeded'
    BY <2>1
  <2> QED
    BY <2>1, <2>3, <2>4
<1>2. CASE Classify
  BY <1>2 DEF Classify
<1>3. CASE Exit
  BY <1>3 DEF Exit
<1>4. CASE ExpandGroup
  BY <1>4 DEF ExpandGroup, GroupCheck
<1>5. CASE ResolveGroupWorkDir
  BY <1>5 DEF ResolveGroupWorkDir
<1>6. CASE PreExpandCommands
  BY <1>6 DEF PreExpandCommands, GroupCheck
<1>7. CASE RunGroupTOCTOUCheck
  BY <1>7 DEF RunGroupTOCTOUCheck, GroupCheck
<1>8. CASE VerifyGroupFiles
  BY <1>8 DEF VerifyGroupFiles, GroupCheck
<1>9. CASE NextCommand
  BY <1>9 DEF NextCommand, MoreCommands, CommandContext
<1>10. CASE Cleanup
  BY <1>10 DEF Cleanup
<1>11. CASE Notify
  BY <1>11 DEF Notify
<1>12. CASE ValidateCommand
  BY <1>12 DEF ValidateCommand, CommandFails
<1>13. CASE EvaluateRisk
  BY <1>13 DEF EvaluateRisk, CommandFails, Log
<1>14. CASE RiskGate
  BY <1>14 DEF RiskGate, CommandFails, Log, Allowed
<1>15. CASE Start
  BY <1>15 DEF Start
<1>16. CASE Fork
  <2>1. CASE UNCHANGED started
    BY <1>16, <2>1 DEF Fork
  <2>2. CASE started' = Append(started, current)
    BY <1>16, <2>2, ForkSucceeded DEF Fork
  <2> QED
    BY <1>16, <2>1, <2>2 DEF Fork
<1>17. CASE CheckIdentity
  BY <1>17 DEF CheckIdentity
<1>18. CASE Record
  BY <1>18 DEF Record
<1>19. CASE Signal
  BY <1>19 DEF Signal
<1>20. CASE Deadline
  BY <1>20 DEF Deadline
<1>21. CASE ChildEnds
  BY <1>21 DEF ChildEnds, ChildGone
<1>22. CASE Kill
  BY <1>22 DEF Kill, ChildGone
<1>25. CASE PipesClosed
  BY <1>25 DEF PipesClosed
<1>23. CASE Exited
  BY <1>23 DEF Exited, vars
<1>24. CASE UNCHANGED vars
  BY <1>24 DEF vars
<1> QED
  BY <1>1, <1>2, <1>3, <1>4, <1>5, <1>6, <1>7, <1>8, <1>9, <1>10, <1>11, <1>12, <1>13,
     <1>14, <1>15, <1>16, <1>17, <1>18, <1>19, <1>20, <1>21, <1>22, <1>23, <1>24, <1>25 DEF Next,
     RunnerStep

\* The signal is noticed by the next Start.
LEMMA SignalStep == IInv /\ [Next]_vars => SignalInv'
<1> SUFFICES ASSUME IInv, [Next]_vars PROVE SignalInv'
  OBVIOUS
<1> USE NGroupsAssumption, NCommandsAssumption DEF IInv, TypeOK, FlowInv, SignalInv, Setup,
        Working, Unwind, InGroup, options, loop, groupSt, command, history, logs, Goto
<1>1. CASE NextGroup
  BY <1>1 DEF NextGroup, FirstError
<1>2. CASE Classify
  BY <1>2 DEF Classify
<1>3. CASE Exit
  BY <1>3 DEF Exit
<1>4. CASE ExpandGroup
  BY <1>4 DEF ExpandGroup, GroupCheck
<1>5. CASE ResolveGroupWorkDir
  BY <1>5 DEF ResolveGroupWorkDir
<1>6. CASE PreExpandCommands
  BY <1>6 DEF PreExpandCommands, GroupCheck
<1>7. CASE RunGroupTOCTOUCheck
  BY <1>7 DEF RunGroupTOCTOUCheck, GroupCheck
<1>8. CASE VerifyGroupFiles
  BY <1>8 DEF VerifyGroupFiles, GroupCheck
<1>9. CASE NextCommand
  BY <1>9 DEF NextCommand, MoreCommands, CommandContext
<1>10. CASE Cleanup
  BY <1>10 DEF Cleanup
<1>11. CASE Notify
  BY <1>11 DEF Notify
<1>12. CASE ValidateCommand
  BY <1>12 DEF ValidateCommand, CommandFails
<1>13. CASE EvaluateRisk
  BY <1>13 DEF EvaluateRisk, CommandFails, Log
<1>14. CASE RiskGate
  BY <1>14 DEF RiskGate, CommandFails, Log, Allowed
<1>15. CASE Start
  BY <1>15 DEF Start
<1>16. CASE Fork
  BY <1>16 DEF Fork
<1>17. CASE CheckIdentity
  BY <1>17 DEF CheckIdentity
<1>18. CASE Record
  BY <1>18 DEF Record
<1>19. CASE Signal
  BY <1>19 DEF Signal
<1>20. CASE Deadline
  BY <1>20 DEF Deadline
<1>21. CASE ChildEnds
  BY <1>21 DEF ChildEnds, ChildGone
<1>22. CASE Kill
  BY <1>22 DEF Kill, ChildGone
<1>25. CASE PipesClosed
  BY <1>25 DEF PipesClosed
<1>23. CASE Exited
  BY <1>23 DEF Exited, vars
<1>24. CASE UNCHANGED vars
  BY <1>24 DEF vars
<1> QED
  BY <1>1, <1>2, <1>3, <1>4, <1>5, <1>6, <1>7, <1>8, <1>9, <1>10, <1>11, <1>12, <1>13,
     <1>14, <1>15, <1>16, <1>17, <1>18, <1>19, <1>20, <1>21, <1>22, <1>23, <1>24, <1>25 DEF Next,
     RunnerStep

\* Temporary directories stay with the current group.
LEMMA TempStep == IInv /\ [Next]_vars => TempInv'
<1> SUFFICES ASSUME IInv, [Next]_vars PROVE TempInv'
  OBVIOUS
<1> USE NGroupsAssumption, NCommandsAssumption DEF IInv, TypeOK, FlowInv, TempInv, Setup,
        Working, Unwind, InGroup, Group, options, loop, groupSt, command, history, logs,
        Goto
<1>1. CASE NextGroup
  BY <1>1 DEF NextGroup, FirstError
<1>2. CASE Classify
  BY <1>2 DEF Classify
<1>3. CASE Exit
  BY <1>3 DEF Exit
<1>4. CASE ExpandGroup
  BY <1>4 DEF ExpandGroup, GroupCheck
<1>5. CASE ResolveGroupWorkDir
  BY <1>5 DEF ResolveGroupWorkDir
<1>6. CASE PreExpandCommands
  BY <1>6 DEF PreExpandCommands, GroupCheck
<1>7. CASE RunGroupTOCTOUCheck
  BY <1>7 DEF RunGroupTOCTOUCheck, GroupCheck
<1>8. CASE VerifyGroupFiles
  BY <1>8 DEF VerifyGroupFiles, GroupCheck
<1>9. CASE NextCommand
  BY <1>9 DEF NextCommand, MoreCommands, CommandContext
<1>10. CASE Cleanup
  BY <1>10 DEF Cleanup
<1>11. CASE Notify
  BY <1>11 DEF Notify
<1>12. CASE ValidateCommand
  BY <1>12 DEF ValidateCommand, CommandFails
<1>13. CASE EvaluateRisk
  BY <1>13 DEF EvaluateRisk, CommandFails, Log
<1>14. CASE RiskGate
  BY <1>14 DEF RiskGate, CommandFails, Log, Allowed
<1>15. CASE Start
  BY <1>15 DEF Start
<1>16. CASE Fork
  BY <1>16 DEF Fork
<1>17. CASE CheckIdentity
  BY <1>17 DEF CheckIdentity
<1>18. CASE Record
  BY <1>18 DEF Record
<1>19. CASE Signal
  BY <1>19 DEF Signal
<1>20. CASE Deadline
  BY <1>20 DEF Deadline
<1>21. CASE ChildEnds
  BY <1>21 DEF ChildEnds, ChildGone
<1>22. CASE Kill
  BY <1>22 DEF Kill, ChildGone
<1>25. CASE PipesClosed
  BY <1>25 DEF PipesClosed
<1>23. CASE Exited
  BY <1>23 DEF Exited, vars
<1>24. CASE UNCHANGED vars
  BY <1>24 DEF vars
<1> QED
  BY <1>1, <1>2, <1>3, <1>4, <1>5, <1>6, <1>7, <1>8, <1>9, <1>10, <1>11, <1>12, <1>13,
     <1>14, <1>15, <1>16, <1>17, <1>18, <1>19, <1>20, <1>21, <1>22, <1>23, <1>24, <1>25 DEF Next,
     RunnerStep

\* The reports of the groups dealt with stay true.
LEMMA ReportStep == IInv /\ [Next]_vars => ReportInv'
<1> SUFFICES ASSUME IInv, [Next]_vars PROVE ReportInv'
  OBVIOUS
<1> USE NGroupsAssumption, NCommandsAssumption DEF IInv, TypeOK, FlowInv, SucceededInv,
        ReportInv, Reported, Past, AllSucceeded, Setup, Working, Unwind, InGroup, Group,
        Command, current, options, loop, groupSt, command, history, logs, Goto
<1>1. CASE NextGroup
  BY SMTT(30), <1>1 DEF NextGroup, FirstError
<1>2. CASE Classify
  <2>1. g \in Group /\ notified[g] = result /\ g \notin preExecErrs
    BY <1>2 DEF Classify
  <2>2. \A i \in Group : i <= g /\ i # g => Reported(i)
    BY <2>1
  <2>3. Reported(g)'
    BY <1>2, <2>1 DEF Classify
  <2>4. \A i \in Group : i # g => (i \in preExecErrs' <=> i \in preExecErrs)
    BY <1>2 DEF Classify
  <2>5. \A i \in Group : i <= g => Reported(i)'
    BY <1>2, <2>2, <2>3, <2>4 DEF Classify
  <2> QED
    BY SMTT(30), <1>2, <2>1, <2>4, <2>5 DEF Classify
<1>3. CASE Exit
  BY <1>3 DEF Exit
<1>4. CASE ExpandGroup
  BY <1>4 DEF ExpandGroup, GroupCheck
<1>5. CASE ResolveGroupWorkDir
  BY <1>5 DEF ResolveGroupWorkDir
<1>6. CASE PreExpandCommands
  BY <1>6 DEF PreExpandCommands, GroupCheck
<1>7. CASE RunGroupTOCTOUCheck
  BY <1>7 DEF RunGroupTOCTOUCheck, GroupCheck
<1>8. CASE VerifyGroupFiles
  BY <1>8 DEF VerifyGroupFiles, GroupCheck
<1>9. CASE NextCommand
  <2>1. c = NCommands => AllSucceeded(g)
    BY <1>9 DEF NextCommand
  <2> QED
    BY <1>9, <2>1 DEF NextCommand, MoreCommands
<1>10. CASE Cleanup
  BY <1>10 DEF Cleanup
<1>11. CASE Notify
  BY <1>11 DEF Notify
<1>12. CASE ValidateCommand
  BY <1>12 DEF ValidateCommand, CommandFails
<1>13. CASE EvaluateRisk
  BY <1>13 DEF EvaluateRisk, CommandFails, Log
<1>14. CASE RiskGate
  BY <1>14 DEF RiskGate, CommandFails, Log, Allowed
<1>15. CASE Start
  BY <1>15 DEF Start
<1>16. CASE Fork
  BY <1>16 DEF Fork
<1>17. CASE CheckIdentity
  BY <1>17 DEF CheckIdentity
<1>18. CASE Record
  BY <1>18 DEF Record
<1>19. CASE Signal
  BY <1>19 DEF Signal
<1>20. CASE Deadline
  BY <1>20 DEF Deadline
<1>21. CASE ChildEnds
  BY <1>21 DEF ChildEnds, ChildGone
<1>22. CASE Kill
  BY <1>22 DEF Kill, ChildGone
<1>25. CASE PipesClosed
  BY <1>25 DEF PipesClosed
<1>23. CASE Exited
  BY <1>23 DEF Exited, vars
<1>24. CASE UNCHANGED vars
  BY <1>24 DEF vars
<1> QED
  BY <1>1, <1>2, <1>3, <1>4, <1>5, <1>6, <1>7, <1>8, <1>9, <1>10, <1>11, <1>12, <1>13,
     <1>14, <1>15, <1>16, <1>17, <1>18, <1>19, <1>20, <1>21, <1>22, <1>23, <1>24, <1>25 DEF Next,
     RunnerStep

\* The errors of a run stay those of its groups.
LEMMA ErrorStep == IInv /\ [Next]_vars => ErrorInv'
<1> SUFFICES ASSUME IInv, [Next]_vars PROVE ErrorInv'
  OBVIOUS
<1> USE NGroupsAssumption, NCommandsAssumption DEF IInv, TypeOK, FlowInv, ReportInv,
        ErrorInv, Past, Fine, Setup, Working, Unwind, InGroup, Group, options, loop,
        groupSt, command, history, logs, Goto
<1>1. CASE NextGroup
  <2>1. CASE g = NGroups
    <3>1. groupErrs # <<>> => Head(groupErrs) = "failed"
      BY HeadTailProperties
    <3>2. FirstError = "none" <=> groupErrs = <<>>
      BY <3>1 DEF FirstError
    <3> QED
      BY <1>1, <2>1, <3>2 DEF NextGroup
  <2>2. CASE g < NGroups /\ ctx = "canceled"
    BY <1>1, <2>2 DEF NextGroup
  <2>3. CASE g < NGroups /\ ctx = "active"
    <3>1. \A i \in Group : (i <= g' /\ Past(i)') <=> (i <= g /\ Past(i))
      BY <1>1, <2>3 DEF NextGroup
    <3> QED
      BY <1>1, <2>3, <3>1 DEF NextGroup
  <2> QED
    BY <1>1, <2>1, <2>2, <2>3 DEF NextGroup
<1>2. CASE Classify
  BY <1>2 DEF Classify
<1>3. CASE Exit
  BY <1>3 DEF Exit
<1>4. CASE ExpandGroup
  BY <1>4 DEF ExpandGroup, GroupCheck
<1>5. CASE ResolveGroupWorkDir
  BY <1>5 DEF ResolveGroupWorkDir
<1>6. CASE PreExpandCommands
  BY <1>6 DEF PreExpandCommands, GroupCheck
<1>7. CASE RunGroupTOCTOUCheck
  BY <1>7 DEF RunGroupTOCTOUCheck, GroupCheck
<1>8. CASE VerifyGroupFiles
  BY <1>8 DEF VerifyGroupFiles, GroupCheck
<1>9. CASE NextCommand
  BY <1>9 DEF NextCommand, MoreCommands, CommandContext
<1>10. CASE Cleanup
  BY <1>10 DEF Cleanup
<1>11. CASE Notify
  BY <1>11 DEF Notify
<1>12. CASE ValidateCommand
  BY <1>12 DEF ValidateCommand, CommandFails
<1>13. CASE EvaluateRisk
  BY <1>13 DEF EvaluateRisk, CommandFails, Log
<1>14. CASE RiskGate
  BY <1>14 DEF RiskGate, CommandFails, Log, Allowed
<1>15. CASE Start
  BY <1>15 DEF Start
<1>16. CASE Fork
  BY <1>16 DEF Fork
<1>17. CASE CheckIdentity
  BY <1>17 DEF CheckIdentity
<1>18. CASE Record
  BY <1>18 DEF Record
<1>19. CASE Signal
  BY <1>19 DEF Signal
<1>20. CASE Deadline
  BY <1>20 DEF Deadline
<1>21. CASE ChildEnds
  BY <1>21 DEF ChildEnds, ChildGone
<1>22. CASE Kill
  BY <1>22 DEF Kill, ChildGone
<1>25. CASE PipesClosed
  BY <1>25 DEF PipesClosed
<1>23. CASE Exited
  BY <1>23 DEF Exited, vars
<1>24. CASE UNCHANGED vars
  BY <1>24 DEF vars
<1> QED
  BY <1>1, <1>2, <1>3, <1>4, <1>5, <1>6, <1>7, <1>8, <1>9, <1>10, <1>11, <1>12, <1>13,
     <1>14, <1>15, <1>16, <1>17, <1>18, <1>19, <1>20, <1>21, <1>22, <1>23, <1>24, <1>25 DEF Next,
     RunnerStep

-----------------------------------------------------------------------------
(* The invariants of a run. *)

\* The initial states satisfy the inductive invariant.
LEMMA InitInv == Init => IInv
<1> SUFFICES ASSUME Init PROVE IInv
  OBVIOUS
<1> USE NGroupsAssumption, NCommandsAssumption DEF Init
<1>1. TypeOK
  <2>1. <<>> \in Seq({"failed"}) /\ <<>> \in Seq(Command) /\ <<>> \in Seq({"allow", "deny"})
    BY EmptySeq
  <2>2. audit \in [Command -> Seq({"allow", "deny"})] /\ notified \in [Group -> {"none", "success", "error"}]
    BY <2>1
  <2>3. pc \in PCs /\ g \in 0 .. NGroups /\ c \in 0 .. NCommands
    BY DEF PCs
  <2> HIDE NGroupsAssumption, NCommandsAssumption
  <2> QED
    BY <2>1, <2>2, <2>3 DEF TypeOK, Errors
<1>2. FlowInv /\ SignalInv /\ TempInv
  BY DEF FlowInv, SignalInv, TempInv, Setup, Working, Unwind, InGroup
<1>3. AuditInv /\ StartedInv /\ SucceededInv
  BY DEF AuditInv, StartedInv, SucceededInv, Working
<1>4. \A i \in Group : i > g /\ ~(i <= g)
  BY DEF Group
<1>5. ReportInv /\ ErrorInv
  BY <1>4 DEF ReportInv, ErrorInv, Setup, Working, Unwind, InGroup
<1> QED
  BY <1>1, <1>2, <1>3, <1>5 DEF IInv

\* The inductive invariant holds in every reachable state.
LEMMA Inductive == Spec => []IInv
<1>1. IInv /\ [Next]_vars => IInv'
  BY TypeStep, FlowStep, AuditStep, StartedStep, SucceededStep, SignalStep, TempStep,
     ReportStep, ErrorStep DEF IInv
<1> QED
  BY InitInv, <1>1, PTL DEF Spec

\* Type correctness of the runner.
THEOREM TypeCorrect == Spec => []TypeOK
<1>1. IInv => TypeOK
  BY DEF IInv
<1> QED
  BY <1>1, Inductive, PTL

\* No command starts without the verification of its group and exactly one
\* audited allow, and it keeps its descriptor (ExecuteCommand).
THEOREM GateTheorem == Spec => []StartsGated
<1>1. IInv => StartsGated
  <2> SUFFICES ASSUME IInv PROVE StartsGated
    OBVIOUS
  <2>1. \A x \in Started : x[1] \in verified /\ audit[x] = <<"allow">>
    <3> SUFFICES ASSUME NEW i \in 1 .. Len(started)
                 PROVE  started[i][1] \in verified /\ audit[started[i]] = <<"allow">>
      BY DEF Started
    <3> QED
      BY DEF IInv, StartedInv
  <2>2. child # "none" => plan = "bound" /\ started[Len(started)] = current
    BY DEF IInv, FlowInv, StartedInv
  <2>3. \A x \in Command : Len(audit[x]) <= 1
    BY DEF IInv, AuditInv
  <2>4. pc \in {"record", "identity"} /\ plan # "none" => Len(audit[current]) = 1
    <3>1. Len(<<"allow">>) = 1
      OBVIOUS
    <3> QED
      BY <3>1 DEF IInv, AuditInv
  <2> QED
    BY <2>1, <2>2, <2>3, <2>4 DEF StartsGated
<1> QED
  BY <1>1, Inductive, PTL

\* Commands start in configuration order, each after all earlier ones of its
\* group succeeded (executeAllCommands).
THEOREM OrderTheorem == Spec => []CommandsInOrder
<1>1. IInv => CommandsInOrder
  <2> SUFFICES ASSUME IInv PROVE CommandsInOrder
    OBVIOUS
  <2>1. \A i, j \in 1 .. Len(started) :
           i < j => \/ started[i][1] < started[j][1]
                    \/ started[i][1] = started[j][1] /\ started[i][2] < started[j][2]
    BY DEF IInv, StartedInv
  <2>2. \A x \in Started, k \in 1 .. NCommands : k < x[2] => <<x[1], k>> \in succeeded
    BY DEF IInv, SucceededInv, Started
  <2> QED
    BY <2>1, <2>2 DEF CommandsInOrder
<1> QED
  BY <1>1, Inductive, PTL

\* After a signal at most one command still starts.
THEOREM SignalTheorem == Spec => []SignalStopsRun
<1>1. IInv => SignalStopsRun
  BY DEF IInv, SignalInv, SignalStopsRun
<1> QED
  BY <1>1, Inductive, PTL

\* Neither a plan nor a temporary directory outlives its owner.
THEOREM LeakTheorem == Spec => []NothingLeaks
<1>1. IInv => NothingLeaks
  BY DEF IInv, FlowInv, TempInv, Working, NothingLeaks
<1> QED
  BY <1>1, Inductive, PTL

\* The reports tell what became of each group.
THEOREM ReportTheorem == Spec => []ReportsTellOutcome
<1>1. IInv => ReportsTellOutcome
  <2> SUFFICES ASSUME IInv, pc \in {"next", "exit"}, NEW i \in 1 .. g
               PROVE  /\ notified[i] = "success" <=> i \in verified /\ AllSucceeded(i)
                      /\ notified[i] = "error" <=> i \in verified /\ ~AllSucceeded(i)
                      /\ i \in preExecErrs => i \notin verified /\ \A x \in Started : x[1] # i
    BY DEF ReportsTellOutcome
  <2>1. i \in Group /\ i <= g
    BY NGroupsAssumption DEF IInv, TypeOK, Group
  <2>2. Reported(i)
    BY <2>1 DEF IInv, ReportInv, Past
  <2>3. \A x \in Started : x[1] \in verified
    BY DEF IInv, StartedInv, Started
  <2> QED
    BY <2>2, <2>3 DEF Reported
<1> QED
  BY <1>1, Inductive, PTL

-----------------------------------------------------------------------------
(* CommandRunner implements GroupSequence. *)

\* The groups whose outcome is decided, and what it is.
LEMMA OutcomeOf ==
  ASSUME IInv, NEW i \in Group
  PROVE  /\ i > g => outcome[i] = "pending"
         /\ i = g /\ ~Past(i) => outcome[i] = "running"
         /\ i <= g /\ Past(i) => /\ outcome[i] \in Abstract!Ended
                                 /\ outcome[i] \in {"completed", "unverified"} <=> Fine(i)
<1>1. g \in Nat /\ i \in Nat
  BY NGroupsAssumption DEF IInv, TypeOK, Group
<1>2. i > g => outcome[i] = "pending"
  BY DEF outcome
<1>3. i = g /\ ~Past(i) => outcome[i] = "running"
  BY <1>1 DEF outcome, Past
<1>4. i <= g /\ Past(i) => /\ outcome[i] \in Abstract!Ended
                           /\ outcome[i] \in {"completed", "unverified"} <=> Fine(i)
  BY <1>1 DEF outcome, Past, Fine, Abstract!Ended
<1> QED
  BY <1>2, <1>3, <1>4

\* A step that moves neither g nor Past, and changes the reports of none of
\* the groups dealt with, leaves the outcomes alone.
LEMMA SameOutcome ==
  ASSUME IInv, g' = g, pc \in {"next", "exit", "exited"} <=> pc' \in {"next", "exit", "exited"},
         \A i \in Group : i <= g /\ Past(i) =>
            /\ notified'[i] = notified[i]
            /\ i \in preExecErrs' <=> i \in preExecErrs
  PROVE  outcome' = outcome
BY NGroupsAssumption DEF IInv, TypeOK, outcome, Past, Group

\* The initial states of the runner are initial states of GroupSequence.
LEMMA RefinesInit == Init => Abstract!Init
BY NGroupsAssumption DEF Init, Abstract!Init, Abstract!Group, outcome, Group

\* NextGroup begins the next group, or leaves the groups as they are.
LEMMA NextGroupRefines ==
  ASSUME IInv, IInv', NextGroup
  PROVE  [Abstract!Next]_<<outcome, exitCode>>
<1>1. CASE UNCHANGED groupSt /\ pc' = "exit"
  BY <1>1, SameOutcome DEF NextGroup, groupSt
<1>2. CASE g < NGroups /\ g' = g + 1 /\ pc' = "expand"
  <2>1. g' \in Group /\ g' \in Abstract!Group /\ Abstract!Group = Group
    BY <1>2, NGroupsAssumption DEF IInv, TypeOK, Group, Abstract!Group
  <2>2. outcome[g'] = "pending"
    <3>1. g' > g
      BY <1>2, NGroupsAssumption DEF IInv, TypeOK
    <3> QED
      BY <2>1, <3>1, OutcomeOf
  <2>3. \A h \in 1 .. g' - 1 : outcome[h] \in Abstract!Ended
    <3> SUFFICES ASSUME NEW h \in 1 .. g' - 1 PROVE outcome[h] \in Abstract!Ended
      OBVIOUS
    <3>1. h \in Group /\ h <= g /\ Past(h)
      BY <1>2, NGroupsAssumption DEF NextGroup, Past, IInv, TypeOK, Group
    <3> QED
      BY <3>1, OutcomeOf
  <2>4. outcome' = [outcome EXCEPT ![g'] = "running"]
    <3>1. outcome = [i \in Group |-> outcome[i]] /\ outcome' = [i \in Group |-> outcome'[i]]
      BY DEF outcome
    <3>2. outcome'[g'] = "running"
      BY <1>2, <2>1 DEF outcome, IInv, TypeOK
    <3>3. ASSUME NEW i \in Group, i # g' PROVE outcome'[i] = outcome[i]
      <4>1. UNCHANGED <<preExecErrs, notified>> /\ pc = "next" /\ g \in Nat /\ i \in Nat
        BY <1>2, NGroupsAssumption DEF NextGroup, groupSt, IInv, TypeOK, Group
      <4>2. i > g' <=> i > g
        BY <1>2, <3>3, <4>1
      <4> QED
        BY <1>2, <3>3, <4>1, <4>2 DEF outcome
    <3> QED
      BY <2>1, <3>1, <3>2, <3>3
  <2>5. exitCode = -1 /\ UNCHANGED exitCode
    BY DEF NextGroup, IInv, FlowInv
  <2>6. Abstract!Begin(g')
    BY <2>2, <2>3, <2>4, <2>5 DEF Abstract!Begin
  <2> QED
    BY <2>1, <2>6 DEF Abstract!Next
<1> QED
  BY <1>1, <1>2 DEF NextGroup, groupSt, Goto

\* Classify ends the group.
LEMMA ClassifyRefines ==
  ASSUME IInv, IInv', Classify
  PROVE  [Abstract!Next]_<<outcome, exitCode>>
<1>1. g \in Group /\ g \in Abstract!Group /\ g' = g
  BY DEF Classify, groupSt, IInv, FlowInv, InGroup, Unwind, Group, Abstract!Group
<1>2. pc = "classify" /\ pc' \in {"next", "exit"}
  BY DEF Classify, Goto
<1>3. outcome[g] = "running"
  BY <1>1, <1>2, OutcomeOf DEF Past, IInv, TypeOK
<1>4. outcome'[g] \in Abstract!Ended
  BY <1>1, <1>2 DEF outcome, Abstract!Ended, IInv, TypeOK, Group
<1>5. ASSUME NEW i \in Group, i # g PROVE outcome'[i] = outcome[i]
  <2>1. notified'[i] = notified[i] /\ (i \in preExecErrs' <=> i \in preExecErrs)
    BY <1>5 DEF Classify, groupSt
  <2> QED
    BY <1>1, <1>2, <1>5, <2>1 DEF outcome
<1>6. outcome' = [outcome EXCEPT ![g] = outcome'[g]]
  <2>1. outcome = [i \in Group |-> outcome[i]] /\ outcome' = [i \in Group |-> outcome'[i]]
    BY DEF outcome
  <2> QED
    BY <1>1, <1>5, <2>1
<1>7. exitCode = -1 /\ UNCHANGED exitCode
  BY DEF Classify, IInv, FlowInv
<1>8. Abstract!End(g)
  BY <1>3, <1>4, <1>6, <1>7 DEF Abstract!End
<1> QED
  BY <1>1, <1>8 DEF Abstract!Next

\* Exit ends the run with the exit code the outcomes call for.
LEMMA ExitRefines ==
  ASSUME IInv, Exit
  PROVE  [Abstract!Next]_<<outcome, exitCode>>
<1>1. UNCHANGED outcome
  BY SameOutcome DEF Exit, groupSt, Goto
<1>2. Abstract!AllWell <=> runErr = "none"
  <2>1. \A i \in Group : i <= g => (outcome[i] \in {"completed", "unverified"} <=> Fine(i))
    BY OutcomeOf DEF Exit, Past
  <2>2. \A i \in Group : i > g => outcome[i] = "pending"
    BY OutcomeOf
  <2>3. g \in 0 .. NGroups /\ \A i \in Group : i <= g \/ i > g
    BY NGroupsAssumption DEF IInv, TypeOK, Group
  <2>4. g = NGroups <=> \A i \in Group : i <= g
    BY <2>3, NGroupsAssumption DEF Group
  <2> QED
    BY <2>1, <2>2, <2>3, <2>4
    DEF Exit, IInv, ErrorInv, Abstract!AllWell, Abstract!Group, Group
<1>3. exitCode = -1 /\ exitCode' = IF Abstract!AllWell THEN 0 ELSE 1
  BY <1>2 DEF Exit, IInv, FlowInv
<1> QED
  BY <1>1, <1>3 DEF Abstract!Next, Abstract!Exit

\* A failed identity check ends the run in the middle of a group.
LEMMA CheckIdentityRefines ==
  ASSUME IInv, CheckIdentity
  PROVE  [Abstract!Next]_<<outcome, exitCode>>
<1>1. UNCHANGED outcome
  BY SameOutcome DEF CheckIdentity, groupSt, Goto
<1>2. g \in Group /\ outcome[g] = "running"
  <2>1. g \in Group
    BY DEF CheckIdentity, IInv, FlowInv, InGroup, Working
  <2> QED
    BY <2>1, OutcomeOf, NGroupsAssumption DEF CheckIdentity, Past, IInv, TypeOK
<1>3. ~Abstract!AllWell
  BY <1>2 DEF Abstract!AllWell, Abstract!Group, Group
<1>4. exitCode = -1 /\ exitCode' \in {-1, 1}
  BY DEF CheckIdentity, IInv, FlowInv
<1> QED
  BY <1>1, <1>3, <1>4 DEF Abstract!Next, Abstract!Exit

\* Every step of the runner is a step of GroupSequence or leaves it alone.
LEMMA RefinesStep == IInv /\ IInv' /\ [Next]_vars => [Abstract!Next]_<<outcome, exitCode>>
<1> SUFFICES ASSUME IInv, IInv', [Next]_vars PROVE [Abstract!Next]_<<outcome, exitCode>>
  OBVIOUS
<1>1. CASE NextGroup
  BY <1>1, NextGroupRefines
<1>2. CASE Classify
  BY <1>2, ClassifyRefines
<1>3. CASE Exit
  BY <1>3, ExitRefines
<1>4. CASE CheckIdentity
  BY <1>4, CheckIdentityRefines
<1>5. CASE Notify
  <2>1. \A i \in Group : i <= g /\ Past(i) => notified'[i] = notified[i]
    BY <1>5 DEF Notify, Past, IInv, TypeOK
  <2> QED
    BY <1>5, <2>1, SameOutcome DEF Notify, Goto, loop
<1>6. CASE UNCHANGED vars \/ Exited
  BY <1>6, SameOutcome DEF vars, Exited
<1> USE SameOutcome DEF Goto, groupSt, loop
<1>7. CASE ExpandGroup \/ PreExpandCommands \/ RunGroupTOCTOUCheck \/ VerifyGroupFiles
  BY <1>7 DEF ExpandGroup, PreExpandCommands, RunGroupTOCTOUCheck, VerifyGroupFiles,
     GroupCheck
<1>8. CASE ResolveGroupWorkDir
  BY <1>8 DEF ResolveGroupWorkDir
<1>9. CASE NextCommand
  BY <1>9 DEF NextCommand
<1>10. CASE Cleanup
  BY <1>10 DEF Cleanup
<1>11. CASE ValidateCommand \/ EvaluateRisk \/ RiskGate
  BY <1>11 DEF ValidateCommand, EvaluateRisk, RiskGate, CommandFails
<1>12. CASE Start \/ Fork
  BY <1>12 DEF Start, Fork
<1>13. CASE ChildEnds \/ Kill \/ PipesClosed
  BY <1>13 DEF ChildEnds, ChildGone, Kill, PipesClosed
<1>14. CASE Record
  BY <1>14 DEF Record
<1>15. CASE Signal \/ Deadline
  BY <1>15 DEF Signal, Deadline
<1> QED
  BY <1>1, <1>2, <1>3, <1>4, <1>5, <1>6, <1>7, <1>8, <1>9, <1>10, <1>11, <1>12, <1>13,
     <1>14,
     <1>15 DEF Next, RunnerStep

\* The runner implements GroupSequence: groups in order, one at a time, and
\* exit code 0 exactly when every group completed or was skipped for a failed
\* verification.
THEOREM RefinementTheorem == Spec => ImplementsGroupSequence
<1>1. Spec => []IInv
  BY Inductive
<1> QED
  BY <1>1, RefinesInit, RefinesStep, PTL DEF Spec, ImplementsGroupSequence, Abstract!Spec
=============================================================================
