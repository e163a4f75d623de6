----------------------------- MODULE CommandRunner -----------------------------
(***************************************************************************)
(* A run of the configured groups in normal mode: executeRunner            *)
(* (cmd/runner/main.go), Runner.executeGroups (internal/runner/runner.go),  *)
(* DefaultGroupExecutor (internal/runner/group_executor.go),               *)
(* NormalResourceManager.ExecuteCommand with its risk gate                 *)
(* (internal/runner/resource/normal_manager.go) and the way os/exec ends a *)
(* command whose context is done.                                          *)
(*                                                                         *)
(* The runner is one goroutine; a signal, the timer of the command's       *)
(* context and the child process run beside it.  Whether a check passes is *)
(* the choice of the step that makes it.  A command is the pair of its     *)
(* group and its index in the group.                                       *)
(***************************************************************************)
EXTENDS Integers, Sequences, FiniteSets

CONSTANTS
    NGroups,    \* number of selected groups
    NCommands   \* number of commands of each group

ASSUME NGroupsAssumption == NGroups \in Nat
ASSUME NCommandsAssumption == NCommands \in Nat

VARIABLES
    timeouts,    \* every command has a timeout (else none has)
    keepTempDirs,\* the flag --keep-temp-dirs
    ctx,         \* the context of run: "active" or "canceled" by a signal
    pc, g, c,    \* next step, current group and command
    groupErr,    \* error ExecuteGroup is about to return
    groupErrs,   \* groupErrs of executeGroups
    runErr,      \* error of Runner.Execute
    tempDirs,    \* groups whose temporary directory exists
    workDir,     \* "temp" when the current group has a tempDirMgr
    verified,    \* groups whose files were verified and paths pinned
    result,      \* executionResult of the current group
    cmdCtx,      \* context of the current command
    plan,        \* VerifiedCommandPlan: "none", "unbound", "bound" to a descriptor
    child,       \* "none", "running" or "held": ended, a descendant has its pipes
    cmdErr,      \* error of the current command
    exitCode,    \* -1 while the process runs
    audit,       \* per command: risk decisions logged, in order
    started,     \* history: commands started, in order
    succeeded,   \* history: commands that ended without an error
    afterSignal, \* history: commands started after the signal
    timeoutLog,  \* commands LogTimeoutExceeded was called for
    notified,    \* per group: status of its summary notification
    preExecErrs, \* groups reported by HandlePreExecutionError
    cleanupLost  \* history: some temporary directory could not be removed

vars == <<timeouts, keepTempDirs, ctx, pc, g, c, groupErr, groupErrs, runErr,
          tempDirs, workDir, verified, result, cmdCtx, plan, child, cmdErr, exitCode,
          audit, started, succeeded, afterSignal, timeoutLog, notified,
          preExecErrs, cleanupLost>>

options == <<timeouts, keepTempDirs>>
loop    == <<groupErrs, runErr, exitCode, preExecErrs>>
groupSt == <<g, groupErr, tempDirs, workDir, verified, result, notified, cleanupLost>>
command == <<c, cmdCtx, plan, child, cmdErr>>
history == <<started, succeeded, afterSignal>>
logs    == <<audit, timeoutLog>>

Group   == 1 .. NGroups
Command == Group \X (1 .. NCommands)
current == <<g, c>>

PCs == {"next", "expand", "workdir", "preexpand", "toctou", "verify", "commands",
        "validate", "evaluate", "gate", "start", "fork", "wait", "identity", "record",
        "cleanup", "notify", "classify", "exit", "exited", "aborted"}

\* The kinds of error the callers tell apart: "failed" is any other one.
Errors == {"none", "failed", "verification", "canceled", "deadline"}

Init ==
    /\ timeouts \in BOOLEAN /\ keepTempDirs \in BOOLEAN
    /\ ctx = "active" /\ pc = "next" /\ g = 0 /\ c = 0
    /\ groupErr = "none" /\ groupErrs = <<>> /\ runErr = "none"
    /\ tempDirs = {} /\ workDir = "fixed" /\ verified = {} /\ result = "none"
    /\ cmdCtx = "none" /\ plan = "none" /\ child = "none" /\ cmdErr = "none"
    /\ exitCode = -1
    /\ audit = [x \in Command |-> <<>>]
    /\ started = <<>> /\ succeeded = {} /\ afterSignal = 0
    /\ timeoutLog = {}
    /\ notified = [i \in Group |-> "none"]
    /\ preExecErrs = {} /\ cleanupLost = FALSE

-----------------------------------------------------------------------------
(* The world outside the runner's goroutine. *)

\* SIGINT or SIGTERM: NotifyContext cancels the context of run and every
\* context derived from it.
Signal ==
    /\ ctx = "active" /\ exitCode = -1
    /\ ctx' = "canceled"
    /\ cmdCtx' = IF cmdCtx = "active" THEN "canceled" ELSE cmdCtx
    /\ UNCHANGED <<options, pc, loop, groupSt, c, plan, child, cmdErr, history, logs>>

\* The timer of context.WithTimeout.
Deadline ==
    /\ timeouts /\ cmdCtx = "active" /\ exitCode = -1
    /\ cmdCtx' = "deadline"
    /\ UNCHANGED <<options, ctx, pc, loop, groupSt, c, plan, child, cmdErr, history, logs>>

-----------------------------------------------------------------------------
(* Runner.executeGroups. *)

Goto(label) == pc' = label

\* Mutant: the error of the last group is returned.
BugFirstError == groupErr
FirstError == IF groupErrs = <<>> THEN "none" ELSE Head(groupErrs)

NextGroup ==
    /\ pc = "next"
    /\ \/ /\ g = NGroups
          /\ runErr' = FirstError
          /\ Goto("exit") /\ UNCHANGED <<groupSt, c>>
       \/ /\ g < NGroups /\ ctx = "canceled"
          /\ runErr' = "canceled"
          /\ Goto("exit") /\ UNCHANGED <<groupSt, c>>
       \/ /\ g < NGroups /\ ctx = "active"
          /\ g' = g + 1 /\ c' = 0
          /\ groupErr' = "none" /\ workDir' = "fixed" /\ result' = "none"
          /\ Goto("expand")
          /\ UNCHANGED <<runErr, tempDirs, verified, notified, cleanupLost>>
    /\ UNCHANGED <<options, ctx, groupErrs, exitCode, preExecErrs,
                   cmdCtx, plan, child, cmdErr, history, logs>>

\* What executeGroups makes of the error of ExecuteGroup.
Classify ==
    /\ pc = "classify"
    /\ \/ /\ groupErr \in {"canceled", "deadline"}
          /\ runErr' = groupErr /\ Goto("exit")
          /\ UNCHANGED <<groupErrs, preExecErrs>>
       \/ /\ groupErr = "verification"
          /\ preExecErrs' = preExecErrs \cup {g} /\ Goto("next")
          /\ UNCHANGED <<groupErrs, runErr>>
       \/ /\ groupErr = "failed"
          /\ groupErrs' = Append(groupErrs, groupErr) /\ Goto("next")
          /\ UNCHANGED <<runErr, preExecErrs>>
       \/ /\ groupErr = "none" /\ Goto("next")
          /\ UNCHANGED <<groupErrs, runErr, preExecErrs>>
    /\ UNCHANGED <<options, ctx, groupSt, command, exitCode, history, logs>>

\* executeRunner returns and main exits.  CleanupAllResources has nothing to
\* remove: no group's directory is registered with the resource manager.
Exit ==
    /\ pc = "exit" /\ Goto("exited")
    /\ exitCode' = IF runErr = "none" THEN 0 ELSE 1
    /\ UNCHANGED <<options, ctx, groupErrs, runErr, preExecErrs, groupSt, command, history, logs>>

-----------------------------------------------------------------------------
(* DefaultGroupExecutor.ExecuteGroup. *)

\* A check of ExecuteGroup at label: on success it goes on at ok, a failure
\* unwinds the deferred functions registered so far, from failed on.
GroupCheck(label, ok, failed, errors) ==
    /\ pc = label
    /\ \/ Goto(ok) /\ UNCHANGED groupErr
       \/ Goto(failed) /\ groupErr' \in errors
    /\ UNCHANGED <<options, ctx, loop, g, tempDirs, workDir, result, notified,
                   cleanupLost, command, history, logs>>

ExpandGroup == GroupCheck("expand", "workdir", "classify", {"failed"}) /\ UNCHANGED verified

\* resolveGroupWorkDir: a fixed directory, or a temporary one.
ResolveGroupWorkDir ==
    /\ pc = "workdir"
    /\ \/ /\ Goto("preexpand") /\ workDir' = "fixed"
          /\ UNCHANGED <<groupErr, tempDirs>>
       \/ /\ Goto("preexpand") /\ workDir' = "temp"
          /\ tempDirs' = tempDirs \cup {g}
          /\ UNCHANGED groupErr
       \/ /\ Goto("notify") /\ groupErr' = "failed"
          /\ UNCHANGED <<tempDirs, workDir>>
    /\ UNCHANGED <<options, ctx, loop, g, verified, result, notified, cleanupLost,
                   command, history, logs>>

PreExpandCommands ==
    GroupCheck("preexpand", "toctou", "cleanup", {"failed"}) /\ UNCHANGED verified

RunGroupTOCTOUCheck ==
    GroupCheck("toctou", "verify", "cleanup", {"failed"}) /\ UNCHANGED verified

\* verifyGroupFiles: VerifyGroupFiles reports a verification.Error; the hash
\* directory, path resolution, the dynamic libraries and the interpreter of a
\* script fail with other errors.
VerifyGroupFiles ==
    /\ GroupCheck("verify", "commands", "cleanup", {"verification", "failed"})
    /\ verified' = IF groupErr' = "none" THEN verified \cup {g} ELSE verified

\* Mutant: one command too many.
BugMoreCommands == c <= NCommands
MoreCommands == c < NCommands

\* Mutant: the command's context is derived from context.Background().
BugCommandContext == "active"
\* createCommandContext: derived from the context of run.
CommandContext == ctx

\* executeAllCommands: the next command, or success.
NextCommand ==
    /\ pc = "commands"
    /\ \/ /\ c = NCommands
          /\ result' = "success" /\ Goto("cleanup")
          /\ UNCHANGED <<c, cmdCtx>>
       \/ /\ MoreCommands
          /\ c' = c + 1 /\ cmdCtx' = CommandContext
          /\ Goto("validate") /\ UNCHANGED result
    /\ UNCHANGED <<options, ctx, loop, g, groupErr, tempDirs, workDir, verified, notified,
                   cleanupLost, plan, child, cmdErr, history, logs>>

\* Mutant: the directory is removed when the group succeeded.
BugCleanup ==
    /\ pc = "cleanup" /\ Goto("notify")
    /\ tempDirs' = IF result = "success" /\ ~keepTempDirs THEN tempDirs \ {g} ELSE tempDirs
    /\ UNCHANGED <<cleanupLost, options, ctx, loop, g, groupErr, workDir, verified, result,
                   notified, command, history, logs>>

\* The deferred tempDirMgr.Cleanup; its failure is a warning.
Cleanup ==
    /\ pc = "cleanup" /\ Goto("notify")
    /\ \/ /\ workDir = "temp" /\ ~keepTempDirs
          /\ \/ tempDirs' = tempDirs \ {g} /\ UNCHANGED cleanupLost
             \/ cleanupLost' = TRUE /\ UNCHANGED tempDirs
       \/ (workDir = "fixed" \/ keepTempDirs) /\ UNCHANGED <<tempDirs, cleanupLost>>
    /\ UNCHANGED <<options, ctx, loop, g, groupErr, workDir, verified, result, notified,
                   command, history, logs>>

\* Mutant: a group without a result is reported as failed.
BugNotify ==
    /\ pc = "notify" /\ Goto("classify")
    /\ notified' = [notified EXCEPT ![g] = IF result = "none" THEN "error" ELSE result]
    /\ UNCHANGED <<options, ctx, loop, g, groupErr, tempDirs, workDir, verified, result,
                   cleanupLost, command, history, logs>>

\* The deferred notification: logGroupExecutionSummary when there is a result.
Notify ==
    /\ pc = "notify" /\ Goto("classify")
    /\ notified' = IF result = "none" THEN notified ELSE [notified EXCEPT ![g] = result]
    /\ UNCHANGED <<options, ctx, loop, g, groupErr, tempDirs, workDir, verified, result,
                   cleanupLost, command, history, logs>>

-----------------------------------------------------------------------------
(* executeCommandInGroup and NormalResourceManager.ExecuteCommand. *)

CommandFails(e) == cmdErr' = e /\ Goto("record")

\* Environment, allow list and output path, then validateCommand and
\* validateCommandGroup.
ValidateCommand ==
    /\ pc = "validate"
    /\ \/ Goto("evaluate") /\ UNCHANGED cmdErr
       \/ CommandFails("failed")
    /\ UNCHANGED <<options, ctx, loop, groupSt, c, cmdCtx, plan, child, history, logs>>

Log(decision) == audit' = [audit EXCEPT ![current] = Append(@, decision)]

\* EvaluateRisk: an internal error is audited as a deny; a plan that may be
\* allowed holds the descriptor openVerifiedIdentity opened and hashed.
EvaluateRisk ==
    /\ pc = "evaluate"
    /\ \/ Log("deny") /\ CommandFails("failed") /\ UNCHANGED plan
       \/ plan' \in {"unbound", "bound"} /\ Goto("gate") /\ UNCHANGED <<audit, cmdErr>>
    /\ UNCHANGED <<options, ctx, loop, groupSt, c, cmdCtx, child, history, timeoutLog>>

\* Mutant: the level alone decides, a blocking assessment does not.
BugAllowed == plan # "none"
\* The plans the gate may let through: neither blocking nor Critical, which
\* are the plans without a descriptor.
Allowed == plan = "bound"

\* The risk gate: a bad risk_level, a blocking assessment or a level above the
\* allowed one denies; every decision is audited.
RiskGate ==
    /\ pc = "gate"
    /\ \/ Log("deny") /\ CommandFails("failed")
       \/ Allowed /\ Log("allow") /\ Goto("start") /\ UNCHANGED cmdErr
    /\ UNCHANGED <<options, ctx, loop, groupSt, c, cmdCtx, plan, child, history, timeoutLog>>

\* Mutant: Start does not look at the context.
BugStart ==
    /\ pc = "start"
    /\ \/ Goto("fork") /\ UNCHANGED cmdErr
       \/ Goto("identity") /\ cmdErr' = "failed"
    /\ UNCHANGED <<options, ctx, loop, groupSt, c, cmdCtx, plan, child, history, logs>>

\* Output preparation, validation, run-as identity, elevation and staging may
\* fail; exec.Cmd.Start refuses a context that is done.
Start ==
    /\ pc = "start"
    /\ \/ cmdCtx = "active" /\ Goto("fork") /\ UNCHANGED cmdErr
       \/ cmdCtx # "active" /\ Goto("identity") /\ cmdErr' = cmdCtx
       \/ Goto("identity") /\ cmdErr' = "failed"
    /\ UNCHANGED <<options, ctx, loop, groupSt, c, cmdCtx, plan, child, history, logs>>

\* ... and then creates the process, if the kernel lets it.
Fork ==
    /\ pc = "fork"
    /\ \/ /\ child' = "running" /\ Goto("wait")
          /\ started' = Append(started, current)
          /\ afterSignal' = IF ctx = "canceled" THEN afterSignal + 1 ELSE afterSignal
          /\ UNCHANGED cmdErr
       \/ /\ Goto("identity") /\ cmdErr' = "failed"
          /\ UNCHANGED <<child, started, afterSignal>>
    /\ UNCHANGED <<options, ctx, loop, groupSt, c, cmdCtx, plan, succeeded, logs>>

\* The child is gone; Wait has its error, and the pipes may still be held.
ChildGone(e) ==
    /\ cmdErr' = e
    /\ \/ child' = "none" /\ Goto("identity")
       \/ child' = "held" /\ UNCHANGED pc

\* The child ends by itself.  When it succeeds just as the context is done,
\* Wait returns the error of the context.
ChildEnds ==
    /\ pc = "wait" /\ child = "running"
    /\ \/ \E e \in {"none", "failed"} : ChildGone(e)
       \/ cmdCtx # "active" /\ ChildGone(cmdCtx)
    /\ UNCHANGED <<options, ctx, loop, groupSt, c, cmdCtx, plan, history, logs>>

\* os/exec kills the child of a context that is done; Wait returns the
\* ExitError of the signal, not the error of the context.
Kill ==
    /\ pc = "wait" /\ child = "running" /\ cmdCtx # "active"
    /\ ChildGone("failed")
    /\ UNCHANGED <<options, ctx, loop, groupSt, c, cmdCtx, plan, history, logs>>

\* The last process that has the pipes closes them, and Wait returns.  What
\* becomes of the context in the meantime does not matter any more.
PipesClosed ==
    /\ pc = "wait" /\ child = "held"
    /\ child' = "none" /\ Goto("identity")
    /\ UNCHANGED <<options, ctx, loop, groupSt, c, cmdCtx, plan, cmdErr, history, logs>>

\* The identity check of DefaultExecutor.Execute: os.Exit runs no deferred
\* function.  FinalizeOutput may still fail a command that succeeded.
CheckIdentity ==
    /\ pc = "identity"
    /\ \/ Goto("record") /\ UNCHANGED <<cmdErr, exitCode>>
       \/ Goto("record") /\ cmdErr = "none" /\ cmdErr' = "failed" /\ UNCHANGED exitCode
       \/ Goto("aborted") /\ exitCode' = 1 /\ UNCHANGED cmdErr
    /\ UNCHANGED <<options, ctx, groupErrs, runErr, preExecErrs, groupSt, c, cmdCtx, plan,
                   child, history, logs>>

\* Mutant: the group goes on after a failed command.
BugRecord ==
    /\ pc = "record"
    /\ plan' = "none" /\ cmdCtx' = "none" /\ cmdErr' = "none"
    /\ succeeded' = IF cmdErr = "none" THEN succeeded \cup {current} ELSE succeeded
    /\ groupErr' = IF cmdErr = "none" THEN groupErr ELSE cmdErr
    /\ Goto("commands")
    /\ UNCHANGED <<result, timeoutLog, options, ctx, loop, g, tempDirs, workDir, verified,
                   notified, cleanupLost, c, child, started, afterSignal, audit>>

\* The deferred plan.Close, the timeout log and the deferred cancel of
\* executeSingleCommand; executeAllCommands stops at the first error.
Record ==
    /\ pc = "record"
    /\ plan' = "none" /\ cmdCtx' = "none" /\ cmdErr' = "none"
    /\ timeoutLog' = IF cmdErr = "deadline" THEN timeoutLog \cup {current} ELSE timeoutLog
    /\ \/ /\ cmdErr = "none" /\ Goto("commands")
          /\ succeeded' = succeeded \cup {current}
          /\ UNCHANGED <<result, groupErr>>
       \/ /\ cmdErr # "none" /\ Goto("cleanup")
          /\ result' = "error" /\ groupErr' = cmdErr
          /\ UNCHANGED succeeded
    /\ UNCHANGED <<options, ctx, loop, g, tempDirs, workDir, verified, notified, cleanupLost,
                   c, child, started, afterSignal, audit>>

-----------------------------------------------------------------------------

Exited == pc \in {"exited", "aborted"} /\ UNCHANGED vars

RunnerStep ==
    \/ NextGroup \/ Classify \/ Exit
    \/ ExpandGroup \/ ResolveGroupWorkDir \/ PreExpandCommands \/ RunGroupTOCTOUCheck
    \/ VerifyGroupFiles \/ NextCommand \/ Cleanup \/ Notify
    \/ ValidateCommand \/ EvaluateRisk \/ RiskGate \/ Start \/ Fork
    \/ CheckIdentity \/ Record

Next == RunnerStep \/ Signal \/ Deadline \/ ChildEnds \/ Kill \/ PipesClosed \/ Exited

\* The goroutine runs, timers fire and a killed child is reaped.  A child that
\* is not killed and a process that holds its pipes may never end, and a signal
\* may never arrive.
Fairness == WF_vars(RunnerStep) /\ WF_vars(Deadline) /\ WF_vars(Kill)

Spec == Init /\ [][Next]_vars /\ Fairness

-----------------------------------------------------------------------------
(* Properties. *)

\* Every variable has its type.
TypeOK ==
    /\ timeouts \in BOOLEAN /\ keepTempDirs \in BOOLEAN
    /\ ctx \in {"active", "canceled"} /\ pc \in PCs
    /\ g \in 0 .. NGroups /\ c \in 0 .. NCommands
    /\ groupErr \in Errors /\ runErr \in Errors /\ cmdErr \in Errors
    /\ groupErrs \in Seq({"failed"})
    /\ tempDirs \subseteq Group /\ verified \subseteq Group /\ preExecErrs \subseteq Group
    /\ workDir \in {"fixed", "temp"} /\ result \in {"none", "success", "error"}
    /\ cmdCtx \in {"none", "active", "canceled", "deadline"}
    /\ plan \in {"none", "unbound", "bound"} /\ child \in {"none", "running", "held"}
    /\ exitCode \in {-1, 0, 1}
    /\ audit \in [Command -> Seq({"allow", "deny"})]
    /\ started \in Seq(Command) /\ afterSignal \in Nat
    /\ succeeded \subseteq Command /\ timeoutLog \subseteq Command
    /\ notified \in [Group -> {"none", "success", "error"}]
    /\ cleanupLost \in BOOLEAN

Started == {started[i] : i \in 1 .. Len(started)}

\* A command is started only when the files of its group were verified and one
\* audited allow came first, and its descriptor stays open while it runs;
\* every evaluated command leaves exactly one decision in the audit log.
StartsGated ==
    /\ \A x \in Started : x[1] \in verified /\ audit[x] = <<"allow">>
    /\ child # "none" => plan = "bound" /\ started[Len(started)] = current
    /\ \A x \in Command : Len(audit[x]) <= 1
    /\ pc \in {"record", "identity"} /\ plan # "none" => Len(audit[current]) = 1

\* Commands start in the order of the configuration, none twice, and a command
\* starts only after every earlier one of its group succeeded.
CommandsInOrder ==
    /\ \A i, j \in 1 .. Len(started) :
          i < j => \/ started[i][1] < started[j][1]
                   \/ started[i][1] = started[j][1] /\ started[i][2] < started[j][2]
    /\ \A x \in Started, k \in 1 .. NCommands :
          k < x[2] => <<x[1], k>> \in succeeded

\* After SIGINT or SIGTERM at most one more command starts: the one whose
\* Start had already looked at the context.
SignalStopsRun == afterSignal <= 1

\* Descriptors and temporary directories do not outlive their owner: the plan
\* is closed between commands, and between groups no temporary directory is
\* left unless it is to be kept or could not be removed.
NothingLeaks ==
    /\ pc \in {"commands", "cleanup", "next", "exit"} => plan = "none"
    /\ pc \in {"next", "exit"} /\ ~keepTempDirs /\ ~cleanupLost => tempDirs = {}

AllSucceeded(i) == \A k \in 1 .. NCommands : <<i, k>> \in succeeded

\* Once a group is dealt with, its report is the right one: a success summary
\* exactly when its verification passed and all its commands succeeded, an
\* error summary exactly when its verification passed and some command did not
\* succeed, and a pre-execution error only for a group whose verification
\* failed and of which nothing was started.
ReportsTellOutcome ==
    pc \in {"next", "exit"} =>
        \A i \in 1 .. g :
            /\ notified[i] = "success" <=> i \in verified /\ AllSucceeded(i)
            /\ notified[i] = "error" <=> i \in verified /\ ~AllSucceeded(i)
            /\ i \in preExecErrs => i \notin verified /\ \A x \in Started : x[1] # i

\* The run ends once a signal arrived, and when every command has a timeout,
\* unless from some moment on a process that a command left behind holds the
\* command's pipes for ever.
RunEnds ==
    []<>(child # "held") =>
        ((timeouts \/ ctx = "canceled") ~> pc \in {"exited", "aborted"})

\* The outcome of group i as the abstract specification sees it.
outcome ==
    [i \in Group |->
        IF i > g THEN "pending"
        ELSE IF i = g /\ pc \notin {"next", "exit", "exited"} THEN "running"
        ELSE IF i \in preExecErrs THEN "unverified"
        ELSE IF notified[i] = "success" THEN "completed"
        ELSE "failed"]

Abstract == INSTANCE GroupSequence
    WITH NGroups <- NGroups, outcome <- outcome, exitCode <- exitCode

\* The runner implements GroupSequence: groups in order, one at a time, and an
\* exit code of 0 exactly when every group completed or was skipped for a
\* failed verification.
ImplementsGroupSequence == Abstract!Spec
=============================================================================
