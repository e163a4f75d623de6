--------------------------- MODULE RiskEvaluation ---------------------------
(***************************************************************************)
(* The risk gate: EvaluateRisk, from the path of a command to its          *)
(* assessment, and the two callers that act on it: the normal resource     *)
(* manager, which starts the command or refuses it, and the dry run, which *)
(* previews a sequence of commands and turns what it saw into an exit      *)
(* code. The wrappers are walked by IndirectExecution; files operated on   *)
(* are judged by DestinationZoning; names by CommandProfiles.              *)
(*                                                                         *)
(* A command is an argv with what the evaluation is given about it: how    *)
(* its file was verified, whether analysis records are available, the      *)
(* analysis record of its binary (and the code it was made from), the      *)
(* identity it runs as, and the level its configuration allows.            *)
(***************************************************************************)
EXTENDS IndirectReference, DestinationZoning, BinaryScan

CONSTANTS Alphabet,      \* tool -> tokens its command lines are made of
          MaxArgs,       \* tool -> length of its command lines
          Commands,      \* further commands of a normal run
          Previews,      \* commands of a dry run
          MaxPreviews,   \* commands in one dry run
          Tokens         \* tokens of command lines, those inside of others included

\* A command line that stands in a token.
ShellLines == [safe : BOOLEAN, toks : Seq(Tokens)]

\* What is taken out of a token, or out of a "#!" line, is tokens again.
ASSUME TokensAssumption ==
  /\ \A t \in Tokens : /\ t.k \in {"short", "long"} => t.val \in ShellLines
                       /\ t.k = "string" => AsLine(t) \in ShellLines
  /\ \A file \in DOMAIN Shebang : Shebang[file] \in Seq(Tokens) /\ Shebang[file] # <<>>
  /\ Bare("letters") \in Tokens

\* What the evaluation is given about a command.
CommandFields == {"argv", "missing", "badLevel", "verified", "analysis", "load", "code", "record", "ident", "opens", "max"}

WellFormed(c) == DOMAIN c = CommandFields /\ c.argv.prog \in Tokens /\ c.argv.args \in Seq(Tokens)

ASSUME CommandsAssumption ==
  /\ \A tool \in DOMAIN Alphabet : InDir("bin", tool) \in Tokens /\ Alphabet[tool] \subseteq Tokens
  /\ \A tool \in DOMAIN Alphabet : MaxArgs[tool] \in Nat
  /\ \A c \in Commands \cup Previews : WellFormed(c)

VARIABLES
  mode,      \* "run" or "dry"
  cmd,       \* the command being evaluated
  stage,     \* where its evaluation is
  plan,      \* its assessment
  preview,   \* dry run: the flags that the exit code is computed from
  files,     \* dry run: results of the file verification so far
  outcomes,  \* history: what became of the commands previewed so far
  exit       \* exit code, once the dry run has ended

riskVars == <<mode, cmd, stage, plan, preview, files, outcomes, exit, indirectVars>>

NoPlan == [kind |-> "none", level |-> Unknown, blocking |-> FALSE, reason |-> "none"]
BlockingAssessment(reason) == [NoPlan EXCEPT !.kind = "plan", !.blocking = TRUE, !.reason = reason]
CriticalPlan == [NoPlan EXCEPT !.kind = "plan", !.level = Critical]
Assessed(level) == [NoPlan EXCEPT !.kind = "plan", !.level = level]

NoCommand == [argv |-> Cmd(Bare("none"), <<>>)]

\* A command whose file is verified and that runs as an ordinary user.
CommandOf(prog, args) ==
  [argv |-> Cmd(prog, args), missing |-> FALSE, badLevel |-> FALSE, verified |-> "ok", analysis |-> TRUE,
   load |-> "ok", code |-> <<>>, record |-> NoSignals, ident |-> [ok |-> TRUE, uid |-> 1, gids |-> {1}], opens |-> TRUE, max |-> Low]

Init ==
  /\ mode \in {"run", "dry"}
  /\ cmd = NoCommand
  /\ stage = "idle"
  /\ plan = NoPlan
  /\ preview = [deny |-> FALSE, unavailable |-> FALSE]
  /\ files = {}
  /\ outcomes = <<>>
  /\ exit = -1
  /\ walk = Idle /\ pend = <<>> /\ worst = IndirectNone

----------------------------------------------------------------------------
(* EvaluateRisk.                                                           *)

\* The dry run looks its path up itself: a name that is not found ends it.
Submit(c) ==
  /\ cmd' = c
  /\ stage' = IF mode = "dry" /\ c.missing THEN "hard error" ELSE "identity"
  /\ files' = files \cup {c.verified}
  /\ UNCHANGED <<mode, plan, preview, outcomes, exit, indirectVars>>

\* The hash is empty unless the file of the command was verified.
IdentityGate(c) ==
  IF c.verified # "ok" THEN "uncertain_unverified_identity"
  ELSE IF ~c.analysis THEN "analysis_disabled"
  ELSE "none"

\* Ranks 0 and 1: an absolute path, a complete set of names, a verified identity;
\* then the walk over what the command may run begins.
EvaluateRisk ==
  LET t == cmd.argv.prog
      blocked == IF t.k # "word" \/ t.dir = "" THEN "non_absolute_path"
                 ELSE IF ResolveCommandNames(t).err THEN "symlink_resolution_failed"
                 ELSE IdentityGate(cmd)
  IN /\ stage = "identity"
     /\ IF blocked # "none"
        THEN /\ plan' = BlockingAssessment(blocked)
             /\ stage' = "gate"
             /\ UNCHANGED indirectVars
        ELSE /\ AnalyzeIndirectExecution(t, cmd.argv.args)
             /\ stage' = "indirect"
             /\ UNCHANGED plan
     /\ UNCHANGED <<mode, cmd, preview, files, outcomes, exit>>

IndirectStep ==
  /\ stage = "indirect"
  /\ walk # Idle
  /\ AnalyzeIndirectStep
  /\ UNCHANGED <<mode, cmd, stage, plan, preview, files, outcomes, exit>>

\* Ranks 2 and 3: an inner command that escalates, a form that cannot be bound, and
\* a privilege command itself end the evaluation.
IndirectDone ==
  /\ stage = "indirect"
  /\ walk = Idle
  /\ LET p == IF worst.kind = "critical" THEN CriticalPlan
              ELSE IF worst.kind = "reject" THEN BlockingAssessment("indirect_execution")
              ELSE IF IsPrivilegeCommand(ResolveCommandNames(cmd.argv.prog).names) THEN CriticalPlan
              ELSE NoPlan
     IN /\ plan' = p
        /\ stage' = IF p = NoPlan THEN "dimensions" ELSE "gate"
  /\ UNCHANGED <<mode, cmd, preview, files, outcomes, exit, indirectVars>>

\* The bit alone, when the zoning has judged the operands.
ApplyCoreutilsRisk(cu, t, suppressLegacy) ==
  CASE ~cu.handled -> Unknown
    [] cu.handled /\ ~suppressLegacy -> cu.level
    [] OTHER -> IF HasSetuidOrSetgidBit(t).err \/ HasSetuidOrSetgidBit(t).bit THEN High ELSE Unknown

ApplyClassResult(class) ==
  CASE class = "high" -> High [] class = "network" -> Medium [] OTHER -> Unknown

\* The run-as identity of the command, or the original one; a failed look-up makes
\* every operand unresolved.
ZoningInput(c) == c.ident

\* Every dimension; a file operation that was understood replaces the judgement by name.
DimensionLevel(c, zone, cu, class) ==
  LET t == c.argv.prog
      args == c.argv.args
      names == ResolveCommandNames(t).names
      suppressLegacy == zone.applies /\ zone.recognized
      profile == ResolveProfile(names)
  IN Max({Low,
        ApplyCoreutilsRisk(cu, t, suppressLegacy),
        IF ~suppressLegacy /\ IsDestructiveFileOperation(names, args) THEN High ELSE Unknown,
        SystemModificationRisk(names),
        IF profile.found THEN ProfileFactorRisk(profile.p, args, suppressLegacy) ELSE Unknown,
        IF ~suppressLegacy THEN CheckDangerousArgPatterns(names, args) ELSE Unknown,
        IF IsArbitraryCodeExecutionRunner(names) THEN High ELSE Unknown,
        IF ~profile.found /\ HasNetworkArguments(args) THEN Medium ELSE Unknown,
        IF cu.handled THEN Unknown ELSE ApplyClassResult(class),
        IF zone.applies THEN zone.level ELSE Unknown})

EvaluateDimensions(c, zone) ==
  LET cu == CoreutilsCommandRisk(c.argv.prog, c.argv.args)
      class == Classify(c.load, c.record)
  IN IF cu.err THEN BlockingAssessment("coreutils_classification")
     ELSE IF ~cu.handled /\ class = "error" THEN [NoPlan EXCEPT !.kind = "error"]
     ELSE IF ~cu.handled /\ class = "uncertain" THEN BlockingAssessment("uncertain_analysis")
     ELSE Assessed(DimensionLevel(c, zone, cu, class))

ZoneOf(c) ==
  LET specs == LookupSpec(c.argv.prog, ResolveCommandNames(c.argv.prog).names)
  IN IF specs = {} THEN {[applies |-> FALSE, recognized |-> FALSE, level |-> Unknown]}
     ELSE {ClassifyDestinationZone(name, c.argv.args, ZoningInput(c)) : name \in specs}

\* The floor of the wrappers is folded in last. The identity is opened and hashed
\* again here (VerifiedExecution); when that fails the assessment blocks.
Dimensions ==
  /\ stage = "dimensions"
  /\ \E zone \in ZoneOf(cmd) :
       \E a \in {EvaluateDimensions(cmd, zone)} :
       LET floor == IF worst.kind = "floor" THEN worst.level ELSE Unknown
       IN /\ plan' = IF a.kind = "plan" /\ ~a.blocking
                     THEN IF cmd.opens THEN [a EXCEPT !.level = MaxLevel(@, floor)]
                          ELSE BlockingAssessment("identity_unbound")
                     ELSE a
          /\ stage' = IF a.kind = "error" THEN "hard error" ELSE "gate"
  /\ UNCHANGED <<mode, cmd, preview, files, outcomes, exit, indirectVars>>

----------------------------------------------------------------------------
(* The gate of the normal run, and the dry run.                            *)

Denied(max) == plan.blocking \/ plan.level > max

\* "admitted" starts the command. The configured level is parsed here.
Gate ==
  /\ stage = "gate" /\ mode = "run"
  /\ \E max \in Low..High :
       /\ cmd' = [cmd EXCEPT !.max = max]
       /\ stage' = IF Denied(max) THEN "refused" ELSE "admitted"
  /\ UNCHANGED <<mode, plan, preview, files, outcomes, exit, indirectVars>>

IsVerificationUnavailable(reason) == reason \in {"uncertain_unverified_identity", "analysis_disabled"}

\* The plausible slip: the last decision stands.
RecordPreviewDecisionOverwrites(denied, unavailable) ==
  preview' = [deny |-> denied /\ ~unavailable, unavailable |-> denied /\ unavailable]

\* The flags are only ever set.
RecordPreviewDecision(denied, unavailable) ==
  preview' = [deny |-> preview.deny \/ (denied /\ ~unavailable),
              unavailable |-> preview.unavailable \/ (denied /\ unavailable)]

\* A level that cannot be parsed is a hard error, after the evaluation.
PreviewGate ==
  LET unavailable == plan.blocking /\ IsVerificationUnavailable(plan.reason)
  IN /\ stage = "gate" /\ mode = "dry"
     /\ IF cmd.badLevel
        THEN stage' = "hard error" /\ UNCHANGED <<preview, outcomes>>
        ELSE /\ RecordPreviewDecision(Denied(cmd.max), unavailable)
             /\ outcomes' = Append(outcomes, CASE ~Denied(cmd.max) -> "allow"
                                               [] Denied(cmd.max) /\ unavailable -> "unavailable"
                                               [] OTHER -> "deny")
             /\ stage' = "idle"
     /\ cmd' = IF cmd.badLevel THEN cmd ELSE NoCommand
     /\ plan' = NoPlan
     /\ UNCHANGED <<mode, files, exit, indirectVars>>

PreviewExitCode ==
  CASE preview.deny -> 1
    [] ~preview.deny /\ "mismatch" \in files -> 1
    [] ~preview.deny /\ "mismatch" \notin files /\ files \ {"ok"} # {} -> 3
    [] OTHER -> IF preview.unavailable THEN 3 ELSE 0

\* The summary of the file verification is stored and the code computed in one
\* step; an error of the run comes before the preview's code.
FinalizeDryRunResults ==
  /\ mode = "dry"
  /\ stage \in {"idle", "hard error"} /\ exit = -1
  /\ outcomes # <<>> \/ stage = "hard error"
  /\ exit' = IF stage = "hard error" THEN 1 ELSE PreviewExitCode
  /\ stage' = "ended"
  /\ UNCHANGED <<mode, cmd, plan, preview, files, outcomes, indirectVars>>

SubmitRun ==
  /\ stage = "idle" /\ mode = "run"
  /\ \/ \E tool \in DOMAIN Alphabet : \E n \in 0..MaxArgs[tool] :
          \E args \in [1..n -> Alphabet[tool]] : Submit(CommandOf(InDir("bin", tool), args))
     \/ \E c \in Commands : Submit(c)

SubmitPreview ==
  /\ stage = "idle" /\ mode = "dry" /\ Len(outcomes) < MaxPreviews
  /\ \E c \in Previews : Submit(c)

Next ==
  \/ SubmitRun
  \/ SubmitPreview
  \/ EvaluateRisk
  \/ IndirectStep
  \/ IndirectDone
  \/ Dimensions
  \/ Gate
  \/ PreviewGate
  \/ FinalizeDryRunResults

Spec == Init /\ [][Next]_riskVars

----------------------------------------------------------------------------
(* What a file operation really writes, read off the tools' grammars.      *)

\* The role of each token: an option, the value of the option before it, or an
\* operand; "--" ends the options.
Roles(args, takes) ==
  LET NeedsValue(t) == t.k = "short" /\ ~t.att /\ t.ls[Len(t.ls)] \in takes
      role[i \in DOMAIN args] ==
        CASE i > 1 /\ role[i - 1] = "option" /\ NeedsValue(args[i - 1]) -> "value"
          [] i > 1 /\ role[i - 1] \in {"end", "operand after end"} -> "operand after end"
          [] OTHER -> CASE args[i].k = "dd" -> "end"
                        [] args[i].k \in {"short", "long"} -> "option"
                        [] OTHER -> "operand"
  IN role

OperandsOf(args, takes) ==
  LET role == Roles(args, takes)
  IN SelectSeq([i \in DOMAIN args |-> [t |-> args[i], op |-> role[i] \in {"operand", "operand after end"}]],
               LAMBDA x : x.op)

ValueAfter(args, takes, l) ==
  LET role == Roles(args, takes)
      options == {i \in DOMAIN args : role[i] = "option" /\ args[i].k = "short" /\ args[i].ls[Len(args[i].ls)] = l}
  IN {args[i + 1] : i \in {j \in options : ~args[j].att /\ j < Len(args)}}
     \cup {Head(args[i].val.toks) : i \in {j \in options : args[j].att}}

\* sftp is told on its own input what to write, so its argv names no file.
Written(name, args) ==
  LET takes == CASE name \in {"cp", "mv", "ln"} -> {"t"} [] name = "install" -> {"t", "m"}
                 [] name \in {"mkdir", "mknod", "setfacl"} -> {"m"} [] name = "sed" -> {"e"} [] name = "tar" -> {"f", "C"}
                 [] name = "chattr" -> {"p"} [] name = "unzip" -> {"d"} [] name = "rsync" -> {"e"}
                 [] name = "curl" -> {"o", "T"} [] name = "wget" -> {"O", "P"} [] OTHER -> {}
      ops == OperandsOf(args, takes)
      n == Len(ops)
      OpsFrom(i) == {ops[j].t : j \in i..n}
      last == IF n = 0 THEN {} ELSE {ops[n].t}
      Has(l) == \E i \in DOMAIN args : ShortFlagInBundle(args[i], l)
      Given(l) == ValueAfter(args, takes, l)
      InsteadOf(l, default) == IF Given(l) # {} THEN Given(l) ELSE default
  IN CASE name \in {"rm", "tee", "mkdir", "setfacl", "umount"} -> OpsFrom(1)
       [] name = "mv" -> OpsFrom(1) \cup Given("t")
       [] name \in {"cp", "ln"} -> InsteadOf("t", IF n > 1 THEN last ELSE {})
       [] name = "install" -> IF Has("d") THEN OpsFrom(1) ELSE InsteadOf("t", last)
       [] name = "chmod" -> OpsFrom(2)
       [] name = "chown" -> IF \E i \in DOMAIN args : args[i].k = "long" /\ args[i].n = "reference" THEN OpsFrom(1) ELSE OpsFrom(2)
       [] name = "chattr" -> {t \in OpsFrom(1) : ~IsChattrMode(t)}
       [] name = "mknod" -> OpsFrom(1) \ OpsFrom(2)
       [] name = "mount" -> last
       [] name = "sed" -> IF Has("i") THEN OpsFrom(IF Has("e") THEN 1 ELSE 2) ELSE {}
       [] name = "tar" -> IF Has("x") THEN Given("C") ELSE {}
       [] name = "unzip" -> IF Has("l") THEN {} ELSE InsteadOf("d", {Here})
       [] name = "curl" -> (Given("o") \ {Dash}) \cup (IF Has("O") THEN {Here} ELSE {})
       [] name = "wget" -> InsteadOf("O", InsteadOf("P", {Here})) \ {Dash}
       [] name = "rsync" -> IF n < 2 THEN {} ELSE {t \in last : ~IsRemoteTerminus(t)}
       [] name = "dd" -> {args[i].val : i \in {j \in DOMAIN args : args[j].k = "assign" /\ args[j].n = "of"}}
       [] name = "find" -> IF Long("delete") \in ToSet(args)
                           THEN {args[i] : i \in {j \in DOMAIN args : \A k \in 1..j : ~HasDash(args[k])}} ELSE {}
       [] OTHER -> {}

\* The kernel's walk: ".." leaves the directory that was really entered.
KernelPath(path) ==
  LET step[dest \in Seq(STRING), rest \in Seq(STRING), hops \in Nat] ==
        LET node == Append(dest, Head(rest)) IN
        CASE rest = <<>> -> dest
          [] rest # <<>> /\ Head(rest) = ".." ->
               step[IF dest = <<>> THEN dest ELSE Front(dest), Tail(rest), hops]
          [] rest # <<>> /\ Head(rest) # ".." /\ node \notin DOMAIN Nodes -> dest \o rest
          [] rest # <<>> /\ Head(rest) # ".." /\ node \in DOMAIN Nodes /\ Nodes[node].type = "link" /\ hops < 6 ->
               step[IF Nodes[node].target.abs THEN <<>> ELSE dest, Nodes[node].target.p \o Tail(rest), hops + 1]
          [] OTHER -> step[node, Tail(rest), hops]
  IN step[<<>>, (IF path.abs THEN <<>> ELSE Zoning.workDir) \o path.p, 0]

\* Where the code reads the arguments otherwise than the tool: letters in a cluster
\* and attached values are read by whole tokens only, as its comments say; of a
\* repeated option only the first value counts.
BlindSpot(name, args) ==
  LET Repeated(l) == Cardinality({i \in DOMAIN args : ShortFlagInBundle(args[i], l)}) > 1
  IN \/ name = "install" /\ \E i \in DOMAIN args : ShortFlagInBundle(args[i], "d") /\ Len(args[i].ls) > 1
     \/ name = "tar" /\ (\E i \in DOMAIN args : args[i].k = "short" /\ args[i].att)
     \/ name = "tar" /\ Repeated("C")
     \/ name = "unzip" /\ Repeated("d")
     \/ name = "curl" /\ Repeated("o")
     \/ name = "wget" /\ (Repeated("O") \/ Repeated("P"))

\* A ".." behind another component: filepath.Clean takes both away before any link
\* is followed.
ClimbsBack(t) == LET p == OperandPath(t).p IN \E i \in 2..Len(p) : p[i] = ".."

Harmless(p) == p \in DOMAIN Nodes /\ Nodes[p].type = "null"

----------------------------------------------------------------------------
(* Properties.                                                             *)

\* A command that is started runs nothing that escalates, however deep in wrappers,
\* split strings, options that name a helper, interpreters of scripts and links; and
\* its configuration allows the level High if it, or anything it runs, starts another
\* program or runs code that no argument names. The interpreter of a script is the
\* one program started below High. Excepted is a tar that takes "--" as the value of
\* an option: its scan ends there (EndMarkAsValue).
WrappedRunsDenied ==
  stage = "admitted" =>
    LET runs == AllRuns(cmd.argv, IndirectExecMaxDepth)
    IN (~\E c \in runs : EndMarkAsValue(c)) =>
         \A c \in runs :
           /\ Program(c.prog) # "sudo"
           /\ (Starts(c) # {} /\ ~Scripted(c)) \/ RunsCode(c) => cmd.max >= High

\* Written below High only outside the trust-critical places, at Low only in the
\* safe zones.
AllowedThere(t) ==
  LET p == KernelPath(OperandPath(t))
  IN Harmless(p) \/
     /\ InCritical(p) => cmd.max >= High
     /\ cmd.max = Low => \E o \in {Zoning.workDir, Zoning.tempDir} : Within(p, ResolveRoot(o))

\* A file operation that is started below High writes no file that really is in a
\* trust-critical place; one started at Low writes only in the safe zones. This holds
\* for the operands that do not climb back with ".." (see LinksFollowed), and where
\* code and tool read the same arguments (BlindSpot).
WritesJudged ==
  stage = "admitted" =>
    LET name == Program(cmd.argv.prog)
        args == cmd.argv.args
    IN ~BlindSpot(name, args) => \A t \in Written(name, args) : ClimbsBack(t) \/ AllowedThere(t)

\* "every existing path element has been followed" (operandResolver.resolve): the
\* same for every operand, a ".." behind a link included.
LinksFollowed ==
  stage = "admitted" =>
    LET name == Program(cmd.argv.prog)
        args == cmd.argv.args
    IN ~BlindSpot(name, args) => \A t \in Written(name, args) : AllowedThere(t)

\* A binary is started below High only if no system call of its own, whose number was
\* told, replaces the process or makes memory executable on every run, and at Low only
\* if none opens the network on every run; and a number that was told, through copies
\* and branches, is one that some run calls (or that only other code knows). Excepted
\* are the numbers the analysis tells wrongly: those of a register written again
\* behind its copy (SourceOverwritten) and those that were read inside an instruction
\* (Misaligned). Of a call whose number was not told nothing is said: see
\* UnknownNumbersHigh.
BinaryJudged ==
  stage = "admitted" /\ cmd.code # <<>> =>
    LET runs == Runs(cmd.code)
    IN \A at \in FindSyscallInstructions(cmd.code) :
         LET number == BackwardScanX86WithRegCopy(cmd.code, at)
             here == {r.regs : r \in {q \in runs : q.at = at}}
             Always(numbers) == \A regs \in here : regs["rax"] \in numbers
         IN number # -1 =>
              \/ /\ \E regs \in here : regs["rax"] \in {number, Foreign}
                 /\ Always(ExecSyscalls) => cmd.max >= High
                 /\ Always(NetworkSyscalls) => cmd.max >= Medium
                 /\ Always({MprotectSyscall}) /\ (\A regs \in here : regs["rdx"] # Foreign /\ HasExec(regs["rdx"])) => cmd.max >= High
              \/ SourceOverwritten(cmd.code, at)
              \/ Misaligned(cmd.code, at)

\* "SYSCALL instruction decoded successfully but number unknown -> High Risk"
\* (x86_64_instruction_decode.md): a binary with such a call is started only if its
\* configuration allows the level High.
UnknownNumbersHigh ==
  stage = "admitted" /\ cmd.code # <<>> /\ cmd.max < High =>
    \A at \in FindSyscallInstructions(cmd.code) : BackwardScanX86WithRegCopy(cmd.code, at) # -1

\* The exit code of a dry run: 0 only when every command would be started and every
\* file was verified; 1 as soon as one command would be refused by policy, a file
\* does not match its record or the run failed, whatever else was seen before or
\* after; 3 when only the environment is in the way.
ExitTellsPreview ==
  exit # -1 =>
    LET Seen(o) == \E i \in DOMAIN outcomes : outcomes[i] = o
        failed == cmd # NoCommand
    IN /\ exit = 1 <=> failed \/ Seen("deny") \/ "mismatch" \in files
       /\ exit = 0 <=> ~failed /\ ~Seen("deny") /\ ~Seen("unavailable") /\ files \subseteq {"ok"}
=============================================================================
