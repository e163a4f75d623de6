------------------------- MODULE IndirectExecution -------------------------
(***************************************************************************)
(* Rank 2 of the risk evaluation: does the command run, or load, something *)
(* other than the binary that was verified? The analysis walks down a      *)
(* chain of wrappers (env timeout 5 nice ...), one handler per level. The  *)
(* recursion of the code is a walk here: walk is the command of the        *)
(* current level, pend the helper command lines of the same level still to *)
(* be looked at (rsync -e, ssh -o ProxyCommand), worst the most            *)
(* restrictive outcome so far. A level is left only with a result, which   *)
(* the enclosing levels keep (a denial) or raise (Unwind), so nothing is   *)
(* lost by not returning through them. The reason codes and the artifact   *)
(* chain are recorded for the audit log only and are left out.             *)
(***************************************************************************)
EXTENDS CommandProfiles, SequencesExt

CONSTANTS Shebang,              \* scripts: file name -> tokens of its "#!" line
          IndirectExecMaxDepth  \* levels of wrappers before the analysis gives up

VARIABLES walk, pend, worst

indirectVars == <<walk, pend, worst>>

Idle == [at |-> "idle"]

IndirectNone == [kind |-> "none", level |-> Unknown]
IndirectReject == [kind |-> "reject", level |-> Unknown]
IndirectCritical == [kind |-> "critical", level |-> Critical]
IndirectFloor(level) == [kind |-> "floor", level |-> level]

IndirectKindRank(r) ==
  CASE r.kind = "critical" -> 3 [] r.kind = "reject" -> 2
    [] r.kind = "floor" -> 1 [] OTHER -> 0

MergeIndirectResults(a, b) ==
  IF IndirectKindRank(a) # IndirectKindRank(b)
  THEN IF IndirectKindRank(a) > IndirectKindRank(b) THEN a ELSE b
  ELSE [a EXCEPT !.level = MaxLevel(a.level, b.level)]

----------------------------------------------------------------------------
(* Option grammars of the wrappers, one option per class.                  *)

\* valueOpts, boolOpts, positionals and the floor of the form without a command.
WrapperSpecs ==
  [timeout |-> [spec |-> OptSpec({"s", "signal"}, {}, {"foreground", "v"}, "shortOptsAreBoolean"),
                positionals |-> 1, noCommandFloor |-> High],
   nice |-> [spec |-> OptSpec({"n", "adjustment"}, {}, {}, "shortOptsAreBoolean"),
             positionals |-> 0, noCommandFloor |-> Medium],
   chrt |-> [spec |-> OptSpec({"T", "sched-runtime"}, {}, {}, "shortOptsAreBoolean"),
             positionals |-> 1, noCommandFloor |-> Medium]]

ChrootOptSpec == OptSpec({"userspec"}, {}, {"skip-chdir"}, "shortOptsAreBoolean")
UnshareOptSpec == OptSpec({"S", "setuid"}, {"m", "mount"}, {"f", "fork"}, "shortOptsAreBoolean")
NsenterOptSpec == OptSpec({"t", "target"}, {"m", "mount"}, {"a", "all"}, "shortOptsAreBoolean")
FlockOptSpec == OptSpec({"w", "timeout"}, {}, {"n", "nonblock"}, "shortOptsAreBoolean")
WatchOptSpec == OptSpec({"n", "interval"}, {"d", "differences"}, {"x", "exec", "t"}, "shortOptsAreBoolean")
IpOptSpec == [OptSpec({"n", "netns"}, {}, {"json", "j"}, "anyUnknownIsUnreliable") EXCEPT !.single = TRUE]
XargsOptSpec == OptSpec({"n", "max-args"}, {}, {}, "shortOptsAreBoolean")
PackageRunnerOptSpec == OptSpec({"C", "cwd"}, {}, {}, "anyUnknownIsUnreliable")

EnvBooleanOptions == {Short(<<"i">>), Long("null")}
EnvValueOptions == {Short(<<"u">>), Long("unset")}
ForbiddenEnvVars == {"LD_PRELOAD"}
RemoteShellOptionPrefixes == {"to-command", "checkpoint-action"}
RemoteShellValueOpts == [tar |-> {Short(<<"C">>), Short(<<"f">>), Long("directory")}, rsync |-> {Long("port")}]
SshProxyOptionTools == {"ssh", "scp"}
ShellInlineCommands == {"bash"}
InterpreterInlineCommands == {"python3"}
ScriptVerbs == {"run", "test"}
PackageManagerBuiltins == {"install"}

----------------------------------------------------------------------------
(* Results and levels.                                                     *)

\* What the enclosing levels make of a result: a wrapper's inner command is High
\* whatever it is; the interpreter of a script keeps its own level.
Unwind(w, r) ==
  IF r.kind \in {"critical", "reject"} THEN r
  ELSE IF w.cerr THEN IndirectReject
  ELSE IF w.inner THEN IndirectFloor(High)
  ELSE IF w.interp THEN IndirectFloor(MaxLevel(w.acc, r.level))
  ELSE r

\* The walk goes on with the first of the levels still to be looked at.
Take(levels) ==
  /\ walk' = IF levels = <<>> THEN Idle ELSE Head(levels)
  /\ pend' = IF levels = <<>> THEN <<>> ELSE Tail(levels)

Finish(r) ==
  /\ worst' = MergeIndirectResults(worst, Unwind(walk, r))
  /\ Take(pend)

Level(prog, args, depth, role) ==
  [at |-> "level", prog |-> prog, args |-> args, depth |-> depth, role |-> role,
   inner |-> FALSE, interp |-> FALSE, acc |-> Unknown, cerr |-> FALSE, split |-> FALSE]

\* The dimensions folded into the level of a shebang interpreter.
InterpreterLevel(names, args, cu) ==
  LET Factors(p) == IF p.found THEN ProfileFactorRisk(p.p, args, FALSE) ELSE Unknown
  IN Max({IF IsDestructiveFileOperation(names, args) THEN High ELSE Unknown,
          IF cu.handled THEN cu.level ELSE Unknown,
          SystemModificationRisk(names),
          IF IsArbitraryCodeExecutionRunner(names) THEN High ELSE Unknown,
          CheckDangerousArgPatterns(names, args),
          Factors(ResolveProfile(names))})

\* The level below w for the inner command t, when it is neither denied nor privileged.
Inner(w, t, args, role) ==
  LET fine == role = "interpreter"
      Below(names, cu) ==
        [w EXCEPT !.prog = t, !.args = args, !.depth = w.depth + 1, !.role = role,
                  !.inner = w.inner \/ ~fine, !.interp = w.interp \/ fine,
                  !.acc = IF fine THEN MaxLevel(w.acc, InterpreterLevel(names, args, cu)) ELSE w.acc,
                  !.cerr = w.cerr \/ (fine /\ cu.err), !.split = FALSE]
  IN Below(ResolveCommandNames(t).names, CoreutilsCommandRisk(t, args))

\* A result right away, or the level below.
InnerVerdict(t) ==
  LET Of(r) == CASE r.err -> IndirectReject
                 [] ~r.err /\ IsPrivilegeCommand(r.names) -> IndirectCritical
                 [] OTHER -> IndirectNone
  IN Of(ResolveCommandNames(t))

EvaluateInnerAs(t, args, role) ==
  LET Judged(verdict) ==
        IF verdict # IndirectNone THEN Finish(verdict)
        ELSE /\ walk' = Inner(walk, t, args, role)
             /\ UNCHANGED <<pend, worst>>
  IN Judged(InnerVerdict(t))

\* A command line outside the safe set, or without a word in it, is not split.
Splittable(line) == line.safe /\ line.toks # <<>>

GateShellCommandString(line) ==
  IF ~Splittable(line) THEN Finish(IndirectReject)
  ELSE EvaluateInnerAs(Head(line.toks), Tail(line.toks), walk.role)

\* Several command lines of one level: the results met at once are merged, the
\* others are walked one after the other.
GateAll(lines) ==
  LET Verdict(line) == IF Splittable(line) THEN InnerVerdict(Head(line.toks)) ELSE IndirectReject
      Gate(verdicts) ==
        LET Below(i) == IF verdicts[i] # IndirectNone THEN <<>>
                        ELSE <<Inner(walk, Head(lines[i].toks), Tail(lines[i].toks), walk.role)>>
            levels == FlattenSeq([i \in DOMAIN lines |-> Below(i)])
            met == {verdicts[i] : i \in DOMAIN lines} \ {IndirectNone}
        IN /\ worst' = MergeIndirectResults(worst, IF IndirectCritical \in met THEN IndirectCritical
                                                   ELSE IF met # {} THEN IndirectReject ELSE IndirectNone)
           /\ Take(levels \o pend)
  IN Gate([i \in DOMAIN lines |-> Verdict(lines[i])])

----------------------------------------------------------------------------
(* Scans of the arguments.                                                 *)

\* env: assignments, options, the split string and the inner command. Assignments
\* of a forbidden variable, -C, options of unknown arity and -S without a value
\* are rejected; after "--" a token is taken literally.
EnvScan(args) ==
  LET Out(do, i, path, line) == [do |-> do, i |-> i, path |-> path, line |-> line]
      Name(t) == IF t.k = "long" THEN t.n ELSE IF t.k = "short" THEN t.ls[1] ELSE ""
      Split(t, i, path) ==
        IF (t.k = "short" /\ t.att) \/ (t.k = "long" /\ t.eq) THEN Out("split", i, path, t.val)
        ELSE IF i < Len(args) THEN Out("split", i + 1, path, AsLine(args[i + 1]))
        ELSE Out("reject", i, path, NoValue)
      Refused(t, opts) == \/ opts /\ Name(t) \in {"C", "chdir"}
                          \/ t.k = "assign" /\ t.n \in ForbiddenEnvVars
      Skipped(t, opts) == \/ t.k = "assign"
                          \/ opts /\ (t.k = "dd" \/ t \in EnvBooleanOptions \cup EnvValueOptions)
      scan[at \in (1..(Len(args) + 2)) \X BOOLEAN \X BOOLEAN] ==
        LET i == at[1]
            path == at[2]
            opts == at[3]
            t == args[i]
        IN IF i > Len(args) THEN Out("none", i, path, NoValue)
           ELSE IF opts /\ Name(t) \in {"S", "split-string"} THEN Split(t, i, path)
           ELSE IF Refused(t, opts) THEN Out("reject", i, path, NoValue)
           ELSE IF Skipped(t, opts)
                THEN scan[<<IF t \in EnvValueOptions THEN i + 2 ELSE i + 1,
                            path \/ (t.k = "assign" /\ t.n = "PATH"), opts /\ t.k # "dd">>]
           ELSE IF opts /\ HasDash(t) THEN Out("reject", i, path, NoValue)
           ELSE Out("inner", i, path, NoValue)
  IN scan[<<1, FALSE, TRUE>>]

\* taskset: -p acts on a process; -c replaces the positional mask.
TasksetScan(args) ==
  LET Out(do, i) == [do |-> do, i |-> i]
      List(t) == IF t.k = "long" THEN t.n = "cpu-list" ELSE ShortFlagInBundle(t, "c")
      Separate(t) == IF t.k = "long" THEN ~t.eq ELSE t.ls[Len(t.ls)] = "c" /\ ~t.att
      scan[at \in (1..(Len(args) + 2)) \X BOOLEAN] ==
        LET i == at[1]
            cpuList == at[2]
            t == args[i]
            here == IF cpuList THEN i ELSE i + 1
        IN IF i > Len(args) \/ (i <= Len(args) /\ t.k \notin {"short", "long", "dd"}) THEN Out("at", here)
           ELSE IF t.k = "dd" THEN Out("at", here + 1)
           ELSE IF t = Long("pid") \/ ShortFlagInBundle(t, "p") THEN Out("pid", i)
           ELSE IF t.k = "long" /\ t.n # "cpu-list" /\ ~t.eq THEN Out("reject", i)
           ELSE scan[<<IF List(t) /\ Separate(t) THEN i + 2 ELSE i + 1, cpuList \/ List(t)>>]
  IN scan[<<1, FALSE>>]

\* The values of rsync's -e and --rsh before "--", in every form; a value that is
\* missing is a command line that cannot be split.
RsyncRemoteShellLines(args) ==
  LET Next(i) == IF i < Len(args) THEN AsLine(args[i + 1]) ELSE [safe |-> FALSE, toks |-> <<>>]
      LettersAfter(t) == Min({j \in DOMAIN t.ls : t.ls[j] = "e"}) < Len(t.ls)
      Separate(t) == t = Long("rsh") \/ (ShortFlagInBundle(t, "e") /\ ~LettersAfter(t) /\ ~t.att)
      Lines(t, i) ==
        CASE Separate(t) -> <<Next(i)>>
          [] t.k = "long" /\ t.n = "rsh" /\ t.eq -> <<t.val>>
          [] ShortFlagInBundle(t, "e") /\ (LettersAfter(t) \/ t.att) ->
               <<IF LettersAfter(t) THEN [safe |-> TRUE, toks |-> <<Bare("letters")>>] ELSE t.val>>
          [] OTHER -> <<>>
      scan[i \in 1..(Len(args) + 2)] ==
        IF i > Len(args) \/ (i <= Len(args) /\ args[i].k = "dd") THEN <<>>
        ELSE LET t == args[i]
             IN Lines(t, i) \o scan[IF Separate(t) \/ t \in RemoteShellValueOpts.rsync THEN i + 2 ELSE i + 1]
  IN scan[1]

\* The command lines of ssh's ProxyCommand and LocalCommand options before "--",
\* wherever they stand (an option token is a "string" headed by its keyword).
SSHProxyLines(args) ==
  LET Of(line) == IF line.toks # <<>> /\ ProgramName(Head(line.toks)) = "proxycommand"
                  THEN <<[safe |-> line.safe, toks |-> Tail(line.toks)]>> ELSE <<>>
      scan[i \in 1..(Len(args) + 2)] ==
        IF i > Len(args) \/ (i <= Len(args) /\ args[i].k = "dd") THEN <<>>
        ELSE LET t == args[i]
                 separate == t = Short(<<"o">>) /\ i < Len(args)
             IN (CASE separate -> Of(AsLine(args[i + 1]))
                   [] t.k = "short" /\ t.ls = <<"o">> /\ t.att -> Of(t.val)
                   [] OTHER -> <<>>)
                \o scan[IF separate THEN i + 2 ELSE i + 1]
  IN scan[1]

\* tar's helper options, not counting values of other options and operands after
\* "--", which is looked for first and so ends the scan even where it is a value.
AnalyzeRemoteShellOption(args) ==
  LET scan[i \in 1..(Len(args) + 1), skipValue \in BOOLEAN] ==
        CASE i > Len(args) -> FALSE
          [] i <= Len(args) /\ args[i].k = "dd" -> FALSE
          [] OTHER -> \/ ~skipValue /\ args[i].k = "long" /\ args[i].n \in RemoteShellOptionPrefixes
                      \/ scan[i + 1, ~skipValue /\ args[i] \in RemoteShellValueOpts.tar]
  IN scan[1, FALSE]

FindExecPrimaries(args) == {i \in DOMAIN args : args[i].k = "long" /\ args[i].n \in FindExecActions}

\* -x among watch's own options, not as the value of one.
WatchExecRequested(opts) ==
  LET scan[i \in 1..(Len(opts) + 2)] ==
        CASE i > Len(opts) -> FALSE
          [] opts[i] = Long("exec") -> TRUE
          [] opts[i] \in {Short(<<"n">>), Long("interval")} -> scan[i + 2]
          [] opts[i].k = "short" -> LeadingClusterHasFlag(opts[i], "x", WatchOptSpec) \/ scan[i + 1]
          [] OTHER -> scan[i + 1]
  IN scan[1]

\* watch joins its operands with spaces and hands the line to a shell.
Joined(toks) ==
  [safe |-> \A i \in DOMAIN toks : toks[i].k = "string" => toks[i].safe,
   toks |-> FlattenSeq([i \in DOMAIN toks |-> AsLine(toks[i]).toks])]

PackageScriptRunner(names, args) ==
  LET Verb(s) == IF s.idx > Len(args) THEN "" ELSE ProgramName(args[s.idx])
      RunsScript(verb) == verb \in ScriptVerbs \/ (verb # "" /\ "yarn" \in names /\ verb \notin PackageManagerBuiltins)
      Read(s) == ~s.ok \/ RunsScript(Verb(s))
  IN "npx" \in names \/ (names \cap {"npm", "yarn"} # {} /\ Read(SkipLeadingOptions(args, PackageRunnerOptSpec)))

HasInlineCode(names, args) ==
  \/ names \cap ShellInlineCommands # {} /\ HasFlag(args, "c")
  \/ names \cap InterpreterInlineCommands # {} /\ (HasFlag(args, "c") \/ HasFlag(args, "e"))

\* service NAME: options take no values; the name is not a path.
ServiceUnitNamed(args) ==
  LET stops == {i \in DOMAIN args : ~HasDash(args[i]) \/ args[i].k = "dd"}
      i == Min(stops)
      at == IF args[i].k = "dd" THEN i + 1 ELSE i
  IN /\ stops # {}
     /\ at <= Len(args)
     /\ ~(args[at].k = "word" /\ args[at].dir # "")

HasDynamicLoaderName(names) == names \cap {"ld-linux.so", "ld.so"} # {}

----------------------------------------------------------------------------
(* The dispatch: the checks in the order of their strictness.              *)

ShebangOf(t) == LET file == Reached(t.w)[MaxSymlinkDepth] IN Shebang[file]

IsScript(t) == t.k = "word" /\ t.dir # "" /\ Reached(t.w)[MaxSymlinkDepth] \in DOMAIN Shebang

DedicatedWrappers == {"chroot", "unshare", "nsenter", "flock", "watch"}

HandlerFor(w, names, err) ==
  IF w.split THEN "env"
  ELSE IF w.depth >= IndirectExecMaxDepth THEN "reject"
  ELSE IF err THEN "reject"
  ELSE IF IsScript(w.prog) THEN "shebang"
  ELSE IF "xargs" \in names THEN "xargs"
  ELSE IF "find" \in names /\ FindExecPrimaries(w.args) # {} THEN "find"
  ELSE IF HasDynamicLoaderName(names) THEN "reject"
  ELSE IF "tar" \in names /\ AnalyzeRemoteShellOption(w.args) THEN "reject"
  ELSE IF "rsync" \in names /\ RsyncRemoteShellLines(w.args) # <<>> THEN "rsync"
  ELSE IF names \cap SshProxyOptionTools # {} /\ SSHProxyLines(w.args) # <<>> THEN "ssh"
  ELSE IF "env" \in names THEN "env"
  ELSE IF "taskset" \in names THEN "taskset"
  ELSE IF "ip" \in names THEN "ip"
  ELSE IF names \cap DedicatedWrappers # {} THEN "dedicated"
  ELSE IF names \cap DOMAIN WrapperSpecs # {} THEN "wrapper"
  ELSE IF PackageScriptRunner(names, w.args) THEN "package"
  ELSE IF HasInlineCode(names, w.args) THEN "inline"
  ELSE IF "service" \in names THEN "service"
  ELSE "none"

Handler(w) ==
  LET Named(r) == HandlerFor(w, r.names, r.err)
  IN Named(ResolveCommandNames(w.prog))

----------------------------------------------------------------------------
(* One action per handler.                                                 *)

AnalyzeIndirectExecution(prog, args) ==
  /\ walk' = Level(prog, args, 0, "inner")
  /\ pend' = <<>>
  /\ worst' = IndirectNone

RejectForm == Finish(IndirectReject)

NotIndirect == Finish(IndirectNone)

\* The kernel runs the interpreter with its arguments, the script and its arguments.
AnalyzeShebang ==
  LET line == ShebangOf(walk.prog)
  IN EvaluateInnerAs(Head(line), Tail(line) \o <<walk.prog>> \o walk.args, "interpreter")

\* find and xargs run the helper from a child process: denied in any case.
ChildProcessExec(t) ==
  LET r == ResolveCommandNames(t)
  IN IF ~r.err /\ IsPrivilegeCommand(r.names) THEN IndirectCritical ELSE IndirectReject

AnalyzeXargs ==
  LET s == SkipLeadingOptions(walk.args, XargsOptSpec)
  IN Finish(IF ~s.ok \/ s.idx > Len(walk.args) THEN IndirectReject
            ELSE ChildProcessExec(walk.args[s.idx]))

AnalyzeFind ==
  LET i == Min(FindExecPrimaries(walk.args))
  IN Finish(IF i = Len(walk.args) THEN IndirectReject ELSE ChildProcessExec(walk.args[i + 1]))

AnalyzeRsyncRemoteShell == GateAll(RsyncRemoteShellLines(walk.args))

AnalyzeSSHProxyCommand == GateAll(SSHProxyLines(walk.args))

\* A bare name cannot be resolved once env has changed PATH.
ResolveInner(t, args, path) ==
  IF path /\ (t.k # "word" \/ t.dir = "") THEN Finish(IndirectReject)
  ELSE EvaluateInnerAs(t, args, walk.role)

\* The split string is put in front of the arguments that follow it and env is
\* read again, one level down.
AnalyzeEnv ==
  LET e == EnvScan(walk.args)
      rest == SubSeq(walk.args, e.i + 1, Len(walk.args))
  IN CASE e.do = "reject" -> Finish(IndirectReject)
       [] e.do = "none" -> Finish(IndirectFloor(High))
       [] e.do = "inner" -> ResolveInner(walk.args[e.i], rest, e.path)
       [] e.do = "split" /\ ~Splittable(e.line) -> Finish(IndirectReject)
       [] OTHER -> /\ walk' = [walk EXCEPT !.args = e.line.toks \o rest, !.split = TRUE,
                                           !.depth = walk.depth + 1]
                   /\ UNCHANGED <<pend, worst>>

\* A command position that still holds an option was misread.
EvaluateAt(i) ==
  IF HasDash(walk.args[i]) THEN Finish(IndirectReject)
  ELSE EvaluateInnerAs(walk.args[i], SubSeq(walk.args, i + 1, Len(walk.args)), walk.role)

AnalyzeTaskset ==
  LET s == TasksetScan(walk.args)
  IN IF s.do = "reject" THEN Finish(IndirectReject)
     ELSE IF s.do = "pid" \/ s.i > Len(walk.args) THEN Finish(IndirectFloor(Medium))
     ELSE EvaluateAt(s.i)

\* ip netns exec NAME COMMAND; every other form is left to the name-based dimensions.
AnalyzeIPExec ==
  LET s == SkipLeadingOptions(walk.args, IpOptSpec)
      n == Len(walk.args)
      Word(i) == IF i > n THEN "" ELSE ProgramName(walk.args[i])
  IN IF ~s.ok THEN Finish(IndirectReject)
     ELSE IF Word(s.idx) # "netns" \/ Word(s.idx + 1) # "exec" THEN Finish(IndirectNone)
     ELSE IF s.idx + 3 > n THEN Finish(IndirectReject)
     ELSE EvaluateAt(s.idx + 3)

\* chroot, unshare, nsenter: without a command they start a shell.
AnalyzeNamespaceWrapper(spec, positionals) ==
  LET s == SkipLeadingOptions(walk.args, spec)
      i == s.idx + positionals
      n == Len(walk.args)
  IN IF ~s.ok \/ i > n + 1 THEN Finish(IndirectReject)
     ELSE IF i = n + 1 THEN Finish(IndirectFloor(High))
     ELSE EvaluateAt(i)

\* flock LOCK COMMAND, flock LOCK -c LINE, flock FD (which runs nothing).
AnalyzeFlock ==
  LET s == SkipLeadingOptions(walk.args, FlockOptSpec)
      n == Len(walk.args)
      i == s.idx
  IN IF ~s.ok \/ i > n THEN Finish(IndirectReject)
     ELSE IF i = n THEN Finish(IF ProgramName(walk.args[n]) = "9" THEN IndirectNone ELSE IndirectReject)
     ELSE IF walk.args[i + 1] \in {Short(<<"c">>), Long("command")}
          THEN IF i + 1 = n THEN Finish(IndirectReject) ELSE GateShellCommandString(AsLine(walk.args[i + 2]))
          ELSE EvaluateInnerAs(walk.args[i + 1], SubSeq(walk.args, i + 2, n), walk.role)

\* watch hands its operands to a shell as one line, or execs them with -x.
AnalyzeWatch ==
  LET s == SkipLeadingOptions(walk.args, WatchOptSpec)
      n == Len(walk.args)
      i == s.idx
  IN IF ~s.ok \/ i > n THEN Finish(IndirectReject)
     ELSE IF WatchExecRequested(SubSeq(walk.args, 1, i - 1))
          THEN EvaluateInnerAs(walk.args[i], SubSeq(walk.args, i + 1, n), walk.role)
          ELSE GateShellCommandString(Joined(SubSeq(walk.args, i, n)))

AnalyzeDedicatedWrapper ==
  LET names == ResolveCommandNames(walk.prog).names
  IN IF "chroot" \in names THEN AnalyzeNamespaceWrapper(ChrootOptSpec, 1)
     ELSE IF "unshare" \in names THEN AnalyzeNamespaceWrapper(UnshareOptSpec, 0)
     ELSE IF "nsenter" \in names THEN AnalyzeNamespaceWrapper(NsenterOptSpec, 0)
     ELSE IF "flock" \in names THEN AnalyzeFlock
     ELSE AnalyzeWatch

\* The wrapper whose name is first in the alphabet, when the chain has several.
AnalyzeWrapper ==
  LET names == ResolveCommandNames(walk.prog).names
      name == IF "chrt" \in names THEN "chrt" ELSE IF "nice" \in names THEN "nice" ELSE "timeout"
      s == SkipLeadingOptions(walk.args, WrapperSpecs[name].spec)
      i == s.idx + WrapperSpecs[name].positionals
  IN IF ~s.ok THEN Finish(IndirectReject)
     ELSE IF i > Len(walk.args) THEN Finish(IndirectFloor(WrapperSpecs[name].noCommandFloor))
     ELSE EvaluateAt(i)

AnalyzeRunner == Finish(IndirectFloor(High))

AnalyzeService ==
  Finish(IF ServiceUnitNamed(walk.args) THEN IndirectFloor(High) ELSE IndirectReject)

AnalyzeIndirectStep ==
  /\ walk.at = "level"
  /\ \E handler \in {Handler(walk)} :
       \/ handler = "reject" /\ RejectForm
       \/ handler = "none" /\ NotIndirect
       \/ handler = "shebang" /\ AnalyzeShebang
       \/ handler = "xargs" /\ AnalyzeXargs
       \/ handler = "find" /\ AnalyzeFind
       \/ handler = "rsync" /\ AnalyzeRsyncRemoteShell
       \/ handler = "ssh" /\ AnalyzeSSHProxyCommand
       \/ handler = "env" /\ AnalyzeEnv
       \/ handler = "taskset" /\ AnalyzeTaskset
       \/ handler = "ip" /\ AnalyzeIPExec
       \/ handler = "dedicated" /\ AnalyzeDedicatedWrapper
       \/ handler = "wrapper" /\ AnalyzeWrapper
       \/ handler \in {"package", "inline"} /\ AnalyzeRunner
       \/ handler = "service" /\ AnalyzeService
=============================================================================
