------------------------- MODULE IndirectReference -------------------------
(***************************************************************************)
(* What the wrappers really run, read off their documented grammars and    *)
(* independently of the scans of IndirectExecution: the commands a command *)
(* may start, the ones those may start in turn, and the commands that run  *)
(* code no argument names (a shell, a package script). A script starts its *)
(* interpreter. Where a grammar leaves                                     *)
(* a reading open (a long option that may or may not take a value, letters *)
(* after an option with an optional value, a command line with shell       *)
(* syntax in it) every reading counts.                                     *)
(***************************************************************************)
EXTENDS IndirectExecution

\* Does option t take the following token? longTakes and lettersGoOn are the open
\* readings.
TakesNext(t, spec, longTakes, lettersGoOn) ==
  CASE t.k = "long" \/ spec.single ->
         /\ ~(t.k = "long" /\ t.eq)
         /\ \/ LongName(t) \in spec.value
            \/ longTakes /\ LongName(t) \notin spec.bool \cup spec.optional
    [] OTHER ->
         /\ ~t.att
         /\ t.ls[Len(t.ls)] \in spec.value
         /\ \A j \in 1..(Len(t.ls) - 1) :
              t.ls[j] \notin spec.value /\ (lettersGoOn \/ t.ls[j] \notin spec.optional)

\* The readings of args: where the operands begin, which tokens before are values.
Readings(args, spec) ==
  LET IsOption(i) == args[i].k \in {"short", "long"}
      Reading(longTakes, lettersGoOn) ==
        LET isValue[i \in 0..Len(args)] ==
              i > 1 /\ ~isValue[i - 1] /\ IsOption(i - 1)
              /\ TakesNext(args[i - 1], spec, longTakes, lettersGoOn)
            ends == {i \in DOMAIN args : ~isValue[i] /\ ~IsOption(i)}
        IN [start |-> IF ends = {} THEN Len(args) + 1
                      ELSE IF args[Min(ends)].k = "dd" THEN Min(ends) + 1 ELSE Min(ends),
            values |-> {i \in DOMAIN args : isValue[i]}]
  IN {Reading(a, b) : a \in BOOLEAN, b \in BOOLEAN}

OperandStarts(args, spec) == {r.start : r \in Readings(args, spec)}

\* watch -x: the letter is a flag of its own, in a token that is not a value.
ExecFlag(args, r) ==
  \E i \in 1..(r.start - 1) : i \in DOMAIN args \ r.values /\
    \/ args[i] = Long("exec")
    \/ /\ args[i].k = "short"
       /\ \E j \in DOMAIN args[i].ls :
            /\ args[i].ls[j] = "x"
            /\ \A l \in 1..(j - 1) : args[i].ls[l] \notin WatchOptSpec.value \cup WatchOptSpec.optional

Cmd(prog, args) == [prog |-> prog, args |-> args]

From(args, i) == IF i \in DOMAIN args THEN {Cmd(args[i], SubSeq(args, i + 1, Len(args)))} ELSE {}

\* A line with shell syntax in it may run anything.
FromLine(line) ==
  IF ~line.safe THEN {Cmd(Bare("sudo"), <<>>)}
  ELSE IF line.toks = <<>> THEN {} ELSE {Cmd(Head(line.toks), Tail(line.toks))}

\* env: the values of its options, what follows "--", and the first token that is
\* no option, no value and no assignment.
EnvReading(a) ==
  LET takes == EnvValueOptions \cup {Short(<<"C">>), Long("chdir"), Short(<<"S">>)}
      isValue[i \in 0..Len(a)] == i > 1 /\ ~isValue[i - 1] /\ a[i - 1] \in takes
      Literal(i) == \E j \in 1..(i - 1) : a[j].k = "dd" /\ ~isValue[j]
      plain == {i \in DOMAIN a : ~isValue[i] /\ a[i].k # "assign" /\ (HasDash(a[i]) => Literal(i))}
      first == IF plain = {} THEN Len(a) + 1 ELSE Min(plain)
  IN [first |-> first,
      splits |-> {i \in 1..(first - 1) : /\ a[i].k = "short" /\ a[i].ls = <<"S">>
                                          /\ ~isValue[i] /\ ~Literal(i)}]

\* The first split string spliced into the arguments that follow it.
Spliced(a) ==
  LET SplitAt(i) ==
        LET sep == ~a[i].att
        IN IF sep /\ i = Len(a) THEN a
           ELSE (IF sep THEN AsLine(a[i + 1]) ELSE a[i].val).toks
                \o SubSeq(a, i + (IF sep THEN 2 ELSE 1), Len(a))
      First(splits) == IF splits = {} THEN a ELSE SplitAt(Min(splits))
  IN First(EnvReading(a).splits)

FromEnv(args) ==
  LET Read(a) == From(a, EnvReading(a).first)
  IN Read(Spliced(Spliced(Spliced(args))))

\* The program at the end of the chain of links is the one that runs.
Program(t) == IF t.k = "word" /\ t.dir # "" THEN Reached(t.w)[MaxSymlinkDepth] ELSE ProgramName(t)

\* The tokens before "--" that are no value of an option before them, when the
\* options for which Takes holds are followed by a value. Permuted: options and
\* operands may be mixed.
OptionsOf(args, Takes(_)) ==
  LET IsOption(i) == args[i].k \in {"short", "long"}
      isValue[i \in 0..Len(args)] == i > 1 /\ ~isValue[i - 1] /\ IsOption(i - 1) /\ Takes(args[i - 1])
  IN {i \in DOMAIN args : /\ IsOption(i) /\ ~isValue[i]
                          /\ \A j \in 1..i : isValue[j] \/ args[j].k # "dd"}

\* The command lines given to the options names, in the same token or in the next;
\* others are the options that take a value of another kind.
HelperLines(args, names, others) ==
  LET Stops(t) == {j \in DOMAIN t.ls : t.ls[j] \in names \cup others}
      Name(t) == IF t.k = "long" THEN t.n ELSE IF Stops(t) = {} THEN "" ELSE t.ls[Min(Stops(t))]
      Ends(t) == t.k = "long" \/ Min(Stops(t)) = Len(t.ls)
      Apart(t) == Ends(t) /\ ~(IF t.k = "long" THEN t.eq ELSE t.att)
      options == OptionsOf(args, LAMBDA t : Name(t) \in names \cup others /\ Apart(t))
      helpers == {i \in options : Name(args[i]) \in names}
      InToken(t) == IF Ends(t) THEN t.val ELSE AsLine(Bare("letters"))
  IN {InToken(args[i]) : i \in {j \in helpers : ~Apart(args[j])}}
     \cup {AsLine(args[i + 1]) : i \in {j \in helpers : Apart(args[j]) /\ j < Len(args)}}

\* ssh -o: the lines of the options that name a command.
ProxyLines(args) ==
  {[line EXCEPT !.toks = Tail(@)] :
     line \in {l \in HelperLines(args, {"o"}, {}) : l.toks # <<>> /\ ProgramName(Head(l.toks)) = "proxycommand"}}

\* taskset MASK COMMAND, taskset -c LIST COMMAND, taskset -p ... PID; -c takes the
\* list as its value, as analyzeTaskset documents it.
FromTaskset(args) ==
  LET First(t) == Min({j \in DOMAIN t.ls : t.ls[j] = "c"})
      IsList(t) == IF t.k = "long" THEN t.n = "cpu-list" ELSE ShortFlagInBundle(t, "c")
      Apart(t) == IsList(t) /\ (IF t.k = "long" THEN ~t.eq ELSE First(t) = Len(t.ls) /\ ~t.att)
      isValue[i \in 0..Len(args)] ==
        i > 1 /\ ~isValue[i - 1] /\ args[i - 1].k \in {"short", "long"} /\ Apart(args[i - 1])
      ends == {i \in DOMAIN args : ~isValue[i] /\ args[i].k \notin {"short", "long"}}
      end == IF ends = {} THEN Len(args) + 1 ELSE Min(ends)
      options == {args[i] : i \in {j \in 1..(end - 1) : ~isValue[j]}}
      operands == IF end \in DOMAIN args /\ args[end].k = "dd" THEN end + 1 ELSE end
  IN IF \E t \in options : t = Long("pid") \/ ShortFlagInBundle(t, "p") THEN {}
     ELSE From(args, IF \E t \in options : IsList(t) THEN operands ELSE operands + 1)

\* The kernel starts the interpreter of a script.
Scripted(c) == IsScript(c.prog)

Starts(c) ==
  LET args == c.args
      n == Len(args)
      After(spec, positionals) == UNION {From(args, i + positionals) : i \in OperandStarts(args, spec)}
      FromLines(lines) == UNION {FromLine(line) : line \in lines}
      Interpreted(line) == {Cmd(Head(line), Tail(line) \o <<c.prog>> \o args)}
      p == Program(c.prog)
  IN CASE Scripted(c) -> Interpreted(ShebangOf(c.prog))
       [] ~Scripted(c) /\ p \in DOMAIN WrapperSpecs -> After(WrapperSpecs[p].spec, WrapperSpecs[p].positionals)
       [] p = "taskset" -> FromTaskset(args)
       [] p = "rsync" -> FromLines(HelperLines(args, {"e", "rsh"}, {"port"}))
       [] p \in {"ssh", "scp"} -> FromLines(ProxyLines(args))
       [] p = "tar" -> FromLines(HelperLines(args, RemoteShellOptionPrefixes, {"C", "f", "directory"}))
       [] p = "ld.so" -> From(args, 1)
       [] p = "chroot" -> After(ChrootOptSpec, 1)
       [] p = "unshare" -> After(UnshareOptSpec, 0)
       [] p = "nsenter" -> After(NsenterOptSpec, 0)
       [] p = "xargs" -> After(XargsOptSpec, 0)
       [] p = "env" -> FromEnv(args)
       [] p = "find" -> UNION {From(args, i + 1) : i \in FindExecPrimaries(args)}
       [] p = "flock" ->
            UNION {IF i + 1 <= n /\ args[i + 1] = Short(<<"c">>)
                   THEN (IF i + 2 <= n THEN FromLine(AsLine(args[i + 2])) ELSE {})
                   ELSE From(args, i + 1) : i \in OperandStarts(args, FlockOptSpec)}
       [] p = "watch" ->
            UNION {IF ExecFlag(args, r) THEN From(args, r.start)
                   ELSE FromLine(Joined(SubSeq(args, r.start, n))) : r \in Readings(args, WatchOptSpec)}
       [] p = "ip" ->
            UNION {IF i + 1 <= n /\ ProgramName(args[i]) = "netns" /\ ProgramName(args[i + 1]) = "exec"
                   THEN From(args, i + 3) ELSE {} : i \in OperandStarts(args, IpOptSpec)}
       [] OTHER -> {}

\* Commands that run code which no argument names as a command: shell and
\* interpreter code, scripts of a package, the start script of a service.
RunsCode(c) ==
  LET p == Program(c.prog)
      Word(w) == \E i \in DOMAIN c.args : c.args[i] = Bare(w)
      Operand == \E i \in DOMAIN c.args : c.args[i].k \in {"word", "string"}
  IN \/ p \in ArbitraryCodeExecutionRunners
     \/ p = "npx"
     \/ p \in {"npm", "yarn"} /\ \E verb \in ScriptVerbs : Word(verb)
     \/ p = "service" /\ Operand

\* A "--" that tar takes as the value of an option, and the scan of the code for the
\* end of the options.
EndMarkAsValue(c) ==
  /\ Program(c.prog) = "tar"
  /\ \E i \in 2..Len(c.args) : c.args[i].k = "dd" /\ c.args[i - 1] \in RemoteShellValueOpts.tar

\* Everything a command may come to run, itself left out, down to maxRuns levels.
RunsBelow(c, maxRuns) ==
  LET upTo[d \in 0..maxRuns] ==
        IF d = 0 THEN {c} ELSE upTo[d - 1] \cup UNION {Starts(x) : x \in upTo[d - 1]}
  IN UNION {Starts(x) : x \in upTo[maxRuns]}

\* The command and everything it may come to run.
AllRuns(c, maxRuns) == {c} \cup RunsBelow(c, maxRuns)
=============================================================================
