-------------------------- MODULE MCRiskEvaluation --------------------------
(* Command lines of each tool, of an alphabet that has one option of each    *)
(* class; file operations in a small file system; names judged by            *)
(* themselves; and dry runs of a few commands.                               *)
EXTENDS RiskEvaluation

MCLinks == ("mysudo" :> "sudo") @@ ("timeout2" :> "xargs") @@ ("loop" :> "loop")
           @@ ("dangling" :> "gone") @@ ("mycp" :> "cp")
MCAbsent == {"gone"}

Shell(toks) == [safe |-> TRUE, toks |-> toks]

MCShebang == ("script" :> <<InDir("bin", "env"), Bare("python3")>>)
             @@ ("split" :> <<InDir("bin", "env"), ShortWith(<<"S">>, Shell(<<Bare("sudo")>>))>>)
             @@ ("listing" :> <<InDir("bin", "tool")>>) @@ ("shell" :> <<InDir("bin", "bash")>>)
             @@ ("nested" :> <<InDir("bin", "script")>>)

----------------------------------------------------------------------------
Node(type, uid) == [type |-> type, target |-> RelPath(<<>>), uid |-> uid, gid |-> 0,
                    gw |-> FALSE, ow |-> FALSE, sticky |-> FALSE, suid |-> FALSE]
LinkTo(path) == [Node("link", 0) EXCEPT !.target = path]

MCNodes ==
  (<<>> :> Node("dir", 0)) @@ (<<"etc">> :> Node("dir", 0)) @@ (<<"etc", "passwd">> :> Node("file", 0))
  @@ (<<"sys">> :> LinkTo(AbsPath(<<"real">>))) @@ (<<"real">> :> Node("dir", 0))
  @@ (<<"work">> :> Node("dir", 0)) @@ (<<"work", "d">> :> Node("dir", 1))
  @@ (<<"work", "d", "f">> :> Node("file", 1))
  @@ (<<"work", "d", "key">> :> LinkTo(AbsPath(<<"etc", "passwd">>)))
  @@ (<<"work", "d", "conf">> :> LinkTo(RelPath(<<"..", "..", "etc">>)))
  @@ (<<"work", "d", "round">> :> LinkTo(RelPath(<<"round">>)))
  @@ (<<"work", "d", "shut">> :> Node("denied", 0))
  @@ (<<"tmp">> :> [Node("dir", 0) EXCEPT !.ow = TRUE, !.sticky = TRUE])
  @@ (<<"home">> :> Node("dir", 0)) @@ (<<"home", "setuid">> :> [Node("file", 0) EXCEPT !.suid = TRUE])
  @@ (<<"dev">> :> Node("dir", 0)) @@ (<<"dev", "null">> :> Node("null", 0))
  @@ (<<"dev", "disk">> :> Node("block", 0))

MCPaths == ("." :> RelPath(<<>>)) @@ ("conf/new" :> RelPath(<<"conf", "new">>))
           @@ ("conf/../f" :> RelPath(<<"conf", "..", "f">>))
           @@ ("up" :> RelPath(<<"..", "..", "etc", "new">>))

MCZoning == [workDir |-> <<"work", "d">>, tempDir |-> <<"tmp", "run">>,
             critical |-> {<<"etc">>, <<"sys">>, <<>>, <<"dev">>}, trusted |-> {<<"work">>},
             sensitive |-> {<<"home", "id_rsa">>}, maxOperands |-> 2, maxHops |-> 2]

----------------------------------------------------------------------------
(* Alphabets. *)

InnerWords == {Bare("sudo"), Bare("ls"), InDir("bin", "mysudo")}

Wrapped(t) == InnerWords \cup
  CASE t = "timeout" -> {Short(<<"s">>), Short(<<"v", "s">>), Short(<<"s", "v">>), Long("signal"), Long("other"), DashDash, Bare("5")}
    [] t = "nice" -> {Short(<<"n">>), Bare("timeout"), Bare("nice"), Long("other")}
    [] t = "chrt" -> {Short(<<"T">>), Bare("5")}
    [] t = "taskset" -> {Short(<<"p">>), Short(<<"a", "c">>), Short(<<"c">>), ShortWith(<<"c">>, Shell(<<Bare("5")>>)),
                       Long("cpu-list"), Long("odd"), DashDash}
    [] t = "env" -> {Short(<<"i">>), Short(<<"u">>), Assign("PATH"), Assign("LD_PRELOAD"), DashDash, Bare("nice"),
                     ShortWith(<<"S">>, Shell(<<Bare("env"), Bare("ls")>>)), Short(<<"S">>),
                     Line(<<Bare("sudo"), Bare("ls")>>, TRUE), Short(<<"C">>)}
    [] t = "unshare" -> {Short(<<"m">>), Short(<<"m", "S">>), Short(<<"S">>), Short(<<"f", "S">>), Long("mount"), Long("x"), DashDash}
    [] t = "nsenter" -> {Short(<<"t">>), Short(<<"m">>), Long("all")}
    [] t = "watch" -> {Short(<<"x">>), Short(<<"n", "x">>), Short(<<"n">>), Short(<<"d">>), Short(<<"d", "x">>),
                       Line(<<Bare("ls"), Bare("sudo")>>, FALSE), Line(<<Bare("sudo"), Bare("ls")>>, TRUE)}
    [] t = "flock" -> {Bare("9"), Short(<<"c">>), Short(<<"w">>), Line(<<Bare("sudo"), Bare("ls")>>, TRUE), DashDash}
    [] t = "ip" -> {Bare("netns"), Bare("exec"), Short(<<"n">>), Long("json"), Long("odd")}
    [] t = "chroot" -> {Long("userspec"), Long("odd"), DashDash, LongWith("userspec", NoValue)}
    [] t = "xargs" -> {Short(<<"n">>), Long("odd")}
    [] t = "timeout2" -> {Bare("5")}
    [] t = "find" -> {Long("exec"), Long("delete")}
    [] t = "tar" -> {Long("to-command"), LongWith("to-command", Shell(<<Bare("sudo")>>)), DashDash, Short(<<"C">>), Short(<<"x">>)}
    [] t = "rsync" -> {Short(<<"e">>), Short(<<"a", "e">>), LongWith("rsh", Shell(<<Bare("sudo"), Bare("ls")>>)),
                       Long("port"), DashDash, Line(<<Bare("nice"), Bare("sudo")>>, TRUE), Bare("host:/path")}
    [] t = "ssh" -> {Short(<<"o">>), ShortWith(<<"o">>, Shell(<<Bare("proxycommand"), Bare("ls")>>)),
                     Line(<<Bare("proxycommand"), Bare("sudo")>>, TRUE)}
    [] t = "service" -> {Bare("cron"), Short(<<"x">>)}
    [] t = "ld.so" -> {Long("odd")}
    [] t \in {"npm", "yarn"} -> {Bare("run"), Bare("install"), Long("odd")}
    [] t = "bash" -> {Short(<<"c">>), DashDash}
    [] OTHER -> {}

WrapperTools == {"timeout", "nice", "chrt", "taskset", "env", "unshare", "nsenter", "watch", "flock", "ip",
                 "chroot", "xargs", "timeout2", "find", "tar", "rsync", "ssh", "service", "npm", "yarn",
                 "bash", "script", "split", "listing", "shell", "nested", "ld.so", "dangling", "loop", "sudo", "mysudo"}

Places == {Bare("f"), Bare("key"), Bare("conf/new"), InDir("etc", "passwd")}

FileArgs(t) == (IF t \in WrapperTools THEN {Bare("key"), InDir("etc", "passwd")} ELSE Places) \cup
  CASE t \in {"cp", "mycp"} -> {Short(<<"t">>), Short(<<"r">>), Short(<<"a">>), LongWith("target-directory", Shell(<<Bare("conf/new")>>)),
                      DashDash, Bare("conf/../f"), InDir("home", "setuid")}
    [] t = "mv" -> {Short(<<"f", "t">>), InDir("home", "id_rsa")}
    [] t = "rm" -> {Short(<<"r", "f">>), Long("odd"), Bare("up"), Bare("round"), Bare("shut"), InDir("sys", "k"), InDir("home", "h")}
    [] t = "ln" -> {Short(<<"s">>), Short(<<"t">>), Bare(".")}
    [] t = "sed" -> {Short(<<"i">>), Short(<<"e">>)}
    [] t = "mount" -> {Long("bind"), Bare("up")}
    [] t \in {"mkdir", "mknod"} -> {Short(<<"m">>), Bare("777"), Short(<<"p">>)}
    [] t = "tee" -> {Short(<<"a">>)}
    [] t = "install" -> {Short(<<"d">>), Short(<<"d", "v">>), Short(<<"m">>), Bare("4755"), Short(<<"t">>)}
    [] t = "tar" -> {Bare("xf"), Bare("tf"), Short(<<"x">>), Short(<<"C">>), ShortWith(<<"C">>, Shell(<<Bare("etc")>>)), Long("create"), Short(<<"f">>)}
    [] t = "unzip" -> {Short(<<"d">>), Short(<<"l">>)}
    [] t = "dd" -> {AssignTo("of", Bare("key")), AssignTo("of", Bare("f")), AssignTo("of", InDir("dev", "null")),
                    AssignTo("of", InDir("dev", "disk")), AssignTo("if", InDir("home", "id_rsa"))}
    [] t = "umount" -> {Short(<<"a">>), Short(<<"l">>)}
    [] t = "chmod" -> {Short(<<"r">>), Bare("777"), Bare("644")}
    [] t = "chown" -> {Short(<<"r">>), LongWith("reference", Shell(<<Bare("f")>>)), Bare("root")}
    [] t = "setfacl" -> {Short(<<"m">>), Bare("g:staff:rw")}
    [] t = "chattr" -> {Bare("+i"), Bare("+a"), Short(<<"p">>), Short(<<"R">>)}
    [] t = "find" -> {Long("delete"), Long("fprint")}
    [] t = "curl" -> {Short(<<"o">>), ShortWith(<<"o">>, Shell(<<InDir("etc", "passwd")>>)), Short(<<"O">>), Short(<<"T">>),
                    Bare("https://host")}
    [] t = "wget" -> {Short(<<"O">>), Short(<<"P">>), LongWith("post-file", Shell(<<InDir("home", "id_rsa")>>)), Dash}
    [] t \in {"rsync", "sftp"} -> {Short(<<"a">>), Bare("host:/path")}
    [] OTHER -> {}

FileTools == {"cp", "mycp", "mv", "rm", "ln", "sed", "mkdir", "mknod", "tee", "install", "tar", "unzip", "dd", "mount", "umount",
              "chmod", "chown", "setfacl", "chattr", "find", "curl", "wget", "rsync", "sftp"}

----------------------------------------------------------------------------
User == CommandOf(Bare("none"), <<>>).ident
Root == [User EXCEPT !.uid = 0]
Nobody == [User EXCEPT !.ok = FALSE]

Tool == CommandOf(InDir("bin", "tool"), <<>>)

MCRecords ==
  {BinaryRecord({"network"}, FALSE, {}, {}), BinaryRecord({}, TRUE, {}, {}), BinaryRecord({}, FALSE, {}, {"exec_unknown"})}
  \cup {BinaryRecord({}, FALSE, {[number |-> n, method |-> "direct_svc_0x80"]}, {"exec_not_set"}) : n \in {-1, 1, 41, 59}}

\* Code of up to four instructions before a syscall. The second byte of a long
\* instruction decodes as nothing or as a load.
Instruction(op, dst, src, val, len) == [op |-> op, dst |-> dst, src |-> src, val |-> val, len |-> len]
Straight ==
  {Instruction("imm", "rax", "", 59, 2), Instruction("imm", "rdx", "", 59, 2), Instruction("imm", "rdx", "", 10, 1),
   Instruction("imm", "rcx", "", 41, 2), Instruction("zero", "rdx", "", 0, 1), Instruction("copy", "rax", "rdx", 0, 1),
   Instruction("copy", "rdx", "rcx", 0, 1), Instruction("part", "rax", "", 0, 1), Instruction("mul", "", "", 0, 1),
   Instruction("imm", "rax", "", 999, 1)}
Protecting == {Instruction("imm", "rax", "", 10, 2), Instruction("imm", "rdx", "", 7, 1), Instruction("imm", "rdx", "", 3, 1),
               Instruction("cpuid", "", "", 0, 1), Instruction("read", "rdx", "", 0, 1), Instruction("call", "", "", 0, 2),
               Instruction("syscall", "", "", 0, 1)}
Jumps(n) == {Instruction(op, "", "", t, 1) : op \in {"jmp", "jcc"}, t \in 1..n}
Ends == {Instruction("ret", "", "", 0, 1), Instruction("other", "", "", 0, 2)}

Bad == Instruction("bad", "", "", 0, 1)
LoadRdx(val, len) == Instruction("imm", "rdx", "", val, len)
CopyToRax == Instruction("copy", "rax", "rdx", 0, 1)

\* Jumps name an instruction; here they are given its position.
Assembled(insts, inner) ==
  LET all == Append(insts, Instruction("syscall", "", "", 0, 1))
      at[i \in 1..(Len(all) + 1)] == IF i = 1 THEN 1 ELSE at[i - 1] + all[i - 1].len
      Placed(i) == [all[i] EXCEPT !.val = IF all[i].op \in {"jmp", "jcc"} THEN at[all[i].val] ELSE @] @@ ("at" :> at[i])
      Second(i) == inner @@ ("at" :> at[i] + 1)
  IN FlattenSeq([i \in DOMAIN all |-> IF all[i].len = 1 THEN <<Placed(i)>> ELSE <<Placed(i), Second(i)>>])

MCPrograms ==
  {Assembled(p, Bad) : p \in UNION {[1..n -> Straight \cup Jumps(n + 1) \cup Ends] : n \in 1..2}}
  \cup {Assembled(p, Bad) : p \in [1..3 -> Protecting]}
  \cup {Assembled(<<a, b, c, d>>, inner) :
          a \in Straight, b \in Straight \cup Jumps(5),
          c \in {LoadRdx(10, 1), LoadRdx(59, 2), Instruction("copy", "rdx", "rcx", 0, 1), CopyToRax,
                 Instruction("jmp", "", "", 5, 1), Instruction("other", "", "", 0, 2)},
          d \in {CopyToRax, LoadRdx(10, 1), Instruction("mul", "", "", 0, 1)}, inner \in {Bad, LoadRdx(10, 1)}}
  \cup {Assembled(<<Instruction("other", "", "", 0, 2), a, b, c, CopyToRax>>, Bad) :
          a \in {LoadRdx(10, 1), LoadRdx(59, 2)}, b \in Jumps(6), c \in {LoadRdx(59, 1), LoadRdx(10, 2), Instruction("other", "", "", 0, 1)}}

NamedCommands ==
  {CommandOf(InDir("coreutils", w), <<Bare("ls")>>) : w \in {"ls", "rm", "coreutils", "su", "broken"}}
  \cup {CommandOf(InDir("bin", w), a) :
          w \in {"git", "claude", "make", "mkfs", "apt", "tool", "nc", "rmdir"},
          a \in {<<>>, <<Short(<<"C">>), Bare("f"), Bare("push")>>, <<Bare("https://host")>>, <<Dash>>}}
  \cup {Tool, CommandOf(Bare("tool"), <<>>)}
  \cup {[CommandOf(InDir("bin", "rm"), <<p>>) EXCEPT !.ident = i] : p \in Places, i \in {Root, Nobody}}

MCCommands ==
  NamedCommands
  \cup {[Tool EXCEPT !.load = l] : l \in {"not found", "old schema", "other hash", "io error"}}
  \cup {[Tool EXCEPT !.record = r] : r \in MCRecords}
  \cup {[Tool EXCEPT !.code = p, !.record = AnalyzeSyscallsInCode(p)] : p \in MCPrograms}
  \cup {[Tool EXCEPT !.verified = "no record"], [Tool EXCEPT !.analysis = FALSE],
        [Tool EXCEPT !.opens = FALSE]}

MCAlphabet == [t \in WrapperTools \cup FileTools |->
                 CASE t \notin FileTools -> Wrapped(t)
                   [] t \notin WrapperTools -> FileArgs(t)
                   [] OTHER -> Wrapped(t) \cup FileArgs(t)]

\* The longest lines where an option, its value and what follows must meet.
MCMaxArgs == [t \in DOMAIN MCAlphabet |->
                IF t \in {"timeout", "nice", "chrt", "env", "unshare", "watch", "ip", "taskset", "nsenter", "xargs",
                          "cp", "rm", "sed", "install", "dd", "ln", "mv", "chmod", "flock", "tar", "rsync", "ssh", "unzip",
                          "chown", "setfacl", "chattr", "mknod", "curl", "wget"} THEN 3 ELSE 2]

MCPreviews == {Tool, [Tool EXCEPT !.record = BinaryRecord({"network"}, FALSE, {}, {})],
               [Tool EXCEPT !.load = "not found"], [Tool EXCEPT !.load = "io error"],
               [Tool EXCEPT !.verified = "no record"], [Tool EXCEPT !.verified = "mismatch"], [Tool EXCEPT !.analysis = FALSE],
               [Tool EXCEPT !.missing = TRUE], [Tool EXCEPT !.badLevel = TRUE], [Tool EXCEPT !.opens = FALSE]}

MCTokens ==
  LET written == {InDir("bin", t) : t \in DOMAIN MCAlphabet} \cup UNION {MCAlphabet[t] : t \in DOMAIN MCAlphabet}
                 \cup {c.argv.prog : c \in NamedCommands} \cup UNION {ToSet(c.argv.args) : c \in NamedCommands}
                 \cup UNION {ToSet(MCShebang[f]) : f \in DOMAIN MCShebang} \cup {Bare("letters")}
      Inside(t) == CASE t.k = "string" -> ToSet(t.toks) [] t.k \in {"short", "long"} -> ToSet(t.val.toks) [] OTHER -> {}
  IN written \cup UNION {Inside(t) : t \in written}
=============================================================================
