------------------------- MODULE DestinationZoning -------------------------
(***************************************************************************)
(* The second axis of the risk of a file operation: which files a command  *)
(* reads and writes, where they really are once every symbolic link is     *)
(* followed, and how far that place can be trusted. A path is a sequence   *)
(* of names; an operand is a token of CommandLine, a word with a directory *)
(* being an absolute path and any other a path relative to the working     *)
(* directory (longer ones are spelled out in Paths).                       *)
(***************************************************************************)
EXTENDS CommandProfiles, SequencesExt

CONSTANTS
  Paths,    \* words that are not a single component: word -> [abs, p]
  Nodes,    \* the file system: path -> [type, target, uid, gid, gw, ow, sticky, suid]
  Zoning    \* [workDir, tempDir, critical, trusted, sensitive, maxOperands, maxHops]

RelPath(p) == [abs |-> FALSE, p |-> p]
AbsPath(p) == [abs |-> TRUE, p |-> p]

OperandPath(t) ==
  CASE t.k = "word" /\ t.dir # "" -> AbsPath(<<t.dir, t.w>>)
    [] t.k = "word" /\ t.w \in DOMAIN Paths -> Paths[t.w]
    [] t.k = "word" -> RelPath(<<t.w>>)
    [] OTHER -> RelPath(<<"odd name">>)

----------------------------------------------------------------------------
(* getopt: flags by arity; canonical names, so an alias is its first name. *)

Flags(bool, value, optional, recursive) ==
  [bool |-> bool \cup recursive, value |-> value, optional |-> optional, recursive |-> recursive]

Canonical(n) == CASE n = "target-directory" -> "t" [] n = "recursive" -> "r"
                  [] n = "symbolic" -> "s" [] OTHER -> n

Mark(n, vals) == [n |-> n, vals |-> vals]

\* Exact names first: --name[=value], -x. A required value may be the next token.
MarkNamedFlag(flags, n, eq, val, args, i) ==
  CASE n \in flags.value /\ eq -> [marks |-> <<Mark(n, val.toks)>>, next |-> FALSE, ok |-> TRUE]
    [] n \in flags.value /\ i < Len(args) ->
         [marks |-> <<Mark(n, <<args[i + 1]>>)>>, next |-> TRUE, ok |-> TRUE]
    [] n \in flags.optional ->
         [marks |-> <<Mark(n, IF eq THEN val.toks ELSE <<>>)>>, next |-> FALSE, ok |-> TRUE]
    [] n \in flags.bool -> [marks |-> <<Mark(n, <<>>)>>, next |-> FALSE, ok |-> TRUE]
    [] OTHER -> [marks |-> <<>>, next |-> FALSE, ok |-> FALSE]

\* Letters up to the first that takes a value; the rest of the token is the value.
ParseShortCluster(flags, args, i) ==
  LET t == args[i]
      stops == {j \in DOMAIN t.ls : t.ls[j] \notin flags.bool}
      j == Min(stops)
      Before(k) == [l \in 1..k |-> Mark(t.ls[l], <<>>)]
      Stop(vals, next, ok) == [marks |-> Before(j - 1) \o (IF ok THEN <<Mark(t.ls[j], vals)>> ELSE <<>>),
                               next |-> next, ok |-> ok]
      required == t.ls[j] \in flags.value
  IN CASE stops = {} -> [marks |-> Before(Len(t.ls)), next |-> FALSE, ok |-> TRUE]
       [] t.ls[j] \notin flags.value \cup flags.optional -> Stop(<<>>, FALSE, FALSE)
       [] j < Len(t.ls) -> Stop(<<Bare("letters")>>, FALSE, TRUE)
       [] t.att -> Stop(t.val.toks, FALSE, TRUE)
       [] required /\ i < Len(args) -> Stop(<<args[i + 1]>>, TRUE, TRUE)
       [] OTHER -> Stop(<<>>, FALSE, ~required)

ParseFlagToken(flags, args, i) ==
  IF args[i].k = "long"
  THEN MarkNamedFlag(flags, Canonical(args[i].n), args[i].eq, args[i].val, args, i)
  ELSE ParseShortCluster(flags, args, i)

\* Operands and options may be mixed; after "--" everything is an operand.
ParseArgs(flags, args) ==
  LET AddFlag(rest, f) ==
        [rest EXCEPT !.marks = f.marks \o @, !.ok = @ /\ f.ok,
                     !.recursive = @ \/ \E i \in DOMAIN f.marks : f.marks[i].n \in flags.recursive]
      scan[i \in 1..(Len(args) + 2), endOpts \in BOOLEAN] ==
        LET dd == ~endOpts /\ args[i].k = "dd"
            operand == endOpts \/ args[i].k \notin {"short", "long", "dd"}
            f == ParseFlagToken(flags, args, i)
            rest == scan[IF ~dd /\ ~operand /\ f.next THEN i + 2 ELSE i + 1, endOpts \/ dd]
        IN CASE i > Len(args) -> [marks |-> <<>>, pos |-> <<>>, ok |-> TRUE, recursive |-> FALSE]
             [] i <= Len(args) /\ operand -> [rest EXCEPT !.pos = <<args[i]>> \o @]
             [] OTHER -> IF dd THEN rest ELSE AddFlag(rest, f)
  IN scan[1, FALSE]

HasMark(pr, n) == \E i \in DOMAIN pr.marks : pr.marks[i].n = n

ValuesOf(pr, n) ==
  FlattenSeq([i \in DOMAIN pr.marks |-> IF pr.marks[i].n = n THEN pr.marks[i].vals ELSE <<>>])

\* Whole tokens of the raw argv only: a letter in a cluster is not seen.
HasAny(args, ns) ==
  \E i \in DOMAIN args : \/ args[i].k = "long" /\ args[i].n \in ns
                         \/ args[i].k = "short" /\ Len(args[i].ls) = 1 /\ ~args[i].att /\ args[i].ls[1] \in ns

----------------------------------------------------------------------------
(* Which files a command line reads and writes, one extraction per grammar.*)

CopyFlags(recursive) == Flags({"f"}, {"t", "S"}, {"backup"}, recursive)
TarFlagSet == Flags({"x", "t", "c", "v", "extract", "list", "create"}, {"f", "C", "file", "directory"},
                    {"one-top-level"}, {})
CurlFlags == Flags({"s", "O"}, {"o", "T"}, {}, {})
WgetFlags == Flags({"q"}, {"O", "P", "post-file"}, {}, {})
RsyncFlags == Flags({"a"}, {"e", "rsh"}, {}, {})

\* One or two commands of each kind, each flag class of their grammar.
CommandFlagSpecs ==
  [cp |-> [kind |-> "copyMove", flags |-> CopyFlags({"r", "a"})],
   mv |-> [kind |-> "copyMove", flags |-> CopyFlags({})],
   rm |-> [kind |-> "remove", flags |-> Flags({"f"}, {}, {}, {"r"})],
   ln |-> [kind |-> "link", flags |-> Flags({"f", "s"}, {"t", "S"}, {"backup"}, {})],
   sed |-> [kind |-> "inPlaceEdit", flags |-> Flags({"n"}, {"e", "f"}, {"i"}, {})],
   mkdir |-> [kind |-> "writeFile", flags |-> Flags({"p"}, {"m"}, {"context"}, {})],
   tee |-> [kind |-> "writeFile", flags |-> Flags({"a"}, {}, {}, {})],
   install |-> [kind |-> "writeFile", flags |-> Flags({"d", "v"}, {"m", "o", "t"}, {"backup"}, {})],
   tar |-> [kind |-> "archiveExtract", flags |-> TarFlagSet],
   unzip |-> [kind |-> "archiveExtract", flags |-> Flags({"o", "q"}, {"d", "x"}, {}, {})],
   dd |-> [kind |-> "deviceIO", flags |-> Flags({}, {}, {}, {})],
   mknod |-> [kind |-> "writeFile", flags |-> Flags({}, {"m"}, {}, {})],
   mount |-> [kind |-> "mount", flags |-> Flags({"bind"}, {"o"}, {}, {})],
   umount |-> [kind |-> "mount", flags |-> Flags({"a", "l"}, {"O"}, {}, {})],
   chmod |-> [kind |-> "permission", flags |-> Flags({"v"}, {}, {}, {"r"})],
   chown |-> [kind |-> "permission", flags |-> Flags({"v"}, {"reference"}, {}, {"r"})],
   setfacl |-> [kind |-> "permission", flags |-> Flags({"b"}, {"m"}, {}, {"r"})],
   chattr |-> [kind |-> "permission", flags |-> Flags({"R"}, {"p"}, {}, {})],
   find |-> [kind |-> "findDestructive", flags |-> Flags({}, {}, {}, {})],
   curl |-> [kind |-> "dataTransfer", flags |-> CurlFlags],
   wget |-> [kind |-> "dataTransfer", flags |-> WgetFlags],
   rsync |-> [kind |-> "dataTransfer", flags |-> RsyncFlags],
   sftp |-> [kind |-> "dataTransfer", flags |-> Flags({}, {}, {}, {})]]

\* The name the command was called by, else any name of the chain (the code takes
\* them in no particular order).
LookupSpec(t, names) ==
  IF ProgramName(t) \in DOMAIN CommandFlagSpecs THEN {ProgramName(t)}
  ELSE names \cap DOMAIN CommandFlagSpecs

Op(t, role) == [path |-> OperandPath(t), role |-> role, base |-> RelPath(<<>>)]
Ops(toks, role) == [i \in DOMAIN toks |-> Op(toks[i], role)]
Here == Bare(".")

Extraction(ok, ops) ==
  [applies |-> TRUE, recognized |-> ok, recursive |-> FALSE, grants |-> FALSE,
   preserve |-> FALSE, umountAll |-> FALSE, egress |-> FALSE, ops |-> ops]

NotAWrite == [Extraction(TRUE, <<>>) EXCEPT !.applies = FALSE]

\* setuid, setgid or world-writable, octal or symbolic.
ChmodGrantsHigh(t) == ProgramName(t) \in {"4755", "777", "u+s", "o+w"}

\* write permission for a group or for others
AclGrantsWrite(t) == ProgramName(t) = "g:staff:rw"

GrantsMode(pr) == \E i \in DOMAIN ValuesOf(pr, "m") : ChmodGrantsHigh(ValuesOf(pr, "m")[i])

FirstValue(lists) == LET some == SelectSeq(lists, LAMBDA l : l # <<>>)
                     IN IF some = <<>> THEN <<>> ELSE <<Head(Head(some))>>

\* The destination last, or the directory of -t; mv removes its sources.
ExtractCopyMove(pr, args, isMove) ==
  LET src == IF isMove THEN "write" ELSE "read"
      dirs == ValuesOf(pr, "t")
      n == Len(pr.pos)
      ext == IF dirs # <<>> THEN Extraction(pr.ok /\ n > 0, Ops(dirs, "write") \o Ops(pr.pos, src))
             ELSE IF n = 0 THEN Extraction(FALSE, <<>>)
             ELSE Extraction(pr.ok, <<Op(Last(pr.pos), "write")>> \o Ops(Front(pr.pos), src))
  IN [ext EXCEPT !.recursive = pr.recursive,
                 !.preserve = HasAny(args, {"a", "p", "archive", "preserve"})]

ExtractAllWrite(pr) ==
  [Extraction(pr.ok /\ pr.pos # <<>>, Ops(pr.pos, "write")) EXCEPT !.recursive = pr.recursive]

\* The target of a symbolic link is relative to the directory the link is put in.
ExtractLink(pr, args) ==
  LET n == Len(pr.pos)
      dirs == ValuesOf(pr, "t")
      link == OperandPath(Last(pr.pos))
      base == CASE ~HasAny(args, {"s", "symbolic"}) -> RelPath(<<>>)
                [] n > 2 -> link
                [] OTHER -> [link EXCEPT !.p = IF @ = <<>> THEN @ ELSE Front(@)]
      Implicit(t) == LET p == OperandPath(t).p
                     IN [Op(t, "write") EXCEPT !.path = RelPath(IF p = <<>> THEN p ELSE <<Last(p)>>)]
  IN CASE dirs # <<>> -> Extraction(pr.ok /\ n > 0, Ops(dirs, "write") \o Ops(pr.pos, "read"))
       [] n = 0 -> Extraction(FALSE, <<>>)
       [] n = 1 -> Extraction(pr.ok, <<Op(pr.pos[1], "read"), Implicit(pr.pos[1])>>)
       [] OTHER -> Extraction(pr.ok, [i \in 1..(n - 1) |-> [Op(pr.pos[i], "read") EXCEPT !.base = base]]
                                     \o <<Op(Last(pr.pos), "write")>>)

\* Only -i edits files; without -e or -f the first operand is the script.
ExtractSed(args) ==
  LET InPlace(t) == (t.k = "short" /\ t.ls[1] = "i") \/ (t.k = "long" /\ t.n = "in-place")
      Parsed(pr) ==
        LET script == IF HasMark(pr, "e") \/ HasMark(pr, "f") THEN 0 ELSE 1
        IN IF Len(pr.pos) <= script THEN Extraction(FALSE, <<>>)
           ELSE Extraction(pr.ok, Ops(SubSeq(pr.pos, script + 1, Len(pr.pos)), "write"))
  IN IF ~\E i \in DOMAIN args : InPlace(args[i]) THEN NotAWrite
     ELSE Parsed(ParseArgs(Flags({"n"}, {"e", "f"}, {}, {}), SelectSeq(args, LAMBDA t : ~InPlace(t))))

ExtractSimpleWrite(pr) ==
  [Extraction(pr.ok /\ pr.pos # <<>>, Ops(pr.pos, "write")) EXCEPT !.grants = GrantsMode(pr)]

ExtractTee(pr) == IF pr.pos = <<>> THEN NotAWrite ELSE Extraction(pr.ok, Ops(pr.pos, "write"))

ExtractInstall(pr, args) ==
  LET n == Len(pr.pos)
      dirs == ValuesOf(pr, "t")
      ext == CASE n = 0 -> Extraction(FALSE, IF HasAny(args, {"d"}) THEN <<>> ELSE Ops(dirs, "write"))
               [] HasAny(args, {"d"}) -> Extraction(pr.ok, Ops(pr.pos, "write"))
               [] dirs # <<>> -> Extraction(pr.ok, Ops(dirs, "write") \o Ops(pr.pos, "read"))
               [] OTHER -> Extraction(pr.ok, <<Op(Last(pr.pos), "write")>> \o Ops(Front(pr.pos), "read"))
  IN [ext EXCEPT !.grants = GrantsMode(pr) \/ HasMark(pr, "o")]

\* tar's first word may be a bundle of letters without a dash.
NormalizeTarArgs(args) ==
  IF args = <<>> THEN args
  ELSE [args EXCEPT ![1] = CASE @.k = "word" /\ @.w = "xf" -> Short(<<"x", "f">>)
                             [] @.k = "word" /\ @.w = "tf" -> Short(<<"t", "f">>)
                             [] @.k = "word" -> Short(<<"unknown letters">>)
                             [] OTHER -> @]

\* The first mode letter of the first token that has one, letters of an attached
\* value included (ValueLetter: what the characters of the value hold).
ValueLetter(val) ==
  IF val.toks # <<>> /\ ProgramName(Head(val.toks)) = "etc" THEN "t" ELSE ""

TarMode(args) ==
  LET toks == NormalizeTarArgs(args)
      Modes(t) == SelectSeq(t.ls \o (IF t.att THEN <<ValueLetter(t.val)>> ELSE <<>>),
                            LAMBDA l : l \in {"x", "t", "c"})
      ModeOf(t) == CASE t.k = "long" /\ t.n = "extract" -> "x"
                     [] t.k = "long" /\ t.n = "list" -> "t"
                     [] t.k = "long" /\ t.n = "create" -> "c"
                     [] t.k = "short" -> IF Modes(t) = <<>> THEN "" ELSE Head(Modes(t))
                     [] OTHER -> ""
      bearing == {i \in DOMAIN toks : ModeOf(toks[i]) # ""}
  IN IF bearing = {} THEN "" ELSE ModeOf(toks[Min(bearing)])

ExtractTar(args) ==
  LET Parsed(pr, mode) ==
        LET dir == FirstValue(<<ValuesOf(pr, "C"), ValuesOf(pr, "directory"), ValuesOf(pr, "one-top-level"), <<Here>> >>)
            archive == FirstValue(<<ValuesOf(pr, "f"), ValuesOf(pr, "file")>>)
        IN CASE mode = "t" -> NotAWrite
             [] mode = "x" -> Extraction(pr.ok, Ops(dir, "write"))
             [] mode = "c" -> Extraction(pr.ok, SelectSeq(Ops(archive, "write"), LAMBDA o : archive # <<Dash>>))
             [] OTHER -> Extraction(FALSE, <<>>)
  IN Parsed(ParseArgs(CommandFlagSpecs.tar.flags, NormalizeTarArgs(args)), TarMode(args))

ExtractUnzip(pr, args) ==
  IF HasAny(args, {"l", "Z"}) THEN NotAWrite
  ELSE Extraction(pr.ok, Ops(FirstValue(<<ValuesOf(pr, "d"), <<Here>> >>), "write"))

\* dd's own if= and of=: the operand of an assign token is the word the token has.
ExtractDD(args) ==
  LET Is(n, t) == t.k = "assign" /\ t.n = n
      named == SelectSeq(args, LAMBDA t : Is("of", t) \/ Is("if", t))
      ok == \A i \in DOMAIN args : args[i].k = "assign"
  IN IF named = <<>> /\ ok THEN NotAWrite
     ELSE Extraction(ok, [i \in DOMAIN named |->
                            Op(named[i].val, IF Is("of", named[i]) THEN "write" ELSE "read")])

ExtractMknod(pr) ==
  [Extraction(pr.ok /\ pr.pos # <<>>, IF pr.pos = <<>> THEN <<>> ELSE <<Op(pr.pos[1], "write")>>)
     EXCEPT !.grants = GrantsMode(pr)]

ExtractUmount(pr, args) ==
  LET all == HasAny(args, {"a", "all"})
  IN [Extraction(pr.ok /\ (pr.pos # <<>> \/ all), Ops(pr.pos, "write")) EXCEPT !.umountAll = all]

ExtractChmod(pr) ==
  IF Len(pr.pos) < 2 THEN [Extraction(FALSE, <<>>) EXCEPT !.recursive = pr.recursive]
  ELSE [Extraction(pr.ok, Ops(Tail(pr.pos), "write"))
          EXCEPT !.recursive = pr.recursive, !.grants = ChmodGrantsHigh(pr.pos[1])]

ExtractOwner(pr) ==
  LET targets == IF HasMark(pr, "reference") \/ pr.pos = <<>> THEN pr.pos ELSE Tail(pr.pos)
  IN [Extraction(pr.ok /\ targets # <<>>, Ops(targets, "write")) EXCEPT !.recursive = pr.recursive]

ExtractSetfacl(pr) ==
  [ExtractAllWrite(pr)
     EXCEPT !.grants = \E i \in DOMAIN ValuesOf(pr, "m") : AclGrantsWrite(ValuesOf(pr, "m")[i])]

\* Attribute tokens (+i, =a) are modes, not options; whole tokens only.
IsChattrMode(t) == t.k = "word" /\ t.w \in {"+i", "+a"}

ExtractChattr(args) ==
  LET scan[i \in 1..(Len(args) + 2)] ==
        IF i > Len(args) THEN [ok |-> TRUE, targets |-> <<>>]
        ELSE LET t == args[i] IN
          CASE IsChattrMode(t) \/ t = Short(<<"R">>) -> scan[i + 1]
            [] t = Short(<<"p">>) -> [scan[i + 2] EXCEPT !.ok = @ /\ i < Len(args)]
            [] HasDash(t) -> [scan[i + 1] EXCEPT !.ok = FALSE]
            [] OTHER -> [scan[i + 1] EXCEPT !.targets = <<t>> \o @]
      mode == \E i \in DOMAIN args : IsChattrMode(args[i])
  IN [Extraction(scan[1].ok /\ mode /\ scan[1].targets # <<>>, Ops(scan[1].targets, "write"))
        EXCEPT !.grants = \E i \in DOMAIN args : IsChattrMode(args[i]) /\ args[i].w = "+i"]

\* find writes under its roots with -delete and to the file of -fprint.
ExtractFind(args) ==
  LET dashed == {i \in DOMAIN args : HasDash(args[i])}
      first == IF dashed = {} THEN Len(args) + 1 ELSE Min(dashed)
      roots == IF first = 1 THEN <<Here>> ELSE SubSeq(args, 1, first - 1)
      scan[i \in 1..(Len(args) + 2)] ==
        CASE i > Len(args) -> [files |-> <<>>, del |-> FALSE, ok |-> TRUE]
          [] i = Len(args) /\ args[i] = Long("fprint") -> [files |-> <<>>, del |-> TRUE, ok |-> FALSE]
          [] args[i] = Long("fprint") ->
               [scan[i + 2] EXCEPT !.files = <<args[i + 1]>> \o @, !.del = TRUE]
          [] args[i] = Long("delete") -> [scan[i + 1] EXCEPT !.del = TRUE]
          [] OTHER -> scan[i + 1]
      r == scan[first]
  IN IF ~r.del THEN NotAWrite ELSE Extraction(r.ok, Ops(r.files \o roots, "write"))

\* host:path with no slash before the colon, or a URL.
IsRemoteTerminus(t) == ProgramName(t) \in {"https://host", "user@host:file", "host:/path"}

ExtractCurl(pr, args) ==
  LET out == FirstValue(<<ValuesOf(pr, "o")>>)
      up == SelectSeq(ValuesOf(pr, "T"), LAMBDA t : t # Dash)
  IN Extraction(pr.ok, (CASE out # <<>> /\ out # <<Dash>> -> Ops(out, "write")
                          [] HasAny(args, {"O"}) -> <<Op(Here, "write")>>
                          [] OTHER -> <<>>) \o Ops(up, "read"))

ExtractWget(pr) ==
  LET out == FirstValue(<<ValuesOf(pr, "O"), ValuesOf(pr, "P"), <<Here>> >>)
      piped == ValuesOf(pr, "O") # <<>> /\ Head(ValuesOf(pr, "O")) = Dash
      up == SelectSeq(ValuesOf(pr, "post-file"), LAMBDA t : t # Dash)
  IN Extraction(pr.ok, (IF piped THEN <<>> ELSE Ops(out, "write")) \o Ops(up, "read"))

ExtractRemoteCopy(pr) ==
  LET Local(toks) == SelectSeq(toks, LAMBDA t : ~IsRemoteTerminus(t))
  IN IF Len(pr.pos) < 2 THEN Extraction(FALSE, <<>>)
     ELSE [Extraction(pr.ok, Ops(Local(<<Last(pr.pos)>>), "write") \o Ops(Local(Front(pr.pos)), "read"))
             EXCEPT !.egress = IsRemoteTerminus(Last(pr.pos))]

ExtractSftp == [Extraction(TRUE, <<>>) EXCEPT !.egress = TRUE]

ToExtraction(name, args) ==
  LET Parsed(pr) ==
    CASE name \in {"cp", "mv"} -> ExtractCopyMove(pr, args, name = "mv")
      [] name \in {"rm", "mount"} -> ExtractAllWrite(pr)
      [] name = "ln" -> ExtractLink(pr, args)
      [] name = "sed" -> ExtractSed(args)
      [] name = "mkdir" -> ExtractSimpleWrite(pr)
      [] name = "tee" -> ExtractTee(pr)
      [] name = "install" -> ExtractInstall(pr, args)
      [] name = "tar" -> ExtractTar(args)
      [] name = "unzip" -> ExtractUnzip(pr, args)
      [] name = "dd" -> ExtractDD(args)
      [] name = "mknod" -> ExtractMknod(pr)
      [] name = "umount" -> ExtractUmount(pr, args)
      [] name = "chmod" -> ExtractChmod(pr)
      [] name = "chown" -> ExtractOwner(pr)
      [] name = "setfacl" -> ExtractSetfacl(pr)
      [] name = "chattr" -> ExtractChattr(args)
      [] name = "find" -> ExtractFind(args)
      [] name = "curl" -> ExtractCurl(pr, args)
      [] name = "wget" -> ExtractWget(pr)
      [] name = "rsync" -> ExtractRemoteCopy(pr)
      [] OTHER -> ExtractSftp
  IN Parsed(ParseArgs(CommandFlagSpecs[name].flags, args))

----------------------------------------------------------------------------
(* Where a path really is.                                                 *)

\* Lexical: a ".." takes the component before it away, whatever that is.
Clean(p) ==
  FoldLeft(LAMBDA acc, c : IF c # ".." THEN Append(acc, c)
                           ELSE IF acc = <<>> THEN acc ELSE Front(acc), <<>>, p)

Under(base, path) == IF path.abs THEN Clean(path.p) ELSE Clean(base \o path.p)

\* The plausible slip: the path as it is written.
ResolveLexically(p) == [ok |-> TRUE, path |-> p]

\* Component by component from the root; a link starts over with its target in
\* front of the rest; what does not exist is appended to the last real directory.
Resolve(p) ==
  LET Result(ok, path) == [ok |-> ok, path |-> path]
      walk[dest \in Seq(STRING), rest \in Seq(STRING), hops \in Nat] ==
        LET node == Append(dest, Head(rest)) IN
        CASE rest = <<>> -> Result(TRUE, dest)
          [] rest # <<>> /\ node \notin DOMAIN Nodes ->
               Result(dest = <<>> \/ Nodes[dest].type = "dir", dest \o rest)
          [] rest # <<>> /\ node \in DOMAIN Nodes /\ Nodes[node].type = "denied" -> Result(FALSE, node)
          [] rest # <<>> /\ node \in DOMAIN Nodes /\ Nodes[node].type = "link" ->
               IF hops = Zoning.maxHops THEN Result(FALSE, node)
               ELSE walk[<<>>, Under(dest, Nodes[node].target) \o Tail(rest), hops + 1]
          [] OTHER -> walk[node, Tail(rest), hops]
  IN walk[<<>>, p, 0]

\* Configured roots are resolved the same way; one that cannot be stays as written.
ResolveRoot(p) == IF Resolve(p).ok THEN Resolve(p).path ELSE p

Within(p, dir) == IsPrefix(dir, p)

\* Root writes anything, an owner his own; a sticky directory keeps others' entries.
IsWritableByRunAs(info, ident) ==
  \/ ident.uid = 0
  \/ info.uid = ident.uid
  \/ /\ (info.gw /\ info.gid \in ident.gids) \/ info.ow
     /\ ~(info.type = "dir" /\ info.sticky)

\* Inside a trusted directory, and no directory above the origin can be replaced.
IsTrustedOperand(p, origin, ident) ==
  /\ \E d \in Zoning.trusted : Within(p, d)
  /\ \A n \in 0..(IF origin = <<>> THEN 0 ELSE Len(origin) - 1) :
       LET dir == SubSeq(origin, 1, n)
       IN dir \in DOMAIN Nodes /\ ~IsWritableByRunAs(Nodes[dir], ident)

InCritical(p) ==
  \E c \in Zoning.critical : LET r == ResolveRoot(c) IN IF r = <<>> THEN p = <<>> ELSE Within(p, r)

ClassifyZone(p, ident) ==
  LET origins == {ResolveRoot(o) : o \in {Zoning.workDir, Zoning.tempDir}}
      holding == {o \in origins : Within(p, o)}
      first == IF ResolveRoot(Zoning.workDir) \in holding THEN ResolveRoot(Zoning.workDir)
               ELSE CHOOSE o \in holding : TRUE
  IN CASE InCritical(p) -> [zone |-> "critical", trusted |-> FALSE]
       [] holding # {} -> [zone |-> "safe", trusted |-> IsTrustedOperand(p, first, ident)]
       [] OTHER -> [zone |-> "ordinary", trusted |-> FALSE]

\* ident.ok is FALSE when the run-as identity could not be looked up.
ClassifyOperand(op, ident) ==
  LET r == Resolve(Under(Under(Zoning.workDir, op.base), op.path))
  IN IF ~ident.ok \/ ~r.ok THEN [zone |-> "unresolved", trusted |-> FALSE, path |-> <<>>, role |-> op.role]
     ELSE ClassifyZone(r.path, ident) @@ [path |-> r.path, role |-> op.role]

ZoneLevel(oz) ==
  CASE oz.zone \in {"critical", "unresolved"} -> IF oz.role = "read" THEN Medium ELSE High
    [] oz.zone = "safe" /\ oz.trusted -> Low
    [] OTHER -> Medium

----------------------------------------------------------------------------
(* Floors of the operation and of devices.                                 *)

NodeIs(oz, types) == oz.path \in DOMAIN Nodes /\ Nodes[oz.path].type \in types

MatchesSensitive(oz) == oz.path \in Zoning.sensitive

SourceIsPrivileged(oz) == oz.path \in DOMAIN Nodes /\ (Nodes[oz.path].suid \/ Nodes[oz.path].uid = 0)

SensitiveRead(oz) == oz.role = "read" /\ (oz.zone = "critical" \/ MatchesSensitive(oz))

OperandFloor(oz, kind, ext) ==
  Max({Low,
       IF ext.grants /\ oz.role = "write" THEN High ELSE Low,
       IF kind = "link" /\ oz.zone = "critical" THEN High ELSE Low,
       IF ext.recursive /\ oz.role = "write" /\ oz.zone # "safe" THEN High ELSE Low,
       IF kind = "copyMove" /\ oz.role = "read" /\ ext.preserve /\ SourceIsPrivileged(oz) THEN High ELSE Low,
       IF kind \in {"copyMove", "dataTransfer"} /\ SensitiveRead(oz) THEN Medium ELSE Low})

\* A harmless character device is Low, any other device High, a file by its zone.
DeviceOperandLevel(oz) ==
  CASE oz.zone = "unresolved" -> ZoneLevel(oz)
    [] oz.zone # "unresolved" /\ NodeIs(oz, {"null"}) -> Low
    [] oz.zone # "unresolved" /\ NodeIs(oz, {"block", "char"}) -> High
    [] OTHER -> MaxLevel(ZoneLevel(oz), IF SensitiveRead(oz) THEN Medium ELSE Low)

\* Whatever is not understood, or cannot be resolved, is High.
JudgeOperands(ext, kind, zones) ==
  LET LevelOf(oz) == IF kind = "deviceIO" THEN DeviceOperandLevel(oz)
                     ELSE MaxLevel(ZoneLevel(oz), OperandFloor(oz, kind, ext))
      recognized == ext.recognized /\ \A i \in DOMAIN zones : zones[i].zone # "unresolved"
  IN [applies |-> TRUE, recognized |-> recognized,
      level |-> Max({Low, IF ext.umountAll \/ ~recognized THEN High ELSE Low, IF ext.egress THEN Medium ELSE Low}
                    \cup {LevelOf(zones[i]) : i \in DOMAIN zones})]

JudgeExtraction(ext, kind, ident) ==
  CASE ~ext.applies -> [applies |-> FALSE, recognized |-> FALSE, level |-> Unknown]
    [] ext.applies /\ Len(ext.ops) > Zoning.maxOperands -> [applies |-> TRUE, recognized |-> FALSE, level |-> High]
    [] OTHER -> JudgeOperands(ext, kind, [i \in DOMAIN ext.ops |-> ClassifyOperand(ext.ops[i], ident)])

ClassifyDestinationZone(name, args, ident) ==
  JudgeExtraction(ToExtraction(name, args), CommandFlagSpecs[name].kind, ident)
=============================================================================
