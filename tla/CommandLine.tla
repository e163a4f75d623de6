---------------------------- MODULE CommandLine ----------------------------
(***************************************************************************)
(* Command lines as the risk evaluation reads them: the tokens of an argv, *)
(* the getopt-style scan that finds the first operand, and the set of      *)
(* names a command goes by (its own and those of the symbolic links it is  *)
(* reached through).                                                       *)
(*                                                                         *)
(* A token keeps the shape the scans look at, not its characters:          *)
(*   word    a token without a leading dash: a name in a directory         *)
(*           (dir = "" is a bare name, looked up in PATH when it runs)     *)
(*   short   -abc[value]: option letters and an attached value             *)
(*   long    --name or --name=value                                        *)
(*   assign  NAME=VALUE                                                    *)
(*   string  one token that is itself a command line                       *)
(*   dd, dash  "--" and "-"                                                *)
(***************************************************************************)
EXTENDS Naturals, Sequences, FiniteSetsExt

CONSTANTS Links,            \* symbolic links: name of a file -> name it points to
          Absent,           \* names of files that do not exist
          MaxSymlinkDepth   \* links followed before the chain is given up

ASSUME LinksAssumption == MaxSymlinkDepth \in Nat \ {0}

NoValue == [safe |-> TRUE, toks |-> <<>>]

Bare(w) == [k |-> "word", w |-> w, dir |-> ""]
InDir(d, w) == [k |-> "word", w |-> w, dir |-> d]
Short(ls) == [k |-> "short", ls |-> ls, val |-> NoValue, att |-> FALSE]
ShortWith(ls, v) == [k |-> "short", ls |-> ls, val |-> v, att |-> TRUE]
Long(n) == [k |-> "long", n |-> n, eq |-> FALSE, val |-> NoValue]
LongWith(n, v) == [k |-> "long", n |-> n, eq |-> TRUE, val |-> v]
AssignTo(n, t) == [k |-> "assign", n |-> n, val |-> t]
Assign(n) == AssignTo(n, Bare("x"))
Line(toks, safe) == [k |-> "string", safe |-> safe, toks |-> toks]
DashDash == [k |-> "dd"]
Dash == [k |-> "dash"]

HasDash(t) == t.k \in {"short", "long", "dd", "dash"}

\* The name a token has when it stands where a program is expected.
ProgramName(t) == IF t.k = "word" THEN t.w ELSE "no such program"

\* The command line a token has when it stands where one is expected.
AsLine(t) == IF t.k = "string" THEN [safe |-> t.safe, toks |-> t.toks]
             ELSE [safe |-> TRUE, toks |-> <<t>>]

----------------------------------------------------------------------------
(* Option grammars and the scan for the first operand.                     *)

OptSpec(value, optional, bool, unknown) ==
  [value |-> value, optional |-> optional, bool |-> bool,
   single |-> FALSE, unknown |-> unknown]

ClassifyShortOpt(l, spec) ==
  CASE l \in spec.value -> "value"
    [] l \in spec.optional -> "optional"
    [] l \in spec.bool -> "bool"
    [] OTHER -> "unknown"

\* The plausible slip: an option with an optional value takes the next token.
ScanShortClusterOptionalTakesNext(t, spec) ==
  LET stops == {j \in DOMAIN t.ls :
                  ClassifyShortOpt(t.ls[j], spec) \in {"value", "optional"}}
  IN IF stops = {} THEN [next |-> FALSE, ok |-> TRUE]
     ELSE [next |-> Min(stops) = Len(t.ls) /\ ~t.att, ok |-> TRUE]

\* A value option ends a cluster: as its last letter it takes the next token.
ScanShortCluster(t, spec) ==
  LET Stops(c) == c \in {"value", "optional"} \/ (c = "unknown" /\ spec.unknown = "anyUnknownIsUnreliable")
      stops == {j \in DOMAIN t.ls : Stops(ClassifyShortOpt(t.ls[j], spec))}
      At(j, c) == LET last == j = Len(t.ls) /\ ~t.att
                  IN [next |-> c = "value" /\ last, ok |-> c = "value" \/ (c = "optional" /\ last)]
      First(j) == At(j, ClassifyShortOpt(t.ls[j], spec))
  IN IF stops = {} THEN [next |-> FALSE, ok |-> TRUE] ELSE First(Min(stops))

LongName(t) == IF t.k = "long" THEN t.n
               ELSE IF Len(t.ls) = 1 THEN t.ls[1] ELSE "cluster"

\* idx is the position of the first operand (beyond the end when there is none).
SkipLeadingOptions(args, spec) ==
  LET Cluster(c) == IF ~c.ok THEN 0 ELSE IF c.next THEN 2 ELSE 1
      \* The tokens an option takes; 0 when that cannot be told.
      Length(t) ==
        IF t.k = "long" \/ spec.single
        THEN CASE t.k = "long" /\ t.eq -> 1
               [] LongName(t) \in spec.value -> 2
               [] LongName(t) \in spec.bool \cup spec.optional -> 1
               [] OTHER -> IF spec.unknown = "allUnknownAreBoolean" THEN 1 ELSE 0
        ELSE Cluster(ScanShortCluster(t, spec))
      scan[i \in 1..(Len(args) + 2)] ==
        CASE i > Len(args) -> [idx |-> i, ok |-> TRUE]
          [] i <= Len(args) /\ args[i].k = "dd" -> [idx |-> i + 1, ok |-> TRUE]
          [] i <= Len(args) /\ args[i].k \notin {"short", "long", "dd"} -> [idx |-> i, ok |-> TRUE]
          [] OTHER -> LET Over(n) == IF n = 0 THEN [idx |-> i + 1, ok |-> FALSE] ELSE scan[i + n]
                      IN Over(Length(args[i]))
  IN scan[1]

FirstOperand(args, spec) ==
  LET At(s) == IF ~s.ok \/ s.idx > Len(args) THEN "" ELSE ProgramName(args[s.idx])
  IN At(SkipLeadingOptions(args, spec))

LeadingClusterHasFlag(t, flag, spec) ==
  \E j \in DOMAIN t.ls :
    /\ t.ls[j] = flag
    /\ \A i \in 1..(j - 1) : ClassifyShortOpt(t.ls[i], spec) \notin {"value", "optional"}

ShortFlagInBundle(t, l) == t.k = "short" /\ \E j \in DOMAIN t.ls : t.ls[j] = l

\* Before "--": exact, or hidden in a bundle of short flags.
HasFlag(args, l) ==
  \E i \in DOMAIN args : /\ ShortFlagInBundle(args[i], l)
                         /\ \A j \in 1..i : args[j].k # "dd"

----------------------------------------------------------------------------
(* The names of a command.                                                 *)

\* The file reached after d links.
Reached(w) ==
  LET Follow(x) == IF x \in DOMAIN Links THEN Links[x] ELSE x
      at[d \in 0..MaxSymlinkDepth] == IF d = 0 THEN w ELSE Follow(at[d - 1])
  IN at

\* A bare name is not looked up in the file system. A cycle, a chain that is too
\* long and a link to nothing all leave the set of names incomplete.
WalkSymlinkChain(t) ==
  LET at == Reached(t.w)
      last == at[MaxSymlinkDepth - 1]
  IN IF t.k # "word" \/ t.dir = "" THEN [names |-> {ProgramName(t)}, err |-> FALSE]
     ELSE [names |-> {at[d] : d \in 0..(MaxSymlinkDepth - 1)},
           err |-> last \in DOMAIN Links \/ (last # t.w /\ last \in Absent)]

ResolveCommandNames(t) == WalkSymlinkChain(t)
=============================================================================
