-------------------------- MODULE CommandProfiles --------------------------
(***************************************************************************)
(* The name-based dimensions of the risk of a command: the risk profiles,  *)
(* destructive and system-modifying names, dangerous argument patterns,    *)
(* runners of arbitrary code, network arguments and the single-binary      *)
(* coreutils. Each name list is cut down to one or two names per group.    *)
(***************************************************************************)
EXTENDS CommandLine

CONSTANTS Setuid,           \* files that carry a setuid or setgid bit
          Unstatable        \* files whose stat fails

Unknown == 0
Low == 1
Medium == 2
High == 3
Critical == 4
Levels == Unknown..Critical

MaxLevel(a, b) == IF a > b THEN a ELSE b

----------------------------------------------------------------------------
(* Risk profiles.                                                          *)

Profile(priv, net, destr, exfil, type, subs) ==
  [priv |-> priv, net |-> net, destr |-> destr, exfil |-> exfil,
   type |-> type, subs |-> subs]

CommandRiskProfiles ==
  [sudo |-> Profile(Critical, 0, 0, 0, "none", {}),
   systemctl |-> Profile(0, 0, 0, 0, "none", {}),
   service |-> Profile(0, 0, 0, 0, "none", {}),
   rm |-> Profile(0, 0, High, 0, "none", {}),
   dd |-> Profile(0, 0, High, 0, "none", {}),
   claude |-> Profile(0, High, 0, High, "always", {}),
   curl |-> Profile(0, Medium, 0, 0, "always", {}),
   ssh |-> Profile(0, Medium, 0, 0, "always", {}),
   python3 |-> Profile(0, Medium, 0, 0, "always", {}),
   git |-> Profile(0, Medium, 0, 0, "conditional", {"fetch", "push"}),
   rsync |-> Profile(0, Medium, 0, 0, "conditional", {})]

IsPrivilege(p) == p.priv >= High

\* Factor by factor the maximum, the stronger network behaviour, all subcommands.
MergeProfilesMax(ps) ==
  [priv |-> Max({p.priv : p \in ps}), net |-> Max({p.net : p \in ps}),
   destr |-> Max({p.destr : p \in ps}), exfil |-> Max({p.exfil : p \in ps}),
   type |-> CASE \E p \in ps : p.type = "always" -> "always"
              [] \E p \in ps : p.type = "conditional" -> "conditional"
              [] OTHER -> "none",
   subs |-> UNION {p.subs : p \in ps}]

ResolveProfile(names) ==
  LET ps == {CommandRiskProfiles[n] : n \in names \cap DOMAIN CommandRiskProfiles}
  IN IF ps = {} THEN [found |-> FALSE, p |-> Profile(0, 0, 0, 0, "none", {})]
     ELSE [found |-> TRUE, p |-> MergeProfilesMax(ps)]

IsPrivilegeCommand(names) == IsPrivilege(ResolveProfile(names).p)

\* user@host:path, and host:path with a / or ~ in it; host:port is not one.
ContainsSSHStyleAddress(args) ==
  \E i \in DOMAIN args : ProgramName(args[i]) \in {"user@host:file", "host:/path"}

HasNetworkArguments(args) ==
  (\E i \in DOMAIN args : ProgramName(args[i]) = "https://host") \/ ContainsSSHStyleAddress(args)

GitValueOptions == {"c", "C", "git-dir"}

ProfileNetworkApplies(p, args) ==
  \/ p.type = "always"
  \/ /\ p.type = "conditional"
     /\ \/ FirstOperand(args, OptSpec(GitValueOptions, {}, {}, "allUnknownAreBoolean")) \in p.subs
        \/ HasNetworkArguments(args)

ProfileFactorRisk(p, args, suppressDestruction) ==
  Max({IF ~suppressDestruction /\ p.destr > Low THEN p.destr ELSE Unknown,
       IF p.exfil > Low THEN p.exfil ELSE Unknown,
       IF p.net > Low /\ ProfileNetworkApplies(p, args) THEN p.net ELSE Unknown})

----------------------------------------------------------------------------
(* Names and argument patterns.                                            *)

DestructiveCommandNames == {"rm", "rmdir", "dd", "shred"}
FindExecActions == {"exec", "execdir"}
HighSystemModificationNames == {"apt", "npm", "yarn", "systemctl", "service", "mkfs", "crontab"}
MediumSystemModificationNames == {"mount", "ip"}
ArbitraryCodeExecutionRunners == {"bash", "python3", "make"}

IsDestructiveFileOperation(names, args) ==
  \/ names \cap DestructiveCommandNames # {}
  \/ /\ "find" \in names
     /\ \E i \in DOMAIN args : args[i].k = "long" /\
          \/ args[i].n = "delete"
          \/ /\ args[i].n \in FindExecActions
             /\ i < Len(args)
             /\ WalkSymlinkChain(args[i + 1]).names \cap DestructiveCommandNames # {}
  \/ /\ "rsync" \in names
     /\ \E i \in DOMAIN args : args[i].k = "long" /\ args[i].n = "delete" /\ ~args[i].eq

SystemModificationRisk(names) ==
  CASE names \cap HighSystemModificationNames # {} -> High
    [] names \cap MediumSystemModificationNames # {} -> Medium
    [] OTHER -> Unknown

IsArbitraryCodeExecutionRunner(names) == names \cap ArbitraryCodeExecutionRunners # {}

\* A pattern names a command and an argument it must have ({} when any will do).
DangerousCommandPatterns ==
  {[name |-> "rm", arg |-> {Short(<<"r", "f">>)}, level |-> High],
   [name |-> "mkfs", arg |-> {}, level |-> High],
   [name |-> "dd", arg |-> {Assign("if")}, level |-> High],
   [name |-> "chmod", arg |-> {Bare("777")}, level |-> High],
   [name |-> "chown", arg |-> {Bare("root")}, level |-> Medium],
   [name |-> "curl", arg |-> {}, level |-> Medium],
   [name |-> "nc", arg |-> {Dash}, level |-> Medium]}

MatchesPattern(names, args, pattern) ==
  /\ pattern.name \in names
  /\ \A a \in pattern.arg : \E i \in DOMAIN args :
       \/ args[i] = a
       \/ a.k = "assign" /\ args[i].k = "assign" /\ args[i].n = a.n

CheckDangerousArgPatterns(names, args) ==
  IF "mkfs.ext4" \in names \/ "fsck.ext4" \in names THEN High
  ELSE LET hit == {q \in DangerousCommandPatterns : MatchesPattern(names, args, q)}
       IN IF hit = {} THEN Unknown ELSE Max({q.level : q \in hit})

----------------------------------------------------------------------------
(* The coreutils single binary.                                            *)

SafeCoreutilsCommands == {"ls", "cat", "mkdir"}

\* os.Stat follows the links, so the bit is that of the file the chain ends at.
HasSetuidOrSetgidBit(t) ==
  LET file == Reached(t.w)[MaxSymlinkDepth]
  IN [bit |-> file \in Setuid, err |-> file \in Absent \cup Unstatable]

CoreutilsCommandRisk(t, args) ==
  IF t.k # "word" \/ t.dir # "coreutils" THEN [level |-> Unknown, handled |-> FALSE, err |-> FALSE]
  ELSE LET bit == HasSetuidOrSetgidBit(t)
           sub == IF t.w = "coreutils"
                  THEN FirstOperand(args, OptSpec({}, {}, {}, "anyUnknownIsUnreliable"))
                  ELSE t.w
       IN CASE bit.err -> [level |-> Unknown, handled |-> FALSE, err |-> TRUE]
            [] bit.bit -> [level |-> High, handled |-> TRUE, err |-> FALSE]
            \* the destructive applets are High, and so is every applet not known to be safe
            [] sub \in SafeCoreutilsCommands -> [level |-> Low, handled |-> TRUE, err |-> FALSE]
            [] OTHER -> [level |-> High, handled |-> TRUE, err |-> FALSE]
=============================================================================
