------------------------------ MODULE Startup ------------------------------
(***************************************************************************)
(* The start of a run: the configuration file and the templates it         *)
(* includes are read if their permissions allow it, the configuration is   *)
(* validated and expanded, the directories that hold the files it names    *)
(* are checked, and the commands of a group are expanded. Meanwhile the    *)
(* clock advances and groups change. "verify", which honours SUDO_UID,     *)
(* takes the first steps only. The hashes of the files read are the        *)
(* subject of VerifiedExecution.                                           *)
(***************************************************************************)
EXTENDS ConfigExpansion, FileAccess

CONSTANTS Scenarios,  \* configuration, process, groups and file system a run starts with
          DirOf,      \* path -> its directory
          HashDir     \* directory of the hash records

\* Every directory has its parent among the directories, down to one that is its own.
ASSUME TreeAssumption ==
  /\ Parent \in [DOMAIN Parent -> DOMAIN Parent]
  /\ "none" \notin DOMAIN Parent
  /\ \E d \in DOMAIN Parent : Parent[d] = d
  /\ HashDir \in DOMAIN Parent
  /\ \A p \in DOMAIN DirOf : DirOf[p] \in DOMAIN Parent

\* What a run finds: users and groups the system has, a node for every directory and for every file
\* the configuration includes, and paths in the order of the configuration.
ASSUME ScenarioAssumption ==
  \A s \in Scenarios :
    /\ s.members \in Databases /\ s.who.real \in Users
    /\ {"config"} \cup DOMAIN Parent \subseteq DOMAIN s.node
    /\ \A n \in DOMAIN s.node : s.node[n].gid \in Groups
    /\ Len(s.cfg.includes) \in Nat
    /\ \A i \in 1..Len(s.cfg.includes) : s.cfg.includes[i].file \in DOMAIN s.node
    /\ s.cfg.global.files \in Seq(Texts) /\ s.cfg.group.files \in Seq(Texts)
    /\ Len(s.cfg.commands) \in Nat /\ DOMAIN s.cfg.commands = 1..Len(s.cfg.commands)
    /\ DOMAIN s.cfg.includes = 1..Len(s.cfg.includes)

\* What is written in a configuration holds no value of the system, and the system's value of a
\* variable holds no other.
Definitions == [kind : {"string"}, val : Written] \cup [kind : {"array"}, val : Seq(Written)]
Defines(vars) == \A n \in DOMAIN vars : vars[n] \in Definitions
WrittenSection(s) == Defines(s.vars) /\ s.env \in Seq(Written)
WrittenTemplate(t) == /\ WrittenSection(t)
                      /\ t.cmd \in Written /\ t.args \in Seq(Written) /\ t.workdir \subseteq Written
WrittenTemplates(ts) == \A n \in DOMAIN ts : WrittenTemplate(ts[n])
WrittenCommand(c) == /\ Defines(c.vars) /\ Defines(c.params)
                     /\ c.cmd \in Written /\ c.workdir \subseteq Written
                     /\ c.args \subseteq Seq(Written) /\ c.env \subseteq Seq(Written)
ASSUME WrittenAssumption ==
  \A s \in Scenarios :
    /\ WrittenSection(s.cfg.global) /\ WrittenSection(s.cfg.group)
    /\ \A i \in DOMAIN s.cfg.commands : WrittenCommand(s.cfg.commands[i])
    /\ WrittenTemplates(s.cfg.templates)
    /\ \A i \in DOMAIN s.cfg.includes : WrittenTemplates(s.cfg.includes[i].templates)
    /\ \A v \in DOMAIN s.cfg.system : s.cfg.system[v] \in Carrying({v})

VARIABLES
  reading,     \* the file being read
  included,    \* includes read so far
  starts,      \* directories whose way to the root is still to be collected
  dirs,        \* directories collected and still to check
  component,   \* the directory on the way to the root that is being added or checked
  violations   \* directories found writable by others

startVars == <<reading, included, starts, dirs, component, violations>>
vars == <<configVars, accessVars, startVars>>

Init ==
  /\ \E s \in Scenarios : cfg = s.cfg /\ who = s.who /\ members = s.members /\ node = s.node
  /\ ConfigInit /\ AccessInit
  /\ reading = "config" /\ included = 0
  /\ starts = <<>> /\ dirs = <<>> /\ component = "none" /\ violations = {}

Continue(next) == /\ step' = next
                  /\ UNCHANGED <<cfg, templates, level, spec, rt, todo, env, cmdNo, fields, results, err>>

----------------------------------------------------------------------------
(* Reading.                                                                *)

\* A tool that honours SUDO_UID makes sure of the user first.
EnsurePermissionCheckUID ==
  /\ step = "boot"
  /\ IF ResolvePermissionCheckUID = NoUser THEN Refuse("uid") ELSE Continue("read")
  /\ UNCHANGED <<accessVars, startVars>>

AfterRead == IF reading # "config" THEN "includes" ELSE IF who.policy = "SudoUIDAware" THEN "done" ELSE "parse"

SafeReadFile ==
  LET n == node[reading]
      allowed == CanCurrentUserSafelyReadFile(n)
  IN /\ step = "read" /\ query = NoQuery
     /\ \/ /\ n.kind # "file" \/ allowed = "no"
           /\ Refuse("access") /\ UNCHANGED accessVars
        \/ /\ n.kind = "file" /\ allowed = "yes"
           /\ Continue(AfterRead) /\ UNCHANGED accessVars
        \/ /\ n.kind = "file" /\ allowed = "member"
           /\ AskGroup("files", ResolvePermissionCheckUID, n.gid, "member") /\ UNCHANGED configVars
     /\ UNCHANGED startVars

ReadDecided ==
  /\ step = "read"
  /\ TakeAnswer
  /\ IF query.stage = "denied" THEN Refuse("access") ELSE Continue(AfterRead)
  /\ UNCHANGED startVars

ProcessIncludes ==
  /\ step = "includes"
  /\ IF included > 0 /\ ~cfg.includes[included].parses THEN Refuse("include") /\ UNCHANGED <<reading, included>>
     ELSE IF included = Len(cfg.includes) THEN Continue("merge") /\ UNCHANGED <<reading, included>>
     ELSE /\ reading' = cfg.includes[included + 1].file
          /\ included' = included + 1
          /\ Continue("read")
  /\ UNCHANGED <<accessVars, starts, dirs, component, violations>>

----------------------------------------------------------------------------
(* Directories.                                                            *)
\* The directory of a path; one that is not in the table lies in the root directory.
Dir(path) == IF path \in DOMAIN DirOf THEN DirOf[path] ELSE CHOOSE d \in DOMAIN Parent : Parent[d] = d

\* A path is looked at now if it is absolute and nothing in it is left to expand: at most one path.
ResolveStaticAbsPath(text) ==
  IF IsAbs(text) /\ \A i \in DOMAIN text : text[i].k \notin {"ref", "esc", "open"}
  THEN {IF text \in DOMAIN RealPath THEN RealPath[text] ELSE text} ELSE {}

ReferencedPaths ==
  TextsOf(ExpandTexts(cfg.global.files, rt["global"].strings)) \o cfg.group.files
  \o [i \in DOMAIN cfg.commands |-> cfg.commands[i].cmd]

DirsOf(text) == {Dir(p) : p \in ResolveStaticAbsPath(text)}

RunTOCTOUCheck ==
  /\ step = "directories"
  /\ starts' = [i \in DOMAIN ReferencedPaths |-> DirsOf(ReferencedPaths[i])] \o <<{HashDir}>>
  /\ Continue("collecting")
  /\ UNCHANGED <<accessVars, reading, included, dirs, component, violations>>

Above(d) == IF Parent[d] = d THEN "none" ELSE Parent[d]

\* Each directory and those above it, once: the way ends at one that is already there.
CollectTOCTOUCheckDirs ==
  /\ step = "collecting"
  /\ \/ /\ component = "none" /\ starts # <<>>
        /\ component' \in (IF Head(starts) = {} THEN {"none"} ELSE Head(starts))
        /\ starts' = Tail(starts)
        /\ UNCHANGED <<configVars, dirs>>
     \/ /\ component # "none"
        /\ IF component \in Range(dirs) THEN component' = "none" /\ UNCHANGED dirs
           ELSE dirs' = Append(dirs, component) /\ component' = Above(component)
        /\ UNCHANGED <<configVars, starts>>
     \/ component = "none" /\ starts = <<>> /\ Continue("checking") /\ UNCHANGED <<starts, dirs, component>>
  /\ UNCHANGED <<accessVars, reading, included, violations>>

\* A directory that does not exist is skipped.
ValidateDirectoryPermissions ==
  /\ step = "checking" /\ component = "none" /\ dirs # <<>>
  /\ IF node[Head(dirs)].kind = "dir" THEN component' = Head(dirs) /\ UNCHANGED violations
     ELSE /\ violations' = IF node[Head(dirs)].kind = "absent" THEN violations ELSE violations \cup {Head(dirs)}
          /\ UNCHANGED component
  /\ dirs' = Tail(dirs)
  /\ UNCHANGED <<configVars, accessVars, reading, included, starts>>

ComponentPassed == component' = Above(component) /\ UNCHANGED violations
ComponentFailed == component' = "none" /\ violations' = violations \cup {component}

ValidateDirectoryHierarchy ==
  LET n == node[component]
      allowed == IF n.kind # "dir" THEN "no" ELSE ValidateDirectoryComponentPermissions(n)
  IN /\ step = "checking" /\ component # "none" /\ query = NoQuery
     /\ \/ allowed = "yes" /\ ComponentPassed /\ UNCHANGED accessVars
        \/ allowed = "no" /\ ComponentFailed /\ UNCHANGED accessVars
        \/ /\ allowed = "sole"
           /\ AskGroup("dirs", who.real, n.gid, "sole")
           /\ UNCHANGED <<component, violations>>
     /\ UNCHANGED <<configVars, reading, included, starts, dirs>>

ComponentDecided ==
  /\ step = "checking"
  /\ TakeAnswer
  /\ IF query.stage = "granted" THEN ComponentPassed ELSE ComponentFailed
  /\ UNCHANGED <<configVars, reading, included, starts, dirs>>

TOCTOUCheckDone ==
  /\ step = "checking" /\ component = "none" /\ dirs = <<>>
  /\ IF violations = {} THEN Continue("group") ELSE Refuse("directories")
  /\ UNCHANGED <<accessVars, startVars>>

----------------------------------------------------------------------------
Boot == step = "start" /\ Continue(IF who.policy = "SudoUIDAware" THEN "boot" ELSE "read")
        /\ UNCHANGED <<accessVars, startVars>>

\* The user database and the clock matter to a run until its directories are checked.
Elsewhere ==
  /\ step \in {"read", "checking"}
  /\ Tick \/ ChangeMembership
  /\ UNCHANGED <<configVars, startVars>>

Access == (CacheHit \/ EnumerateGroupMembers \/ StoreMembers) /\ UNCHANGED <<configVars, startVars>>
Expand == ConfigNext /\ UNCHANGED <<accessVars, startVars>>

Next ==
  \/ Boot \/ EnsurePermissionCheckUID \/ SafeReadFile \/ ReadDecided \/ ProcessIncludes
  \/ RunTOCTOUCheck \/ CollectTOCTOUCheckDirs \/ ValidateDirectoryPermissions \/ ValidateDirectoryHierarchy
  \/ ComponentDecided \/ TOCTOUCheckDone \/ Access \/ Expand \/ Elsewhere

Spec == Init /\ [][Next]_vars

----------------------------------------------------------------------------
\* A directory and those above it: the least set with the directory that has every parent.
WayToRoot(d) ==
  {x \in DOMAIN Parent :
     \A S \in SUBSET DOMAIN Parent : d \in S /\ (\A y \in S : Parent[y] \in S) => x \in S}

\* The directories on the way to a file the run uses and to the records of the hashes.
DirectoriesInUse == UNION {WayToRoot(d) : d \in {HashDir} \cup UNION {DirsOf(t) : t \in Range(ReferencedPaths)}}

\* Who may replace what root or the user has put into a directory, as far as its bits go and as the
\* directory check knew the group.
MayReplace(n) ==
  (IF "uw" \in n.mode THEN {n.uid} ELSE {})
  \cup (IF "ow" \in n.mode /\ "sticky" \notin n.mode THEN Users ELSE {})
  \cup (IF "gw" \in n.mode /\ "sticky" \notin n.mode /\ ~(n.uid = Root /\ n.gid = RootGroup)
        THEN IF \E g \in grants : g.want = "sole" /\ g.gid = n.gid THEN {who.real} ELSE Users
        ELSE {})

\* Once the groups of a run are entered, nobody but root and the user may replace a file the
\* configuration names, or the record of its hash, by writing to a directory on its way, each of them
\* as it was when it was checked (runTOCTOUCheck, CollectTOCTOUCheckDirs, validateDirectoryHierarchy).
NobodyElseReplaces ==
  level # "global" =>
    \A d \in DirectoriesInUse : node[d].kind = "dir" => MayReplace(node[d]) \subseteq {Root, who.real}
=============================================================================
