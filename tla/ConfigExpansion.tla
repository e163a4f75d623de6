-------------------------- MODULE ConfigExpansion --------------------------
(***************************************************************************)
(* From a parsed configuration to what a command is run with: validation,  *)
(* merging of included templates, and the expansion of the global section, *)
(* of a group and of its commands, each on top of the level before.        *)
(*                                                                         *)
(* One action per function of loader.go and expansion.go. The variables of *)
(* a level are expanded one at a time in any order: the code ranges over a *)
(* Go map. An optional field is a set of at most one value. An entry of    *)
(* env_vars is a text whose first piece is its key, "K=" or "${p}=".       *)
(***************************************************************************)
EXTENDS VariableExpansion

CONSTANTS Forbidden,         \* environment variables no child may be given
          MaxVarsPerLevel, MaxArrayElements, MaxStringValueLen,
          AbsLiterals,       \* literals that begin with a slash
          RealPath           \* path -> what its links lead to

VARIABLES
  cfg,       \* the configuration
  templates, \* templates of the configuration and of its includes
  step,      \* what is done next
  level,     \* of which level
  spec,      \* the level's section; a command's with its template applied
  rt,        \* level -> variables of the level: strings, arrays, imports
  todo,      \* variables of the level that are still to be expanded
  env,       \* level -> its env_vars, expanded
  cmdNo,     \* the command being expanded
  fields,    \* its expanded fields
  results,   \* the commands expanded so far
  err        \* why expansion failed

configVars == <<cfg, templates, step, level, spec, rt, todo, env, cmdNo, fields, results, err>>

Levels == <<"global", "group", "command">>
NoRuntime == [strings |-> NoVars, arrays |-> NoVars, imports |-> {}]
NoFields == [cmd |-> <<>>, args |-> <<>>, workdir |-> <<>>]

\* A run of the configuration cfg.
ConfigInit ==
  /\ templates = NoVars
  /\ step = "start" /\ level = "global"
  /\ spec = cfg.global
  /\ rt = [l \in Range(Levels) |-> NoRuntime]
  /\ todo = {}
  /\ env = [l \in Range(Levels) |-> NoVars]
  /\ cmdNo = 0 /\ fields = NoFields /\ results = <<>>
  /\ err = "none"

Refuse(why) == /\ err' = why /\ step' = "failed"
               /\ UNCHANGED <<cfg, templates, level, spec, rt, todo, env, cmdNo, fields, results>>

----------------------------------------------------------------------------
(* Loading.                                                                *)
ValidateTimeouts ==
  \A t \in cfg.global.timeout \cup UNION {cfg.templates[n].timeout : n \in DOMAIN cfg.templates}
           \cup UNION {cfg.commands[i].timeout : i \in DOMAIN cfg.commands} : t >= 0

ValidateGroupNames ==
  /\ \A i \in DOMAIN cfg.groups : ValidateVariableName(cfg.groups[i])
  /\ IsInjective(cfg.groups)

\* Only global variables may be referred to.
ValidateGlobalOnly(text) == WellFormed(text) /\ \A v \in RefsIn(text) : DetermineScope(v) = "global"

ValidateTemplateDefinition(t) ==
  /\ t.cmd # <<>>
  /\ \A text \in {t.cmd} \cup Range(t.args) \cup Range(t.env) \cup t.workdir : ValidateGlobalOnly(text)

ValidateTemplates ==
  \A n \in DOMAIN cfg.templates : /\ n \in GlobalNames \cup LocalNames
                                  /\ ValidateTemplateDefinition(cfg.templates[n])

ValidateCmdSpec(c) ==
  IF c.template = {} THEN c.cmd # <<>> ELSE c.cmd = <<>> /\ c.args = {} /\ c.env = {}

CheckTemplateNameField == \A n \in DOMAIN cfg.templates : ~cfg.templates[n].named

LoadConfigInternal ==
  /\ step = "parse"
  /\ IF /\ cfg.parses /\ CheckTemplateNameField
        /\ ValidateTimeouts /\ ValidateGroupNames /\ ValidateTemplates
        /\ \A i \in DOMAIN cfg.commands : ValidateCmdSpec(cfg.commands[i])
     THEN /\ step' = "includes"
          /\ UNCHANGED <<cfg, templates, level, spec, rt, todo, env, cmdNo, fields, results, err>>
     ELSE Refuse("config")

GenerateGlobalAutoVars == [n \in AutoNames |-> <<Lit(n)>>]

\* Templates of the includes and of the configuration; a name defined twice is refused.
MergeTemplates ==
  LET sources == [i \in DOMAIN cfg.includes |-> cfg.includes[i].templates] \o <<cfg.templates>>
      names == UNION {DOMAIN sources[i] : i \in DOMAIN sources}
      definers(n) == {i \in DOMAIN sources : n \in DOMAIN sources[i]}
  IN /\ step = "merge"
     /\ IF \E n \in names : Cardinality(definers(n)) > 1 THEN Refuse("duplicate template")
        ELSE /\ templates' = [n \in names |-> sources[CHOOSE i \in definers(n) : TRUE][n]]
             /\ step' = "import"
             /\ rt' = [rt EXCEPT !["global"].strings = GenerateGlobalAutoVars]
             /\ UNCHANGED <<cfg, level, spec, todo, env, cmdNo, fields, results, err>>

----------------------------------------------------------------------------
(* One level.                                                              *)
\* An empty list taken for an absent one.
DetermineEffectiveEnvAllowlistByLength(group, global) == IF UNION group = {} THEN global ELSE UNION group
\* An absent list inherits, an empty one rejects everything.
DetermineEffectiveEnvAllowlist(group, global) == IF group = {} THEN global ELSE UNION group

ValidateNameForLevel(name) ==
  DetermineScope(name) = IF level = "global" THEN "global" ELSE "local"

Allowlist == IF level = "global" THEN cfg.global.allowed
             ELSE DetermineEffectiveEnvAllowlist(cfg.group.allowed, cfg.global.allowed)

ImportValue(sys) == IF sys \in DOMAIN cfg.system THEN cfg.system[sys] ELSE <<>>

ProcessEnvImport ==
  /\ step = "import"
  /\ IF \/ \E i \in DOMAIN spec.imports : \/ ~ValidateNameForLevel(spec.imports[i].name)
                                          \/ spec.imports[i].sys \in Forbidden
                                          \/ spec.imports[i].sys \notin Allowlist
        \/ ~IsInjective([i \in DOMAIN spec.imports |-> spec.imports[i].name])
     THEN Refuse("import")
     ELSE LET added == [n \in {m.name : m \in Range(spec.imports)} |->
                          ImportValue((CHOOSE m \in Range(spec.imports) : m.name = n).sys)]
          IN /\ rt' = [rt EXCEPT ![level].strings = Over(added, @), ![level].imports = @ \cup DOMAIN added]
             /\ step' = "vars"
             /\ UNCHANGED <<cfg, templates, level, spec, todo, env, cmdNo, fields, results, err>>

ValidateStringVar(name, text) == name \notin DOMAIN rt[level].arrays /\ Len(text) <= MaxStringValueLen
ValidateArrayVar(name, texts) ==
  /\ name \notin DOMAIN rt[level].strings
  /\ Len(texts) <= MaxArrayElements
  /\ \A i \in DOMAIN texts : Len(texts[i]) <= MaxStringValueLen

ValidateAndClassifyVars ==
  \A n \in DOMAIN spec.vars :
    /\ ValidateNameForLevel(n)
    /\ n \notin rt[level].imports
    /\ \/ spec.vars[n].kind = "string" /\ ValidateStringVar(n, spec.vars[n].val)
       \/ spec.vars[n].kind = "array" /\ ValidateArrayVar(n, spec.vars[n].val)

ProcessVars ==
  /\ step = "vars"
  /\ IF Cardinality(DOMAIN spec.vars) > MaxVarsPerLevel \/ ~ValidateAndClassifyVars THEN Refuse("vars")
     ELSE /\ todo' = DOMAIN spec.vars
          /\ step' = "expand"
          /\ UNCHANGED <<cfg, templates, level, spec, rt, env, cmdNo, fields, results, err>>

Pending(kind) == {n \in todo : spec.vars[n].kind = kind}

ExpandStringVar ==
  /\ step = "expand"
  /\ \E n \in Pending("string") :
       LET r == ExpandVarText(spec.vars[n].val, rt[level].strings, rt[level].arrays, spec.vars)
       IN IF r.err # "none" THEN Refuse(r.err)
          ELSE /\ rt' = [rt EXCEPT ![level].strings = Put(r.strings, n, r.text)]
               /\ todo' = todo \ {n}
               /\ UNCHANGED <<cfg, templates, step, level, spec, env, cmdNo, fields, results, err>>

ExpandArrayVar ==
  /\ step = "expand" /\ Pending("string") = {}
  /\ \E n \in Pending("array") :
       LET r == ExpandElements(spec.vars[n].val, rt[level].strings, rt[level].arrays, spec.vars)
       IN IF r.err # "none" THEN Refuse(r.err)
          ELSE /\ rt' = [rt EXCEPT ![level].strings = r.strings, ![level].arrays = Put(@, n, r.text)]
               /\ todo' = todo \ {n}
               /\ UNCHANGED <<cfg, templates, step, level, spec, env, cmdNo, fields, results, err>>

VarsExpanded ==
  /\ step = "expand" /\ todo = {}
  /\ step' = IF level = "command" THEN "fields" ELSE "env"
  /\ UNCHANGED <<cfg, templates, level, spec, rt, todo, env, cmdNo, fields, results, err>>

\* An entry of env_vars, and all of them.
KeyOf(entry) == IF entry # <<>> /\ entry[1].k = "key" THEN {entry[1].v} ELSE {}
EnvEntry(entries, i, strings) ==
  IF \/ KeyOf(entries[i]) = {}
     \/ KeyOf(entries[i]) \subseteq Forbidden \cup UNION {KeyOf(entries[j]) : j \in 1..(i-1)}
  THEN [err |-> "env", text |-> <<>>] ELSE ExpandString(Tail(entries[i]), strings)

ExpandTexts(texts, strings) == [i \in DOMAIN texts |-> ExpandString(texts[i], strings)]
FirstError(rs) == IF \E i \in DOMAIN rs : rs[i].err # "none"
                  THEN rs[CHOOSE i \in DOMAIN rs : /\ rs[i].err # "none"
                                                   /\ \A j \in 1..(i-1) : rs[j].err = "none"].err
                  ELSE "none"
TextsOf(rs) == [i \in DOMAIN rs |-> rs[i].text]

ProcessEnv(entries, strings) ==
  LET rs == [i \in DOMAIN entries |-> EnvEntry(entries, i, strings)]
  IN [err |-> FirstError(rs),
      map |-> [k \in UNION {KeyOf(entries[i]) : i \in DOMAIN entries} |->
                 rs[CHOOSE i \in DOMAIN entries : k \in KeyOf(entries[i])].text]]

IsAbs(text) == text # <<>> /\ text[1].k = "lit" /\ text[1].v \in AbsLiterals

\* cmd_allowed: absolute, resolvable, and no file twice.
ExpandCmdAllowed(texts, strings) ==
  LET rs == ExpandTexts(texts, strings)
      real == [i \in DOMAIN rs |-> IF rs[i].text \in DOMAIN RealPath THEN RealPath[rs[i].text] ELSE rs[i].text]
  IN IF ~IsInjective(texts) \/ (\E i \in DOMAIN texts : texts[i] = <<>>) THEN "allowed"
     ELSE IF FirstError(rs) # "none" THEN FirstError(rs)
     ELSE IF \/ \E i \in DOMAIN rs : ~IsAbs(rs[i].text) \/ rs[i].text \notin DOMAIN RealPath
             \/ ~IsInjective(real)
     THEN "allowed" ELSE "none"

\* ExpandGlobal and ExpandGroup from their env_vars to their end.
ExpandEnvAndFiles ==
  LET strings == rt[level].strings
      e == ProcessEnv(spec.env, strings)
      files == ExpandTexts(spec.files, strings)
      allowed == IF level = "group" THEN ExpandCmdAllowed(spec.cmdAllowed, strings) ELSE "none"
      problem == FirstError(<<e, [err |-> FirstError(files)], [err |-> allowed]>>)
  IN /\ step = "env"
     /\ IF problem # "none" THEN Refuse(problem)
        ELSE /\ env' = [env EXCEPT ![level] = e.map]
             /\ step' = IF level = "global" THEN "templates" ELSE "commands"
             /\ UNCHANGED <<cfg, templates, level, spec, rt, todo, cmdNo, fields, results, err>>

----------------------------------------------------------------------------
(* Between the levels.                                                     *)
ValidateTemplateVars(t) ==
  \A text \in {t.cmd} \cup t.workdir \cup Range(t.args) \cup {Tail(e) : e \in {x \in Range(t.env) : KeyOf(x) # {}}} :
     ValidateGlobalOnly(text) /\ RefsIn(text) \subseteq DOMAIN rt["global"].strings

ValidateAllTemplates ==
  /\ step = "templates"
  /\ IF \A n \in DOMAIN templates : ValidateTemplateVars(templates[n])
     THEN /\ step' = "directories"
          /\ UNCHANGED <<cfg, templates, level, spec, rt, todo, env, cmdNo, fields, results, err>>
     ELSE Refuse("template")

\* The group starts from copies of the global variables.
ExpandGroup ==
  /\ step = "group"
  /\ level' = "group" /\ spec' = cfg.group /\ step' = "import"
  /\ rt' = [rt EXCEPT !["group"] = rt["global"]]
  /\ UNCHANGED <<cfg, templates, todo, env, cmdNo, fields, results, err>>

\* Parameters in a template's env_vars, a key and a value each.
ExpandTemplateEnv(entries, params) ==
  LET r == ExpandTemplateArgs(entries, params, "env_vars")
      kept == FlattenSeq([i \in DOMAIN r.vals |-> IF Len(r.vals[i]) > 1 THEN <<r.vals[i]>> ELSE <<>>])
  IN IF \/ ~r.ok
        \/ \E i \in DOMAIN entries : entries[i] # <<>> /\ entries[i][1].k = "pkey"
        \/ \E i \in DOMAIN r.vals : KeyOf(r.vals[i]) = {}
        \/ ~IsInjective([i \in DOMAIN kept |-> KeyOf(kept[i])])
     THEN NoValues ELSE Values(kept)

\* A string variable of a template is one text.
ExpandTemplateVar(var, params) ==
  IF var.kind = "string"
  THEN LET r == ExpandSingleArg(var.val, params, "vars")
       IN [ok |-> r.ok /\ Len(r.vals) <= 1,
           val |-> [kind |-> "string", val |-> IF r.vals = <<>> THEN <<>> ELSE r.vals[1]]]
  ELSE LET r == ExpandTemplateArgs(var.val, params, "vars")
       IN [ok |-> r.ok, val |-> [kind |-> "array", val |-> r.vals]]

\* The command's value wins over the template's.
OverrideStringPointer(own, inherited) == IF own # {} THEN own ELSE inherited
MergeEnvImport(inherited, own) ==
  LET named(m) == {o \in Range(own) : o.name = m.name}
      inheritedNames == {m.name : m \in Range(inherited)}
  IN [i \in DOMAIN inherited |-> IF named(inherited[i]) = {} THEN inherited[i]
                                 ELSE CHOOSE o \in named(inherited[i]) : TRUE]
     \o SelectSeq(own, LAMBDA o : o.name \notin inheritedNames)
MergeVars(inherited, own) == Over(own, inherited)

\* Every placeholder of the template can be read.
CollectUsedParams(t) ==
  \A x \in {t.cmd} \cup Range(t.args) \cup Range(t.env) \cup t.workdir
           \cup UNION {IF v.kind = "string" THEN {v.val} ELSE Range(v.val) : v \in Range(t.vars)} : ParsesPlaceholders(x)

ExpandTemplateToSpec(c, t) ==
  LET cmd == ExpandSingleArg(t.cmd, c.params, "cmd")
      args == ExpandTemplateArgs(t.args, c.params, "args")
      envs == ExpandTemplateEnv(t.env, c.params)
      dir == IF t.workdir = {} THEN Values(<<>>) ELSE ExpandSingleArg(Optional(t.workdir), c.params, "workdir")
      vars == [n \in DOMAIN t.vars |-> ExpandTemplateVar(t.vars[n], c.params)]
  IN [ok |-> /\ CollectUsedParams(t)
             /\ cmd.ok /\ Len(cmd.vals) = 1 /\ cmd.vals[1] # <<>>
             /\ args.ok /\ envs.ok /\ dir.ok
             /\ \A n \in DOMAIN vars : vars[n].ok,
      spec |-> [template |-> c.template, params |-> c.params,
                cmd |-> IF cmd.vals = <<>> THEN <<>> ELSE cmd.vals[1],
                args |-> {args.vals}, env |-> {envs.vals},
                workdir |-> OverrideStringPointer(c.workdir, Range(dir.vals)),
                imports |-> MergeEnvImport(t.imports, c.imports),
                vars |-> MergeVars([n \in DOMAIN vars |-> vars[n].val], c.vars),
                timeout |-> OverrideStringPointer(c.timeout, t.timeout)]]

\* The maps of the previous command, not copies of the group's.
InheritLastCommand(runtimes) == IF runtimes["command"] = NoRuntime THEN runtimes["group"] ELSE runtimes["command"]
\* What a command starts from: the group's variables.
InheritGroup(runtimes) == runtimes["group"]
----------------------------------------------------------------------------
(* Commands.                                                               *)
ResolveAndPrepareCommandSpec ==
  LET c == cfg.commands[cmdNo + 1]
      begin(s) == /\ spec' = s /\ level' = "command" /\ cmdNo' = cmdNo + 1 /\ step' = "import"
                  /\ rt' = [rt EXCEPT !["command"] = InheritGroup(rt)]
                  /\ UNCHANGED <<cfg, templates, todo, env, fields, results, err>>
  IN /\ step = "commands" /\ cmdNo < Len(cfg.commands)
     /\ IF c.template = {} THEN begin(c)
        ELSE IF ~(c.template \subseteq DOMAIN templates) THEN Refuse("template not found")
        ELSE LET e == ExpandTemplateToSpec(c, templates[CHOOSE n \in c.template : TRUE])
             IN IF e.ok THEN begin(e.spec) ELSE Refuse("template")

ExpandCommandFields ==
  LET strings == rt["command"].strings
      cmd == ExpandString(spec.cmd, strings)
      args == ExpandTexts(Optional(spec.args), strings)
      e == ProcessEnv(Optional(spec.env), strings)
      problem == FirstError(<<cmd, [err |-> FirstError(args)], e>>)
  IN /\ step = "fields"
     /\ IF problem # "none" THEN Refuse(problem)
        ELSE /\ fields' = [cmd |-> cmd.text, args |-> TextsOf(args), workdir |-> <<>>]
             /\ env' = [env EXCEPT !["command"] = e.map]
             /\ step' = "workdir"
             /\ UNCHANGED <<cfg, templates, level, spec, rt, todo, cmdNo, results, err>>

ExpandWorkDir ==
  LET r == ExpandString(Optional(spec.workdir), rt["command"].strings)
  IN /\ step = "workdir"
     /\ IF r.err # "none" THEN Refuse(r.err)
        ELSE IF r.text # <<>> /\ ~IsAbs(r.text) THEN Refuse("workdir")
        ELSE /\ fields' = [fields EXCEPT !.workdir = r.text]
             /\ step' = "environment"
             /\ UNCHANGED <<cfg, templates, level, spec, rt, todo, env, cmdNo, results, err>>

\* The child's environment: allowed system variables, then each level's over the one before.
MergeEnvWithOrigin(map, origin) == [k \in DOMAIN map |-> [value |-> map[k], origin |-> origin]]
BuildProcessEnvironment ==
  LET system == [k \in cfg.global.allowed \cap DOMAIN cfg.system |-> cfg.system[k]]
      merged == Over(MergeEnvWithOrigin(env["command"], "command"),
                     Over(MergeEnvWithOrigin(env["group"], "vars"),
                          Over(MergeEnvWithOrigin(env["global"], "vars"), MergeEnvWithOrigin(system, "system"))))
      child == [k \in DOMAIN merged \ Forbidden |-> merged[k]]
  IN /\ step = "environment"
     /\ results' = Append(results, [spec |-> spec, fields |-> fields, env |-> child])
     /\ step' = IF cmdNo = Len(cfg.commands) THEN "done" ELSE "commands"
     /\ UNCHANGED <<cfg, templates, level, spec, rt, todo, env, cmdNo, fields, err>>

ConfigNext ==
  \/ LoadConfigInternal \/ MergeTemplates \/ ProcessEnvImport \/ ProcessVars \/ ExpandStringVar \/ ExpandArrayVar
  \/ VarsExpanded \/ ExpandEnvAndFiles \/ ValidateAllTemplates \/ ExpandGroup
  \/ ResolveAndPrepareCommandSpec \/ ExpandCommandFields \/ ExpandWorkDir \/ BuildProcessEnvironment

----------------------------------------------------------------------------
Expanded(result) == <<result.fields.cmd>> \o result.fields.args

\* The system variables a text carries.
SysIn(text) == {text[i].v : i \in {j \in DOMAIN text : text[j].k = "sys"}}
ImportedBy(s) == {m.sys : m \in Range(s.imports)}
Effective == IF cfg.group.allowed = {} THEN cfg.global.allowed ELSE UNION cfg.group.allowed

\* The system variables a command may be given values of.
Permitted(s) == (cfg.global.allowed \cap ImportedBy(cfg.global))
                \cup (Effective \cap (ImportedBy(cfg.group) \cup ImportedBy(s)))

\* Nothing of the caller's environment reaches a command unless a list that applies where it is taken
\* names it: the global list for variables passed on or imported globally, the group's own list, when
\* it has one, for what the group and its commands import; and no forbidden variable is ever in the
\* child's environment (ProcessEnvImport, determineEffectiveEnvAllowlist, BuildProcessEnvironment).
\* The user guide promises more of a group with a list of its own: see GroupListObeyed.
EnvConfined ==
  \A i \in DOMAIN results :
    LET r == results[i]
        permitted == Permitted(r.spec)
    IN /\ \A j \in DOMAIN Expanded(r) : SysIn(Expanded(r)[j]) \subseteq permitted
       /\ SysIn(r.fields.workdir) \subseteq permitted
       /\ \A k \in DOMAIN r.env :
            /\ k \notin Forbidden
            /\ IF r.env[k].origin = "system" THEN k \in cfg.global.allowed
               ELSE SysIn(r.env[k].value) \subseteq permitted

\* "Only PATH, CUSTOM_VAR are available (HOME, USER are not)", and with an empty list "all environment
\* variables are rejected" (05_group_level.md): the variables of the caller that are passed on to a
\* command are those the list of its group names, when the group has one. BuildProcessEnvironment asks
\* the global list only.
GroupListObeyed ==
  \A i \in DOMAIN results : \A k \in DOMAIN results[i].env : results[i].env[k].origin = "system" => k \in Effective
=============================================================================
