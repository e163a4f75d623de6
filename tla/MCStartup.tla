----------------------------- MODULE MCStartup -----------------------------
(* Configurations over few names, each started in a sound file system, and   *)
(* one configuration started in many file systems.                           *)
EXTENDS Startup, ConfigReference

Str(text) == [kind |-> "string", val |-> text]
Arr(texts) == [kind |-> "array", val |-> texts]
Key(k, text) == <<P("key", k)>> \o text
Import(name, sys) == [name |-> name, sys |-> sys]

Exe == <<Lit("/opt/x")>>
Global == [allowed |-> {"HOME"}, imports |-> <<>>, vars |-> "G" :> Str(<<Lit("g")>>), env |-> <<>>, files |-> <<>>,
           timeout |-> {}]
Group == [allowed |-> {}, imports |-> <<>>, vars |-> NoVars, env |-> <<>>, files |-> <<>>, cmdAllowed |-> <<>>]
Command == [template |-> {}, params |-> NoVars, cmd |-> Exe, args |-> {}, env |-> {}, imports |-> <<>>,
            vars |-> NoVars, workdir |-> {}, timeout |-> {}]
Template == [cmd |-> Exe, args |-> <<>>, env |-> <<>>, workdir |-> {}, imports |-> <<>>, vars |-> NoVars,
             timeout |-> {}, named |-> FALSE]
Config == [parses |-> TRUE, groups |-> <<"grp">>, templates |-> NoVars, includes |-> <<>>,
           system |-> ("HOME" :> <<P("sys", "HOME")>>) @@ ("LD_PRELOAD" :> <<P("sys", "LD_PRELOAD")>>)
                      @@ ("USER" :> <<P("sys", "USER")>>),
           global |-> Global, group |-> Group, commands |-> <<Command>>]
WithCommand(c) == [Config EXCEPT !.commands = <<c>>]

\* Every way in which three variables of a command may refer to each other, and to a global
\* variable; and two of them when the group defines the first too and a second command reads it.
Graphs ==
  LET texts == {<<Lit("x")>>, <<Ref("a")>>, <<Ref("b")>>, <<Ref("c")>>, <<Ref("G"), Lit("y")>>,
                <<Ref("b"), Ref("c")>>}
      bindings(names) == UNION {[ns -> texts] : ns \in SUBSET names}
      first(v) == [Command EXCEPT !.vars = [n \in DOMAIN v |-> Str(v[n])],
                                  !.args = {[i \in DOMAIN SetToSeq(DOMAIN v) |-> <<Ref(SetToSeq(DOMAIN v)[i])>>]}]
  IN {[Config EXCEPT !.commands = <<first(v), [Command EXCEPT !.args = {<<<<Lit("z")>>>>}]>>] : v \in bindings({"a", "b", "c"})}
     \cup {[Config EXCEPT !.group.vars = "a" :> Str(<<Lit("old")>>),
                          !.commands = <<first(v), [Command EXCEPT !.args = {<<<<Ref("a")>>>>}]>>] : v \in bindings({"a", "b"})}

\* Chains up to and past the depth limit, arrays, escapes and malformed texts.
TextConfigs ==
  LET chain == ("a" :> Str(<<Ref("b")>>)) @@ ("b" :> Str(<<Ref("c")>>)) @@ ("c" :> Str(<<Ref("d")>>)) @@ ("d" :> Str(<<Lit("x")>>))
      arrays == {Arr(<<<<Ref("a")>>, <<Lit("y")>>>>), Arr(<<<<Ref("b")>>>>), Arr(<<>>), Arr(<<<<>>, <<>>, <<>>>>)}
      odd == {P("esc", "a"), P("bs", "x"), P("bad", "x"), P("open", "a"), Ref("1x"), P("pesc", "a"), P("par", "a")}
  IN {WithCommand([Command EXCEPT !.vars = chain, !.args = {<<<<Ref("a")>>>>}])}
     \cup {WithCommand([Command EXCEPT !.vars = ("a" :> Str(<<Lit("x")>>)) @@ ("b" :> v), !.args = {<<<<Ref(n)>>>>}]) :
             v \in arrays, n \in {"a", "b"}}
     \cup {[WithCommand([Command EXCEPT !.vars = "a" :> v]) EXCEPT !.group.vars = "a" :> w] :
             v \in {Str(<<Lit("x")>>), Arr(<<>>)}, w \in {Str(<<Lit("x")>>), Arr(<<>>)}}
     \cup {WithCommand([Command EXCEPT !.vars = "a" :> Str(<<Lit("x")>>), !.args = {<<<<p>>>>}]) : p \in odd}
     \cup {WithCommand([Command EXCEPT !.vars = "a" :> Str(<<p>>), !.args = {<<<<Ref("a")>>>>}]) : p \in odd}
     \cup {WithCommand([Command EXCEPT !.workdir = {t}]) : t \in {<<Lit("/opt/x")>>, <<Lit("rel")>>, <<>>, <<Ref("u")>>}}
     \cup {WithCommand([Command EXCEPT !.vars = ("a" :> Str(<<Ref("b")>>)) @@ ("b" :> Str(<<Ref("u")>>)), !.args = {<<<<Ref("a")>>>>}]),
           WithCommand([Command EXCEPT !.vars = "A" :> Str(<<>>)]),
           WithCommand([Command EXCEPT !.vars = [n \in LocalNames |-> Str(<<>>)]]),
           [Config EXCEPT !.global.vars = "a" :> Str(<<>>)],
           [Config EXCEPT !.global.vars = ("G" :> Str(<<Ref("H")>>)) @@ ("H" :> Str(<<Ref("__runner_pid")>>))]}

\* Imports at each level under each pair of lists, and what env_vars may say.
Imports ==
  LET lists == {{}, {{}}, {{"HOME"}}, {{"USER"}}}
  IN {[Config EXCEPT !.global.imports = g, !.group.imports = p, !.group.allowed = l,
                     !.commands = <<[Command EXCEPT !.imports = c, !.args = {<<<<Ref(IF c = <<>> THEN "G" ELSE "a")>>>>},
                                                    !.env = {<<Key("OUT", <<Ref(IF p = <<>> THEN "G" ELSE "b")>>)>>}]>>] :
        g \in {<<>>, <<Import("H", "HOME")>>}, p \in {<<>>, <<Import("b", "HOME")>>, <<Import("b", "USER")>>},
        l \in lists, c \in {<<>>, <<Import("a", "HOME")>>, <<Import("a", "LD_PRELOAD")>>, <<Import("a", "HOME"), Import("a", "HOME")>>}}
     \cup {[Config EXCEPT !.global.allowed = {"HOME", "LD_PRELOAD"}, !.global.env = e] :
             e \in {<<>>, <<Key("HOME", <<Ref("G")>>)>>, <<Key("LD_PRELOAD", <<>>)>>, <<<<Lit("x")>>>>,
                    <<Key("A", <<>>), Key("A", <<>>)>>, <<Key("A", <<Ref("u")>>)>>}}
     \cup {[Config EXCEPT !.group.imports = <<Import("a", "HOME")>>, !.group.vars = "a" :> Str(<<>>)],
           [Config EXCEPT !.group.cmdAllowed = <<Exe, <<Lit("/opt/link")>>>>],
           [Config EXCEPT !.group.cmdAllowed = <<Exe, Exe>>], [Config EXCEPT !.group.cmdAllowed = <<<<Lit("rel")>>>>],
           [Config EXCEPT !.group.cmdAllowed = <<Exe>>, !.group.files = <<Exe>>], [Config EXCEPT !.group.cmdAllowed = <<<<>>>>]}

\* Templates and their parameters, in the configuration and in an include, and what loading refuses.
Templates ==
  LET texts == {<<P("par", "p")>>, <<P("opt", "p")>>, <<P("arr", "p")>>, <<Lit("x"), P("opt", "p")>>, <<Lit("x"), P("arr", "p")>>,
                <<P("pesc", "p")>>, <<P("popen", "p")>>, <<P("bs", "x")>>, <<Ref("G")>>, <<Ref("a")>>, <<Ref("H")>>}
      params == {NoVars, "p" :> Str(<<Lit("v")>>), "p" :> Str(<<>>), "p" :> Arr(<<<<Lit("v")>>, <<Ref("G")>>>>), "p" :> Str(<<Ref("a")>>)}
      use(t, ps) == [Config EXCEPT !.templates = "T" :> t,
                                   !.group.vars = "a" :> Str(<<Lit("x")>>),
                                   !.commands = <<[Command EXCEPT !.template = {"T"}, !.cmd = <<>>, !.params = ps]>>]
      elsewhere(t, ps) == [use(t, ps) EXCEPT !.templates = NoVars,
                                            !.includes = <<[file |-> "include", parses |-> TRUE, templates |-> "T" :> t]>>]
  IN {use([Template EXCEPT !.args = <<t>>], ps) : t \in texts, ps \in params}
     \cup {elsewhere([Template EXCEPT !.args = <<t>>], ps) : t \in texts, ps \in params}
     \cup {use([Template EXCEPT !.env = <<e>>], ps) :
             e \in {Key("OUT", <<P("opt", "p")>>), <<P("arr", "p")>>, <<P("pkey", "p"), Lit("x")>>}, ps \in params}
     \cup {use([Template EXCEPT !.vars = "b" :> Str(<<P("par", "p")>>), !.args = <<>>, !.workdir = {<<P("opt", "p")>>}], ps) : ps \in params}
     \cup {use([Template EXCEPT !.vars = "b" :> Arr(<<<<P("arr", "p")>>>>), !.cmd = <<P("par", "p")>>, !.timeout = {1}], ps) : ps \in params}
     \cup {[use([Template EXCEPT !.imports = <<Import("b", "USER"), Import("c", "HOME")>>], NoVars)
              EXCEPT !.commands[1].imports = <<Import("b", "HOME")>>],
           [use(Template, NoVars) EXCEPT !.commands[1].template = {"q"}],
           [use(Template, NoVars) EXCEPT !.commands[1].args = {<<>>}],
           [use(Template, NoVars) EXCEPT !.includes = <<[file |-> "include", parses |-> TRUE, templates |-> "T" :> Template]>>],
           [use(Template, NoVars) EXCEPT !.includes = <<[file |-> "include", parses |-> FALSE, templates |-> NoVars]>>],
           use([Template EXCEPT !.named = TRUE], NoVars), use([Template EXCEPT !.cmd = <<>>], NoVars),
           [Config EXCEPT !.parses = FALSE], [Config EXCEPT !.groups = <<"grp", "grp">>],
           [Config EXCEPT !.global.timeout = {-1}]}

----------------------------------------------------------------------------
Node(kind, uid, gid, mode) == [kind |-> kind, uid |-> uid, gid |-> gid, mode |-> mode]
Sound == [n \in {"config", "include"} |-> Node("file", "root", "wheel", {"uw"})]
         @@ [n \in {"/", "/opt", "/hash"} |-> Node("dir", "root", "wheel", {"uw", "gw"})]
Process == [real |-> "me", policy |-> "RealUIDOnly", sudo |-> {}]
Members == ("wheel" :> [listed |-> TRUE, explicit |-> {}, primary |-> {"root"}])
           @@ ("staff" :> [listed |-> TRUE, explicit |-> {"me"}, primary |-> {}])
           @@ ("lost" :> [listed |-> FALSE, explicit |-> {}, primary |-> {"me"}])

Scenario(c, w, n) == [cfg |-> c, who |-> w, members |-> Members, node |-> n]

ConfigFiles == {Node("file", "me", g, m) : g \in {"wheel", "staff", "lost"}, m \in {{"uw", "gw"}, {"gw", "ow"}, {"sticky"}}}
         \cup {Node(k, "root", "wheel", {"uw"}) : k \in {"file", "link", "absent"}}
Dirs == {Node("dir", u, g, m) : u \in {"root", "me", "other"}, g \in {"wheel", "staff", "lost"},
           m \in {{"uw", "gw"}, {"uw", "ow"}, {"uw", "gw", "ow", "sticky"}, {"uw", "gw", "sticky"}}}
        \cup {Node(k, "root", "wheel", {"uw"}) : k \in {"link", "absent", "file"}}

OneInclude == [Config EXCEPT !.includes = <<[file |-> "include", parses |-> TRUE, templates |-> NoVars]>>,
                             !.global.files = <<<<Lit("/opt/link")>>>>]

MCScenarios ==
  {Scenario(c, Process, Sound) : c \in Graphs \cup TextConfigs \cup Imports \cup Templates}
  \cup {Scenario(OneInclude, Process, [Sound EXCEPT !["config"] = f, !["include"] = g]) : f \in ConfigFiles, g \in ConfigFiles}
  \cup {Scenario(OneInclude, Process, [Sound EXCEPT ![d] = n]) : d \in {"/", "/opt", "/hash"}, n \in Dirs}
  \cup {Scenario(OneInclude, [real |-> u, policy |-> "SudoUIDAware", sudo |-> s], [Sound EXCEPT !["config"] = f]) :
          u \in {"root", "me"}, s \in {{}, {"me"}, {"gone"}}, f \in ConfigFiles}

MCImportScenarios == {Scenario(c, Process, Sound) : c \in Imports}
MCGraphScenarios == {Scenario(c, Process, Sound) : c \in Graphs}

MCParent == ("/" :> "/") @@ ("/opt" :> "/") @@ ("/hash" :> "/")
MCRealPath == (<<Lit("/opt/x")>> :> <<Lit("/opt/x")>>) @@ (<<Lit("/opt/link")>> :> <<Lit("/opt/x")>>)
MCDirOf == (<<Lit("/opt/x")>> :> "/opt") @@ (<<Lit("/opt/link")>> :> "/opt")
=============================================================================
