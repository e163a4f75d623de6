---------------------------- MODULE MCReporting ----------------------------
(* Values of every kind, nested to the depth limit and past it, in reports of *)
(* every kind; and sequences of reports under every setting.                  *)
EXTENDS Reporting

Plain(id) == <<Piece("plain", id)>>
KV == <<Piece("plain", "say"), Piece("kv", "s1")>>
Fmt == <<Piece("fmt", "s2")>>
Word == <<Piece("word", "w1")>>
Texts == {Plain("p1"), KV, Fmt, Word}

Quiet == [success |-> "unset", error |-> "unset", dryRun |-> FALSE, level |-> "info", logDir |-> "none", loads |-> TRUE]
Both == [Quiet EXCEPT !.success = "good", !.error = "good", !.logDir = "good"]
Hooks == {"unset", "good", "bad"}
MCSettings ==
  {[Quiet EXCEPT !.success = s, !.error = e, !.logDir = d, !.loads = l, !.dryRun = y] :
     s \in Hooks, e \in Hooks, d \in {"none", "good", "refused"}, l \in BOOLEAN, y \in BOOLEAN}
  \cup {[Both EXCEPT !.level = v] : v \in {"debug", "info", "warn", "error"}}

\* Nested values, each layer of every kind around those below it. What stands
\* under a telling key, and what redaction does not look into, has names of its own,
\* as a name is secret or is not.
Overseen == <<Piece("kv", "s7")>>
Around(v) == {V("group", <<Entry("a", v)>>), V("valuer", <<v>>), V("slice", <<Entry("", v)>>),
              V("array", <<Entry("", v)>>), V("map", <<Entry("a", v), Entry("password", Str(Plain("s3")))>>),
              V("struct", <<Entry("unexported", Str(Fmt)), Entry("Token", Str(Plain("s4"))), Entry("A", v)>>),
              V("ptr", <<IF v.k = "string" THEN Str(Overseen) ELSE v>>)}
Leaf == {Str(KV), Str(Fmt), Str(Word), V("panics", Plain("x1")), V("named", <<Piece("fmt", "s8")>>), V("func", <<>>), V("nil", <<>>), Zero}
Layer1 == UNION {Around(v) : v \in Leaf}
Layer2 == UNION {Around(v) : v \in Layer1}
Deep == {V("slice", <<Entry("", V("ptr", <<V("valuer", <<v>>)>>)), Entry("", V("panics", Plain("x2")))>>) : v \in Layer1}
Values == Leaf \cup Layer1 \cup Layer2 \cup Deep \cup {V("ptr", <<>>), V("ptr", <<V("group", <<Entry("a", Str(KV)), Entry("password", Str(Plain("s9")))>>)>>),
          V("struct", <<Entry("unexported", Str(KV))>>)}

Security(severity, text, key, v) == [op |-> "security", severity |-> severity, text |-> text, details |-> <<Entry(key, v)>>]
Result(name, exit, text) == [name |-> Plain(name), exit |-> exit, out |-> text, stderr |-> text]
One == V("prim", <<Piece("plain", "1")>>)
Summary(status, results) == [op |-> "summary", status |-> status, group |-> Plain("g"), results |-> results]
UserGroup(ok, text) == [op |-> "user_group", ok |-> ok, name |-> Plain("c"), args |-> text, out |-> text]
Escalation(ok, text) == [op |-> "escalation", ok |-> ok, name |-> Plain("c"), text |-> text]
Risk(risk, deny, text) == [op |-> "risk", risk |-> risk, deny |-> deny, args |-> <<text, Plain("p")>>]
Error(op, text) == [op |-> op, text |-> text]

Single ==
  {<<Security("high", Plain("m"), "detail", v)>> : v \in Values}
  \cup {<<Security("high", Plain("m"), "password", v)>> : v \in Around(Str(Plain("s5"))) \cup Around(V("named", Plain("s6")))}
  \cup {<<Security(s, t, "detail", Zero)>> : s \in {"critical", "medium", "low"}, t \in Texts}
  \cup {<<Summary("success", <<Result("c", Zero, t), Result("d", Zero, u), Result("e", One, t)>>)>> : t \in Texts, u \in Texts}
  \cup {<<UserGroup(ok, t)>> : ok \in BOOLEAN, t \in Texts} \cup {<<Escalation(ok, t)>> : ok \in BOOLEAN, t \in Texts}
  \cup {<<Risk(r, d, t)>> : r \in {"low", "medium", "high", "critical"}, d \in BOOLEAN, t \in Texts}
  \cup {<<Error(op, t)>> : op \in {"pre_error", "exec_error"}, t \in Texts}

Short == <<Summary("success", <<Result("c", Zero, KV)>>), Summary("error", <<Result("c", One, KV)>>), UserGroup(FALSE, KV),
          Security("high", Fmt, "detail", V("panics", Plain("x1"))), Risk("medium", FALSE, KV)>>
Sequences3 == {<<a, b, Error("pre_error", KV)>> : a \in {Short[1], Short[2]}, b \in {Short[3], Short[4], Short[5]}}
Sequences2 == {<<a, b>> : a \in Range(Short), b \in Range(Short)}

MCScenarios ==
  {[setting |-> Both, reports |-> r] : r \in Single}
  \cup {[setting |-> [Both EXCEPT !.level = "warn"], reports |-> r] : r \in Sequences3}
  \cup {[setting |-> [Both EXCEPT !.level = "error"], reports |-> r] : r \in Sequences2}
  \cup {[setting |-> s, reports |-> r] : s \in MCSettings, r \in {<<>>, <<Summary("success", <<Result("c", Zero, KV)>>)>>,
                                                                  <<Short[4], Error("exec_error", Fmt)>>}}
============================================================================
