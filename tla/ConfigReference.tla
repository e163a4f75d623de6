-------------------------- MODULE ConfigReference --------------------------
(***************************************************************************)
(* What the texts of a configuration mean, said without the order in which *)
(* variables are expanded, memoized values or marks: a reference stands    *)
(* for the definition of its name at the innermost level that has one, and *)
(* the definition of a name that refers to itself means the level outside. *)
(***************************************************************************)
EXTENDS ConfigExpansion

\* What a command is given at each level.
Section(c, l) == IF l = 1 THEN cfg.global ELSE IF l = 2 THEN cfg.group ELSE c

Meant(text) == [ok |-> TRUE, text |-> text, depth |-> 0]
Meaningless == [ok |-> FALSE, text |-> <<>>, depth |-> 0]

RECURSIVE MeaningOfName(_, _, _, _)

\* The meaning of a text of level l, inside the definitions of "seen".
MeaningOfText(text, c, l, seen) ==
  FoldLeft(LAMBDA acc, p :
             CASE ~acc.ok -> acc
               [] acc.ok /\ p.k = "ref" ->
                    LET m == MeaningOfName(p.v, c, IF <<l, p.v>> \in seen THEN l - 1 ELSE l, seen)
                    IN [ok |-> m.ok, text |-> acc.text \o m.text,
                        depth |-> IF m.depth > acc.depth THEN m.depth ELSE acc.depth]
               [] acc.ok /\ p.k = "esc" -> [acc EXCEPT !.text = Append(@, Ref(p.v))]
               [] acc.ok /\ p.k = "bs" -> [acc EXCEPT !.text = Append(@, P("bad", p.v))]
               [] acc.ok /\ p.k \in {"bad", "pesc", "open"} -> Meaningless
               [] OTHER -> [acc EXCEPT !.text = Append(@, p)],
           Meant(<<>>), text)

\* Depth counts the definitions of one level entered on the way.
MeaningOfName(name, c, l, seen) ==
  IF l = 0 THEN IF name \in AutoNames THEN Meant(<<Lit(name)>>) ELSE Meaningless
  ELSE LET s == Section(c, l)
           imports == {m \in Range(s.imports) : m.name = name}
       IN CASE name \in DOMAIN s.vars ->
                 IF s.vars[name].kind # "string" \/ <<l, name>> \in seen THEN Meaningless
                 ELSE LET m == MeaningOfText(s.vars[name].val, c, l, seen \cup {<<l, name>>})
                      IN [m EXCEPT !.depth = @ + 1]
            [] name \notin DOMAIN s.vars /\ imports # {} -> Meant(ImportValue((CHOOSE m \in imports : TRUE).sys))
            [] OTHER -> [MeaningOfName(name, c, l - 1, {}) EXCEPT !.depth = 0]

\* Every variable of a level means something, and the chains between them are short of the limit.
LevelMeaningful(c, l) ==
  \A n \in DOMAIN Section(c, l).vars :
    LET v == Section(c, l).vars[n]
    IN \A text \in IF v.kind = "string" THEN {v.val} ELSE Range(v.val) :
         MeaningOfText(text, c, l, IF v.kind = "string" THEN {<<l, n>>} ELSE {}).ok
ChainLength(c, l) ==
  Max({0} \cup UNION {{MeaningOfText(text, c, l, {}).depth :
                        text \in IF Section(c, l).vars[n].kind = "string" THEN {Section(c, l).vars[n].val}
                                 ELSE Range(Section(c, l).vars[n].val)} : n \in DOMAIN Section(c, l).vars})

----------------------------------------------------------------------------
(* Where the code departs from it.                                         *)

\* A variable of a level is defined outside it too, and another one of the level refers to it: which
\* of the two is meant depends on the order of expansion.
Overridden(c, l) ==
  \E n \in DOMAIN Section(c, l).vars :
    /\ MeaningOfName(n, c, l - 1, {}).ok
    /\ \E o \in DOMAIN Section(c, l).vars \ {n} :
         LET v == Section(c, l).vars[o]
         IN \E text \in IF v.kind = "string" THEN {v.val} ELSE Range(v.val) : n \in RefsIn(text)

\* A value that is not plain is expanded a second time when a field refers to it.
Plain(text) == \A i \in DOMAIN text : text[i].k \in {"lit", "ref", "sys"}
Reread(c, upTo) ==
  \/ \E s \in DOMAIN cfg.system : \E i \in DOMAIN cfg.system[s] : cfg.system[s][i].k # "sys"
  \/ \E l \in 1..upTo : \E n \in DOMAIN Section(c, l).vars :
       LET v == Section(c, l).vars[n]
       IN \E text \in IF v.kind = "string" THEN {v.val} ELSE Range(v.val) : ~Plain(text)

\* At the limit of the depth the order decides too: a memoized value ends a chain.
AtDepthLimit(c, l) == ChainLength(c, l) >= MaxRecursionDepth

Departs(c, upTo) == Reread(c, upTo) \/ \E l \in 1..upTo : Overridden(c, l) \/ AtDepthLimit(c, l)

----------------------------------------------------------------------------
FieldTexts(c) == <<c.cmd>> \o Optional(c.args)

\* A command that is expanded has the fields its configuration means, whatever the order in which
\* variables were expanded, whatever was memoized and whatever commands were expanded before it; and
\* expansion fails on a variable only when some variable of that level, or some field, has no meaning
\* (expandVarsWithLazyResolution, resolveVariable, ExpandString, ExpandCommand). Departures are named.
ExpandedAsDefined ==
  /\ \A i \in DOMAIN results :
       Departs(results[i].spec, 3) \/
         \A j \in DOMAIN Expanded(results[i]) :
           LET m == MeaningOfText(FieldTexts(results[i].spec)[j], results[i].spec, 3, {})
           IN m.ok /\ m.text = Expanded(results[i])[j]
  /\ \A l \in 1..3 :
       step = "failed" /\ level = Levels[l] /\ err \in {"undefined", "circular", "depth", "array"} =>
         \/ Departs(spec, l)
         \/ ~LevelMeaningful(spec, l)
         \/ \E t \in (CASE l = 1 -> Range(spec.env) \cup Range(spec.files)
                        [] l = 2 -> Range(spec.env) \cup Range(spec.files) \cup Range(spec.cmdAllowed)
                        [] l = 3 -> {spec.cmd} \cup UNION {Range(a) : a \in spec.args \cup spec.env} \cup spec.workdir) :
              ~MeaningOfText(t, spec, l, {}).ok

\* What the string variables of a level may become, over all orders.
RECURSIVE AllOrders(_, _, _)
AllOrders(names, strings, arrays) ==
  IF names = {} THEN {[err |-> FALSE, strings |-> strings]}
  ELSE UNION {LET r == ExpandVarText(spec.vars[n].val, strings, arrays, spec.vars)
              IN IF r.err # "none" THEN {[err |-> TRUE, strings |-> NoVars]}
                 ELSE AllOrders(names \ {n}, Put(r.strings, n, r.text), arrays) : n \in names}

\* What the variables of a level become does not depend on the order in which they are expanded, short
\* of the depth limit (expandVarsWithLazyResolution: "order-independent due to lazy resolution").
OrderIndependent ==
  \A l \in 1..3 :
    step = "expand" /\ level = Levels[l] /\ ~AtDepthLimit(spec, l) =>
      Cardinality(AllOrders(Pending("string"), rt[level].strings, rt[level].arrays)) = 1
=============================================================================
