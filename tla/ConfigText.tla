----------------------------- MODULE ConfigText -----------------------------
(***************************************************************************)
(* The texts of a configuration, the names in them, and the ${param}       *)
(* placeholders of a template, replaced by parameters                      *)
(* (template_expansion.go).                                                *)
(*                                                                         *)
(* A text is a sequence of pieces:                                         *)
(*   lit    plain characters            sys    the value of a variable of  *)
(*   ref    %{v}                               the system environment      *)
(*   esc    \%{v}                       bs     \\ before a letter          *)
(*   bad    \ before a letter           open   %{ that is not closed       *)
(*   par    ${v}                        opt    ${?v}                       *)
(*   arr    ${@v}                       pesc   \${v}                       *)
(*   popen  ${ that is not closed, empty or misnamed                       *)
(*   key    K= at the start of an entry of env_vars, pkey ${p}=            *)
(* Removing an escape gives a piece of another kind, which a second pass   *)
(* over the result reads as what it now is.                                *)
(***************************************************************************)
EXTENDS Naturals, Sequences, SequencesExt, FiniteSets, TLC

CONSTANTS GlobalNames,        \* names with an upper-case first letter
          LocalNames,         \* names with a lower-case first letter
          AutoNames           \* names under the reserved prefix

ASSUME NamesAssumption == AutoNames \subseteq STRING

P(kind, v) == [k |-> kind, v |-> v]
Lit(v) == P("lit", v)
Ref(v) == P("ref", v)

PieceKinds == {"lit", "sys", "ref", "esc", "bs", "bad", "open", "par", "opt", "arr", "pesc", "popen", "key", "pkey"}
Pieces == [k : PieceKinds, v : STRING]
Texts == Seq(Pieces)

\* Texts with values of the system variables V at most, and those a file has: with none.
Carrying(V) == Seq({p \in Pieces : p.k = "sys" => p.v \in V})
Written == Carrying({})

\* The value of an optional field, or nothing.
Optional(field) == IF field = {} THEN <<>> ELSE CHOOSE x \in field : TRUE

NoVars == [x \in {} |-> <<>>]
Over(f, g) == [x \in DOMAIN f \cup DOMAIN g |-> IF x \in DOMAIN f THEN f[x] ELSE g[x]]
Put(f, x, v) == Over([y \in {x} |-> v], f)

ValidateVariableName(name) == name \in GlobalNames \cup LocalNames \cup AutoNames

DetermineScope(name) ==
  CASE name \in GlobalNames -> "global"
    [] name \in LocalNames  -> "local"
    [] OTHER                -> "error"

\* The names a text refers to; a malformed text is refused before.
RefsIn(text) == {text[i].v : i \in {j \in DOMAIN text : text[j].k = "ref"}}
WellFormed(text) ==
  \A i \in DOMAIN text : /\ text[i].k \notin {"bad", "pesc", "open"}
                         /\ text[i].k = "ref" => ValidateVariableName(text[i].v)

----------------------------------------------------------------------------
(* Placeholders. Parameters map names to strings or arrays.                *)
Placeholders(text) == SelectSeq(text, LAMBDA p : p.k \in {"par", "opt", "arr"})
ParsesPlaceholders(text) == \A i \in DOMAIN text : text[i].k # "popen"

ApplyEscapeSequences(text) ==
  [i \in DOMAIN text |-> CASE text[i].k = "pesc" -> P("par", text[i].v)
                           [] text[i].k = "bs"   -> P("bad", text[i].v)
                           [] OTHER              -> text[i]]

Values(vals) == [ok |-> TRUE, vals |-> vals]
NoValues == [ok |-> FALSE, vals |-> <<>>]

IsString(params, name) == name \in DOMAIN params /\ params[name].kind = "string"

ExpandArrayPlaceholder(name, params, field) ==
  CASE field = "workdir"             -> NoValues
    [] field # "workdir" /\ name \notin DOMAIN params -> Values(<<>>)
    [] OTHER -> IF params[name].kind = "array" THEN Values(params[name].val) ELSE NoValues

ExpandOptionalPlaceholder(name, params) ==
  IF name \notin DOMAIN params THEN Values(<<>>)
  ELSE IF params[name].kind # "string" THEN NoValues
  ELSE Values(IF params[name].val = <<>> THEN <<>> ELSE <<params[name].val>>)

Replacement(piece, params) ==
  IF piece.k \notin {"par", "opt"} THEN <<piece>>
  ELSE IF piece.v \in DOMAIN params THEN params[piece.v].val ELSE <<>>

ExpandStringPlaceholders(text, params) ==
  LET holders == {p \in Range(text) : p.k \in {"par", "opt", "arr"}}
      text2 == ApplyEscapeSequences(FlattenSeq([i \in DOMAIN text |-> Replacement(text[i], params)]))
  IN IF \/ \E p \in holders : p.k = "arr"
        \/ \E p \in holders : p.v \in DOMAIN params /\ ~IsString(params, p.v)
        \/ \E p \in holders : p.k = "par" /\ p.v \notin DOMAIN params
     THEN NoValues
     ELSE Values(IF text2 = <<>> THEN <<>> ELSE <<text2>>)

ExpandSingleArg(text, params, field) ==
  LET holders == Placeholders(text)
      alone(kind) == Len(holders) = 1 /\ holders[1].k = kind
  IN CASE ~ParsesPlaceholders(text) -> NoValues
       [] ParsesPlaceholders(text) /\ holders = <<>> -> Values(<<ApplyEscapeSequences(text)>>)
       [] ParsesPlaceholders(text) /\ alone("arr") ->
            IF Len(text) = 1 THEN ExpandArrayPlaceholder(holders[1].v, params, field) ELSE NoValues
       [] ParsesPlaceholders(text) /\ alone("opt") /\ Len(text) = 1 -> ExpandOptionalPlaceholder(holders[1].v, params)
       [] OTHER -> ExpandStringPlaceholders(text, params)

\* Several texts, one after the other; the first error ends it.
ExpandTemplateArgs(texts, params, field) ==
  LET rs == [i \in DOMAIN texts |-> ExpandSingleArg(texts[i], params, field)]
  IN IF \A i \in DOMAIN rs : rs[i].ok THEN Values(FlattenSeq([i \in DOMAIN rs |-> rs[i].vals])) ELSE NoValues
=============================================================================
