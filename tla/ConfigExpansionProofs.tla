------------------------ MODULE ConfigExpansionProofs ------------------------
(***************************************************************************)
(* What reaches a command of the caller's environment: EnvConfined, for    *)
(* every configuration, every depth of nested references and every list.   *)
(*                                                                         *)
(* The first half is about the operators: the expansion of parameters      *)
(* gives texts of the file from texts of the file, and the expansion of    *)
(* references carries nothing but what the variables carry. Both are by    *)
(* induction, over the pieces of a text, the elements of an array or the   *)
(* levels left below a resolver. The provers cannot instantiate a theorem  *)
(* with a predicate; induction is stated over a set instead, and every use *)
(* names the set of the numbers that have the property.                    *)
(*                                                                         *)
(* The second half is the invariant: a bound for each level on what its    *)
(* variables and its environment may carry, kept by every action.          *)
(***************************************************************************)
EXTENDS StartupProofs, NaturalsInduction, WellFoundedInduction

----------------------------------------------------------------------------
(* Induction.                                                              *)
\* A set with 0 and with the successors of its elements has every number: otherwise the least number
\* outside it has a predecessor inside.
LEMMA SetInduction ==
  ASSUME NEW T, 0 \in T, \A n \in Nat : n \in T => n + 1 \in T
  PROVE  Nat \subseteq T
<1> DEFINE R == {ss \in Nat \X Nat : ss[1] < ss[2]}
<1> SUFFICES ASSUME Nat \ T # {} PROVE FALSE
  OBVIOUS
<1>1. IsWellFoundedOn(R, Nat)
  BY NatLessThanWellFounded DEF OpToRel
<1>2. PICK x \in Nat \ T : \A y \in Nat \ T : ~ (<<y, x>> \in R)
  <2> DEFINE U == Nat \ T
  <2>1. U \subseteq Nat /\ U # {}
    OBVIOUS
  <2> HIDE DEF U, R
  <2>2. \E x \in U : \A y \in U : ~ (<<y, x>> \in R)
    BY <1>1, <2>1, WFMin
  <2> QED BY <2>2 DEF U
<1>3. x # 0 /\ x - 1 \in Nat /\ (x - 1) + 1 = x /\ x - 1 < x
  OBVIOUS
<1>4. <<x - 1, x>> \in R
  BY <1>3
<1>5. x - 1 \in T
  BY <1>2, <1>3, <1>4
<1> QED BY <1>3, <1>5

\* Texts one after the other are a text (the appends of ExpandTemplateArgs).
LEMMA FlattenIn ==
  ASSUME NEW S, NEW ss \in Seq(Seq(S))
  PROVE  FlattenSeq(ss) \in Seq(S)
<1>1. CASE Len(ss) = 0
  BY <1>1 DEF FlattenSeq
<1>2. CASE Len(ss) # 0
  <2> DEFINE N == Len(ss)
             good(f, n) == f = [i \in 1..n |-> IF i = 1 THEN ss[i] ELSE f[i - 1] \o ss[i]]
             T == {n \in Nat : \E f : good(f, n)}
  <2>1. N \in Nat \ {0} /\ \A i \in 1..N : ss[i] \in Seq(S)
    BY <1>2
  <2>2. 0 \in T
    <3> DEFINE f == [i \in 1..0 |-> ss[i]]
    <3>1. good(f, 0)
      OBVIOUS
    <3> QED BY <3>1
  <2>3. ASSUME NEW n \in Nat, n \in T PROVE n + 1 \in T
    <3>1. PICK f : good(f, n)
      BY <2>3
    <3> DEFINE g == [i \in 1..(n+1) |-> IF i <= n THEN f[i] ELSE IF i = 1 THEN ss[i] ELSE f[i - 1] \o ss[i]]
    <3>2. ASSUME NEW i \in 1..(n+1) PROVE g[i] = IF i = 1 THEN ss[i] ELSE g[i - 1] \o ss[i]
      <4>1. CASE i <= n /\ i = 1
        BY <4>1, <3>1
      <4>2. CASE i <= n /\ i # 1
        <5>1. i \in 1..n /\ i - 1 \in 1..n /\ i - 1 \in 1..(n+1)
          BY <4>2
        <5>2. f[i] = f[i-1] \o ss[i]
          BY <5>1, <4>2, <3>1
        <5>3. g[i] = f[i] /\ g[i - 1] = f[i - 1]
          BY <5>1, <4>2
        <5> HIDE DEF g
        <5> QED BY <5>2, <5>3, <4>2
      <4>3. CASE i = n+1
        <5>1. i = 1 \/ (i - 1 \in 1..(n+1) /\ i - 1 <= n)
          BY <4>3
        <5> QED BY <5>1, <4>3
      <4> QED BY <4>1, <4>2, <4>3
    <3>3. good(g, n+1)
      BY <3>2
    <3> HIDE DEF good, g
    <3> QED BY <3>3
  <2>4. \E f : good(f, N)
    BY <2>1, <2>2, <2>3, SetInduction
  <2> DEFINE F == CHOOSE f : good(f, N)
  <2>5. good(F, N)
    BY <2>4
  <2>6. FlattenSeq(ss) = F[N]
    BY <1>2 DEF FlattenSeq
  <2> DEFINE U == {n \in Nat : n \in 1..N => F[n] \in Seq(S)}
  <2>7. 0 \in U
    OBVIOUS
  <2>8. ASSUME NEW n \in Nat, n \in U PROVE n + 1 \in U
    <3> SUFFICES ASSUME n + 1 \in 1..N PROVE F[n + 1] \in Seq(S)
      OBVIOUS
    <3>1. F[n + 1] = IF n + 1 = 1 THEN ss[n + 1] ELSE F[(n + 1) - 1] \o ss[n + 1]
      BY <2>5
    <3>2. (n + 1) - 1 = n /\ (n = 0 \/ n \in 1..N) /\ ss[n + 1] \in Seq(S)
      BY <2>1
    <3> HIDE DEF F
    <3>3. n = 0 \/ F[n] \in Seq(S)
      BY <2>8, <3>2
    <3> QED BY <3>1, <3>2, <3>3
  <2> HIDE DEF F
  <2>9. N \in U
    <3> HIDE DEF U, N
    <3> QED BY <2>1, <2>7, <2>8, SetInduction
  <2> QED BY <2>1, <2>6, <2>9
<1> QED BY <1>1, <1>2

\* Larger sets of variables allow more texts.
LEMMA CarryingMore ==
  ASSUME NEW V, NEW W, V \subseteq W
  PROVE  Carrying(V) \subseteq Carrying(W)
<1> DEFINE A == {p \in Pieces : p.k = "sys" => p.v \in V}
           B == {p \in Pieces : p.k = "sys" => p.v \in W}
<1>1. A \subseteq B
  OBVIOUS
<1> HIDE DEF A, B
<1>2. Seq(A) \subseteq Seq(B)
  BY <1>1
<1> QED
  BY <1>2 DEF Carrying, A, B

\* The system variables of a text are those it may carry.
LEMMA CarryingSys ==
  ASSUME NEW V, NEW t \in Carrying(V)
  PROVE  SysIn(t) \subseteq V
  BY DEF Carrying, SysIn, Pieces

\* No text carries nothing.
LEMMA EmptyText == ASSUME NEW V PROVE <<>> \in Carrying(V)
  BY DEF Carrying

\* The texts of a configuration are sequences of pieces.
LEMMA WrittenPieces ==
  ASSUME NEW t \in Written
  PROVE  /\ Len(t) \in Nat /\ DOMAIN t = 1..Len(t)
         /\ \A i \in DOMAIN t : <<t[i]>> \in Written
         /\ ApplyEscapeSequences(t) \in Written
<1> DEFINE A == {p \in Pieces : p.k = "sys" => p.v \in {}}
<1>1. t \in Seq(A) /\ Written = Seq(A)
  BY DEF Written, Carrying
<1>2. ASSUME NEW p \in A PROVE P("par", p.v) \in A /\ P("bad", p.v) \in A
  BY DEF P, Pieces, PieceKinds
<1> HIDE DEF A
<1>3. Len(t) \in Nat /\ DOMAIN t = 1..Len(t) /\ \A i \in DOMAIN t : t[i] \in A
  BY <1>1
<1>4. \A i \in DOMAIN t : <<t[i]>> \in Seq(A)
  BY <1>3
<1>5. ApplyEscapeSequences(t) \in Seq(A)
  <2> DEFINE e(i) == CASE t[i].k = "pesc" -> P("par", t[i].v)
                       [] t[i].k = "bs"   -> P("bad", t[i].v)
                       [] OTHER           -> t[i]
  <2>1. \A i \in 1..Len(t) : e(i) \in A
    BY <1>2, <1>3
  <2>2. ApplyEscapeSequences(t) = [i \in 1..Len(t) |-> e(i)]
    BY <1>3 DEF ApplyEscapeSequences
  <2> HIDE DEF e
  <2> QED
    BY <1>3, <2>1, <2>2
<1> QED
  BY <1>1, <1>3, <1>4, <1>5

----------------------------------------------------------------------------
(* Templates: expansion of parameters gives written texts from written ones *)

\* Values of parameters.
LEMMA ParamValues ==
  ASSUME NEW params, Defines(params), NEW n \in DOMAIN params
  PROVE  /\ params[n].kind = "string" => params[n].val \in Written
         /\ params[n].kind = "array" => params[n].val \in Seq(Written)
         /\ params[n].kind \in {"string", "array"}
  BY DEF Defines, Definitions

\* One text is a sequence of texts.
LEMMA OneText == ASSUME NEW S, NEW t \in S PROVE <<t>> \in Seq(S)
  OBVIOUS

\* Parameters put in place of their placeholders (expandStringPlaceholders).
LEMMA StringPlaceholders ==
  ASSUME NEW params, Defines(params), NEW t \in Written
  PROVE  ExpandStringPlaceholders(t, params).vals \in Seq(Written)
<1> DEFINE rs == [i \in DOMAIN t |-> Replacement(t[i], params)]
           text2 == ApplyEscapeSequences(FlattenSeq(rs))
<1>1. CASE ExpandStringPlaceholders(t, params) = NoValues
  BY <1>1 DEF NoValues
<1>2. CASE ExpandStringPlaceholders(t, params) # NoValues
  <2>1. /\ ExpandStringPlaceholders(t, params) = Values(IF text2 = <<>> THEN <<>> ELSE <<text2>>)
        /\ \A i \in DOMAIN t : t[i].k \in {"par", "opt"} /\ t[i].v \in DOMAIN params => IsString(params, t[i].v)
    BY <1>2 DEF ExpandStringPlaceholders, Range
  <2>2. Len(t) \in Nat /\ DOMAIN t = 1..Len(t) /\ \A i \in DOMAIN t : <<t[i]>> \in Written
    BY WrittenPieces
  <2>3. ASSUME NEW i \in DOMAIN t PROVE Replacement(t[i], params) \in Written
    <3>1. CASE t[i].k \notin {"par", "opt"}
      BY <2>2, <3>1 DEF Replacement
    <3>2. CASE t[i].k \in {"par", "opt"} /\ t[i].v \in DOMAIN params
      BY <2>1, <3>2, ParamValues DEF Replacement, IsString
    <3>3. CASE t[i].k \in {"par", "opt"} /\ t[i].v \notin DOMAIN params
      BY <3>3, EmptyText DEF Replacement, Written
    <3> QED
      BY <3>1, <3>2, <3>3
  <2>4. rs \in Seq(Written)
    <3> HIDE DEF Replacement
    <3> QED
      BY <2>2, <2>3
  <2> HIDE DEF rs
  <2>5. FlattenSeq(rs) \in Written
    BY <2>4, FlattenIn DEF Written, Carrying
  <2>6. text2 \in Written
    BY <2>5, WrittenPieces
  <2> HIDE DEF text2
  <2> QED
    BY <2>1, <2>6, OneText DEF Values
<1> QED
  BY <1>1, <1>2

\* One text of a template (expandSingleArg).
LEMMA SingleArg ==
  ASSUME NEW params, Defines(params), NEW t \in Written, NEW field
  PROVE  ExpandSingleArg(t, params, field).vals \in Seq(Written)
<1> DEFINE name == Placeholders(t)[1].v
           r == ExpandSingleArg(t, params, field)
<1>1. NoValues.vals \in Seq(Written)
  BY DEF NoValues
<1>2. ExpandArrayPlaceholder(name, params, field).vals \in Seq(Written)
  <2> HIDE DEF name
  <2>1. Values(<<>>).vals \in Seq(Written)
    BY DEF Values
  <2>2. name \in DOMAIN params /\ params[name].kind = "array" => Values(params[name].val).vals \in Seq(Written)
    BY ParamValues DEF Values
  <2> QED
    BY <1>1, <2>1, <2>2 DEF ExpandArrayPlaceholder
<1>3. ExpandOptionalPlaceholder(name, params).vals \in Seq(Written)
  <2> HIDE DEF name
  <2>1. Values(<<>>).vals \in Seq(Written)
    BY DEF Values
  <2>2. name \in DOMAIN params /\ params[name].kind = "string" => Values(<<params[name].val>>).vals \in Seq(Written)
    BY ParamValues, OneText DEF Values
  <2> QED
    BY <1>1, <2>1, <2>2 DEF ExpandOptionalPlaceholder
<1>4. Values(<<ApplyEscapeSequences(t)>>).vals \in Seq(Written)
  BY WrittenPieces, OneText DEF Values
<1>5. \/ r = NoValues \/ r = Values(<<ApplyEscapeSequences(t)>>)
      \/ r = ExpandArrayPlaceholder(name, params, field) \/ r = ExpandOptionalPlaceholder(name, params)
      \/ r = ExpandStringPlaceholders(t, params)
  BY DEF ExpandSingleArg
<1> QED
  BY <1>1, <1>2, <1>3, <1>4, <1>5, StringPlaceholders

\* The texts of a template (ExpandTemplateArgs).
LEMMA TemplateArgs ==
  ASSUME NEW params, Defines(params), NEW ts \in Seq(Written), NEW field
  PROVE  ExpandTemplateArgs(ts, params, field).vals \in Seq(Written)
<1> DEFINE rs == [i \in DOMAIN ts |-> ExpandSingleArg(ts[i], params, field)]
           vs == [i \in DOMAIN rs |-> rs[i].vals]
<1>1. DOMAIN ts = 1..Len(ts) /\ Len(ts) \in Nat /\ \A i \in DOMAIN ts : ts[i] \in Written
  OBVIOUS
<1>2. \A i \in DOMAIN ts : ExpandSingleArg(ts[i], params, field).vals \in Seq(Written)
  BY <1>1, SingleArg
<1>3. vs = [i \in 1..Len(ts) |-> ExpandSingleArg(ts[i], params, field).vals]
  BY <1>1
<1>4. vs \in Seq(Seq(Written))
  BY <1>1, <1>2, <1>3
<1> HIDE DEF vs
<1>5. FlattenSeq(vs) \in Seq(Written)
  BY <1>4, FlattenIn
<1>6. ExpandTemplateArgs(ts, params, field) = Values(FlattenSeq(vs)) \/ ExpandTemplateArgs(ts, params, field) = NoValues
  BY DEF ExpandTemplateArgs, vs
<1>8. Values(FlattenSeq(vs)).vals \in Seq(Written)
  BY <1>5, <1>6 DEF Values
<1>9. NoValues.vals \in Seq(Written)
  BY DEF NoValues
<1> QED
  BY <1>5, <1>6, <1>8, <1>9

\* The env_vars of a template (ExpandTemplateEnv).
LEMMA TemplateEnv ==
  ASSUME NEW params, Defines(params), NEW es \in Seq(Written)
  PROVE  ExpandTemplateEnv(es, params).vals \in Seq(Written)
<1> DEFINE vs == ExpandTemplateArgs(es, params, "env_vars").vals
           one(i) == IF Len(vs[i]) > 1 THEN <<vs[i]>> ELSE <<>>
           ks == [i \in DOMAIN vs |-> one(i)]
<1>1. vs \in Seq(Written)
  BY TemplateArgs
<1>2. ExpandTemplateEnv(es, params) = Values(FlattenSeq(ks)) \/ ExpandTemplateEnv(es, params) = NoValues
  BY DEF ExpandTemplateEnv
<1> HIDE DEF vs
<1>3. DOMAIN vs = 1..Len(vs) /\ Len(vs) \in Nat /\ \A i \in DOMAIN vs : vs[i] \in Written
  BY <1>1
<1>4. \A i \in DOMAIN vs : <<vs[i]>> \in Seq(Written) /\ <<>> \in Seq(Written)
  BY <1>3
<1>5. \A i \in DOMAIN vs : one(i) \in Seq(Written)
  BY <1>4
<1> HIDE DEF one
<1>6. ks \in Seq(Seq(Written))
  BY <1>3, <1>5
<1> HIDE DEF ks
<1>7. FlattenSeq(ks) \in Seq(Written)
  BY <1>6, FlattenIn
<1>8. Values(FlattenSeq(ks)).vals \in Seq(Written)
  BY <1>2, <1>7 DEF Values
<1>9. NoValues.vals \in Seq(Written)
  BY DEF NoValues
<1> QED
  BY <1>2, <1>7, <1>8, <1>9

\* A variable of a template stays a string or an array of texts (ExpandTemplateVars).
LEMMA TemplateVar ==
  ASSUME NEW params, Defines(params), NEW v \in Definitions
  PROVE  ExpandTemplateVar(v, params).val \in Definitions
<1>1. CASE v.kind = "string"
  <2> DEFINE vs == ExpandSingleArg(v.val, params, "vars").vals
             t == IF vs = <<>> THEN <<>> ELSE vs[1]
  <2>1. v.val \in Written
    BY <1>1 DEF Definitions
  <2>2. vs \in Seq(Written)
    BY <2>1, SingleArg
  <2>3. ExpandTemplateVar(v, params).val = [kind |-> "string", val |-> t]
    BY <1>1 DEF ExpandTemplateVar
  <2> HIDE DEF vs
  <2>4. t \in Written
    BY <2>2, EmptyText DEF Written
  <2> HIDE DEF t
  <2> QED
    BY <2>3, <2>4 DEF Definitions
<1>2. CASE v.kind # "string"
  <2> DEFINE vs == ExpandTemplateArgs(v.val, params, "vars").vals
  <2>1. v.val \in Seq(Written)
    BY <1>2 DEF Definitions
  <2>2. vs \in Seq(Written)
    BY <2>1, TemplateArgs
  <2>3. ExpandTemplateVar(v, params).val = [kind |-> "array", val |-> vs]
    BY <1>2 DEF ExpandTemplateVar
  <2> HIDE DEF vs
  <2> QED
    BY <2>2, <2>3 DEF Definitions
<1> QED
  BY <1>1, <1>2

\* An absent field is the empty sequence.
LEMMA OptionalIn ==
  ASSUME NEW S, NEW field, field \subseteq Seq(S)
  PROVE  Optional(field) \in Seq(S)
<1>1. CASE field = {}
  BY <1>1 DEF Optional
<1>2. CASE field # {}
  <2>1. Optional(field) \in field
    BY <1>2 DEF Optional
  <2> QED
    BY <2>1
<1> QED
  BY <1>1, <1>2

\* A command with its template applied is as written as both are (expandTemplateToSpec).
LEMMA TemplateSpec ==
  ASSUME NEW c, WrittenCommand(c), NEW t, WrittenTemplate(t)
  PROVE  WrittenCommand(ExpandTemplateToSpec(c, t).spec)
<1> DEFINE s == ExpandTemplateToSpec(c, t).spec
           cmd == ExpandSingleArg(t.cmd, c.params, "cmd").vals
           args == ExpandTemplateArgs(t.args, c.params, "args").vals
           envs == ExpandTemplateEnv(t.env, c.params).vals
           dir == IF t.workdir = {} THEN Values(<<>>) ELSE ExpandSingleArg(Optional(t.workdir), c.params, "workdir")
           vars0 == [n \in DOMAIN t.vars |-> ExpandTemplateVar(t.vars[n], c.params)]
           inherited == [n \in DOMAIN vars0 |-> vars0[n].val]
<1>1. /\ s.params = c.params
      /\ s.cmd = IF cmd = <<>> THEN <<>> ELSE cmd[1]
      /\ s.args = {args} /\ s.env = {envs}
      /\ s.workdir = OverrideStringPointer(c.workdir, Range(dir.vals))
      /\ s.vars = MergeVars(inherited, c.vars)
  BY DEF ExpandTemplateToSpec
<1>2. Defines(c.params) /\ Defines(c.vars) /\ c.workdir \subseteq Written
  BY DEF WrittenCommand
<1>3. t.cmd \in Written /\ t.args \in Seq(Written) /\ t.env \in Seq(Written) /\ t.workdir \subseteq Written /\ Defines(t.vars)
  BY DEF WrittenTemplate, WrittenSection
<1>4. s.cmd \in Written
  <2>1. cmd \in Seq(Written)
    BY <1>2, <1>3, SingleArg
  <2> HIDE DEF cmd, s
  <2> QED
    BY <1>1, <2>1, EmptyText DEF Written
<1>5. s.args \subseteq Seq(Written)
  <2>1. args \in Seq(Written)
    BY <1>2, <1>3, TemplateArgs
  <2> HIDE DEF args, s
  <2> QED
    BY <1>1, <2>1
<1>6. s.env \subseteq Seq(Written)
  <2>1. envs \in Seq(Written)
    BY <1>2, <1>3, TemplateEnv
  <2> HIDE DEF envs, s
  <2> QED
    BY <1>1, <2>1
<1>7. s.workdir \subseteq Written
  <2>1. Optional(t.workdir) \in Written
    BY <1>3, OptionalIn DEF Written, Carrying
  <2>2. dir.vals \in Seq(Written)
    <3>1. CASE t.workdir = {}
      BY <3>1 DEF Values
    <3>2. CASE t.workdir # {}
      BY <1>2, <2>1, <3>2, SingleArg
    <3> QED
      BY <3>1, <3>2
  <2> HIDE DEF dir, s
  <2>3. Range(dir.vals) \subseteq Written
    BY <2>2 DEF Range
  <2> QED
    BY <1>1, <1>2, <2>3 DEF OverrideStringPointer
<1>8. Defines(s.vars)
  <2>1. \A n \in DOMAIN t.vars : t.vars[n] \in Definitions
    BY <1>3 DEF Defines
  <2>2. DOMAIN inherited = DOMAIN t.vars /\ \A n \in DOMAIN t.vars : inherited[n] \in Definitions
    BY <1>2, <2>1, TemplateVar
  <2> DEFINE own == c.vars
  <2>3. \A n \in DOMAIN own : own[n] \in Definitions
    BY <1>2 DEF Defines
  <2>4. s.vars = Over(own, inherited)
    BY <1>1 DEF MergeVars
  <2> HIDE DEF inherited, s, own
  <2>5. \A n \in DOMAIN Over(own, inherited) : Over(own, inherited)[n] \in Definitions
    BY <2>2, <2>3 DEF Over
  <2> QED
    BY <2>4, <2>5 DEF Defines
<1> HIDE DEF s
<1>9. WrittenCommand(s)
  BY <1>1, <1>2, <1>4, <1>5, <1>6, <1>7, <1>8 DEF WrittenCommand
<1> QED
  BY <1>9 DEF s

----------------------------------------------------------------------------
(* References: what an expansion carries.                                  *)
\* Variables whose values carry V at most; memoized ones; the result of an expansion; and a resolver
\* that gives such results for such memos.
Carry(f, V) == \A n \in DOMAIN f : f[n] \in Carrying(V)

Memos(V) == SUBSET (STRING \X Carrying(V))
Confined(r, V) == r.text \in Carrying(V) /\ r.memo \in Memos(V)
Resolves(resolver, V) == \A q \in Requests : q.memo \in Memos(V) => Confined(resolver[q], V)

\* Memoized texts are texts.
LEMMA MemosAreTexts == \A V : Memos(V) \subseteq SUBSET (STRING \X Texts)
<1> SUFFICES ASSUME NEW V PROVE Memos(V) \subseteq SUBSET (STRING \X Texts)
  OBVIOUS
<1> DEFINE A == {p \in Pieces : p.k = "sys" => p.v \in V}
           B == Pieces
<1>1. A \subseteq B
  OBVIOUS
<1> HIDE DEF A, B
<1>2. Seq(A) \subseteq Seq(B)
  BY <1>1
<1>3. Carrying(V) \subseteq Texts
  BY <1>2 DEF Carrying, Texts, A, B
<1> QED
  BY <1>3 DEF Memos

\* One piece (processVarRefs).
LEMMA PieceConfined ==
  ASSUME NEW V, NEW acc, Confined(acc, V), NEW visited \in SUBSET STRING, NEW resolver, Resolves(resolver, V),
         NEW piece \in Pieces, piece.k = "sys" => piece.v \in V
  PROVE  Confined(ProcessPiece(acc, piece, visited, resolver), V)
<1> DEFINE A == {p \in Pieces : p.k = "sys" => p.v \in V}
           q == [name |-> piece.v, memo |-> acc.memo, visited |-> visited]
           found == resolver[q]
           joined == [err |-> found.err, text |-> acc.text \o found.text, memo |-> found.memo]
           r == ProcessPiece(acc, piece, visited, resolver)
<1>1. piece \in A /\ piece.v \in STRING /\ P("bad", piece.v) \in A /\ Ref(piece.v) \in A
  BY DEF P, Ref, Pieces, PieceKinds
<1>2. acc.text \in Seq(A) /\ acc.memo \in Memos(V) /\ Carrying(V) = Seq(A)
  BY DEF Confined, Carrying
<1>3. q \in Requests /\ q.memo = acc.memo
  BY <1>1, <1>2, MemosAreTexts DEF Requests
<1>4. Confined(found, V)
  BY <1>2, <1>3 DEF Resolves
<1>5. \A e : Confined(Fail(e, acc.memo), V)
  BY <1>2 DEF Fail, Confined, Carrying
<1> HIDE DEF A, q, found
<1>6. \A p \in A : Confined(Ok(Append(acc.text, p), acc.memo), V)
  <2>1. \A p \in A : Append(acc.text, p) \in Seq(A)
    BY <1>2
  <2> QED
    BY <1>2, <2>1 DEF Ok, Confined
<1>7. Confined(joined, V)
  <2>1. found.text \in Seq(A) /\ found.memo \in Memos(V)
    BY <1>2, <1>4 DEF Confined
  <2>2. acc.text \o found.text \in Seq(A)
    BY <1>2, <2>1
  <2> QED
    BY <1>2, <2>1, <2>2 DEF Confined
<1>8. \/ r = acc \/ \E e : r = Fail(e, acc.memo)
      \/ \E p \in A : r = Ok(Append(acc.text, p), acc.memo)
      \/ r = joined
  BY <1>1 DEF ProcessPiece, q, found
<1> QED
  BY <1>5, <1>6, <1>7, <1>8

\* A text, piece by piece (processVarRefs).
LEMMA TextConfined ==
  ASSUME NEW V, NEW text \in Carrying(V), NEW memo \in Memos(V),
         NEW visited \in SUBSET STRING, NEW resolver, Resolves(resolver, V)
  PROVE  Confined(ProcessVarRefs(text, memo, visited, resolver), V)
<1> DEFINE N == Len(text)
           step1(acc, i) == ProcessPiece(acc, text[i], visited, resolver)
           good(f, n) == f = [i \in 0..n |-> IF i = 0 THEN Ok(<<>>, memo) ELSE step1(f[i - 1], i)]
           T == {n \in Nat : \E f : good(f, n)}
<1>1. N \in Nat /\ \A i \in 1..N : text[i] \in Pieces /\ (text[i].k = "sys" => text[i].v \in V)
  BY DEF Carrying
<1>2. 0 \in T
  <2> DEFINE f == [i \in 0..0 |-> Ok(<<>>, memo)]
  <2>1. good(f, 0)
    OBVIOUS
  <2> QED
    BY <2>1
<1>3. ASSUME NEW n \in Nat, n \in T PROVE n + 1 \in T
  <2>1. PICK f : good(f, n)
    BY <1>3
  <2> DEFINE g == [i \in 0..(n + 1) |-> IF i <= n THEN f[i] ELSE step1(f[i - 1], i)]
  <2>2. ASSUME NEW i \in 0..(n + 1) PROVE g[i] = IF i = 0 THEN Ok(<<>>, memo) ELSE step1(g[i - 1], i)
    <3>1. CASE i = 0
      BY <2>1, <3>1
    <3>2. CASE i # 0
      <4>1. i - 1 \in 0..(n + 1) /\ i - 1 <= n /\ (i <= n => i \in 0..n /\ i - 1 \in 0..n)
        BY <3>2
      <4>2. g[i - 1] = f[i - 1]
        BY <4>1
      <4>3. i <= n => f[i] = step1(f[i - 1], i)
        BY <2>1, <3>2, <4>1
      <4>4. g[i] = step1(f[i - 1], i)
        BY <4>3
      <4> HIDE DEF g, step1
      <4> QED
        BY <3>2, <4>2, <4>4
    <3> QED
      BY <3>1, <3>2
  <2>3. good(g, n + 1)
    BY <2>2
  <2> HIDE DEF good, g
  <2> QED
    BY <2>3
<1>4. \E f : good(f, N)
  <2> HIDE DEF good, N
  <2> QED
    BY <1>1, <1>2, <1>3, SetInduction
<1> DEFINE F == CHOOSE f : good(f, N)
<1>5. good(F, N)
  BY <1>4
<1>6. ProcessVarRefs(text, memo, visited, resolver) = F[N]
  BY DEF ProcessVarRefs
<1> DEFINE U == {n \in Nat : n \in 0..N => Confined(F[n], V)}
<1> HIDE DEF F
<1>7. F[0] = Ok(<<>>, memo) /\ \A n \in Nat : n + 1 \in 0..N => n \in 0..N /\ F[n + 1] = step1(F[n], n + 1)
  <2>1. F[0] = Ok(<<>>, memo)
    <3> HIDE DEF step1
    <3> QED
      BY <1>1, <1>5
  <2>2. ASSUME NEW n \in Nat, n + 1 \in 0..N PROVE n \in 0..N /\ F[n + 1] = step1(F[n], n + 1)
    <3>1. n \in 0..N /\ (n + 1) - 1 = n /\ n + 1 # 0
      BY <1>1, <2>2
    <3>2. F[n + 1] = IF n + 1 = 0 THEN Ok(<<>>, memo) ELSE step1(F[(n + 1) - 1], n + 1)
      BY <1>5, <2>2
    <3> HIDE DEF step1
    <3> QED
      BY <3>1, <3>2
  <2> QED
    BY <2>1, <2>2
<1>8. 0 \in U
  <2>1. Confined(Ok(<<>>, memo), V)
    BY EmptyText DEF Ok, Confined
  <2> QED
    BY <1>7, <2>1
<1>9. ASSUME NEW n \in Nat, n \in U PROVE n + 1 \in U
  <2> SUFFICES ASSUME n + 1 \in 0..N PROVE Confined(F[n + 1], V)
    OBVIOUS
  <2>1. Confined(F[n], V)
    BY <1>7, <1>9
  <2>2. n + 1 \in 1..N
    OBVIOUS
  <2> DEFINE a == F[n]
             p == text[n + 1]
  <2>3. Confined(a, V) /\ p \in Pieces /\ (p.k = "sys" => p.v \in V)
    BY <1>1, <2>1, <2>2
  <2> HIDE DEF a, p
  <2>4. Confined(ProcessPiece(a, p, visited, resolver), V)
    BY <2>3, PieceConfined
  <2> QED
    BY <1>7, <2>4 DEF a, p
<1>10. N \in U
  <2> HIDE DEF U, N
  <2> QED
    BY <1>1, <1>8, <1>9, SetInduction
<1> QED
  BY <1>1, <1>6, <1>10

\* Expanded variables with memoized ones.
LEMMA KnownConfined ==
  ASSUME NEW V, NEW strings, Carry(strings, V), NEW memo \in Memos(V)
  PROVE  Carry(Known(strings, memo), V)
<1> DEFINE names == {m[1] : m \in memo}
           f == [n \in names |-> (CHOOSE m \in memo : m[1] = n)[2]]
<1>1. \A n \in names : (CHOOSE m \in memo : m[1] = n) \in memo
  OBVIOUS
<1>2. \A m \in memo : m[2] \in Carrying(V)
  BY DEF Memos
<1>3. DOMAIN f = names /\ \A n \in names : f[n] \in Carrying(V)
  BY <1>1, <1>2
<1>4. Known(strings, memo) = Over(f, strings)
  BY DEF Known
<1> HIDE DEF f, names
<1> QED
  BY <1>3, <1>4 DEF Over, Carry

\* A request (resolveVariable and the resolver of resolveAndExpand).
LEMMA RequestConfined ==
  ASSUME NEW V, NEW lazy \in BOOLEAN, NEW strings, NEW arrays, NEW raw, Carry(strings, V), Defines(raw),
         NEW q \in Requests, q.memo \in Memos(V), NEW left \in Nat, NEW deeper, left # 0 => Resolves(deeper, V)
  PROVE  Confined(ResolveVariable(q, Context(lazy, strings, arrays, raw), left, deeper), V)
<1> DEFINE ctx == Context(lazy, strings, arrays, raw)
<1>1. ctx.lazy = lazy /\ ctx.strings = strings /\ ctx.arrays = arrays /\ ctx.raw = raw
  BY DEF Context
<1> HIDE DEF ctx
<1>2. \A e : Confined(Fail(e, q.memo), V)
  BY EmptyText DEF Fail, Confined
<1>3. q.name \in STRING /\ q.visited \cup {q.name} \in SUBSET STRING
  BY DEF Requests
<1>4. ASSUME NEW text \in Carrying(V) PROVE Confined(ExpandNested(text, q, left, deeper), V)
  <2>1. CASE left = 0
    BY <1>2, <2>1 DEF ExpandNested
  <2>2. CASE left # 0
    BY <1>3, <2>2, TextConfined DEF ExpandNested
  <2> QED
    BY <2>1, <2>2
<1>5. Confined(ResolveLazily(q, ctx, left, deeper), V)
  <2> DEFINE known == Known(strings, q.memo)
             r == ExpandNested(raw[q.name].val, q, left, deeper)
             kept == Ok(r.text, r.memo \cup {<<q.name, r.text>>})
             res == ResolveLazily(q, ctx, left, deeper)
  <2>1. q.name \in DOMAIN known => Confined(Ok(known[q.name], q.memo), V)
    BY KnownConfined DEF Carry, Ok, Confined
  <2>2. q.name \in DOMAIN raw /\ raw[q.name].kind = "string" => Confined(r, V)
    <3>1. q.name \in DOMAIN raw /\ raw[q.name].kind = "string" => raw[q.name].val \in Written
      BY DEF Defines, Definitions
    <3>2. Written \subseteq Carrying(V)
      BY CarryingMore DEF Written
    <3> QED
      BY <1>4, <3>1, <3>2
  <2>3. \/ q.name \in DOMAIN known /\ res = Ok(known[q.name], q.memo)
        \/ \E e : res = Fail(e, q.memo)
        \/ q.name \in DOMAIN raw /\ raw[q.name].kind = "string" /\ (res = r \/ res = kept)
    BY <1>1 DEF ResolveLazily
  <2> HIDE DEF known, r, res
  <2>4. Confined(r, V) => Confined(kept, V)
    <3> SUFFICES ASSUME Confined(r, V) PROVE Confined(kept, V)
      OBVIOUS
    <3>1. r.text \in Carrying(V) /\ r.memo \in Memos(V)
      BY DEF Confined
    <3>2. r.memo \cup {<<q.name, r.text>>} \in Memos(V)
      BY <1>3, <3>1 DEF Memos
    <3> QED
      BY <3>1, <3>2 DEF Ok, Confined
  <2>5. Confined(res, V)
    BY <1>2, <2>1, <2>2, <2>3, <2>4
  <2> QED
    BY <2>5 DEF res
<1>6. Confined(ResolveExpanded(q, ctx, left, deeper), V)
  <2>1. q.name \in DOMAIN strings => strings[q.name] \in Carrying(V)
    BY DEF Carry
  <2> QED
    BY <1>1, <1>2, <1>4, <2>1 DEF ResolveExpanded
<1>7. Confined(ResolveVariable(q, ctx, left, deeper), V)
  BY <1>5, <1>6 DEF ResolveVariable
<1> QED
  BY <1>7 DEF ctx

\* Every resolver, however many levels are left below it.
LEMMA ResolverConfined ==
  ASSUME NEW V, NEW lazy \in BOOLEAN, NEW strings, NEW arrays, NEW raw, Carry(strings, V), Defines(raw)
  PROVE  Resolves(Resolvers(Context(lazy, strings, arrays, raw))[MaxRecursionDepth - 1], V)
<1> DEFINE ctx == Context(lazy, strings, arrays, raw)
           N == MaxRecursionDepth - 1
           at(left, deeper) == [q \in Requests |-> ResolveVariable(q, ctx, left, deeper)]
           good(f, n) == f = [i \in 0..n |-> at(i, IF i = 0 THEN <<>> ELSE f[i - 1])]
           T == {n \in Nat : \E f : good(f, n)}
<1>1. N \in Nat
  BY DepthAssumption
<1>2. 0 \in T
  <2> DEFINE f == [i \in 0..0 |-> at(0, <<>>)]
  <2> HIDE DEF at
  <2>1. good(f, 0)
    OBVIOUS
  <2> QED
    BY <2>1
<1>3. ASSUME NEW n \in Nat, n \in T PROVE n + 1 \in T
  <2>1. PICK f : good(f, n)
    BY <1>3
  <2> HIDE DEF at
  <2> DEFINE g == [i \in 0..(n + 1) |-> IF i <= n THEN f[i] ELSE at(i, f[i - 1])]
  <2>2. ASSUME NEW i \in 0..(n + 1) PROVE g[i] = at(i, IF i = 0 THEN <<>> ELSE g[i - 1])
    <3>1. CASE i = 0
      BY <2>1, <3>1
    <3>2. CASE i # 0
      <4>1. i - 1 \in 0..(n + 1) /\ i - 1 <= n /\ (i <= n => i \in 0..n /\ i - 1 \in 0..n)
        BY <3>2
      <4>2. g[i - 1] = f[i - 1]
        BY <4>1
      <4>3. i <= n => f[i] = at(i, f[i - 1])
        BY <2>1, <3>2, <4>1
      <4>4. g[i] = at(i, f[i - 1])
        BY <4>3
      <4> HIDE DEF g
      <4> QED
        BY <3>2, <4>2, <4>4
    <3> QED
      BY <3>1, <3>2
  <2>3. good(g, n + 1)
    BY <2>2
  <2> HIDE DEF good, g
  <2> QED
    BY <2>3
<1>4. \E f : good(f, N)
  <2> HIDE DEF good, N
  <2> QED
    BY <1>1, <1>2, <1>3, SetInduction
<1> DEFINE F == CHOOSE f : good(f, N)
<1>5. good(F, N)
  BY <1>4
<1>6. Resolvers(ctx) = F
  BY DEF Resolvers
<1> HIDE DEF F
<1> DEFINE U == {n \in Nat : n \in 0..N => Resolves(F[n], V)}
<1>7. ASSUME NEW left \in Nat, NEW deeper, left # 0 => Resolves(deeper, V)
      PROVE  Resolves(at(left, deeper), V)
  <2>1. ASSUME NEW q \in Requests, q.memo \in Memos(V)
        PROVE  Confined(ResolveVariable(q, ctx, left, deeper), V)
    BY <1>7, <2>1, RequestConfined
  <2>2. \A q \in Requests : at(left, deeper)[q] = ResolveVariable(q, ctx, left, deeper)
    OBVIOUS
  <2> HIDE DEF at, ctx
  <2> QED
    BY <2>1, <2>2 DEF Resolves
<1> HIDE DEF at
<1>8. 0 \in U
  <2>1. F[0] = at(0, <<>>)
    BY <1>1, <1>5
  <2> QED
    BY <1>7, <2>1
<1>9. ASSUME NEW n \in Nat, n \in U PROVE n + 1 \in U
  <2> SUFFICES ASSUME n + 1 \in 0..N PROVE Resolves(F[n + 1], V)
    OBVIOUS
  <2>1. n \in 0..N /\ (n + 1) - 1 = n /\ n + 1 # 0 /\ n + 1 \in Nat
    BY <1>1
  <2>2. F[n + 1] = at(n + 1, IF n + 1 = 0 THEN <<>> ELSE F[(n + 1) - 1])
    BY <1>5
  <2>3. F[n + 1] = at(n + 1, F[n])
    BY <2>1, <2>2
  <2>4. Resolves(F[n], V)
    BY <1>9, <2>1
  <2> QED
    BY <1>7, <2>1, <2>3, <2>4
<1>10. N \in U
  <2> HIDE DEF U, N
  <2> QED
    BY <1>1, <1>8, <1>9, SetInduction
<1> QED
  BY <1>1, <1>6, <1>10

\* What an expansion gives, from any memoized variables.
LEMMA ExpandedConfined ==
  ASSUME NEW V, NEW lazy \in BOOLEAN, NEW strings, NEW arrays, NEW raw, Carry(strings, V), Defines(raw),
         NEW text \in Carrying(V), NEW memo \in Memos(V)
  PROVE  Confined(ExpandIn(text, memo, Context(lazy, strings, arrays, raw)), V)
<1>1. Resolves(Resolvers(Context(lazy, strings, arrays, raw))[MaxRecursionDepth - 1], V)
  BY ResolverConfined
<1>2. {} \in SUBSET STRING
  OBVIOUS
<1> QED
  BY <1>1, <1>2, TextConfined DEF ExpandIn

\* The elements of an array (expandVarsWithLazyResolution).
LEMMA ElementsConfined ==
  ASSUME NEW V, NEW strings, NEW arrays, NEW raw, Carry(strings, V), Defines(raw), NEW texts \in Seq(Written)
  PROVE  Carry(ExpandElements(texts, strings, arrays, raw).strings, V)
<1> DEFINE ctx == Context(TRUE, strings, arrays, raw)
           N == Len(texts)
           next(acc, i) == ExpandElement(acc, texts[i], ctx)
           good(f, n) == f = [i \in 0..n |-> IF i = 0 THEN Ok(<<>>, {}) ELSE next(f[i - 1], i)]
           T == {n \in Nat : \E f : good(f, n)}
<1>1. N \in Nat /\ \A i \in 1..N : texts[i] \in Carrying(V)
  <2>1. Written \subseteq Carrying(V)
    BY CarryingMore DEF Written
  <2> QED
    BY <2>1
<1>2. ASSUME NEW acc, acc.memo \in Memos(V), NEW i \in 1..N PROVE next(acc, i).memo \in Memos(V)
  <2> DEFINE m == acc.memo
             r == ExpandIn(texts[i], m, ctx)
  <2>1. Confined(r, V)
    BY <1>1, <1>2, ExpandedConfined
  <2>2. next(acc, i) = IF acc.err # "none" THEN acc
                       ELSE [err |-> r.err, text |-> Append(acc.text, r.text), memo |-> r.memo]
    BY DEF ExpandElement
  <2> HIDE DEF r, next
  <2> QED
    BY <1>2, <2>1, <2>2 DEF Confined
<1>3. Ok(<<>>, {}).memo \in Memos(V)
  BY DEF Ok, Memos
<1> HIDE DEF next, ctx
<1>4. 0 \in T
  <2> DEFINE f == [i \in 0..0 |-> Ok(<<>>, {})]
  <2>1. good(f, 0)
    OBVIOUS
  <2> QED
    BY <2>1
<1>5. ASSUME NEW n \in Nat, n \in T PROVE n + 1 \in T
  <2>1. PICK f : good(f, n)
    BY <1>5
  <2> DEFINE g == [i \in 0..(n + 1) |-> IF i <= n THEN f[i] ELSE next(f[i - 1], i)]
  <2>2. ASSUME NEW i \in 0..(n + 1) PROVE g[i] = IF i = 0 THEN Ok(<<>>, {}) ELSE next(g[i - 1], i)
    <3>1. CASE i = 0
      BY <2>1, <3>1
    <3>2. CASE i # 0
      <4>1. i - 1 \in 0..(n + 1) /\ i - 1 <= n /\ (i <= n => i \in 0..n /\ i - 1 \in 0..n)
        BY <3>2
      <4>2. g[i - 1] = f[i - 1]
        BY <4>1
      <4>3. i <= n => f[i] = next(f[i - 1], i)
        BY <2>1, <3>2, <4>1
      <4>4. g[i] = next(f[i - 1], i)
        BY <4>3
      <4> HIDE DEF g
      <4> QED
        BY <3>2, <4>2, <4>4
    <3> QED
      BY <3>1, <3>2
  <2>3. good(g, n + 1)
    BY <2>2
  <2> HIDE DEF good, g
  <2> QED
    BY <2>3
<1>6. \E f : good(f, N)
  <2> HIDE DEF good, N
  <2> QED
    BY <1>1, <1>4, <1>5, SetInduction
<1> DEFINE F == CHOOSE f : good(f, N)
<1>7. good(F, N)
  BY <1>6
<1>8. ExpandElements(texts, strings, arrays, raw) = Memoized(F[N], strings)
  BY DEF ExpandElements, next, ctx
<1> HIDE DEF F
<1> DEFINE U == {n \in Nat : n \in 0..N => F[n].memo \in Memos(V)}
<1>9. 0 \in U
  <2>1. F[0] = Ok(<<>>, {})
    BY <1>1, <1>7
  <2> QED
    BY <1>3, <2>1
<1>10. ASSUME NEW n \in Nat, n \in U PROVE n + 1 \in U
  <2> SUFFICES ASSUME n + 1 \in 0..N PROVE F[n + 1].memo \in Memos(V)
    OBVIOUS
  <2>1. n \in 0..N /\ (n + 1) - 1 = n /\ n + 1 # 0 /\ n + 1 \in 1..N
    BY <1>1
  <2>2. F[n + 1] = IF n + 1 = 0 THEN Ok(<<>>, {}) ELSE next(F[(n + 1) - 1], n + 1)
    BY <1>7
  <2>3. F[n + 1] = next(F[n], n + 1) /\ F[n].memo \in Memos(V)
    BY <1>10, <2>1, <2>2
  <2> QED
    BY <1>2, <2>1, <2>3
<1>11. N \in U
  <2> HIDE DEF U, N
  <2> QED
    BY <1>1, <1>9, <1>10, SetInduction
<1>12. F[N].memo \in Memos(V)
  BY <1>1, <1>11
<1> QED
  BY <1>8, <1>12, KnownConfined DEF Memoized

\* The expansion of a text, of a variable and of an array carries nothing but what the text and the
\* variables do.
ExpansionConfined ==
  \A V, strings, arrays, raw :
    Carry(strings, V) /\ Defines(raw) =>
      /\ \A text \in Carrying(V) : ExpandString(text, strings).text \in Carrying(V)
      /\ \A text \in Written : /\ ExpandVarText(text, strings, arrays, raw).text \in Carrying(V)
                               /\ Carry(ExpandVarText(text, strings, arrays, raw).strings, V)
      /\ \A texts \in Seq(Written) : Carry(ExpandElements(texts, strings, arrays, raw).strings, V)

\* A text expanded from variables, eagerly (ExpandString) or with the raw definitions expanded and
\* memoized on the way (varExpander), carries no value of the caller's environment that its text or
\* its variables do not carry: to any depth, through any cycle that is refused, and with any memo.
THEOREM ExpansionTheorem == ExpansionConfined
<1> SUFFICES ASSUME NEW V, NEW strings, NEW arrays, NEW raw, Carry(strings, V), Defines(raw)
    PROVE /\ \A text \in Carrying(V) : ExpandString(text, strings).text \in Carrying(V)
          /\ \A text \in Written : /\ ExpandVarText(text, strings, arrays, raw).text \in Carrying(V)
                                   /\ Carry(ExpandVarText(text, strings, arrays, raw).strings, V)
          /\ \A texts \in Seq(Written) : Carry(ExpandElements(texts, strings, arrays, raw).strings, V)
  BY DEF ExpansionConfined
<1>1. {} \in Memos(V) /\ Defines(NoVars)
  BY DEF Memos, Defines, NoVars
<1>2. ASSUME NEW text \in Carrying(V) PROVE ExpandString(text, strings).text \in Carrying(V)
  <2>1. Confined(ExpandIn(text, {}, Context(FALSE, strings, NoVars, NoVars)), V)
    BY <1>1, ExpandedConfined
  <2> QED
    BY <2>1 DEF ExpandString, Confined
<1>3. ASSUME NEW text \in Written
      PROVE  /\ ExpandVarText(text, strings, arrays, raw).text \in Carrying(V)
             /\ Carry(ExpandVarText(text, strings, arrays, raw).strings, V)
  <2> DEFINE r == ExpandIn(text, {}, Context(TRUE, strings, arrays, raw))
  <2>1. text \in Carrying(V)
    BY CarryingMore DEF Written
  <2>2. Confined(r, V)
    BY <1>1, <2>1, ExpandedConfined
  <2>3. ExpandVarText(text, strings, arrays, raw) = [err |-> r.err, text |-> r.text, strings |-> Known(strings, r.memo)]
    BY DEF ExpandVarText, Memoized
  <2> HIDE DEF r
  <2>4. r.text \in Carrying(V) /\ Carry(Known(strings, r.memo), V)
    BY <2>2, KnownConfined DEF Confined
  <2> QED
    BY <2>3, <2>4
<1> QED
  BY <1>2, <1>3, ElementsConfined

----------------------------------------------------------------------------
(* The invariant.                                                          *)
\* What the variables and the environment of a level may carry.
Bound(l) ==
  IF l = "global" THEN cfg.global.allowed \cap ImportedBy(cfg.global)
  ELSE IF l = "group" THEN (cfg.global.allowed \cap ImportedBy(cfg.global)) \cup (Effective \cap ImportedBy(cfg.group))
  ELSE Permitted(spec)

\* A level's section is that of the configuration; a command's, with its template, is written too.
SpecInv ==
  /\ level = "global" => spec = cfg.global
  /\ level = "group" => spec = cfg.group
  /\ level = "command" => WrittenCommand(spec)
  /\ step \in {"fields", "workdir", "environment"} => level = "command"
  /\ step = "env" => level # "command"
  /\ step = "expand" => todo \subseteq DOMAIN spec.vars
  /\ WrittenTemplates(templates)
  /\ cmdNo \in Nat

RtInv ==
  /\ DOMAIN rt = {"global", "group", "command"}
  /\ \A l \in DOMAIN rt : DOMAIN rt[l] = {"strings", "arrays", "imports"}
  /\ Carry(rt["global"].strings, Bound("global")) /\ Carry(rt["group"].strings, Bound("group"))
  /\ level = "command" => Carry(rt["command"].strings, Permitted(spec))

EnvsInv ==
  /\ DOMAIN env = {"global", "group", "command"}
  /\ Carry(env["global"], Bound("global")) /\ Carry(env["group"], Bound("group"))

FieldsInv ==
  /\ step \in {"workdir", "environment"} =>
       /\ Carry(env["command"], Permitted(spec))
       /\ DOMAIN fields = {"cmd", "args", "workdir"}
       /\ fields.cmd \in Carrying(Permitted(spec)) /\ fields.args \in Seq(Carrying(Permitted(spec)))
  /\ step = "environment" => fields.workdir \in Carrying(Permitted(spec))

ResultsInv == results \in Seq(Range(results)) /\ EnvConfined

EnvInv == SpecInv /\ RtInv /\ EnvsInv /\ FieldsInv /\ ResultsInv

\* What a scenario's configuration holds.
LEMMA GivenTexts ==
  ASSUME Given
  PROVE  /\ WrittenSection(cfg.global) /\ WrittenSection(cfg.group)
         /\ \A i \in 1..Len(cfg.commands) : WrittenCommand(cfg.commands[i])
         /\ WrittenTemplates(cfg.templates)
         /\ DOMAIN cfg.includes = 1..Len(cfg.includes) /\ Len(cfg.includes) \in Nat
         /\ \A i \in DOMAIN cfg.includes : WrittenTemplates(cfg.includes[i].templates)
         /\ \A v \in DOMAIN cfg.system : cfg.system[v] \in Carrying({v})
<1>1. PICK s \in Scenarios : cfg = s.cfg
  BY DEF Given
<1>2. DOMAIN cfg.commands = 1..Len(cfg.commands)
  BY GivenFacts
<1> QED
  BY <1>1, <1>2, ScenarioAssumption, WrittenAssumption

\* The variables of the section at hand are definitions.
LEMMA SpecVars == ASSUME Given, SpecInv, level \in {"global", "group", "command"} PROVE Defines(spec.vars)
  BY GivenTexts DEF SpecInv, WrittenSection, WrittenCommand

\* A larger level may carry what a smaller one does.
LEMMA Bounds ==
  Bound("global") \subseteq Bound("group") /\ \A s : Bound("group") \subseteq Permitted(s)
  BY DEF Bound, Permitted

\* Variables may carry more than they do.
LEMMA CarryMore ==
  ASSUME NEW f, NEW V, NEW W, V \subseteq W, Carry(f, V)
  PROVE  Carry(f, W)
  BY CarryingMore DEF Carry

\* The bounds depend on the configuration and, for a command, on its section alone.
LEMMA SameBounds ==
  ASSUME UNCHANGED cfg
  PROVE  /\ Bound("global")' = Bound("global") /\ Bound("group")' = Bound("group")
         /\ \A s : Permitted(s)' = Permitted(s)
         /\ UNCHANGED spec => Permitted(spec)' = Permitted(spec)
  BY DEF Bound, Permitted, Effective, ImportedBy

\* Commands already expanded stay as they are.
LEMMA SameResults ==
  ASSUME UNCHANGED <<cfg, results>>, ResultsInv
  PROVE  ResultsInv'
<1>1. \A s : Permitted(s)' = Permitted(s)
  BY SameBounds
<1>2. EnvConfined'
  BY <1>1 DEF ResultsInv, EnvConfined, Expanded
<1> QED
  BY <1>2 DEF ResultsInv

\* A step that changes neither texts nor levels.
LEMMA QuietStep ==
  ASSUME EnvInv, UNCHANGED <<cfg, templates, level, spec, rt, env, cmdNo, fields, results>>,
         step' \notin {"fields", "workdir", "environment", "env", "expand"} \/ UNCHANGED <<step, todo>>
  PROVE  EnvInv'
<1>1. SpecInv'
  BY DEF EnvInv, SpecInv, WrittenCommand, WrittenTemplates
<1>2. RtInv'
  BY SameBounds DEF EnvInv, RtInv
<1>3. EnvsInv'
  BY SameBounds DEF EnvInv, EnvsInv
<1>4. FieldsInv'
  BY SameBounds DEF EnvInv, FieldsInv
<1>5. ResultsInv'
  BY SameResults DEF EnvInv
<1> QED
  BY <1>1, <1>2, <1>3, <1>4, <1>5 DEF EnvInv

\* The variables of the level change, within what it may carry.
LEMMA VariablesStep ==
  ASSUME EnvInv, level \in {"global", "group", "command"}, NEW r,
         DOMAIN r = {"strings", "arrays", "imports"}, Carry(r.strings, Bound(level)),
         rt' = [rt EXCEPT ![level] = r],
         UNCHANGED <<cfg, templates, level, spec, env, cmdNo, fields, results>>,
         step' = "vars" \/ (step = "expand" /\ step' = "expand" /\ todo' \subseteq todo)
  PROVE  EnvInv'
<1>1. SpecInv'
  BY DEF EnvInv, SpecInv, WrittenCommand, WrittenTemplates
<1>2. RtInv'
  <2>1. DOMAIN rt = {"global", "group", "command"} /\ DOMAIN rt' = DOMAIN rt
        /\ rt'[level] = r /\ \A l \in DOMAIN rt : l # level => rt'[l] = rt[l]
    BY DEF EnvInv, RtInv
  <2>2. \A l \in DOMAIN rt' : DOMAIN rt'[l] = {"strings", "arrays", "imports"}
    BY <2>1 DEF EnvInv, RtInv
  <2>3. Carry(rt'["global"].strings, Bound("global")) /\ Carry(rt'["group"].strings, Bound("group"))
    BY <2>1 DEF EnvInv, RtInv
  <2>4. level = "command" => Carry(rt'["command"].strings, Permitted(spec))
    BY <2>1 DEF EnvInv, RtInv, Bound
  <2> QED
    BY <2>1, <2>2, <2>3, <2>4, SameBounds DEF RtInv
<1>3. EnvsInv'
  BY SameBounds DEF EnvInv, EnvsInv
<1>4. FieldsInv'
  BY DEF FieldsInv
<1>5. ResultsInv'
  BY SameResults DEF EnvInv
<1> QED
  BY <1>1, <1>2, <1>3, <1>4, <1>5 DEF EnvInv

\* An error changes no text.
LEMMA RefuseQuiet ==
  ASSUME EnvInv, NEW why, Refuse(why)
  PROVE  EnvInv'
  BY QuietStep DEF Refuse

\* What is imported is on the list that applies (ProcessEnvImport).
LEMMA ImportStep ==
  ASSUME Given, EnvInv, level \in {"global", "group", "command"}, ProcessEnvImport
  PROVE  EnvInv'
<1>1. CASE Refuse("import")
  BY <1>1, RefuseQuiet
<1>2. CASE ~Refuse("import")
  <2> DEFINE names == {m.name : m \in Range(spec.imports)}
             pick(n) == CHOOSE m \in Range(spec.imports) : m.name = n
             added == [n \in names |-> ImportValue(pick(n).sys)]
             old == rt[level].strings
             r == [rt[level] EXCEPT !.strings = Over(added, @), !.imports = @ \cup DOMAIN added]
  <2>1. /\ \A i \in DOMAIN spec.imports : spec.imports[i].sys \in Allowlist
        /\ rt' = [rt EXCEPT ![level].strings = Over(added, @), ![level].imports = @ \cup DOMAIN added]
        /\ UNCHANGED <<cfg, templates, level, spec, env, cmdNo, fields, results>> /\ step' = "vars"
    BY <1>2 DEF ProcessEnvImport
  <2>2. \A m \in Range(spec.imports) : m.sys \in Allowlist /\ m.sys \in ImportedBy(spec)
    BY <2>1 DEF Range, ImportedBy
  <2>3. \A n \in names : pick(n) \in Range(spec.imports)
    OBVIOUS
  <2>4. Allowlist \cap ImportedBy(spec) \subseteq Bound(level)
    BY DEF Allowlist, DetermineEffectiveEnvAllowlist, Bound, Permitted, Effective, EnvInv, SpecInv
  <2>5. ASSUME NEW v \in Bound(level) PROVE ImportValue(v) \in Carrying(Bound(level))
    <3>1. CASE v \in DOMAIN cfg.system
      <4>1. cfg.system[v] \in Carrying({v}) /\ {v} \subseteq Bound(level)
        BY <3>1, GivenTexts
      <4> QED
        BY <3>1, <4>1, CarryingMore DEF ImportValue
    <3>2. CASE v \notin DOMAIN cfg.system
      BY <3>2, EmptyText DEF ImportValue
    <3> QED
      BY <3>1, <3>2
  <2>6. \A n \in names : ImportValue(pick(n).sys) \in Carrying(Bound(level))
    BY <2>2, <2>3, <2>4, <2>5
  <2>7. Carry(old, Bound(level))
    BY DEF EnvInv, RtInv, Bound
  <2>8. rt' = [rt EXCEPT ![level] = r]
    BY <2>1 DEF EnvInv, RtInv
  <2>9. DOMAIN r = {"strings", "arrays", "imports"} /\ r.strings = Over(added, old)
    BY DEF EnvInv, RtInv
  <2>10. DOMAIN added = names /\ \A n \in names : added[n] \in Carrying(Bound(level))
    BY <2>6
  <2> HIDE DEF added, old, names, r
  <2>11. Carry(Over(added, old), Bound(level))
    BY <2>7, <2>10 DEF Carry, Over
  <2> QED
    BY <2>1, <2>8, <2>9, <2>11, VariablesStep
<1> QED
  BY <1>1, <1>2

\* A variable is expanded from the variables of its level and those outside (expandVarsWithLazyResolution).
LEMMA StringVarStep ==
  ASSUME Given, EnvInv, level \in {"global", "group", "command"}, ExpandStringVar
  PROVE  EnvInv'
<1>1. PICK n \in Pending("string") :
        LET r == ExpandVarText(spec.vars[n].val, rt[level].strings, rt[level].arrays, spec.vars)
        IN IF r.err # "none" THEN Refuse(r.err)
           ELSE /\ rt' = [rt EXCEPT ![level].strings = Put(r.strings, n, r.text)]
                /\ todo' = todo \ {n}
                /\ UNCHANGED <<cfg, templates, step, level, spec, env, cmdNo, fields, results>>
  BY DEF ExpandStringVar
<1> DEFINE e == ExpandVarText(spec.vars[n].val, rt[level].strings, rt[level].arrays, spec.vars)
           q == [rt[level] EXCEPT !.strings = Put(e.strings, n, e.text)]
<1>2. CASE Refuse(e.err)
  BY <1>2, RefuseQuiet
<1>3. CASE ~Refuse(e.err)
  <2>1. /\ rt' = [rt EXCEPT ![level].strings = Put(e.strings, n, e.text)]
        /\ todo' = todo \ {n}
        /\ UNCHANGED <<cfg, templates, step, level, spec, env, cmdNo, fields, results>>
    BY <1>1, <1>3
  <2>2. Defines(spec.vars) /\ Carry(rt[level].strings, Bound(level))
    BY SpecVars DEF EnvInv, RtInv, Bound
  <2>3. spec.vars[n].val \in Written
    <3>1. n \in DOMAIN spec.vars /\ spec.vars[n].kind = "string"
      BY DEF ExpandStringVar, Pending, EnvInv, SpecInv
    <3> QED
      BY <2>2, <3>1 DEF Defines, Definitions
  <2>4. step = "expand" /\ DOMAIN rt[level] = {"strings", "arrays", "imports"} /\ level \in DOMAIN rt
    BY DEF ExpandStringVar, EnvInv, RtInv
  <2>5. e.text \in Carrying(Bound(level)) /\ Carry(e.strings, Bound(level))
    BY <2>2, <2>3, ExpansionTheorem DEF ExpansionConfined
  <2> DEFINE f == e.strings
             t == e.text
  <2>6. q = [rt[level] EXCEPT !.strings = Put(f, n, t)] /\ rt' = [rt EXCEPT ![level] = q]
    BY <2>1
  <2> HIDE DEF e, q, f, t
  <2>7. Carry(Put(f, n, t), Bound(level))
    <3>1. t \in Carrying(Bound(level)) /\ \A y \in DOMAIN f : f[y] \in Carrying(Bound(level))
      BY <2>5 DEF Carry, f, t
    <3> QED
      BY <3>1 DEF Carry, Put, Over
  <2>8. DOMAIN q = {"strings", "arrays", "imports"} /\ q.strings = Put(f, n, t)
    BY <2>4, <2>6
  <2> QED
    BY <2>1, <2>4, <2>6, <2>7, <2>8, VariablesStep
<1> QED
  BY <1>2, <1>3

\* The elements of an array, and the variables memoized on the way (expandVarsWithLazyResolution).
LEMMA ArrayVarStep ==
  ASSUME Given, EnvInv, level \in {"global", "group", "command"}, ExpandArrayVar
  PROVE  EnvInv'
<1>1. PICK n \in Pending("array") :
        LET r == ExpandElements(spec.vars[n].val, rt[level].strings, rt[level].arrays, spec.vars)
        IN IF r.err # "none" THEN Refuse(r.err)
           ELSE /\ rt' = [rt EXCEPT ![level].strings = r.strings, ![level].arrays = Put(@, n, r.text)]
                /\ todo' = todo \ {n}
                /\ UNCHANGED <<cfg, templates, step, level, spec, env, cmdNo, fields, results>>
  BY DEF ExpandArrayVar
<1> DEFINE e == ExpandElements(spec.vars[n].val, rt[level].strings, rt[level].arrays, spec.vars)
           q == [rt[level] EXCEPT !.strings = e.strings, !.arrays = Put(@, n, e.text)]
<1>2. CASE Refuse(e.err)
  BY <1>2, RefuseQuiet
<1>3. CASE ~Refuse(e.err)
  <2>1. /\ rt' = [rt EXCEPT ![level].strings = e.strings, ![level].arrays = Put(@, n, e.text)]
        /\ todo' = todo \ {n}
        /\ UNCHANGED <<cfg, templates, step, level, spec, env, cmdNo, fields, results>>
    BY <1>1, <1>3
  <2>2. Defines(spec.vars) /\ Carry(rt[level].strings, Bound(level))
    BY SpecVars DEF EnvInv, RtInv, Bound
  <2>3. spec.vars[n].val \in Seq(Written)
    <3>1. n \in DOMAIN spec.vars /\ spec.vars[n].kind = "array"
      BY DEF ExpandArrayVar, Pending, EnvInv, SpecInv
    <3> QED
      BY <2>2, <3>1 DEF Defines, Definitions
  <2>4. step = "expand" /\ DOMAIN rt[level] = {"strings", "arrays", "imports"} /\ level \in DOMAIN rt
    BY DEF ExpandArrayVar, EnvInv, RtInv
  <2>5. Carry(e.strings, Bound(level))
    BY <2>2, <2>3, ExpansionTheorem DEF ExpansionConfined
  <2>6. rt' = [rt EXCEPT ![level] = q]
    BY <2>1, <2>4
  <2>7. DOMAIN q = {"strings", "arrays", "imports"} /\ q.strings = e.strings
    BY <2>4
  <2> HIDE DEF e, q
  <2> QED
    BY <2>1, <2>4, <2>5, <2>6, <2>7, VariablesStep
<1> QED
  BY <1>2, <1>3

\* Merged templates are those of the files (mergeTemplates).
LEMMA MergeStep ==
  ASSUME Given, EnvInv, level = "global", MergeTemplates
  PROVE  EnvInv'
<1> DEFINE own == [i \in DOMAIN cfg.includes |-> cfg.includes[i].templates]
           sources == own \o <<cfg.templates>>
           names == UNION {DOMAIN sources[i] : i \in DOMAIN sources}
           definers(n) == {i \in DOMAIN sources : n \in DOMAIN sources[i]}
           merged == [n \in names |-> sources[CHOOSE i \in definers(n) : TRUE][n]]
<1>1. CASE Refuse("duplicate template")
  BY <1>1, RefuseQuiet
<1>2. CASE ~Refuse("duplicate template")
  <2>1. /\ templates' = merged /\ step' = "import"
        /\ rt' = [rt EXCEPT !["global"].strings = GenerateGlobalAutoVars]
        /\ UNCHANGED <<cfg, level, spec, todo, env, cmdNo, fields, results>>
    BY <1>2 DEF MergeTemplates
  <2>2. \A i \in DOMAIN sources : WrittenTemplates(sources[i])
    <3> DEFINE last == cfg.templates
               S == Range(own) \cup {last}
    <3>1. DOMAIN cfg.includes = 1..Len(cfg.includes) /\ Len(cfg.includes) \in Nat /\ WrittenTemplates(last)
          /\ \A i \in DOMAIN cfg.includes : WrittenTemplates(cfg.includes[i].templates)
      BY GivenTexts
    <3>2. \A i \in DOMAIN own : own[i] \in S /\ WrittenTemplates(own[i])
      BY <3>1 DEF Range
    <3>3. own \in Seq(S) /\ DOMAIN own = 1..Len(own) /\ Len(own) \in Nat
      <4>1. DOMAIN own = 1..Len(cfg.includes) /\ own = [i \in 1..Len(cfg.includes) |-> own[i]]
        BY <3>1
      <4> HIDE DEF own, S
      <4> QED
        BY <3>1, <3>2, <4>1
    <3>4. last \in S
      OBVIOUS
    <3> HIDE DEF own, last, S
    <3>5. /\ DOMAIN (own \o <<last>>) = 1..(Len(own) + 1)
          /\ \A i \in 1..Len(own) : (own \o <<last>>)[i] = own[i]
          /\ (own \o <<last>>)[Len(own) + 1] = last
      BY <3>3, <3>4, OneMore
    <3>6. \A i \in DOMAIN (own \o <<last>>) : WrittenTemplates((own \o <<last>>)[i])
      <4>1. ASSUME NEW i \in 1..(Len(own) + 1) PROVE i \in 1..Len(own) \/ i = Len(own) + 1
        BY <3>3
      <4> QED
        BY <3>1, <3>2, <3>3, <3>5, <4>1
    <3> QED
      BY <3>6 DEF last
  <2> HIDE DEF sources
  <2>3. \A n \in names : (CHOOSE i \in definers(n) : TRUE) \in definers(n)
    OBVIOUS
  <2>4. WrittenTemplates(merged)
    BY <2>2, <2>3 DEF WrittenTemplates
  <2> HIDE DEF merged
  <2>5. SpecInv'
    <3>1. WrittenTemplates(templates)'
      BY <2>1, <2>4
    <3> QED
      BY <2>1, <3>1 DEF EnvInv, SpecInv
  <2>6. Carry(GenerateGlobalAutoVars, Bound("global"))
    <3>1. ASSUME NEW n \in AutoNames, NEW V PROVE <<Lit(n)>> \in Carrying(V)
      <4> DEFINE A == {p \in Pieces : p.k = "sys" => p.v \in V}
      <4>1. Lit(n) \in A
        BY NamesAssumption DEF Lit, P, Pieces, PieceKinds
      <4> HIDE DEF A
      <4>2. <<Lit(n)>> \in Seq(A)
        BY <4>1
      <4> QED
        BY <4>2 DEF A, Carrying
    <3> QED
      BY <3>1 DEF Carry, GenerateGlobalAutoVars
  <2>7. RtInv'
    <3> DEFINE r == [rt["global"] EXCEPT !.strings = GenerateGlobalAutoVars]
    <3>1. rt' = [rt EXCEPT !["global"] = r]
      BY <2>1
    <3>2. DOMAIN r = {"strings", "arrays", "imports"} /\ r.strings = GenerateGlobalAutoVars
      BY DEF EnvInv, RtInv
    <3> HIDE DEF r
    <3>3. DOMAIN rt = {"global", "group", "command"} /\ DOMAIN rt' = DOMAIN rt
          /\ rt'["global"] = r /\ rt'["group"] = rt["group"] /\ rt'["command"] = rt["command"]
      BY <3>1 DEF EnvInv, RtInv
    <3> QED
      BY <2>1, <2>6, <3>2, <3>3, SameBounds DEF EnvInv, RtInv
  <2>8. EnvsInv' /\ FieldsInv'
    BY <2>1, SameBounds DEF EnvInv, EnvsInv, FieldsInv
  <2>9. ResultsInv'
    BY <2>1, SameResults DEF EnvInv
  <2> QED
    BY <2>5, <2>7, <2>8, <2>9 DEF EnvInv
<1> QED
  BY <1>1, <1>2

\* Between validation and env_vars.
LEMMA VarsDoneStep ==
  ASSUME EnvInv, ProcessVars \/ VarsExpanded
  PROVE  EnvInv'
<1>1. CASE \E why : Refuse(why)
  BY <1>1, RefuseQuiet
<1>2. CASE ~\E why : Refuse(why)
  <2>1. /\ UNCHANGED <<cfg, templates, level, spec, rt, env, cmdNo, fields, results>>
        /\ \/ step' = "expand" /\ todo' = DOMAIN spec.vars
           \/ level = "command" /\ step' = "fields"
           \/ level # "command" /\ step' = "env"
    BY <1>2 DEF ProcessVars, VarsExpanded
  <2>2. SpecInv'
    BY <2>1 DEF EnvInv, SpecInv, WrittenCommand, WrittenTemplates
  <2>3. RtInv'
    BY <2>1, SameBounds DEF EnvInv, RtInv
  <2>4. EnvsInv' /\ FieldsInv'
    BY <2>1, SameBounds DEF EnvInv, EnvsInv, FieldsInv
  <2>5. ResultsInv'
    BY <2>1, SameResults DEF EnvInv
  <2> QED
    BY <2>2, <2>3, <2>4, <2>5 DEF EnvInv
<1> QED
  BY <1>1, <1>2

\* The entries of env_vars carry what the variables do (ProcessEnv).
LEMMA EnvEntries ==
  ASSUME NEW V, NEW strings, Carry(strings, V), NEW es \in Seq(Written)
  PROVE  Carry(ProcessEnv(es, strings).map, V)
<1> DEFINE keys == UNION {KeyOf(es[i]) : i \in DOMAIN es}
           at(k) == CHOOSE i \in DOMAIN es : k \in KeyOf(es[i])
           map == ProcessEnv(es, strings).map
<1>1. map = [k \in keys |-> EnvEntry(es, at(k), strings).text]
  <2>1. \A k \in keys : at(k) \in DOMAIN es
    OBVIOUS
  <2> DEFINE rs == [i \in DOMAIN es |-> EnvEntry(es, i, strings)]
  <2>2. map = [k \in keys |-> rs[at(k)].text]
    BY DEF ProcessEnv
  <2>3. \A k \in keys : rs[at(k)].text = EnvEntry(es, at(k), strings).text
    BY <2>1
  <2> HIDE DEF at, keys, rs, map
  <2> QED
    BY <2>2, <2>3
<1>2. ASSUME NEW i \in DOMAIN es PROVE EnvEntry(es, i, strings).text \in Carrying(V)
  <2>1. CASE EnvEntry(es, i, strings) = [err |-> "env", text |-> <<>>]
    BY <2>1, EmptyText
  <2>2. CASE KeyOf(es[i]) # {} /\ EnvEntry(es, i, strings) = ExpandString(Tail(es[i]), strings)
    <3>1. es[i] \in Written /\ es[i] # <<>>
      BY <2>2 DEF KeyOf
    <3>2. Tail(es[i]) \in Written
      BY <3>1 DEF Written, Carrying
    <3>3. Tail(es[i]) \in Carrying(V)
      BY <3>2, CarryingMore DEF Written
    <3>4. Defines(NoVars)
      BY DEF Defines, NoVars
    <3> QED
      BY <2>2, <3>3, <3>4, ExpansionTheorem DEF ExpansionConfined
  <2> QED
    BY <2>1, <2>2 DEF EnvEntry
<1>3. \A k \in keys : at(k) \in DOMAIN es
  OBVIOUS
<1> HIDE DEF at, keys, map
<1>4. Carry(map, V)
  BY <1>1, <1>2, <1>3 DEF Carry
<1> QED
  BY <1>4 DEF map

\* The environment of the global section and of the group (ExpandGlobal, ExpandGroup).
LEMMA EnvStep ==
  ASSUME Given, EnvInv, level \in {"global", "group", "command"}, ExpandEnvAndFiles
  PROVE  EnvInv'
<1>1. CASE \E why : Refuse(why)
  BY <1>1, RefuseQuiet
<1>2. CASE ~\E why : Refuse(why)
  <2> DEFINE map == ProcessEnv(spec.env, rt[level].strings).map
  <2>1. /\ step = "env" /\ env' = [env EXCEPT ![level] = map]
        /\ step' \in {"templates", "commands"}
        /\ UNCHANGED <<cfg, templates, level, spec, rt, cmdNo, fields, results>>
    BY <1>2 DEF ExpandEnvAndFiles
  <2>2. level \in {"global", "group"} /\ spec.env \in Seq(Written)
    BY <2>1, GivenTexts DEF EnvInv, SpecInv, WrittenSection
  <2>3. Carry(rt[level].strings, Bound(level))
    BY <2>2 DEF EnvInv, RtInv
  <2>4. Carry(map, Bound(level))
    BY <2>2, <2>3, EnvEntries
  <2> HIDE DEF map
  <2>5. EnvsInv'
    BY <2>1, <2>2, <2>4, SameBounds DEF EnvInv, EnvsInv
  <2>6. SpecInv'
    BY <2>1 DEF EnvInv, SpecInv, WrittenCommand, WrittenTemplates
  <2>7. RtInv'
    BY <2>1, SameBounds DEF EnvInv, RtInv
  <2>8. FieldsInv' /\ ResultsInv'
    BY <2>1, SameResults DEF EnvInv, FieldsInv
  <2> QED
    BY <2>5, <2>6, <2>7, <2>8 DEF EnvInv
<1> QED
  BY <1>1, <1>2

\* A group starts with the global variables (ExpandGroup).
LEMMA GroupStep ==
  ASSUME EnvInv, ExpandGroup
  PROVE  EnvInv'
<1>1. /\ level' = "group" /\ spec' = cfg.group /\ step' = "import"
      /\ rt' = [rt EXCEPT !["group"] = rt["global"]]
      /\ UNCHANGED <<cfg, templates, env, cmdNo, fields, results>>
  BY DEF ExpandGroup
<1>2. SpecInv'
  BY <1>1 DEF EnvInv, SpecInv, WrittenTemplates
<1>3. RtInv'
  <2>1. DOMAIN rt = {"global", "group", "command"} /\ DOMAIN rt' = DOMAIN rt
        /\ rt'["global"] = rt["global"] /\ rt'["group"] = rt["global"] /\ rt'["command"] = rt["command"]
    BY <1>1 DEF EnvInv, RtInv
  <2>2. Carry(rt["global"].strings, Bound("global")) /\ Carry(rt["global"].strings, Bound("group"))
    BY Bounds, CarryMore DEF EnvInv, RtInv
  <2> QED
    BY <1>1, <2>1, <2>2, SameBounds DEF EnvInv, RtInv
<1>4. EnvsInv' /\ FieldsInv'
  BY <1>1, SameBounds DEF EnvInv, EnvsInv, FieldsInv
<1>5. ResultsInv'
  BY <1>1, SameResults DEF EnvInv
<1> QED
  BY <1>2, <1>3, <1>4, <1>5 DEF EnvInv

\* A command starts with the variables of the group (resolveAndPrepareCommandSpec).
LEMMA CommandStep ==
  ASSUME Given, EnvInv, ResolveAndPrepareCommandSpec
  PROVE  EnvInv'
<1> DEFINE c == cfg.commands[cmdNo + 1]
           s == ExpandTemplateToSpec(c, templates[CHOOSE n \in c.template : TRUE]).spec
<1>1. CASE \E why : Refuse(why)
  BY <1>1, RefuseQuiet
<1>2. CASE ~\E why : Refuse(why)
  <2>1. /\ cmdNo < Len(cfg.commands)
        /\ spec' = c \/ (c.template # {} /\ c.template \subseteq DOMAIN templates /\ spec' = s)
        /\ level' = "command" /\ cmdNo' = cmdNo + 1 /\ step' = "import"
        /\ rt' = [rt EXCEPT !["command"] = InheritGroup(rt)]
        /\ UNCHANGED <<cfg, templates, env, fields, results>>
    BY <1>2 DEF ResolveAndPrepareCommandSpec
  <2>2. WrittenCommand(c)
    <3>1. cmdNo + 1 \in 1..Len(cfg.commands)
      BY <2>1, GivenFacts DEF EnvInv, SpecInv
    <3> QED
      BY <3>1, GivenTexts
  <2> HIDE DEF c
  <2>3. WrittenCommand(spec')
    <3>1. CASE spec' = c
      BY <2>2, <3>1
    <3>2. CASE c.template # {} /\ c.template \subseteq DOMAIN templates /\ spec' = s
      <4> DEFINE t == templates[CHOOSE n \in c.template : TRUE]
      <4>1. (CHOOSE n \in c.template : TRUE) \in DOMAIN templates
        BY <3>2
      <4>2. WrittenTemplate(t)
        BY <4>1 DEF EnvInv, SpecInv, WrittenTemplates
      <4> HIDE DEF t
      <4>3. WrittenCommand(ExpandTemplateToSpec(c, t).spec)
        BY <2>2, <4>2, TemplateSpec
      <4> QED
        BY <3>2, <4>3 DEF t
    <3> QED
      BY <2>1, <3>1, <3>2
  <2> HIDE DEF s
  <2>4. SpecInv'
    BY <2>1, <2>3 DEF EnvInv, SpecInv, WrittenCommand, WrittenTemplates
  <2>5. RtInv'
    <3>1. DOMAIN rt = {"global", "group", "command"} /\ DOMAIN rt' = DOMAIN rt
          /\ rt'["global"] = rt["global"] /\ rt'["group"] = rt["group"] /\ rt'["command"] = rt["group"]
      BY <2>1 DEF EnvInv, RtInv, InheritGroup
    <3>2. Carry(rt["group"].strings, Bound("group")) /\ Carry(rt["group"].strings, Permitted(spec'))
      BY Bounds, CarryMore DEF EnvInv, RtInv
    <3>3. Permitted(spec)' = Permitted(spec')
      BY <2>1 DEF Permitted, Effective, ImportedBy
    <3> QED
      BY <2>1, <3>1, <3>2, <3>3, SameBounds DEF EnvInv, RtInv
  <2>6. EnvsInv' /\ FieldsInv'
    BY <2>1, SameBounds DEF EnvInv, EnvsInv, FieldsInv
  <2>7. ResultsInv'
    BY <2>1, SameResults DEF EnvInv
  <2> QED
    BY <2>4, <2>5, <2>6, <2>7 DEF EnvInv
<1> QED
  BY <1>1, <1>2

\* Texts expanded one by one.
LEMMA ExpandedTexts ==
  ASSUME NEW V, NEW strings, Carry(strings, V), NEW ts \in Seq(Written)
  PROVE  TextsOf(ExpandTexts(ts, strings)) \in Seq(Carrying(V))
<1>1. Defines(NoVars)
  BY DEF Defines, NoVars
<1>2. DOMAIN ts = 1..Len(ts) /\ Len(ts) \in Nat /\ \A i \in DOMAIN ts : ts[i] \in Carrying(V)
  <2>1. Written \subseteq Carrying(V)
    BY CarryingMore DEF Written
  <2> QED
    BY <2>1
<1>3. \A i \in DOMAIN ts : ExpandString(ts[i], strings).text \in Carrying(V)
  BY <1>1, <1>2, ExpansionTheorem DEF ExpansionConfined
<1>4. TextsOf(ExpandTexts(ts, strings)) = [i \in 1..Len(ts) |-> ExpandString(ts[i], strings).text]
  BY <1>2 DEF TextsOf, ExpandTexts
<1> QED
  BY <1>2, <1>3, <1>4

\* The command, its arguments and its environment (ExpandCommand).
LEMMA FieldsStep ==
  ASSUME Given, EnvInv, ExpandCommandFields
  PROVE  EnvInv'
<1> DEFINE V == Permitted(spec)
           strings == rt["command"].strings
           cmd == ExpandString(spec.cmd, strings).text
           args == TextsOf(ExpandTexts(Optional(spec.args), strings))
           map == ProcessEnv(Optional(spec.env), strings).map
<1>1. CASE \E why : Refuse(why)
  BY <1>1, RefuseQuiet
<1>2. CASE ~\E why : Refuse(why)
  <2>1. /\ step = "fields" /\ step' = "workdir"
        /\ fields' = [cmd |-> cmd, args |-> args, workdir |-> <<>>]
        /\ env' = [env EXCEPT !["command"] = map]
        /\ UNCHANGED <<cfg, templates, level, spec, rt, cmdNo, results>>
    BY <1>2 DEF ExpandCommandFields
  <2>2. level = "command" /\ WrittenCommand(spec) /\ Carry(strings, V)
    BY <2>1 DEF EnvInv, SpecInv, RtInv
  <2>3. cmd \in Carrying(V)
    <3>1. Defines(NoVars)
      BY DEF Defines, NoVars
    <3>2. spec.cmd \in Carrying(V)
      BY <2>2, CarryingMore DEF WrittenCommand, Written
    <3> QED
      BY <2>2, <3>1, <3>2, ExpansionTheorem DEF ExpansionConfined
  <2>4. Optional(spec.args) \in Seq(Written) /\ Optional(spec.env) \in Seq(Written)
    BY <2>2, OptionalIn DEF WrittenCommand
  <2>5. args \in Seq(Carrying(V))
    BY <2>2, <2>4, ExpandedTexts
  <2>6. Carry(map, V)
    BY <2>2, <2>4, EnvEntries
  <2>7. V' = V
    BY <2>1, SameBounds
  <2> HIDE DEF V, strings, cmd, args, map
  <2>8. FieldsInv'
    <3>1. fields'.cmd = cmd /\ fields'.args = args /\ DOMAIN fields' = {"cmd", "args", "workdir"}
      BY <2>1
    <3>2. env'["command"] = map
      BY <2>1 DEF EnvInv, EnvsInv
    <3> QED
      BY <2>1, <2>3, <2>5, <2>6, <2>7, <3>1, <3>2 DEF FieldsInv, V
  <2>9. EnvsInv'
    BY <2>1, SameBounds DEF EnvInv, EnvsInv
  <2>10. SpecInv'
    BY <2>1 DEF EnvInv, SpecInv, WrittenCommand, WrittenTemplates
  <2>11. RtInv'
    BY <2>1, SameBounds DEF EnvInv, RtInv
  <2>12. ResultsInv'
    BY <2>1, SameResults DEF EnvInv
  <2> QED
    BY <2>8, <2>9, <2>10, <2>11, <2>12 DEF EnvInv
<1> QED
  BY <1>1, <1>2

\* The working directory (ExpandWorkDir).
LEMMA WorkDirStep ==
  ASSUME Given, EnvInv, ExpandWorkDir
  PROVE  EnvInv'
<1> DEFINE V == Permitted(spec)
           text == ExpandString(Optional(spec.workdir), rt["command"].strings).text
<1>1. CASE \E why : Refuse(why)
  BY <1>1, RefuseQuiet
<1>2. CASE ~\E why : Refuse(why)
  <2>1. /\ step = "workdir" /\ step' = "environment"
        /\ fields' = [fields EXCEPT !.workdir = text]
        /\ UNCHANGED <<cfg, templates, level, spec, rt, env, cmdNo, results>>
    BY <1>2 DEF ExpandWorkDir
  <2>2. level = "command" /\ WrittenCommand(spec) /\ Carry(rt["command"].strings, V)
    BY <2>1 DEF EnvInv, SpecInv, RtInv
  <2>3. text \in Carrying(V)
    <3>1. Defines(NoVars)
      BY DEF Defines, NoVars
    <3>2. Optional(spec.workdir) \in Written
      BY <2>2, OptionalIn DEF WrittenCommand, Written, Carrying
    <3>3. Optional(spec.workdir) \in Carrying(V)
      BY <3>2, CarryingMore DEF Written
    <3> QED
      BY <2>2, <3>1, <3>3, ExpansionTheorem DEF ExpansionConfined
  <2>4. V' = V
    BY <2>1, SameBounds
  <2> HIDE DEF V, text
  <2>5. FieldsInv'
    <3>1. DOMAIN fields = {"cmd", "args", "workdir"} /\ Carry(env["command"], V)
          /\ fields.cmd \in Carrying(V) /\ fields.args \in Seq(Carrying(V))
      BY <2>1 DEF EnvInv, FieldsInv, V
    <3>2. DOMAIN fields' = DOMAIN fields /\ fields'.cmd = fields.cmd /\ fields'.args = fields.args
          /\ fields'.workdir = text
      BY <2>1, <3>1
    <3> QED
      BY <2>1, <2>3, <2>4, <3>1, <3>2 DEF FieldsInv, V
  <2>6. EnvsInv'
    BY <2>1, SameBounds DEF EnvInv, EnvsInv
  <2>7. SpecInv'
    BY <2>1 DEF EnvInv, SpecInv, WrittenCommand, WrittenTemplates
  <2>8. RtInv'
    BY <2>1, SameBounds DEF EnvInv, RtInv
  <2>9. ResultsInv'
    BY <2>1, SameResults DEF EnvInv
  <2> QED
    BY <2>5, <2>6, <2>7, <2>8, <2>9 DEF EnvInv
<1> QED
  BY <1>1, <1>2

\* The environment of the child (BuildProcessEnvironment).
LEMMA BuildStep ==
  ASSUME Given, EnvInv, BuildProcessEnvironment
  PROVE  EnvInv'
<1> DEFINE V == Permitted(spec)
           system == [k \in cfg.global.allowed \cap DOMAIN cfg.system |-> cfg.system[k]]
           e1 == MergeEnvWithOrigin(env["command"], "command")
           e2 == MergeEnvWithOrigin(env["group"], "vars")
           e3 == MergeEnvWithOrigin(env["global"], "vars")
           e4 == MergeEnvWithOrigin(system, "system")
           merged == Over(e1, Over(e2, Over(e3, e4)))
           child == [k \in DOMAIN merged \ Forbidden |-> merged[k]]
           new == [spec |-> spec, fields |-> fields, env |-> child]
           Fine(v, k) == IF v.origin = "system" THEN k \in cfg.global.allowed ELSE SysIn(v.value) \subseteq V
<1>1. /\ step = "environment" /\ step' \in {"done", "commands"} /\ results' = Append(results, new)
      /\ UNCHANGED <<cfg, templates, level, spec, rt, env, cmdNo, fields>>
  BY DEF BuildProcessEnvironment
<1>2. /\ Carry(env["command"], V) /\ fields.cmd \in Carrying(V) /\ fields.args \in Seq(Carrying(V))
      /\ fields.workdir \in Carrying(V)
  BY <1>1 DEF EnvInv, FieldsInv
<1>3. Carry(env["group"], V) /\ Carry(env["global"], V)
  <2>1. Bound("global") \subseteq V /\ Bound("group") \subseteq V
    BY Bounds
  <2> QED
    BY <2>1, CarryMore DEF EnvInv, EnvsInv
<1>4. \A k \in DOMAIN e1 : Fine(e1[k], k)
  BY <1>2, CarryingSys DEF MergeEnvWithOrigin, Carry
<1>5. \A k \in DOMAIN e2 : Fine(e2[k], k)
  BY <1>3, CarryingSys DEF MergeEnvWithOrigin, Carry
<1>6. \A k \in DOMAIN e3 : Fine(e3[k], k)
  BY <1>3, CarryingSys DEF MergeEnvWithOrigin, Carry
<1>7. \A k \in DOMAIN e4 : Fine(e4[k], k)
  BY DEF MergeEnvWithOrigin
<1>8. \A k \in DOMAIN merged : Fine(merged[k], k)
  <2> HIDE DEF e1, e2, e3, e4, Fine
  <2> QED
    BY <1>4, <1>5, <1>6, <1>7 DEF Over
<1> HIDE DEF merged
<1>9. \A k \in DOMAIN child : k \notin Forbidden /\ Fine(child[k], k)
  BY <1>8
<1> HIDE DEF child
<1>10. \A j \in DOMAIN Expanded(new) : SysIn(Expanded(new)[j]) \subseteq V
  <2> DEFINE cmd == fields.cmd
             args == fields.args
             C == Carrying(V)
  <2>1. cmd \in C /\ args \in Seq(C) /\ Expanded(new) = <<cmd>> \o args
    BY <1>2 DEF Expanded
  <2> HIDE DEF cmd, args, C
  <2>2. \A j \in DOMAIN (<<cmd>> \o args) : (<<cmd>> \o args)[j] \in C
    BY <2>1
  <2> QED
    BY <2>1, <2>2, CarryingSys DEF C
<1>11. SysIn(fields.workdir) \subseteq V
  BY <1>2, CarryingSys
<1>12. ResultsInv'
  <2> DEFINE S == Range(results) \cup {new}
  <2>1. results \in Seq(S) /\ new \in S
    <3>1. results \in Seq(Range(results))
      BY DEF EnvInv, ResultsInv
    <3> DEFINE R == Range(results)
    <3> HIDE DEF R, new
    <3> QED
      BY <3>1 DEF R
  <2>2. new.spec = spec /\ new.fields = fields /\ new.env = child
    OBVIOUS
  <2> HIDE DEF S, new
  <2>3. /\ Append(results, new) \in Seq(S) /\ Range(Append(results, new)) = Range(results) \cup {new}
        /\ Len(results) \in Nat /\ DOMAIN Append(results, new) = 1..(Len(results) + 1)
        /\ DOMAIN results = 1..Len(results)
        /\ Append(results, new)[Len(results) + 1] = new /\ \A i \in 1..Len(results) : Append(results, new)[i] = results[i]
    BY <2>1, RangeAppend
  <2>4. results' \in Seq(Range(results'))
    BY <1>1, <2>3 DEF S
  <2>5. \A x : Permitted(x)' = Permitted(x)
    BY <1>1, SameBounds
  <2>6. ASSUME NEW i \in DOMAIN results' 
        PROVE  LET r == results'[i]
               IN /\ \A j \in DOMAIN Expanded(r) : SysIn(Expanded(r)[j]) \subseteq Permitted(r.spec)
                  /\ SysIn(r.fields.workdir) \subseteq Permitted(r.spec)
                  /\ \A k \in DOMAIN r.env :
                       /\ k \notin Forbidden
                       /\ IF r.env[k].origin = "system" THEN k \in cfg.global.allowed
                          ELSE SysIn(r.env[k].value) \subseteq Permitted(r.spec)
    <3>1. CASE i \in 1..Len(results)
      <4>1. results'[i] = results[i] /\ i \in DOMAIN results
        BY <1>1, <2>3, <3>1
      <4> QED
        BY <4>1 DEF EnvInv, ResultsInv, EnvConfined
    <3>2. CASE i = Len(results) + 1
      <4>1. results'[i] = new
        BY <1>1, <2>3, <3>2
      <4> QED
        BY <1>9, <1>10, <1>11, <2>2, <4>1 DEF V
    <3>3. i \in 1..(Len(results) + 1)
      BY <1>1, <2>3
    <3>4. i \in 1..Len(results) \/ i = Len(results) + 1
      BY <2>3, <3>3
    <3> QED
      BY <3>1, <3>2, <3>4
  <2>7. EnvConfined'
    BY <1>1, <2>5, <2>6, ZenonT(60) DEF EnvConfined, Expanded
  <2> QED
    BY <2>4, <2>7 DEF ResultsInv
<1>13. SpecInv'
  BY <1>1 DEF EnvInv, SpecInv, WrittenCommand, WrittenTemplates
<1>14. RtInv'
  BY <1>1, SameBounds DEF EnvInv, RtInv
<1>15. EnvsInv' /\ FieldsInv'
  BY <1>1, SameBounds DEF EnvInv, EnvsInv, FieldsInv
<1> QED
  BY <1>12, <1>13, <1>14, <1>15 DEF EnvInv

----------------------------------------------------------------------------
\* A run starts without variables, environments and results.
LEMMA InitEnv == Init => EnvInv
<1> SUFFICES ASSUME Init PROVE EnvInv
  OBVIOUS
<1>1. /\ templates = NoVars /\ step = "start" /\ level = "global" /\ spec = cfg.global /\ cmdNo = 0 /\ results = <<>>
      /\ rt = [l \in Range(Levels) |-> NoRuntime] /\ env = [l \in Range(Levels) |-> NoVars]
  BY DEF Init, ConfigInit
<1>2. Range(Levels) = {"global", "group", "command"} /\ DOMAIN NoVars = {}
  BY DEF Range, Levels, NoVars
<1>3. SpecInv
  BY <1>1, <1>2 DEF SpecInv, WrittenTemplates
<1>4. RtInv
  BY <1>1, <1>2 DEF RtInv, NoRuntime, Carry
<1>5. EnvsInv /\ FieldsInv
  BY <1>1, <1>2 DEF EnvsInv, FieldsInv, Carry
<1>6. ResultsInv
  BY <1>1 DEF ResultsInv, EnvConfined
<1> QED
  BY <1>3, <1>4, <1>5, <1>6 DEF EnvInv

\* A step of the expansion keeps the invariant.
LEMMA ConfigEnvStep ==
  ASSUME StartInv, EnvInv, ConfigNext
  PROVE  EnvInv'
<1>1. Given /\ level \in {"global", "group", "command"}
  BY DEF StartInv, StartTypeOK
<1>2. CASE LoadConfigInternal \/ ValidateAllTemplates
  BY <1>2, QuietStep, RefuseQuiet DEF LoadConfigInternal, ValidateAllTemplates
<1>3. CASE MergeTemplates
  <2>1. level = "global"
    BY <1>3 DEF MergeTemplates, StartInv, PhaseInv, After
  <2> QED
    BY <1>1, <1>3, <2>1, MergeStep
<1>4. CASE ProcessEnvImport \/ ExpandStringVar \/ ExpandArrayVar
  BY <1>1, <1>4, ImportStep, StringVarStep, ArrayVarStep
<1>5. CASE ProcessVars \/ VarsExpanded
  BY <1>5, VarsDoneStep
<1>6. CASE ExpandEnvAndFiles \/ ExpandGroup \/ ResolveAndPrepareCommandSpec
  BY <1>1, <1>6, EnvStep, GroupStep, CommandStep
<1>7. CASE ExpandCommandFields \/ ExpandWorkDir \/ BuildProcessEnvironment
  BY <1>1, <1>7, FieldsStep, WorkDirStep, BuildStep
<1> QED
  BY <1>2, <1>3, <1>4, <1>5, <1>6, <1>7 DEF ConfigNext

\* Every step of a start keeps the invariant: those that read files, check directories or take
\* membership leave the texts alone.
LEMMA EnvNext ==
  ASSUME StartInv, EnvInv, [Next]_vars
  PROVE  EnvInv'
<1> DEFINE Quiet == /\ UNCHANGED <<cfg, templates, level, spec, rt, env, cmdNo, fields, results>>
                    /\ step' \notin {"fields", "workdir", "environment", "env", "expand"} \/ UNCHANGED <<step, todo>>
<1>1. Quiet => EnvInv'
  BY QuietStep
<1>2. \A why : Refuse(why) => Quiet
  BY DEF Refuse
<1>3. \A to : Continue(to) /\ to \notin {"fields", "workdir", "environment", "env", "expand"} => Quiet
  BY DEF Continue
<1>4. UNCHANGED configVars => Quiet
  BY DEF configVars
<1> HIDE DEF Quiet
<1>5. CASE Boot \/ EnsurePermissionCheckUID \/ SafeReadFile \/ ReadDecided \/ ProcessIncludes
  <2>1. AfterRead \in {"includes", "done", "parse"}
    BY DEF AfterRead
  <2>2. CASE Boot \/ EnsurePermissionCheckUID
    BY <1>1, <1>2, <1>3, <2>2 DEF Boot, EnsurePermissionCheckUID
  <2>3. CASE SafeReadFile
    BY <1>1, <1>2, <1>3, <1>4, <2>1, <2>3 DEF SafeReadFile
  <2>4. CASE ReadDecided \/ ProcessIncludes
    BY <1>1, <1>2, <1>3, <2>1, <2>4 DEF ReadDecided, ProcessIncludes
  <2> QED
    BY <1>5, <2>2, <2>3, <2>4
<1>6. CASE RunTOCTOUCheck \/ CollectTOCTOUCheckDirs \/ TOCTOUCheckDone
  BY <1>1, <1>2, <1>3, <1>4, <1>6 DEF RunTOCTOUCheck, CollectTOCTOUCheckDirs, TOCTOUCheckDone
<1>7. CASE ValidateDirectoryPermissions \/ ValidateDirectoryHierarchy \/ ComponentDecided \/ Access \/ Elsewhere
  BY <1>1, <1>4, <1>7
     DEF ValidateDirectoryPermissions, ValidateDirectoryHierarchy, ComponentDecided, Access, Elsewhere
<1>8. CASE Expand
  BY <1>8, ConfigEnvStep DEF Expand
<1>9. CASE UNCHANGED vars
  BY <1>1, <1>4, <1>9 DEF vars
<1> QED
  BY <1>5, <1>6, <1>7, <1>8, <1>9 DEF Next

\* Nothing of the caller's environment reaches a command unless a list that applies where it is taken
\* names it, and no forbidden variable is in a child's environment (ProcessEnvImport,
\* determineEffectiveEnvAllowlist, BuildProcessEnvironment).
THEOREM EnvConfinedTheorem == Spec => []EnvConfined
<1>1. StartInv /\ EnvInv /\ [Next]_vars => EnvInv'
  BY EnvNext
<1>2. EnvInv => EnvConfined
  BY DEF EnvInv, ResultsInv
<1> QED
  BY InitStart, StartStep, InitEnv, <1>1, <1>2, PTL DEF Spec

=============================================================================
