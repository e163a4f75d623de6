------------------------ MODULE RiskEvaluationProofs ------------------------
(***************************************************************************)
(* Proofs about RiskEvaluation, for any command lines, wrappers, links,    *)
(* file system, records and sequences of commands:                         *)
(*   - a verdict reached on the walk over wrappers is never weakened, and  *)
(*     a command that hands another one on is started at High or not;      *)
(*   - only a command whose identity was established, was opened, that is  *)
(*     no privilege command and whose wrappers run nothing denied is       *)
(*     started, and its limit is as high as every dimension and every      *)
(*     place it writes asks for;                                           *)
(*   - the exit code of a dry run tells what was previewed.                *)
(***************************************************************************)
EXTENDS RiskEvaluation, NaturalsInduction, WellFoundedInduction, TLAPS

----------------------------------------------------------------------------
(* Induction and scans. A scan goes on from a position to a later one; what *)
(* is proved of it is proved by how many positions are left.                *)

\* Induction over the natural numbers, for a property given as a set.
LEMMA SetInduction ==
  ASSUME NEW T, 0 \in T, \A n \in Nat : n \in T => n + 1 \in T
  PROVE  Nat \subseteq T
<1> DEFINE R == {ss \in Nat \X Nat : ss[1] < ss[2]}
<1> SUFFICES ASSUME Nat \ T # {} PROVE FALSE
  OBVIOUS
<1>1. IsWellFoundedOn(R, Nat)
  BY NatLessThanWellFounded DEF OpToRel
<1>2. PICK x \in Nat \ T : \A y \in Nat \ T : ~ (<<y, x>> \in R)
  <2> DEFINE U == Nat \ T
  <2>1. U \subseteq Nat /\ U # {}
    OBVIOUS
  <2> HIDE DEF U, R
  <2>2. \E x \in U : \A y \in U : ~ (<<y, x>> \in R)
    BY <1>1, <2>1, WFMin
  <2> QED BY <2>2 DEF U
<1>3. x # 0 /\ x - 1 \in Nat /\ (x - 1) + 1 = x /\ x - 1 < x
  OBVIOUS
<1>4. <<x - 1, x>> \in R
  BY <1>3
<1>5. x - 1 \in T
  BY <1>2, <1>3, <1>4
<1> QED BY <1>3, <1>5

\* From a position that is no stop the scan moves to one with less left, at most M.
Descends(D, M, left, stop, succ) ==
  /\ M \in Nat /\ left \in [D -> 0..M] /\ succ \in [D -> D]
  /\ \A x \in D : x \notin stop => left[succ[x]] < left[x]

\* The result of a scan at each position, and of one that collects a piece at each.
IsScan(f, D, stop, out, succ) == f = [x \in D |-> IF x \in stop THEN out[x] ELSE f[succ[x]]]
IsJoin(f, D, stop, piece, succ) == f = [x \in D |-> IF x \in stop THEN <<>> ELSE piece[x] \o f[succ[x]]]

\* A scan that moves on from each position but the last ones is defined.
LEMMA ScanExists ==
  ASSUME NEW D, NEW M, NEW left, NEW stop, NEW out, NEW succ, Descends(D, M, left, stop, succ)
  PROVE  \E f : IsScan(f, D, stop, out, succ)
<1> USE DEF Descends, IsScan
<1> DEFINE body(f) == [x \in D |-> IF x \in stop THEN out[x] ELSE f[succ[x]]]
           good(f, n) == \A x \in D : left[x] < n => f[x] = body(f)[x]
           T == {n \in Nat : \E f : f = [x \in D |-> f[x]] /\ good(f, n)}
<1>1. 0 \in T
  <2>1. left = [x \in D |-> left[x]] /\ good(left, 0)
    OBVIOUS
  <2> QED BY <2>1
<1>2. ASSUME NEW n \in Nat, n \in T PROVE n + 1 \in T
  <2>1. PICK f : f = [x \in D |-> f[x]] /\ good(f, n)
    BY <1>2
  <2> DEFINE g == body(f)
  <2>2. ASSUME NEW x \in D, left[x] < n + 1 PROVE g[x] = body(g)[x]
    <3>1. CASE x \in stop
      BY <3>1
    <3>2. CASE x \notin stop
      <4>1. succ[x] \in D /\ left[succ[x]] < n
        BY <2>2, <3>2
      <4>2. f[succ[x]] = body(f)[succ[x]]
        BY <2>1, <4>1
      <4>3. g[x] = f[succ[x]] /\ body(g)[x] = g[succ[x]]
        BY <3>2
      <4> QED BY <4>2, <4>3
    <3> QED BY <3>1, <3>2
  <2>3. g = [x \in D |-> g[x]] /\ good(g, n + 1)
    BY <2>2
  <2> HIDE DEF g, good
  <2> QED BY <2>3
<1>3. M + 1 \in T
  <2> HIDE DEF T
  <2> QED BY <1>1, <1>2, SetInduction
<1>4. PICK f : f = [x \in D |-> f[x]] /\ good(f, M + 1)
  BY <1>3
<1>5. \A x \in D : f[x] = body(f)[x]
  BY <1>4
<1>6. f = body(f)
  BY <1>4, <1>5
<1> QED BY <1>6

\* What holds of every way out of a scan holds of its result.
LEMMA ScanResult ==
  ASSUME NEW D, NEW M, NEW left, NEW stop, NEW out, NEW succ, Descends(D, M, left, stop, succ),
         NEW S, \A x \in D : x \in stop => out[x] \in S,
         NEW f, IsScan(f, D, stop, out, succ)
  PROVE  \A x \in D : f[x] \in S
<1> USE DEF Descends, IsScan
<1> DEFINE T == {n \in Nat : \A x \in D : left[x] < n => f[x] \in S}
<1>1. 0 \in T
  OBVIOUS
<1>2. ASSUME NEW n \in Nat, n \in T PROVE n + 1 \in T
  <2> SUFFICES ASSUME NEW x \in D, left[x] < n + 1 PROVE f[x] \in S
    OBVIOUS
  <2>1. f[x] = IF x \in stop THEN out[x] ELSE f[succ[x]]
    OBVIOUS
  <2>2. x \notin stop => succ[x] \in D /\ left[succ[x]] < n
    OBVIOUS
  <2>3. x \notin stop => f[succ[x]] \in S
    BY <1>2, <2>2
  <2> QED BY <2>1, <2>3
<1>3. M + 1 \in T
  <2> HIDE DEF T
  <2> QED BY <1>1, <1>2, SetInduction
<1> QED BY <1>3

\* The same for a scan that collects a piece at each position.
LEMMA JoinExists ==
  ASSUME NEW D, NEW M, NEW left, NEW stop, NEW piece, NEW succ, Descends(D, M, left, stop, succ)
  PROVE  \E f : IsJoin(f, D, stop, piece, succ)
<1> USE DEF Descends, IsJoin
<1> DEFINE body(f) == [x \in D |-> IF x \in stop THEN <<>> ELSE piece[x] \o f[succ[x]]]
           good(f, n) == \A x \in D : left[x] < n => f[x] = body(f)[x]
           T == {n \in Nat : \E f : f = [x \in D |-> f[x]] /\ good(f, n)}
<1>1. 0 \in T
  <2> HIDE DEF body
  <2>1. left = [x \in D |-> left[x]] /\ good(left, 0)
    OBVIOUS
  <2> QED BY <2>1
<1>2. ASSUME NEW n \in Nat, n \in T PROVE n + 1 \in T
  <2>1. PICK f : f = [x \in D |-> f[x]] /\ good(f, n)
    BY <1>2
  <2> DEFINE g == body(f)
  <2>2. ASSUME NEW x \in D, left[x] < n + 1 PROVE g[x] = body(g)[x]
    <3>1. CASE x \in stop
      BY <3>1
    <3>2. CASE x \notin stop
      <4>1. succ[x] \in D /\ left[succ[x]] < n
        BY <2>2, <3>2
      <4>2. f[succ[x]] = body(f)[succ[x]]
        BY <2>1, <4>1
      <4>3. g[x] = piece[x] \o f[succ[x]] /\ body(g)[x] = piece[x] \o g[succ[x]]
        BY <3>2
      <4> QED BY <4>2, <4>3
    <3> QED BY <3>1, <3>2
  <2>3. g = [x \in D |-> g[x]] /\ good(g, n + 1)
    BY <2>2
  <2> HIDE DEF g, good
  <2> QED BY <2>3
<1>3. M + 1 \in T
  <2> HIDE DEF T
  <2> QED BY <1>1, <1>2, SetInduction
<1>4. PICK f : f = [x \in D |-> f[x]] /\ good(f, M + 1)
  BY <1>3
<1>5. \A x \in D : f[x] = body(f)[x]
  <2> HIDE DEF body
  <2> QED BY <1>4
<1>6. f = body(f)
  BY <1>4, <1>5
<1> QED BY <1>6

\* A concatenation of sequences over a set is one.
LEMMA ConcatIn == ASSUME NEW S, NEW p \in Seq(S), NEW q \in Seq(S) PROVE p \o q \in Seq(S)
  OBVIOUS

\* What a scan collects piece by piece is a sequence over the set its pieces are over.
LEMMA JoinResult ==
  ASSUME NEW D, NEW M, NEW left, NEW stop, NEW piece, NEW succ, Descends(D, M, left, stop, succ),
         NEW S, \A x \in D : x \notin stop => piece[x] \in Seq(S),
         NEW f, IsJoin(f, D, stop, piece, succ)
  PROVE  \A x \in D : f[x] \in Seq(S)
<1> USE DEF Descends, IsJoin
<1> DEFINE T == {n \in Nat : \A x \in D : left[x] < n => f[x] \in Seq(S)}
<1>1. 0 \in T
  OBVIOUS
<1>2. ASSUME NEW n \in Nat, n \in T PROVE n + 1 \in T
  <2> SUFFICES ASSUME NEW x \in D, left[x] < n + 1 PROVE f[x] \in Seq(S)
    OBVIOUS
  <2>1. f[x] = IF x \in stop THEN <<>> ELSE piece[x] \o f[succ[x]]
    OBVIOUS
  <2>2. x \notin stop => succ[x] \in D /\ left[succ[x]] < n
    OBVIOUS
  <2>3. x \notin stop => f[succ[x]] \in Seq(S) /\ piece[x] \in Seq(S)
    BY <1>2, <2>2
  <2>4. CASE x \in stop
    BY <2>1, <2>4
  <2>5. CASE x \notin stop
    <3>1. f[x] = piece[x] \o f[succ[x]]
      BY <2>1, <2>5
    <3>2. piece[x] \o f[succ[x]] \in Seq(S)
      BY <2>3, <2>5, ConcatIn
    <3> QED BY <3>1, <3>2
  <2> QED BY <2>4, <2>5
<1>3. M + 1 \in T
  <2> HIDE DEF T
  <2> QED BY <1>1, <1>2, SetInduction
<1> QED BY <1>3


\* The position of the first operand is a position or beyond the end (skipLeadingOptions).
LEMMA SkipTyped ==
  ASSUME NEW args \in Seq(Tokens), NEW spec
  PROVE  SkipLeadingOptions(args, spec).idx \in Nat \ {0}
<1> DEFINE Cluster(c) == IF ~c.ok THEN 0 ELSE IF c.next THEN 2 ELSE 1
           Length(t) ==
             IF t.k = "long" \/ spec.single
             THEN CASE t.k = "long" /\ t.eq -> 1
                    [] LongName(t) \in spec.value -> 2
                    [] LongName(t) \in spec.bool \cup spec.optional -> 1
                    [] OTHER -> IF spec.unknown = "allUnknownAreBoolean" THEN 1 ELSE 0
             ELSE Cluster(ScanShortCluster(t, spec))
           D == 1..(Len(args) + 2)
           body(f) == [i \in D |->
              CASE i > Len(args) -> [idx |-> i, ok |-> TRUE]
                [] i <= Len(args) /\ args[i].k = "dd" -> [idx |-> i + 1, ok |-> TRUE]
                [] i <= Len(args) /\ args[i].k \notin {"short", "long", "dd"} -> [idx |-> i, ok |-> TRUE]
                [] OTHER -> IF Length(args[i]) = 0 THEN [idx |-> i + 1, ok |-> FALSE] ELSE f[i + Length(args[i])]]
           len == [i \in D |-> Length(args[i])]
           stop == {i \in D : i > Len(args) \/ args[i].k \notin {"short", "long"} \/ len[i] = 0}
           out == [i \in D |->
              IF i > Len(args) THEN [idx |-> i, ok |-> TRUE]
              ELSE IF args[i].k = "dd" THEN [idx |-> i + 1, ok |-> TRUE]
              ELSE IF args[i].k \notin {"short", "long"} THEN [idx |-> i, ok |-> TRUE]
              ELSE [idx |-> i + 1, ok |-> FALSE]]
           succ == [i \in D |-> IF i \in stop THEN i ELSE i + len[i]]
           left == [i \in D |-> Len(args) + 2 - i]
           F == CHOOSE f : f = body(f)
           R == [idx : Nat \ {0}, ok : BOOLEAN]
<1>1. \A t : Length(t) \in {0, 1, 2}
  OBVIOUS
<1>2. len \in [D -> {0, 1, 2}]
  BY <1>1
<1>3. ASSUME NEW f PROVE (f = body(f)) <=> IsScan(f, D, stop, out, succ)
  <2> DEFINE data == [i \in D |-> IF i \in stop THEN out[i] ELSE f[succ[i]]]
  <2> HIDE DEF Length
  <2>1. ASSUME NEW i \in D PROVE body(f)[i] = data[i]
    OBVIOUS
  <2>2. body(f) = data
    BY <2>1
  <2> QED BY <2>2 DEF IsScan
<1>4. SkipLeadingOptions(args, spec) = F[1]
  BY DEF SkipLeadingOptions
<1>5. Descends(D, Len(args) + 2, left, stop, succ)
  <2> HIDE DEF Length, len
  <2>1. ASSUME NEW i \in D, i \notin stop PROVE succ[i] \in D /\ left[succ[i]] < left[i]
    BY <1>2, <2>1
  <2>2. succ \in [D -> D]
    <3>1. \A i \in D : succ[i] \in D
      BY <2>1
    <3> QED BY <3>1
  <2> QED BY <2>1, <2>2 DEF Descends
<1>6. \A x \in D : x \in stop => out[x] \in R
  OBVIOUS
<1> HIDE DEF Length, len, stop, out, succ, left
<1>7. IsScan(F, D, stop, out, succ)
  <2>1. \E f : IsScan(f, D, stop, out, succ)
    BY ZenonT(30), <1>5, ScanExists
  <2> HIDE DEF body
  <2>2. F = body(F)
    BY <1>3, <2>1
  <2> QED BY <2>2, <1>3
<1> HIDE DEF F, D, R
<1>9. \A x \in D : F[x] \in R
  BY ZenonT(30), <1>5, <1>6, <1>7, ScanResult
<1>10. 1 \in D
  BY DEF D
<1> QED BY <1>4, <1>9, <1>10 DEF R

\* What a token holds where a command line is expected.
LEMMA LineTyped == ASSUME NEW t \in Tokens PROVE AsLine(t) \in ShellLines
<1>1. CASE t.k = "string"
  BY <1>1, TokensAssumption
<1>2. CASE t.k # "string"
  BY <1>2 DEF AsLine, ShellLines
<1> QED BY <1>1, <1>2

\* What env's own arguments come to (analyzeEnv).
EnvResults == [do : {"none", "reject", "split", "inner"}, i : Nat \ {0}, path : BOOLEAN, line : ShellLines]

\* The scan of env's arguments ends with one of its results, and an inner command is at a position.
LEMMA EnvTyped ==
  ASSUME NEW args \in Seq(Tokens)
  PROVE  /\ EnvScan(args) \in EnvResults
         /\ EnvScan(args).do = "inner" => EnvScan(args).i <= Len(args)
<1> DEFINE Out(do, i, path, line) == [do |-> do, i |-> i, path |-> path, line |-> line]
           Name(t) == IF t.k = "long" THEN t.n ELSE IF t.k = "short" THEN t.ls[1] ELSE ""
           Split(t, i, path) ==
             IF (t.k = "short" /\ t.att) \/ (t.k = "long" /\ t.eq) THEN Out("split", i, path, t.val)
             ELSE IF i < Len(args) THEN Out("split", i + 1, path, AsLine(args[i + 1]))
             ELSE Out("reject", i, path, NoValue)
           Refused(t, opts) == \/ opts /\ Name(t) \in {"C", "chdir"}
                               \/ t.k = "assign" /\ t.n \in ForbiddenEnvVars
           Skipped(t, opts) == \/ t.k = "assign"
                               \/ opts /\ (t.k = "dd" \/ t \in EnvBooleanOptions \cup EnvValueOptions)
           D == (1..(Len(args) + 2)) \X BOOLEAN \X BOOLEAN
           Splits(x) == x[3] /\ Name(args[x[1]]) \in {"S", "split-string"}
           Goes(x) == ~(x[1] > Len(args)) /\ ~Splits(x) /\ ~Refused(args[x[1]], x[3]) /\ Skipped(args[x[1]], x[3])
           Ends(x) == IF x[1] > Len(args) THEN Out("none", x[1], x[2], NoValue)
                      ELSE IF Splits(x) THEN Split(args[x[1]], x[1], x[2])
                      ELSE IF Refused(args[x[1]], x[3]) THEN Out("reject", x[1], x[2], NoValue)
                      ELSE IF x[3] /\ HasDash(args[x[1]]) THEN Out("reject", x[1], x[2], NoValue)
                      ELSE Out("inner", x[1], x[2], NoValue)
           Later(x) == <<IF args[x[1]] \in EnvValueOptions THEN x[1] + 2 ELSE x[1] + 1,
                         x[2] \/ (args[x[1]].k = "assign" /\ args[x[1]].n = "PATH"), x[3] /\ args[x[1]].k # "dd">>
           body(f) == [at \in D |->
             IF at[1] > Len(args) THEN Out("none", at[1], at[2], NoValue)
             ELSE IF at[3] /\ Name(args[at[1]]) \in {"S", "split-string"} THEN Split(args[at[1]], at[1], at[2])
             ELSE IF Refused(args[at[1]], at[3]) THEN Out("reject", at[1], at[2], NoValue)
             ELSE IF Skipped(args[at[1]], at[3])
                  THEN f[<<IF args[at[1]] \in EnvValueOptions THEN at[1] + 2 ELSE at[1] + 1,
                           at[2] \/ (args[at[1]].k = "assign" /\ args[at[1]].n = "PATH"), at[3] /\ args[at[1]].k # "dd">>]
             ELSE IF at[3] /\ HasDash(args[at[1]]) THEN Out("reject", at[1], at[2], NoValue)
             ELSE Out("inner", at[1], at[2], NoValue)]
           stop == {x \in D : ~Goes(x)}
           out == [x \in D |-> Ends(x)]
           succ == [x \in D |-> IF x \in stop THEN x ELSE Later(x)]
           left == [x \in D |-> Len(args) + 2 - x[1]]
           F == CHOOSE f : f = body(f)
           R == {r \in EnvResults : r.do = "inner" => r.i <= Len(args)}
<1>1. EnvScan(args) = F[<<1, FALSE, TRUE>>]
  BY DEF EnvScan
<1>2. Len(args) \in Nat /\ \A i \in 1..Len(args) : args[i] \in Tokens
  OBVIOUS
<1>3. \A x \in D : x = <<x[1], x[2], x[3]>> /\ x[1] \in 1..(Len(args) + 2) /\ x[2] \in BOOLEAN /\ x[3] \in BOOLEAN
  OBVIOUS
<1>4. ASSUME NEW f PROVE (f = body(f)) <=> IsScan(f, D, stop, out, succ)
  <2> DEFINE data == [x \in D |-> IF x \in stop THEN out[x] ELSE f[succ[x]]]
  <2>1. ASSUME NEW x \in D PROVE body(f)[x] = data[x]
    <3>1. CASE Goes(x)
      <4>1. x \notin stop /\ succ[x] = Later(x)
        BY <3>1
      <4>2. body(f)[x] = f[Later(x)]
        <5> HIDE DEF Out, Name, Split, Refused, Skipped
        <5> QED BY <3>1
      <4> QED BY <4>1, <4>2
    <3>2. CASE ~Goes(x)
      <4>1. x \in stop /\ out[x] = Ends(x)
        BY <3>2
      <4>2. body(f)[x] = Ends(x)
        <5> HIDE DEF Out, Name, Split, Refused, Skipped
        <5> QED BY <3>2
      <4> HIDE DEF Ends, body
      <4> QED BY <4>1, <4>2
    <3> QED BY <3>1, <3>2
  <2>2. body(f) = data
    <3> HIDE DEF Ends, Goes, Later, Out, Name, Split, Refused, Skipped, stop, out, succ
    <3> QED BY <2>1
  <2> QED BY <2>2 DEF IsScan
<1>5. Descends(D, Len(args) + 2, left, stop, succ)
  <2>1. ASSUME NEW x \in D, x \notin stop PROVE succ[x] \in D /\ succ[x][1] > x[1]
    <3>1. succ[x] = Later(x) /\ x[1] <= Len(args)
      <4> HIDE DEF Name, Refused, Skipped, Later, Splits
      <4> QED BY <2>1, <1>3
    <3>2. Later(x)[1] \in 1..(Len(args) + 2) /\ Later(x)[1] > x[1]
      BY <1>2, <1>3, <3>1
    <3>3. Later(x)[2] \in BOOLEAN /\ Later(x)[3] \in BOOLEAN
      BY <1>3
    <3> QED BY <3>1, <3>2, <3>3
  <2> HIDE DEF Goes, Later
  <2>2. succ \in [D -> D]
    <3>1. \A x \in D : succ[x] \in D
      BY <2>1
    <3> QED BY <3>1
  <2>3. left \in [D -> 0..(Len(args) + 2)]
    BY <1>2, <1>3
  <2>4. \A x \in D : x \notin stop => left[succ[x]] < left[x]
    <3> SUFFICES ASSUME NEW x \in D, x \notin stop PROVE left[succ[x]] < left[x]
      OBVIOUS
    <3>1. succ[x] \in D /\ succ[x][1] > x[1] /\ succ[x][1] \in Nat /\ x[1] \in Nat
      BY <2>1, <1>3
    <3>2. left[succ[x]] = Len(args) + 2 - succ[x][1] /\ left[x] = Len(args) + 2 - x[1]
      BY <3>1
    <3> HIDE DEF left, succ
    <3> QED BY <3>1, <3>2, <1>2
  <2> HIDE DEF left, succ, D
  <2> QED BY <1>2, <2>2, <2>3, <2>4 DEF Descends
<1>6. \A x \in D : x \in stop => out[x] \in R
  <2> SUFFICES ASSUME NEW x \in D PROVE Ends(x) \in R
    OBVIOUS
  <2>1. NoValue \in ShellLines
    BY DEF NoValue, ShellLines
  <2>2. ASSUME NEW do \in {"none", "reject", "split", "inner"}, NEW i \in Nat \ {0}, NEW line \in ShellLines,
               do = "inner" => i <= Len(args)
        PROVE  Out(do, i, x[2], line) \in R
    BY <1>3, <2>2 DEF EnvResults
  <2>3. ASSUME NEW t \in Tokens, x[1] <= Len(args) PROVE Split(t, x[1], x[2]) \in R
    <3>1. (t.k = "short" /\ t.att) \/ (t.k = "long" /\ t.eq) => t.val \in ShellLines
      BY TokensAssumption
    <3>2. x[1] < Len(args) => AsLine(args[x[1] + 1]) \in ShellLines
      BY <1>2, <1>3, LineTyped
    <3> HIDE DEF Out, R
    <3> QED BY <1>3, <2>1, <2>2, <3>1, <3>2
  <2> HIDE DEF Out, R, Split, Name, Refused
  <2> QED BY <1>2, <1>3, <2>1, <2>2, <2>3
<1> HIDE DEF stop, out, succ, left
<1>7. IsScan(F, D, stop, out, succ)
  <2>1. \E f : IsScan(f, D, stop, out, succ)
    BY ZenonT(30), <1>5, ScanExists
  <2> HIDE DEF body
  <2>2. F = body(F)
    BY <1>4, <2>1
  <2> QED BY <2>2, <1>4
<1>8. <<1, FALSE, TRUE>> \in D
  <2>1. 1 \in 1..(Len(args) + 2)
    BY <1>2
  <2>2. ASSUME NEW S, 1 \in S PROVE <<1, FALSE, TRUE>> \in S \X BOOLEAN \X BOOLEAN
    BY <2>2
  <2> QED BY <2>1, <2>2
<1> HIDE DEF F, D, R
<1>9. \A x \in D : F[x] \in R
  BY ZenonT(30), <1>5, <1>6, <1>7, ScanResult
<1> QED BY <1>1, <1>8, <1>9 DEF R

\* Where taskset's command stands (analyzeTaskset).
LEMMA TasksetTyped ==
  ASSUME NEW args \in Seq(Tokens)
  PROVE  TasksetScan(args).i \in Nat \ {0}
<1> DEFINE Out(do, i) == [do |-> do, i |-> i]
           List(t) == IF t.k = "long" THEN t.n = "cpu-list" ELSE ShortFlagInBundle(t, "c")
           Separate(t) == IF t.k = "long" THEN ~t.eq ELSE t.ls[Len(t.ls)] = "c" /\ ~t.att
           D == (1..(Len(args) + 2)) \X BOOLEAN
           Pos(x) == IF x[2] THEN x[1] ELSE x[1] + 1
           Operand(x) == x[1] > Len(args) \/ (x[1] <= Len(args) /\ args[x[1]].k \notin {"short", "long", "dd"})
           Pid(x) == args[x[1]] = Long("pid") \/ ShortFlagInBundle(args[x[1]], "p")
           Odd(x) == args[x[1]].k = "long" /\ args[x[1]].n # "cpu-list" /\ ~args[x[1]].eq
           Goes(x) == ~Operand(x) /\ ~(args[x[1]].k = "dd") /\ ~Pid(x) /\ ~Odd(x)
           Ends(x) == IF Operand(x) THEN Out("at", Pos(x))
                      ELSE IF args[x[1]].k = "dd" THEN Out("at", Pos(x) + 1)
                      ELSE IF Pid(x) THEN Out("pid", x[1])
                      ELSE Out("reject", x[1])
           Later(x) == <<IF List(args[x[1]]) /\ Separate(args[x[1]]) THEN x[1] + 2 ELSE x[1] + 1, x[2] \/ List(args[x[1]])>>
           body(f) == [at \in D |->
             IF at[1] > Len(args) \/ (at[1] <= Len(args) /\ args[at[1]].k \notin {"short", "long", "dd"})
             THEN Out("at", IF at[2] THEN at[1] ELSE at[1] + 1)
             ELSE IF args[at[1]].k = "dd" THEN Out("at", (IF at[2] THEN at[1] ELSE at[1] + 1) + 1)
             ELSE IF args[at[1]] = Long("pid") \/ ShortFlagInBundle(args[at[1]], "p") THEN Out("pid", at[1])
             ELSE IF args[at[1]].k = "long" /\ args[at[1]].n # "cpu-list" /\ ~args[at[1]].eq THEN Out("reject", at[1])
             ELSE f[<<IF List(args[at[1]]) /\ Separate(args[at[1]]) THEN at[1] + 2 ELSE at[1] + 1, at[2] \/ List(args[at[1]])>>]]
           stop == {x \in D : ~Goes(x)}
           out == [x \in D |-> Ends(x)]
           succ == [x \in D |-> IF x \in stop THEN x ELSE Later(x)]
           left == [x \in D |-> Len(args) + 2 - x[1]]
           F == CHOOSE f : f = body(f)
           R == [do : {"at", "pid", "reject"}, i : Nat \ {0}]
<1>1. TasksetScan(args) = F[<<1, FALSE>>]
  BY DEF TasksetScan
<1>2. Len(args) \in Nat
  OBVIOUS
<1>3. \A x \in D : x = <<x[1], x[2]>> /\ x[1] \in 1..(Len(args) + 2) /\ x[2] \in BOOLEAN
  OBVIOUS
<1>4. ASSUME NEW f PROVE (f = body(f)) <=> IsScan(f, D, stop, out, succ)
  <2> DEFINE data == [x \in D |-> IF x \in stop THEN out[x] ELSE f[succ[x]]]
  <2>1. ASSUME NEW x \in D PROVE body(f)[x] = data[x]
    <3>1. CASE Goes(x)
      <4>1. x \notin stop /\ succ[x] = Later(x)
        BY <3>1
      <4>2. body(f)[x] = f[Later(x)]
        <5> HIDE DEF Out, List, Separate
        <5> QED BY <3>1
      <4> QED BY <4>1, <4>2
    <3>2. CASE ~Goes(x)
      <4>1. x \in stop /\ out[x] = Ends(x)
        BY <3>2
      <4>2. body(f)[x] = Ends(x)
        <5> HIDE DEF Out, List, Separate
        <5> QED BY <3>2
      <4> HIDE DEF Ends, body
      <4> QED BY <4>1, <4>2
    <3> QED BY <3>1, <3>2
  <2>2. body(f) = data
    <3> HIDE DEF Ends, Goes, Later, Out, List, Separate, stop, out, succ
    <3> QED BY <2>1
  <2> QED BY <2>2 DEF IsScan
<1>5. Descends(D, Len(args) + 2, left, stop, succ)
  <2>1. ASSUME NEW x \in D, x \notin stop PROVE succ[x] \in D /\ succ[x][1] > x[1]
    <3>1. succ[x] = Later(x) /\ x[1] <= Len(args)
      <4> HIDE DEF Pid, Odd, Later
      <4> QED BY <2>1, <1>2, <1>3
    <3>2. Later(x)[1] \in 1..(Len(args) + 2) /\ Later(x)[1] > x[1]
      BY <1>2, <1>3, <3>1
    <3>3. Later(x)[2] \in BOOLEAN
      BY <1>3 DEF ShortFlagInBundle
    <3> QED BY <3>1, <3>2, <3>3
  <2> HIDE DEF Goes, Later
  <2>2. succ \in [D -> D]
    <3>1. \A x \in D : succ[x] \in D
      BY <2>1
    <3> QED BY <3>1
  <2>3. left \in [D -> 0..(Len(args) + 2)]
    BY <1>2, <1>3
  <2>4. \A x \in D : x \notin stop => left[succ[x]] < left[x]
    <3> SUFFICES ASSUME NEW x \in D, x \notin stop PROVE left[succ[x]] < left[x]
      OBVIOUS
    <3>1. succ[x] \in D /\ succ[x][1] > x[1] /\ succ[x][1] \in Nat /\ x[1] \in Nat
      BY <2>1, <1>3
    <3>2. left[succ[x]] = Len(args) + 2 - succ[x][1] /\ left[x] = Len(args) + 2 - x[1]
      BY <3>1
    <3> HIDE DEF left, succ
    <3> QED BY <3>1, <3>2, <1>2
  <2> HIDE DEF left, succ, D
  <2> QED BY <1>2, <2>2, <2>3, <2>4 DEF Descends
<1>6. \A x \in D : x \in stop => out[x] \in R
  <2> SUFFICES ASSUME NEW x \in D PROVE Ends(x) \in R
    OBVIOUS
  <2>2. x[1] \in Nat \ {0} /\ Pos(x) \in Nat \ {0} /\ Pos(x) + 1 \in Nat \ {0}
    BY <1>3
  <2>3. /\ Out("at", Pos(x)) \in R /\ Out("at", Pos(x) + 1) \in R
        /\ Out("pid", x[1]) \in R /\ Out("reject", x[1]) \in R
    <3>1. \A i \in Nat \ {0} : Out("at", i) \in R /\ Out("pid", i) \in R /\ Out("reject", i) \in R
      OBVIOUS
    <3> HIDE DEF Out, R, Here
    <3> QED BY <2>2, <3>1
  <2> HIDE DEF Out, R, Here, Operand, Pid
  <2> QED BY <2>3
<1> HIDE DEF stop, out, succ, left
<1>7. IsScan(F, D, stop, out, succ)
  <2>1. \E f : IsScan(f, D, stop, out, succ)
    BY ZenonT(30), <1>5, ScanExists
  <2> HIDE DEF body
  <2>2. F = body(F)
    BY <1>4, <2>1
  <2> QED BY <2>2, <1>4
<1>8. <<1, FALSE>> \in D
  <2>1. 1 \in 1..(Len(args) + 2)
    BY <1>2
  <2>2. ASSUME NEW S, 1 \in S PROVE <<1, FALSE>> \in S \X BOOLEAN
    BY <2>2
  <2> QED BY <2>1, <2>2
<1> HIDE DEF F, D, R
<1>9. \A x \in D : F[x] \in R
  BY ZenonT(30), <1>5, <1>6, <1>7, ScanResult
<1> QED BY <1>1, <1>8, <1>9 DEF R

\* The command lines in rsync's options (analyzeRsyncRemoteShell).
LEMMA RsyncTyped ==
  ASSUME NEW args \in Seq(Tokens)
  PROVE  RsyncRemoteShellLines(args) \in Seq(ShellLines)
<1> DEFINE After(i) == IF i < Len(args) THEN AsLine(args[i + 1]) ELSE [safe |-> FALSE, toks |-> <<>>]
           LettersAfter(t) == Min({j \in DOMAIN t.ls : t.ls[j] = "e"}) < Len(t.ls)
           Separate(t) == t = Long("rsh") \/ (ShortFlagInBundle(t, "e") /\ ~LettersAfter(t) /\ ~t.att)
           Lines(t, i) ==
             CASE Separate(t) -> <<After(i)>>
               [] t.k = "long" /\ t.n = "rsh" /\ t.eq -> <<t.val>>
               [] ShortFlagInBundle(t, "e") /\ (LettersAfter(t) \/ t.att) ->
                    <<IF LettersAfter(t) THEN [safe |-> TRUE, toks |-> <<Bare("letters")>>] ELSE t.val>>
               [] OTHER -> <<>>
           D == 1..(Len(args) + 2)
           body(f) == [i \in D |->
             IF i > Len(args) \/ (i <= Len(args) /\ args[i].k = "dd") THEN <<>>
             ELSE Lines(args[i], i) \o f[IF Separate(args[i]) \/ args[i] \in RemoteShellValueOpts.rsync THEN i + 2 ELSE i + 1]]
           stop == {i \in D : i > Len(args) \/ (i <= Len(args) /\ args[i].k = "dd")}
           piece == [i \in D |-> Lines(args[i], i)]
           succ == [i \in D |-> IF i \in stop THEN i ELSE IF Separate(args[i]) \/ args[i] \in RemoteShellValueOpts.rsync THEN i + 2 ELSE i + 1]
           left == [i \in D |-> Len(args) + 2 - i]
           F == CHOOSE f : f = body(f)
<1>1. RsyncRemoteShellLines(args) = F[1]
  BY DEF RsyncRemoteShellLines
<1>2. Len(args) \in Nat /\ \A i \in 1..Len(args) : args[i] \in Tokens
  OBVIOUS
<1>3. ASSUME NEW i \in D, i \notin stop PROVE Lines(args[i], i) \in Seq(ShellLines)
  <2>1. i \in 1..Len(args) /\ args[i] \in Tokens
    BY <1>2, <1>3
  <2>2. After(i) \in ShellLines
    <3>1. [safe |-> FALSE, toks |-> <<>>] \in ShellLines
      BY DEF ShellLines
    <3>2. i < Len(args) => AsLine(args[i + 1]) \in ShellLines
      BY <1>2, LineTyped
    <3> QED BY <3>1, <3>2
  <2>3. args[i].k \in {"short", "long"} => args[i].val \in ShellLines
    BY <2>1, TokensAssumption
  <2>4. [safe |-> TRUE, toks |-> <<Bare("letters")>>] \in ShellLines
    <3> DEFINE t == Bare("letters")
    <3>1. t \in Tokens
      BY TokensAssumption
    <3> HIDE DEF t
    <3>2. <<t>> \in Seq(Tokens)
      BY <3>1
    <3> QED BY <3>2 DEF ShellLines, t
  <2>5. \A l \in ShellLines : <<l>> \in Seq(ShellLines)
    OBVIOUS
  <2>6. <<>> \in Seq(ShellLines)
    OBVIOUS
  <2>7. ShortFlagInBundle(args[i], "e") => args[i].k = "short"
    BY DEF ShortFlagInBundle
  <2> HIDE DEF After, LettersAfter, Separate
  <2> QED BY <2>2, <2>3, <2>4, <2>5, <2>6, <2>7
<1>4. ASSUME NEW f PROVE (f = body(f)) <=> IsJoin(f, D, stop, piece, succ)
  <2> DEFINE data == [i \in D |-> IF i \in stop THEN <<>> ELSE piece[i] \o f[succ[i]]]
  <2> HIDE DEF Lines, Separate
  <2>1. ASSUME NEW i \in D PROVE body(f)[i] = data[i]
    <3>1. CASE i \in stop
      BY <3>1
    <3>2. CASE i \notin stop
      BY <3>2
    <3> QED BY <3>1, <3>2
  <2>2. body(f) = data
    <3>1. body(f) = [i \in D |-> body(f)[i]] /\ data = [i \in D |-> data[i]]
      OBVIOUS
    <3> HIDE DEF body, data
    <3> QED BY <2>1, <3>1
  <2> QED BY <2>2 DEF IsJoin
<1>5. Descends(D, Len(args) + 2, left, stop, succ)
  <2> HIDE DEF Separate
  <2>1. ASSUME NEW i \in D, i \notin stop PROVE succ[i] \in D /\ left[succ[i]] < left[i]
    BY <1>2, <2>1
  <2>2. succ \in [D -> D]
    <3>1. \A i \in D : succ[i] \in D
      BY <2>1
    <3> QED BY <3>1
  <2> QED BY <1>2, <2>1, <2>2 DEF Descends
<1>6. \A x \in D : x \notin stop => piece[x] \in Seq(ShellLines)
  <2> HIDE DEF Lines
  <2> QED BY <1>3
<1> HIDE DEF stop, piece, succ, left
<1>7. IsJoin(F, D, stop, piece, succ)
  <2>1. \E f : IsJoin(f, D, stop, piece, succ)
    BY ZenonT(30), <1>5, JoinExists
  <2> HIDE DEF body
  <2>2. F = body(F)
    BY <1>4, <2>1
  <2> QED BY <2>2, <1>4
<1>8. 1 \in D
  BY <1>2
<1> HIDE DEF F, D
<1>9. \A x \in D : F[x] \in Seq(ShellLines)
  BY ZenonT(30), <1>5, <1>6, <1>7, JoinResult
<1> QED BY <1>1, <1>8, <1>9

\* The command lines in ssh's options (analyzeSSHProxyCommand).
LEMMA SSHTyped ==
  ASSUME NEW args \in Seq(Tokens)
  PROVE  SSHProxyLines(args) \in Seq(ShellLines)
<1> DEFINE Of(line) == IF line.toks # <<>> /\ ProgramName(Head(line.toks)) = "proxycommand"
                       THEN <<[safe |-> line.safe, toks |-> Tail(line.toks)]>> ELSE <<>>
           Separate(i) == args[i] = Short(<<"o">>) /\ i < Len(args)
           Lines(i) == CASE Separate(i) -> Of(AsLine(args[i + 1]))
                         [] args[i].k = "short" /\ args[i].ls = <<"o">> /\ args[i].att -> Of(args[i].val)
                         [] OTHER -> <<>>
           D == 1..(Len(args) + 2)
           body(f) == [i \in D |->
             IF i > Len(args) \/ (i <= Len(args) /\ args[i].k = "dd") THEN <<>>
             ELSE Lines(i) \o f[IF Separate(i) THEN i + 2 ELSE i + 1]]
           stop == {i \in D : i > Len(args) \/ (i <= Len(args) /\ args[i].k = "dd")}
           piece == [i \in D |-> Lines(i)]
           succ == [i \in D |-> IF i \in stop THEN i ELSE IF Separate(i) THEN i + 2 ELSE i + 1]
           left == [i \in D |-> Len(args) + 2 - i]
           F == CHOOSE f : f = body(f)
<1>1. SSHProxyLines(args) = F[1]
  BY DEF SSHProxyLines
<1>2. Len(args) \in Nat /\ \A i \in 1..Len(args) : args[i] \in Tokens
  OBVIOUS
<1>3. ASSUME NEW i \in D, i \notin stop PROVE Lines(i) \in Seq(ShellLines)
  <2>1. i \in 1..Len(args) /\ args[i] \in Tokens
    BY <1>2, <1>3
  <2>2. ASSUME NEW line \in ShellLines PROVE Of(line) \in Seq(ShellLines)
    <3>1. line.safe \in BOOLEAN /\ line.toks \in Seq(Tokens)
      BY DEF ShellLines
    <3>2. line.toks # <<>> => [safe |-> line.safe, toks |-> Tail(line.toks)] \in ShellLines
      BY <3>1 DEF ShellLines
    <3>3. \A l \in ShellLines : <<l>> \in Seq(ShellLines)
      OBVIOUS
    <3>4. <<>> \in Seq(ShellLines)
      OBVIOUS
    <3> QED BY <3>2, <3>3, <3>4
  <2>3. args[i].k = "short" => args[i].val \in ShellLines
    BY <2>1, TokensAssumption
  <2>4. i < Len(args) => AsLine(args[i + 1]) \in ShellLines
    BY <1>2, LineTyped
  <2>5. <<>> \in Seq(ShellLines)
    OBVIOUS
  <2> HIDE DEF Of
  <2> QED BY <2>2, <2>3, <2>4, <2>5
<1>4. ASSUME NEW f PROVE (f = body(f)) <=> IsJoin(f, D, stop, piece, succ)
  <2> DEFINE data == [i \in D |-> IF i \in stop THEN <<>> ELSE piece[i] \o f[succ[i]]]
  <2> HIDE DEF Lines, Separate
  <2>1. ASSUME NEW i \in D PROVE body(f)[i] = data[i]
    <3>1. CASE i \in stop
      BY <3>1
    <3>2. CASE i \notin stop
      BY <3>2
    <3> QED BY <3>1, <3>2
  <2>2. body(f) = data
    <3>1. body(f) = [i \in D |-> body(f)[i]] /\ data = [i \in D |-> data[i]]
      OBVIOUS
    <3> HIDE DEF body, data
    <3> QED BY <2>1, <3>1
  <2> QED BY <2>2 DEF IsJoin
<1>5. Descends(D, Len(args) + 2, left, stop, succ)
  <2> HIDE DEF Separate
  <2>1. ASSUME NEW i \in D, i \notin stop PROVE succ[i] \in D /\ left[succ[i]] < left[i]
    BY <1>2, <2>1
  <2>2. succ \in [D -> D]
    <3>1. \A i \in D : succ[i] \in D
      BY <2>1
    <3> QED BY <3>1
  <2> QED BY <1>2, <2>1, <2>2 DEF Descends
<1>6. \A x \in D : x \notin stop => piece[x] \in Seq(ShellLines)
  <2> HIDE DEF Lines
  <2> QED BY <1>3
<1> HIDE DEF stop, piece, succ, left
<1>7. IsJoin(F, D, stop, piece, succ)
  <2>1. \E f : IsJoin(f, D, stop, piece, succ)
    BY ZenonT(30), <1>5, JoinExists
  <2> HIDE DEF body
  <2>2. F = body(F)
    BY <1>4, <2>1
  <2> QED BY <2>2, <1>4
<1>8. 1 \in D
  BY <1>2
<1> HIDE DEF F, D
<1>9. \A x \in D : F[x] \in Seq(ShellLines)
  BY ZenonT(30), <1>5, <1>6, <1>7, JoinResult
<1> QED BY <1>1, <1>8, <1>9

\* Lines one after the other (FlattenSeq).
LEMMA FlattenIn ==
  ASSUME NEW S, NEW ss \in Seq(Seq(S))
  PROVE  /\ FlattenSeq(ss) \in Seq(S)
         /\ ss # <<>> /\ ss[1] # <<>> => FlattenSeq(ss) # <<>>
<1>1. CASE Len(ss) = 0
  BY <1>1 DEF FlattenSeq
<1>2. CASE Len(ss) # 0
  <2> DEFINE N == Len(ss)
             good(f, n) == f = [i \in 1..n |-> IF i = 1 THEN ss[i] ELSE f[i - 1] \o ss[i]]
             T == {n \in Nat : \E f : good(f, n)}
  <2>1. N \in Nat \ {0} /\ \A i \in 1..N : ss[i] \in Seq(S)
    BY <1>2
  <2>2. 0 \in T
    <3> DEFINE f == [i \in 1..0 |-> ss[i]]
    <3>1. good(f, 0)
      OBVIOUS
    <3> QED BY <3>1
  <2>3. ASSUME NEW n \in Nat, n \in T PROVE n + 1 \in T
    <3>1. PICK f : good(f, n)
      BY <2>3
    <3> DEFINE g == [i \in 1..(n+1) |-> IF i <= n THEN f[i] ELSE IF i = 1 THEN ss[i] ELSE f[i - 1] \o ss[i]]
    <3>2. ASSUME NEW i \in 1..(n+1) PROVE g[i] = IF i = 1 THEN ss[i] ELSE g[i - 1] \o ss[i]
      <4>1. CASE i <= n /\ i = 1
        BY <4>1, <3>1
      <4>2. CASE i <= n /\ i # 1
        <5>1. i \in 1..n /\ i - 1 \in 1..n /\ i - 1 \in 1..(n+1)
          BY <4>2
        <5>2. f[i] = f[i-1] \o ss[i]
          BY <5>1, <4>2, <3>1
        <5>3. g[i] = f[i] /\ g[i - 1] = f[i - 1]
          BY <5>1, <4>2
        <5> HIDE DEF g
        <5> QED BY <5>2, <5>3, <4>2
      <4>3. CASE i = n+1
        <5>1. i = 1 \/ (i - 1 \in 1..(n+1) /\ i - 1 <= n)
          BY <4>3
        <5> QED BY <5>1, <4>3
      <4> QED BY <4>1, <4>2, <4>3
    <3>3. good(g, n+1)
      BY <3>2
    <3> HIDE DEF good, g
    <3> QED BY <3>3
  <2>4. \E f : good(f, N)
    BY <2>1, <2>2, <2>3, SetInduction
  <2> DEFINE F == CHOOSE f : good(f, N)
  <2>5. good(F, N)
    BY <2>4
  <2>6. FlattenSeq(ss) = F[N]
    BY <1>2 DEF FlattenSeq
  <2> DEFINE U == {n \in Nat : n \in 1..N => F[n] \in Seq(S) /\ (ss[1] # <<>> => F[n] # <<>>)}
  <2>7. 0 \in U
    OBVIOUS
  <2>8. ASSUME NEW n \in Nat, n \in U PROVE n + 1 \in U
    <3> SUFFICES ASSUME n + 1 \in 1..N PROVE F[n + 1] \in Seq(S) /\ (ss[1] # <<>> => F[n + 1] # <<>>)
      OBVIOUS
    <3>1. F[n + 1] = IF n + 1 = 1 THEN ss[n + 1] ELSE F[(n + 1) - 1] \o ss[n + 1]
      BY <2>5
    <3>2. (n + 1) - 1 = n /\ (n = 0 \/ n \in 1..N) /\ ss[n + 1] \in Seq(S)
      BY <2>1
    <3> HIDE DEF F
    <3>3. n = 0 \/ (F[n] \in Seq(S) /\ (ss[1] # <<>> => F[n] # <<>>))
      BY <2>8, <3>2
    <3>4. \A p, q \in Seq(S) : p \o q \in Seq(S) /\ (p # <<>> => p \o q # <<>>)
      OBVIOUS
    <3>5. CASE n = 0
      <4>1. F[n + 1] = ss[1] /\ ss[1] \in Seq(S)
        BY <3>1, <3>2, <3>5
      <4> QED BY <4>1
    <3>6. CASE n # 0
      <4>1. F[n + 1] = F[n] \o ss[n + 1]
        <5>1. n + 1 # 1 /\ (n + 1) - 1 = n
          BY <3>6
        <5>2. F[n + 1] = F[(n + 1) - 1] \o ss[n + 1]
          BY Zenon, <3>1, <5>1
        <5> QED BY Zenon, <5>1, <5>2
      <4> QED BY <4>1, <3>2, <3>3, <3>4, <3>6
    <3> QED BY <3>5, <3>6
  <2> HIDE DEF F
  <2>9. N \in U
    <3> HIDE DEF U, N
    <3> QED BY <2>1, <2>7, <2>8, SetInduction
  <2> QED BY <2>1, <2>6, <2>9
<1> QED BY <1>1, <1>2

\* What watch hands to a shell.
LEMMA JoinedTyped == ASSUME NEW toks \in Seq(Tokens) PROVE Joined(toks) \in ShellLines
<1> DEFINE ss == [i \in DOMAIN toks |-> AsLine(toks[i]).toks]
<1>1. \A i \in DOMAIN toks : AsLine(toks[i]).toks \in Seq(Tokens)
  <2>1. \A i \in DOMAIN toks : toks[i] \in Tokens
    OBVIOUS
  <2> QED BY <2>1, LineTyped DEF ShellLines
<1>2. ss \in Seq(Seq(Tokens))
  BY <1>1
<1>3. FlattenSeq(ss) \in Seq(Tokens)
  BY <1>2, FlattenIn
<1>4. (\A i \in DOMAIN toks : toks[i].k = "string" => toks[i].safe) \in BOOLEAN
  OBVIOUS
<1> HIDE DEF ss
<1> QED BY <1>3, <1>4 DEF Joined, ShellLines, ss

----------------------------------------------------------------------------
(* Levels.                                                                 *)

\* The maximum of some levels is one of them and none is higher.
LEMMA MaxOfLevels ==
  ASSUME NEW S, S \subseteq Levels, S # {}
  PROVE  Max(S) \in S /\ Max(S) \in Levels /\ \A y \in S : Max(S) >= y
<1>1. \E x \in S : \A y \in S : x >= y
  <2>1. \A x \in S : x \in {0, 1, 2, 3, 4}
    BY DEF Levels, Unknown, Critical
  <2>2. CASE 4 \in S
    BY <2>1, <2>2
  <2>3. CASE 4 \notin S /\ 3 \in S
    BY <2>1, <2>3
  <2>4. CASE 4 \notin S /\ 3 \notin S /\ 2 \in S
    BY <2>1, <2>4
  <2>5. CASE 4 \notin S /\ 3 \notin S /\ 2 \notin S /\ 1 \in S
    BY <2>1, <2>5
  <2>6. CASE 4 \notin S /\ 3 \notin S /\ 2 \notin S /\ 1 \notin S
    BY <2>1, <2>6
  <2> QED BY <2>2, <2>3, <2>4, <2>5, <2>6
<1> QED BY <1>1 DEF Max

\* The five levels are levels.
LEMMA LevelNames == Unknown \in Levels /\ Low \in Levels /\ Medium \in Levels /\ High \in Levels /\ Critical \in Levels
  BY DEF Levels, Unknown, Low, Medium, High, Critical

\* The higher of two levels.
LEMMA MaxOfTwo ==
  ASSUME NEW a \in Levels, NEW b \in Levels
  PROVE  MaxLevel(a, b) \in Levels /\ MaxLevel(a, b) >= a /\ MaxLevel(a, b) >= b
  BY DEF MaxLevel, Levels, Unknown, Critical

\* The factors of a profile are levels (resolveProfile, mergeProfilesMax).
LEMMA ProfileLevels ==
  ASSUME NEW names
  PROVE  LET p == ResolveProfile(names).p
         IN p.priv \in Levels /\ p.net \in Levels /\ p.destr \in Levels /\ p.exfil \in Levels
<1> DEFINE ps == {CommandRiskProfiles[n] : n \in names \cap DOMAIN CommandRiskProfiles}
           Fine(p) == p.priv \in Levels /\ p.net \in Levels /\ p.destr \in Levels /\ p.exfil \in Levels
<1>1. \A n \in DOMAIN CommandRiskProfiles : Fine(CommandRiskProfiles[n])
  BY DEF CommandRiskProfiles, Profile, Levels, Unknown, Low, Medium, High, Critical
<1>2. \A p \in ps : Fine(p)
  BY <1>1
<1>3. CASE ps = {}
  BY <1>3 DEF ResolveProfile, Profile, Levels, Unknown, Critical
<1>4. CASE ps # {}
  <2>1. /\ {p.priv : p \in ps} \subseteq Levels /\ {p.priv : p \in ps} # {}
        /\ {p.net : p \in ps} \subseteq Levels /\ {p.net : p \in ps} # {}
        /\ {p.destr : p \in ps} \subseteq Levels /\ {p.destr : p \in ps} # {}
        /\ {p.exfil : p \in ps} \subseteq Levels /\ {p.exfil : p \in ps} # {}
    <3> HIDE DEF ps
    <3> QED BY <1>2, <1>4
  <2>2. ResolveProfile(names).p = MergeProfilesMax(ps)
    BY <1>4 DEF ResolveProfile
  <2> HIDE DEF ps
  <2>3. /\ MergeProfilesMax(ps).priv = Max({p.priv : p \in ps})
        /\ MergeProfilesMax(ps).net = Max({p.net : p \in ps})
        /\ MergeProfilesMax(ps).destr = Max({p.destr : p \in ps})
        /\ MergeProfilesMax(ps).exfil = Max({p.exfil : p \in ps})
    BY DEF MergeProfilesMax
  <2> QED BY <2>1, <2>2, <2>3, MaxOfLevels
<1> QED BY <1>3, <1>4

\* What a profile says of a command line is a level (profileFactorRisk).
LEMMA FactorLevel ==
  ASSUME NEW names, NEW args, NEW sup
  PROVE  ProfileFactorRisk(ResolveProfile(names).p, args, sup) \in Levels
<1> DEFINE p == ResolveProfile(names).p
           S == {IF ~sup /\ p.destr > Low THEN p.destr ELSE Unknown,
                 IF p.exfil > Low THEN p.exfil ELSE Unknown,
                 IF p.net > Low /\ ProfileNetworkApplies(p, args) THEN p.net ELSE Unknown}
<1>1. p.net \in Levels /\ p.destr \in Levels /\ p.exfil \in Levels
  BY ProfileLevels
<1>2. ProfileFactorRisk(p, args, sup) = Max(S)
  BY DEF ProfileFactorRisk
<1> HIDE DEF p
<1>3. S \subseteq Levels /\ S # {}
  BY <1>1, LevelNames
<1> HIDE DEF S
<1> QED BY <1>2, <1>3, MaxOfLevels DEF p

\* What the argument patterns say (checkDangerousArgPatterns).
LEMMA PatternLevel ==
  ASSUME NEW names, NEW args
  PROVE  CheckDangerousArgPatterns(names, args) \in Levels
<1> DEFINE hit == {q \in DangerousCommandPatterns : MatchesPattern(names, args, q)}
           S == {q.level : q \in hit}
<1>1. \A q \in DangerousCommandPatterns : q.level \in Levels
  BY LevelNames DEF DangerousCommandPatterns
<1>2. hit # {} => S \subseteq Levels /\ S # {}
  BY <1>1
<1>3. CheckDangerousArgPatterns(names, args) \in {High, Unknown} \cup (IF hit = {} THEN {} ELSE {Max(S)})
  BY DEF CheckDangerousArgPatterns
<1> HIDE DEF hit, S
<1> QED BY <1>2, <1>3, MaxOfLevels, LevelNames

\* What the coreutils binary is judged by (coreutilsCommandRisk).
LEMMA CoreutilsLevel ==
  ASSUME NEW t, NEW args
  PROVE  /\ CoreutilsCommandRisk(t, args).level \in Levels
         /\ CoreutilsCommandRisk(t, args).err \in BOOLEAN
         /\ CoreutilsCommandRisk(t, args).handled \in BOOLEAN
<1> DEFINE R(l, h, e) == [level |-> l, handled |-> h, err |-> e]
           bit == HasSetuidOrSetgidBit(t)
           sub == IF t.w = "coreutils"
                  THEN FirstOperand(args, OptSpec({}, {}, {}, "anyUnknownIsUnreliable")) ELSE t.w
           out == CASE bit.err -> R(Unknown, FALSE, TRUE)
                    [] bit.bit -> R(High, TRUE, FALSE)
                    [] sub \in SafeCoreutilsCommands -> R(Low, TRUE, FALSE)
                    [] OTHER -> R(High, TRUE, FALSE)
<1>1. CoreutilsCommandRisk(t, args) =
        IF t.k # "word" \/ t.dir # "coreutils" THEN R(Unknown, FALSE, FALSE) ELSE out
  BY DEF CoreutilsCommandRisk
<1>2. out \in {R(Unknown, FALSE, TRUE), R(High, TRUE, FALSE), R(Low, TRUE, FALSE)}
  <2> HIDE DEF bit, sub, R
  <2> QED OBVIOUS
<1>3. CoreutilsCommandRisk(t, args) \in
        {R(Unknown, FALSE, FALSE), R(Unknown, FALSE, TRUE), R(High, TRUE, FALSE), R(Low, TRUE, FALSE)}
  <2> HIDE DEF R, out
  <2> QED BY <1>1, <1>2
<1>4. ASSUME NEW l \in Levels, NEW h \in BOOLEAN, NEW e \in BOOLEAN
      PROVE  R(l, h, e).level \in Levels /\ R(l, h, e).err \in BOOLEAN /\ R(l, h, e).handled \in BOOLEAN
  OBVIOUS
<1> HIDE DEF R
<1>5. TRUE \in BOOLEAN /\ FALSE \in BOOLEAN
  OBVIOUS
<1> QED BY <1>3, <1>4, <1>5, LevelNames, Zenon

\* What the names of system-modifying commands say (systemModificationRisk).
LEMMA SystemLevel == ASSUME NEW names PROVE SystemModificationRisk(names) \in Levels
  BY LevelNames DEF SystemModificationRisk

\* What is folded into the level of an interpreter.
LEMMA InterpreterTyped ==
  ASSUME NEW names, NEW args, NEW t
  PROVE  InterpreterLevel(names, args, CoreutilsCommandRisk(t, args)) \in Levels
<1> DEFINE cu == CoreutilsCommandRisk(t, args)
           p == ResolveProfile(names)
           S == {IF IsDestructiveFileOperation(names, args) THEN High ELSE Unknown,
                 IF cu.handled THEN cu.level ELSE Unknown,
                 SystemModificationRisk(names),
                 IF IsArbitraryCodeExecutionRunner(names) THEN High ELSE Unknown,
                 CheckDangerousArgPatterns(names, args),
                 IF p.found THEN ProfileFactorRisk(p.p, args, FALSE) ELSE Unknown}
<1>1. InterpreterLevel(names, args, cu) = Max(S)
  BY DEF InterpreterLevel
<1>2. cu.level \in Levels /\ ProfileFactorRisk(p.p, args, FALSE) \in Levels
  BY CoreutilsLevel, FactorLevel
<1> HIDE DEF cu, p
<1>3. S \subseteq Levels /\ S # {}
  BY <1>2, LevelNames, SystemLevel, PatternLevel
<1> HIDE DEF S
<1> QED BY <1>1, <1>3, MaxOfLevels DEF cu

----------------------------------------------------------------------------
(* The walk.                                                               *)

\* The verdicts, the levels of the walk, and the types of its variables.
Verdicts == [kind : {"none", "floor", "reject", "critical"}, level : Levels]

LevelRecords ==
  [at : {"level"}, prog : Tokens, args : Seq(Tokens), depth : Nat, role : {"inner", "interpreter"},
   inner : BOOLEAN, interp : BOOLEAN, acc : Levels, cerr : BOOLEAN, split : BOOLEAN]

WalkTypeOK ==
  /\ walk \in LevelRecords \cup {Idle} /\ pend \in Seq(LevelRecords) /\ worst \in Verdicts
  /\ walk = Idle => pend = <<>>

\* a is as severe as b: of a more severe kind, or of the same kind and no lower level.
AtLeast(a, b) ==
  \/ IndirectKindRank(a) > IndirectKindRank(b)
  \/ IndirectKindRank(a) = IndirectKindRank(b) /\ a.level >= b.level

\* A verdict that a limit below High does not pass.
Severe(r) == r.kind \in {"critical", "reject"} \/ (r.kind = "floor" /\ r.level >= High)

\* An inner command of a wrapper is being looked at or still to be.
Inside == (walk \in LevelRecords /\ walk.inner) \/ \E i \in DOMAIN pend : pend[i].inner

\* A step of the walk keeps the types, weakens nothing, and leaves no inner command without a severe verdict.
Walked ==
  /\ WalkTypeOK' /\ AtLeast(worst', worst)
  /\ Inside \/ Severe(worst) => Inside' \/ Severe(worst')

\* The rank of a verdict is a number.
LEMMA RankNat == ASSUME NEW r PROVE IndirectKindRank(r) \in {0, 1, 2, 3}
  BY DEF IndirectKindRank

\* The rank of a verdict tells its kind.
LEMMA VerdictRank ==
  ASSUME NEW r \in Verdicts
  PROVE  /\ IndirectKindRank(r) = 0 <=> r.kind = "none"
         /\ IndirectKindRank(r) = 1 <=> r.kind = "floor"
         /\ IndirectKindRank(r) >= 2 <=> r.kind \in {"reject", "critical"}
  BY DEF IndirectKindRank, Verdicts

\* Merging keeps the more severe of two results (mergeIndirectResults).
LEMMA MergeKeeps ==
  ASSUME NEW a \in Verdicts, NEW b \in Verdicts
  PROVE  /\ MergeIndirectResults(a, b) \in Verdicts
         /\ AtLeast(MergeIndirectResults(a, b), a) /\ AtLeast(MergeIndirectResults(a, b), b)
<1>0. a.level \in Levels /\ b.level \in Levels /\ a.level >= a.level /\ b.level >= b.level
  BY DEF Verdicts, Levels, Unknown, Critical
<1>1. CASE IndirectKindRank(a) # IndirectKindRank(b)
  BY <1>0, <1>1, RankNat DEF MergeIndirectResults, AtLeast
<1>2. CASE IndirectKindRank(a) = IndirectKindRank(b)
  <2> DEFINE l == MaxLevel(a.level, b.level)
             m == [a EXCEPT !.level = l]
  <2>1. MergeIndirectResults(a, b) = m
    BY <1>2 DEF MergeIndirectResults
  <2>2. l \in Levels /\ l >= a.level /\ l >= b.level
    BY <1>0, MaxOfTwo
  <2> HIDE DEF l
  <2>3. m \in Verdicts /\ m.kind = a.kind /\ m.level = l
    BY <2>2 DEF Verdicts
  <2>4. IndirectKindRank(m) = IndirectKindRank(a)
    BY <2>3 DEF IndirectKindRank
  <2> HIDE DEF m
  <2> QED BY <1>2, <2>1, <2>2, <2>3, <2>4 DEF AtLeast
<1> QED BY <1>1, <1>2

\* What is as severe as something severe is severe.
LEMMA SevereKept ==
  ASSUME NEW a \in Verdicts, NEW b \in Verdicts, AtLeast(a, b), Severe(b)
  PROVE  Severe(a)
<1>1. a.level \in Nat /\ b.level \in Nat /\ High \in Nat
  BY DEF Verdicts, Levels, Unknown, Critical, High
<1>2. a.kind \in {"none", "floor", "reject", "critical"}
  BY DEF Verdicts
<1>3. CASE b.kind \in {"reject", "critical"}
  BY <1>2, <1>3, VerdictRank, RankNat DEF AtLeast, Severe
<1>4. CASE b.kind = "floor" /\ b.level >= High
  BY <1>1, <1>2, <1>4, VerdictRank, RankNat DEF AtLeast, Severe
<1> QED BY <1>3, <1>4 DEF Severe

\* The results the handlers report.
LEMMA Reported ==
  /\ IndirectNone \in Verdicts /\ IndirectReject \in Verdicts /\ IndirectCritical \in Verdicts
  /\ \A level \in Levels : IndirectFloor(level) \in Verdicts
  BY LevelNames DEF Verdicts, IndirectNone, IndirectReject, IndirectCritical, IndirectFloor

\* What the enclosing levels make of a verdict; below a wrapper it is severe (Unwind).
LEMMA UnwindTyped ==
  ASSUME NEW w \in LevelRecords, NEW r \in Verdicts
  PROVE  Unwind(w, r) \in Verdicts /\ (w.inner => Severe(Unwind(w, r)))
<1>1. MaxLevel(w.acc, r.level) \in Levels
  BY MaxOfTwo DEF LevelRecords, Verdicts
<1>2. Severe(IndirectReject) /\ Severe(IndirectFloor(High))
  BY DEF Severe, IndirectReject, IndirectFloor, High
<1>3. r.kind \in {"critical", "reject"} => Severe(r)
  BY DEF Severe
<1> QED BY <1>1, <1>2, <1>3, Reported, LevelNames DEF Unwind

\* The walk goes on with the first of the levels that are left.
LEMMA TakeTyped ==
  ASSUME NEW ls \in Seq(LevelRecords), Take(ls)
  PROVE  /\ walk' \in LevelRecords \cup {Idle} /\ pend' \in Seq(LevelRecords)
         /\ walk' = Idle => pend' = <<>>
         /\ (\E i \in DOMAIN ls : ls[i].inner) => Inside'
<1>1. CASE ls = <<>>
  BY <1>1 DEF Take
<1>2. CASE ls # <<>>
  <2>1. walk' = ls[1] /\ ls[1] \in LevelRecords /\ pend' = Tail(ls) /\ pend' \in Seq(LevelRecords)
    BY <1>2 DEF Take
  <2>2. walk' # Idle
    BY <2>1 DEF LevelRecords, Idle
  <2>3. ASSUME NEW i \in DOMAIN ls, ls[i].inner PROVE Inside'
    <3>1. CASE i = 1
      BY <2>1, <2>3, <3>1 DEF Inside
    <3>2. CASE i # 1
      <4>1. i - 1 \in DOMAIN Tail(ls) /\ Tail(ls)[i - 1] = ls[i]
        BY <3>2
      <4> QED BY <2>1, <2>3, <4>1 DEF Inside
    <3> QED BY <3>1, <3>2
  <2> QED BY <2>1, <2>2, <2>3
<1> QED BY <1>1, <1>2

\* A level that ends hands its result to the enclosing ones.
LEMMA FinishWalks ==
  ASSUME WalkTypeOK, walk \in LevelRecords, NEW r \in Verdicts, Finish(r)
  PROVE  Walked
<1> DEFINE u == Unwind(walk, r)
<1>1. u \in Verdicts /\ (walk.inner => Severe(u))
  BY UnwindTyped
<1>2. worst' = MergeIndirectResults(worst, u) /\ Take(pend)
  BY DEF Finish
<1> HIDE DEF u
<1>3. worst' \in Verdicts /\ AtLeast(worst', worst) /\ AtLeast(worst', u)
  BY <1>1, <1>2, MergeKeeps DEF WalkTypeOK
<1>4. WalkTypeOK'
  BY <1>2, <1>3, TakeTyped DEF WalkTypeOK
<1>5. Severe(worst) \/ walk.inner => Severe(worst')
  BY <1>1, <1>3, SevereKept DEF WalkTypeOK
<1>6. (\E i \in DOMAIN pend : pend[i].inner) => Inside'
  BY <1>2, TakeTyped DEF WalkTypeOK
<1> QED BY <1>3, <1>4, <1>5, <1>6 DEF Walked, Inside

\* A step down that leaves the verdict and what is pending alone.
LEMMA DownWalks ==
  ASSUME WalkTypeOK, walk \in LevelRecords, walk' \in LevelRecords, walk.inner => walk'.inner, UNCHANGED <<pend, worst>>
  PROVE  Walked
<1>1. worst.level >= worst.level
  BY DEF WalkTypeOK, Verdicts, Levels, Unknown, Critical
<1>2. walk' # Idle
  BY DEF LevelRecords, Idle
<1>3. WalkTypeOK'
  BY <1>2 DEF WalkTypeOK
<1>4. AtLeast(worst', worst)
  BY <1>1 DEF AtLeast
<1>5. Inside \/ Severe(worst) => Inside' \/ Severe(worst')
  BY DEF Inside
<1> QED BY <1>3, <1>4, <1>5 DEF Walked

\* The level below a level.
LEMMA InnerTyped ==
  ASSUME NEW w \in LevelRecords, NEW t \in Tokens, NEW args \in Seq(Tokens), NEW role \in {"inner", "interpreter"}
  PROVE  Inner(w, t, args, role) \in LevelRecords /\ (w.inner => Inner(w, t, args, role).inner)
<1> DEFINE fine == role = "interpreter"
           cu == CoreutilsCommandRisk(t, args)
           acc == IF fine THEN MaxLevel(w.acc, InterpreterLevel(ResolveCommandNames(t).names, args, cu)) ELSE w.acc
           i == [w EXCEPT !.prog = t, !.args = args, !.depth = w.depth + 1, !.role = role,
                  !.inner = w.inner \/ ~fine, !.interp = w.interp \/ fine,
                  !.acc = acc, !.cerr = w.cerr \/ (fine /\ cu.err), !.split = FALSE]
<1>1. Inner(w, t, args, role) = i
  BY DEF Inner
<1>2. acc \in Levels
  BY MaxOfTwo, InterpreterTyped DEF LevelRecords
<1>3. cu.err \in BOOLEAN
  BY CoreutilsLevel
<1> HIDE DEF acc, cu
<1>4. i \in LevelRecords
  <2>1. /\ w.inner \in BOOLEAN /\ w.interp \in BOOLEAN /\ w.cerr \in BOOLEAN /\ w.depth \in Nat
        /\ DOMAIN w = {"at", "prog", "args", "depth", "role", "inner", "interp", "acc", "cerr", "split"}
        /\ w.at = "level"
    BY DEF LevelRecords
  <2>2. (w.inner \/ ~fine) \in BOOLEAN /\ (w.interp \/ fine) \in BOOLEAN /\ (w.cerr \/ (fine /\ cu.err)) \in BOOLEAN
    OBVIOUS
  <2> DEFINE b1 == w.inner \/ ~fine
             b2 == w.interp \/ fine
             b3 == w.cerr \/ (fine /\ cu.err)
             n == w.depth + 1
  <2>3. b1 \in BOOLEAN /\ b2 \in BOOLEAN /\ b3 \in BOOLEAN /\ n \in Nat
    BY <2>1, <2>2
  <2>4. i = [w EXCEPT !.prog = t, !.args = args, !.depth = n, !.role = role, !.inner = b1, !.interp = b2,
                      !.acc = acc, !.cerr = b3, !.split = FALSE]
    OBVIOUS
  <2> HIDE DEF b1, b2, b3, n, i, fine
  <2>5. i = [at |-> "level", prog |-> t, args |-> args, depth |-> n, role |-> role, inner |-> b1, interp |-> b2,
             acc |-> acc, cerr |-> b3, split |-> FALSE]
    BY <2>1, <2>4
  <2> QED BY <1>2, <2>3, <2>5 DEF LevelRecords
<1>5. w.inner => i.inner
  BY DEF LevelRecords
<1> QED BY <1>1, <1>4, <1>5

\* What is known of a command at once.
LEMMA InnerVerdictTyped == ASSUME NEW t PROVE InnerVerdict(t) \in {IndirectNone, IndirectReject, IndirectCritical}
  BY DEF InnerVerdict

\* An inner command is judged at once or walked (evaluateInnerAs).
LEMMA InnerWalks ==
  ASSUME WalkTypeOK, walk \in LevelRecords,
         NEW t \in Tokens, NEW args \in Seq(Tokens), NEW role \in {"inner", "interpreter"},
         EvaluateInnerAs(t, args, role)
  PROVE  Walked
<1> DEFINE v == InnerVerdict(t)
<1>1. v \in Verdicts
  BY InnerVerdictTyped, Reported
<1>2. IF v # IndirectNone THEN Finish(v) ELSE walk' = Inner(walk, t, args, role) /\ UNCHANGED <<pend, worst>>
  BY DEF EvaluateInnerAs
<1> HIDE DEF v
<1>3. CASE v # IndirectNone
  BY <1>1, <1>2, <1>3, FinishWalks
<1>4. CASE v = IndirectNone
  BY <1>2, <1>4, InnerTyped, DownWalks
<1> QED BY <1>3, <1>4


\* A command line that is split has a first word (gateShellCommandString).
LEMMA ShellWalks ==
  ASSUME WalkTypeOK, walk \in LevelRecords, NEW line \in ShellLines, GateShellCommandString(line)
  PROVE  Walked
<1>1. walk.role \in {"inner", "interpreter"}
  BY DEF LevelRecords
<1>2. CASE ~Splittable(line)
  BY <1>2, Reported, FinishWalks DEF GateShellCommandString
<1>3. CASE Splittable(line)
  <2>1. line.toks \in Seq(Tokens) /\ line.toks # <<>>
    BY <1>3 DEF Splittable, ShellLines
  <2>2. Head(line.toks) \in Tokens /\ Tail(line.toks) \in Seq(Tokens)
    BY <2>1
  <2>3. EvaluateInnerAs(Head(line.toks), Tail(line.toks), walk.role)
    BY <1>3 DEF GateShellCommandString
  <2> QED BY <1>1, <2>2, <2>3, InnerWalks
<1> QED BY <1>2, <1>3

\* Several command lines of one level: every one is judged at once or walked.
LEMMA GateAllWalks ==
  ASSUME WalkTypeOK, walk \in LevelRecords, NEW lines \in Seq(ShellLines), lines # <<>>, GateAll(lines)
  PROVE  Walked
<1> DEFINE Verdict(line) == IF Splittable(line) THEN InnerVerdict(Head(line.toks)) ELSE IndirectReject
           verdicts == [i \in DOMAIN lines |-> Verdict(lines[i])]
           Below(i) == IF verdicts[i] # IndirectNone THEN <<>>
                       ELSE <<Inner(walk, Head(lines[i].toks), Tail(lines[i].toks), walk.role)>>
           below == [i \in DOMAIN lines |-> Below(i)]
           met == {verdicts[i] : i \in DOMAIN lines} \ {IndirectNone}
           r == IF IndirectCritical \in met THEN IndirectCritical
                ELSE IF met # {} THEN IndirectReject ELSE IndirectNone
           S == {x \in LevelRecords : walk.inner => x.inner}
<1>1. worst' = MergeIndirectResults(worst, r) /\ Take(FlattenSeq(below) \o pend)
  BY DEF GateAll
<1>2. walk.role \in {"inner", "interpreter"}
  BY DEF LevelRecords
<1>3. ASSUME NEW i \in DOMAIN lines
      PROVE  Below(i) \in Seq(S) /\ (verdicts[i] = IndirectNone => Below(i) # <<>>)
  <2>1. CASE verdicts[i] # IndirectNone
    BY <2>1
  <2>2. CASE verdicts[i] = IndirectNone
    <3>1. lines[i] \in ShellLines /\ verdicts[i] = Verdict(lines[i])
      OBVIOUS
    <3>2. Splittable(lines[i])
      <4>1. IndirectReject # IndirectNone
        BY DEF IndirectReject, IndirectNone
      <4> HIDE DEF verdicts
      <4> QED BY <2>2, <3>1, <4>1
    <3>3. lines[i].toks \in Seq(Tokens) /\ lines[i].toks # <<>>
      BY <3>1, <3>2 DEF Splittable, ShellLines
    <3>4. Head(lines[i].toks) \in Tokens /\ Tail(lines[i].toks) \in Seq(Tokens)
      BY <3>3
    <3>5. Inner(walk, Head(lines[i].toks), Tail(lines[i].toks), walk.role) \in S
      BY <1>2, <3>4, InnerTyped
    <3>6. Below(i) = <<Inner(walk, Head(lines[i].toks), Tail(lines[i].toks), walk.role)>>
      BY <2>2
    <3> HIDE DEF S, Below, verdicts
    <3> QED BY <3>5, <3>6
  <2> QED BY <2>1, <2>2
<1>4. below \in Seq(Seq(S)) /\ below # <<>>
  <2>1. DOMAIN lines = 1..Len(lines) /\ Len(lines) \in Nat /\ Len(lines) > 0
    OBVIOUS
  <2> HIDE DEF Below, S
  <2> QED BY <1>3, <2>1
<1>5. 1 \in DOMAIN lines
  OBVIOUS
<1>6. met = {} => below[1] # <<>>
  <2>1. below[1] = Below(1)
    BY <1>5
  <2>2. met = {} => verdicts[1] = IndirectNone
    <3> HIDE DEF verdicts
    <3> QED BY <1>5
  <2> HIDE DEF Below, below, verdicts, met
  <2> QED BY <1>3, <1>5, <2>1, <2>2
<1>7. met # {} => Severe(r)
  BY DEF Severe, IndirectCritical, IndirectReject
<1>8. r \in Verdicts
  <2> HIDE DEF met
  <2> QED BY Reported
<1> HIDE DEF below, met, r
<1>9. FlattenSeq(below) \in Seq(S) /\ (met = {} => FlattenSeq(below) # <<>>)
  <2> HIDE DEF S
  <2> QED BY <1>4, <1>6, FlattenIn
<1> DEFINE fl == FlattenSeq(below)
           ls == fl \o pend
<1>10. S \subseteq LevelRecords
  OBVIOUS
<1> HIDE DEF fl
<1>11. fl \in Seq(S) /\ (met = {} => fl # <<>>) /\ pend \in Seq(LevelRecords)
  BY <1>9 DEF fl, WalkTypeOK
<1>12. ls \in Seq(LevelRecords)
  <2>1. fl \in Seq(LevelRecords)
    <3> HIDE DEF S
    <3> QED BY <1>10, <1>11
  <2> QED BY <1>11, <2>1
<1>13. met = {} /\ walk.inner => \E i \in DOMAIN ls : ls[i].inner
  <2> SUFFICES ASSUME met = {}, walk.inner PROVE \E i \in DOMAIN ls : ls[i].inner
    OBVIOUS
  <2>1. fl[1] \in S /\ 1 \in DOMAIN ls /\ ls[1] = fl[1]
    <3> HIDE DEF S
    <3> QED BY <1>11
  <2> QED BY <2>1
<1>14. (\E i \in DOMAIN pend : pend[i].inner) => \E i \in DOMAIN ls : ls[i].inner
  <2> SUFFICES ASSUME NEW i \in DOMAIN pend, pend[i].inner PROVE \E j \in DOMAIN ls : ls[j].inner
    OBVIOUS
  <2>1. Len(fl) + i \in DOMAIN ls /\ ls[Len(fl) + i] = pend[i]
    <3> HIDE DEF S
    <3> QED BY <1>11
  <2> QED BY <2>1
<1>15. worst' \in Verdicts /\ AtLeast(worst', worst) /\ AtLeast(worst', r)
  BY <1>1, <1>8, MergeKeeps DEF WalkTypeOK
<1>16. Take(ls)
  BY <1>1 DEF fl
<1> HIDE DEF ls
<1>17. WalkTypeOK'
  BY <1>12, <1>15, <1>16, TakeTyped DEF WalkTypeOK
<1>18. Severe(worst) => Severe(worst')
  BY <1>15, SevereKept DEF WalkTypeOK
<1>19. met # {} => Severe(worst')
  BY <1>7, <1>8, <1>15, SevereKept
<1>20. (\E i \in DOMAIN ls : ls[i].inner) => Inside'
  BY <1>12, <1>16, TakeTyped
<1> QED BY <1>13, <1>14, <1>15, <1>17, <1>18, <1>19, <1>20 DEF Walked, Inside

\* The command at a position of the arguments.
LEMMA AtWalks ==
  ASSUME WalkTypeOK, walk \in LevelRecords, NEW i \in 1..Len(walk.args), EvaluateAt(i)
  PROVE  Walked
<1>1. walk.role \in {"inner", "interpreter"} /\ walk.args \in Seq(Tokens)
  BY DEF LevelRecords
<1>2. walk.args[i] \in Tokens /\ SubSeq(walk.args, i + 1, Len(walk.args)) \in Seq(Tokens)
  BY <1>1
<1>3. CASE HasDash(walk.args[i])
  BY <1>3, Reported, FinishWalks DEF EvaluateAt
<1>4. CASE ~HasDash(walk.args[i])
  BY <1>1, <1>2, <1>4, InnerWalks DEF EvaluateAt
<1> QED BY <1>3, <1>4

\* chroot, unshare and nsenter.
LEMMA NamespaceWalks ==
  ASSUME WalkTypeOK, walk \in LevelRecords, NEW spec, NEW m \in Nat, AnalyzeNamespaceWrapper(spec, m)
  PROVE  Walked
<1> DEFINE s == SkipLeadingOptions(walk.args, spec)
           i == s.idx + m
           n == Len(walk.args)
<1>1. IF ~s.ok \/ i > n + 1 THEN Finish(IndirectReject)
      ELSE IF i = n + 1 THEN Finish(IndirectFloor(High)) ELSE EvaluateAt(i)
  BY DEF AnalyzeNamespaceWrapper
<1>2. walk.args \in Seq(Tokens)
  BY DEF LevelRecords
<1>3. s.idx \in Nat \ {0} /\ n \in Nat
  BY <1>2, SkipTyped
<1> HIDE DEF s, n
<1>4. ~(i > n + 1) /\ i # n + 1 => i \in 1..n
  BY <1>3
<1> HIDE DEF i
<1> QED BY <1>1, <1>4, Reported, LevelNames, FinishWalks, AtWalks DEF n


\* The command of a script is its "#!" line (analyzeShebang).
LEMMA ShebangWalks ==
  ASSUME WalkTypeOK, walk \in LevelRecords, IsScript(walk.prog), AnalyzeShebang
  PROVE  Walked
<1> DEFINE line == ShebangOf(walk.prog)
           args == Tail(line) \o <<walk.prog>> \o walk.args
<1>1. line \in Seq(Tokens) /\ line # <<>>
  BY TokensAssumption DEF IsScript, ShebangOf
<1>2. walk.prog \in Tokens /\ walk.args \in Seq(Tokens)
  BY DEF LevelRecords
<1>3. EvaluateInnerAs(Head(line), args, "interpreter")
  BY DEF AnalyzeShebang
<1> HIDE DEF line
<1>4. Head(line) \in Tokens /\ args \in Seq(Tokens)
  BY <1>1, <1>2
<1> HIDE DEF args
<1> QED BY <1>3, <1>4, InnerWalks

\* env (analyzeEnv): a split string is read one level down, as a command line of env.
LEMMA EnvWalks ==
  ASSUME WalkTypeOK, walk \in LevelRecords, AnalyzeEnv
  PROVE  Walked
<1> DEFINE e == EnvScan(walk.args)
           rest == SubSeq(walk.args, e.i + 1, Len(walk.args))
<1>1. /\ walk.role \in {"inner", "interpreter"} /\ walk.args \in Seq(Tokens) /\ walk.depth \in Nat
  BY DEF LevelRecords
<1>2. e \in EnvResults /\ (e.do = "inner" => e.i <= Len(walk.args))
  BY <1>1, EnvTyped
<1>3. \/ e.do = "reject" /\ Finish(IndirectReject)
      \/ e.do = "none" /\ Finish(IndirectFloor(High))
      \/ e.do = "inner" /\ ResolveInner(walk.args[e.i], rest, e.path)
      \/ e.do = "split" /\ ~Splittable(e.line) /\ Finish(IndirectReject)
      \/ e.do = "split" /\ walk' = [walk EXCEPT !.args = e.line.toks \o rest, !.split = TRUE, !.depth = walk.depth + 1]
         /\ UNCHANGED <<pend, worst>>
  <2>1. e.do \in {"none", "reject", "split", "inner"}
    BY <1>2 DEF EnvResults
  <2>2. CASE e.do = "reject"
    BY <2>2 DEF AnalyzeEnv
  <2>3. CASE e.do = "none"
    BY <2>3 DEF AnalyzeEnv
  <2>4. CASE e.do = "inner"
    BY <2>4 DEF AnalyzeEnv
  <2>5. CASE e.do = "split"
    BY <2>5 DEF AnalyzeEnv
  <2> QED BY <2>1, <2>2, <2>3, <2>4, <2>5
<1> HIDE DEF e
<1>4. rest \in Seq(Tokens) /\ e.i \in Nat \ {0} /\ e.line \in ShellLines
  <2>1. e.i \in Nat \ {0} /\ e.line \in ShellLines
    BY <1>2 DEF EnvResults
  <2> QED BY <1>1, <2>1
<1> HIDE DEF rest
<1>5. CASE Finish(IndirectReject) \/ Finish(IndirectFloor(High))
  BY <1>5, Reported, LevelNames, FinishWalks
<1>6. CASE e.do = "inner" /\ ResolveInner(walk.args[e.i], rest, e.path)
  <2>1. walk.args[e.i] \in Tokens
    BY <1>1, <1>2, <1>4, <1>6
  <2>2. Finish(IndirectReject) \/ EvaluateInnerAs(walk.args[e.i], rest, walk.role)
    BY <1>6 DEF ResolveInner
  <2> QED BY <1>1, <1>4, <2>1, <2>2, Reported, FinishWalks, InnerWalks
<1>7. CASE walk' = [walk EXCEPT !.args = e.line.toks \o rest, !.split = TRUE, !.depth = walk.depth + 1]
           /\ UNCHANGED <<pend, worst>>
  <2>1. e.line.toks \o rest \in Seq(Tokens) /\ walk.depth + 1 \in Nat
    <3>1. e.line.toks \in Seq(Tokens)
      BY <1>4 DEF ShellLines
    <3> QED BY <1>1, <1>4, <3>1
  <2>2. walk' \in LevelRecords /\ (walk.inner => walk'.inner)
    <3> DEFINE a == e.line.toks \o rest
               d == walk.depth + 1
    <3>1. walk' = [walk EXCEPT !.args = a, !.split = TRUE, !.depth = d] /\ a \in Seq(Tokens) /\ d \in Nat
      BY <1>7, <2>1
    <3> HIDE DEF a, d
    <3> QED BY <3>1 DEF LevelRecords
  <2> QED BY <1>7, <2>2, DownWalks
<1> QED BY <1>3, <1>5, <1>6, <1>7

\* taskset (analyzeTaskset).
LEMMA TasksetWalks ==
  ASSUME WalkTypeOK, walk \in LevelRecords, AnalyzeTaskset
  PROVE  Walked
<1> DEFINE s == TasksetScan(walk.args)
<1>1. walk.args \in Seq(Tokens)
  BY DEF LevelRecords
<1>2. s.i \in Nat \ {0}
  BY <1>1, TasksetTyped
<1>3. Finish(IndirectReject) \/ Finish(IndirectFloor(Medium)) \/ (~(s.i > Len(walk.args)) /\ EvaluateAt(s.i))
  BY DEF AnalyzeTaskset
<1> HIDE DEF s
<1>4. ~(s.i > Len(walk.args)) => s.i \in 1..Len(walk.args)
  BY <1>1, <1>2
<1> QED BY <1>3, <1>4, Reported, LevelNames, FinishWalks, AtWalks

\* ip netns exec (analyzeIPExec).
LEMMA IPWalks ==
  ASSUME WalkTypeOK, walk \in LevelRecords, AnalyzeIPExec
  PROVE  Walked
<1> DEFINE s == SkipLeadingOptions(walk.args, IpOptSpec)
<1>1. walk.args \in Seq(Tokens)
  BY DEF LevelRecords
<1>2. s.idx \in Nat \ {0}
  BY <1>1, SkipTyped
<1>3. Finish(IndirectReject) \/ Finish(IndirectNone) \/ (~(s.idx + 3 > Len(walk.args)) /\ EvaluateAt(s.idx + 3))
  BY DEF AnalyzeIPExec
<1> HIDE DEF s
<1>4. ~(s.idx + 3 > Len(walk.args)) => s.idx + 3 \in 1..Len(walk.args)
  BY <1>1, <1>2
<1> QED BY <1>3, <1>4, Reported, LevelNames, FinishWalks, AtWalks

\* flock (analyzeFlock).
LEMMA FlockWalks ==
  ASSUME WalkTypeOK, walk \in LevelRecords, AnalyzeFlock
  PROVE  Walked
<1> DEFINE s == SkipLeadingOptions(walk.args, FlockOptSpec)
           n == Len(walk.args)
           i == s.idx
<1>1. walk.args \in Seq(Tokens) /\ walk.role \in {"inner", "interpreter"}
  BY DEF LevelRecords
<1>2. i \in Nat \ {0} /\ n \in Nat
  BY <1>1, SkipTyped
<1>3. \/ Finish(IndirectReject) \/ Finish(IndirectNone)
      \/ ~(i > n) /\ i # n /\ i + 1 # n /\ GateShellCommandString(AsLine(walk.args[i + 2]))
      \/ ~(i > n) /\ i # n /\ EvaluateInnerAs(walk.args[i + 1], SubSeq(walk.args, i + 2, n), walk.role)
  BY DEF AnalyzeFlock
<1> HIDE DEF s, i, n
<1>4. CASE Finish(IndirectReject) \/ Finish(IndirectNone)
  BY <1>4, Reported, FinishWalks
<1>5. CASE ~(i > n) /\ i # n /\ i + 1 # n /\ GateShellCommandString(AsLine(walk.args[i + 2]))
  <2>1. walk.args[i + 2] \in Tokens
    BY <1>1, <1>2, <1>5 DEF n
  <2> QED BY <1>5, <2>1, LineTyped, ShellWalks
<1>6. CASE ~(i > n) /\ i # n /\ EvaluateInnerAs(walk.args[i + 1], SubSeq(walk.args, i + 2, n), walk.role)
  <2>1. walk.args[i + 1] \in Tokens /\ SubSeq(walk.args, i + 2, n) \in Seq(Tokens)
    BY <1>1, <1>2, <1>6 DEF n
  <2> QED BY <1>1, <1>6, <2>1, InnerWalks
<1> QED BY <1>3, <1>4, <1>5, <1>6

\* watch (analyzeWatch).
LEMMA WatchWalks ==
  ASSUME WalkTypeOK, walk \in LevelRecords, AnalyzeWatch
  PROVE  Walked
<1> DEFINE s == SkipLeadingOptions(walk.args, WatchOptSpec)
           n == Len(walk.args)
           i == s.idx
<1>1. walk.args \in Seq(Tokens) /\ walk.role \in {"inner", "interpreter"}
  BY DEF LevelRecords
<1>2. i \in Nat \ {0} /\ n \in Nat
  BY <1>1, SkipTyped
<1>3. \/ Finish(IndirectReject)
      \/ ~(i > n) /\ EvaluateInnerAs(walk.args[i], SubSeq(walk.args, i + 1, n), walk.role)
      \/ ~(i > n) /\ GateShellCommandString(Joined(SubSeq(walk.args, i, n)))
  BY DEF AnalyzeWatch
<1> HIDE DEF s, i, n
<1>4. CASE Finish(IndirectReject)
  BY <1>4, Reported, FinishWalks
<1>5. CASE ~(i > n) /\ EvaluateInnerAs(walk.args[i], SubSeq(walk.args, i + 1, n), walk.role)
  <2>1. walk.args[i] \in Tokens /\ SubSeq(walk.args, i + 1, n) \in Seq(Tokens)
    BY <1>1, <1>2, <1>5 DEF n
  <2> QED BY <1>1, <1>5, <2>1, InnerWalks
<1>6. CASE ~(i > n) /\ GateShellCommandString(Joined(SubSeq(walk.args, i, n)))
  <2>1. SubSeq(walk.args, i, n) \in Seq(Tokens)
    BY <1>1, <1>2, <1>6 DEF n
  <2> QED BY <1>6, <2>1, JoinedTyped, ShellWalks
<1> QED BY <1>3, <1>4, <1>5, <1>6

\* timeout, nice and chrt (analyzeWrapper).
LEMMA WrapperWalks ==
  ASSUME WalkTypeOK, walk \in LevelRecords, AnalyzeWrapper
  PROVE  Walked
<1> DEFINE names == ResolveCommandNames(walk.prog).names
           name == IF "chrt" \in names THEN "chrt" ELSE IF "nice" \in names THEN "nice" ELSE "timeout"
           s == SkipLeadingOptions(walk.args, WrapperSpecs[name].spec)
           p == WrapperSpecs[name].positionals
           f == WrapperSpecs[name].noCommandFloor
           i == s.idx + p
<1>1. walk.args \in Seq(Tokens)
  BY DEF LevelRecords
<1>2. s.idx \in Nat \ {0}
  BY <1>1, SkipTyped
<1>3. Finish(IndirectReject) \/ Finish(IndirectFloor(f)) \/ (~(i > Len(walk.args)) /\ EvaluateAt(i))
  BY DEF AnalyzeWrapper
<1>4. p \in Nat /\ f \in Levels
  <2>1. name \in {"chrt", "nice", "timeout"}
    <3> HIDE DEF names
    <3> QED OBVIOUS
  <2> HIDE DEF name
  <2> QED BY <2>1, LevelNames DEF WrapperSpecs
<1> HIDE DEF s, p, f
<1>5. ~(i > Len(walk.args)) => i \in 1..Len(walk.args)
  BY <1>1, <1>2, <1>4
<1> HIDE DEF i
<1> QED BY <1>3, <1>4, <1>5, Reported, FinishWalks, AtWalks

\* Every handler's step (analyzeIndirectExecution).
LEMMA StepWalks ==
  ASSUME WalkTypeOK, walk # Idle, AnalyzeIndirectStep
  PROVE  Walked
<1>0. walk \in LevelRecords
  BY DEF WalkTypeOK
<1> DEFINE h == Handler(walk)
<1>1. h = "shebang" => IsScript(walk.prog)
  BY DEF Handler, HandlerFor
<1>2. h = "rsync" => RsyncRemoteShellLines(walk.args) # <<>>
  BY DEF Handler, HandlerFor
<1>3. h = "ssh" => SSHProxyLines(walk.args) # <<>>
  BY DEF Handler, HandlerFor
<1>4. walk.args \in Seq(Tokens)
  BY <1>0 DEF LevelRecords
<1>5. CASE RejectForm
  BY <1>0, <1>5, Reported, FinishWalks DEF RejectForm
<1>6. CASE NotIndirect
  BY <1>0, <1>6, Reported, FinishWalks DEF NotIndirect
<1>7. CASE h = "shebang" /\ AnalyzeShebang
  BY <1>0, <1>1, <1>7, ShebangWalks
<1>8. ASSUME NEW t PROVE ChildProcessExec(t) \in Verdicts
  BY Reported DEF ChildProcessExec
<1>9. CASE AnalyzeXargs
  <2>1. \E r \in Verdicts : Finish(r)
    BY <1>8, <1>9, Reported DEF AnalyzeXargs
  <2> QED BY <1>0, <2>1, FinishWalks
<1>10. CASE AnalyzeFind
  <2>1. \E r \in Verdicts : Finish(r)
    BY <1>8, <1>10, Reported DEF AnalyzeFind
  <2> QED BY <1>0, <2>1, FinishWalks
<1>11. CASE h = "rsync" /\ AnalyzeRsyncRemoteShell
  BY <1>0, <1>2, <1>4, <1>11, RsyncTyped, GateAllWalks DEF AnalyzeRsyncRemoteShell
<1>12. CASE h = "ssh" /\ AnalyzeSSHProxyCommand
  BY <1>0, <1>3, <1>4, <1>12, SSHTyped, GateAllWalks DEF AnalyzeSSHProxyCommand
<1>13. CASE AnalyzeDedicatedWrapper
  <2>1. \/ AnalyzeNamespaceWrapper(ChrootOptSpec, 1) \/ AnalyzeNamespaceWrapper(UnshareOptSpec, 0)
        \/ AnalyzeNamespaceWrapper(NsenterOptSpec, 0) \/ AnalyzeFlock \/ AnalyzeWatch
    BY <1>13 DEF AnalyzeDedicatedWrapper
  <2> QED BY <1>0, <2>1, NamespaceWalks, FlockWalks, WatchWalks
<1>14. CASE AnalyzeRunner
  BY <1>0, <1>14, Reported, LevelNames, FinishWalks DEF AnalyzeRunner
<1>15. CASE AnalyzeService
  <2>1. \E r \in Verdicts : Finish(r)
    BY <1>15, Reported, LevelNames DEF AnalyzeService
  <2> QED BY <1>0, <2>1, FinishWalks
<1> HIDE DEF h
<1>16. \/ RejectForm \/ NotIndirect \/ (h = "shebang" /\ AnalyzeShebang) \/ AnalyzeXargs \/ AnalyzeFind
       \/ (h = "rsync" /\ AnalyzeRsyncRemoteShell) \/ (h = "ssh" /\ AnalyzeSSHProxyCommand) \/ AnalyzeEnv
       \/ AnalyzeTaskset \/ AnalyzeIPExec \/ AnalyzeDedicatedWrapper \/ AnalyzeWrapper \/ AnalyzeRunner \/ AnalyzeService
  BY DEF AnalyzeIndirectStep, h
<1> QED BY <1>0, <1>5, <1>6, <1>7, <1>9, <1>10, <1>11, <1>12, <1>13, <1>14, <1>15, <1>16,
           EnvWalks, TasksetWalks, IPWalks, WrapperWalks


\* A chain of links, followed as far as the code does.
LEMMA ChainStep ==
  ASSUME NEW w
  PROVE  \A d \in 1..MaxSymlinkDepth :
           Reached(w)[d] = IF Reached(w)[d - 1] \in DOMAIN Links THEN Links[Reached(w)[d - 1]] ELSE Reached(w)[d - 1]
<1> DEFINE Follow(x) == IF x \in DOMAIN Links THEN Links[x] ELSE x
           good(f, n) == f = [d \in 0..n |-> IF d = 0 THEN w ELSE Follow(f[d - 1])]
           T == {n \in Nat : \E f : good(f, n)}
<1>1. 0 \in T
  <2> DEFINE f == [d \in 0..0 |-> w]
  <2>1. good(f, 0)
    OBVIOUS
  <2> QED BY <2>1
<1>2. ASSUME NEW n \in Nat, n \in T PROVE n + 1 \in T
  <2>1. PICK f : good(f, n)
    BY <1>2
  <2> DEFINE g == [d \in 0..(n + 1) |-> IF d <= n THEN f[d] ELSE Follow(f[n])]
  <2>2. ASSUME NEW d \in 0..(n + 1) PROVE g[d] = IF d = 0 THEN w ELSE Follow(g[d - 1])
    <3> HIDE DEF Follow
    <3>1. CASE d = 0
      BY <2>1, <3>1
    <3>2. CASE d # 0 /\ d <= n
      <4>1. d \in 0..n /\ d - 1 \in 0..n /\ d - 1 \in 0..(n + 1)
        BY <3>2
      <4>2. f[d] = Follow(f[d - 1]) /\ g[d] = f[d] /\ g[d - 1] = f[d - 1]
        BY <2>1, <3>2, <4>1
      <4> HIDE DEF g
      <4> QED BY <3>2, <4>2
    <3>3. CASE d = n + 1
      <4>1. d # 0 /\ d - 1 = n /\ n \in 0..(n + 1) /\ ~(d <= n)
        BY <3>3
      <4>2. g[n] = f[n] /\ g[d] = Follow(f[n])
        BY <4>1
      <4> HIDE DEF g
      <4> QED BY <4>1, <4>2
    <3> QED BY <3>1, <3>2, <3>3
  <2>3. good(g, n + 1)
    BY <2>2
  <2> HIDE DEF good, g
  <2> QED BY <2>3
<1>3. MaxSymlinkDepth \in Nat
  BY LinksAssumption
<1>4. \E f : good(f, MaxSymlinkDepth)
  <2> HIDE DEF good
  <2> QED BY <1>1, <1>2, <1>3, SetInduction
<1> DEFINE F == CHOOSE f : good(f, MaxSymlinkDepth)
<1>5. good(F, MaxSymlinkDepth)
  BY <1>4
<1>6. Reached(w) = F
  BY DEF Reached
<1> HIDE DEF F, Follow
<1>7. ASSUME NEW d \in 1..MaxSymlinkDepth PROVE F[d] = Follow(F[d - 1])
  BY <1>3, <1>5
<1> QED BY <1>6, <1>7 DEF Follow

\* The program that runs is one of the names, unless the chain was not followed to its end.
LEMMA ProgramNamed ==
  ASSUME NEW t, ~ResolveCommandNames(t).err
  PROVE  Program(t) \in ResolveCommandNames(t).names
<1>1. CASE t.k # "word" \/ t.dir = ""
  BY <1>1 DEF ResolveCommandNames, WalkSymlinkChain, Program
<1>2. CASE ~(t.k # "word" \/ t.dir = "")
  <2> DEFINE at == Reached(t.w)
             m == MaxSymlinkDepth
             names == {at[d] : d \in 0..(m - 1)}
             err == at[m - 1] \in DOMAIN Links \/ (at[m - 1] # t.w /\ at[m - 1] \in Absent)
  <2>0. m \in Nat \ {0}
    BY LinksAssumption
  <2>1. ResolveCommandNames(t) = [names |-> names, err |-> err]
    BY <1>2 DEF ResolveCommandNames, WalkSymlinkChain
  <2>2. at[m - 1] \notin DOMAIN Links
    <3>1. ResolveCommandNames(t).err = err
      BY <2>1
    <3> HIDE DEF at, m
    <3> QED BY <3>1
  <2>3. at[m] = at[m - 1]
    BY <2>0, <2>2, ChainStep
  <2>4. at[m - 1] \in names
    BY <2>0
  <2>5. Program(t) = at[m]
    BY <1>2 DEF Program
  <2> HIDE DEF at, names, err
  <2> QED BY <2>1, <2>3, <2>4, <2>5
<1> QED BY <1>1, <1>2

\* A command one of whose names is sudo is a privilege command.
LEMMA SudoNamed ==
  ASSUME NEW names, "sudo" \in names
  PROVE  IsPrivilegeCommand(names)
<1> DEFINE ps == {CommandRiskProfiles[n] : n \in names \cap DOMAIN CommandRiskProfiles}
<1>1. CommandRiskProfiles["sudo"] \in ps /\ CommandRiskProfiles["sudo"].priv = Critical
  BY DEF CommandRiskProfiles, Profile
<1>2. ResolveProfile(names).p.priv = Max({p.priv : p \in ps})
  BY <1>1 DEF ResolveProfile, MergeProfilesMax
<1>3. \A p \in ps : p.priv \in Levels
  BY DEF CommandRiskProfiles, Profile, Levels, Unknown, Critical
<1> DEFINE S == {p.priv : p \in ps}
<1> HIDE DEF ps
<1>4. S \subseteq Levels /\ Critical \in S
  BY <1>1, <1>3
<1> HIDE DEF S
<1>5. Max(S) \in Levels /\ Max(S) >= Critical
  BY <1>4, MaxOfLevels
<1> QED BY <1>2, <1>5 DEF IsPrivilegeCommand, IsPrivilege, S, Levels, Unknown, Critical, High

----------------------------------------------------------------------------
(* The zones.                                                              *)

\* The level of a zone (zoneLevel).
LEMMA ZoneLevels == ASSUME NEW oz PROVE ZoneLevel(oz) \in {Low, Medium, High}
  BY DEF ZoneLevel

\* The floor of an operand (operandFloor).
LEMMA FloorLevels == ASSUME NEW oz, NEW kind, NEW ext PROVE OperandFloor(oz, kind, ext) \in Levels
<1> DEFINE S == {Low,
       IF ext.grants /\ oz.role = "write" THEN High ELSE Low,
       IF kind = "link" /\ oz.zone = "critical" THEN High ELSE Low,
       IF ext.recursive /\ oz.role = "write" /\ oz.zone # "safe" THEN High ELSE Low,
       IF kind = "copyMove" /\ oz.role = "read" /\ ext.preserve /\ SourceIsPrivileged(oz) THEN High ELSE Low,
       IF kind \in {"copyMove", "dataTransfer"} /\ SensitiveRead(oz) THEN Medium ELSE Low}
<1>1. OperandFloor(oz, kind, ext) = Max(S)
  BY DEF OperandFloor
<1>2. S \subseteq Levels /\ S # {}
  BY LevelNames
<1> HIDE DEF S
<1> QED BY <1>1, <1>2, MaxOfLevels

\* The level of an operand of a device command (deviceOperandLevel).
LEMMA DeviceLevels == ASSUME NEW oz PROVE DeviceOperandLevel(oz) \in Levels
<1>1. ZoneLevel(oz) \in Levels
  BY ZoneLevels, LevelNames
<1>2. MaxLevel(ZoneLevel(oz), IF SensitiveRead(oz) THEN Medium ELSE Low) \in Levels
  BY <1>1, LevelNames, MaxOfTwo
<1> QED BY <1>1, <1>2, LevelNames DEF DeviceOperandLevel

\* What an operand makes of the level of a file operation.
OperandLevel(oz, kind, ext) ==
  IF kind = "deviceIO" THEN DeviceOperandLevel(oz) ELSE MaxLevel(ZoneLevel(oz), OperandFloor(oz, kind, ext))

\* What an operand makes of the level is a level.
LEMMA OperandLevels ==
  ASSUME NEW oz, NEW kind, NEW ext
  PROVE  OperandLevel(oz, kind, ext) \in Levels
<1>1. ZoneLevel(oz) \in Levels
  BY ZoneLevels, LevelNames
<1> QED BY <1>1, FloorLevels, DeviceLevels, MaxOfTwo DEF OperandLevel

\* An operand of a place that is trusted or of a harmless device is all a low level is for; one that
\* is written in a critical place, or in one that is not known, is high.
LEMMA OperandJudged ==
  ASSUME NEW oz, NEW kind, NEW ext, NEW l \in Levels, l >= OperandLevel(oz, kind, ext)
  PROVE  \/ kind = "deviceIO" /\ oz.zone # "unresolved" /\ NodeIs(oz, {"null"})
         \/ /\ oz.zone \in {"critical", "unresolved"} /\ oz.role # "read" => l >= High
            /\ l <= Low => oz.zone = "safe" /\ oz.trusted
<1> SUFFICES ASSUME ~(kind = "deviceIO" /\ oz.zone # "unresolved" /\ NodeIs(oz, {"null"}))
             PROVE  /\ oz.zone \in {"critical", "unresolved"} /\ oz.role # "read" => l >= High
                    /\ l <= Low => oz.zone = "safe" /\ oz.trusted
  OBVIOUS
<1>1. ZoneLevel(oz) \in Levels /\ OperandFloor(oz, kind, ext) \in Levels /\ OperandLevel(oz, kind, ext) \in Levels
  BY ZoneLevels, LevelNames, FloorLevels, OperandLevels
<1>2. OperandLevel(oz, kind, ext) = High \/ OperandLevel(oz, kind, ext) >= ZoneLevel(oz)
  <2>1. CASE kind # "deviceIO"
    BY <2>1, <1>1, MaxOfTwo DEF OperandLevel
  <2>2. CASE kind = "deviceIO"
    <3> DEFINE m == MaxLevel(ZoneLevel(oz), IF SensitiveRead(oz) THEN Medium ELSE Low)
    <3>1. m >= ZoneLevel(oz)
      BY <1>1, LevelNames, MaxOfTwo
    <3>2. DeviceOperandLevel(oz) \in {ZoneLevel(oz), High, m}
      BY <2>2 DEF DeviceOperandLevel
    <3>3. ZoneLevel(oz) >= ZoneLevel(oz)
      BY <1>1 DEF Levels, Unknown, Critical
    <3> HIDE DEF m
    <3> QED BY <2>2, <3>1, <3>2, <3>3 DEF OperandLevel
  <2> QED BY <2>1, <2>2
<1>3. oz.zone \in {"critical", "unresolved"} /\ oz.role # "read" => ZoneLevel(oz) = High
  BY DEF ZoneLevel
<1>4. ~(oz.zone = "safe" /\ oz.trusted) => ZoneLevel(oz) \in {Medium, High}
  BY DEF ZoneLevel
<1> QED BY <1>1, <1>2, <1>3, <1>4 DEF Levels, Unknown, Low, Medium, High, Critical

\* The level of a file operation is a level, and as high as any of its operands asks for.
LEMMA JudgeTyped ==
  ASSUME NEW ext, NEW kind, NEW ident
  PROVE  LET z == JudgeExtraction(ext, kind, ident)
         IN /\ z.level \in Levels
            /\ ext.applies => /\ z.applies
                              /\ Len(ext.ops) > Zoning.maxOperands \/ ~ext.recognized => z.level >= High
                              /\ ~(Len(ext.ops) > Zoning.maxOperands) =>
                                   \A i \in DOMAIN ext.ops : z.level >= OperandLevel(ClassifyOperand(ext.ops[i], ident), kind, ext)
<1> DEFINE z == JudgeExtraction(ext, kind, ident)
           zones == [i \in DOMAIN ext.ops |-> ClassifyOperand(ext.ops[i], ident)]
           j == JudgeOperands(ext, kind, zones)
           many == Len(ext.ops) > Zoning.maxOperands
           recognized == ext.recognized /\ \A i \in DOMAIN zones : zones[i].zone # "unresolved"
           S == {Low, IF ext.umountAll \/ ~recognized THEN High ELSE Low, IF ext.egress THEN Medium ELSE Low}
                \cup {OperandLevel(zones[i], kind, ext) : i \in DOMAIN zones}
<1>1. ~ext.applies => z.level = Unknown
  BY DEF JudgeExtraction
<1>2. ext.applies /\ many => z.level = High /\ z.applies
  BY DEF JudgeExtraction
<1>3. ext.applies /\ ~many => z = j
  BY DEF JudgeExtraction
<1>4. j.level = Max(S) /\ j.applies
  BY DEF JudgeOperands, OperandLevel
<1>5. S \subseteq Levels /\ S # {}
  <2> HIDE DEF zones, recognized
  <2> QED BY LevelNames, OperandLevels
<1>6. ~ext.recognized => High \in S
  <2> HIDE DEF zones
  <2> QED OBVIOUS
<1>7. \A i \in DOMAIN ext.ops : OperandLevel(ClassifyOperand(ext.ops[i], ident), kind, ext) \in S
  <2>1. \A i \in DOMAIN ext.ops : i \in DOMAIN zones /\ zones[i] = ClassifyOperand(ext.ops[i], ident)
    OBVIOUS
  <2> HIDE DEF zones
  <2> QED BY <2>1
<1> HIDE DEF S, j, many, z
<1>8. j.level \in Levels /\ \A y \in S : j.level >= y
  BY <1>4, <1>5, MaxOfLevels
<1>9. High >= High
  BY DEF High
<1>10. z.level \in Levels
  BY <1>1, <1>2, <1>3, <1>8, LevelNames
<1>11. ext.applies => z.applies
  BY <1>2, <1>3, <1>4
<1>12. ext.applies /\ (many \/ ~ext.recognized) => z.level >= High
  BY <1>2, <1>3, <1>6, <1>8, <1>9
<1>13. ext.applies /\ ~many =>
         \A i \in DOMAIN ext.ops : z.level >= OperandLevel(ClassifyOperand(ext.ops[i], ident), kind, ext)
  BY <1>3, <1>7, <1>8
<1> QED BY <1>10, <1>11, <1>12, <1>13 DEF many, z

\* Every judgement of where a command writes has a level.
LEMMA ZoneTyped ==
  ASSUME NEW c, NEW zone \in ZoneOf(c)
  PROVE  zone.level \in Levels
<1>1. CASE LookupSpec(c.argv.prog, ResolveCommandNames(c.argv.prog).names) = {}
  BY <1>1, LevelNames DEF ZoneOf
<1>2. CASE LookupSpec(c.argv.prog, ResolveCommandNames(c.argv.prog).names) # {}
  <2>1. \E name : zone = ClassifyDestinationZone(name, c.argv.args, ZoningInput(c))
    BY <1>2 DEF ZoneOf
  <2> QED BY <2>1, JudgeTyped DEF ClassifyDestinationZone
<1> QED BY <1>1, <1>2


\* The level an evaluation comes to, and what goes into it (evaluateDimensions).
Dimension(c, zone, cu, class) ==
  LET t == c.argv.prog
      args == c.argv.args
      names == ResolveCommandNames(t).names
      understood == zone.applies /\ zone.recognized
      profile == ResolveProfile(names)
  IN {Low,
        ApplyCoreutilsRisk(cu, t, understood),
        IF ~understood /\ IsDestructiveFileOperation(names, args) THEN High ELSE Unknown,
        SystemModificationRisk(names),
        IF profile.found THEN ProfileFactorRisk(profile.p, args, understood) ELSE Unknown,
        IF ~understood THEN CheckDangerousArgPatterns(names, args) ELSE Unknown,
        IF IsArbitraryCodeExecutionRunner(names) THEN High ELSE Unknown,
        IF ~profile.found /\ HasNetworkArguments(args) THEN Medium ELSE Unknown,
        IF cu.handled THEN Unknown ELSE ApplyClassResult(class),
        IF zone.applies THEN zone.level ELSE Unknown}

\* The dimensions are levels, and what they come to is a level no lower than any of them.
LEMMA DimensionTyped ==
  ASSUME NEW c, NEW zone \in ZoneOf(c), NEW class
  PROVE  LET cu == CoreutilsCommandRisk(c.argv.prog, c.argv.args)
         IN /\ DimensionLevel(c, zone, cu, class) \in Levels
            /\ Dimension(c, zone, cu, class) \subseteq Levels
            /\ \A y \in Dimension(c, zone, cu, class) : DimensionLevel(c, zone, cu, class) >= y
<1> DEFINE t == c.argv.prog
           args == c.argv.args
           names == ResolveCommandNames(t).names
           understood == zone.applies /\ zone.recognized
           profile == ResolveProfile(names)
           cu == CoreutilsCommandRisk(t, args)
           S == Dimension(c, zone, cu, class)
<1>1. DimensionLevel(c, zone, cu, class) = Max(S)
  BY DEF DimensionLevel, Dimension
<1>2. /\ cu.level \in Levels /\ zone.level \in Levels /\ SystemModificationRisk(names) \in Levels
      /\ CheckDangerousArgPatterns(names, args) \in Levels
      /\ ProfileFactorRisk(profile.p, args, understood) \in Levels
  BY CoreutilsLevel, ZoneTyped, SystemLevel, PatternLevel, FactorLevel
<1>3. ApplyClassResult(class) \in Levels
  BY LevelNames DEF ApplyClassResult
<1> HIDE DEF cu
<1>4. ApplyCoreutilsRisk(cu, t, understood) \in Levels
  BY <1>2, LevelNames DEF ApplyCoreutilsRisk
<1>5. S \subseteq Levels /\ S # {}
  <2>1. S = {Low,
        ApplyCoreutilsRisk(cu, t, understood),
        IF ~understood /\ IsDestructiveFileOperation(names, args) THEN High ELSE Unknown,
        SystemModificationRisk(names),
        IF profile.found THEN ProfileFactorRisk(profile.p, args, understood) ELSE Unknown,
        IF ~understood THEN CheckDangerousArgPatterns(names, args) ELSE Unknown,
        IF IsArbitraryCodeExecutionRunner(names) THEN High ELSE Unknown,
        IF ~profile.found /\ HasNetworkArguments(args) THEN Medium ELSE Unknown,
        IF cu.handled THEN Unknown ELSE ApplyClassResult(class),
        IF zone.applies THEN zone.level ELSE Unknown}
    BY DEF Dimension
  <2> HIDE DEF S, understood, profile, names, args, t
  <2> QED BY <1>2, <1>3, <1>4, <2>1, LevelNames
<1> HIDE DEF S
<1>6. Max(S) \in Levels /\ \A y \in S : Max(S) >= y
  BY <1>5, MaxOfLevels
<1> QED BY <1>1, <1>5, <1>6 DEF cu, S

\* A command that is evaluated to at most the level l.
Due(c, l) ==
  \E zone \in ZoneOf(c) : LET a == EvaluateDimensions(c, zone)
                          IN a.kind = "plan" /\ ~a.blocking /\ l >= a.level

\* An assessment that does not block is that of the dimensions, and no error was left out of it.
LEMMA AssessedBy ==
  ASSUME NEW c, NEW zone, EvaluateDimensions(c, zone).kind = "plan", ~EvaluateDimensions(c, zone).blocking
  PROVE  LET cu == CoreutilsCommandRisk(c.argv.prog, c.argv.args)
             class == Classify(c.load, c.record)
         IN /\ ~cu.err /\ (cu.handled \/ class \notin {"error", "uncertain"})
            /\ EvaluateDimensions(c, zone).level = DimensionLevel(c, zone, cu, class)
<1> DEFINE cu == CoreutilsCommandRisk(c.argv.prog, c.argv.args)
           class == Classify(c.load, c.record)
           e == EvaluateDimensions(c, zone)
<1>1. e = IF cu.err THEN BlockingAssessment("coreutils_classification")
          ELSE IF ~cu.handled /\ class = "error" THEN [NoPlan EXCEPT !.kind = "error"]
          ELSE IF ~cu.handled /\ class = "uncertain" THEN BlockingAssessment("uncertain_analysis")
          ELSE Assessed(DimensionLevel(c, zone, cu, class))
  BY DEF EvaluateDimensions
<1>2. \A reason : BlockingAssessment(reason).blocking
  BY DEF BlockingAssessment, NoPlan
<1>3. [NoPlan EXCEPT !.kind = "error"].kind = "error"
  BY DEF NoPlan
<1>4. \A l : Assessed(l).level = l
  BY DEF Assessed, NoPlan
<1> HIDE DEF cu, class
<1>5. ~cu.err
  BY <1>1, <1>2
<1>6. cu.handled \/ class # "error"
  BY <1>1, <1>3, <1>5
<1>7. cu.handled \/ class # "uncertain"
  BY <1>1, <1>2, <1>5, <1>6
<1>8. e.level = DimensionLevel(c, zone, cu, class)
  <2>1. e = Assessed(DimensionLevel(c, zone, cu, class))
    BY <1>1, <1>5, <1>6, <1>7
  <2> HIDE DEF e
  <2> QED BY <1>4, <2>1
<1> QED BY <1>5, <1>6, <1>7, <1>8 DEF cu, class

\* The level l is as high as every dimension asks for.
Fits(c, l) ==
  LET t == c.argv.prog
      args == c.argv.args
      names == ResolveCommandNames(t).names
      cu == CoreutilsCommandRisk(t, args)
      class == Classify(c.load, c.record)
      profile == ResolveProfile(names)
  IN /\ ~cu.err
     /\ cu.handled \/ (class \notin {"error", "uncertain"} /\ l >= ApplyClassResult(class))
     /\ l >= SystemModificationRisk(names)
     /\ IsArbitraryCodeExecutionRunner(names) => l >= High
     /\ ~profile.found /\ HasNetworkArguments(args) => l >= Medium
     /\ \E zone \in ZoneOf(c) :
          LET understood == zone.applies /\ zone.recognized
          IN /\ zone.applies => l >= zone.level
             /\ profile.found => l >= ProfileFactorRisk(profile.p, args, understood)
             /\ ~understood => /\ IsDestructiveFileOperation(names, args) => l >= High
                               /\ l >= CheckDangerousArgPatterns(names, args)
                               /\ cu.handled => l >= cu.level

\* A level that covers an evaluation covers each of its dimensions.
LEMMA DueFits ==
  ASSUME NEW c, NEW l \in Levels, Due(c, l)
  PROVE  Fits(c, l)
<1> DEFINE t == c.argv.prog
           args == c.argv.args
           names == ResolveCommandNames(t).names
           cu == CoreutilsCommandRisk(t, args)
           class == Classify(c.load, c.record)
           profile == ResolveProfile(names)
<1>1. PICK zone \in ZoneOf(c) :
        /\ EvaluateDimensions(c, zone).kind = "plan" /\ ~EvaluateDimensions(c, zone).blocking
        /\ l >= EvaluateDimensions(c, zone).level
  BY DEF Due
<1> DEFINE understood == zone.applies /\ zone.recognized
           S == Dimension(c, zone, cu, class)
<1>2. ~cu.err /\ (cu.handled \/ class \notin {"error", "uncertain"})
      /\ l >= DimensionLevel(c, zone, cu, class)
  BY <1>1, AssessedBy
<1>3. DimensionLevel(c, zone, cu, class) \in Levels /\ S \subseteq Levels
      /\ \A y \in S : DimensionLevel(c, zone, cu, class) >= y
  BY DimensionTyped
<1>4. \A y \in S : l >= y
  <2> HIDE DEF S, cu, class
  <2> QED BY <1>2, <1>3 DEF Levels, Unknown, Critical
<1>5. /\ ApplyCoreutilsRisk(cu, t, understood) \in S
      /\ ~understood /\ IsDestructiveFileOperation(names, args) => High \in S
      /\ SystemModificationRisk(names) \in S
      /\ profile.found => ProfileFactorRisk(profile.p, args, understood) \in S
      /\ ~understood => CheckDangerousArgPatterns(names, args) \in S
      /\ IsArbitraryCodeExecutionRunner(names) => High \in S
      /\ ~profile.found /\ HasNetworkArguments(args) => Medium \in S
      /\ ~cu.handled => ApplyClassResult(class) \in S
      /\ zone.applies => zone.level \in S
  <2> HIDE DEF cu, class
  <2> QED BY DEF Dimension
<1> HIDE DEF cu, class, S
<1>6. cu.handled /\ ~understood => ApplyCoreutilsRisk(cu, t, understood) = cu.level
  BY DEF ApplyCoreutilsRisk
<1> HIDE DEF understood
<1>7. /\ zone.applies => l >= zone.level
      /\ profile.found => l >= ProfileFactorRisk(profile.p, args, understood)
      /\ ~understood => /\ IsDestructiveFileOperation(names, args) => l >= High
                        /\ l >= CheckDangerousArgPatterns(names, args)
                        /\ cu.handled => l >= cu.level
  BY <1>4, <1>5, <1>6
<1>8. /\ ~cu.handled => l >= ApplyClassResult(class)
      /\ l >= SystemModificationRisk(names)
      /\ IsArbitraryCodeExecutionRunner(names) => l >= High
      /\ ~profile.found /\ HasNetworkArguments(args) => l >= Medium
  BY <1>4, <1>5
<1> QED BY <1>2, <1>7, <1>8 DEF Fits, cu, class, understood

\* The level l is as high as the places ask for that the command writes and reads: no file of it is
\* written in a critical or unknown place below High, and at Low every one is in a trusted safe place.
Placed(c, l) ==
  LET specs == LookupSpec(c.argv.prog, ResolveCommandNames(c.argv.prog).names)
      Judged(kind, oz) ==
        \/ kind = "deviceIO" /\ oz.zone # "unresolved" /\ NodeIs(oz, {"null"})
        \/ /\ oz.zone \in {"critical", "unresolved"} /\ oz.role # "read" => l >= High
           /\ l <= Low => oz.zone = "safe" /\ oz.trusted
  IN specs # {} =>
       \E name \in specs :
         LET ext == ToExtraction(name, c.argv.args)
         IN ext.applies =>
              /\ ~ext.recognized \/ Len(ext.ops) > Zoning.maxOperands => l >= High
              /\ \A i \in DOMAIN ext.ops : Judged(CommandFlagSpecs[name].kind, ClassifyOperand(ext.ops[i], c.ident))

\* A level that covers an evaluation covers every place the command was seen to write.
LEMMA DuePlaced ==
  ASSUME NEW c, NEW l \in Levels, Due(c, l)
  PROVE  Placed(c, l)
<1> DEFINE specs == LookupSpec(c.argv.prog, ResolveCommandNames(c.argv.prog).names)
           Judged(kind, oz) ==
             \/ kind = "deviceIO" /\ oz.zone # "unresolved" /\ NodeIs(oz, {"null"})
             \/ /\ oz.zone \in {"critical", "unresolved"} /\ oz.role # "read" => l >= High
                /\ l <= Low => oz.zone = "safe" /\ oz.trusted
<1> SUFFICES ASSUME specs # {}
             PROVE  \E name \in specs :
                      LET ext == ToExtraction(name, c.argv.args)
                      IN ext.applies =>
                           /\ ~ext.recognized \/ Len(ext.ops) > Zoning.maxOperands => l >= High
                           /\ \A i \in DOMAIN ext.ops :
                                Judged(CommandFlagSpecs[name].kind, ClassifyOperand(ext.ops[i], c.ident))
  BY DEF Placed
<1>1. PICK zone \in ZoneOf(c) :
        /\ EvaluateDimensions(c, zone).kind = "plan" /\ ~EvaluateDimensions(c, zone).blocking
        /\ l >= EvaluateDimensions(c, zone).level
  BY DEF Due
<1>2. zone.applies => l >= zone.level
  <2> DEFINE cu == CoreutilsCommandRisk(c.argv.prog, c.argv.args)
             class == Classify(c.load, c.record)
             S == Dimension(c, zone, cu, class)
  <2>1. l >= DimensionLevel(c, zone, cu, class)
    BY <1>1, AssessedBy
  <2>2. DimensionLevel(c, zone, cu, class) \in Levels /\ S \subseteq Levels
        /\ \A y \in S : DimensionLevel(c, zone, cu, class) >= y
    BY DimensionTyped
  <2> HIDE DEF cu, class
  <2>3. zone.applies => zone.level \in S
    BY DEF Dimension
  <2> SUFFICES ASSUME zone.applies PROVE l >= zone.level
    OBVIOUS
  <2> DEFINE d == DimensionLevel(c, zone, cu, class)
  <2> HIDE DEF S
  <2>4. d \in Levels /\ zone.level \in Levels /\ l >= d /\ d >= zone.level
    BY <2>1, <2>2, <2>3
  <2> HIDE DEF d
  <2> QED BY <2>4 DEF Levels, Unknown, Critical
<1>3. PICK name \in specs : zone = ClassifyDestinationZone(name, c.argv.args, ZoningInput(c))
  BY DEF ZoneOf
<1> DEFINE ext == ToExtraction(name, c.argv.args)
           kind == CommandFlagSpecs[name].kind
           many == Len(ext.ops) > Zoning.maxOperands
<1>4. zone = JudgeExtraction(ext, kind, c.ident)
  BY <1>3 DEF ClassifyDestinationZone, ZoningInput
<1> HIDE DEF ext, kind, specs
<1>5. /\ zone.level \in Levels
      /\ ext.applies => /\ zone.applies
                        /\ many \/ ~ext.recognized => zone.level >= High
                        /\ ~many => \A i \in DOMAIN ext.ops :
                             zone.level >= OperandLevel(ClassifyOperand(ext.ops[i], c.ident), kind, ext)
  BY <1>4, JudgeTyped
<1> HIDE DEF many
<1>6. ASSUME ext.applies PROVE many \/ ~ext.recognized => l >= High
  BY <1>2, <1>5, <1>6 DEF Levels, Unknown, Critical, High
<1>7. ASSUME ext.applies, NEW i \in DOMAIN ext.ops PROVE Judged(kind, ClassifyOperand(ext.ops[i], c.ident))
  <2> DEFINE oz == ClassifyOperand(ext.ops[i], c.ident)
  <2>1. CASE many
    <3>1. l >= High /\ ~(l <= Low)
      BY <1>6, <1>7, <2>1 DEF Levels, Unknown, Critical, High, Low
    <3> QED BY <3>1
  <2>2. CASE ~many
    <3>1. l >= OperandLevel(oz, kind, ext)
      <4>1. OperandLevel(oz, kind, ext) \in Levels /\ zone.level >= OperandLevel(oz, kind, ext) /\ l >= zone.level
        BY <1>2, <1>5, <1>7, <2>2, OperandLevels
      <4> HIDE DEF oz
      <4> QED BY <1>5, <4>1 DEF Levels, Unknown, Critical
    <3> HIDE DEF oz
    <3>2. Judged(kind, oz)
      BY <3>1, OperandJudged
    <3> QED BY <3>2 DEF oz
  <2> QED BY <2>1, <2>2
<1> QED BY <1>6, <1>7 DEF ext, kind, many, specs

----------------------------------------------------------------------------
(* The inductive invariant.                                                *)

\* What has become of the command at each stage, and of the flags of the preview.
FlowInv ==
  /\ mode \in {"run", "dry"}
  /\ WalkTypeOK
  /\ stage # "ended" => exit = -1
  /\ stage \notin {"idle", "ended"} => WellFormed(cmd)
  /\ stage = "idle" => cmd = NoCommand

\* The command is given by a path whose links were followed to their end.
Named(c) == c.argv.prog.k = "word" /\ c.argv.prog.dir # "" /\ ~ResolveCommandNames(c.argv.prog).err

\* What is known of a command that has got as far as its stage.
Cleared ==
  /\ cmd.verified = "ok" /\ cmd.analysis /\ Named(cmd)
  /\ walk = Idle /\ worst.kind \notin {"critical", "reject"}
  /\ ~IsPrivilegeCommand(ResolveCommandNames(cmd.argv.prog).names)

\* The evaluation of the command, the floor of its wrappers included, comes to at most l.
Covers(l) == l \in Levels /\ Due(cmd, l) /\ (worst.kind = "floor" => l >= worst.level)

GateInv ==
  /\ stage = "indirect" => cmd.verified = "ok" /\ cmd.analysis /\ Named(cmd)
  /\ stage = "dimensions" => Cleared
  /\ stage = "gate" => plan.blocking \/ plan.level = Critical \/ (Cleared /\ cmd.opens /\ Covers(plan.level))
  /\ stage = "admitted" => Cleared /\ cmd.opens /\ Covers(cmd.max)

Seen(o) == \E i \in DOMAIN outcomes : outcomes[i] = o

\* The flags say which outcomes there were.
PreviewInv ==
  /\ outcomes \in Seq({"allow", "unavailable", "deny"})
  /\ preview = [deny |-> Seen("deny"), unavailable |-> Seen("unavailable")]

IInv == FlowInv /\ GateInv /\ PreviewInv /\ ExitTellsPreview

----------------------------------------------------------------------------
\* Nothing has been submitted.
LEMMA InitInv == Init => IInv
<1> SUFFICES ASSUME Init PROVE IInv
  OBVIOUS
<1>1. FlowInv /\ GateInv /\ ExitTellsPreview
  BY Reported DEF Init, FlowInv, WalkTypeOK, GateInv, ExitTellsPreview
<1>2. PreviewInv
  <2>1. DOMAIN outcomes = {}
    BY DEF Init
  <2>2. Seen("deny") = FALSE /\ Seen("unavailable") = FALSE
    BY <2>1 DEF Seen
  <2>3. preview = [deny |-> FALSE, unavailable |-> FALSE]
    BY DEF Init
  <2>4. outcomes \in Seq({"allow", "unavailable", "deny"})
    BY DEF Init
  <2> QED
    BY <2>2, <2>3, <2>4 DEF PreviewInv
<1> QED
  BY <1>1, <1>2 DEF IInv

\* A step that leaves the history of the dry run alone.
LEMMA PreviewUnchanged ==
  ASSUME PreviewInv, ExitTellsPreview, UNCHANGED <<preview, outcomes>>
  PROVE  PreviewInv'
  BY DEF PreviewInv, Seen

\* Without an exit code there is nothing to tell.
LEMMA NotEnded ==
  ASSUME exit' = -1
  PROVE  ExitTellsPreview'
  BY DEF ExitTellsPreview

\* A command is submitted with all its fields.
LEMMA SubmitKeeps ==
  ASSUME IInv, stage = "idle", NEW c, WellFormed(c), Submit(c)
  PROVE  IInv'
<1>1. exit' = -1 /\ stage' \in {"hard error", "identity"}
  BY DEF IInv, FlowInv, Submit
<1>2. FlowInv' /\ GateInv'
  BY <1>1 DEF IInv, FlowInv, WalkTypeOK, GateInv, Submit, indirectVars
<1>3. PreviewInv'
  BY PreviewUnchanged DEF IInv, Submit
<1> QED
  BY <1>1, <1>2, <1>3, NotEnded DEF IInv

\* The identity gate (EvaluateRisk, identityGate).
LEMMA EvaluateKeeps ==
  ASSUME IInv, EvaluateRisk
  PROVE  IInv'
<1>1. exit' = -1 /\ stage' \in {"gate", "indirect"} /\ UNCHANGED <<mode, cmd, preview, outcomes, exit>>
  BY DEF IInv, FlowInv, EvaluateRisk
<1>2. CASE stage' = "gate"
  <2>1. plan'.blocking /\ UNCHANGED <<walk, pend, worst>>
    BY <1>2 DEF EvaluateRisk, BlockingAssessment, NoPlan, indirectVars
  <2>2. WalkTypeOK'
    BY <2>1 DEF IInv, FlowInv, WalkTypeOK
  <2> QED
    BY <1>1, <1>2, <2>1, <2>2, PreviewUnchanged, NotEnded
       DEF IInv, FlowInv, GateInv, EvaluateRisk
<1>3. CASE stage' = "indirect"
  <2>1. cmd.verified = "ok" /\ cmd.analysis /\ Named(cmd)
        /\ AnalyzeIndirectExecution(cmd.argv.prog, cmd.argv.args)
    BY <1>3 DEF EvaluateRisk, IdentityGate, Named
  <2>2. cmd.argv.prog \in Tokens /\ cmd.argv.args \in Seq(Tokens)
    BY DEF IInv, FlowInv, EvaluateRisk, WellFormed
  <2>3. Level(cmd.argv.prog, cmd.argv.args, 0, "inner") \in LevelRecords
    BY <2>2, LevelNames DEF Level, LevelRecords
  <2>4. WalkTypeOK'
    <3>1. walk' \in LevelRecords /\ pend' = <<>> /\ worst' = IndirectNone
      BY <2>1, <2>3 DEF AnalyzeIndirectExecution
    <3> QED BY <3>1, Reported DEF WalkTypeOK
  <2> QED
    BY <1>1, <1>3, <2>1, <2>4, PreviewUnchanged, NotEnded
       DEF IInv, FlowInv, GateInv, EvaluateRisk
<1> QED
  BY <1>1, <1>2, <1>3

\* A step of the walk.
LEMMA IndirectKeeps ==
  ASSUME IInv, IndirectStep
  PROVE  IInv'
<1>1. WalkTypeOK'
  BY StepWalks DEF IInv, FlowInv, IndirectStep, Walked
<1>2. exit' = -1 /\ stage = "indirect" /\ UNCHANGED <<mode, cmd, stage, preview, outcomes, exit>>
  BY DEF IInv, FlowInv, IndirectStep
<1> QED
  BY <1>1, <1>2, PreviewUnchanged, NotEnded DEF IInv, FlowInv, GateInv

\* The end of the walk: what is denied leaves the evaluation with a plan that says so.
LEMMA DoneKeeps ==
  ASSUME IInv, IndirectDone
  PROVE  IInv'
<1>1. exit' = -1 /\ stage' \in {"gate", "dimensions"}
      /\ UNCHANGED <<mode, cmd, preview, outcomes, exit, walk, pend, worst>>
  BY DEF IInv, FlowInv, IndirectDone, indirectVars
<1>2. NoPlan.kind = "none" /\ CriticalPlan.level = Critical
      /\ \A reason : BlockingAssessment(reason).blocking /\ BlockingAssessment(reason).kind = "plan"
      /\ CriticalPlan.kind = "plan"
  BY DEF NoPlan, CriticalPlan, BlockingAssessment
<1>3. WalkTypeOK'
  BY <1>1 DEF IInv, FlowInv, WalkTypeOK
<1>4. CASE stage' = "gate"
  <2>1. plan'.blocking \/ plan'.level = Critical
    BY <1>2, <1>4 DEF IndirectDone
  <2> QED
    BY <1>1, <1>3, <1>4, <2>1, PreviewUnchanged, NotEnded DEF IInv, FlowInv, GateInv, IndirectDone
<1>5. CASE stage' = "dimensions"
  <2>1. worst.kind \notin {"critical", "reject"} /\ ~IsPrivilegeCommand(ResolveCommandNames(cmd.argv.prog).names)
    BY <1>2, <1>5 DEF IndirectDone
  <2>2. Cleared'
    BY <1>1, <2>1 DEF Cleared, IInv, GateInv, IndirectDone
  <2> QED
    BY <1>1, <1>3, <1>5, <2>2, PreviewUnchanged, NotEnded DEF IInv, FlowInv, GateInv, IndirectDone
<1> QED
  BY <1>1, <1>4, <1>5

\* An assessment is an error, blocks, or has a level (evaluateDimensions).
LEMMA Assessments ==
  ASSUME NEW c, NEW zone
  PROVE  \/ EvaluateDimensions(c, zone).kind = "error"
         \/ EvaluateDimensions(c, zone).kind = "plan" /\ EvaluateDimensions(c, zone).blocking
         \/ EvaluateDimensions(c, zone).kind = "plan" /\ ~EvaluateDimensions(c, zone).blocking
<1>1. \/ \E reason : EvaluateDimensions(c, zone) = BlockingAssessment(reason)
      \/ EvaluateDimensions(c, zone) = [NoPlan EXCEPT !.kind = "error"]
      \/ \E level : EvaluateDimensions(c, zone) = Assessed(level)
  BY DEF EvaluateDimensions
<1> QED
  BY <1>1 DEF BlockingAssessment, Assessed, NoPlan

\* An assessment has a level.
LEMMA HasLevel == ASSUME NEW c, NEW zone PROVE "level" \in DOMAIN EvaluateDimensions(c, zone)
<1>1. \/ \E reason : EvaluateDimensions(c, zone) = BlockingAssessment(reason)
      \/ EvaluateDimensions(c, zone) = [NoPlan EXCEPT !.kind = "error"]
      \/ \E level : EvaluateDimensions(c, zone) = Assessed(level)
  BY DEF EvaluateDimensions
<1> QED
  BY <1>1 DEF BlockingAssessment, Assessed, NoPlan

\* The dimensions; the file is opened and hashed once more.
LEMMA DimensionsKeeps ==
  ASSUME IInv, Dimensions
  PROVE  IInv'
<1>1. exit' = -1 /\ stage' \in {"gate", "hard error"}
      /\ UNCHANGED <<mode, cmd, preview, outcomes, exit, walk, pend, worst>>
  BY DEF IInv, FlowInv, Dimensions, indirectVars
<1>2. Cleared'
  BY <1>1 DEF Cleared, IInv, GateInv, Dimensions
<1>3. stage' = "gate" => plan'.blocking \/ (cmd.opens /\ Covers(plan'.level))
  <2>1. PICK zone \in ZoneOf(cmd) :
          LET a == EvaluateDimensions(cmd, zone)
              floor == IF worst.kind = "floor" THEN worst.level ELSE Unknown
          IN /\ stage' = IF a.kind = "error" THEN "hard error" ELSE "gate"
             /\ a.kind = "plan" /\ ~a.blocking /\ ~cmd.opens => plan' = BlockingAssessment("identity_unbound")
             /\ a.kind = "plan" /\ ~a.blocking /\ cmd.opens => plan' = [a EXCEPT !.level = MaxLevel(a.level, floor)]
             /\ ~(a.kind = "plan" /\ ~a.blocking) => plan' = a
    BY DEF Dimensions
  <2> DEFINE a == EvaluateDimensions(cmd, zone)
             floor == IF worst.kind = "floor" THEN worst.level ELSE Unknown
  <2>2. BlockingAssessment("identity_unbound").blocking
    BY DEF BlockingAssessment, NoPlan
  <2>3. ASSUME a.kind = "plan", ~a.blocking, cmd.opens PROVE Covers(plan'.level)
    <3>1. plan' = [a EXCEPT !.level = MaxLevel(a.level, floor)]
      BY <2>1, <2>3
    <3>2. a.level \in Levels /\ "level" \in DOMAIN a
      BY <2>3, AssessedBy, DimensionTyped, HasLevel
    <3>3. floor \in Levels /\ (worst.kind = "floor" => floor = worst.level)
      BY LevelNames DEF IInv, FlowInv, WalkTypeOK, Verdicts
    <3> DEFINE l == MaxLevel(a.level, floor)
    <3>4. l \in Levels /\ l >= a.level /\ l >= floor
      BY <3>2, <3>3, MaxOfTwo
    <3>5. plan'.level = l
      <4> HIDE DEF a, l, floor
      <4> QED BY <3>1, <3>2 DEF l
    <3> HIDE DEF l, floor
    <3>6. Due(cmd, l)
      BY <2>3, <3>4 DEF Due
    <3> HIDE DEF a
    <3> QED BY <3>3, <3>4, <3>5, <3>6 DEF Covers
  <2>4. CASE a.kind = "plan" /\ ~a.blocking /\ cmd.opens
    BY <2>3, <2>4
  <2>5. CASE a.kind = "plan" /\ ~a.blocking /\ ~cmd.opens
    BY <2>1, <2>2, <2>5
  <2>6. CASE ~(a.kind = "plan" /\ ~a.blocking)
    BY <2>1, <2>6, Assessments
  <2> QED
    BY <2>4, <2>5, <2>6
<1>4. FlowInv'
  BY <1>1 DEF IInv, FlowInv, WalkTypeOK, Dimensions
<1>5. GateInv'
  BY <1>1, <1>2, <1>3 DEF GateInv, Covers
<1> QED
  BY <1>1, <1>4, <1>5, PreviewUnchanged, NotEnded DEF IInv

\* The evaluation does not look at the limit.
LEMMA DueSame ==
  ASSUME NEW c, NEW d, NEW l, Due(c, l), d.argv = c.argv, d.load = c.load, d.record = c.record, d.ident = c.ident
  PROVE  Due(d, l)
<1>1. ZoneOf(d) = ZoneOf(c)
  BY DEF ZoneOf, ZoningInput
<1>2. \A zone : EvaluateDimensions(d, zone) = EvaluateDimensions(c, zone)
  BY DEF EvaluateDimensions, DimensionLevel
<1> QED BY <1>1, <1>2 DEF Due

\* A level above one that covers the evaluation covers it too.
LEMMA CoversMore ==
  ASSUME NEW l, NEW m \in Levels, Covers(l), m >= l, WalkTypeOK
  PROVE  Covers(m)
<1>1. l \in Levels /\ worst.level \in Levels
  BY DEF Covers, WalkTypeOK, Verdicts
<1>2. PICK zone \in ZoneOf(cmd) : /\ EvaluateDimensions(cmd, zone).kind = "plan" /\ ~EvaluateDimensions(cmd, zone).blocking
                                  /\ l >= EvaluateDimensions(cmd, zone).level
  BY DEF Covers, Due
<1>3. EvaluateDimensions(cmd, zone).level \in Levels
  BY <1>2, AssessedBy, DimensionTyped
<1>4. m >= EvaluateDimensions(cmd, zone).level
  BY <1>1, <1>2, <1>3 DEF Levels, Unknown, Critical
<1>5. Due(cmd, m)
  BY <1>2, <1>4 DEF Due
<1>6. worst.kind = "floor" => m >= worst.level
  BY <1>1 DEF Covers, Levels, Unknown, Critical
<1> QED BY <1>5, <1>6 DEF Covers

\* The gate of the normal run admits nothing that blocks or exceeds the limit.
LEMMA GateKeeps ==
  ASSUME IInv, Gate
  PROVE  IInv'
<1>1. exit' = -1 /\ stage' \in {"refused", "admitted"}
      /\ UNCHANGED <<mode, preview, outcomes, exit, walk, pend, worst>>
  BY DEF IInv, FlowInv, Gate, indirectVars
<1>2. PICK max \in Low..High : /\ cmd' = [cmd EXCEPT !.max = max]
                               /\ stage' = IF Denied(max) THEN "refused" ELSE "admitted"
  BY DEF Gate
<1>3. /\ DOMAIN cmd' = CommandFields /\ cmd'.verified = cmd.verified /\ cmd'.max = max
      /\ cmd'.analysis = cmd.analysis /\ cmd'.opens = cmd.opens /\ cmd'.argv = cmd.argv
      /\ cmd'.load = cmd.load /\ cmd'.record = cmd.record /\ cmd'.ident = cmd.ident
  BY <1>2 DEF IInv, FlowInv, Gate, WellFormed, CommandFields
<1>4. WellFormed(cmd)'
  BY <1>3 DEF IInv, FlowInv, Gate, WellFormed
<1>5. WalkTypeOK /\ WalkTypeOK'
  BY <1>1 DEF IInv, FlowInv, WalkTypeOK
<1>6. stage' = "admitted" => Cleared /\ cmd.opens /\ Covers(max)
  <2>1. Critical > max /\ max \in Levels
    BY <1>2 DEF Critical, Low, High, Levels, Unknown
  <2>2. stage' = "admitted" => Cleared /\ cmd.opens /\ Covers(plan.level) /\ ~(plan.level > max)
    BY <1>2, <2>1 DEF IInv, GateInv, Gate, Denied
  <2>3. Covers(plan.level) /\ ~(plan.level > max) => max >= plan.level
    BY <2>1 DEF Covers, Levels, Unknown, Critical
  <2> QED
    BY <1>5, <2>1, <2>2, <2>3, CoversMore
<1>7. stage' = "admitted" => Cleared' /\ cmd'.opens /\ Covers(cmd.max)'
  <2> SUFFICES ASSUME stage' = "admitted" PROVE Cleared' /\ cmd'.opens /\ Covers(cmd.max)'
    OBVIOUS
  <2>1. Cleared' /\ cmd'.opens
    BY <1>1, <1>3, <1>6 DEF Cleared, Named
  <2>2. Due(cmd', max)
    BY <1>3, <1>6, DueSame DEF Covers
  <2> QED
    BY <1>1, <1>3, <1>6, <2>1, <2>2 DEF Covers
<1>8. FlowInv' /\ GateInv'
  BY <1>1, <1>4, <1>5, <1>7 DEF IInv, FlowInv, GateInv
<1> QED
  BY <1>1, <1>8, PreviewUnchanged, NotEnded DEF IInv

\* The gate of the dry run records the decision in the flags (recordPreviewDecision).
LEMMA PreviewKeeps ==
  ASSUME IInv, PreviewGate
  PROVE  IInv'
<1>1. exit' = -1 /\ stage' \in {"hard error", "idle"} /\ UNCHANGED <<mode, exit, walk, pend, worst>>
  BY DEF IInv, FlowInv, PreviewGate, indirectVars
<1>2. CASE cmd.badLevel
  <2>1. stage' = "hard error" /\ UNCHANGED <<cmd, preview, outcomes>> /\ stage = "gate"
    BY <1>2 DEF PreviewGate
  <2> QED
    BY <1>1, <2>1, PreviewUnchanged, NotEnded DEF IInv, FlowInv, WalkTypeOK, GateInv
<1>3. CASE ~cmd.badLevel
  <2> DEFINE unavailable == plan.blocking /\ IsVerificationUnavailable(plan.reason)
             denied == Denied(cmd.max)
             o == IF ~denied THEN "allow" ELSE IF unavailable THEN "unavailable" ELSE "deny"
  <2>1. stage' = "idle" /\ cmd' = NoCommand
        /\ preview' = [deny |-> preview.deny \/ (denied /\ ~unavailable),
                       unavailable |-> preview.unavailable \/ (denied /\ unavailable)]
    BY <1>3 DEF PreviewGate, RecordPreviewDecision
  <2>2. outcomes' = Append(outcomes, o)
    BY <1>3 DEF PreviewGate
  <2>3. preview.deny = Seen("deny") /\ preview.unavailable = Seen("unavailable")
    BY DEF IInv, PreviewInv
  <2>4. o \in {"allow", "unavailable", "deny"}
        /\ (o = "deny" <=> denied /\ ~unavailable) /\ (o = "unavailable" <=> denied /\ unavailable)
    OBVIOUS
  <2> HIDE DEF unavailable, denied, o
  <2>5. \A x : Seen(x)' <=> Seen(x) \/ o = x
    BY SMTT(30), <2>2, <2>4 DEF Seen, IInv, PreviewInv
  <2>6. PreviewInv'
    <3>1. outcomes' \in Seq({"allow", "unavailable", "deny"})
      BY <2>2, <2>4 DEF IInv, PreviewInv
    <3>2. Seen("deny")' <=> (preview.deny \/ (denied /\ ~unavailable))
      BY <2>3, <2>4, <2>5
    <3>3. Seen("unavailable")' <=> (preview.unavailable \/ (denied /\ unavailable))
      BY <2>3, <2>4, <2>5
    <3> QED
      BY <2>1, <3>1, <3>2, <3>3 DEF PreviewInv, Seen
  <2> QED
    BY <1>1, <2>1, <2>6, NotEnded DEF IInv, FlowInv, WalkTypeOK, GateInv
<1> QED
  BY <1>2, <1>3

\* The exit code is computed from flags and files that tell what was previewed.
LEMMA FinalizeKeeps ==
  ASSUME IInv, FinalizeDryRunResults
  PROVE  IInv'
<1>1. stage' = "ended" /\ UNCHANGED <<mode, cmd, preview, files, outcomes, walk, pend, worst>>
  BY DEF FinalizeDryRunResults, indirectVars
<1>2. ExitTellsPreview'
  <2>1. CASE stage = "hard error"
    <3>1. exit' = 1
      BY <2>1 DEF FinalizeDryRunResults
    <3>2. cmd # NoCommand
      <4>1. DOMAIN cmd = CommandFields /\ "missing" \in CommandFields /\ "missing" \notin DOMAIN NoCommand
        BY <2>1 DEF IInv, FlowInv, WellFormed, CommandFields, NoCommand
      <4> QED
        BY <4>1
    <3> QED
      BY <1>1, <3>1, <3>2 DEF ExitTellsPreview
  <2>2. CASE stage = "idle"
    <3>1. cmd = NoCommand /\ exit' = PreviewExitCode
      BY <2>2 DEF FinalizeDryRunResults, IInv, FlowInv
    <3>2. preview.deny = Seen("deny") /\ preview.unavailable = Seen("unavailable")
      BY DEF IInv, PreviewInv
    <3>3. /\ PreviewExitCode = 1 <=> Seen("deny") \/ "mismatch" \in files
          /\ PreviewExitCode = 0 <=> ~Seen("deny") /\ ~Seen("unavailable") /\ files \subseteq {"ok"}
      BY <3>2 DEF PreviewExitCode
    <3> QED
      BY <1>1, <3>1, <3>3 DEF ExitTellsPreview, Seen
  <2> QED
    BY <2>1, <2>2 DEF FinalizeDryRunResults
<1>3. FlowInv' /\ GateInv'
  BY <1>1 DEF IInv, FlowInv, WalkTypeOK, GateInv
<1> QED
  BY <1>1, <1>2, <1>3, PreviewUnchanged DEF IInv

\* Every step keeps the invariant.
LEMMA StepInv == IInv /\ [Next]_riskVars => IInv'
<1> SUFFICES ASSUME IInv, [Next]_riskVars
             PROVE  IInv'
  OBVIOUS
<1>1. ASSUME SubmitRun PROVE IInv'
  <2>1. ASSUME NEW prog \in Tokens, NEW args \in Seq(Tokens) PROVE WellFormed(CommandOf(prog, args))
    BY DEF CommandOf, Cmd, WellFormed, CommandFields
  <2>2. ASSUME NEW tool \in DOMAIN Alphabet, NEW n \in 0..MaxArgs[tool], NEW args \in [1..n -> Alphabet[tool]]
        PROVE  InDir("bin", tool) \in Tokens /\ args \in Seq(Tokens)
    <3>1. InDir("bin", tool) \in Tokens /\ Alphabet[tool] \subseteq Tokens /\ MaxArgs[tool] \in Nat
      BY CommandsAssumption
    <3> QED BY <3>1
  <2>3. \E c : WellFormed(c) /\ Submit(c)
    <3>1. CASE \E c \in Commands : Submit(c)
      BY <3>1, CommandsAssumption
    <3>2. CASE \E tool \in DOMAIN Alphabet : \E n \in 0..MaxArgs[tool] :
                 \E args \in [1..n -> Alphabet[tool]] : Submit(CommandOf(InDir("bin", tool), args))
      BY <2>1, <2>2, <3>2
    <3> QED BY <1>1, <3>1, <3>2 DEF SubmitRun
  <2> QED
    BY <1>1, <2>3, SubmitKeeps DEF SubmitRun
<1>2. ASSUME SubmitPreview PROVE IInv'
  BY <1>2, CommandsAssumption, SubmitKeeps DEF SubmitPreview
<1>3. CASE EvaluateRisk
  BY <1>3, EvaluateKeeps
<1>4. CASE IndirectStep
  BY <1>4, IndirectKeeps
<1>5. CASE IndirectDone
  BY <1>5, DoneKeeps
<1>6. CASE Dimensions
  BY <1>6, DimensionsKeeps
<1>7. CASE Gate
  BY <1>7, GateKeeps
<1>8. CASE PreviewGate
  BY <1>8, PreviewKeeps
<1>9. CASE FinalizeDryRunResults
  BY <1>9, FinalizeKeeps
<1>10. CASE UNCHANGED riskVars
  BY <1>10 DEF riskVars, indirectVars, IInv, FlowInv, WalkTypeOK, GateInv, Cleared, Covers, PreviewInv, Seen, ExitTellsPreview
<1> QED
  BY <1>1, <1>2, <1>3, <1>4, <1>5, <1>6, <1>7, <1>8, <1>9, <1>10 DEF Next

\* The exit code of a dry run tells what was previewed, however many commands there were and in
\* whatever order they were denied, unavailable or failed (PreviewExitCode).
THEOREM ExitTheorem == Spec => []ExitTellsPreview
<1>1. IInv => ExitTellsPreview
  BY DEF IInv
<1> QED
  BY InitInv, StepInv, <1>1, PTL DEF Spec

\* A command is started only if its identity was established, analysis records were available, its
\* file could be opened and hashed again, the links of its path were followed to their end and lead
\* to no privilege command, and the whole walk over its wrappers ended without a denial (EvaluateRisk,
\* ExecuteCommand).
THEOREM AdmissionTheorem ==
  Spec => [](stage = "admitted" => Cleared /\ cmd.opens /\ Program(cmd.argv.prog) # "sudo")
<1>1. IInv => (stage = "admitted" => Cleared /\ cmd.opens /\ Program(cmd.argv.prog) # "sudo")
  BY ProgramNamed, SudoNamed DEF IInv, GateInv, Cleared, Named
<1> QED
  BY InitInv, StepInv, <1>1, PTL DEF Spec

\* What one level of wrappers, or one of several command lines, was found to be is never weakened by
\* what is found later on the walk, neither its kind nor its level (mergeIndirectResults and the
\* handlers).
THEOREM VerdictTheorem == Spec => [][stage = "indirect" => AtLeast(worst', worst)]_riskVars
<1>1. IInv /\ [Next]_riskVars => [stage = "indirect" => AtLeast(worst', worst)]_riskVars
  <2> SUFFICES ASSUME IInv, Next, stage = "indirect"
               PROVE  AtLeast(worst', worst)
    OBVIOUS
  <2>1. IndirectStep \/ IndirectDone
    BY DEF Next, SubmitRun, SubmitPreview, EvaluateRisk, Dimensions, Gate, PreviewGate, FinalizeDryRunResults
  <2>2. CASE IndirectStep
    BY <2>2, StepWalks DEF IInv, FlowInv, IndirectStep, Walked
  <2>3. CASE IndirectDone
    <3>1. worst.level >= worst.level
      BY DEF IInv, FlowInv, WalkTypeOK, Verdicts, Levels, Unknown, Critical
    <3> QED BY <2>3, <3>1 DEF IndirectDone, indirectVars, AtLeast
  <2> QED
    BY <2>1, <2>2, <2>3
<1> QED
  BY InitInv, StepInv, <1>1, PTL DEF Spec

\* A command is started only with a limit that covers the floor of its wrappers and every dimension of
\* the evaluation: its names, arguments and profile, what its binary was found to do, and the level of
\* the files it operates on (EvaluateRisk, evaluateDimensions, ExecuteCommand).
THEOREM LimitTheorem ==
  Spec => [](stage = "admitted" => Fits(cmd, cmd.max) /\ (worst.kind = "floor" => cmd.max >= worst.level))
<1>1. IInv => (stage = "admitted" => Fits(cmd, cmd.max) /\ (worst.kind = "floor" => cmd.max >= worst.level))
  BY DueFits DEF IInv, GateInv, Covers
<1> QED
  BY InitInv, StepInv, <1>1, PTL DEF Spec

\* A file operation is started below High only if every file it was seen to write was resolved and is
\* in no critical place, and at Low only if every one is in a safe place that can be trusted; one whose
\* options were not understood, or that has too many operands, is started at High only
\* (classifyDestinationZone).
THEOREM PlacesTheorem == Spec => [](stage = "admitted" => Placed(cmd, cmd.max))
<1>1. IInv => (stage = "admitted" => Placed(cmd, cmd.max))
  BY DuePlaced DEF IInv, GateInv, Covers
<1> QED
  BY InitInv, StepInv, <1>1, PTL DEF Spec

----------------------------------------------------------------------------
(* The walk of a normal run, from the first wrapper to the gate.           *)

AfterWalk == {"dimensions", "gate", "admitted", "refused", "hard error"}

\* An inner command has been met: it is still to be judged, or was with a severe verdict.
Owing ==
  /\ mode = "run" /\ stage \in {"indirect"} \cup AfterWalk
  /\ stage = "indirect" => Inside \/ Severe(worst)
  /\ stage # "indirect" => Severe(worst)

\* A denial has been met.
Condemned == mode = "run" /\ stage \in {"indirect"} \cup AfterWalk /\ worst.kind \in {"critical", "reject"}

\* What a normal run can do with a command once the walk has begun.
LEMMA RunSteps ==
  ASSUME IInv, [Next]_riskVars, mode = "run", stage \in {"indirect"} \cup AfterWalk
  PROVE  /\ mode' = "run" /\ stage' \in {"indirect"} \cup AfterWalk
         /\ \/ IndirectStep /\ stage = "indirect" /\ stage' = "indirect"
            \/ UNCHANGED <<walk, pend, worst>> /\ (stage' = stage \/ stage' # "indirect")
               /\ (stage = "indirect" /\ stage' # "indirect" => walk = Idle)
<1>1. CASE IndirectStep
  BY <1>1 DEF IndirectStep, AfterWalk
<1>2. CASE IndirectDone
  BY <1>2 DEF IndirectDone, indirectVars, AfterWalk
<1>3. CASE Dimensions
  <2>1. stage = "dimensions" /\ stage' \in {"hard error", "gate"} /\ UNCHANGED <<mode, walk, pend, worst>>
    BY <1>3 DEF Dimensions, indirectVars
  <2> QED BY <2>1 DEF AfterWalk
<1>4. CASE Gate
  <2>1. stage = "gate" /\ stage' \in {"refused", "admitted"} /\ UNCHANGED <<mode, walk, pend, worst>>
    BY <1>4 DEF Gate, indirectVars
  <2> QED BY <2>1 DEF AfterWalk
<1>5. CASE UNCHANGED riskVars
  BY <1>5 DEF riskVars, indirectVars
<1>6. ~SubmitRun /\ ~SubmitPreview /\ ~EvaluateRisk /\ ~PreviewGate /\ ~FinalizeDryRunResults
  BY DEF SubmitRun, SubmitPreview, EvaluateRisk, PreviewGate, FinalizeDryRunResults, AfterWalk
<1> QED
  BY <1>1, <1>2, <1>3, <1>4, <1>5, <1>6 DEF Next

\* Once the walk has come to a command that a wrapper, a script's shell line or a helper option hands
\* on, the command is started with the limit High or not at all, whatever else the walk meets
\* (evaluateInnerAs, mergeIndirectResults, ExecuteCommand).
THEOREM WrapperTheorem ==
  Spec => [](mode = "run" /\ stage = "indirect" /\ Inside => [](stage = "admitted" => cmd.max >= High))
<1>1. mode = "run" /\ stage = "indirect" /\ Inside => Owing
  BY DEF Owing
<1>2. IInv /\ [Next]_riskVars /\ Owing => Owing'
  <2> SUFFICES ASSUME IInv, [Next]_riskVars, Owing PROVE Owing'
    OBVIOUS
  <2>1. /\ mode' = "run" /\ stage' \in {"indirect"} \cup AfterWalk
        /\ \/ IndirectStep /\ stage = "indirect" /\ stage' = "indirect"
           \/ UNCHANGED <<walk, pend, worst>> /\ (stage' = stage \/ stage' # "indirect")
              /\ (stage = "indirect" /\ stage' # "indirect" => walk = Idle)
    BY RunSteps DEF Owing
  <2>2. CASE IndirectStep /\ stage = "indirect" /\ stage' = "indirect"
    <3>1. Walked
      BY <2>2, StepWalks DEF IInv, FlowInv, IndirectStep
    <3> QED BY <2>1, <2>2, <3>1 DEF Owing, Walked
  <2>3. CASE /\ UNCHANGED <<walk, pend, worst>> /\ (stage' = stage \/ stage' # "indirect")
             /\ (stage = "indirect" /\ stage' # "indirect" => walk = Idle)
    <3>1. walk = Idle => ~Inside
      <4>1. Idle \notin LevelRecords
        BY DEF Idle, LevelRecords
      <4> QED BY <4>1 DEF Inside, IInv, FlowInv, WalkTypeOK
    <3>2. (Inside' <=> Inside) /\ (Severe(worst)' <=> Severe(worst))
      BY <2>3 DEF Inside
    <3> QED BY <2>1, <2>3, <3>1, <3>2 DEF Owing
  <2> QED BY <2>1, <2>2, <2>3
<1>3. IInv /\ Owing => (stage = "admitted" => cmd.max >= High)
  <2> SUFFICES ASSUME IInv, Owing, stage = "admitted" PROVE cmd.max >= High
    OBVIOUS
  <2>1. worst.kind = "floor" /\ worst.level >= High /\ cmd.max >= worst.level /\ cmd.max \in Levels
    BY DEF Owing, Severe, IInv, GateInv, Cleared, Covers
  <2>2. worst.level \in Levels
    BY DEF IInv, FlowInv, WalkTypeOK, Verdicts
  <2> QED BY <2>1, <2>2 DEF Levels, Unknown, Critical, High
<1> QED
  BY InitInv, StepInv, <1>1, <1>2, <1>3, PTL DEF Spec

\* Once the walk has met a command that escalates, or a form that cannot be bound, the command is
\* never started, whatever is met afterwards (analyzeIndirectExecution, ExecuteCommand).
THEOREM DenialTheorem ==
  Spec => [](mode = "run" /\ stage = "indirect" /\ worst.kind \in {"critical", "reject"} => [](stage # "admitted"))
<1>1. mode = "run" /\ stage = "indirect" /\ worst.kind \in {"critical", "reject"} => Condemned
  BY DEF Condemned
<1>2. IInv /\ [Next]_riskVars /\ Condemned => Condemned'
  <2> SUFFICES ASSUME IInv, [Next]_riskVars, Condemned PROVE Condemned'
    OBVIOUS
  <2>1. /\ mode' = "run" /\ stage' \in {"indirect"} \cup AfterWalk
        /\ IndirectStep \/ UNCHANGED worst
    BY RunSteps DEF Condemned
  <2>2. CASE IndirectStep
    <3>1. AtLeast(worst', worst) /\ worst' \in Verdicts /\ worst \in Verdicts
      BY <2>2, StepWalks DEF IInv, FlowInv, IndirectStep, Walked, WalkTypeOK
    <3>2. IndirectKindRank(worst) >= 2
      BY <3>1, VerdictRank DEF Condemned
    <3>3. IndirectKindRank(worst') >= 2
      BY <3>1, <3>2, RankNat DEF AtLeast
    <3> QED BY <2>1, <3>1, <3>3, VerdictRank DEF Condemned
  <2>3. CASE UNCHANGED worst
    BY <2>1, <2>3 DEF Condemned
  <2> QED BY <2>1, <2>2, <2>3
<1>3. IInv /\ Condemned => stage # "admitted"
  BY DEF Condemned, IInv, GateInv, Cleared
<1> QED
  BY InitInv, StepInv, <1>1, <1>2, <1>3, PTL DEF Spec
=============================================================================
