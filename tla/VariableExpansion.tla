------------------------- MODULE VariableExpansion -------------------------
(***************************************************************************)
(* The %{VAR} references of a text, resolved from variables                *)
(* (expansion.go).                                                         *)
(*                                                                         *)
(* As in the code, a text is read piece by piece and a resolver is asked   *)
(* for each name in it. In a lazy context (varExpander) the resolver looks *)
(* a name up among the expanded variables, whose values it takes as they   *)
(* are, then among the raw definitions, which it expands and memoizes.     *)
(* Otherwise (ExpandString) only expanded variables count, and their       *)
(* values are expanded once more.                                          *)
(***************************************************************************)
EXTENDS ConfigText

CONSTANTS MaxRecursionDepth  \* depth at which an expansion is given up

ASSUME DepthAssumption == MaxRecursionDepth \in Nat \ {0}

\* What an expansion gives: an error, or a text; and the variables memoized so far, as pairs.
Ok(text, memo) == [err |-> "none", text |-> text, memo |-> memo]
Fail(err, memo) == [err |-> err, text |-> <<>>, memo |-> memo]

Context(lazy, strings, arrays, raw) == [lazy |-> lazy, strings |-> strings, arrays |-> arrays, raw |-> raw]

\* A name to resolve, inside the definitions of the names visited.
Requests == [name : STRING, memo : SUBSET (STRING \X Texts), visited : SUBSET STRING]

\* The expanded variables, with those that are memoized.
Known(strings, memo) == Over([n \in {m[1] : m \in memo} |-> (CHOOSE m \in memo : m[1] = n)[2]], strings)

ProcessPiece(acc, piece, visited, resolver) ==
  LET append(p) == Ok(Append(acc.text, p), acc.memo)
      found == resolver[[name |-> piece.v, memo |-> acc.memo, visited |-> visited]]
  IN IF acc.err # "none" THEN acc
     ELSE CASE piece.k \in {"bad", "pesc"} -> Fail("escape", acc.memo)
            [] piece.k = "open"            -> Fail("unclosed", acc.memo)
            [] piece.k = "esc"             -> append(Ref(piece.v))
            [] piece.k = "bs"              -> append(P("bad", piece.v))
            [] piece.k = "ref"             ->
                 IF ~ValidateVariableName(piece.v) THEN Fail("name", acc.memo)
                 ELSE IF piece.v \in visited THEN Fail("circular", acc.memo)
                 ELSE [err |-> found.err, text |-> acc.text \o found.text, memo |-> found.memo]
            [] OTHER                       -> append(piece)

ProcessVarRefs(text, memo, visited, resolver) ==
  LET done[i \in 0..Len(text)] == IF i = 0 THEN Ok(<<>>, memo)
                                  ELSE ProcessPiece(done[i - 1], text[i], visited, resolver)
  IN done[Len(text)]

\* The definition of a requested name is expanded one level deeper, if there is one left.
ExpandNested(text, q, left, deeper) ==
  IF left = 0 THEN Fail("depth", q.memo) ELSE ProcessVarRefs(text, q.memo, q.visited \cup {q.name}, deeper)

\* varExpander.resolveVariable.
ResolveLazily(q, ctx, left, deeper) ==
  LET known == Known(ctx.strings, q.memo)
      r == ExpandNested(ctx.raw[q.name].val, q, left, deeper)
  IN IF q.name \in DOMAIN known THEN Ok(known[q.name], q.memo)
     ELSE IF q.name \in DOMAIN ctx.arrays THEN Fail("array", q.memo)
     ELSE IF q.name \notin DOMAIN ctx.raw THEN Fail("undefined", q.memo)
     ELSE IF ctx.raw[q.name].kind # "string" THEN Fail("array", q.memo)
     ELSE IF r.err # "none" THEN r ELSE Ok(r.text, r.memo \cup {<<q.name, r.text>>})

\* The resolver of resolveAndExpand.
ResolveExpanded(q, ctx, left, deeper) ==
  IF q.name \notin DOMAIN ctx.strings THEN Fail("undefined", q.memo)
  ELSE ExpandNested(ctx.strings[q.name], q, left, deeper)

ResolveVariable(q, ctx, left, deeper) ==
  IF ctx.lazy THEN ResolveLazily(q, ctx, left, deeper) ELSE ResolveExpanded(q, ctx, left, deeper)

\* The resolver where so many levels are left below.
Resolvers(ctx) ==
  LET resolver[left \in 0..(MaxRecursionDepth - 1)] ==
        [q \in Requests |-> ResolveVariable(q, ctx, left, IF left = 0 THEN <<>> ELSE resolver[left - 1])]
  IN resolver

ExpandIn(text, memo, ctx) == ProcessVarRefs(text, memo, {}, Resolvers(ctx)[MaxRecursionDepth - 1])

ExpandString(text, strings) == ExpandIn(text, {}, Context(FALSE, strings, NoVars, NoVars))

\* With the memoized variables among the expanded ones.
Memoized(r, strings) == [err |-> r.err, text |-> r.text, strings |-> Known(strings, r.memo)]

\* Expansion of one variable of a level.
ExpandVarText(text, strings, arrays, raw) ==
  Memoized(ExpandIn(text, {}, Context(TRUE, strings, arrays, raw)), strings)

\* The elements of an array in order; variables expanded on the way are memoized.
ExpandElement(acc, text, ctx) ==
  LET r == ExpandIn(text, acc.memo, ctx)
  IN IF acc.err # "none" THEN acc ELSE [err |-> r.err, text |-> Append(acc.text, r.text), memo |-> r.memo]

ExpandElements(texts, strings, arrays, raw) ==
  LET ctx == Context(TRUE, strings, arrays, raw)
      done[i \in 0..Len(texts)] == IF i = 0 THEN Ok(<<>>, {}) ELSE ExpandElement(done[i - 1], texts[i], ctx)
  IN Memoized(done[Len(texts)], strings)
=============================================================================
