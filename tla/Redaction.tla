----------------------------- MODULE Redaction -----------------------------
(***************************************************************************)
(* The redaction of log records: what RedactingHandler makes of the values *)
(* of a record before any handler sees them.                               *)
(*                                                                         *)
(* A text is a sequence of pieces [k, id]: "plain" words; "kv", a secret   *)
(* after a telling key ("password=..."); "fmt", a secret told by its form  *)
(* (an access key, a private key); "word", prose that mentions a telling   *)
(* word; and what redaction leaves: "masked" (a telling key and the        *)
(* placeholder), "hidden" (the placeholder) and "failed" (the placeholder  *)
(* of a failed redaction). A value is [k, x] with its kind and a sequence: *)
(* the pieces of a string, the entries [key, v] of a group, map or struct, *)
(* the elements of a slice, what a pointer points to or a LogValuer        *)
(* resolves to, the pieces of the panic of one that panics.                *)
(***************************************************************************)
EXTENDS Naturals, Sequences, SequencesExt, FiniteSetsExt

CONSTANTS MaxRedactionDepth,  \* nesting beyond which nothing is shown
          SensitiveKeys,      \* keys that tell of a secret
          MaxFailures         \* failures the collector keeps

Piece(kind, name) == [k |-> kind, id |-> name]
V(kind, x) == [k |-> kind, x |-> x]
Str(text) == V("string", text)
Entry(key, v) == [key |-> key, v |-> v]

Hidden == Piece("hidden", "")
Placeholder == Str(<<Hidden>>)
RedactionFailurePlaceholder == Str(<<Piece("failed", "")>>)

----------------------------------------------------------------------------
(* Text.                                                                   *)
IsSensitiveKey(key) == key \in SensitiveKeys
IsSensitiveValue(text) == \E i \in DOMAIN text : text[i].k \in {"kv", "word", "masked"}

PerformKeyValueRedaction(text) == [i \in DOMAIN text |-> IF text[i].k = "kv" THEN Piece("masked", "") ELSE text[i]]
Mask(text) == [i \in DOMAIN text |-> IF text[i].k = "fmt" THEN Hidden ELSE text[i]]
RedactText(text) == Mask(PerformKeyValueRedaction(text))

\* The whole value is hidden only if nothing in it was masked.
RedactString(text) ==
  LET redacted == RedactText(text)
  IN IF redacted # text THEN Str(redacted) ELSE IF IsSensitiveValue(text) THEN Placeholder ELSE Str(text)

----------------------------------------------------------------------------
(* Values. A result is the value to show, whether it could not be redacted,*)
(* the keys recorded as failures and the panics met on the way.            *)
Clean(v) == [v |-> v, err |-> FALSE, failed |-> <<>>, panics |-> <<>>]

\* Op(value), for which TLC evaluates the value once.
With(value, Op(_)) == CHOOSE y \in {Op(x) : x \in {value}} : TRUE

\* An operator over the items of a sequence.
Each(Op(_), items) == <<>> \o [i \in DOMAIN items |-> Op(items[i])]

\* The results of the parts, put together as a value of the given kind.
Together(kind, entries, results) ==
  With(results, LAMBDA parts :
    [v |-> V(kind, <<>> \o [i \in DOMAIN parts |-> Entry(entries[i].key, parts[i].v)]), err |-> FALSE,
     failed |-> FlattenSeq([i \in DOMAIN parts |-> parts[i].failed]),
     panics |-> FlattenSeq([i \in DOMAIN parts |-> parts[i].panics])])

\* Mutant: arrays are not in the list.
IsRecursivelyRedactableKindNoArray(kind) == kind \in {"slice", "map", "struct", "ptr", "func", "group"}

\* A group that is an element is a struct to reflection.
IsRecursivelyRedactableKind(kind) == kind \in {"slice", "array", "map", "struct", "ptr", "func", "group"}

RECURSIVE RedactLogAttributeWithContext(_, _, _), ProcessKindAny(_, _, _)

\* A panic of LogValue is an error of the attribute.
ProcessLogValuer(key, v, depth) ==
  IF depth >= MaxRedactionDepth THEN Clean(RedactionFailurePlaceholder)
  ELSE IF v.k = "panics" THEN [v |-> RedactionFailurePlaceholder, err |-> TRUE, failed |-> <<>>, panics |-> <<v.x>>]
  ELSE RedactLogAttributeWithContext(key, v.x[1], depth + 1)

ProcessMap(key, v, depth) ==
  IF depth >= MaxRedactionDepth THEN Clean(RedactionFailurePlaceholder)
  ELSE Together("map", v.x, Each(LAMBDA e : RedactLogAttributeWithContext(e.key, e.v, depth + 1), v.x))

\* Fields that are not exported are left out.
ProcessStruct(key, v, depth) ==
  LET fields == SelectSeq(v.x, LAMBDA f : f.key # "unexported")
  IN IF depth >= MaxRedactionDepth \/ fields = <<>> THEN Clean(RedactionFailurePlaceholder)
     ELSE Together("map", fields, Each(LAMBDA f : RedactLogAttributeWithContext(f.key, f.v, depth + 1), fields))

\* An element: a LogValuer resolved here, a string whose secrets are masked,
\* a value to be walked, or a primitive.
ProcessElement(key, v, depth) ==
  CASE v.k = "panics" -> [v |-> RedactionFailurePlaceholder, err |-> TRUE, failed |-> <<>>, panics |-> <<v.x>>]
    [] v.k = "valuer" -> RedactLogAttributeWithContext(key, v.x[1], depth)
    [] v.k = "string" -> Clean(Str(RedactText(v.x)))
    [] IsRecursivelyRedactableKind(v.k) -> RedactLogAttributeWithContext(key, v, depth)
    [] OTHER -> Clean(v)

\* One element that panics makes an error of the slice, after all are processed.
ProcessSlice(key, v, depth) ==
  IF depth >= MaxRedactionDepth THEN Clean(RedactionFailurePlaceholder)
  ELSE With(Each(LAMBDA e : ProcessElement(key, e.v, depth + 1), v.x),
            LAMBDA parts : [Together("slice", v.x, parts) EXCEPT !.err = \E i \in DOMAIN parts : parts[i].err])

\* The attributes of a group as structs: behind a pointer reflection finds these.
AttrStructs(v) == V("slice", Each(LAMBDA e : Entry("", V("struct", <<Entry("Value", e.v)>>)), v.x))

\* A string behind a pointer and one of a type of its own are primitives here.
ProcessKindAny(key, v, depth) ==
  CASE v.k \in {"valuer", "panics"} -> ProcessLogValuer(key, v, depth)
    [] v.k \in {"slice", "array"} -> ProcessSlice(key, v, depth)
    [] v.k = "group" -> ProcessSlice(key, AttrStructs(v), depth)
    [] v.k = "map" -> ProcessMap(key, v, depth)
    [] v.k = "struct" -> ProcessStruct(key, v, depth)
    [] v.k = "ptr" -> IF v.x = <<>> THEN Clean(v)
                      ELSE IF depth >= MaxRedactionDepth THEN Clean(RedactionFailurePlaceholder)
                      ELSE ProcessKindAny(key, v.x[1], depth + 1)
    [] v.k = "func" -> Clean(RedactionFailurePlaceholder)
    [] OTHER -> Clean(v)

RedactLogAttributeWithContext(key, v, depth) ==
  CASE IsSensitiveKey(key) -> Clean(Placeholder)
    [] ~IsSensitiveKey(key) /\ v.k = "string" -> Clean(RedactString(v.x))
    [] ~IsSensitiveKey(key) /\ v.k = "group" ->
         IF depth >= MaxRedactionDepth THEN Clean(RedactionFailurePlaceholder)
         ELSE Together("group", v.x, Each(LAMBDA e : RedactLogAttributeWithContext(e.key, e.v, depth + 1), v.x))
    [] OTHER ->
         With(ProcessKindAny(key, v, depth), LAMBDA r :
           IF ~r.err THEN r
           ELSE [Clean(RedactionFailurePlaceholder) EXCEPT !.failed = Append(r.failed, key), !.panics = r.panics])

\* A record: its message, and its attributes in turn.
RedactRecord(message, attrs) ==
  With(Together("group", attrs, Each(LAMBDA a : RedactLogAttributeWithContext(a.key, a.v, 0), attrs)), LAMBDA all :
    [message |-> RedactText(message), attrs |-> all.v.x, failed |-> all.failed, panics |-> all.panics])

\* The collector keeps the last failures.
RecordFailure(failures, more) ==
  LET all == failures \o more
  IN SubSeq(all, 1 + Len(all) - Min({Len(all), MaxFailures}), Len(all))

----------------------------------------------------------------------------
(* What a reader of a value sees, and what of it is secret.                *)
Raw(text) == {text[i].id : i \in {j \in DOMAIN text : text[j].k \in {"plain", "kv", "fmt", "word"}}}

RECURSIVE Shown(_)
Shown(v) ==
  CASE v.k \in {"string", "named", "panics"} -> Raw(v.x)
    [] v.k \in {"ptr", "valuer"} -> UNION {Shown(v.x[i]) : i \in DOMAIN v.x}
    [] v.k \in {"group", "map", "struct", "slice", "array"} -> UNION {Shown(v.x[i].v) : i \in DOMAIN v.x}
    [] OTHER -> {}

Told(text) == {text[i].id : i \in {j \in DOMAIN text : text[j].k \in {"kv", "fmt"}}}

\* Secrets: by form or after a key within a text, and all there is under a
\* telling key.
RECURSIVE SecretsIn(_, _)
SecretsIn(key, v) ==
  IF IsSensitiveKey(key) THEN Shown(v)
  ELSE CASE v.k \in {"string", "named"} -> Told(v.x)
         [] v.k \in {"ptr", "valuer"} -> UNION {SecretsIn(key, v.x[i]) : i \in DOMAIN v.x}
         [] v.k \in {"group", "map", "struct", "slice", "array"} ->
              UNION {SecretsIn(IF v.k \in {"slice", "array"} THEN key ELSE v.x[i].key, v.x[i].v) : i \in DOMAIN v.x}
         [] OTHER -> {}

\* What the handler does not look into, under no telling key: a string of a type of
\* its own, a string behind a pointer, and what has a telling key in a group behind
\* a pointer.
RECURSIVE PassedOn(_, _)
PassedOn(key, v) ==
  IF IsSensitiveKey(key) THEN {}
  ELSE CASE v.k = "named" -> Raw(v.x)
         [] v.k = "ptr" ->
              UNION {CASE p.k = "string" -> Raw(p.x)
                       [] p.k = "group"  -> UNION {IF IsSensitiveKey(e.key) THEN Shown(e.v) ELSE PassedOn(e.key, e.v) : e \in Range(p.x)}
                       [] OTHER          -> PassedOn(key, p) : p \in Range(v.x)}
         [] v.k = "valuer" -> PassedOn(key, v.x[1])
         [] v.k \in {"group", "map", "struct", "slice", "array"} ->
              UNION {PassedOn(IF v.k \in {"slice", "array"} THEN key ELSE v.x[i].key, v.x[i].v) : i \in DOMAIN v.x}
         [] OTHER -> {}
============================================================================
