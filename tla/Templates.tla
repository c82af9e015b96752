----------------------------- MODULE Templates -----------------------------
(***************************************************************************)
(* The replacement of {{name}} in a request (germal-core/src/vars.rs).     *)
(*                                                                         *)
(* A context holds the three tables of variables, lowest first, and the    *)
(* values the built-in variables were given in this session.  The result   *)
(* of a replacement is the new text and the names it could not resolve.    *)
(***************************************************************************)
EXTENDS Strings

CONSTANTS
    MaxDepth,       \* MAX_DEPTH: how deep values are replaced in values
    MaxName,        \* MAX_NAME_LEN: the length of a name
    Undefined       \* what a name without a value has

ASSUME TemplatesAssumption == MaxDepth \in Nat /\ MaxName \in Nat

Open == <<"{", "{">>
Close == <<"}", "}">>

ValidName(name) ==
    name # <<>> /\ Len(name) <= MaxName /\ \A i \in DOMAIN name : name[i] \notin {"{", "}", "nl", "cr"}

IsDynamic(name) == Head(name) = "$"

\* A higher table comes first; in a table the first enabled row of the name counts.
LookupVar(layers, name) ==
    LET rows == FlattenSeq(Reverse(layers))
        at == SelectInSeq(rows, LAMBDA r : r.on /\ r.key = name)
    IN IF at = 0 THEN Undefined ELSE rows[at].value

\* A built-in name is never looked up in the tables, and drawn once in a session.
ValueOf(ctx, name) ==
    IF IsDynamic(name)
    THEN IF name \in DOMAIN ctx.dynamic THEN ctx.dynamic[name] ELSE Undefined
    ELSE LookupVar(ctx.layers, name)

\* Variant: the last place where two braces stand, however the earlier ones pair up.
LastPairIn(seg) == IF FindLast(seg, Open) = 0 THEN 0 ELSE FindLast(seg, Open) - 1

\* What to skip to get to the last "{{" at which going from one "{{" to the next
\* would stop: a run of braces is paired from its start.
LastOpenIn(seg) ==
    LET last == FindLast(seg, Open)
        other == {i \in 1..(last - 1) : seg[i] # "{"}
        run == IF other = {} THEN 1 ELSE 1 + (CHOOSE i \in other : \A j \in other : i >= j)
    IN IF last = 0 THEN 0 ELSE (run - 1) + (((last + 2 - run) \div 2) - 1) * 2

\* Variant: one level more.
ReplacedDeeper(ctx, name, stack) ==
    /\ ValueOf(ctx, name) # Undefined
    /\ Len(stack) <= MaxDepth
    /\ ~Has(stack, name)

\* A name is replaced unless it has no value, is being replaced already or is too deep.
Replaced(ctx, name, stack) ==
    /\ ValueOf(ctx, name) # Undefined
    /\ Len(stack) < MaxDepth
    /\ ~Has(stack, name)

RECURSIVE Expand(_, _, _)
Expand(s, ctx, stack) ==
    LET start == Find(s, Open)
        after == From(s, start + 2)
        end == Find(after, Close)
        seg == Before(after, end)
        name == Trim(seg)
        skip == LastOpenIn(seg)
        rest == Expand(From(after, IF ValidName(name) THEN end + 2 ELSE skip + 1), ctx, stack)
        inner == IF Replaced(ctx, name, stack)
                 THEN Expand(ValueOf(ctx, name), ctx, Append(stack, name))
                 ELSE [text |-> Open \o seg \o Close, unresolved |-> {name}]
    IN IF start = 0 \/ end = 0 THEN [text |-> s, unresolved |-> {}]
       ELSE IF ~ValidName(name)
       THEN [text |-> Before(s, start) \o Open \o Before(after, skip + 1) \o rest.text,
             unresolved |-> rest.unresolved]
       ELSE [text |-> Before(s, start) \o inner.text \o rest.text,
             unresolved |-> inner.unresolved \cup rest.unresolved]

Resolve(s, ctx) == Expand(s, ctx, <<>>)

\* resolve_kvs: rows that are off stay as they are.
ResolvedRow(r, ctx, keys) ==
    IF ~r.on THEN r
    ELSE [r EXCEPT !.key = IF keys THEN Resolve(@, ctx).text ELSE @, !.value = Resolve(@, ctx).text]

RowNames(r, ctx, keys) ==
    IF ~r.on THEN {}
    ELSE Resolve(r.value, ctx).unresolved \cup (IF keys THEN Resolve(r.key, ctx).unresolved ELSE {})

ResolvedRows(rows, ctx, keys) == [i \in DOMAIN rows |-> ResolvedRow(rows[i], ctx, keys)]
RowsNames(rows, ctx, keys) == UNION {RowNames(rows[i], ctx, keys) : i \in DOMAIN rows}

\* The body: a raw text, rows of fields, or the path of a file.
ResolvedBody(body, ctx) ==
    CASE body.kind = "None" -> body
      [] body.kind \in {"Raw", "Binary"} -> [body EXCEPT !.text = Resolve(@, ctx).text]
      [] body.kind \in {"FormData", "UrlEncoded"} -> [body EXCEPT !.rows = ResolvedRows(@, ctx, TRUE)]

BodyNames(body, ctx) ==
    CASE body.kind = "None" -> {}
      [] body.kind \in {"Raw", "Binary"} -> Resolve(body.text, ctx).unresolved
      [] body.kind \in {"FormData", "UrlEncoded"} -> RowsNames(body.rows, ctx, TRUE)

\* The expected value of an assertion; Exists does not look at it.
ResolvedOp(op, ctx) ==
    IF op.on /\ op.assert /\ op.test # "Exists"
    THEN [op EXCEPT !.expected = Resolve(@, ctx).text] ELSE op

OpNames(op, ctx) ==
    IF op.on /\ op.assert /\ op.test # "Exists" THEN Resolve(op.expected, ctx).unresolved ELSE {}

\* The names of path parameters come from the URL and are not replaced.
ResolveDraft(draft, ctx) ==
    [draft |-> [draft EXCEPT !.url = Resolve(@, ctx).text,
                             !.path = ResolvedRows(@, ctx, FALSE),
                             !.params = ResolvedRows(@, ctx, TRUE),
                             !.headers = ResolvedRows(@, ctx, TRUE),
                             !.body = ResolvedBody(@, ctx),
                             !.post = [i \in DOMAIN @ |-> ResolvedOp(@[i], ctx)]],
     unresolved |-> Resolve(draft.url, ctx).unresolved \cup RowsNames(draft.path, ctx, FALSE)
                        \cup RowsNames(draft.params, ctx, TRUE) \cup RowsNames(draft.headers, ctx, TRUE)
                        \cup BodyNames(draft.body, ctx)
                        \cup UNION {OpNames(draft.post[i], ctx) : i \in DOMAIN draft.post}]
=============================================================================
