----------------------------- MODULE Operations -----------------------------
(***************************************************************************)
(* The operations of a request (germal-core/src/ops.rs): those that run    *)
(* before it is sent write variables; those that run on the response read  *)
(* it, compare it or extract a variable from it.  They run on a copy of    *)
(* the tables, or far from them, and what they extracted is written when   *)
(* the response is accepted (apply_extracted).                             *)
(*                                                                         *)
(* Tables of variables: "sets.globals", and "sets.env" and "sets.group",   *)
(* which are Undefined when no environment is active and when the request  *)
(* has no group.                                                           *)
(***************************************************************************)
EXTENDS Templates

Rows(table) == IF table = Undefined THEN <<>> ELSE table

\* context: lowest first.
Context(sets, dynamic) ==
    [layers |-> <<sets.globals, Rows(sets.group), Rows(sets.env)>>, dynamic |-> dynamic]

Table(sets, scope) ==
    CASE scope = "Global" -> sets.globals
      [] scope = "Environment" -> sets.env
      [] scope = "Group" -> sets.group

\* Variant: writes the first row of the name, which may be off.
WrittenRowFirst(rows, key, value) ==
    LET at == SelectInSeq(rows, LAMBDA r : r.key = key)
    IN IF at = 0 THEN Append(rows, [key |-> key, value |-> value, on |-> TRUE])
       ELSE [rows EXCEPT ![at].value = value]

\* set_var: the row that is read; else the first that is off; else a new one.
WrittenRow(rows, key, value) ==
    LET lit == SelectInSeq(rows, LAMBDA r : r.on /\ r.key = key)
        at == IF lit # 0 THEN lit ELSE SelectInSeq(rows, LAMBDA r : r.key = key)
    IN IF at = 0 THEN Append(rows, [key |-> key, value |-> value, on |-> TRUE])
       ELSE [rows EXCEPT ![at].value = value, ![at].on = TRUE]

WriteVar(sets, scope, key, value) ==
    CASE Table(sets, scope) = Undefined -> sets
      [] scope = "Global" -> [sets EXCEPT !.globals = WrittenRow(@, key, value)]
      [] scope = "Environment" -> [sets EXCEPT !.env = WrittenRow(@, key, value)]
      [] scope = "Group" -> [sets EXCEPT !.group = WrittenRow(@, key, value)]

\* skip_reason
SkipReason(scope) == IF scope = "Environment" THEN "NoActiveEnvironment" ELSE "NoGroup"

\* check_key: what is wrong with the name, if anything.
KeyFault(key) ==
    CASE Trim(key) = <<>> -> "EmptyKey"
      [] Trim(key) # <<>> /\ (~ValidName(Trim(key)) \/ IsDynamic(Trim(key))) -> "InvalidKey"
      [] OTHER -> "None"

On(ops) == SelectSeq(ops, LAMBDA op : op.on)

(***************************************************************************)
(* Before the request is sent                                              *)
(***************************************************************************)
\* One operation: its value is resolved with the tables as they are by now.
PreStep(run, op, dynamic) ==
    LET value == Resolve(op.value, Context(run.sets, dynamic))
        writable == Table(run.sets, op.scope) # Undefined
    IN IF KeyFault(op.key) # "None"
       THEN [run EXCEPT !.results = Append(@, KeyFault(op.key))]
       ELSE [results |-> Append(run.results, IF writable THEN "Passed" ELSE SkipReason(op.scope)),
             unresolved |-> run.unresolved \cup value.unresolved,
             sets |-> WriteVar(run.sets, op.scope, Trim(op.key), value.text)]

RunPreOps(ops, sets, dynamic) ==
    FoldLeft(LAMBDA run, op : PreStep(run, op, dynamic),
             [results |-> <<>>, unresolved |-> {}, sets |-> sets], On(ops))

(***************************************************************************)
(* JSON: a value is a text, an array or an object                          *)
(***************************************************************************)
Member(v, key) ==
    IF v # Undefined /\ v.kind = "object" /\ key \in DOMAIN v.members THEN v.members[key] ELSE Undefined

Element(v, i) ==
    IF v # Undefined /\ v.kind = "array" /\ i + 1 \in DOMAIN v.items THEN v.items[i + 1] ELSE Undefined

\* A number written with digits; the symbols of digits are numbers.
Number(s) == IF Len(s) = 1 /\ s[1] \in {"0", "1"} THEN (IF s[1] = "0" THEN 0 ELSE 1) ELSE Undefined

Quotes == {"\"", "'"}

\* Variant: the bracket is closed by the first "]" there is.
BracketFirst(v, after) ==
    LET end == Find(after, <<"]">>)
        inner == Before(after, end)
    IN IF end = 0 THEN [value |-> Undefined, rest |-> <<>>]
       ELSE IF inner # <<>> /\ Head(inner) \in Quotes /\ Last(inner) = Head(inner) /\ Len(inner) > 1
       THEN [value |-> Member(v, SubSeq(inner, 2, Len(inner) - 1)), rest |-> From(after, end + 1)]
       ELSE [value |-> IF Number(Trim(inner)) = Undefined THEN Undefined ELSE Element(v, Number(Trim(inner))),
             rest |-> From(after, end + 1)]

\* One step in brackets: a quoted name ends with its quote, so that it can hold a "]".
Bracket(v, after) ==
    LET quoted == after # <<>> /\ Head(after) \in Quotes
        body == Tail(after)
        close == Find(body, <<Head(after)>>)
        end == Find(after, <<"]">>)
        index == Number(Trim(Before(after, end)))
    IN IF quoted
       THEN IF close = 0 \/ Len(body) = close \/ body[close + 1] # "]"
            THEN [value |-> Undefined, rest |-> <<>>]
            ELSE [value |-> Member(v, Before(body, close)), rest |-> From(body, close + 2)]
       ELSE IF end = 0 \/ index = Undefined
       THEN [value |-> Undefined, rest |-> <<>>]
       ELSE [value |-> Element(v, index), rest |-> From(after, end + 1)]

RECURSIVE Walk(_, _)
Walk(v, path) ==
    LET dotted == path # <<>> /\ Head(path) = "."
        rest == IF dotted THEN Tail(path) ELSE path
        end == FindAny(rest, {".", "["})
        name == IF end = 0 THEN rest ELSE Before(rest, end)
        step == Bracket(v, Tail(rest))
    IN IF v = Undefined \/ (dotted /\ (rest = <<>> \/ Head(rest) = ".")) THEN Undefined
       ELSE IF rest = <<>> THEN v
       ELSE IF Head(rest) = "[" THEN Walk(step.value, step.rest)
       ELSE IF name = <<>> THEN Undefined
       ELSE Walk(Member(v, name), IF end = 0 THEN <<>> ELSE From(rest, end))

\* json_path::get: "$" is the root only before a step or at the end.
GetPath(root, path) ==
    LET p == Trim(path)
        rooted == p # <<>> /\ Head(p) = "$" /\ (Len(p) = 1 \/ p[2] \in {".", "["})
    IN Walk(root, IF rooted THEN Tail(p) ELSE p)

(***************************************************************************)
(* On the response: status, headers and body                               *)
(***************************************************************************)
Failure(why) == [ok |-> FALSE, why |-> why]
Text(s) == [ok |-> TRUE, text |-> s]

\* parse_body: there is no body to parse when it went to a file.
ParsedBody(body) ==
    CASE body.kind = "Spilled" -> Failure("BodyUnavailable")
      [] body.kind = "Large" -> Failure("BodyTooLarge")
      [] body.kind = "Other" -> Failure("NotJson")
      [] body.kind = "Json" -> [ok |-> TRUE, value |-> body.value]

\* value_to_string: a text as it is; another value is written out.
AsText(v) == IF v.kind = "text" THEN v.text ELSE <<v.kind>>

ReadSource(source, response) ==
    CASE source.from = "Status" -> Text(<<response.status>>)
      [] source.from = "Header" ->
            IF Trim(source.name) = <<>> THEN Failure("EmptyHeader")
            ELSE IF Trim(source.name) \in DOMAIN response.headers
                 THEN Text(response.headers[Trim(source.name)]) ELSE Failure("HeaderNotFound")
      [] source.from = "JsonPath" ->
            LET parsed == ParsedBody(response.body)
                found == GetPath(parsed.value, source.name)
            IN IF Trim(source.name) = <<>> THEN Failure("EmptyPath")
               ELSE IF ~parsed.ok THEN parsed
               ELSE IF found = Undefined THEN Failure("PathNotFound") ELSE Text(AsText(found))

\* compare
Compare(test, actual, expected) ==
    LET holds == CASE test = "Equals" -> actual = expected
                   [] test = "NotEquals" -> actual # expected
                   [] test = "Contains" -> expected = <<>> \/ Find(actual, expected) # 0
                   [] test = "Exists" -> TRUE
    IN IF holds THEN "Passed" ELSE IF test = "NotEquals" THEN "Unexpected" ELSE "Mismatch"

\* Variant: the place in the list of what was extracted.
PostStepByExtract(report, op, read) ==
    LET extracts == ~op.assert /\ KeyFault(op.key) = "None" /\ read.ok
    IN [results |-> Append(report.results,
            IF ~op.assert /\ KeyFault(op.key) # "None" THEN KeyFault(op.key)
            ELSE IF ~read.ok THEN read.why
            ELSE IF op.assert THEN Compare(op.test, read.text, op.expected) ELSE "Passed"),
        extracted |-> IF extracts
                      THEN Append(report.extracted, [index |-> Len(report.extracted) + 1, scope |-> op.scope,
                                                     key |-> Trim(op.key), value |-> read.text])
                      ELSE report.extracted]

\* One operation on the response; what it extracts remembers its line of the report.
PostStep(report, op, read) ==
    LET extracts == ~op.assert /\ KeyFault(op.key) = "None" /\ read.ok
        missing == op.assert /\ op.test = "Exists" /\ ~read.ok
                     /\ read.why \in {"PathNotFound", "HeaderNotFound"}
    IN [results |-> Append(report.results,
            IF ~op.assert /\ KeyFault(op.key) # "None" THEN KeyFault(op.key)
            ELSE IF missing THEN "Missing"
            ELSE IF ~read.ok THEN read.why
            ELSE IF op.assert THEN Compare(op.test, read.text, op.expected) ELSE "Passed"),
        extracted |-> IF extracts
                      THEN Append(report.extracted, [index |-> Len(report.results) + 1, scope |-> op.scope,
                                                     key |-> Trim(op.key), value |-> read.text])
                      ELSE report.extracted]

RunPostOps(ops, response) ==
    FoldLeft(LAMBDA report, op : PostStep(report, op, ReadSource(op.source, response)),
             [results |-> <<>>, extracted |-> <<>>], On(ops))

\* skip_all: the request got no response.
SkipAll(ops) == [results |-> [i \in DOMAIN On(ops) |-> "RequestFailed"], extracted |-> <<>>]

\* apply_extracted: what cannot be written is marked as skipped and taken from the list.
ApplyOne(applied, e) ==
    IF Table(applied.sets, e.scope) # Undefined
    THEN [applied EXCEPT !.sets = WriteVar(@, e.scope, e.key, e.value),
                         !.report.extracted = Append(@, e)]
    ELSE [applied EXCEPT !.report.results[e.index] = SkipReason(e.scope)]

ApplyExtracted(report, sets) ==
    FoldLeft(ApplyOne, [report |-> [report EXCEPT !.extracted = <<>>], sets |-> sets], report.extracted)
=============================================================================
