---------------------------- MODULE Conversions ----------------------------
(***************************************************************************)
(* The pure functions of the program on inputs that grow step by step:     *)
(* texts are typed symbol by symbol, variables and operations are added, a *)
(* response arrives in pieces or is complete, secrets are masked, days     *)
(* pass.  "part" says which functions the input is for; what they compute  *)
(* is compared with definitions of their own.                              *)
(***************************************************************************)
EXTENDS Responses, Masking, Calendar, Curl, Python

CONSTANTS
    Parts,          \* the functions that are looked at
    MaxTyped,       \* the length of a text that is typed
    MaxOps          \* how many operations a request has

VARIABLES part, in

vars == <<part, in, day, streamVars, maskVars, contentVars>>

Shells == {"Posix", "Windows"}
Names == {"a", "b", "c"}

\* {{name}}
Ref(name) == <<"{", "{", name, "}", "}">>
Refs(names) == FlattenSeq([i \in DOMAIN names |-> Ref(names[i])])

\* A name refers to at most two names; a name without a value is not there.
Referring == {<<>>} \cup {<<n>> : n \in Names} \cup {<<n, m>> : n, m \in Names}

Row(key, value, on) == [key |-> key, value |-> value, on |-> on]

\* The tables before the operations on a response: the variable may have a row that
\* is off before the row that is read.
Tables == {[globals |-> rows, env |-> env, group |-> Undefined] :
              rows \in {<<>>, <<Row(<<"a">>, <<"0">>, FALSE), Row(<<"a">>, <<"0">>, TRUE)>>},
              env \in {Undefined, <<>>}}

Extract(scope, key, from, name) ==
    [on |-> TRUE, assert |-> FALSE, scope |-> scope, key |-> key, source |-> [from |-> from, name |-> name]]

PostOps ==
    {Extract(scope, <<"a">>, from, <<"x">>) : scope \in {"Global", "Group", "Environment"},
                                             from \in {"Status", "Header"}}
      \cup {Extract("Global", <<"$", "a">>, "Status", <<>>),
            Extract("Global", <<"a">>, "Header", <<"y">>),
            [Extract("Global", <<"a">>, "Status", <<>>) EXCEPT !.on = FALSE],
            [on |-> TRUE, assert |-> TRUE, test |-> "Exists", expected |-> <<>>,
             source |-> [from |-> "Header", name |-> <<"y">>]]}

Answer == [status |-> "200", headers |-> (<<"x">> :> <<"1">>), body |-> [kind |-> "Other"],
           type |-> "text", bytes |-> <<"1">>, spilled |-> FALSE]

\* A step of an address in JSON: the name of a member, or the place in an array.
Steps == [key : UNION {[1..n -> {"x", "]", ".", "'"}] : n \in 0..2}] \cup [index : 0..1]

Plain(key, value) == [key |-> key, value |-> value, on |-> TRUE, file |-> FALSE, type |-> NoType]

RequestBodies ==
    {[kind |-> "None"], [kind |-> "Raw", format |-> "Json", text |-> <<"{", "\"", "nl", "}">>],
     [kind |-> "Raw", format |-> "Text", text |-> <<"x", "nl", "'">>],
     [kind |-> "UrlEncoded", rows |-> <<Row(<<"x">>, <<" ">>, TRUE), Row(<<"off">>, <<>>, FALSE)>>],
     [kind |-> "UrlEncoded", rows |-> <<Row(<<"x">>, <<"y">>, TRUE), Row(<<"y">>, <<>>, TRUE)>>],
     [kind |-> "FormData", rows |-> <<Plain(<<"x">>, <<"=", ";">>),
                                      [Plain(<<"f">>, <<"path">>) EXCEPT !.file = TRUE]>>],
     [kind |-> "FormData", rows |-> <<Plain(<<"x">>, <<"y">>), Plain(<<"z">>, <<"@", "y">>)>>],
     [kind |-> "FormData", rows |-> <<Plain(<<"x">>, <<"y">>), [Plain(<<"f">>, <<"path">>) EXCEPT !.file = TRUE],
                                      Plain(<<"x">>, <<"'", "\"">>)>>],
     [kind |-> "Raw", format |-> "Text", text |-> <<"@", "x">>],
     [kind |-> "Binary", text |-> <<"path">>, type |-> NoType],
     [kind |-> "Binary", text |-> <<"path">>, type |-> <<"image/png">>]}

RequestHeaders ==
    {<<Row(<<"Accept">>, <<"x", "\"">>, TRUE)>>, <<Row(<<"X">>, <<"\\", "'">>, TRUE)>>,
     <<Row(<<"X">>, <<"y">>, FALSE)>>, <<Row(ContentType, <<"text/plain">>, TRUE)>>,
     <<Row(<<"X">>, <<"x">>, TRUE), Row(<<"X">>, <<"y">>, TRUE)>>,
     <<Row(<<"X">>, <<>>, TRUE), Row(<<"User-Agent">>, <<"x">>, TRUE)>>}

RequestParams == {Row(<<"x">>, <<"y">>, TRUE), Row(<<"x">>, <<"y">>, FALSE), Row(<<"z">>, <<>>, TRUE),
                  Row(<<"x">>, <<"/", "'">>, TRUE)}

Accept == <<"Accept">>
UserAgent == <<"User-Agent">>

NewDraft == [method |-> "GET", url |-> <<"http://", "h">>, path |-> <<>>, params |-> <<>>,
             headers |-> <<>>, body |-> [kind |-> "None"], disabled |-> {}, shell |-> "Posix"]

NewInput ==
    [braces |-> [text |-> <<>>], names |-> [value |-> [n \in {} |-> <<>>]],
     ops |-> [ops |-> <<>>], json |-> [steps |-> <<>>], path |-> [p |-> <<>>, q |-> <<>>],
     argv |-> [text |-> <<>>], request |-> NewDraft, paste |-> [text |-> <<>>],
     literal |-> [text |-> <<>>]]

Init ==
    /\ part \in Parts
    /\ CASE part = "ops" -> in \in {[ops |-> <<>>, sets |-> sets] : sets \in Tables}
         [] part \in {"stream", "mask", "text", "days"} -> in = [text |-> <<>>]
         [] OTHER -> in = NewInput[part]
    /\ StreamInit /\ MaskInit
    /\ IF part = "text" THEN ContentInit ELSE content = <<>> /\ alphabet = {}
    /\ IF part = "days" THEN CalendarInit ELSE day = 0

(***************************************************************************)
(* Inputs                                                                  *)
(***************************************************************************)
Symbols == [braces |-> {"{", "}", "x"}, argv |-> {"'", "\"", "\\", "%", " ", "^", "x"},
            paste |-> {"x", "%20", "+"},
            literal |-> {"\"", "\\", "nl", "tab", "n", "x"}]

\* An escaped octet is typed as one.
Typed(c) == IF c = "%20" THEN <<"%", "20">> ELSE <<c>>

TypeSymbol ==
    /\ part \in DOMAIN Symbols /\ Len(in.text) < MaxTyped[part]
    /\ \E c \in Symbols[part] : in' = [in EXCEPT !.text = @ \o Typed(c)]
    /\ UNCHANGED part

SetValue ==
    /\ part = "names"
    /\ \E n \in Names, v \in Referring :
         n \notin DOMAIN in.value /\ in' = [in EXCEPT !.value = (n :> v) @@ @]
    /\ UNCHANGED part

AddOp ==
    /\ part = "ops" /\ Len(in.ops) < MaxOps
    /\ \E op \in PostOps : in' = [in EXCEPT !.ops = Append(@, op)]
    /\ UNCHANGED part

AddStep ==
    /\ part = "json" /\ Len(in.steps) < 2
    /\ \E step \in Steps : in' = [in EXCEPT !.steps = Append(@, step)]
    /\ UNCHANGED part

TypeParam ==
    /\ part = "path"
    /\ \E c \in {"/", "?", "{", "}", "q", "%"} :
         \/ Len(in.p) < 3 /\ in' = [in EXCEPT !.p = Append(@, c)]
         \/ in.q = <<>> /\ in' = [in EXCEPT !.q = Append(@, c)]
    /\ UNCHANGED part

EditRequest ==
    /\ part = "request"
    /\ \/ in.method = "GET" /\ \E m \in {"POST", "HEAD"} : in' = [in EXCEPT !.method = m]
       \/ in.params = <<>> /\ \E r \in RequestParams : in' = [in EXCEPT !.params = <<r>>]
       \/ in.headers = <<>> /\ \E rows \in RequestHeaders : in' = [in EXCEPT !.headers = rows]
       \/ in.body.kind = "None" /\ \E b \in RequestBodies : in' = [in EXCEPT !.body = b]
       \/ in.disabled = {} /\ \E names \in {{Accept}, {UserAgent}, {Accept, UserAgent}} :
                                in' = [in EXCEPT !.disabled = names]
       \/ in.shell = "Posix" /\ in' = [in EXCEPT !.shell = "Windows"]
    /\ UNCHANGED part

Next ==
    \/ /\ TypeSymbol \/ SetValue \/ AddOp \/ AddStep \/ TypeParam \/ EditRequest
       /\ UNCHANGED <<day, streamVars, maskVars, contentVars>>
    \/ part = "stream" /\ Receive /\ UNCHANGED <<part, in, day, maskVars, contentVars>>
    \/ part = "mask" /\ MaskNext /\ UNCHANGED <<part, in, day, streamVars, contentVars>>
    \/ part = "text" /\ WriteCharacter /\ UNCHANGED <<part, in, day, streamVars, maskVars>>
    \/ part = "days" /\ NextDay /\ UNCHANGED <<part, in, streamVars, maskVars, contentVars>>

Spec == Init /\ [][Next]_vars

(***************************************************************************)
(* {{name}}                                                                *)
(***************************************************************************)
\* Going from one "{{" to the next: where the last one is, -1 if there is none.
RECURSIVE LastStop(_)
LastStop(s) ==
    LET at == Find(s, Open)
        later == LastStop(From(s, at + 2))
    IN IF at = 0 THEN -1 ELSE IF later = -1 THEN at - 1 ELSE at + 1 + later

\* Where the search goes on inside a text that is no name is where one finds the
\* last "{{" pair by pair.
SkipsToLastOpen ==
    LastOpenIn(in.text) = (IF LastStop(in.text) = -1 THEN 0 ELSE LastStop(in.text))

NameContext ==
    [layers |-> <<SetToSeq({Row(<<n>>, Refs(in.value[n]), TRUE) : n \in DOMAIN in.value}), <<>>,
                  <<Row(<<"a">>, <<>>, FALSE)>>>>, dynamic |-> [n \in {} |-> <<>>]]

\* A chain of references that starts in the text: each name is replaced to get to
\* the next one.
Chains ==
    {c \in UNION {[1..k -> Names] : k \in 1..(MaxDepth + 1)} :
        /\ c[1] = "a"
        /\ \A i \in 1..(Len(c) - 1) : c[i] \in DOMAIN in.value /\ c[i + 1] \in Range(in.value[c[i]])
        /\ \A i, j \in 1..(Len(c) - 1) : i # j => c[i] # c[j]}

Stuck(c) == \/ Last(c) \notin DOMAIN in.value
            \/ Last(c) \in Range(Front(c))
            \/ Len(c) = MaxDepth + 1

\* The names that are reported are those at the end of the chains that get stuck:
\* without a value, met again or too deep.
StuckNamesReported == Resolve(Ref("a"), NameContext).unresolved = {<<Last(c)>> : c \in {d \in Chains : Stuck(d)}}

\* A replacement reports every name it could not replace and no other, and it is
\* the one a search from "{{" to "{{" makes (vars.rs: expand, last_open_in).
NamesReported ==
    /\ part = "names" => StuckNamesReported
    /\ part = "braces" => SkipsToLastOpen

(***************************************************************************)
(* Operations                                                              *)
(***************************************************************************)
Applied == ApplyExtracted(RunPostOps(in.ops, Answer), in.sets)

\* The lines of the report that say a variable was extracted into a table.
Extracted(scope) ==
    {i \in DOMAIN On(in.ops) : LET op == On(in.ops)[i] IN
        ~op.assert /\ op.scope = scope /\ Applied.report.results[i] = "Passed"}

\* What the report says of an extraction is what happened to the variables: the
\* last one that passed for a table is what a request reads from it, without one
\* it is as before, and the reason to skip one is that there is no table (ops.rs:
\* run_post_ops, apply_extracted).
ReportMatchesVariables ==
    part = "ops" =>
        \A scope \in {"Global", "Environment", "Group"} :
            LET last == CHOOSE i \in Extracted(scope) : \A j \in Extracted(scope) : i >= j
                op == On(in.ops)[last]
            IN /\ Extracted(scope) = {} => Table(Applied.sets, scope) = Table(in.sets, scope)
               /\ Extracted(scope) # {} =>
                    LookupVar(<<Rows(Table(Applied.sets, scope))>>, <<"a">>) = ReadSource(op.source, Answer).text
               /\ \A i \in DOMAIN On(in.ops) :
                    (~On(in.ops)[i].assert /\ On(in.ops)[i].scope = scope
                       /\ Applied.report.results[i] \in {"NoGroup", "NoActiveEnvironment"})
                      => Table(in.sets, scope) = Undefined
               /\ Len(Applied.report.results) = Len(On(in.ops))

\* The value that has a text at an address, and other texts beside it.
Other == [kind |-> "text", text |-> <<"other">>]
RECURSIVE Holding(_)
Holding(steps) ==
    IF steps = <<>> THEN [kind |-> "text", text |-> <<"found">>]
    ELSE IF "key" \in DOMAIN Head(steps)
    THEN [kind |-> "object", members |-> (Head(steps).key :> Holding(Tail(steps))) @@ (<<"x">> :> Other)]
    ELSE [kind |-> "array", items |-> IF Head(steps).index = 0 THEN <<Holding(Tail(steps)), Other>>
                                      ELSE <<Other, Holding(Tail(steps))>>]

\* The ways to write a step: a name without a sign may follow a dot.
Written(step) ==
    IF "index" \in DOMAIN step THEN {<<"[", IF step.index = 0 THEN "0" ELSE "1", "]">>}
    ELSE {<<"[", "\"">> \o step.key \o <<"\"", "]">>}
           \cup (IF Has(step.key, "'") THEN {} ELSE {<<"[", "'">> \o step.key \o <<"'", "]">>})
           \cup (IF step.key # <<>> /\ \A i \in DOMAIN step.key : step.key[i] = "x" THEN {<<".">> \o step.key} ELSE {})

RECURSIVE Paths(_)
Paths(steps) ==
    IF steps = <<>> THEN {<<>>} ELSE {w \o p : w \in Written(Head(steps)), p \in Paths(Tail(steps))}

\* However the path to a value is written, it leads to that value (ops.rs: json_path).
PathFindsMember ==
    part = "json" =>
        \A p \in Paths(in.steps) :
            GetPath(Holding(in.steps), <<"$">> \o p) = [kind |-> "text", text |-> <<"found">>]

\* An extraction finds the value its path leads to and puts it where the report
\* says, whatever other operations, missing tables and ways to write the path
\* there are (ops.rs: run_post_ops, json_path; apply_extracted).
OperationsDoAsReported == ReportMatchesVariables /\ PathFindsMember

(***************************************************************************)
(* Requests and commands                                                   *)
(***************************************************************************)
\* The symbols of escaped octets read back.
RECURSIVE Unescaped(_)
Unescaped(s) ==
    IF s = <<>> THEN <<>>
    ELSE IF Head(s) = "%" THEN <<CHOOSE c \in DOMAIN Octet : Octet[c] = s[2]>> \o Unescaped(From(s, 3))
    ELSE <<Head(s)>> \o Unescaped(Tail(s))

\* A value put into the path of an address stays in its segment, is that value
\* after decoding, and is not searched for names again; a name without a value is
\* escaped (url.rs: substitute_path_params, build_url).
ParamsStayInPlace ==
    part = "path" =>
        LET draft == [NewDraft EXCEPT !.url = <<"http://", "h", "/", "{", "p", "}", "/", "{", "q", "}", "/", "{", "r", "}">>,
                                      !.path = <<Row(<<"q">>, in.q, TRUE), Row(<<"p">>, in.p, TRUE),
                                                 Row(<<"r">>, <<>>, FALSE)>>]
            segments == Split(BuildUrl(draft).url, "/")
        IN Len(segments) = 4 /\ Unescaped(segments[2]) = in.p /\ Unescaped(segments[3]) = in.q
             /\ segments[4] = Escaped["{"] \o <<"r">> \o Escaped["}"]

\* A word that is quoted for a shell is read back as that word.
WordReadBack(shell) ==
    LET command == <<"curl", " ">> \o Quote(in.text, shell) \o Continuation(shell) \o Quote(<<"y">>, shell)
    IN Tokenize(command) = [ok |-> TRUE, words |-> <<<<"curl">>, in.text, <<"y">>>>]

\* What a shell that has no line ends in quotes is given: spaces for them.
AsGiven(draft) ==
    IF draft.shell = "Windows" /\ draft.body.kind = "Raw" THEN [draft EXCEPT !.body.text = BodyText(@, "Windows")] ELSE draft

\* Data that is no name of a file to curl, and headers that are no wish to leave
\* one out.
TakenAsText(meant) ==
    /\ meant.body[1] = "Bytes" => Head(meant.body[2]) # "@"
    /\ meant.body[1] = "Multipart" =>
         \A p \in Range(meant.body[2]) : p.file \/ Head(p.value) \notin {"@", "<"}
    /\ \A h \in Range(meant.headers) : h[2] # <<>>

\* A semicolon ends a text of a form.
HasSemicolon(body) == body[1] = "Multipart" /\ \E p \in Range(body[2]) : ~p.file /\ Has(p.value, ";")

\* Curl sends what the program sends; headers of its own come only under names the
\* program does not send.
CommandSends(sent, meant) ==
    TakenAsText(meant) =>
        /\ sent.method = meant.method /\ sent.url = meant.url
        /\ HasSemicolon(meant.body) \/ sent.body = meant.body
        /\ IsPrefix(meant.headers, sent.headers)
        /\ \A i \in (Len(meant.headers) + 1)..Len(sent.headers) : ~IsSet(meant.headers, sent.headers[i][1])

\* The request that is imported from the command goes out as that one does, unless
\* its address has an escape, which is escaped again (PastedAddressKept).
CommandReadBack(read, meant) ==
    TakenAsText(meant) /\ ~Has(meant.url, "%") =>
        read.ok /\ read.warnings = 0 /\ Sent(read.draft, in.disabled) = meant

Distinct(rows) == \A i, j \in DOMAIN rows : rows[i][1] = rows[j][1] => i = j
Entries(rows) == [k \in {h[1] : h \in Range(rows)} |-> (CHOOSE h \in Range(rows) : h[1] = k)[2]]

\* The parts of a form in the order requests gives them, the texts first.
TextParts(parts) == SelectSeq(parts, LAMBDA p : ~p.file)
FileParts(parts) == SelectSeq(parts, LAMBDA p : p.file)
Fields(parts) == [i \in DOMAIN parts |-> <<parts[i].key, parts[i].value>>]
Tuples(parts) == [i \in DOMAIN parts |-> <<parts[i].key, parts[i].value, parts[i].type>>]

InScript(body) ==
    IF body[1] # "Multipart" THEN body
    ELSE <<"Multipart", Entries(Fields(TextParts(body[2]))), Tuples(FileParts(body[2]))>>

\* A dictionary has each name once, and a form without a file is sent as a form of
\* the other kind.
Scriptable(body) ==
    body[1] = "Multipart" => FileParts(body[2]) # <<>> /\ Distinct(Fields(TextParts(body[2])))

\* The script sends the request, with headers of requests itself only under names
\* the program does not send.
ScriptReadBack(sent, meant) ==
    /\ sent.method = meant.method /\ sent.url = meant.url
    /\ Distinct(meant.headers) => Restrict(sent.headers, {h[1] : h \in Range(meant.headers)}) = Entries(meant.headers)
    /\ Scriptable(meant.body) => sent.body = InScript(meant.body)

\* A command and a script that are generated for a request, and what it means.
CommandMeans(generated, meant) ==
    /\ generated.ok
    /\ CommandSends(CurlSent(generated.command, in.shell), meant)
    /\ CommandReadBack(ParseCommand(generated.command), meant)

\* Generated code means the request it was generated for, to curl in both shells, to
\* the import of the program itself and to Python, but for what CodeIsExact says
\* (codegen/mod.rs, curl.rs, python.rs and import/curl.rs: quote and tokenize,
\* render and parse, py_str).
CodeMeansRequest ==
    /\ part = "argv" => \A shell \in Shells : WordReadBack(shell)
    /\ part = "literal" => Literal(PyStr(in.text)) = [ok |-> TRUE, text |-> in.text]
    /\ part = "request" =>
         /\ CommandMeans(Generate(in, in.disabled, in.shell), Sent(AsGiven(in), in.disabled))
         /\ ScriptReadBack(ScriptSent(ScriptFor(Prepare(in), in.disabled)), Sent(in, in.disabled))

\* What codegen/mod.rs:3 promises without an exception: the code is the request that
\* goes out.  It is not: curl and requests have headers of their own when a default
\* of the program is off, data that starts with a sign for files is a file to curl, a
\* header without a value is none, a name that is given twice is there once in a
\* script and a form of texts is sent in the other encoding (python.rs:5).
SendsExactly(sent, meant) == sent.headers = Entries(meant.headers) /\ sent.body[1] = meant.body[1]

CodeIsExact ==
    part = "request" =>
        /\ CurlSent(Generate(in, in.disabled, in.shell).command, in.shell) = Sent(AsGiven(in), in.disabled)
        /\ SendsExactly(ScriptSent(ScriptFor(Prepare(in), in.disabled)), Sent(in, in.disabled))

\* An address that is pasted is the address the request is sent to
\* (import/curl.rs, decode_plus: escapes are left alone so that they do not change).
PastedAddressKept ==
    part = "paste" =>
        LET url == <<"http://", "h", "/", "?", "x", "=">> \o in.text
            read == ParseCommand(<<"curl", " ">> \o url)
        IN read.ok => Sent(read.draft, {}).url = url
=============================================================================
