------------------------------- MODULE Python -------------------------------
(***************************************************************************)
(* The Python script of a request (codegen/python.rs): literals, two       *)
(* dictionaries and a list, given to requests.request.  A script is the    *)
(* record of its literals and expressions; what Python and requests make   *)
(* of them is external.                                                    *)
(***************************************************************************)
EXTENDS Requests

\* How a symbol is written between double quotes.
PyEscape == ("\\" :> <<"\\", "\\">>) @@ ("\"" :> <<"\\", "\"">>) @@ ("nl" :> <<"\\", "n">>)
              @@ ("cr" :> <<"\\", "r">>) @@ ("tab" :> <<"\\", "t">>)

\* Variant: a backslash is written as it is.
PyStrRaw(s) == <<"\"">> \o Substituted(s, [c \in DOMAIN PyEscape \ {"\\"} |-> PyEscape[c]]) \o <<"\"">>

\* py_str
PyStr(s) == <<"\"">> \o Substituted(s, PyEscape) \o <<"\"">>

PyPair(key, value) == <<PyStr(key), PyStr(value)>>

\* header_dict
HeaderDict(headers) == [i \in DOMAIN headers |-> PyPair(headers[i][1], headers[i][2])]

\* payload_expr, and the empty text where there is no body.
Payload(body) ==
    CASE body.kind = "Bytes" -> [kind |-> "str", literal |-> PyStr(body.data)]
      [] body.kind = "File" -> [kind |-> "open", literal |-> PyStr(body.path)]
      [] body.kind = "Empty" -> [kind |-> "str", literal |-> PyStr(<<>>)]
      [] body.kind = "Multipart" ->
            LET texts == SelectSeq(body.parts, LAMBDA p : ~p.file)
            IN [kind |-> "dict", rows |-> [i \in DOMAIN texts |-> PyPair(texts[i].key, texts[i].value)]]

\* requests_file_tuple: a type that was not chosen is guessed.
FileTuples(body) ==
    IF body.kind # "Multipart" THEN <<>>
    ELSE LET files == SelectSeq(body.parts, LAMBDA p : p.file)
         IN [i \in DOMAIN files |-> <<PyStr(files[i].key), PyStr(files[i].value), PyStr(PartSent(files[i]).type)>>]

\* render_requests
RenderRequests(req, headers) ==
    [url |-> PyStr(req.url), method |-> PyStr(<<req.method>>), headers |-> HeaderDict(headers),
     payload |-> Payload(req.body), files |-> FileTuples(req.body)]

\* generate, for a request that is prepared
ScriptFor(req, disabled) == RenderRequests(req, MergeHeaders(req, disabled))

(***************************************************************************)
(* What Python and requests make of a script                               *)
(***************************************************************************)
\* A literal read back: Undefined text stands for a literal that does not end where it should.
Literal(s) ==
    LET read == FoldLeft(LAMBDA st, c :
                  CASE st.at = "end" \/ st.at = "bad" -> [st EXCEPT !.at = "bad"]
                    [] st.at = "start" -> [st EXCEPT !.at = IF c = "\"" THEN "text" ELSE "bad"]
                    [] st.at = "escape" ->
                          [at |-> "text",
                           text |-> st.text \o (CASE c = "n" -> <<"nl">> [] c = "r" -> <<"cr">> [] c = "t" -> <<"tab">>
                                                  [] c \in {"\\", "\""} -> <<c>> [] OTHER -> <<"\\", c>>)]
                    [] st.at = "text" ->
                          CASE c = "\\" -> [st EXCEPT !.at = "escape"]
                            [] c = "\"" -> [st EXCEPT !.at = "end"]
                            [] c \in {"nl", "cr"} -> [st EXCEPT !.at = "bad"]
                            [] OTHER -> [st EXCEPT !.text = Append(@, c)],
                [at |-> "start", text |-> <<>>], s)
    IN IF read.at = "end" THEN [ok |-> TRUE, text |-> read.text] ELSE [ok |-> FALSE]

\* A dictionary keeps the last value of a key.
Dict(rows) ==
    LET read == [i \in DOMAIN rows |-> <<Literal(rows[i][1]).text, Literal(rows[i][2]).text>>]
        keys == {read[i][1] : i \in DOMAIN read}
    IN [k \in keys |-> read[CHOOSE i \in DOMAIN read : read[i][1] = k
                              /\ \A j \in DOMAIN read : read[j][1] = k => j <= i][2]]

\* requests writes a form in parts only when there is a file; without one the
\* dictionary is a form of the other kind.
ScriptBody(script) ==
    CASE script.payload.kind = "open" -> <<"File", Literal(script.payload.literal).text>>
      [] script.payload.kind = "str" ->
            LET text == Literal(script.payload.literal).text
            IN IF text = <<>> THEN <<"Empty">> ELSE <<"Bytes", text>>
      [] script.payload.kind = "dict" /\ script.files = <<>> -> <<"Form", Dict(script.payload.rows)>>
      [] script.payload.kind = "dict" /\ script.files # <<>> ->
            <<"Multipart", Dict(script.payload.rows),
              [i \in DOMAIN script.files |-> [n \in 1..3 |-> Literal(script.files[i][n]).text]]>>

\* The headers of a session of requests, for those a script does not give.
RequestsDefaults == (<<"Accept">> :> <<"*/*">>) @@ (<<"User-Agent">> :> <<"python-requests">>)

ScriptSent(script) ==
    [method |-> Literal(script.method).text[1], url |-> Literal(script.url).text,
     headers |-> Dict(script.headers) @@ RequestsDefaults, body |-> ScriptBody(script)]
=============================================================================
