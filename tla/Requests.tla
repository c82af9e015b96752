------------------------------ MODULE Requests ------------------------------
(***************************************************************************)
(* What is sent for a request: its address (germal-core/src/url.rs), the   *)
(* checks and the body of prepare, and the headers execute puts on the     *)
(* wire (http/mod.rs), which codegen/mod.rs computes again to print them.  *)
(*                                                                         *)
(* A scheme, a name of a header, a media type and an escaped octet are     *)
(* single symbols; names of headers have one spelling.                     *)
(***************************************************************************)
EXTENDS Strings

CONSTANT Guess      \* guess_content_type: the media type of a path

NoType == <<>>

Field(key, value) == [key |-> key, value |-> value, on |-> TRUE]

(***************************************************************************)
(* Encodings                                                               *)
(***************************************************************************)
\* The octets of the symbols that have a meaning in an address.
Octet == [c \in {"/", "?", "&", "=", "%", "{", "}", " ", "+", "@", "nl", "'", "\"", "<"} |->
            CASE c = "/" -> "2F" [] c = "?" -> "3F" [] c = "&" -> "26" [] c = "=" -> "3D"
              [] c = "%" -> "25" [] c = "{" -> "7B" [] c = "}" -> "7D" [] c = " " -> "20"
              [] c = "+" -> "2B" [] c = "@" -> "40" [] c = "nl" -> "0A" [] c = "'" -> "27"
              [] c = "\"" -> "22" [] c = "<" -> "3C"]

Escaped == [c \in DOMAIN Octet |-> <<"%", Octet[c]>>]

\* Variant: a slash is left in a value.
EncodedSegmentKeepingSlash(s) == Substituted(s, [c \in DOMAIN Octet \ {"/"} |-> Escaped[c]])

\* PATH_SEGMENT: all but letters, digits and -._~ is escaped.
EncodedSegment(s) == Substituted(s, Escaped)

\* The encoding of forms: a space is a plus.
EncodedForm(s) == Substituted(s, [c \in DOMAIN Octet |-> IF c = " " THEN <<"+">> ELSE Escaped[c]])

Pair(row) == EncodedForm(row.key) \o <<"=">> \o EncodedForm(row.value)

Live(rows) == SelectSeq(rows, LAMBDA r : r.on /\ r.key # <<>>)

Pairs(rows) == Join([i \in DOMAIN Live(rows) |-> Pair(Live(rows)[i])], <<"&">>)

(***************************************************************************)
(* The address                                                             *)
(***************************************************************************)
\* extract_path_params: each name once, in the order of the address.
RECURSIVE PathNames(_)
PathNames(url) ==
    LET start == Find(url, <<"{">>)
        after == From(url, start + 1)
        end == Find(after, <<"}">>)
        name == Before(after, end)
        rest == PathNames(From(after, end + 1))
    IN IF start = 0 \/ end = 0 THEN <<>>
       ELSE IF name = <<>> \/ Has(name, "{") THEN rest
       ELSE <<name>> \o SelectSeq(rest, LAMBDA n : n # name)

\* substitute_path_params: one pass; a name without a value stays.
RECURSIVE SubstitutePath(_, _)
SubstitutePath(url, params) ==
    LET start == Find(url, <<"{">>)
        end == Find(From(url, start + 1), <<"}">>)
        name == Before(From(url, start + 1), end)
        rest == From(url, start + end + 1)
        at == SelectInSeq(params, LAMBDA p : p.on /\ p.key # <<>> /\ p.key = name)
    IN IF start = 0 \/ end = 0 THEN url
       ELSE Before(url, start)
              \o (IF at = 0 THEN SubSeq(url, start, start + end) ELSE EncodedSegment(params[at].value))
              \o SubstitutePath(rest, params)

Schemes == {"http://", "https://", "ftp://"}
HasScheme(url) == url # <<>> /\ Head(url) \in Schemes

Refused(why) == [ok |-> FALSE, why |-> why]

WithScheme(url) == IF HasScheme(url) THEN url ELSE <<"http://">> \o url

WithQuery(url, params) ==
    LET sign == IF ~Has(url, "?") THEN <<"?">> ELSE IF Last(url) = "?" THEN <<>> ELSE <<"&">>
    IN IF Live(params) = <<>> THEN url ELSE url \o sign \o Pairs(params)

\* The parser of the library gives every address a path, and escapes in the path and
\* in the query what must not be there.
InPath == {" ", "\"", "<", "{", "}"}
InQuery == {" ", "\"", "<", "'"}

\* The path starts at one place and the query at another, or both at the end.
ParsedAt(url, pathAt, queryAt) ==
    IF Head(url) = "ftp://" \/ pathAt = 2 THEN Refused("Invalid")
    ELSE [ok |-> TRUE,
          url |-> Before(url, pathAt)
                    \o (IF pathAt = queryAt THEN <<"/">>
                        ELSE Substituted(SubSeq(url, pathAt, queryAt - 1), [c \in InPath |-> Escaped[c]]))
                    \o Substituted(From(url, queryAt), [c \in InQuery |-> Escaped[c]])]

Parsed(url) ==
    ParsedAt(url, CHOOSE i \in 1..(Len(url) + 1) : /\ i > Len(url) \/ url[i] \in {"/", "?"}
                                                  /\ \A j \in 1..(i - 1) : url[j] \notin {"/", "?"},
             Find(Append(url, "?"), <<"?">>))

\* build_url
WithParams(parsed, params) == IF parsed.ok THEN [parsed EXCEPT !.url = WithQuery(@, params)] ELSE parsed

BuildUrl(draft) ==
    IF Trim(draft.url) = <<>> THEN Refused("Empty")
    ELSE WithParams(Parsed(WithScheme(SubstitutePath(Trim(draft.url), draft.path))), draft.params)

(***************************************************************************)
(* prepare                                                                 *)
(***************************************************************************)
Named(rows) == SelectSeq(rows, LAMBDA r : r.on /\ Trim(r.key) # <<>>)

\* HeaderName and HeaderValue: no space in a name, no line end in a value.
HeaderRefused(r) == Has(Trim(r.key), " ") \/ Has(Trim(r.value), "nl")

Headers(draft) == [i \in DOMAIN Named(draft.headers) |->
                      <<Trim(Named(draft.headers)[i].key), Trim(Named(draft.headers)[i].value)>>]

TypeOf(format) ==
    CASE format = "Json" -> <<"application/json">>
      [] format = "Text" -> <<"text/plain">>
      [] format = "Xml" -> <<"application/xml">>

FileMissing(body) ==
    \/ body.kind = "Binary" /\ body.text = <<>>
    \/ body.kind = "FormData" /\ \E i \in DOMAIN Live(body.rows) :
                                    Live(body.rows)[i].file /\ Live(body.rows)[i].value = <<>>

Bytes(type, data) == [kind |-> "Bytes", type |-> type, data |-> data]

OutBody(body) ==
    CASE body.kind = "None" -> [kind |-> "Empty"]
      [] body.kind = "Raw" -> Bytes(TypeOf(body.format), body.text)
      [] body.kind = "UrlEncoded" -> Bytes(<<"application/x-www-form-urlencoded">>, Pairs(body.rows))
      [] body.kind = "FormData" -> [kind |-> "Multipart", parts |-> Live(body.rows)]
      [] body.kind = "Binary" -> [kind |-> "File", path |-> body.text, type |-> body.type]

PrepareFor(draft, built) ==
    IF ~built.ok THEN Refused("InvalidUrl")
    ELSE IF \E i \in DOMAIN Named(draft.headers) : HeaderRefused(Named(draft.headers)[i])
    THEN Refused("InvalidHeader")
    ELSE IF FileMissing(draft.body) THEN Refused("FileBody")
    ELSE [ok |-> TRUE, method |-> draft.method, url |-> built.url,
          headers |-> Headers(draft), body |-> OutBody(draft.body)]

Prepare(draft) == PrepareFor(draft, BuildUrl(draft))

(***************************************************************************)
(* The headers that go out                                                 *)
(***************************************************************************)
ContentType == <<"Content-Type">>
\* Set by the library from the body and the connection.
Computed == {<<"Content-Length">>, <<"Transfer-Encoding">>, <<"Host">>}

\* DEFAULT_HEADERS, two of them.
DefaultHeaders == <<<<<<"Accept">>, <<"*/*">>>>, <<<<"User-Agent">>, <<"Germal">>>>>>

IsSet(headers, key) == \E i \in DOMAIN headers : headers[i][1] = key

BodyType(body) ==
    IF body.kind \in {"Bytes", "File"} THEN body.type ELSE NoType

\* merge_headers, and execute with the defaults of the client: first those of the
\* request, then the type of the body, then each default that is on and not set.
MergeHeaders(req, disabled) ==
    LET own == SelectSeq(req.headers, LAMBDA h :
                 h[1] \notin Computed /\ ~(h[1] = ContentType /\ req.body.kind = "Multipart"))
        typed == IF ~IsSet(own, ContentType) /\ BodyType(req.body) # NoType
                 THEN Append(own, <<ContentType, BodyType(req.body)>>) ELSE own
        added == SelectSeq(DefaultHeaders, LAMBDA h : h[1] \notin disabled /\ ~IsSet(typed, h[1]))
    IN typed \o added

\* Without a type of its own a file is sent with the type of its path.
PartSent(p) == [p EXCEPT !.type = IF p.file /\ p.type = NoType THEN Guess[p.value] ELSE p.type]

BodySent(body) ==
    CASE body.kind = "Empty" -> <<"Empty">>
      [] body.kind = "Bytes" -> <<"Bytes", body.data>>
      [] body.kind = "File" -> <<"File", body.path>>
      [] body.kind = "Multipart" -> <<"Multipart", [i \in DOMAIN body.parts |-> PartSent(body.parts[i])]>>

\* The request as it goes out.
Execute(req, disabled) ==
    [method |-> req.method, url |-> req.url, headers |-> MergeHeaders(req, disabled), body |-> BodySent(req.body)]

Sent(draft, disabled) == Execute(Prepare(draft), disabled)
=============================================================================
