-------------------------------- MODULE Curl --------------------------------
(***************************************************************************)
(* The curl command of a request in two dialects (codegen/curl.rs), and    *)
(* the reading of a command that is pasted (import/curl.rs): words are cut *)
(* by the rules of the shell, options are collected, and what was          *)
(* collected becomes a request.  What curl itself sends is external.  An   *)
(* option and the name of the program are single symbols.                  *)
(***************************************************************************)
EXTENDS Requests

Fail == [ok |-> FALSE]
Methods == {"GET", "POST", "PUT", "PATCH", "DELETE", "HEAD", "OPTIONS"}

(***************************************************************************)
(* Writing a command                                                       *)
(***************************************************************************)
\* continuation
Continuation(shell) == <<" ", IF shell = "Posix" THEN "\\" ELSE "^", "nl", " ", " ">>

\* quote_posix: a single quote is closed, escaped and opened again.
QuotePosix(s) == <<"'">> \o Substituted(s, [c \in {"'"} |-> <<"'", "\\", "'", "'">>]) \o <<"'">>

\* How many backslashes stand before a place.
Slashes(s, i) == Cardinality({j \in 1..(i - 1) : \A k \in j..(i - 1) : s[k] = "\\"})

Backslashes(n) == [i \in 1..n |-> "\\"]

\* Variant: backslashes before the closing quote are not doubled.
QuoteWindowsOpen(s) ==
    <<"\"">> \o FlattenSeq([i \in DOMAIN s |->
        CASE s[i] = "\"" -> Backslashes(Slashes(s, i) + 1) \o <<"\"">>
          [] s[i] = "%" -> <<"%", "%">>
          [] OTHER -> <<s[i]>>]) \o <<"\"">>

\* quote_windows: backslashes count only before a quote, and are doubled there
\* and at the end; a percent sign is doubled.
QuoteWindows(s) ==
    <<"\"">> \o FlattenSeq([i \in DOMAIN s |->
        CASE s[i] = "\"" -> Backslashes(Slashes(s, i) + 1) \o <<"\"">>
          [] s[i] = "%" -> <<"%", "%">>
          [] OTHER -> <<s[i]>>]) \o Backslashes(Slashes(s, Len(s) + 1)) \o <<"\"">>

Quote(s, shell) == IF shell = "Posix" THEN QuotePosix(s) ELSE QuoteWindows(s)

\* body_text: a command of the other shell has no line ends inside quotes.
BodyText(s, shell) == IF shell = "Posix" THEN s ELSE Substituted(s, [c \in {"nl"} |-> <<" ">>])

\* form_field
FormWord(p) ==
    p.key \o (IF ~p.file THEN <<"=">> \o p.value
              ELSE <<"=", "@">> \o p.value \o <<";", "type=">> \o (IF p.type = NoType THEN Guess[p.value] ELSE p.type))

Option(flag, word, shell) == <<flag, " ">> \o Quote(word, shell)

BodyOptions(body, shell) ==
    CASE body.kind = "Empty" -> <<>>
      [] body.kind = "Bytes" -> <<Option("-d", BodyText(body.data, shell), shell)>>
      [] body.kind = "Multipart" -> [i \in DOMAIN body.parts |-> Option("-F", FormWord(body.parts[i]), shell)]
      [] body.kind = "File" -> <<Option("--data-binary", <<"@">> \o body.path, shell)>>

\* render
Render(req, headers, shell) ==
    Join(<<<<"curl", " ", "-X", " ", req.method, " ">> \o Quote(req.url, shell)>>
           \o [i \in DOMAIN headers |-> Option("-H", headers[i][1] \o <<":", " ">> \o headers[i][2], shell)]
           \o BodyOptions(req.body, shell),
         Continuation(shell))

Printed(req, disabled, shell) ==
    IF req.ok THEN [ok |-> TRUE, command |-> Render(req, MergeHeaders(req, disabled), shell)] ELSE req

\* generate: an empty address is shown as a placeholder.
Generate(draft, disabled, shell) ==
    Printed(Prepare(IF Trim(draft.url) = <<>> THEN [draft EXCEPT !.url = <<"https://", "example">>] ELSE draft),
            disabled, shell)

(***************************************************************************)
(* Cutting a command into words                                            *)
(***************************************************************************)
LineEnd == {"nl", "cr"}

\* detect_dialect: the first sign that continues a line tells.
Dialect(s) ==
    LET at == SelectInSeq(SubSeq([i \in DOMAIN s |-> <<s[i], IF i < Len(s) THEN s[i + 1] ELSE "end">>], 1, Len(s)),
                          LAMBDA p : p[1] \in {"^", "\\"} /\ p[2] \in LineEnd)
    IN IF at # 0 /\ s[at] = "^" THEN "Cmd" ELSE "Posix"

\* A quoted piece: its text, and what follows the closing quote.
Piece(text, rest) == [ok |-> TRUE, text |-> text, rest |-> rest]
Joined(text, piece) == IF piece.ok THEN [piece EXCEPT !.text = text \o @] ELSE piece

Single(s) == LET end == Find(s, <<"'">>) IN IF end = 0 THEN Fail ELSE Piece(Before(s, end), From(s, end + 1))

\* "..." of the POSIX shell: a backslash escapes only these.
RECURSIVE Double(_)
Double(s) ==
    CASE s = <<>> -> Fail
      [] s # <<>> /\ Head(s) = "\"" -> Piece(<<>>, Tail(s))
      [] s # <<>> /\ Head(s) = "\\" ->
            IF Len(s) = 1 THEN Fail
            ELSE Joined(CASE s[2] \in {"\"", "\\", "$", "tick"} -> <<s[2]>>
                          [] s[2] \in LineEnd -> <<>>
                          [] OTHER -> <<"\\", s[2]>>, Double(From(s, 3)))
      [] OTHER -> Joined(<<Head(s)>>, Double(Tail(s)))

\* How many backslashes a text starts with.
Lead(s) == Cardinality({j \in DOMAIN s : \A k \in 1..j : s[k] = "\\"})

\* "..." of the other shell: the inverse of QuoteWindows.
RECURSIVE DoubleCmd(_)
DoubleCmd(s) ==
    LET n == Lead(s)
        rest == From(s, n + 1)
        quote == rest # <<>> /\ Head(rest) = "\""
    IN CASE s = <<>> -> Fail
         [] n > 0 -> IF ~quote THEN Joined(Backslashes(n), DoubleCmd(rest))
                     ELSE IF n % 2 = 1 THEN Joined(Backslashes(n \div 2) \o <<"\"">>, DoubleCmd(Tail(rest)))
                     ELSE Joined(Backslashes(n \div 2), DoubleCmd(rest))
         [] n = 0 /\ quote -> IF Len(s) > 1 /\ s[2] = "\"" THEN Joined(<<"\"">>, DoubleCmd(From(s, 3)))
                              ELSE Piece(<<>>, Tail(s))
         [] n = 0 /\ s # <<>> /\ Head(s) = "%" ->
               Joined(<<"%">>, DoubleCmd(From(s, IF Len(s) > 1 /\ s[2] = "%" THEN 3 ELSE 2)))
         [] OTHER -> Joined(<<Head(s)>>, DoubleCmd(Tail(s)))

\* $'...'
RECURSIVE AnsiC(_)
AnsiC(s) ==
    CASE s = <<>> -> Fail
      [] s # <<>> /\ Head(s) = "'" -> Piece(<<>>, Tail(s))
      [] s # <<>> /\ Head(s) = "\\" ->
            IF Len(s) = 1 THEN Fail
            ELSE Joined(<<IF s[2] = "n" THEN "nl" ELSE IF s[2] = "r" THEN "cr" ELSE s[2]>>, AnsiC(From(s, 3)))
      [] OTHER -> Joined(<<Head(s)>>, AnsiC(Tail(s)))

SkipLineEnds(s) ==
    LET at == SelectInSeq(s, LAMBDA c : c \notin LineEnd) IN IF at = 0 THEN <<>> ELSE From(s, at)

\* tokenize: "cur" is the word being read, if "open".
RECURSIVE Words(_, _, _, _)
Words(s, dialect, cur, open) ==
    LET c == Head(s)
        next == IF Len(s) > 1 THEN s[2] ELSE "end"
        piece == CASE c = "'" -> Single(Tail(s))
                   [] c = "\"" -> IF dialect = "Cmd" THEN DoubleCmd(Tail(s)) ELSE Double(Tail(s))
                   [] c = "$" /\ next = "'" -> AnsiC(From(s, 3))
        later == IF c \in White THEN Words(Tail(s), dialect, <<>>, FALSE) ELSE Fail
    IN CASE s = <<>> -> [ok |-> TRUE, words |-> IF open THEN <<cur>> ELSE <<>>]
         [] s # <<>> /\ c \in {"\\", "^"} /\ next \in LineEnd -> Words(SkipLineEnds(Tail(s)), dialect, cur, open)
         [] s # <<>> /\ c \in White ->
               IF open /\ later.ok THEN [later EXCEPT !.words = <<cur>> \o @] ELSE later
         [] s # <<>> /\ (c \in {"'", "\""} \/ (c = "$" /\ next = "'")) ->
               IF piece.ok THEN Words(piece.rest, dialect, cur \o piece.text, TRUE) ELSE Fail
         [] s # <<>> /\ c = "\\" /\ next \notin LineEnd ->
               IF next \in White \cup {"'", "\"", "\\"}
               THEN Words(From(s, 3), dialect, Append(cur, next), TRUE)
               ELSE Words(Tail(s), dialect, Append(cur, "\\"), TRUE)
         [] OTHER -> Words(Tail(s), dialect, Append(cur, c), TRUE)

Tokenize(s) == Words(s, Dialect(s), <<>>, FALSE)

(***************************************************************************)
(* Reading the words: what they say is collected, then made a request      *)
(***************************************************************************)
DataFlags == {"-d", "--data", "--data-raw", "--data-ascii", "--data-binary"}
FormFlags == {"-F", "--form", "--form-string"}
HeaderFlags == {"-H", "--header"}
\* Options of the way a request is sent; these settings belong to the program.
RuntimeFlags == {"-k", "-L", "--compressed", "-o", "--max-time"}
RuntimeWithValue == {"-o", "--max-time"}
UnknownFlags == {"--unknown", "--limit-rate"}
UnknownWithValue == {"--limit-rate"}
ValueFlags == DataFlags \cup FormFlags \cup HeaderFlags \cup
              {"-X", "--request", "-A", "-e", "-b", "-u", "--url", "--data-urlencode", "--json"}
SwitchFlags == {"-G", "--get", "-I", "--head"}
LongFlags == {"--data", "--data-raw", "--data-binary", "--header", "--request", "--url", "--max-time",
              "--data-urlencode", "--limit-rate", "--form", "--json"}
Flags == ValueFlags \cup SwitchFlags \cup RuntimeFlags \cup UnknownFlags

Nothing == [method |-> "", url |-> <<>>, headers |-> <<>>, data |-> <<>>, file |-> <<>>, form |-> <<>>,
            get |-> FALSE, head |-> FALSE, warnings |-> 0, missing |-> FALSE]

Warn(c) == [c EXCEPT !.warnings = @ + 1]
AddHeader(c, key, value) == [c EXCEPT !.headers = Append(@, Field(key, value))]

\* parse_header: "Name;" is a header without a value, "Name:" takes a header away.
TakeHeader(c, raw) ==
    LET at == Find(raw, <<":">>)
        value == Trim(From(raw, at + 1))
    IN CASE at # 0 -> IF value = <<>> THEN Warn(c) ELSE AddHeader(c, Trim(Before(raw, at)), value)
         [] at = 0 /\ raw # <<>> /\ Last(raw) = ";" -> AddHeader(c, Trim(Front(raw)), <<>>)
         [] OTHER -> Warn(c)

\* The pieces before and after the first "="; without one, the second is empty.
KeyOf(s) == IF Has(s, "=") THEN Before(s, Find(s, <<"=">>)) ELSE s
ValueIn(s) == IF Has(s, "=") THEN From(s, Find(s, <<"=">>) + 1) ELSE <<>>

\* parse_form_field
FormField(raw, literal) ==
    LET value == ValueIn(raw)
        parts == Split(Tail(value), ";")
        at == SelectInSeq(parts, LAMBDA p : Trim(p) # <<>> /\ Head(Trim(p)) = "type=")
    IN IF ~literal /\ value # <<>> /\ Head(value) \in {"@", "<"}
       THEN [key |-> KeyOf(raw), value |-> Head(parts), on |-> TRUE, file |-> TRUE,
             type |-> IF at <= 1 THEN NoType ELSE Trim(Tail(Trim(parts[at])))]
       ELSE [key |-> KeyOf(raw), value |-> value, on |-> TRUE, file |-> FALSE, type |-> NoType]

\* urlencode_data: all but letters and digits of the value is escaped.
UrlEncodeData(raw) ==
    IF Has(raw, "=") /\ KeyOf(raw) # <<>>
    THEN KeyOf(raw) \o <<"=">> \o EncodedSegment(ValueIn(raw))
    ELSE EncodedSegment(IF Has(raw, "=") THEN ValueIn(raw) ELSE raw)

\* An option with its value.
TakeValue(c, flag, v) ==
    CASE flag \in {"-X", "--request"} ->
            IF Len(v) = 1 /\ v[1] \in Methods THEN [c EXCEPT !.method = v[1]] ELSE Warn(c)
      [] flag \in HeaderFlags -> TakeHeader(c, v)
      [] flag = "-A" -> AddHeader(c, <<"User-Agent">>, v)
      [] flag = "-e" -> AddHeader(c, <<"Referer">>, v)
      [] flag = "-b" -> IF Has(v, "=") THEN AddHeader(c, <<"Cookie">>, v) ELSE Warn(c)
      [] flag = "-u" -> AddHeader(c, <<"Authorization">>, <<"Basic", "base64">> \o v)
      [] flag = "--url" -> [c EXCEPT !.url = v]
      [] flag \in DataFlags ->
            IF v # <<>> /\ Head(v) = "@" /\ flag # "--data-raw"
            THEN [c EXCEPT !.file = Tail(v)] ELSE [c EXCEPT !.data = Append(@, v)]
      [] flag = "--data-urlencode" -> [c EXCEPT !.data = Append(@, UrlEncodeData(v))]
      [] flag = "--json" ->
            AddHeader(AddHeader([c EXCEPT !.data = Append(@, v)], ContentType, <<"application/json">>),
                      <<"Accept">>, <<"application/json">>)
      [] flag \in FormFlags -> [c EXCEPT !.form = Append(@, FormField(v, flag = "--form-string"))]

\* A word without a value: a switch, an option to skip, or the address.
TakeWord(c, word) ==
    CASE word \in {<<"-G">>, <<"--get">>} -> [c EXCEPT !.get = TRUE]
      [] word \in {<<"-I">>, <<"--head">>} -> [c EXCEPT !.head = TRUE]
      [] Head(word) \notin Flags -> IF c.url = <<>> THEN [c EXCEPT !.url = word] ELSE Warn(c)
      [] OTHER -> Warn(c)

\* from_argv: "--data=v" has its value in the word; an option that is skipped takes
\* its value along.
RECURSIVE Collect(_, _)
Collect(argv, c) ==
    LET word == Head(argv)
        inline == Len(word) > 1 /\ Head(word) \in LongFlags /\ word[2] = "="
        flag == Head(word)
        takes == flag \in ValueFlags \cup RuntimeWithValue \cup UnknownWithValue
                 /\ (inline \/ Len(word) = 1)
        rest == IF takes /\ ~inline THEN From(argv, 3) ELSE Tail(argv)
        value == IF inline THEN From(word, 3) ELSE argv[2]
    IN CASE argv = <<>> -> c
         [] argv # <<>> /\ word = <<>> -> Collect(Tail(argv), IF c.url = <<>> THEN c ELSE Warn(c))
         [] argv # <<>> /\ word # <<>> /\ flag \in ValueFlags /\ takes ->
               IF ~inline /\ Len(argv) = 1 THEN [c EXCEPT !.missing = TRUE]
               ELSE Collect(rest, TakeValue(c, flag, value))
         [] OTHER -> Collect(rest, TakeWord(c, word))

\* decode_plus: a plus is a space; escaped octets are left to the encoder.
DecodePlus(s) == Substituted(s, [c \in {"+"} |-> <<" ">>])

Assignment(s) == Field(DecodePlus(KeyOf(s)), DecodePlus(ValueIn(s)))

\* split_query: the query of the address and what -G moves there.
QueryRows(query, extra) ==
    LET parts == FlattenSeq([i \in 1..(1 + Len(extra)) |-> Split(IF i = 1 THEN query ELSE extra[i - 1], "&")])
        held == SelectSeq(parts, LAMBDA p : p # <<>>)
    IN SelectSeq([i \in DOMAIN held |-> Assignment(held[i])], LAMBDA r : r.key # <<>>)

Base(url) == IF Has(url, "?") THEN Before(url, Find(url, <<"?">>)) ELSE url
Query(url) == IF Has(url, "?") THEN From(url, Find(url, <<"?">>) + 1) ELSE <<>>

Declared(c) ==
    LET at == SelectInSeq(c.headers, LAMBDA h : h.key = ContentType) IN
    IF at = 0 THEN NoType ELSE c.headers[at].value

\* raw_format_for: the declared type, else the look of the text.
FormatFor(type, text) ==
    LET head == IF Trim(text) = <<>> THEN "" ELSE Head(Trim(text)) IN
    CASE type = <<"application/json">> -> "Json"
      [] type = <<"application/xml">> -> "Xml"
      [] type = <<"text/plain">> -> "Text"
      [] OTHER -> IF head \in {"{", "["} THEN "Json" ELSE IF head = "<" THEN "Xml" ELSE "Text"

RawBody(format, text) == [kind |-> "Raw", format |-> format, text |-> text]

\* Collected::body: a form, a file, or the data joined by "&".
CollectedBody(c) ==
    LET data == IF c.get THEN <<>> ELSE c.data
        text == Join(data, <<"&">>)
        type == Declared(c)
        pieces == Split(text, "&")
        form == type = <<"application/x-www-form-urlencoded">>
                  \/ (type = NoType /\ FormatFor(NoType, text) = "Text")
    IN CASE c.form # <<>> -> [kind |-> "FormData", rows |-> c.form]
         [] c.form = <<>> /\ c.file # <<>> -> [kind |-> "Binary", text |-> c.file, type |-> NoType]
         [] c.form = <<>> /\ c.file = <<>> ->
               IF data = <<>> THEN [kind |-> "None"]
               ELSE IF form /\ \A i \in DOMAIN pieces : Has(pieces[i], "=")
               THEN [kind |-> "UrlEncoded", rows |-> [i \in DOMAIN pieces |-> Assignment(pieces[i])]]
               ELSE RawBody(FormatFor(type, text), text)

\* The method that is given, else by -I, else by the body.
MethodOf(c, body) ==
    IF c.method # "" THEN c.method
    ELSE IF c.head THEN "HEAD" ELSE IF body.kind # "None" THEN "POST" ELSE "GET"

\* Collected::finish
Finish(c) ==
    LET url == Base(c.url)
        names == PathNames(url)
    IN [method |-> MethodOf(c, CollectedBody(c)), url |-> url,
        path |-> [i \in DOMAIN names |-> Field(names[i], <<>>)],
        params |-> QueryRows(Query(c.url), IF c.get THEN c.data ELSE <<>>),
        headers |-> c.headers, body |-> CollectedBody(c)]

Imported(c) ==
    IF c.missing THEN Refused("MissingValue")
    ELSE IF c.url = <<>> THEN Refused("MissingUrl")
    ELSE [ok |-> TRUE, draft |-> Finish(c), warnings |-> c.warnings]

\* The program comes first, maybe after a prompt.
ParseWords(words) ==
    LET argv == IF words # <<>> /\ words[1] = <<"$">> THEN Tail(words) ELSE words
    IN IF words = <<>> THEN Refused("Empty")
       ELSE IF argv = <<>> \/ argv[1] # <<"curl">> THEN Refused("NotCurl")
       ELSE Imported(Collect(Tail(argv), Nothing))

\* parse
ParseCut(cut) == IF cut.ok THEN ParseWords(cut.words) ELSE Refused("UnterminatedQuote")
ParseCommand(s) == ParseCut(Tokenize(s))

(***************************************************************************)
(* What the shell and curl make of a command                               *)
(***************************************************************************)
\* The text of a part of a form ends at a semicolon.
CurlPart(p) == IF p.file THEN p ELSE [p EXCEPT !.value = Split(@, ";")[1]]

CurlBody(c) ==
    CASE c.form # <<>> -> <<"Multipart", [i \in DOMAIN c.form |-> CurlPart(c.form[i])]>>
      [] c.form = <<>> /\ c.file # <<>> -> <<"File", c.file>>
      [] c.form = <<>> /\ c.file = <<>> /\ c.data # <<>> -> <<"Bytes", Join(c.data, <<"&">>)>>
      [] OTHER -> <<"Empty">>

\* Headers of its own, for those that are not given.
CurlDefaults(c) ==
    <<<<<<"Accept">>, <<"*/*">>>>, <<<<"User-Agent">>, <<"curl">>>>>>
      \o (IF c.data # <<>> \/ c.file # <<>> THEN <<<<ContentType, <<"application/x-www-form-urlencoded">>>>>> ELSE <<>>)

CurlSent(command, shell) ==
    LET cut == Words(command, IF shell = "Posix" THEN "Posix" ELSE "Cmd", <<>>, FALSE)
        c == Collect(Tail(cut.words), Nothing)
        given == [i \in DOMAIN c.headers |-> <<c.headers[i].key, c.headers[i].value>>]
    IN [method |-> MethodOf(c, CollectedBody(c)), url |-> c.url, body |-> CurlBody(c),
        headers |-> given \o SelectSeq(CurlDefaults(c), LAMBDA h : ~IsSet(given, h[1]))]
=============================================================================
