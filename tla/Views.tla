------------------------------- MODULE Views -------------------------------
(***************************************************************************)
(* What a body is taken for (detect.rs) and the view of it that is         *)
(* prepared once it is complete (germal-app/src/state/response.rs), for    *)
(* texts that are written character by character.                          *)
(*                                                                         *)
(* The octets of a body are symbols: "NUL", "hi" and "lo" are octets, all  *)
(* the others are characters.                                              *)
(***************************************************************************)
EXTENDS Streams

CONSTANTS
    HeadBytes,      \* HEAD_BYTES: how much of a body in a file is shown
    SniffLen,       \* SNIFF_LEN: how much of a body is looked at
    Ascii,          \* the characters of one octet
    Alphabets,      \* the sets of characters texts are written with
    MaxText,        \* bound: the octets of a text
    MaxPlace        \* bound: the lines and columns of a place

Characters == {<<c>> : c \in Ascii} \cup {<<"hi", "lo">>}

ASSUME ViewsAssumption ==
    /\ HeadBytes \in Nat /\ SniffLen \in Nat /\ MaxText \in Nat /\ MaxPlace \in Nat
    /\ Ascii \cap {"NUL", "hi", "lo"} = {} /\ Alphabets \subseteq SUBSET Characters

VARIABLES
    content,    \* a text
    alphabet    \* the characters it is written with

contentVars == <<content, alphabet>>

(***************************************************************************)
(* detect                                                                  *)
(***************************************************************************)
\* What media types say; "event-stream" is one of the text types.
Declares == [t \in {"html", "json", "xml", "text", "event-stream", "image"} |->
               CASE t = "html" -> "Html" [] t = "json" -> "Json" [] t = "xml" -> "Xml"
                 [] t \in {"text", "event-stream"} -> "Text" [] t = "image" -> "Binary"]

\* sniff: octets that are no text make it binary, unless only the end is missing.
Sniff(bytes) ==
    LET seen == Before(bytes, 1 + IF Len(bytes) < SniffLen THEN Len(bytes) ELSE SniffLen)
        cut == WholeUntil(seen) = Len(seen) \/ TrimPartial(seen) # seen
        first == SelectInSeq(seen, LAMBDA c : c \notin White)
    IN CASE seen = <<>> -> "Text"
         [] seen # <<>> /\ (Has(seen, "NUL") \/ ~cut) -> "Binary"
         [] OTHER -> IF first = 0 THEN "Text"
                     ELSE IF seen[first] \in DOMAIN Opened THEN "Json"
                     ELSE IF seen[first] # "<" THEN "Text"
                     ELSE IF Has(seen, "html") THEN "Html" ELSE "Xml"

Detect(type, bytes) == IF type \in DOMAIN Declares THEN Declares[type] ELSE Sniff(bytes)

(***************************************************************************)
(* The view of a body that is complete                                     *)
(***************************************************************************)
\* from_bytes: octets that are no text are replaced.
Lossy(bytes) ==
    FlattenSeq([i \in DOMAIN bytes |->
        CASE bytes[i] = "hi" /\ (i = Len(bytes) \/ bytes[i + 1] # "lo") -> <<"bad">>
          [] bytes[i] = "lo" /\ (i = 1 \/ bytes[i - 1] # "hi") -> <<"bad">>
          [] OTHER -> <<bytes[i]>>])

\* prepare_cancellable: binary octets are not shown; of a body in a file its head.
View(response) ==
    LET kind == Detect(response.type, response.bytes)
        head == Before(response.bytes, 1 + IF Len(response.bytes) < HeadBytes THEN Len(response.bytes) ELSE HeadBytes)
        memory == kind # "Binary" /\ ~response.spilled
    IN [kind |-> kind,
        raw |-> CASE kind = "Binary" -> NoDoc
                  [] memory -> Doc(Lossy(response.bytes), FALSE)
                  [] OTHER -> Doc(Lossy(TrimPartial(head)), TRUE),
        pretty |-> IF memory /\ kind = "Json" THEN Doc(Lossy(Pretty(response.bytes)), FALSE) ELSE NoDoc,
        sse |-> IF memory /\ response.type = "event-stream" THEN SseView(response.bytes) ELSE NoDoc]

(***************************************************************************)
(* A text is written                                                       *)
(***************************************************************************)
ContentInit == content = <<>> /\ alphabet \in Alphabets

WriteCharacter ==
    /\ Len(content) < MaxText
    /\ \E c \in alphabet : content' = content \o c
    /\ UNCHANGED alphabet

ContentSpec == ContentInit /\ [][WriteCharacter]_contentVars

-----------------------------------------------------------------------------
Places == [line : 0..MaxPlace, col : 0..MaxPlace]
NotAfter(a, b) == a.line < b.line \/ (a.line = b.line /\ a.col <= b.col)
Origin == [line |-> 0, col |-> 0]

\* Lines end where the text has a line end or stops, and put together they are
\* the text.
LinesJoin(s) ==
    LET lines == [i \in DOMAIN Starts(s) |-> Span(s, i - 1)]
    IN /\ FlattenSeq(lines) = s
       /\ \A i \in DOMAIN lines : lines[i] # <<>> /\ ~Has(Front(lines[i]), "nl")

\* What is selected up to a place and from it on is what is selected at once, and
\* no character is cut.
SelectionsJoin(s) ==
    \A a, b \in Places :
        NotAfter(a, b) =>
            LET selected == Slice(s, a, b)
            IN /\ Slice(s, Origin, a) \o selected = Slice(s, b, Origin)
               /\ WholeUntil(selected) = Len(selected)

\* The head of a text is a text: it is not taken for binary, and shows its start.
HeadIsText(s) ==
    \A n \in 0..Len(s) :
        LET view == View([type |-> "none", bytes |-> Before(s, n + 1), spilled |-> TRUE])
        IN view.kind # "Binary" /\ IsPrefix(view.raw.text, s)

\* A text without the white space that is outside its quotes.
Unquoted == [out |-> <<>>, escaped |-> FALSE, quoted |-> FALSE]

Squeeze(st, c) ==
    IF ~st.quoted /\ c \in White THEN st
    ELSE [out |-> Append(st.out, c), escaped |-> st.quoted /\ ~st.escaped /\ c = Backslash,
          quoted |-> IF c = QuoteMark /\ ~st.escaped THEN ~st.quoted ELSE st.quoted]

Squeezed(s) == FoldLeft(Squeeze, Unquoted, s).out

\* Nothing of a text is lost or changed on the way to the screen: by its index of
\* lines, by a selection, by the cut at the head of a file, by the layout of JSON
\* (body/line_index.rs, body/text.rs, detect.rs, body/pretty.rs).
TextsStayWhole ==
    /\ LinesJoin(content) /\ SelectionsJoin(content) /\ HeadIsText(content)
    /\ Squeezed(Pretty(content)) = Squeezed(content)
=============================================================================
