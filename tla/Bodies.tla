------------------------------- MODULE Bodies -------------------------------
(***************************************************************************)
(* The body of a response as text (germal-core/src/body): what it is taken *)
(* for, the layout of JSON, the index of lines, the text between two       *)
(* places of a selection, and which view shows it.  Places are counted     *)
(* from 0 as in the code; the symbol at place p is s[p + 1].  A character  *)
(* of two octets is "hi" followed by "lo".                                 *)
(***************************************************************************)
EXTENDS Strings, Places

CONSTANTS
    Interval,       \* CHECK_INTERVAL: the piece after which a stop is looked for
    MaxLine,        \* MAX_LINE_CHARS: how much of a line is shown
    MaxIndent,      \* MAX_INDENT_DEPTH
    EditorBytes,    \* EDITOR_MAX_BYTES
    EditorLines     \* EDITOR_MAX_LINES

ASSUME BodiesAssumption == Interval \in Nat \ {0} /\ MaxIndent \in Nat

(***************************************************************************)
(* LineIndex: the places at which lines start, found piece by piece        *)
(***************************************************************************)
\* A line starts after every line end but the last octet of the text.
StartsOfPiece(s, first) ==
    LET end == IF first + Interval < Len(s) THEN first + Interval ELSE Len(s)
    IN InOrder({p \in (first + 1)..end : s[p] = "nl" /\ p < Len(s)})

Starts(s) ==
    IF s = <<>> THEN <<>>
    ELSE <<0>> \o FlattenSeq([k \in 1..((Len(s) + Interval - 1) \div Interval) |->
                                 StartsOfPiece(s, (k - 1) * Interval)])

\* span: a line with its end; lines are counted from 0.
Span(s, line) ==
    LET starts == Starts(s)
        end == IF line + 2 <= Len(starts) THEN starts[line + 2] ELSE Len(s)
    IN SubSeq(s, starts[line + 1] + 1, end)

(***************************************************************************)
(* TextDoc                                                                 *)
(***************************************************************************)
WithoutLast(s, c) == IF s # <<>> /\ Last(s) = c THEN Front(s) ELSE s

\* line: without its end.
Line(s, line) == WithoutLast(WithoutLast(Span(s, line), "nl"), "cr")

Boundary(s, col) == col >= Len(s) \/ s[col + 1] # "lo"

\* Variant: a place inside a character stays there.
OffsetInside(s, pos) ==
    LET starts == Starts(s)
        last == Len(starts) - 1
        line == IF pos.line > last THEN last ELSE pos.line
        length == Len(Line(s, line))
        col == IF pos.line > last \/ pos.col > length THEN length ELSE pos.col
    IN IF starts = <<>> THEN 0 ELSE starts[line + 1] + col

\* offset_of: a place past the end of a line or of the text is its end; one
\* inside a character is where the character starts.
OffsetOf(s, pos) ==
    LET starts == Starts(s)
        last == Len(starts) - 1
        line == IF pos.line > last THEN last ELSE pos.line
        length == Len(Line(s, line))
        col == IF pos.line > last \/ pos.col > length THEN length ELSE pos.col
    IN IF starts = <<>> THEN 0
       ELSE starts[line + 1] + (IF Boundary(Line(s, line), col) THEN col ELSE col - 1)

\* slice: the order of the two places does not matter.
Slice(s, a, b) ==
    LET x == OffsetOf(s, a)
        y == OffsetOf(s, b)
    IN IF x <= y THEN SubSeq(s, x + 1, y) ELSE SubSeq(s, y + 1, x)

\* trim_partial_utf8: a character cut at the end of what was kept is dropped,
\* unless there is something else wrong before it.
WholeUntil(s) ==
    LET wrong == {i \in DOMAIN s : \/ s[i] = "hi" /\ (i = Len(s) \/ s[i + 1] # "lo")
                                   \/ s[i] = "lo" /\ (i = 1 \/ s[i - 1] # "hi")}
    IN IF wrong = {} THEN Len(s) ELSE (CHOOSE i \in wrong : \A j \in wrong : i <= j) - 1

TrimPartial(s) == IF WholeUntil(s) = Len(s) - 1 /\ Last(s) = "hi" THEN Front(s) ELSE s

\* clip_line: at most so many characters, and how many octets are not shown.
CharStarts(s) == SelectSeq([i \in DOMAIN s |-> i - 1], LAMBDA p : Boundary(s, p))
ClipAt(s) == IF Len(CharStarts(s)) > MaxLine THEN CharStarts(s)[MaxLine + 1] ELSE Len(s)
ClipLine(s) == [text |-> Before(s, ClipAt(s) + 1), hidden |-> Len(s) - ClipAt(s)]

(***************************************************************************)
(* pretty_json: one pass that knows the depth and whether it is in a text  *)
(***************************************************************************)
\* A quote, and what takes its meaning away.
QuoteMark == "\""
Backslash == "\\"
Comma == ","
Opened == [c \in {"{", "["} |-> IF c = "{" THEN "}" ELSE "]"]
Closing == {"}", "]"}

Indent(depth) == <<"nl">> \o [i \in 1..(2 * (IF depth < MaxIndent THEN depth ELSE MaxIndent)) |-> " "]

Started == [out |-> <<>>, depth |-> 0, inText |-> FALSE, escaped |-> FALSE, pending |-> "none"]

\* Variant: a quote that is escaped ends the text.
InTextToQuote(st, c) == [st EXCEPT !.out = Append(@, c), !.inText = c # QuoteMark]

InText(st, c) ==
    [st EXCEPT !.out = Append(@, c), !.escaped = ~st.escaped /\ c = Backslash,
               !.inText = st.escaped \/ c # QuoteMark]

Outside(st, c) ==
    LET less == IF st.depth = 0 THEN 0 ELSE st.depth - 1
    IN CASE c = QuoteMark -> [st EXCEPT !.out = Append(@, c), !.inText = TRUE]
         [] c \in DOMAIN Opened -> [st EXCEPT !.out = Append(@, c), !.pending = Opened[c]]
         [] c \in Closing -> [st EXCEPT !.depth = less, !.out = Append(@ \o Indent(less), c)]
         [] c = Comma -> [st EXCEPT !.out = Append(@, c) \o Indent(st.depth)]
         [] c = ":" -> [st EXCEPT !.out = @ \o <<":", " ">>]
         [] OTHER -> [st EXCEPT !.out = Append(@, c)]

PrettyStep(st, c) ==
    LET settled == [st EXCEPT !.pending = "none"]
        deeper == [settled EXCEPT !.depth = @ + 1, !.out = @ \o Indent(st.depth + 1)]
    IN CASE st.inText -> InText(st, c)
         [] ~st.inText /\ c \in White -> st
         [] ~st.inText /\ c \notin White /\ st.pending = c -> [settled EXCEPT !.out = Append(@, c)]
         [] OTHER -> Outside(IF st.pending = "none" THEN st ELSE deeper, c)

Pretty(s) == FoldLeft(PrettyStep, Started, s).out

(***************************************************************************)
(* Which view shows it                                                     *)
(***************************************************************************)
\* select_tier
SelectTier(bytes, lines) == IF bytes <= EditorBytes /\ lines <= EditorLines THEN "Editor" ELSE "Virtual"
=============================================================================
