-------------------------------- MODULE Sse --------------------------------
(***************************************************************************)
(* Server-sent events (germal-core/src/sse.rs).  The parser is given the   *)
(* body in pieces that may be cut anywhere: it keeps the octets of the     *)
(* line that is not complete, and decodes whole lines only.  The parts of  *)
(* a reply of a language model are put together from the events.           *)
(*                                                                         *)
(* Symbols are octets; "hi" and "lo" are the two octets of one character,  *)
(* "wide", and "bad" is what an octet without its other half decodes to.   *)
(***************************************************************************)
EXTENDS Strings

CONSTANT JsonOf     \* the messages of the data that are JSON

NewParser == [buf |-> <<>>, event |-> <<>>, named |-> FALSE, data |-> <<>>]

\* from_utf8_lossy
Decoded(bytes) ==
    FlattenSeq([i \in DOMAIN bytes |->
        CASE bytes[i] = "hi" -> IF i < Len(bytes) /\ bytes[i + 1] = "lo" THEN <<"wide">> ELSE <<"bad">>
          [] bytes[i] = "lo" -> IF i > 1 /\ bytes[i - 1] = "hi" THEN <<>> ELSE <<"bad">>
          [] OTHER -> <<bytes[i]>>])

\* dispatch: an event without data is dropped, and its name with it.
Dispatch(out) ==
    [parser |-> [out.parser EXCEPT !.event = <<>>, !.named = FALSE, !.data = <<>>],
     events |-> IF out.parser.data = <<>> THEN out.events
                ELSE Append(out.events, [named |-> out.parser.named, event |-> out.parser.event,
                                         data |-> Join(out.parser.data, <<"nl">>)])]

\* take_line: a field is what stands before the first colon; a comment has none.
TakeLine(out, line) ==
    LET at == Find(line, <<":">>)
        field == IF at = 0 THEN line ELSE Before(line, at)
        raw == IF at = 0 THEN <<>> ELSE From(line, at + 1)
        value == IF raw # <<>> /\ Head(raw) = " " THEN Tail(raw) ELSE raw
    IN CASE line = <<>> -> Dispatch(out)
         [] line # <<>> /\ field = <<"data">> -> [out EXCEPT !.parser.data = Append(@, value)]
         [] line # <<>> /\ field = <<"event">> -> [out EXCEPT !.parser.event = value, !.parser.named = TRUE]
         [] OTHER -> out

WithoutReturn(bytes) == IF bytes # <<>> /\ Last(bytes) = "cr" THEN Front(bytes) ELSE bytes

\* Variant: what is left of the last line is forgotten.
PushWhole(parser, bytes) ==
    LET pieces == Split(bytes, "nl")
    IN FoldLeft(LAMBDA out, piece : TakeLine(out, Decoded(WithoutReturn(piece))),
                [parser |-> parser, events |-> <<>>], Front(pieces))

\* push: the lines that are complete by now; the rest waits for its end.
Push(parser, bytes) ==
    LET pieces == Split(parser.buf \o bytes, "nl")
    IN FoldLeft(LAMBDA out, piece : TakeLine(out, Decoded(WithoutReturn(piece))),
                [parser |-> [parser EXCEPT !.buf = Last(pieces)], events |-> <<>>], Front(pieces))

\* finish: what is left is a line; an event that lacks its empty line counts.
Finished(parser) ==
    LET out == [parser |-> [parser EXCEPT !.buf = <<>>], events |-> <<>>]
        taken == IF parser.buf = <<>> THEN out ELSE TakeLine(out, Decoded(parser.buf))
    IN IF taken.events # <<>> THEN taken ELSE Dispatch(taken)

\* parse_all: how the body of a response that is complete is shown.
ParseAll(bytes) == LET out == Push(NewParser, bytes) IN out.events \o Finished(out.parser).events

(***************************************************************************)
(* LlmStream                                                               *)
(***************************************************************************)
NewStream == [text |-> <<>>, input |-> "None", output |-> "None"]

Given(new, old) == IF new = "None" THEN old ELSE new

\* extract_delta: two formats hold the text at their own place.
Delta(message) ==
    IF message.choice # "None" THEN <<message.choice>>
    ELSE IF message.type \in {"output_text.delta", "content_block_delta"} /\ message.delta # "None"
    THEN <<message.delta>> ELSE <<>>

\* LlmStream::push: data that is no JSON is skipped; counts are replaced.
StreamPush(stream, event) ==
    LET message == JsonOf[event.data]
    IN IF event.data \notin DOMAIN JsonOf THEN stream
       ELSE [text |-> stream.text \o Delta(message),
             input |-> Given(message.input, stream.input), output |-> Given(message.output, stream.output)]

\* The return value of LlmStream::push: the event brought text.
Carries(event) == event.data \in DOMAIN JsonOf /\ Delta(JsonOf[event.data]) # <<>>

Replayed(events) == FoldLeft(StreamPush, NewStream, events)
=============================================================================
