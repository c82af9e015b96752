------------------------------ MODULE Streams ------------------------------
(***************************************************************************)
(* A stream of events while it arrives (germal-app/src/state/response.rs:  *)
(* SseLive) and the view of it once it is complete (SseView).  The octets  *)
(* come in chunks that are cut anywhere.                                   *)
(***************************************************************************)
EXTENDS Bodies, Sse

CONSTANTS
    Octets,
    MaxChunk,       \* bound: the octets of a chunk
    MaxStream,      \* bound: the octets of a stream
    LiveBytes       \* LIVE_CAP_BYTES: where the live view stops

ASSUME StreamsAssumption ==
    MaxChunk \in Nat /\ MaxStream \in Nat /\ LiveBytes \in Nat

VARIABLES
    arrived,    \* the octets that came
    sse         \* SseLive

streamVars == <<arrived, sse>>

NoDoc == [shown |-> FALSE]

\* PreparedDoc::new
Doc(text, spilled) ==
    [shown |-> TRUE, text |-> text,
     tier |-> IF spilled THEN "Preview" ELSE SelectTier(Len(text), Len(Starts(text)))]

\* SseView::prepare: the events of the whole body once more.
SseView(body) ==
    LET events == ParseAll(body)
        stream == Replayed(events)
    IN [shown |-> TRUE, events |-> events, input |-> stream.input, output |-> stream.output,
        doc |-> IF stream.text = <<>> THEN NoDoc ELSE Doc(stream.text, FALSE)]

NewLive == [parser |-> NewParser, stream |-> NewStream, count |-> 0, first |-> 0, raw |-> <<>>]

\* push: nothing is taken once the cap is reached; the first event that brings text
\* is timed.
LivePush(shown, chunk, elapsed) ==
    LET out == Push(shown.parser, chunk)
        brings == \E i \in DOMAIN out.events : Carries(out.events[i])
    IN IF Len(shown.raw) >= LiveBytes THEN shown
       ELSE [parser |-> out.parser, stream |-> FoldLeft(StreamPush, shown.stream, out.events),
             count |-> shown.count + Len(out.events),
             first |-> IF shown.first = 0 /\ brings THEN elapsed ELSE shown.first,
             raw |-> shown.raw \o chunk]

StreamInit == arrived = <<>> /\ sse = NewLive

\* A chunk arrives.
Receive ==
    \E n \in 1..MaxChunk : \E chunk \in [1..n -> Octets] :
        /\ Len(arrived) + n <= MaxStream
        /\ arrived' = arrived \o chunk
        /\ sse' = LivePush(sse, chunk, 1)

StreamSpec == StreamInit /\ [][Receive]_streamVars

-----------------------------------------------------------------------------
\* What is shown of a stream depends on the octets that arrived, not on how they
\* were cut, up to the cap; and the view of the complete body goes on from it
\* (sse.rs: push; state/response.rs: SseLive, SseView).
ChunksDoNotMatter ==
    LET events == Push(NewParser, sse.raw).events
        view == SseView(sse.raw)
    IN /\ IsPrefix(sse.raw, arrived)
       /\ sse.raw # arrived => Len(sse.raw) >= LiveBytes
       /\ sse.stream = Replayed(events) /\ sse.count = Len(events)
       /\ (sse.first # 0) = (sse.stream.text # <<>>)
       /\ IsPrefix(events, view.events)
       /\ sse.stream.text # <<>> => IsPrefix(sse.stream.text, view.doc.text)
=============================================================================
