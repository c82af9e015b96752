----------------------------- MODULE Responses -----------------------------
(***************************************************************************)
(* What a response is shown as (germal-app/src/state/response.rs): the     *)
(* view of its body and the report of its operations once it is complete,  *)
(* and the text while it still arrives.                                    *)
(***************************************************************************)
EXTENDS Views, Operations

\* doc: the laid out text if it is asked for and there is one.
Shown(view, pretty) == IF pretty /\ view.pretty.shown THEN view.pretty ELSE view.raw

\* prepare_guarded: a panic of the operations costs their report only, one of the
\* view the response; after a cancel nothing is written back.
Prepared(response, ops, fault) ==
    LET report == IF On(ops) = <<>> \/ fault = "ops" THEN [given |-> FALSE]
                  ELSE [given |-> TRUE, report |-> RunPostOps(ops, response)]
    IN CASE fault = "cancelled" -> [outcome |-> "None"]
         [] fault = "view" -> [outcome |-> "Failed"]
         [] OTHER -> [outcome |-> "Done", view |-> View(response), ops |-> report]

(***************************************************************************)
(* What is shown while the body arrives (see Streams)                      *)
(***************************************************************************)
\* display_text: the text of the reply, else the octets so far.
DisplayText(live) == IF live.stream.text # <<>> THEN live.stream.text ELSE Lossy(TrimPartial(live.raw))
=============================================================================
