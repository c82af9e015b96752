------------------------------ MODULE Exchange ------------------------------
(***************************************************************************)
(* One tab of Germal sends requests, one after the other, and shows what   *)
(* comes back: send, apply_outcome, cancel, clear_response and save_body   *)
(* of germal-app/src/state/request_tab.rs, prepare_guarded and SseLive of  *)
(* state/response.rs, execute and Sink of germal-core/src/http/mod.rs, and *)
(* the spill files of body/spill.rs.                                       *)
(*                                                                         *)
(* A request runs on the tokio threads and talks to the UI thread through  *)
(* a bounded channel of events and its result.  On the UI thread two tasks *)
(* of a request, one reading the events and one waiting for the result,    *)
(* are polled in the order in which they were woken.  Handlers of the user *)
(* run between polls.  Replacing the response of the tab drops its tasks,  *)
(* and with them aborts the request, which goes on until it next awaits.   *)
(*                                                                         *)
(* A request is named by the generation it was sent under.  A chunk of a   *)
(* body is abstracted to whether it completes a content delta of an event  *)
(* stream.  Every request has pre- and post-operations, and every answer   *)
(* that is shown extracts variables.  Timings, headers, text views and     *)
(* messages are left out, and so is the tick that redraws the window.      *)
(***************************************************************************)
EXTENDS Naturals, Sequences, FiniteSets

CONSTANTS
  MaxGeneration,  \* bound: sends, cancels and clears
  MaxChunks,      \* bound: chunks of a body
  ChannelSize,    \* capacity of the event channel
  Threshold,      \* MAX_BODY_BYTES: chunks a body may have in memory
  LiveCap,        \* LIVE_CAP_BYTES: chunks that are parsed while they arrive
  MaxSaving,      \* bound: saves of bodies under way
  MaxSweeps       \* bound: other instances that start a day later

ASSUME ConstantsAssumption ==
  /\ {MaxGeneration, MaxChunks, Threshold, LiveCap, MaxSaving, MaxSweeps} \subseteq Nat
  /\ ChannelSize \in Nat \ {0}

VARIABLES
  generation,   \* RequestTab.generation
  response,     \* RequestTab.response
  live,         \* SseLive of the response while it is in flight
  sentOps,      \* the request whose pre_results and sent_post_ops are kept
  notice,       \* the response whose saving is reported, or None
  variables,    \* the request that wrote variables last
  ready,        \* UI tasks that were woken, first woken first
  chan,         \* the event channel of the request in flight
  exec,         \* exec[g]: how far request g is and what it has received
  saving,       \* saving[g]: where the saving of response g is
  files,        \* the spill files, by request
  dirOld,       \* the spill directory was not changed for a day
  sweeps

uiVars   == <<generation, response, live, sentOps, notice, variables>>
dirVars  == <<files, dirOld>>
vars     == <<uiVars, ready, chan, exec, saving, dirVars, sweeps>>

Request == 1..MaxGeneration
None    == 0

NoLive  == [on |-> FALSE, raw |-> 0, delta |-> FALSE]
Unsent  == [at |-> "none", sse |-> FALSE, got |-> 0, delta |-> 0, failed |-> FALSE]
Gone    == [Unsent EXCEPT !.at = "gone"]   \* nothing is left of it
Idle    == [kind |-> "idle", send |-> None, ops |-> None, ttft |-> FALSE]

\* Where a request owns a body it is receiving or has received.
Receiving == {"body", "forward", "report", "result", "prepare", "prepared"}
Place == {"none", "connect", "head", "gone"} \cup Receiving
Event == {"sse", "plain", "delta", "text", "progress"}
Task  == {"events", "result"}

Response == [kind : {"idle", "inflight", "done", "failed", "cancelled"},
             send : Request \cup {None}, ops : Request \cup {None}, ttft : BOOLEAN]
Live     == [on : BOOLEAN, raw : 0..LiveCap, delta : BOOLEAN]
Exec     == [at : Place, sse : BOOLEAN, got : 0..MaxChunks, delta : 0..MaxChunks,
             failed : BOOLEAN]

TypeOK ==
  /\ generation \in 0..MaxGeneration
  /\ response \in Response /\ live \in Live
  /\ sentOps \in Request \cup {None}
  /\ notice \in Request \cup {None} /\ variables \in Request \cup {None}
  /\ ready \in Seq(Task)
  /\ chan \in Seq(Event) /\ Len(chan) <= ChannelSize
  /\ exec \in [Request -> Exec]
  /\ saving \in [Request -> {"none", "dialog", "copy"}]
  /\ files \subseteq Request
  /\ dirOld \in BOOLEAN
  /\ sweeps \in 0..MaxSweeps

Init ==
  /\ generation = 0
  /\ response = Idle /\ live = NoLive
  /\ sentOps = None
  /\ notice = None /\ variables = None
  /\ ready = <<>> /\ chan = <<>>
  /\ exec = [g \in Request |-> Unsent]
  /\ saving = [g \in Request |-> "none"]
  /\ files = {} /\ dirOld = FALSE /\ sweeps = 0

-----------------------------------------------------------------------------
(* Tasks, bodies and their files *)

InFlight == response.kind = "inflight"
\* The tasks of request g have not been dropped.
Alive(g) == InFlight /\ response.send = g

Done(g)    == response.kind = "done" /\ response.send = g
Spilled(g) == exec[g].got > Threshold

\* Variant: save_body takes the path of the file, not the body.
HeldWithoutSave(g) ==
  \/ exec[g].at \in Receiving /\ ~exec[g].failed
  \/ Done(g)
\* Somebody owns the body of g: the request, the task that prepares its view,
\* the response, or a save (the body is shared by an Arc).
Held(g) ==
  \/ exec[g].at \in Receiving /\ ~exec[g].failed
  \/ Done(g)
  \/ saving[g] # "none"

\* A spill file goes with its last owner; a new one is created for the
\* requests of created.  Either makes the directory young again.
Owned(created) ==
  /\ files' = {g \in files \cup created : Held(g)'}
  /\ dirOld' = (dirOld /\ files' = files)

\* What becomes of the requests when the tab shows something else than a
\* response in flight: a result that was waiting for the UI is dropped.
Dropped ==
  [g \in Request |-> IF Alive(g) /\ exec[g].at \in {"result", "prepared"}
                     THEN Gone ELSE exec[g]]

\* How request g goes on: its result is dropped when nobody waits for it.
Onward(g, there, failed) ==
  IF Alive(g) THEN [exec[g] EXCEPT !.at = there, !.failed = failed] ELSE Gone

\* A UI task is woken; it stands in the queue once.
Wake(queue, task) ==
  IF \E i \in DOMAIN queue : queue[i] = task THEN queue ELSE Append(queue, task)

-----------------------------------------------------------------------------
(* The user *)

\* send: the request is prepared and goes out; the old response is dropped.
Send ==
  LET g == generation + 1
  IN  /\ ~InFlight
      /\ generation < MaxGeneration
      /\ generation' = g
      /\ response' = [Idle EXCEPT !.kind = "inflight", !.send = g]
      /\ live' = NoLive
      /\ sentOps' = g
      /\ notice' = None
      /\ ready' = <<>> /\ chan' = <<>>
      /\ exec' = [exec EXCEPT ![g].at = "connect"]
      /\ UNCHANGED <<variables, saving, sweeps>>
      /\ Owned({})

\* send: the request cannot be prepared; what is shown stays, with a message.
SendRefused ==
  /\ ~InFlight
  /\ sentOps' = None
  /\ UNCHANGED <<generation, response, live, notice, variables, ready, chan, exec,
                 saving, dirVars, sweeps>>

\* The response is replaced by one that is not in flight.
Supersede(kind) ==
  /\ generation < MaxGeneration
  /\ generation' = generation + 1
  /\ response' = [Idle EXCEPT !.kind = kind]
  /\ live' = NoLive
  /\ sentOps' = None
  /\ ready' = <<>> /\ chan' = <<>>
  /\ exec' = Dropped
  /\ UNCHANGED <<variables, saving, sweeps>>
  /\ Owned({})

Cancel ==
  /\ InFlight
  /\ Supersede("cancelled")
  /\ UNCHANGED notice

\* clear_response
Clear ==
  /\ response.kind # "idle"
  /\ Supersede("idle")
  /\ notice' = None

\* save_body clones the body, then asks for a file name.  Bound: MaxSaving saves
\* at a time, one of each response.
SaveBody ==
  /\ response.kind = "done" /\ saving[response.send] = "none"
  /\ Cardinality({g \in Request : saving[g] # "none"}) < MaxSaving
  /\ saving' = [saving EXCEPT ![response.send] = "dialog"]
  /\ UNCHANGED <<uiVars, ready, chan, exec, dirVars, sweeps>>

\* The name dialog of a save is cancelled ...
SaveAbandoned(g) ==
  /\ saving[g] = "dialog"
  /\ saving' = [saving EXCEPT ![g] = "none"]
  /\ UNCHANGED <<uiVars, ready, chan, exec, sweeps>>
  /\ Owned({})

\* ... or answered.
SaveChosen(g) ==
  /\ saving[g] = "dialog"
  /\ saving' = [saving EXCEPT ![g] = "copy"]
  /\ UNCHANGED <<uiVars, ready, chan, exec, dirVars, sweeps>>

\* Variant: the result is shown whatever the tab shows by now.
SaveReportedLate(g) ==
  /\ saving[g] = "copy"
  /\ saving' = [saving EXCEPT ![g] = "none"]
  /\ notice' = g
  /\ UNCHANGED <<generation, response, live, sentOps, variables,
                 ready, chan, exec, sweeps>>
  /\ Owned({})

\* The body was copied, or that failed: reported unless the tab moved on.
SaveDone(g) ==
  /\ saving[g] = "copy"
  /\ saving' = [saving EXCEPT ![g] = "none"]
  /\ notice' = IF generation = g THEN g ELSE notice
  /\ UNCHANGED <<generation, response, live, sentOps, variables,
                 ready, chan, exec, sweeps>>
  /\ Owned({})

-----------------------------------------------------------------------------
(* execute, on a tokio thread *)

At(g, here) == exec[g].at = here

\* try_send: an event that finds the channel full is left out.
Offer(g, event) ==
  IF Alive(g) /\ Len(chan) < ChannelSize
  THEN /\ chan' = Append(chan, event)
       /\ ready' = Wake(ready, "events")
  ELSE UNCHANGED <<chan, ready>>

\* Variant: nobody waits for room.
EmitBeyond(g, event) ==
  IF Alive(g)
  THEN /\ chan' = Append(chan, event)
       /\ ready' = Wake(ready, "events")
  ELSE UNCHANGED <<chan, ready>>

\* send().await: waits for room; a receiver that is gone is no obstacle.
Emit(g, event) ==
  IF Alive(g)
  THEN /\ Len(chan) < ChannelSize
       /\ chan' = Append(chan, event)
       /\ ready' = Wake(ready, "events")
  ELSE UNCHANGED <<chan, ready>>

\* The result is there: an error drops what was received.
Return(g, failed) ==
  /\ exec' = [exec EXCEPT ![g] = Onward(g, "result", failed)]
  /\ UNCHANGED <<uiVars, saving, sweeps>>
  /\ Owned({})

\* The server answers with its head.
Answered(g) ==
  /\ At(g, "connect")
  /\ \E sse \in BOOLEAN : exec' = [exec EXCEPT ![g].at = "head", ![g].sse = sse]
  /\ UNCHANGED <<uiVars, ready, chan, saving, dirVars, sweeps>>

SendHead(g) ==
  /\ At(g, "head")
  /\ Emit(g, IF exec[g].sse THEN "sse" ELSE "plain")
  /\ exec' = [exec EXCEPT ![g].at = "body"]
  /\ UNCHANGED <<uiVars, saving, dirVars, sweeps>>

\* A chunk arrives and is pushed into the sink, which moves to a spill file
\* when there is more than Threshold.
Chunk(g) ==
  LET n == exec[g].got + 1
      created == IF n = Threshold + 1 THEN {g} ELSE {}
  IN  /\ At(g, "body")
      /\ exec[g].got < MaxChunks
      /\ \E delta \in (IF exec[g].sse /\ exec[g].delta = 0 THEN {0, n} ELSE {exec[g].delta}) :
           exec' = [exec EXCEPT ![g].at = IF exec[g].sse THEN "forward" ELSE "report",
                                ![g].got = n, ![g].delta = delta]
      /\ UNCHANGED <<uiVars, ready, chan, saving, sweeps>>
      /\ Owned(created)

\* A chunk of an event stream is forwarded.
Forward(g) ==
  /\ At(g, "forward")
  /\ Emit(g, IF exec[g].delta = exec[g].got THEN "delta" ELSE "text")
  /\ exec' = [exec EXCEPT ![g].at = "report"]
  /\ UNCHANGED <<uiVars, saving, dirVars, sweeps>>

\* The progress is reported after a chunk when the last report is old enough.
Report(g) ==
  /\ At(g, "report")
  /\ Offer(g, "progress") \/ UNCHANGED <<chan, ready>>
  /\ exec' = [exec EXCEPT ![g].at = "body"]
  /\ UNCHANGED <<uiVars, saving, dirVars, sweeps>>

\* The end of the body: the progress is reported, the sink is finished.
Finish(g, failed) ==
  /\ At(g, "body")
  /\ IF Alive(g)
     THEN IF Len(chan) < ChannelSize
          THEN /\ chan' = Append(chan, "progress")
               /\ ready' = Wake(Wake(ready, "events"), "result")
          ELSE ready' = Wake(ready, "result") /\ UNCHANGED chan
     ELSE UNCHANGED <<chan, ready>>
  /\ Return(g, failed)

\* The connection, the body or the spill file fails.
Fail(g) ==
  /\ At(g, "connect") \/ At(g, "body")
  /\ ready' = IF Alive(g) THEN Wake(ready, "result") ELSE ready
  /\ UNCHANGED chan
  /\ Return(g, TRUE)

\* Variant: dropping the task does not abort the request.
NeverAborts(g) == FALSE

\* The abort of a request nobody waits for reaches it where it awaits.
Abort(g) ==
  /\ ~Alive(g)
  /\ exec[g].at \in {"connect", "head", "body", "forward"}
  /\ exec' = [exec EXCEPT ![g] = Gone]
  /\ UNCHANGED <<uiVars, ready, chan, saving, sweeps>>
  /\ Owned({})

-----------------------------------------------------------------------------
(* The tasks of a response in flight, on the UI thread *)

\* SseLive::push
Parsed(l, event) ==
  IF event \in {"delta", "text"} /\ l.on /\ l.raw < LiveCap
  THEN [l EXCEPT !.raw = l.raw + 1, !.delta = l.delta \/ event = "delta"]
  ELSE l

\* progress_task: one event after the other until the channel is empty.
PollEvents ==
  /\ ready # <<>> /\ Head(ready) = "events"
  /\ chan # <<>>
  /\ live' = IF Head(chan) = "sse" THEN [NoLive EXCEPT !.on = TRUE]
             ELSE Parsed(live, Head(chan))
  /\ chan' = Tail(chan)
  /\ ready' = IF Len(chan) = 1 THEN Tail(ready) ELSE ready
  /\ UNCHANGED <<generation, response, sentOps, notice, variables,
                 exec, saving, dirVars, sweeps>>

\* completion_task: the body goes to a background thread.
PollResult(g) ==
  /\ Alive(g) /\ ready # <<>> /\ Head(ready) = "result"
  /\ At(g, "result") /\ ~exec[g].failed
  /\ exec' = [exec EXCEPT ![g].at = "prepare"]
  /\ ready' = Tail(ready)
  /\ UNCHANGED <<uiVars, chan, saving, dirVars, sweeps>>

\* prepare_guarded: a view, or an error when it panics.  It runs on when its
\* task is dropped, to its end or to the next check of the cancel flag.
Prepared(g, failed) ==
  /\ At(g, "prepare")
  /\ exec' = [exec EXCEPT ![g] = Onward(g, "prepared", failed)]
  /\ ready' = IF Alive(g) THEN Wake(ready, "result") ELSE ready
  /\ UNCHANGED <<uiVars, chan, saving, sweeps>>
  /\ Owned({})

\* Variant: the task is detached and does not ask whose answer it has.
ArrivesAnyway(g) ==
  \/ At(g, "prepared")
  \/ At(g, "result") /\ exec[g].failed
  \/ exec[g].at = "gone" /\ ~Alive(g)

\* The completion task of g is polled and has something to write back.
Arrives(g) ==
  /\ Alive(g) /\ ready # <<>> /\ Head(ready) = "result"
  /\ At(g, "prepared") \/ (At(g, "result") /\ exec[g].failed)
  /\ generation = g

\* The moment of the first delta is merged into the view of an event stream.
TimeToFirst(g) == exec[g].sse /\ ~Spilled(g) /\ live.delta

\* apply_outcome: the answer is shown, its extracted variables are written.
ApplyOutcome(g) ==
  /\ Arrives(g)
  /\ response' = IF exec[g].failed
                 THEN [Idle EXCEPT !.kind = "failed", !.send = g, !.ops = sentOps]
                 ELSE [kind |-> "done", send |-> g, ops |-> sentOps, ttft |-> TimeToFirst(g)]
  /\ variables' = IF exec[g].failed THEN variables ELSE g
  /\ sentOps' = None
  /\ live' = NoLive
  /\ ready' = <<>> /\ chan' = <<>>
  /\ exec' = [exec EXCEPT ![g].at = "gone"]
  /\ UNCHANGED <<generation, notice, saving, sweeps>>
  /\ Owned({})

-----------------------------------------------------------------------------
(* Other instances of the program *)

\* A day passes without a new or removed spill file.
Day ==
  /\ sweeps < MaxSweeps
  /\ files # {} /\ ~dirOld
  /\ dirOld' = TRUE
  /\ UNCHANGED <<uiVars, ready, chan, exec, saving, files, sweeps>>

\* sweep_stale_session_dirs of an instance that starts now.
Sweep ==
  /\ sweeps < MaxSweeps
  /\ dirOld
  /\ files' = {} /\ dirOld' = FALSE
  /\ sweeps' = sweeps + 1
  /\ UNCHANGED <<uiVars, ready, chan, exec, saving>>

-----------------------------------------------------------------------------
User == \/ Send \/ SendRefused \/ Cancel \/ Clear \/ SaveBody
        \/ \E g \in Request : SaveAbandoned(g) \/ SaveChosen(g)

Server(g) == Answered(g) \/ Chunk(g) \/ Fail(g) \/ \E failed \in BOOLEAN : Finish(g, failed)

Runs(g) == \/ SendHead(g) \/ Forward(g) \/ Report(g) \/ Abort(g) \/ SaveDone(g)
           \/ \E failed \in BOOLEAN : Prepared(g, failed)

Polls == PollEvents \/ \E g \in Request : PollResult(g) \/ ApplyOutcome(g)

Next == \/ User \/ Polls \/ Day \/ Sweep
        \/ \E g \in Request : Server(g) \/ Runs(g)

Spec == Init /\ [][Next]_vars

\* Threads are scheduled; neither the server nor the user need do anything.
FairSpec == /\ Spec
            /\ WF_vars(Polls)
            /\ \A g \in Request : WF_vars(Runs(g))

-----------------------------------------------------------------------------
(* Properties *)

\* What the tab shows is the answer to its last request, with the results of
\* that request's own operations, and variables were written last by it; an
\* answer that is late never comes through ("a late response must not
\* overwrite the new state", apply_outcome).
ShownIsCurrent ==
  /\ response.kind \in {"inflight", "done", "failed"} => response.send = generation
  /\ response.kind \in {"done", "failed"} => response.ops = generation
  /\ response.kind = "done" => variables = generation

\* A save that took longer than the response it saved is not reported beside
\* another one ("already sent again", save_body).
NoticeBelongs == notice # None => Done(notice)

\* All that a tab shows beside its request belongs to the last send, whichever of
\* the earlier sends and saves still run and whenever they end (the generation
\* that apply_outcome and save_body compare).
ShownBelongs == ShownIsCurrent /\ NoticeBelongs

\* The response of an event stream knows when its first delta came ("merged
\* from the response in flight", SseView): the task that reads the events is
\* never overtaken by the one that waits for the result, and no chunk is lost
\* in the channel.
FirstDeltaKnown ==
  \A g \in Request :
    Done(g) /\ exec[g].sse /\ ~Spilled(g) /\ exec[g].delta \in 1..LiveCap => response.ttft

\* As long as no other instance swept the directory, the file of a spilled body
\* is there while the response is shown or saved, after the tab went on too.
SpillFileKept ==
  sweeps = 0 => \A g \in Request : Spilled(g) /\ (Done(g) \/ saving[g] # "none") => g \in files

\* "Isolated by process, instances do not affect each other" (session_dir).
InstancesIsolated ==
  \A g \in Request : Spilled(g) /\ Done(g) => g \in files

\* Cancelling or clearing ends the request and frees its file without any help
\* of the server, unless it is being saved ("clearing is there to release",
\* clear_response).
Ended(g) == exec[g].at \in {"none", "gone"} /\ g \notin files
Released ==
  \A g \in Request : generation > g ~> Ended(g) \/ saving[g] # "none"

-----------------------------------------------------------------------------
(* The inductive invariant behind the properties above *)

\* A request that has not been sent, or not been answered, has received nothing;
\* it fails at its end only.
Progressing ==
  \A g \in Request :
    /\ g > generation => exec[g] = Unsent
    /\ exec[g].at \in {"none", "connect", "head"} => exec[g].got = 0
    /\ exec[g].failed => exec[g].at \in {"result", "prepared", "gone"}

\* A save belongs to an earlier response, or to the one that is shown.
SavesBehind ==
  \A g \in Request : saving[g] # "none" => g < generation \/ Done(g)

\* Every spilled body that somebody owns has its file.
FilesOwned ==
  sweeps = 0 => \A g \in Request : Spilled(g) /\ Held(g) => g \in files

IInv == /\ TypeOK /\ ShownIsCurrent /\ NoticeBelongs
        /\ InFlight => sentOps = generation
        /\ Progressing /\ SavesBehind /\ FilesOwned

=============================================================================
