----------------------------- MODULE LoadTest ------------------------------
(***************************************************************************)
(* Germal's load test: run_live and Progress of germal-core/src/           *)
(* loadtest.rs, driven by the panel LoadSheet (germal-app/src/ui/          *)
(* load_sheet.rs).                                                         *)
(*                                                                         *)
(* Workers on the tokio threads share three counters, each updated         *)
(* atomically and on its own, and the records behind a mutex.  The UI      *)
(* thread takes snapshots of them while the workers go on: under the mutex *)
(* it reads the records, then one counter, then the other.  Loads and      *)
(* stores are sequentially consistent here; the code asks for less         *)
(* (Ordering::Relaxed).                                                    *)
(*                                                                         *)
(* A latency is abstracted to the number of its record; status codes,      *)
(* error kinds, percentiles and the lookup of the host are left out.  No   *)
(* worker panics.                                                          *)
(***************************************************************************)
EXTENDS Naturals, Sequences, FiniteSets

CONSTANTS
  Worker,       \* worker tasks of a test with the largest concurrency
  MaxRequests,  \* the largest number of requests of a test
  MaxSamples,   \* MAX_SAMPLES: latencies kept
  MaxRuns       \* bound: tests started

ASSUME ConstantsAssumption ==
  /\ IsFiniteSet(Worker)
  /\ MaxRequests \in Nat /\ MaxRuns \in Nat
  /\ MaxSamples \in Nat \ {0}

VARIABLES
  phase,     \* LoadSheet.phase
  report,    \* LoadSheet.report
  reader,    \* what the UI thread reads next of a snapshot it is taking
  view,      \* what it has read so far
  aborted,   \* the task of the test was dropped
  runs,      \* tests started so far
  planned,   \* requests this test is to send
  crew,      \* the workers spawned for it, as many as its concurrency
  pc,        \* where each worker of the test is
  next,      \* the shared request counter of run_live
  sent, inFlight,  \* Progress.sent, Progress.in_flight
  seen, stride, lat   \* Progress.inner: records so far, the latencies kept

sheetVars    == <<phase, report, reader, view, aborted, runs, planned, crew>>
progressVars == <<sent, inFlight, seen, stride, lat>>
vars == <<sheetVars, progressVars, pc, next>>

Empty == [sent |-> 0, total |-> 0, inFlight |-> 0]
Report == [sent : Nat, total : Nat, inFlight : Nat]

TypeOK ==
  /\ phase \in {"idle", "running", "done", "cancelled", "failed"}
  /\ report \in Report /\ view \in Report
  /\ reader \in {"none", "sent", "inFlight"}
  /\ aborted \in BOOLEAN
  /\ runs \in 0..MaxRuns
  /\ planned \in 0..MaxRequests
  /\ crew \subseteq Worker
  /\ pc \in [Worker -> {"start", "take", "sent", "enter", "wait", "leave", "record", "end"}]
  /\ next \in Nat
  /\ sent \in 0..MaxRequests /\ inFlight \in Nat
  /\ seen \in 0..MaxRequests
  /\ stride \in Nat \ {0}
  /\ lat \in Seq(Nat)

-----------------------------------------------------------------------------
\* Progress::new
Fresh(n) ==
  /\ planned' = n
  /\ next' = 0 /\ sent' = 0 /\ inFlight' = 0
  /\ seen' = 0 /\ stride' = 1 /\ lat' = <<>>

Init ==
  /\ phase = "idle" /\ report = Empty
  /\ reader = "none" /\ view = Empty
  /\ aborted = FALSE /\ runs = 0
  /\ pc = [w \in Worker |-> "end"]
  /\ planned = 0 /\ crew = {} /\ next = 0 /\ sent = 0 /\ inFlight = 0
  /\ seen = 0 /\ stride = 1 /\ lat = <<>>

\* The UI thread is not in the middle of a snapshot.
Idle == reader = "none"

-----------------------------------------------------------------------------
(* LoadSheet, on the UI thread *)

\* start: a number of requests and a concurrency were given.  Workers of an
\* earlier test that have not noticed their abort keep that test's Progress,
\* which nothing reads any more.
Start(n, workers) ==
  /\ Idle /\ phase # "running"
  /\ runs < MaxRuns
  /\ runs' = runs + 1
  /\ phase' = "running"
  /\ report' = Empty
  /\ aborted' = FALSE
  /\ Fresh(n)
  /\ crew' = workers
  /\ pc' = [w \in Worker |-> IF w \in workers THEN "start" ELSE "end"]
  /\ UNCHANGED <<reader, view>>

\* fail: the numbers or the request are not valid.
Fail ==
  /\ Idle /\ phase # "running"
  /\ phase' = "failed"
  /\ UNCHANGED <<report, reader, view, aborted, runs, planned, crew, progressVars, pc, next>>

\* set_target forgets the last result.
SetTarget ==
  /\ Idle /\ phase # "running"
  /\ phase' = "idle"
  /\ report' = Empty
  /\ UNCHANGED <<reader, view, aborted, runs, planned, crew, progressVars, pc, next>>

\* Progress::snapshot takes the mutex and reads the records first.
BeginSnapshot ==
  /\ Idle /\ phase = "running"
  /\ reader' = "sent"
  /\ view' = [Empty EXCEPT !.total = seen]

\* The ticker takes a snapshot every TICK while the test runs.
Tick ==
  /\ BeginSnapshot
  /\ UNCHANGED <<phase, report, aborted, runs, planned, crew, progressVars, pc, next>>

\* Variant: the panel forgets to drop the task.
CancelKeepsTask ==
  /\ BeginSnapshot
  /\ phase' = "cancelled"
  /\ UNCHANGED <<report, aborted, runs, planned, crew, progressVars, pc, next>>

\* cancel drops the task, then takes a last snapshot.
Cancel ==
  /\ BeginSnapshot
  /\ phase' = "cancelled"
  /\ aborted' = TRUE
  /\ UNCHANGED <<report, runs, planned, crew, progressVars, pc, next>>

ReadSent ==
  /\ reader = "sent"
  /\ view' = [view EXCEPT !.sent = sent]
  /\ reader' = "inFlight"
  /\ UNCHANGED <<phase, report, aborted, runs, planned, crew, progressVars, pc, next>>

ReadInFlight ==
  /\ reader = "inFlight"
  /\ view' = [view EXCEPT !.inFlight = inFlight]
  /\ report' = view'
  /\ reader' = "none"
  /\ UNCHANGED <<phase, aborted, runs, planned, crew, progressVars, pc, next>>

\* Variant: the result is taken when one worker is done.
CompleteEarly ==
  /\ Idle /\ phase = "running"
  /\ \E w \in Worker : pc[w] = "end"
  /\ phase' = "done"
  /\ report' = [sent |-> sent, total |-> seen, inFlight |-> inFlight]
  /\ UNCHANGED <<reader, view, aborted, runs, planned, crew, progressVars, pc, next>>

\* Every worker has been joined; run_live's own snapshot, of counters that do
\* not change any more, is the result that the panel shows.
Complete ==
  /\ Idle /\ phase = "running"
  /\ \A w \in Worker : pc[w] = "end"
  /\ phase' = "done"
  /\ report' = [sent |-> sent, total |-> seen, inFlight |-> inFlight]
  /\ UNCHANGED <<reader, view, aborted, runs, planned, crew, progressVars, pc, next>>

-----------------------------------------------------------------------------
(* The workers of run_live *)

At(w, here)   == pc[w] = here
GoTo(w, there) == pc' = [pc EXCEPT ![w] = there]

Spawned(w) ==
  /\ At(w, "start")
  /\ GoTo(w, "take")
  /\ UNCHANGED <<sheetVars, progressVars, next>>

\* Variant: one request too many.
TakeOneMore(w) ==
  /\ At(w, "take")
  /\ next' = next + 1
  /\ GoTo(w, IF next <= planned THEN "sent" ELSE "end")
  /\ UNCHANGED <<sheetVars, progressVars>>

\* next.fetch_add(1) < total
Take(w) ==
  /\ At(w, "take")
  /\ next' = next + 1
  /\ GoTo(w, IF next < planned THEN "sent" ELSE "end")
  /\ UNCHANGED <<sheetVars, progressVars>>

CountSent(w) ==
  /\ At(w, "sent")
  /\ sent' = sent + 1
  /\ GoTo(w, "enter")
  /\ UNCHANGED <<sheetVars, inFlight, seen, stride, lat, next>>

EnterFlight(w) ==
  /\ At(w, "enter")
  /\ inFlight' = inFlight + 1
  /\ GoTo(w, "wait")
  /\ UNCHANGED <<sheetVars, sent, seen, stride, lat, next>>

\* execute returns a response or a transport failure.
Answered(w) ==
  /\ At(w, "wait")
  /\ GoTo(w, "leave")
  /\ UNCHANGED <<sheetVars, progressVars, next>>

\* Variant: in_flight is not counted down.
LeaveUncounted(w) ==
  /\ At(w, "leave")
  /\ GoTo(w, "record")
  /\ UNCHANGED <<sheetVars, progressVars, next>>

LeaveFlight(w) ==
  /\ At(w, "leave")
  /\ inFlight' = inFlight - 1
  /\ GoTo(w, "record")
  /\ UNCHANGED <<sheetVars, sent, seen, stride, lat, next>>

\* Variant: the odd places are kept.
FirstOfPairs(samples) == [i \in 1..(Len(samples) \div 2) |-> samples[2 * i - 1]]
\* lat.retain: one sample in two stays, the second of each pair.
Halved(samples) == [i \in 1..(Len(samples) \div 2) |-> samples[2 * i]]

IsMultipleOf(n, k) == \E q \in 0..n : n = q * k

\* A latency is kept when its number is a multiple of the stride; a full store
\* is halved and the stride doubled.
Sample(n) ==
  IF IsMultipleOf(n, stride)
  THEN IF Len(lat) + 1 >= MaxSamples
       THEN lat' = Halved(Append(lat, n)) /\ stride' = 2 * stride
       ELSE lat' = Append(lat, n) /\ stride' = stride
  ELSE UNCHANGED <<lat, stride>>

\* Variant: the count starts again when the store is halved.
RecordRestarts(w) ==
  /\ At(w, "record")
  /\ Idle
  /\ seen' = IF Len(lat) + 1 >= MaxSamples THEN 0 ELSE seen + 1
  /\ Sample(seen + 1)
  /\ GoTo(w, "take")
  /\ UNCHANGED <<sheetVars, sent, inFlight, next>>

\* record, under the mutex.
Record(w) ==
  /\ At(w, "record")
  /\ Idle
  /\ seen' = seen + 1
  /\ Sample(seen + 1)
  /\ GoTo(w, "take")
  /\ UNCHANGED <<sheetVars, sent, inFlight, next>>

\* The abort reaches a worker where it waits, or before it ran at all; until
\* then it goes on.
Drop(w) ==
  /\ aborted
  /\ At(w, "start") \/ At(w, "wait")
  /\ GoTo(w, "end")
  /\ UNCHANGED <<sheetVars, progressVars, next>>

-----------------------------------------------------------------------------
Step(w) == \/ Spawned(w) \/ Take(w) \/ CountSent(w) \/ EnterFlight(w)
           \/ LeaveFlight(w) \/ Record(w) \/ Drop(w)

Panel == \/ \E n \in 1..MaxRequests, workers \in (SUBSET Worker) \ {{}} : Start(n, workers)
         \/ Fail \/ SetTarget \/ Tick \/ Cancel
         \/ ReadSent \/ ReadInFlight \/ Complete

Next == Panel \/ \E w \in Worker : Step(w) \/ Answered(w)

Spec == Init /\ [][Next]_vars

\* Threads are scheduled; no answer need ever come, nobody need press a button.
FairSpec == /\ Spec
            /\ WF_vars(ReadSent) /\ WF_vars(ReadInFlight)
            /\ \A w \in Worker : WF_vars(Step(w))

-----------------------------------------------------------------------------
(* Properties *)

\* What one report may claim although its numbers were read one after the other:
\* what has a result was sent, nothing is sent beyond the plan, no request counts
\* both as finished and as in flight, and no more requests are in flight than the
\* test has workers ("at most concurrency of them in flight", run_live), also
\* after an abort whose requests stay counted.
AddsUp(r) == /\ r.total <= r.sent
             /\ r.sent <= planned
             /\ r.total + r.inFlight <= planned
             /\ r.inFlight <= Cardinality(crew)
ReportAddsUp == AddsUp(report)

\* "sent: already sent, those in flight included" (LoadReport).  Not so of every
\* report: a snapshot reads sent before in_flight, and requests that go out
\* between the two count as in flight only.
SentIncludesInFlight == report.inFlight <= report.sent

\* The result of a test that ran to its end accounts for every request.
DoneIsComplete ==
  phase = "done" => report = [sent |-> planned, total |-> planned, inFlight |-> 0]

\* The bounds of AddsUp hold of every report, taken counter by counter while the
\* workers go on, start or are dropped, and the result of a test that ran to its
\* end leaves no request out (Progress::snapshot, run_live).  How sent and in
\* flight compare within one report is not part of it: see SentIncludesInFlight.
ReportsAreTrue == ReportAddsUp /\ DoneIsComplete

\* "Only every k-th sample is kept" (MAX_SAMPLES): the samples are spread
\* evenly over the whole test, and there are never too many of them.
SamplesEvenlySpaced ==
  /\ Len(lat) < MaxSamples
  /\ \A i \in DOMAIN lat : lat[i] = i * stride
  /\ Len(lat) * stride <= seen /\ seen < (Len(lat) + 1) * stride

\* While a test runs and when it ends, the panel never counts backwards.
ReportsOnlyGrow ==
  [][runs' = runs /\ phase' # "idle" =>
       /\ report.total <= report'.total
       /\ report.sent <= report'.sent]_vars

\* A cancelled test stops sending by itself ("all worker tasks are aborted
\* with it", run_live), whether or not its requests are ever answered.
CancelStopsWorkers ==
  phase = "cancelled" ~> (\A w \in Worker : pc[w] = "end") \/ phase = "running"

-----------------------------------------------------------------------------
(* The inductive invariant behind the properties above *)

\* How many workers are at one of these places.
Count(places) == Cardinality({w \in Worker : pc[w] \in places})

\* Every request that was taken is about to be sent or counts as sent; every
\* one that counts as sent is about to be in flight, in flight, about to be
\* recorded, or recorded.  A worker that is dropped leaves its request in
\* flight for good.
Accounts ==
  /\ sent + Count({"sent"}) = IF next < planned THEN next ELSE planned
  /\ seen + inFlight + Count({"enter", "record"}) = sent
  /\ Count({"wait", "leave"}) <= inFlight
  /\ ~aborted => Count({"wait", "leave"}) = inFlight

\* Only the crew works, and a request in flight is that of one of its workers,
\* which waits for it, is about to count it down, or was dropped.
Crewed ==
  /\ \A w \in Worker \ crew : pc[w] = "end"
  /\ inFlight + Cardinality(Worker \ crew) <= Count({"wait", "leave", "end"})

\* A running test has its task, and a worker as long as requests are left.
Working == phase = "running" =>
  /\ ~aborted
  /\ next < planned => \E w \in Worker : pc[w] # "end"

\* What was read of a snapshot is still current or was exceeded since, and is
\* not behind what the panel shows.
Reading ==
  /\ report.total <= seen /\ report.sent <= sent
  /\ reader # "none" => /\ phase \in {"running", "cancelled"}
                        /\ report.total <= view.total /\ view.total <= seen
  /\ reader = "inFlight" =>
       report.sent <= view.sent /\ view.sent <= sent /\ view.total <= view.sent

IInv == /\ TypeOK /\ Accounts /\ Crewed /\ Working /\ Reading
        /\ ReportAddsUp /\ DoneIsComplete /\ SamplesEvenlySpaced

=============================================================================
