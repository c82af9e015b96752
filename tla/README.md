# Verification of Germal

Germal is a desktop HTTP client written in Rust on GPUI: a window with tabs,
each editing one request, a list of saved requests, variables, a load test, a
recorder for browser traffic and an updater.  This directory holds TLA+
models of the parts whose correctness depends on ordering, timing, failure and
many cases, the TLC configurations that check them, and theorems with proofs for
TLAPS.

* [1. Inventory](#1-inventory)
* [2. Modules and the code they model](#2-modules-and-the-code-they-model)
* [3. Runs](#3-runs)
* [4. Fairness](#4-fairness)
* [5. Proofs](#5-proofs)
* [6. What the models leave out](#6-what-the-models-leave-out)
* [7. Not modelled](#7-not-modelled)
* [8. Disagreements found](#8-disagreements-found)
* [9. What could follow](#9-what-could-follow)

## 1. Inventory

Paths are relative to `src/crates/`.  The program has one UI thread, on which
every handler of a GPUI entity runs to its end; a pool of tokio threads for
network work; and one thread that writes files.

| Component | State | Operations | Hard behaviour | Correct means |
|---|---|---|---|---|
| Store write queue (`germal-core/src/store/{writer,disk}.rs`) | mpsc channel, queue of jobs with deadlines, files, flush acknowledgements | write, delete, flush, drop | coalescing, deadlines, time-outs, failing writes, kills, power cuts | a flush answers for all that came before it; files advance only and are always complete; the thread drains before it ends |
| Session (`germal-app/src/state/{workspace,request_tab,store}.rs`, `germal-core/src/store/mod.rs`) | tabs, active tab, drafts with debounce timers, saved requests, the open dialog | new, duplicate, close, activate, edit, save, delete, quit, restore | timers and dialogs that outlive a tab; several files per handler; kills between them | nothing typed is lost by a quit, closed tabs stay closed, one tab per saved request, valid links |
| Load test (`germal-core/src/loadtest.rs`, `germal-app/src/ui/load_sheet.rs`) | three atomic counters, sampled latencies, panel phase | start, tick, cancel, complete | snapshots race with workers, abort is late, sample store halves | reports add up and never run backwards, a finished test accounts for all, a cancelled one stops |
| Exchange (`germal-app/src/state/{request_tab,response}.rs`, `bridge.rs`) | generation, running task, response, live events | send, cancel, clear, save body | late answers and stream events, two sends in a row, background save | an answer shows only in the send it belongs to |
| HTTP execution and spill (`germal-core/src/http`, `body/spill.rs`) | body in memory or in a spill file | push, finish, abort, sweep | threshold inside a chunk, size limit, file life time, other instances | the body is the bytes received; no file leaks, none is removed in use |
| Event streams (`germal-core/src/sse.rs`, `state/response.rs`) | rest of a line, event under construction, merged text | push, finish, merge | chunk boundaries | events and the text shown do not depend on the chunks |
| Substitution and operations (`vars.rs`, `ops.rs`, `ui/response_pane.rs`) | none | resolve, run, report, mask | depth, cycles, open braces, tables that are missing, nested secrets | the report says what happened; no secret is shown |
| Variables and groups (`model.rs`, `state/variables.rs`, `workspace.rs`, `saved_filter.rs`, `ui/{variables_sheet,sidebar}.rs`) | tables of variables, environments, groups, the copies of them in tabs, drawer and filter | edit, send, extract, rename, move, dissolve, delete | every handler has to update every copy; answers come late | copies are current, renaming loses no value, nothing removed comes back |
| Request editor (`ui/{kv_table,ops_table}.rs`, `request_tab.rs`) | rows of the widgets, mark of changes, sizes of files | edit, remove, choose a file, load, save | answers of dialogs and of the file system are late; widgets hide text | a tab without the mark holds what was saved; rows stay whole |
| Recorder (`germal-recorder/src/{record,db}.rs`) | pending requests by id, database | network events | event order, redirects, changes of page | every hop is stored once, with its own parts |
| Import of recordings (`germal-recorder/src/{replay,main}.rs`) | imported flags, files | select, mark, write | cut short between a mark and its file | no recording is imported twice |
| Recorder panels (`ui/record_{view,sheet}.rs`) | project, rows, last id, counts, poll and load tasks | start, stop, poll, load, switch, select, filter | two reads of one table, answers after a switch | each row once, none missing, counts agree |
| Requests and code (`url.rs`, `http/mod.rs`, `codegen`, `import/curl.rs`) | none | build, prepare, generate, parse | quoting rules of three readers, encodings | the code means the request |
| Texts (`body/*`, `detect.rs`) | none | index, slice, lay out, sniff | boundaries of pieces and characters | nothing is lost or cut |
| Window (`workspace.rs`, `ui/{tab_strip,code_sheet,curl_sheet,load_sheet}.rs`) | pages of tabs, panel, open sheet, target of the load test | open, close, move, resize, choose, paste | derived state that every handler refreshes itself | derived state follows |
| Updater (`state/{update,settings}.rs`, vendored `gpui-updater`) | source, status, task | check, download, restart, change settings | settings, timers and releases change meanwhile | what is installed is what was offered and verified |

**Interaction.**  Session handlers hand operations to the write queue and never
wait, except at exit, where `flush_on_exit` waits for a flush.  A draft is
handed over by a 300 ms debounce timer owned by its tab; the queue coalesces
operations on one path for its own delay.  The load test and the exchange run
on tokio and are aborted when the task handle in the panel or tab is dropped;
the load test is read by polling its counters, the exchange by a channel of
events and a final result.  The recorder is another process that writes a
database which the recorder panels poll.

The hazards, each at its line and with the properties that look for it, are in
`PROJECT.json`; all of them have one that a run checks.

## 2. Modules and the code they model

| Module | Models |
|---|---|
| `DurableStore` | the promise of the persistence layer, with no queue, thread or clock |
| `StoreWriter` | `StoreWriter`, `run`, `enqueue`, `perform` of `writer.rs`; `write_atomic`, `remove_if_exists` of `disk.rs` |
| `StoreWriterProofs` | theorems about `StoreWriter` |
| `Session` | tabs, drafts, saved requests, dialogs, quit, kill and restore |
| `SessionProofs` | theorems about `Session` and about `Editor` |
| `LoadTest` | `run_live`, `Progress` and the panel `LoadSheet` |
| `LoadTestProofs` | theorems about `LoadTest` |
| `Exchange` | `send`, `apply_outcome`, `cancel`, `clear_response`, `save_body` of a tab, `execute` and `Sink`, spill files and their sweep |
| `ExchangeProofs` | theorems about `Exchange`, `Streams`, `Masking` and `Views` |
| `Recorder` | `watch` of `germal-recorder/src/record.rs`: the rows it makes of the network events of one tab |
| `RecorderProofs` | theorems about `Recorder` |
| `Recordings`, `MCRecordings` | the table of recordings, `RecordSheet`, `RecordView`, the queries of `db.rs` |
| `RecordingsProofs` | theorems about `Recordings` |
| `Importer` | `take_new`, `to_draft`, `to_saved` of `replay.rs` and the import command of `main.rs` |
| `Variables`, `MCVariables` | `VariableSets`, `variables.rs`, the drawer, the groups of saved requests and the filter, writes of requests under way |
| `VariablesProofs` | theorems about `Variables` and about `Calendar` |
| `Editor` | `KvTable`, `OpsTable`, path parameters, body file, `draft`, `load_draft`, `mark_dirty` |
| `Places` | what a filter over a sequence leaves, as the elements at a set of places; used by `Session` and `Editor` |
| `Strings` | the string functions of Rust's library that the parsers use |
| `Templates` | `vars.rs`: `Resolver` |
| `Calendar` | `vars.rs`: `iso_utc`, while days pass |
| `Operations` | `ops.rs` |
| `Masking` | `secret_values`, `mask_with` of `ui/response_pane.rs`, while variables and a report are written |
| `Requests` | `url.rs`, `prepare` and the headers of `execute` |
| `Curl` | `codegen/curl.rs`, `import/curl.rs` |
| `Python` | `codegen/python.rs` |
| `Sse` | `sse.rs` |
| `Bodies` | `body/{line_index,text,pretty,tier}.rs` |
| `Streams` | `SseLive` and `SseView` of `state/response.rs`, while a stream arrives |
| `Views` | `detect.rs` and the view of a complete body of `state/response.rs`, while a text is written |
| `Responses` | what of a response is shown, `state/response.rs` |
| `Conversions`, `MCConversions` | inputs for the pure functions of the modules from `Strings` to `Responses`, and the definitions they are compared with; composes `Calendar`, `Streams`, `Views` and `Masking` |
| `Updater` | `state/update.rs`, the settings it reads, the engine it drives |
| `Window`, `MCWindow` | tab strip, panel, sheets, load target, `workspace.json`; composes `Updater` and `Importer` |
| `WindowProofs` | theorems about `Window` and the parts it composes, `Updater` and `Importer` |

Names follow the code where they can; every definition that models code has its
lines in `PROJECT.json` under `map`.  Definitions under a comment "Variant:"
are deliberately wrong forms of the definition after them; each is a plausible
bug that some property has to notice, and nothing else uses them.

### StoreWriter

The state is the channel (`chan`), the thread's queue (`pending`, the `Vec` of
`Pending`), where the thread is (`pc`: waiting in `recv_timeout`, looking for
due jobs, working through a batch, between the temporary file and the rename,
or gone), how many of the first jobs it is performing (`batch`) and why
(`goal`: the loop itself, the flush call to acknowledge, or its end), the
flush calls and the files.  Actions, with the code they stand for:

* `Submit`, `FlushStart`, `FlushTimesOut`, `DropHandles`: callers.
* `ReceiveOp`, `ReceiveFlush`, `ReceiveTimesOut`, `Disconnected`: the arms of
  `match` in `run`; `CollectDue`: the split of the due prefix.
* `WriteTemp`/`Persist`, `Remove` and their failures: `perform`. A write is two
  steps because a kill between them is a different state of the disk.
* `Acknowledge`, `EndBatch`: after `perform_all`.
* `Tick`: time.  A deadline is kept as the time that is left, which is all the
  code computes from it.
* `Crash`, `PowerCut`, `WriteBack`, `Reopen`: kill, power cut, the operating
  system's write-back of directory entries, and a new process.

Payloads are the number of the operation that carries them, so "older" and
"newer" versions of a file can be told apart.  `disk` is what the file system
shows and `media` what survives a power cut: `write_atomic` syncs the file but
not its directory, so a rename may be undone, and no file is ever torn.

### Session

A handler is one step: it runs to its end on the UI thread.  Its writes go into
`queue`, which is `StoreWriter`'s queue without the clock; this is justified
by `QueueOrder` (jobs are performed in the order their paths were first queued,
one per path), and `Leave` by `FlushComplete`, both proved.  The order of
writes within a handler is the order of the calls in the code, since a kill
can fall between any two of them.  `Alive` says which tab entities exist: those
of the strip, and one held by the closures of an open save dialog.  A request
is abstracted to the number of the edit that made it.

A handler hands over several operations.  `Enqueued` says at once what `enqueue`
makes of them one after the other: the newest operation on each path, in the place
where the path was queued first.  Put this way it needs no recursion, and what a
handler does to the files can be read off its list of operations; that it is
`Enqueue`, once for each operation, is proved (`EnqueuedNone`, `EnqueuedMore`).

### LoadTest

Each worker is a program counter over the steps of `run_live`'s loop, with one
step per atomic operation; `Tick`, `ReadSent`, `ReadInFlight` are the steps of
one snapshot, so that workers run between them.  `Record` and the reading of
the records are under the mutex, which the snapshot holds until its end
(`Idle`).  A dropped task aborts workers where they wait (`Drop`).

### Exchange

One tab, and all the requests it ever sent; a request is named by the generation
it was sent under, and `exec[g]` is how far request `g` has come:

    connect -> head -> body <-> (forward ->) report        execute, on tokio
                         |
                         v
                       result -> prepare -> prepared       completion_task
                                                 |
                                                 v
                                               gone        apply_outcome

`response` is `RequestTab.response`; the tasks and the cancel flag inside
`ResponseState::InFlight` exist as long as `Alive(g)`, so replacing the response
is all it takes to drop them, as in the code.  What a dropped request still does
is in the actions: it goes on to its next await (`Abort`), its channel has no
receiver (`Emit` does not block), its background preparation runs on and its
result is thrown away (`Onward`).  `Emit` is `send().await` and `Offer` is
`try_send`; the events of one request and its result wake two UI tasks, which
are polled first woken, first polled (`ready`): this is gpui's foreground
executor, external to `src/`, and `FirstDeltaKnown` rests on it.

A chunk of a body is abstracted to whether it completes a content delta of an
event stream.  A spill file exists while `Held(g)` names an owner: the sink, the
preparation, the shown response, or a save with its clone of the `Arc`.
`dirOld` is whether the spill directory has not been modified for a day, which
is what `sweep_dir` of another instance looks at.

### Recorder

`streams` holds the events that the browser sent and `watch` has not taken, one
sequence for each arm of its `select!`; an action `On...` is an arm, and any arm
with an event may run next.  The waits inside two of the arms (for the data of
a request, for the body of a response) need no state of their own: what they do
is let events pile up, which the browser's actions may do between any two arms.
The browser (`Request`, `Respond`, `Finish`, `Break`, `Tell`, `Load`, `Push`,
`FramePush`) follows the protocol: the events of a request in order, ExtraInfo
at any time or never, redirects under the same id with the response of the hop
before.  `pending`, `extra`, `top` and `mainKnown` are the variables of `watch`.

A page is a number, a request event carries the last load and the last change
within the document before it, and a row keeps them beside the page it was
filed under, so that the properties can compare.

### Recordings

The recorder inserts rows; the panel reads the table in the background with two
queries that overlap: the latest rows when a project is opened (`HistoryLimit`)
and the rows after the last one it has, about every second (`PollLimit`).  A
query is two steps, the read and the answer, and each answer is applied to
whatever the panel shows by then.  `poll` and `load` are the two task slots of
`RecordView`; replacing a slot drops the task in it, which is how selecting a
row cancels a history.  Queries may fail.  A project that grew beyond one
history, or was left and entered again (`crossed`), promises less; `ListIsComplete`
says where.

### Variables

One table for all tabs; a tab keeps a copy of the group of its saved request,
the drawer a copy of one page, the filter a name, `variables.json` the whole.
Handlers run one after the other; `Exchange` is what a tab's request does to the
table: pre-operations when it leaves, extractions when it is answered, between
any two handlers.  A variable is its key, its value and its check mark.  The
drawer covers the side bar, so groups are reorganised while it is closed, as in
the program; requests may be answered while it is open.

### Editor

The widgets hold the request: `EditorDraft` reads it from them, `FieldsOf` and `OpsOf`
fill them, and each edit emits an event that marks the tab; `EditorInit` is a tab
that was just loaded.  The parts of a request share nothing but the mark, so a
behaviour edits one part (`part`).  What is read from a table (`FormFields`,
`PostOps`) are the drafts of its rows at the places that are not empty, in order
(`Picked`).  `reads` are the background reads of file sizes and `fileDialog` the open
file dialog, both answered later, in any order.

### Texts and requests

`Strings` to `Responses` are pure functions over sequences of symbols.  A symbol is
a character, or a word no function takes apart: the name of a header, an option of
curl, an escaped octet.  Two symbols (`"hi"`, `"lo"`) make one character of two
octets where octets matter.  `Calendar` (the clock goes on by a day), `Streams` (a
chunk of octets arrives and is pushed into `SseLive`), `Views` (a body is written character
by character) and `Masking` (variables are there, a report on operations is written) are
specifications of their own and compare: with the calendar (`Date`), with the stream in one
piece (`Push`), with the text itself (`Span`, `Slice`, `Lossy`, `Pretty`), with the places of
the text that no secret covers (`MaskWith`).
`Conversions` takes their steps, each in a part of its own, and gives the other
functions inputs that grow step by step and compares: with chains of references
(`Resolve`), with what curl, in either shell, the program's own import or Python
makes of generated code (`CurlSent`, `ParseCommand`, `Literal`, `ScriptSent`).  The
inputs include what code cannot express exactly: names that are given twice, values
and data that start with `@`, a header without a value, defaults that are off, a form
of texts.  `CodeMeansRequest` names each of these exceptions in a guard and asks for
the rest: method, address, body, every header the program sends, and no other header
under such a name.  `CodeIsExact` is the promise without exceptions; section 8.11 says
where it fails.

### Window, Updater, Importer

The parts of the window share the list of tabs and `workspace.json`; a behaviour
uses one part (`UsedPart`), from every state the window can start in.  `written` is
what was last handed to the write queue.  A sheet may be dismissed without the
window being told (Esc, a click beside it), so `openTool` and `sheet` are two
variables.  `Updater` runs a check or a download as a task whose result arrives
later; `current` is the source that the background thread reads through
`SwitchableSource`.  A release is its version, whether it advertises a checksum
and a signature, and whether its artifact is what they say.  `Importer` is another
process: it marks rows one by one, then writes files, and may be cut short between
any two of these steps.

## 3. Runs

| Run | Properties | Bounds | Why they are enough |
|---|---|---|---|
| `store` | `FlushComplete`, `ImplementsDurableStore`, `WriterGetsDone` | 2 paths, 1 flush call, 3 operations, delay 1, 1 failure, 1 kill or power cut | two paths show overtaking, three operations a path coalesced while another waits; the theorems of `StoreWriterProofs` hold for all values |
| `session_tabs` | `TabsStayAsLeft`, `OnlyHeldTabsReturn` | 3 tabs, 1 saved request, 1 edit, backlog 2, no failures | three tabs are a neighbour on both sides of a closed one |
| `session_failures` | `LinksAreSound`, `CleanMeansSaved`, `EditsReachDisk` | 2 tabs, 1 saved request, 2 edits, 1 failure or kill | one failure between two writes of one handler is the case that matters; the timer, the queue and another tab's writes interleave |
| `session_ghost` | violation of `ClosedStaysClosed` | 2 tabs, 1 edit, no failure | |
| `load_runs` | `ReportsAreTrue`, `SamplesEvenlySpaced`, `CancelStopsWorkers` | 2 workers, 4 requests, 2 tests, 2 samples kept | two workers race with a snapshot; four requests fill the sample store twice |
| `exchange` | `ShownBelongs`, `FirstDeltaKnown`, `SpillFileKept`, `Released` | 3 generations, bodies of 2 chunks, channel of 1, threshold of 1 chunk, 1 save, 1 sweep | a cancelled request, its successor and one more step after it; a channel of one is full at once; the second chunk spills |
| `recorder` | `RowsFollowHops`, `ExtraMergedOnce`, `LastHopStored` | 1 request of 2 hops, 2 changes of page, 4 events waiting | requests share nothing but the streams; the events of a whole hop, or a request behind a load and a pushState, fit into what may wait; the theorems of `RecorderProofs` hold for any number of each |
| `recordings` | `ListIsComplete`, `ViewAddsUp`, `RecordedIsShown` | 3 rows of 2 shapes, 2 projects, a history of 2 rows, polls of 1 row, 1 recording, 1 failed query | one row more than a history has and two more than a poll has; two projects to switch between while either read is under way |
| `variables` | `CopiesAreCurrent`, `NoRevival`, `RenameKeepsValues` | 2 requests, 2 groups, 1 tab, 1 key, 2 values, 2 environments, 2 rows, 2 changes of the table | two groups to merge; two values to tell whose survives; one tab whose answer is late while its group goes; symmetry over interchangeable names |
| `editor` | `CleanMeansSame`, `RowsAreWhole`, `PathRowsFollowUrl` | tables of 3 rows, 1 text and the empty one, 2 names, 2 files, 2 sizes being read | a row before and behind the edited one; two names to swap; two reads that answer in the wrong order |
| `conversions` | eight, one for each family of functions | texts of 4 to 8 symbols over alphabets of 3 to 7, chains of references longer than the depth, 3 operations, 3 x 800 days around the ends of February 1970, 2000 and 2100 | every special symbol, twice in a row and beside a plain one; the boundary of every limit is inside the bounds |
| `window` | `PanelsFollow`, `InstallsTheOffer`, `ImportedOnce`, `ActiveIsRevealed`, `RunSendsTarget` | 5 tabs on 2 rows of 1 or 2, 2 environments, 2 hosts, 3 requests, 3 releases, 3 recorded rows, 1 import cut short | more pages than one; a release newer than the one offered; a row recorded between two imports |

A property that is a conjunction names parts that are defined before it; a run
checks them together because they answer one question.  The type invariants of
`StoreWriter`, `LoadTest` and `Exchange` are theorems (section 5); those of the
other modules are the first part of such a conjunction.

`MaxBacklog` bounds how far the user may run ahead of the writer: a handler runs
only while at most that many operations are queued.  The user of a
real program is much slower than the writer, but the queue itself is unbounded;
a backlog of two already lets a handler's writes coalesce with those of the
handler before.  The other `Max...` constants count things over a whole
behaviour.  Deadlock is checked where a system never rests (`store`,
`session_tabs`, `load_runs`).  It is not in the others, whose behaviours end
when a bound is used up: an input that has its length, a tab that has sent all
its requests, a browser that has said all it says, a start that would need
another tab number.

## 4. Fairness

* `StoreWriter!FairSpec`: the thread is scheduled (`WF(Worker)`), time passes,
  a flush that waits gives up in the end.  Nothing makes a caller act.
* `Session!FairSpec`: debounce timers fire, the writer thread performs.  The
  user need not do anything, and nothing starts the program again.
* `LoadTest!FairSpec`: the UI thread finishes a snapshot it has begun, and the
  tokio threads run the workers, aborts included.  **No answer need ever
  come**: `Answered` has no fairness, so `CancelStopsWorkers` does not rest on
  the server.
* `Exchange!FairSpec`: the UI thread polls a task that was woken, and each
  request's own steps (sending an event, an abort, the preparation, a copy to a
  file) are taken.  Neither the server nor the user need do anything: `Released`
  has to come from the abort.
* `Recorder!FairSpec`: every arm of `select!` that keeps having an event is
  chosen in the end, which its random choice gives; the browser need not send
  anything.  Without fairness for each arm, an endless run of changes of page
  could keep the end of a request waiting.
* `Recordings!FairSpec`: the timer of the poll fires and its query is answered or
  fails, which gpui's timer and the background pool give.  The history, the
  recorder and the user need not act.

`Variables`, `Editor`, `Conversions` and `Window` promise safety only: nothing in
them waits for anything.

## 5. Proofs

All proof modules hold for every value of the constants, under the
assumption its module states (naturals; a finite set of workers; at least one
sample kept; at least two rows of tabs; ...).  The bounds (`MaxOps`, ...) are constants too, so the
theorems hold however large they are.

**`StoreWriterProofs`**: `TypeOK`, `QueueOrder`, `FlushComplete`,
`ExitDrained`, `NothingLostSilently`, `OneTempPerCrash`, `WindowHonoured`,
`DiskNeverRewinds`, and `ImplementsDurableStore` (each step of the detailed
specification is a step of `DurableStore` or a stutter under the identity on
`ops`, `latest`, `tried`, `disk`, `call`, `mark`).  `FlushComplete` is not inductive:
that an acknowledged flush covers its mark is known only at the end of a chain
that starts when the flush is sent.  `IInv` adds the chain:

* `Control`: program counter, batch and goal agree; a flush's batch is the
  whole queue.
* `Newer`: operation numbers grow from the disk over the queue to the channel.
* `NothingDropped`: each operation handed over, or a newer one on its path, is
  attempted, queued or in the channel; a flush message stands behind all
  it has to wait for, and when it has been received all of that is queued.
* `Files`: `media` is never newer than `disk`, nor `disk` than `tried`.

The proof that `IInv` is inductive has one lemma per action, grouped by what the
action disturbs; lemmas about `Enqueue` carry the order of the queue.

**`LoadTestProofs`**: `TypeOK`, `ReportsAreTrue` (`ReportAddsUp`, `DoneIsComplete`),
`SamplesEvenlySpaced`, `ReportsOnlyGrow`.  `IInv` adds

* `Accounts`: the number of requests taken is the number sent plus the workers
  about to send; what was sent is recorded, in flight or on its way between the
  two.  Workers are counted by `Cardinality`, and the lemmas about `Count` say
  how one worker's move changes a count.
* `Crewed`: only the crew of the test works, and with the workers outside it the
  requests in flight are at most the workers that wait, leave or have ended; an
  aborted worker keeps its request counted, so this is what bounds `in_flight` by
  the concurrency.
* `Working`: a running test still has its task, and a worker while requests are
  left; with all workers at their end this makes the result complete.
* `Reading`: the parts of a snapshot read so far are current or exceeded, and
  not behind the last report.

`AddsUp` bounds `in_flight` by the plan and by the crew and says nothing of
`in_flight` against `sent`, which the code does not keep in order (section 8.2).

**`ExchangeProofs`**: `TypeOK`, `ShownBelongs` (`ShownIsCurrent`, `NoticeBelongs`),
`SpillFileKept`.  `IInv` adds

* while a request is in flight, the operations that are kept are its own;
* `Progressing`: requests beyond the generation have not started, a request
  without a head has no body, and one that failed waits only to be shown;
* `SavesBehind`: a save belongs to an earlier generation or to the response that
  is shown, so comparing generations is enough when the save ends;
* `FilesOwned`: a spilled body has its file as long as anybody owns it, not
  only while it is shown, which makes the ownership inductive over the hand-over
  from the sink to the preparation to the response to a save.

`MovedInv` says once what a step of one request has to satisfy, and the
lemmas of the single actions are instances of it.  `FirstDeltaKnown` has an
invariant of its own, `SInv`, beside `IInv`: it follows the events of a stream from
the sink to the panel (`Streams`, `Settled`) and the two ends of a wake-up that may
not get lost (`Woken`), so that no result is taken before the events behind it.

**`WindowProofs`**: `PanelsFollow`, `ActiveIsRevealed`, `RunSendsTarget`
and `InstallsTheOffer` of `Window`, and the theorems of its two parts
under their own specifications, `UpdaterSpec` (`UpdaterTypeOK`, `InstallsTheOffer`,
`SourceFollowsSettings`, `OnlyVerifiedRuns`) and `ImporterSpec` (`ImportedOnce`).
`WInv` adds

* `OfferInv`: what a task carries from a check over the download to the
  installation (`Carried`), where the version on screen and the release on its way
  could come apart;
* `ImportInv`: what is true of a row between its mark and its file (`Between`), so
  that a row that is read again, by this import or the next one, has no file yet;
* `StripInv`: no tab is listed twice and there are no more than the bound, which is
  why a new tab finds an identity, why a restart finds the active tab again, and
  why the page that is shown is never empty.  The last needs that `PageCount`
  rounds up and that `ShownPage` never goes beyond it (`PagesAre`, `ShownIs`);
* `HostInv`: the lookup that is under way is the one of the host that is named, so
  that a late answer is about no other;
* `LoadTyped`, `CodeInv`: a target that was chosen has its URLs, and the code sheet
  the code under the environment of the moment.

`ActiveIsRevealed` is proved from `Faces`, that the page is the one of the active
tab, which every operation that changes the strip establishes and resizing may
break; that is why it is an action property and no invariant.

**`RecorderProofs`**: `RowsFollowHops` (`TypeOK`, `HopsInOrder`, `ChainIsLinked`,
`PageIsRecent`) and `ExtraMergedOnce`, for any number of requests, hops, pages and
waiting events.  `IInv` is proved in layers, each of which uses the ones before:

* `HopInv`: the rows of a request, the hop under way and its events in the stream
  are consecutive hops, so that what is taken next is always the next hop.
* `EndsInv` and `ChainInv`: the end of a request is sent once, so a request without a
  hop under way that has rows has had its end taken; only then may a chain be cut.
* `ExtraInv`: additional headers that wait belong to later hops than those that
  were merged, so none is merged again.
* `PageInv`: the last load and the last change within the document that wait lead to
  where the tab is; when none waits, the loop knows the last page of either kind; and
  where the tab has gone on since a request was sent, it went to pages later than all
  the request saw.  So a hop is filed under the page of the last load or of the last
  change before it, or a later one: not always under the later of the two, which the
  code does not ensure (section 8.4, `PageNotLeft`).  It rests on what `SelectLastInSeq` finds (`LastCountingIs`), which needs the
  greatest element of a finite set of places, by well-founded induction.

**`RecordingsProofs`**: `ListIsComplete`, `ViewAddsUp`, and `RowsAreOwn`, under
`LimitsAssumption`.  The list is put together from two reads of one table that
overlap and answer in any order; the invariant says of each answer under way what
it may be: rows of the table in their order, and all of the project's from the end
of the list up to its own last row.  Hence what is appended leaves no hole.
`InOrder` (the numbers of a set in order) exists by an induction on the size of the
set, which is done by hand from the least counterexample.

**`VariablesProofs`**: `CopiesAreCurrent`, `NoRevival`, `RenameKeepsValues`.  The
invariant (`Stored`, `Organised`) adds nothing but the types to what the runs check:
every handler brings all copies up to date by itself.  The work is in the lemmas
about the operators on rows: what a name shows before and after a merge, a write, a
deletion or a renaming (`Shows`, `EnvShown`), for any repetition of names.

**`SessionProofs`**: `LinksAreSound` (`TypeOK`, `OneTabPerSaved`, `SavedLinkValid`),
`CleanMeansSaved`, `OnlyHeldTabsReturn` and `TabsStayAsLeft` (`DurableWhenQuiet`,
`ClosingKeepsActive`, `QuitLosesNothing`), for any number of tabs, saved requests, edits,
failures and kills.  Nothing in the window says what a restart will show: that is
decided by files which are written one by one, and a kill loses any suffix of the
writes.  So `IInv` speaks of the files once the first n queued operations are done
(`After`):

* `WriterFits`, for every n: one operation per path, and data of the right kind in each
  file, with numbers that were given out.
* `NoDoubleLinks`, for every n: no two drafts are linked to one saved request.  This is
  why a new tab, a copy or a save may write its draft before or after others, and
  why a restart after a kill in between restores no two such tabs.  It needs that no
  write failed: a draft whose deletion fails keeps its link.
* `RequestsFit`, `DraftsFit`, `StripFits`, for the files once everything is done
  (`Fate`): they hold the saved requests, the drafts but for what timers still hold
  back, and the strip.  A tab that was closed has no draft, unless the dialog held it.
  After a restart without a change the strip on disk may be another one, as long as it
  leads to the same order again; `StripFits` says so.
* `CleanFits`: a tab, and the draft on its way to the disk, that is not marked as
  changed agrees with the saved request.  It does not survive a kill between the
  two writes of a save.

`EnqueuedTook` says what the queue is once operations are handed over, `Sent` what
that makes of the files; then each handler needs only the newest operation on each path
it writes (`NewestPair`, `DeletesThen`, ...).  `OrderedIs` and `LayoutFound` do
the same for the start.

The same module proves `CleanMeansSame`, `RowsAreWhole` and `PathRowsFollowUrl` of
`Editor`, for any texts, any files and tables of any length.  `Session` reduces a
request to the number of the edit that made it and trusts the mark of changes;
`CleanIsSame` is what entitles it to.  The invariant `EInv` holds the types, the two
facts about rows (`OpsEndEmpty`, `RowSizeBelongs`: an empty row to add with at the end
of the operations, a size only on a row that has a file), `PathsFit` (the path rows
are those the URL asks for) and `CleanMeansSame` itself.  Its argument:

* A change that marks the tab proves nothing about the draft and needs no proof.  The
  changes that do not mark it (answers of size reads, an empty row added or taken away,
  a change of the language) must leave the draft as it is.  `PostOpsSame` and
  `PickedSame` say when: if the rows that count are the same rows in the same order,
  wherever they stand.  This rests on `InOrderOnly`: a finite set of numbers can be put
  in order in one way only.
* Loading what was saved and reading it back gives the same request (`PostOpsOfOps`,
  `FormFieldsOfFields`), whatever the rows it was read from held besides; that is why
  a tab that was just loaded starts without the mark.

Four proofs stand beside those of a component, about functions that fold or divide
instead of calling themselves, in modules that reach no recursive operator:

* `DatesFollow` (`VariablesProofs`): `CalendarSpec => []DateFollows`, for every day since
  the start of 1970 and no bound.  `Date` divides a day of an era of 146097 days by
  constants that are not the lengths of its years.  `YearOf` says which year of the era
  that gives: the one between whose first days the day lies; `YearEnds` and `LeapInEra`,
  that these years follow each other and that the leap years are the longer ones;
  `MonthEnds` does the same for the months and the division by 153.  `NextDate` puts
  them together: the date of the next day is the next date.
* `ChunksAreOne` (`ExchangeProofs`): `StreamSpec => []ChunksDoNotMatter`, for streams, chunks
  and caps of any length.  The parser, `LlmStream` and the view are folds over the
  octets and the events.  `FoldConcat` says that folding a sequence is folding its parts
  one after the other, for each of the three kinds of step that are used; it is proved
  from the definition of `FoldLeft` by an induction over the lengths of sequences done by
  hand, since the library's cannot be used with an operator.  From it follow
  `PushTwice` (two chunks are one) and `ReplayMore` (more events add to the text), and
  the invariant `StreamInv`: what is held is what all octets taken make in one
  piece, and octets are missing only from the cap on.
* `SecretsStayHidden` (`ExchangeProofs`): `MaskSpec => []SecretsAreMasked`, for texts and
  values of any length and any number of variables.  The invariant holds only types;
  the work is in what the folds compute.  `MaskedShape` says what one replacement writes:
  each symbol stands for one symbol of the text at which no occurrence starts, or is the
  mask of an occurrence; so the value does not occur any more, and no other value that
  did not occur before can come about (`MaskRemoves`).  `Traces` is the invariant over all
  values: each symbol shown is one of the first text outside of the places covered so far,
  or a mask for some of these.  One more value keeps it (`TracesOn`) because the longer
  values before it have hidden an occurrence of it as a whole or not at all
  (`LongerFirst`), which is what the order of `secret_values` is for.  `SortedThere` is
  that there is such an order.  The constants are assumed to keep the mask apart from
  the letters of a text: nothing is said of a secret or a report that holds the sign of
  the mask itself.
* `TextsAreWhole` (`ExchangeProofs`): `ContentSpec => []TextsStayWhole`, for texts of any
  length, any interval of the index, any length of a head and places as far off as one
  likes.  The invariant `TextInv` is that a text consists of whole characters (`Entire`), which
  the program gets from Rust's type of strings; without it a selection may well cut one.
  `StartsAre` says that the index, found in pieces, is the list of all line ends, in order
  and none twice at the seam of two pieces (`ListsConcat`, `PiecesListed`); `SpansJoin`, that
  its lines follow each other.  `ColumnApart` says of a place that it is moved to no other
  line and never into a character, `OffsetsRise` that two places keep their order when they
  are moved, from which `SlicesJoin` follows.  `TrimmedFirst` is what is left of a head when
  it ends within a character.  `LayoutKeeps` runs two folds side by side, the layout and a
  reading that skips white space outside of quotes: `StepLays` and `StepSqueezed` say what
  one symbol does to each, and the states agree on what is inside of quotes.

TLC checked the invariants on small instances before they were proved.  Liveness
(`WriterGetsDone`, `EditsReachDisk`, `CancelStopsWorkers`, `Released`,
`LastHopStored`, `RecordedIsShown`) is beyond the prover and only model-checked.
So are the four properties of `Conversions` itself: it compares what recursive definitions
compute, and a module with such definitions is beyond the prover.

## 6. What the models leave out

* `StoreWriter`: the counters of `Stats`, which tests read; the wording of
  `last_error`; what encode does.  A power cut keeps or undoes whole renames.
* `Session`: the order of saved requests, names, the
  read-only mode without a data directory, the sending half of a tab.  The
  branch of `overwrite_saved` for a saved request missing from the list is left
  out because `SavedLinkValid` shows it is not taken.  Files of other programs
  or damaged files are not modelled.
* `LoadTest`: status and error tallies, percentiles, the panel's number parsing.  Atomics are sequentially consistent in the model while the
  code uses `Ordering::Relaxed`.  Workers of an earlier test that have not
  noticed their abort keep that test's own `Progress` which nothing reads any
  more; they leave the model when the next test starts.
* `Exchange`: what is in a request or a response, the kinds of errors, the
  message of a refused send, the redraw tick, progress numbers, notices other
  than that of a save, what pre- and post-operations compute (only whose they
  are), the size of uploads.  Closing the tab drops the response like
  `clear_response`.  Every request has operations, and every answer writes
  variables, which is the case where mixing two of them up would show.  A body
  is saved once at a time.  Removal of the own directory at exit is left out.
* A kill between the two writes of one save leaves a tab that counts as unchanged
  beside a saved request of another version; `CleanMeansSaved` is stated
  for processes that were not killed.
* `Recorder`: starting and closing the browser, new tabs, headers and bodies,
  times, rows the database refuses.  ExtraInfo of requests and of responses is
  one stream.
* `Recordings`: what a row contains beyond its shape, names of projects, host
  lookups, the list by pages.
* `Variables`: secrets, import of environments, order of groups, drag and drop.
* `Editor`: headers and query rows, which are the same widget as the form; raw
  body text; focus.
* `Templates`: random values; which fields of a draft are substituted.
* `Requests`, `Curl`, `Python`: options curl has and Germal ignores, authentication
  from a file, characters beyond the alphabets, two of the four default headers
  (`Accept-Encoding`, `Connection`).  Shells, curl, Python and its
  `requests` are external, modelled by what they make of the code, with default headers
  of their own.  A doubled percent sign is one in a batch file of Windows, which is
  what the code writes for; typed at the prompt it stays doubled.
* `Bodies`, `Views`: other character sets, HTML and XML layout, search.
* `Window`: pixels, scrolling, the drag before the drop.  After a restart the active tab
  is revealed once its strip has been laid out; `Reopen` is both at once.
* `Updater`: progress, kinds of network errors, what a restart does on each system.
* `Importer`: the other commands of the recorder's program.

## 7. Not modelled

* `postman_env.rs`, `store/codec.rs`: parsing and writing of files by serde's
  derives; there is no state and no algorithm beyond them.
* `hostinfo.rs`, `tls.rs`, `desktop_entry.rs`: calls to the operating system.
* `ui/{body_view,load_view,selectable_lines,text,url_bar}.rs`, `theme.rs`,
  `assets.rs`, `templates.rs`: painting, key bindings and fixed texts.  Handlers
  that change state are modelled with the component whose state it is.
* `main.rs`, build scripts, the test server, vendored crates.

## 8. Disagreements found

1. **A closed tab comes back** (`session_ghost`).  The save dialog's closures
   hold a strong handle of the tab.  If the tab is closed within the debounce
   time of its last edit, `close_tab` deletes the draft, and the timer, which
   lives as long as the tab, writes it again.  After a restart the tab is back.
   `close_tab` says "关闭 Tab = 删草稿文件" (`workspace.rs:477`).
   `OnlyHeldTabsReturn` shows that this is the only way.

The next ones are stated by definitions that no run lists; adding one to the
configuration named makes TLC show the behaviour.

2. **More requests in flight than sent** (`SentIncludesInFlight`, `LoadTestRuns`).
   `snapshot` reads `sent` (`loadtest.rs:124`) before `in_flight`; `LoadReport.sent`
   says "已发出（含在途）" (`loadtest.rs:24`).  `ReportsAreTrue` therefore leaves this
   comparison out and says what every report does keep.
3. **Another instance removes a spill file in use** (`InstancesIsolated`, `Exchange`).
   `sweep_dir` (`spill.rs:44`) goes by the age of the directory alone.  An instance
   that has shown a spilled response for a day, without creating or dropping another
   one, loses the file when a second instance starts; "save body" then fails.
   `session_dir` says "按进程隔离，多个实例互不影响" (`spill.rs:15`).
4. **A successful request is recorded as failed** (`NullMeansFailed`, `Recorder`).
   While `watch` waits for the body of one request, the response and the end of
   another arrive; `select!` may take the end first (`record.rs:347`).  The row has no
   status, no headers and no type, and "NULL = 传输失败" (`db.rs:33`).  If the end is
   taken before the start, the request has no row at all; `LastHopStored` says that it
   has one otherwise.  The same race files a request under a page that was left
   (`PageNotLeft`): when the tab calls pushState and then loads, or the other way
   round, before `watch` takes either, the page of the change within the document is
   applied last; the comment at `record.rs:275` promises that changes of address are
   handled first so that no request goes to the page before ("上一个页面").  `PageIsRecent` says what
   is kept.
5. **Rows of another project** (`RowsOfProject`, `Recordings`).  A poll whose query
   was answered for one project pushes its rows into the one that is shown by then
   (`record_view.rs:413`).
6. **The row to add with is gone** (`FieldsEndEmpty`, `Editor`).  `set_row_kind`
   (`kv_table.rs:411`) and a chosen file change the last row without appending an
   empty one; "最后一行永远保留一个空行用于新增" (`kv_table.rs:1`).
7. **The size of another file** (`FileSizeBelongs`, `Editor`).  `refresh_file_size`
   (`request_tab.rs:839`) writes the size it read whichever file is chosen by then;
   the rows of a form compare the path (`kv_table.rs:462`).  `choose_row_file` writes
   its answer by index, so a row that moved up gets the file of the one removed.
8. **An open tool that is closed** (`ToolIsShown`, `Window`).  `open_tool` stays set
   when a sheet is dismissed with Esc or by a click beside it
   (`code_sheet.rs:4`, `workspace.rs:176`); `open_tool_section` (`workspace.rs:1472`) then
   takes the next click on its icon for a wish to close it.
9. **A pasted address changes** (`PastedAddressKept`, `Conversions` with the part
   `"paste"`).  Escapes are left alone on import "因为解开了再编回去反而可能变形"
   (`import/curl.rs:388`), but sending encodes them again (`url.rs:100`): `%20` becomes
   `%2520`, and `?flag` becomes `?flag=`.

10. **Renaming a group drops a value** (`RenameKeepsValues` tells what is kept).
   `rename_group` (`model.rs:389`) leaves out every row whose name stands before it in
   the rows that were moved, also when the new group has no variables: an enabled row
   behind a disabled one of the same name is lost, and the name reads nothing
   afterwards.  The comment merges by key only "目标已有变量时" (`model.rs:388`), and the
   test says "目标不存在：整体搬过去" (`model.rs:1490`).

11. **Generated code is not exactly the request** (`CodeIsExact`, `Conversions` with the
   part `"request"`), while it "必须**等于 Germal 真正发出去的请求**"
   (`codegen/mod.rs:3`).  `requests` and `curl` add default headers of their own when one
   is disabled, and curl a `Content-Type` to a file without one.  `-d @text` and `-F`
   values that start with `@` or `<` are files to curl, a text of a form ends at `;`, and
   a header without a value is not sent.  In Python, `files=[]` makes `requests`
   send a form of texts url-encoded, not as multipart, although the comment promises
   all four kinds of body (`python.rs:5`), and a header or form key that is given twice is
   kept once by a dictionary.

The following were met while the code was read, and the models take the code's side:

* **A host with a variable.**  A URL like `http://{{host}}` is said to name no host
  (`load_sheet.rs:206`), but braces are allowed in a host, so its text is looked up as it
  is.  `Window` counts such a text among the `Hosts`.
* **Secrets that overlap in part.**  `mask_with` replaces one after the other, so the
  second of two overlapping values shows its rest; values inside each other are
  masked completely (`SecretsAreMasked`).
* **Pasted commands of one line.**  The import tells the shell by the ends of lines, so
  a Windows command of one line is read by POSIX rules, and its doubled percent signs
  stay; `CommandReadBack` leaves addresses with an escape out for reason 9 already.
* **Imports lose, but do not repeat.**  Rows are marked before their files are written
  (`replay.rs:77`): an import that is cut short leaves marked rows without a file, and
  no later import writes them.  `ImportedOnce` is the half that the code promises
  ("重复导入不会产生重复项", `replay.rs:60`).
* **The timer of the first check** starts a check while an update is staged, and the
  status is no longer "staged" although a restart would still run the new version.
* **Paging after widening.**  `step_tabs` counts from a page that no longer exists when
  the strip has become wider, so that one press may have no effect.

## 9. What could follow

1. `Session` implements the promise of `StoreWriter` without its clock; a refinement
   that states this would join the two models.
2. `Session` and `Variables` in one model, with the filter and the order of saved
   requests.
