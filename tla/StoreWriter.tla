---------------------------- MODULE StoreWriter ----------------------------
(***************************************************************************)
(* The write queue of Germal's store: crates/germal-core/src/store/        *)
(* writer.rs, with write_atomic and remove_if_exists of disk.rs.           *)
(*                                                                         *)
(* Any number of clones of the StoreWriter handle send messages into one   *)
(* unbounded mpsc channel; one thread receives them, coalesces operations  *)
(* on the same path, and performs each operation once its coalescing       *)
(* window has elapsed, when a flush asks for it, or when the last handle   *)
(* is dropped.  The process may be killed, or the machine lose power,      *)
(* between any two steps; it is then started again on the same files.      *)
(*                                                                         *)
(* Payloads are abstracted to the number of the operation that carries     *)
(* them.  Time is kept as the remaining time of each deadline, which is    *)
(* all the code looks at (due.saturating_duration_since(now)).             *)
(* The write and delete counters of Stats, which only tests read, and the  *)
(* wording of last_error are left out.                                     *)
(***************************************************************************)
EXTENDS Naturals, Sequences

CONSTANTS
  Path,           \* files of the data directory
  Call,           \* flush calls that may be outstanding at the same time
  Delay,          \* the coalescing window, in ticks
  FlushTimeout,   \* how long a flush waits, in ticks
  MaxOps,         \* bound: operations handed over in a behaviour
  MaxFaults,      \* bound: encode and file-system failures
  MaxCrashes      \* bound: kills and power cuts

ASSUME ConstantsAssumption ==
  /\ Delay \in Nat /\ FlushTimeout \in Nat
  /\ MaxOps \in Nat /\ MaxFaults \in Nat /\ MaxCrashes \in Nat
  /\ "loop" \notin Call /\ "exit" \notin Call

VARIABLES
  open,       \* some StoreWriter handle is alive
  chan,       \* the mpsc channel
  pending,    \* the worker's queue, ordered by first arrival
  pc,         \* where the worker thread is
  batch,      \* how many jobs at the head of pending it is to perform now
  goal,       \* what it does after the batch: a call to answer, loop or exit
  temps,      \* number of temporary files in the data directory
  media,      \* media[p]: version of p that a power cut cannot take back
  lastError,  \* Stats.last_error is set
  remaining,  \* remaining[a]: time left before call a gives up
  faults, crashes, powerCuts,  \* failures so far
  ops, latest, tried, disk, call, mark   \* as in DurableStore

workerVars == <<pc, batch, goal, pending>>
clientVars == <<open, call, mark, remaining, ops, latest>>
fsVars     == <<disk, media, temps, tried, lastError>>
faultVars  == <<faults, crashes, powerCuts>>
vars == <<workerVars, clientVars, fsVars, faultVars, chan>>

Version == 0..MaxOps
OpMsg   == [type : {"op"}, path : Path, kind : {"write", "delete"}, n : Version]
FlushMsg == [type : {"flush"}, ack : Call]
Job == [path : Path, kind : {"write", "delete"}, n : Version,
        first : Version,   \* the operation that put the path in the queue
        left : Nat]        \* time until due

TypeOK ==
  /\ open \in BOOLEAN
  /\ chan \in Seq(OpMsg \cup FlushMsg)
  /\ pending \in Seq(Job)
  /\ pc \in {"recv", "due", "work", "persist", "exit"}
  /\ batch \in 0..Len(pending)
  /\ goal \in Call \cup {"loop", "exit"}
  /\ temps \in Nat
  /\ disk \in [Path -> Version] /\ media \in [Path -> Version]
  /\ lastError \in BOOLEAN
  /\ remaining \in [Call -> 0..FlushTimeout]
  /\ faults \in 0..MaxFaults /\ crashes \in 0..MaxCrashes /\ powerCuts \in 0..crashes
  /\ ops \in Version
  /\ latest \in [Path -> Version] /\ tried \in [Path -> Version]
  /\ call \in [Call -> {"idle", "waiting", "ok", "timeout"}]
  /\ mark \in [Call -> [Path -> Version]]

-----------------------------------------------------------------------------
Zero == [p \in Path |-> 0]

Init ==
  /\ open = TRUE
  /\ chan = <<>> /\ pending = <<>>
  /\ pc = "recv" /\ batch = 0 /\ goal = "loop"
  /\ temps = 0 /\ disk = Zero /\ media = Zero
  /\ lastError = FALSE
  /\ remaining = [a \in Call |-> 0]
  /\ faults = 0 /\ crashes = 0 /\ powerCuts = 0
  /\ ops = 0 /\ latest = Zero /\ tried = Zero
  /\ call = [a \in Call |-> "idle"]
  /\ mark = [a \in Call |-> Zero]

-----------------------------------------------------------------------------
(* The callers' side *)

\* StoreWriter::write and StoreWriter::delete.  The channel is unbounded and
\* the worker outlives the handles, so the send always succeeds.
Submit(p, kind) ==
  /\ open
  /\ ops < MaxOps
  /\ chan' = Append(chan, [type |-> "op", path |-> p, kind |-> kind, n |-> ops + 1])
  /\ ops' = ops + 1
  /\ latest' = [latest EXCEPT ![p] = ops + 1]
  /\ UNCHANGED <<workerVars, fsVars, faultVars, open, call, mark, remaining>>

\* The acknowledgement channel of call a is new: nothing of an earlier call
\* that gave up may still refer to it.
Unused(a) == /\ call[a] # "waiting"
             /\ goal # a
             /\ \A i \in DOMAIN chan : chan[i] # [type |-> "flush", ack |-> a]

\* StoreWriter::flush, up to the wait.
FlushStart(a) ==
  /\ open
  /\ Unused(a)
  /\ chan' = Append(chan, [type |-> "flush", ack |-> a])
  /\ call' = [call EXCEPT ![a] = "waiting"]
  /\ mark' = [mark EXCEPT ![a] = latest]
  /\ remaining' = [remaining EXCEPT ![a] = FlushTimeout]
  /\ UNCHANGED <<workerVars, fsVars, faultVars, open, ops, latest>>

\* StoreWriter::flush returns false: recv_timeout ran out.
FlushTimesOut(a) ==
  /\ call[a] = "waiting"
  /\ remaining[a] = 0
  /\ call' = [call EXCEPT ![a] = "timeout"]
  /\ UNCHANGED <<workerVars, fsVars, faultVars, chan, open, mark, remaining, ops, latest>>

\* The last handle is dropped; a flush in progress borrows one.
DropHandles ==
  /\ open
  /\ \A a \in Call : call[a] # "waiting"
  /\ open' = FALSE
  /\ UNCHANGED <<workerVars, fsVars, faultVars, chan, call, mark, remaining, ops, latest>>

DecreaseBelowZero(t) == t - 1   \* variant: a plain subtraction of times
Decrease(t) == IF t = 0 THEN 0 ELSE t - 1

\* One unit of time passes for every deadline.
Tick ==
  /\ \/ \E i \in DOMAIN pending : pending[i].left > 0
     \/ \E a \in Call : call[a] = "waiting" /\ remaining[a] > 0
  /\ pending' = [i \in DOMAIN pending |->
                   [pending[i] EXCEPT !.left = Decrease(@)]]
  /\ remaining' = [a \in Call |-> Decrease(remaining[a])]
  /\ UNCHANGED <<pc, batch, goal, fsVars, faultVars, chan, open, call, mark, ops, latest>>

-----------------------------------------------------------------------------
(* The worker thread: fn run *)

\* Variants of enqueue that the runs reject: every operation starts the window
\* of its path again; the newest job goes to the front.
EnqueueRestartsWindow(queue, m) ==
  LET others == SelectSeq(queue, LAMBDA job : job.path # m.path)
      at == {i \in DOMAIN queue : queue[i].path = m.path}
      job == [path |-> m.path, kind |-> m.kind, n |-> m.n, first |-> m.n, left |-> Delay]
  IN  IF at = {} THEN Append(others, job)
      ELSE [i \in DOMAIN queue |-> IF i \in at THEN job ELSE queue[i]]
EnqueueAtFront(queue, m) ==
  <<[path |-> m.path, kind |-> m.kind, n |-> m.n, first |-> m.n, left |-> Delay]>> \o queue

\* enqueue: an operation on a path that is already queued replaces the queued
\* one in place and keeps its deadline; otherwise it joins at the end.
Enqueue(queue, m) ==
  IF \E i \in DOMAIN queue : queue[i].path = m.path
  THEN [i \in DOMAIN queue |->
          IF queue[i].path = m.path
          THEN [queue[i] EXCEPT !.kind = m.kind, !.n = m.n]
          ELSE queue[i]]
  ELSE Append(queue, [path |-> m.path, kind |-> m.kind, n |-> m.n,
                      first |-> m.n, left |-> Delay])

ReceiveOp ==
  /\ pc = "recv"
  /\ chan # <<>> /\ Head(chan).type = "op"
  /\ pending' = Enqueue(pending, Head(chan))
  /\ chan' = Tail(chan)
  /\ pc' = "due"
  /\ UNCHANGED <<batch, goal, clientVars, fsVars, faultVars>>

\* Variant: a flush performs only the jobs that are due.
ReceiveFlushDueOnly ==
  /\ pc = "recv"
  /\ chan # <<>> /\ Head(chan).type = "flush"
  /\ goal' = Head(chan).ack
  /\ batch' \in {k \in 0..Len(pending) : /\ \A i \in 1..k : pending[i].left = 0
                                        /\ k < Len(pending) => pending[k + 1].left > 0}
  /\ chan' = Tail(chan)
  /\ pc' = "work"
  /\ UNCHANGED <<pending, clientVars, fsVars, faultVars>>

\* A flush: perform_all takes the whole queue, then the call is answered.
ReceiveFlush ==
  /\ pc = "recv"
  /\ chan # <<>> /\ Head(chan).type = "flush"
  /\ goal' = Head(chan).ack
  /\ batch' = Len(pending)
  /\ chan' = Tail(chan)
  /\ pc' = "work"
  /\ UNCHANGED <<pending, clientVars, fsVars, faultVars>>

\* recv_timeout ran out: the first deadline has passed and nothing arrived.
ReceiveTimesOut ==
  /\ pc = "recv"
  /\ chan = <<>>
  /\ pending # <<>> /\ Head(pending).left = 0
  /\ pc' = "due"
  /\ UNCHANGED <<batch, goal, pending, chan, clientVars, fsVars, faultVars>>

\* Variant: the thread ends without performing what is queued.
DisconnectedAtOnce ==
  /\ pc = "recv"
  /\ chan = <<>> /\ ~open
  /\ goal' = "exit"
  /\ batch' = 0
  /\ pc' = "work"
  /\ UNCHANGED <<pending, chan, clientVars, fsVars, faultVars>>

\* The channel is empty and disconnected: the loop ends with perform_all.
Disconnected ==
  /\ pc = "recv"
  /\ chan = <<>> /\ ~open
  /\ goal' = "exit"
  /\ batch' = Len(pending)
  /\ pc' = "work"
  /\ UNCHANGED <<pending, chan, clientVars, fsVars, faultVars>>

\* The jobs at the head of the queue that are due now; "now" is read once,
\* a job that becomes due while these are performed waits for the next round.
IsDuePrefix(k) == /\ \A i \in 1..k : pending[i].left = 0
                  /\ k < Len(pending) => pending[k + 1].left > 0

\* Variant: the timer performs the whole queue.
CollectAll ==
  /\ pc = "due"
  /\ batch' = Len(pending)
  /\ pc' = "work"
  /\ UNCHANGED <<goal, pending, chan, clientVars, fsVars, faultVars>>

CollectDue ==
  /\ pc = "due"
  /\ batch' \in {k \in 0..Len(pending) : IsDuePrefix(k)}
  /\ pc' = "work"
  /\ UNCHANGED <<goal, pending, chan, clientVars, fsVars, faultVars>>

-----------------------------------------------------------------------------
(* fn perform.  The job being performed stays at the head of pending until *)
(* it is finished; the code removes it first, but no other thread sees the *)
(* queue and every failure inside perform, a panic included, is caught.    *)

Performing(kind) == /\ pc = "work"
                    /\ batch > 0
                    /\ Head(pending).kind = kind

\* Variant: a job that fails takes the thread down with it.
FinishOrDie(ok) ==
  LET job == Head(pending) IN
  /\ pending' = Tail(pending)
  /\ batch' = batch - 1
  /\ pc' = IF ok THEN "work" ELSE "exit"
  /\ tried' = [tried EXCEPT ![job.path] = job.n]
  /\ disk' = IF ok THEN [disk EXCEPT ![job.path] = job.n] ELSE disk
  /\ lastError' = ~ok
  /\ faults' = IF ok THEN faults ELSE faults + 1
  /\ UNCHANGED <<goal, chan, clientVars, media, crashes, powerCuts>>

\* The job at the head has been attempted; set_error or clear_error follows.
Finish(ok) ==
  LET job == Head(pending) IN
  /\ pending' = Tail(pending)
  /\ batch' = batch - 1
  /\ pc' = "work"
  /\ tried' = [tried EXCEPT ![job.path] = job.n]
  /\ disk' = IF ok THEN [disk EXCEPT ![job.path] = job.n] ELSE disk
  /\ lastError' = ~ok
  /\ faults' = IF ok THEN faults ELSE faults + 1
  /\ UNCHANGED <<goal, chan, clientVars, media, crashes, powerCuts>>

\* Variant: the target itself is truncated and written.
WriteInPlace ==
  /\ Performing("write")
  /\ temps' = temps + 1
  /\ disk' = [disk EXCEPT ![Head(pending).path] = 0]
  /\ pc' = "persist"
  /\ UNCHANGED <<batch, goal, pending, chan, clientVars, faultVars,
                 media, tried, lastError>>

\* encode, create_dir_all, the temporary file, write_all and sync_all succeed.
WriteTemp ==
  /\ Performing("write")
  /\ temps' = temps + 1
  /\ pc' = "persist"
  /\ UNCHANGED <<batch, goal, pending, chan, clientVars, faultVars,
                 disk, media, tried, lastError>>

\* One of them fails or encode panics; a temporary file that was already
\* created is deleted when its guard is dropped.
WriteTempFails ==
  /\ Performing("write")
  /\ faults < MaxFaults
  /\ Finish(FALSE)
  /\ UNCHANGED temps

\* persist renames the temporary file over the target.
Persist == /\ pc = "persist"
           /\ Finish(TRUE)
           /\ temps' = temps - 1

\* Variant: the temporary file is left behind when the rename fails.
PersistFailsLeavingTemp == /\ pc = "persist"
                           /\ faults < MaxFaults
                           /\ Finish(FALSE)
                           /\ UNCHANGED temps

\* The rename fails; the error owns the temporary file and deletes it.
PersistFails == /\ pc = "persist"
                /\ faults < MaxFaults
                /\ Finish(FALSE)
                /\ temps' = temps - 1

\* remove_if_exists; a file that is already gone counts as removed.
Remove == /\ Performing("delete")
          /\ Finish(TRUE)
          /\ UNCHANGED temps

RemoveFails == /\ Performing("delete")
               /\ faults < MaxFaults
               /\ Finish(FALSE)
               /\ UNCHANGED temps

\* Variant: the call is answered before the batch is done.
AcknowledgeEarly ==
  /\ pc = "work"
  /\ goal \in Call
  /\ call' = IF call[goal] = "waiting" THEN [call EXCEPT ![goal] = "ok"] ELSE call
  /\ goal' = "loop"
  /\ pc' = "due"
  /\ batch' = 0
  /\ UNCHANGED <<pending, chan, open, mark, remaining, ops, latest, fsVars, faultVars>>

\* The batch of a flush is done.  The send is ignored when the caller has
\* given up; the loop then goes on to look for due jobs.
Acknowledge ==
  /\ pc = "work" /\ batch = 0
  /\ goal \in Call
  /\ call' = IF call[goal] = "waiting" THEN [call EXCEPT ![goal] = "ok"] ELSE call
  /\ goal' = "loop"
  /\ pc' = "due"
  /\ UNCHANGED <<batch, pending, chan, open, mark, remaining, ops, latest, fsVars, faultVars>>

\* Variant: the thread goes back to the channel after the last batch.
EndBatchAlwaysLoops ==
  /\ pc = "work" /\ batch = 0
  /\ goal \in {"loop", "exit"}
  /\ pc' = "recv"
  /\ UNCHANGED <<batch, goal, pending, chan, clientVars, fsVars, faultVars>>

\* The batch of due jobs, or the last one before the thread ends, is done.
EndBatch ==
  /\ pc = "work" /\ batch = 0
  /\ goal \in {"loop", "exit"}
  /\ pc' = IF goal = "loop" THEN "recv" ELSE "exit"
  /\ UNCHANGED <<batch, goal, pending, chan, clientVars, fsVars, faultVars>>

-----------------------------------------------------------------------------
(* The process and the machine *)

\* The operating system writes the directory entry of p back: from now on a
\* power cut keeps it (write_atomic does not fsync the directory).
WriteBack(p) ==
  /\ media[p] # disk[p]
  /\ media' = [media EXCEPT ![p] = disk[p]]
  /\ UNCHANGED <<workerVars, clientVars, faultVars, chan, disk, temps, tried, lastError>>

\* A new process opens the store: StoreWriter::spawn on the files it finds.
Boot ==
  /\ open' = TRUE
  /\ chan' = <<>> /\ pending' = <<>>
  /\ pc' = "recv" /\ batch' = 0 /\ goal' = "loop"
  /\ lastError' = FALSE
  /\ remaining' = [a \in Call |-> 0]
  /\ latest' = tried
  /\ call' = [a \in Call |-> "idle"]
  /\ mark' = [a \in Call |-> Zero]
  /\ UNCHANGED <<ops, tried, media, temps, faults>>

Reopen == /\ pc = "exit"
          /\ Boot
          /\ UNCHANGED <<disk, crashes, powerCuts>>

Crash == /\ crashes < MaxCrashes
         /\ crashes' = crashes + 1
         /\ Boot
         /\ UNCHANGED <<disk, powerCuts>>

PowerCut == /\ crashes < MaxCrashes
            /\ crashes' = crashes + 1
            /\ powerCuts' = powerCuts + 1
            /\ disk' = media
            /\ Boot

-----------------------------------------------------------------------------
Receive == ReceiveOp \/ ReceiveFlush \/ ReceiveTimesOut \/ Disconnected
Perform == \/ WriteTemp \/ WriteTempFails
           \/ Persist \/ PersistFails
           \/ Remove \/ RemoveFails
Worker  == Receive \/ CollectDue \/ Perform \/ Acknowledge \/ EndBatch

Caller == \/ \E p \in Path, kind \in {"write", "delete"} : Submit(p, kind)
          \/ \E a \in Call : FlushStart(a) \/ FlushTimesOut(a)
          \/ DropHandles

Environment == \/ Tick
               \/ \E p \in Path : WriteBack(p)
               \/ Reopen \/ Crash \/ PowerCut

Next == Worker \/ Caller \/ Environment

Spec == Init /\ [][Next]_vars

\* The thread is scheduled and time passes; nothing makes a caller act.
FairSpec == /\ Spec
            /\ WF_vars(Worker)
            /\ WF_vars(Tick)
            /\ \A a \in Call : WF_vars(FlushTimesOut(a))

-----------------------------------------------------------------------------
(* Properties *)

\* "Ordered by first arrival [...] so the first is always the earliest due"
\* (comment in fn run): waiting only for the head of the queue misses no
\* deadline, and a path is queued at most once.
QueueOrder ==
  \A i, j \in DOMAIN pending : i < j =>
    /\ pending[i].path # pending[j].path
    /\ pending[i].first < pending[j].first
    /\ pending[i].left <= pending[j].left

\* A flush that returned true answers for every operation sent before it was
\* called, by any thread: each has been attempted or was superseded by a newer
\* one on its path that has been (flush, perform_all, the channel's order).
FlushComplete ==
  \A a \in Call : call[a] = "ok" => \A p \in Path : mark[a][p] <= tried[p]

\* The thread ends only after everything that was ever sent was attempted
\* ("all handles dropped: write the remaining jobs, then exit").
ExitDrained == pc = "exit" => tried = latest /\ chan = <<>> /\ ~open

\* As long as no operation failed and the power stayed on, the files show
\* exactly what was attempted last, kills of the process included.
NothingLostSilently == faults = 0 /\ powerCuts = 0 => disk = tried

\* "A crash leaves at most one temporary file" (comment of write_atomic);
\* the failure paths leave none.
OneTempPerCrash ==
  IF pc = "persist" THEN temps <= crashes + 1 ELSE temps <= crashes

\* A job performed by the timer, not by a flush or the end of the thread, has
\* waited for its whole window, so bursts reach the disk once per window.
WindowHonoured ==
  goal = "loop" => \A i \in 1..batch : pending[i].left = 0

\* No file ever goes back to an older version while the power stays on:
\* neither the coalescing nor a flush overtakes or repeats an operation.
DiskNeverRewinds ==
  [][powerCuts' = powerCuts => \A p \in Path : disk[p] <= disk'[p]]_vars

\* Every operation is attempted, or a newer one on its path, however many
\* messages keep arriving (a kill ends the wait: what was queued is lost).
EveryOpSettles == \A p \in Path : tried[p] < latest[p] ~> tried[p] = latest[p]

\* A dropped store shuts down by itself.
DropEndsThread == ~open ~> (pc = "exit" \/ open)

\* The writer always gets done: what is handed over is attempted, however long
\* messages keep coming and writes fail, and a dropped store writes the rest and
\* ends its thread (run).
WriterGetsDone == EveryOpSettles /\ DropEndsThread

\* The queue, its thread and the clock are hidden: the abstract variables are the
\* ones of the same name.
Durable == INSTANCE DurableStore WITH Path <- Path, Call <- Call, ops <- ops, latest <- latest,
                                      tried <- tried, disk <- disk, call <- call, mark <- mark
\* The queue implements what callers rely on.
ImplementsDurableStore == Durable!Spec

-----------------------------------------------------------------------------
(* The inductive invariant behind the properties above *)

\* The program counter, the batch and its goal agree.
Control ==
  /\ pc \in {"recv", "due", "exit"} => batch = 0
  /\ pc \in {"recv", "due"} => goal = "loop"
  /\ pc = "persist" => batch > 0
  /\ goal # "loop" => batch = Len(pending)
  /\ goal = "exit" => ~open /\ chan = <<>>
  /\ pc = "exit" => goal = "exit"

IsOp(i)    == chan[i].type = "op"
IsFlush(i) == chan[i].type = "flush"

\* The number of an operation grows from the disk to the channel: what is
\* queued is newer than what was attempted on its path, and what is still in
\* the channel is newer than anything received.
NewerPaths == \A p \in Path : tried[p] <= latest[p] /\ latest[p] <= ops
NewerQueue ==
  \A i \in DOMAIN pending : /\ tried[pending[i].path] < pending[i].n
                            /\ pending[i].first <= pending[i].n
                            /\ pending[i].n <= latest[pending[i].path]
                            /\ pending[i].left <= Delay
NewerChannel ==
  \A j \in DOMAIN chan : IsOp(j) =>
    /\ chan[j].n <= latest[chan[j].path]
    /\ \A p \in Path : tried[p] < chan[j].n
    /\ \A i \in DOMAIN pending : pending[i].n < chan[j].n
    /\ \A i \in DOMAIN chan : i < j /\ IsOp(i) => chan[i].n < chan[j].n
Newer == NewerPaths /\ NewerQueue /\ NewerChannel

\* Operation m on p, or a newer one on p, has been attempted, is queued, or is
\* among the first k messages of the channel.
Received(p, m) == \/ m <= tried[p]
                  \/ \E i \in DOMAIN pending : pending[i].path = p /\ m <= pending[i].n
Covered(p, m, k) ==
  \/ Received(p, m)
  \/ \E j \in 1..k : IsOp(j) /\ chan[j].path = p /\ m <= chan[j].n

\* Nothing handed over is lost on its way, and a flush message stands behind
\* everything its call has to wait for.
ChannelCovers == \A p \in Path : Covered(p, latest[p], Len(chan))
FlushCovers ==
  \A j \in DOMAIN chan : IsFlush(j) =>
    \A p \in Path : Covered(p, mark[chan[j].ack][p], j - 1)
GoalCovers == goal \in Call => \A p \in Path : Received(p, mark[goal][p])
NothingDropped == ChannelCovers /\ FlushCovers /\ GoalCovers

\* What a power cut can bring back is never newer than what the files show.
Files ==
  /\ \A p \in Path : media[p] <= disk[p] /\ disk[p] <= tried[p]
  /\ pc = "persist" => temps > 0

IInv == /\ TypeOK /\ Control /\ QueueOrder /\ Newer /\ NothingDropped
        /\ Files /\ FlushComplete /\ NothingLostSilently
        /\ OneTempPerCrash /\ WindowHonoured

=============================================================================
