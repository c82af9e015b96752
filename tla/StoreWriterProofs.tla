------------------------- MODULE StoreWriterProofs -------------------------
(***************************************************************************)
(* Proofs about StoreWriter, for every set of files and of flush calls and *)
(* every value of the window, of the timeout and of the bounds.            *)
(***************************************************************************)
EXTENDS StoreWriter, SequenceTheorems, TLAPS

Msg == OpMsg \cup FlushMsg

-----------------------------------------------------------------------------
(* The queue operators *)

\* A path that is queued already: enqueue changes the operation of its entry
\* and neither the order nor a deadline.
LEMMA EnqueueKnown ==
  ASSUME NEW q \in Seq(Job), NEW m \in OpMsg,
         \E i \in DOMAIN q : q[i].path = m.path
  PROVE  /\ Enqueue(q, m) \in Seq(Job)
         /\ Len(Enqueue(q, m)) = Len(q)
         /\ DOMAIN Enqueue(q, m) = DOMAIN q
         /\ \A i \in DOMAIN q :
              /\ Enqueue(q, m)[i].path = q[i].path
              /\ Enqueue(q, m)[i].first = q[i].first
              /\ Enqueue(q, m)[i].left = q[i].left
              /\ Enqueue(q, m)[i].n = IF q[i].path = m.path THEN m.n ELSE q[i].n
<1> DEFINE e(i) == IF q[i].path = m.path
                   THEN [q[i] EXCEPT !.kind = m.kind, !.n = m.n] ELSE q[i]
<1>1. \A i \in 1..Len(q) : e(i) \in Job
  <2> TAKE i \in 1..Len(q)
  <2>1. q[i] \in Job
    OBVIOUS
  <2>2. [q[i] EXCEPT !.kind = m.kind, !.n = m.n] \in Job
    BY <2>1 DEF Job, OpMsg
  <2> QED BY <2>1, <2>2
<1>2. Enqueue(q, m) = [i \in 1..Len(q) |-> e(i)]
  <2>1. DOMAIN q = 1..Len(q)
    OBVIOUS
  <2> QED BY <2>1, Zenon DEF Enqueue
<1>3. [i \in 1..Len(q) |-> e(i)] \in Seq(Job)
  <2> HIDE DEF e
  <2> QED BY <1>1, IsASeq
<1>4. \A i \in 1..Len(q) : /\ e(i).path = q[i].path
                           /\ e(i).first = q[i].first
                           /\ e(i).left = q[i].left
                           /\ e(i).n = IF q[i].path = m.path THEN m.n ELSE q[i].n
  <2> TAKE i \in 1..Len(q)
  <2>1. q[i] \in Job
    OBVIOUS
  <2> QED BY <2>1 DEF Job, OpMsg
<1> HIDE DEF e
<1> QED BY <1>2, <1>3, <1>4

\* A path that is not queued joins at the end with a whole window to wait.
LEMMA EnqueueNew ==
  ASSUME NEW q \in Seq(Job), NEW m \in OpMsg,
         \A i \in DOMAIN q : q[i].path # m.path
  PROVE  /\ Enqueue(q, m) \in Seq(Job)
         /\ Len(Enqueue(q, m)) = Len(q) + 1
         /\ \A i \in DOMAIN q : Enqueue(q, m)[i] = q[i]
         /\ Enqueue(q, m)[Len(q) + 1] =
              [path |-> m.path, kind |-> m.kind, n |-> m.n,
               first |-> m.n, left |-> Delay]
<1> DEFINE j == [path |-> m.path, kind |-> m.kind, n |-> m.n,
                 first |-> m.n, left |-> Delay]
<1>1. j \in Job
  BY ConstantsAssumption DEF Job, OpMsg
<1>2. Enqueue(q, m) = Append(q, j)
  BY DEF Enqueue
<1> HIDE DEF j
<1>3. QED
  BY <1>1, <1>2, AppendProperties DEF j

-----------------------------------------------------------------------------
(* Type correctness *)

\* The store that was just opened: no queue, no call, no fault.
LEMMA InitEstablishes == Init => IInv
<1> SUFFICES ASSUME Init PROVE IInv
  OBVIOUS
<1> USE ConstantsAssumption DEF Init, Zero
<1>1. TypeOK
  <2>1. chan \in Seq(OpMsg \cup FlushMsg) /\ pending \in Seq(Job) /\ batch \in 0..Len(pending)
    BY EmptySeq
  <2>2. /\ disk \in [Path -> Version] /\ media \in [Path -> Version]
        /\ latest \in [Path -> Version] /\ tried \in [Path -> Version]
        /\ mark \in [Call -> [Path -> Version]] /\ ops \in Version
    BY DEF Version
  <2>3. open \in BOOLEAN /\ lastError \in BOOLEAN
    BY Zenon
  <2>4. /\ remaining \in [Call -> 0..FlushTimeout]
        /\ call \in [Call -> {"idle", "waiting", "ok", "timeout"}]
        /\ temps \in Nat /\ faults \in 0..MaxFaults /\ crashes \in 0..MaxCrashes
        /\ powerCuts \in 0..crashes
    OBVIOUS
  <2>5. /\ pc \in {"recv", "due", "work", "persist", "exit"}
        /\ goal \in Call \cup {"loop", "exit"}
    OBVIOUS
  <2> HIDE DEF Init
  <2> QED BY <2>1, <2>2, <2>3, <2>4, <2>5 DEF TypeOK
<1>2. Control /\ QueueOrder /\ Files /\ NothingLostSilently /\ OneTempPerCrash
  BY DEF Control, QueueOrder, Files, NothingLostSilently, OneTempPerCrash
<1>3. Newer
  BY DEF Newer, NewerPaths, NewerQueue, NewerChannel
<1>4. NothingDropped
  BY ConstantsAssumption
  DEF NothingDropped, ChannelCovers, FlushCovers, GoalCovers, Covered, Received
<1>5. FlushComplete /\ WindowHonoured
  BY DEF FlushComplete, WindowHonoured
<1> QED BY <1>1, <1>2, <1>3, <1>4, <1>5 DEF IInv

\* The message and the job at the head, and what remains behind them.
LEMMA Heads ==
  ASSUME TypeOK
  PROVE  /\ chan # <<>> => /\ Head(chan) \in Msg /\ Head(chan) = chan[1]
                           /\ Tail(chan) \in Seq(Msg)
                           /\ Len(Tail(chan)) = Len(chan) - 1
                           /\ Len(chan) \in Nat \ {0}
                           /\ \A i \in 1..Len(Tail(chan)) : Tail(chan)[i] = chan[i + 1]
         /\ pending # <<>> => /\ Head(pending) \in Job /\ Head(pending) = pending[1]
                              /\ Tail(pending) \in Seq(Job)
                              /\ Len(Tail(pending)) = Len(pending) - 1
                              /\ Len(pending) \in Nat \ {0}
                              /\ \A i \in 1..Len(Tail(pending)) :
                                   Tail(pending)[i] = pending[i + 1]
<1>1. chan \in Seq(Msg) /\ pending \in Seq(Job)
  BY DEF TypeOK, Msg
<1> QED BY <1>1, HeadTailProperties, EmptySeq

\* An attempt always concerns the head of a queue that is not empty.
LEMMA PerformQueue ==
  ASSUME TypeOK, Control, Perform
  PROVE  /\ batch \in Nat \ {0} /\ pending # <<>>
         /\ pc \in {"work", "persist"}
<1>1. batch \in 0..Len(pending) /\ pending \in Seq(Job)
  BY DEF TypeOK
<1>2. batch > 0 /\ pc \in {"work", "persist"}
  BY DEF Perform, WriteTemp, WriteTempFails, Persist, PersistFails, Remove,
         RemoveFails, Performing, Control
<1> QED BY <1>1, <1>2

\* The end of an attempt keeps every variable but temps in its type.
LEMMA FinishType ==
  ASSUME TypeOK, NEW ok \in BOOLEAN, Finish(ok),
         batch \in Nat \ {0}, pending # <<>>, ok \/ faults < MaxFaults,
         temps' \in Nat
  PROVE  TypeOK'
<1>1. /\ Head(pending) \in Job /\ Tail(pending) \in Seq(Job)
      /\ Len(Tail(pending)) = Len(pending) - 1
      /\ batch \in 0..Len(pending) /\ Len(pending) \in Nat
  BY Heads DEF TypeOK
<1>2. /\ Head(pending).path \in Path /\ Head(pending).n \in Version
  BY <1>1 DEF Job
<1>3. /\ pending' \in Seq(Job) /\ batch' \in 0..Len(pending')
  BY <1>1 DEF Finish
<1>4. /\ tried' \in [Path -> Version] /\ disk' \in [Path -> Version]
  BY <1>2 DEF Finish, TypeOK
<1>5. faults' \in 0..MaxFaults
  BY ConstantsAssumption DEF Finish, TypeOK
<1>6. lastError' \in BOOLEAN
  BY Zenon DEF Finish
<1>7. pc' \in {"recv", "due", "work", "persist", "exit"}
  BY DEF Finish
<1>8. UNCHANGED <<goal, chan, clientVars, media, crashes, powerCuts>>
  BY DEF Finish
<1> QED
  BY <1>3, <1>4, <1>5, <1>6, <1>7, <1>8 DEF TypeOK, clientVars

\* A step of perform: a job is finished, or its temporary file is written.
LEMMA TypePerform ==
  ASSUME TypeOK, Control, Files, Perform
  PROVE  TypeOK'
<1>1. batch \in Nat \ {0} /\ pending # <<>>
  BY PerformQueue
<1>2. temps \in Nat /\ (pc = "persist" => temps > 0)
  BY DEF TypeOK, Files
<1>3. CASE WriteTemp
  <2>1. temps' \in Nat /\ pc' \in {"recv", "due", "work", "persist", "exit"}
    BY <1>2, <1>3 DEF WriteTemp
  <2> QED BY <1>3, <2>1 DEF WriteTemp, TypeOK, clientVars, faultVars
<1>4. CASE WriteTempFails
  BY <1>1, <1>2, <1>4, FinishType DEF WriteTempFails
<1>5. CASE Persist
  <2>1. pc = "persist" /\ Finish(TRUE) /\ temps' = temps - 1
    BY <1>5, Zenon DEF Persist
  <2>2. temps' \in Nat
    BY <1>2, <2>1
  <2> QED BY <1>1, <2>1, <2>2, FinishType, Zenon
<1>6. CASE PersistFails
  <2>1. pc = "persist" /\ Finish(FALSE) /\ temps' = temps - 1 /\ faults < MaxFaults
    BY <1>6, Zenon DEF PersistFails
  <2>2. temps' \in Nat
    BY <1>2, <2>1
  <2> QED BY <1>1, <2>1, <2>2, FinishType, Zenon
<1>7. CASE Remove
  <2>1. Finish(TRUE) /\ temps' \in Nat
    BY <1>2, <1>7 DEF Remove
  <2> QED BY <1>1, <2>1, FinishType, Zenon
<1>8. CASE RemoveFails
  BY <1>1, <1>2, <1>8, FinishType DEF RemoveFails
<1> QED BY <1>3, <1>4, <1>5, <1>6, <1>7, <1>8 DEF Perform

\* What Boot sets, whatever becomes of the disk.
LEMMA TypeBoot ==
  ASSUME TypeOK, Boot, disk' \in [Path -> Version],
         crashes' \in 0..MaxCrashes, powerCuts' \in 0..crashes'
  PROVE  TypeOK'
<1>1. /\ chan' \in Seq(OpMsg \cup FlushMsg) /\ pending' \in Seq(Job)
      /\ batch' \in 0..Len(pending')
  BY EmptySeq DEF Boot
<1>2. /\ pc' \in {"recv", "due", "work", "persist", "exit"}
      /\ goal' \in Call \cup {"loop", "exit"}
      /\ call' \in [Call -> {"idle", "waiting", "ok", "timeout"}]
  BY DEF Boot
<1>3. /\ remaining' \in [Call -> 0..FlushTimeout]
      /\ mark' \in [Call -> [Path -> Version]]
  BY ConstantsAssumption DEF Boot, Zero, Version
<1>4. open' \in BOOLEAN /\ lastError' \in BOOLEAN
  BY Zenon DEF Boot
<1>5. /\ latest' \in [Path -> Version] /\ UNCHANGED <<ops, tried, media, temps, faults>>
  BY DEF Boot, TypeOK
<1> QED BY <1>1, <1>2, <1>3, <1>4, <1>5 DEF TypeOK

\* Callers and the clock.
LEMMA TypeCaller ==
  ASSUME TypeOK, Caller \/ Tick
  PROVE  TypeOK'
<1>1. ASSUME NEW p \in Path, NEW kind \in {"write", "delete"}, Submit(p, kind)
      PROVE  TypeOK'
  <2>1. ops + 1 \in Version
    BY <1>1, ConstantsAssumption DEF Submit, TypeOK, Version
  <2>2. [type |-> "op", path |-> p, kind |-> kind, n |-> ops + 1] \in OpMsg
    BY <2>1 DEF OpMsg
  <2>3. chan' \in Seq(OpMsg \cup FlushMsg)
    BY <1>1, <2>2, AppendProperties DEF Submit, TypeOK
  <2>4. /\ ops' \in Version /\ latest' \in [Path -> Version]
        /\ UNCHANGED <<workerVars, fsVars, faultVars, open, call, mark, remaining>>
    BY <1>1, <2>1 DEF Submit, TypeOK
  <2> QED BY <2>3, <2>4 DEF TypeOK, workerVars, fsVars, faultVars
<1>2. ASSUME NEW a \in Call, FlushStart(a)
      PROVE  TypeOK'
  <2>1. [type |-> "flush", ack |-> a] \in FlushMsg
    BY DEF FlushMsg
  <2>2. chan' \in Seq(OpMsg \cup FlushMsg)
    BY <1>2, <2>1, AppendProperties DEF FlushStart, TypeOK
  <2>3. /\ call' \in [Call -> {"idle", "waiting", "ok", "timeout"}]
        /\ mark' \in [Call -> [Path -> Version]]
        /\ remaining' \in [Call -> 0..FlushTimeout]
        /\ UNCHANGED <<workerVars, fsVars, faultVars, open, ops, latest>>
    BY <1>2, ConstantsAssumption DEF FlushStart, TypeOK
  <2> QED BY <2>2, <2>3 DEF TypeOK, workerVars, fsVars, faultVars
<1>3. ASSUME NEW a \in Call, FlushTimesOut(a)
      PROVE  TypeOK'
  <2>1. /\ call' \in [Call -> {"idle", "waiting", "ok", "timeout"}]
        /\ UNCHANGED <<workerVars, fsVars, faultVars, chan, open, mark,
                       remaining, ops, latest>>
    BY <1>3 DEF FlushTimesOut, TypeOK
  <2> QED BY <2>1 DEF TypeOK, workerVars, fsVars, faultVars
<1>4. CASE DropHandles
  <2>1. /\ open' \in BOOLEAN
        /\ UNCHANGED <<workerVars, fsVars, faultVars, chan, call, mark,
                       remaining, ops, latest>>
    BY <1>4, Zenon DEF DropHandles
  <2> QED BY <2>1 DEF TypeOK, workerVars, fsVars, faultVars
<1>5. CASE Tick
  <2> DEFINE e(i) == [pending[i] EXCEPT !.left = Decrease(@)]
  <2>1. pending \in Seq(Job) /\ DOMAIN pending = 1..Len(pending) /\ Len(pending) \in Nat
    BY LenProperties DEF TypeOK
  <2>2. \A i \in 1..Len(pending) : e(i) \in Job
    <3> TAKE i \in 1..Len(pending)
    <3>1. pending[i] \in Job
      BY <2>1
    <3>2. Decrease(pending[i].left) \in Nat
      BY <3>1 DEF Job, Decrease
    <3> QED BY <3>1, <3>2 DEF Job
  <2>3. pending' = [i \in 1..Len(pending) |-> e(i)]
    BY <1>5, <2>1, Zenon DEF Tick
  <2> HIDE DEF e
  <2>4. pending' \in Seq(Job) /\ Len(pending') = Len(pending)
    BY <2>1, <2>2, <2>3, IsASeq
  <2>5. batch' \in 0..Len(pending')
    BY <1>5, <2>4 DEF Tick, TypeOK
  <2>6. remaining' \in [Call -> 0..FlushTimeout]
    BY <1>5, ConstantsAssumption DEF Tick, TypeOK, Decrease
  <2>7. UNCHANGED <<pc, goal, fsVars, faultVars, chan, open, call, mark, ops, latest>>
    BY <1>5 DEF Tick
  <2> QED BY <2>4, <2>5, <2>6, <2>7 DEF TypeOK, fsVars, faultVars
<1> QED BY <1>1, <1>2, <1>3, <1>4, <1>5 DEF Caller

\* The worker outside of perform.
LEMMA TypeLoop ==
  ASSUME TypeOK, Receive \/ CollectDue \/ Acknowledge \/ EndBatch
  PROVE  TypeOK'
<1>1. chan \in Seq(Msg) /\ pending \in Seq(Job) /\ Len(pending) \in Nat
  BY DEF TypeOK, Msg
<1>2. CASE ReceiveOp
  <2>1. Head(chan) \in OpMsg /\ Tail(chan) \in Seq(Msg)
    BY <1>2, Heads DEF ReceiveOp, Msg, OpMsg, FlushMsg
  <2>2. pending' \in Seq(Job)
    BY <1>1, <1>2, <2>1, EnqueueKnown, EnqueueNew DEF ReceiveOp
  <2>3. Len(pending') \in {Len(pending), Len(pending) + 1}
    <3>1. pending' = Enqueue(pending, Head(chan))
      BY <1>2 DEF ReceiveOp
    <3>2. CASE \E i \in DOMAIN pending : pending[i].path = Head(chan).path
      BY <1>1, <2>1, <3>1, <3>2, EnqueueKnown
    <3>3. CASE \A i \in DOMAIN pending : pending[i].path # Head(chan).path
      BY <1>1, <2>1, <3>1, <3>3, EnqueueNew
    <3> QED BY <3>2, <3>3
  <2>4. batch' \in 0..Len(pending')
    BY <1>1, <1>2, <2>3 DEF ReceiveOp, TypeOK
  <2>5. /\ chan' \in Seq(Msg) /\ pc' \in {"recv", "due", "work", "persist", "exit"}
        /\ UNCHANGED <<goal, clientVars, fsVars, faultVars>>
    BY <1>2, <2>1 DEF ReceiveOp
  <2> QED BY <2>2, <2>4, <2>5 DEF TypeOK, Msg, clientVars, fsVars, faultVars
<1>3. CASE ReceiveFlush
  <2>1. Head(chan) \in FlushMsg /\ Tail(chan) \in Seq(Msg)
    BY <1>3, Heads DEF ReceiveFlush, Msg, OpMsg, FlushMsg
  <2>2. Head(chan).ack \in Call
    BY <2>1 DEF FlushMsg
  <2>3. /\ chan' \in Seq(Msg) /\ pc' \in {"recv", "due", "work", "persist", "exit"}
        /\ goal' \in Call \cup {"loop", "exit"} /\ batch' \in 0..Len(pending)
        /\ UNCHANGED <<pending, clientVars, fsVars, faultVars>>
    BY <1>1, <1>3, <2>1, <2>2 DEF ReceiveFlush
  <2> QED BY <2>3 DEF TypeOK, Msg, clientVars, fsVars, faultVars
<1>4. CASE ReceiveTimesOut
  BY <1>4 DEF ReceiveTimesOut, TypeOK, clientVars, fsVars, faultVars
<1>5. CASE Disconnected
  <2>1. /\ goal' \in Call \cup {"loop", "exit"} /\ batch' \in 0..Len(pending)
        /\ pc' \in {"recv", "due", "work", "persist", "exit"}
        /\ UNCHANGED <<pending, chan, clientVars, fsVars, faultVars>>
    BY <1>1, <1>5 DEF Disconnected
  <2> QED BY <2>1 DEF TypeOK, clientVars, fsVars, faultVars
<1>6. CASE CollectDue
  <2>1. /\ batch' \in 0..Len(pending) /\ pc' \in {"recv", "due", "work", "persist", "exit"}
        /\ UNCHANGED <<goal, pending, chan, clientVars, fsVars, faultVars>>
    BY <1>6 DEF CollectDue
  <2> QED BY <2>1 DEF TypeOK, clientVars, fsVars, faultVars
<1>7. CASE Acknowledge
  <2>1. /\ call' \in [Call -> {"idle", "waiting", "ok", "timeout"}]
        /\ goal' \in Call \cup {"loop", "exit"}
        /\ pc' \in {"recv", "due", "work", "persist", "exit"}
        /\ UNCHANGED <<batch, pending, chan, open, mark, remaining, ops, latest,
                       fsVars, faultVars>>
    BY <1>7 DEF Acknowledge, TypeOK
  <2> QED BY <2>1 DEF TypeOK, fsVars, faultVars
<1>8. CASE EndBatch
  <2>1. /\ pc' \in {"recv", "due", "work", "persist", "exit"}
        /\ UNCHANGED <<batch, goal, pending, chan, clientVars, fsVars, faultVars>>
    BY <1>8 DEF EndBatch
  <2> QED BY <2>1 DEF TypeOK, clientVars, fsVars, faultVars
<1> QED BY <1>2, <1>3, <1>4, <1>5, <1>6, <1>7, <1>8 DEF Receive

\* The clock, the operating system and a new process keep the types.
LEMMA TypeEnvironment ==
  ASSUME TypeOK, Environment
  PROVE  TypeOK'
<1>1. CASE Tick
  BY <1>1, TypeCaller
<1>2. ASSUME NEW p \in Path, WriteBack(p)
      PROVE  TypeOK'
  <2>1. /\ media' \in [Path -> Version]
        /\ UNCHANGED <<workerVars, clientVars, faultVars, chan, disk, temps,
                       tried, lastError>>
    BY <1>2 DEF WriteBack, TypeOK
  <2> QED BY <2>1 DEF TypeOK, workerVars, clientVars, faultVars
<1>3. CASE Reopen
  BY <1>3, TypeBoot DEF Reopen, TypeOK
<1>4. CASE Crash
  <2>1. Boot /\ crashes' \in 0..MaxCrashes /\ powerCuts' \in 0..crashes'
    BY <1>4, ConstantsAssumption DEF Crash, TypeOK
  <2> QED BY <1>4, <2>1, TypeBoot DEF Crash, TypeOK
<1>5. CASE PowerCut
  <2>1. Boot /\ crashes' \in 0..MaxCrashes /\ powerCuts' \in 0..crashes'
    BY <1>5, ConstantsAssumption DEF PowerCut, TypeOK
  <2> QED BY <1>5, <2>1, TypeBoot DEF PowerCut, TypeOK
<1> QED BY <1>1, <1>2, <1>3, <1>4, <1>5 DEF Environment

\* Every step keeps the types.
LEMMA TypeStep ==
  ASSUME TypeOK, Control, Files, [Next]_vars
  PROVE  TypeOK'
<1>1. CASE UNCHANGED vars
  BY <1>1 DEF TypeOK, vars, workerVars, clientVars, fsVars, faultVars
<1>2. CASE Worker
  BY <1>2, TypePerform, TypeLoop DEF Worker
<1> QED BY <1>1, <1>2, TypeCaller, TypeEnvironment DEF Next

-----------------------------------------------------------------------------
(* The program counter, the batch and the files *)

\* The length of the queue when the clock ticks.
LEMMA TickQueue ==
  ASSUME TypeOK, Tick
  PROVE  /\ Len(pending') = Len(pending) /\ DOMAIN pending' = DOMAIN pending
         /\ \A i \in DOMAIN pending :
              /\ pending'[i].path = pending[i].path
              /\ pending'[i].n = pending[i].n
              /\ pending'[i].first = pending[i].first
              /\ pending'[i].left = Decrease(pending[i].left)
              /\ pending[i].left \in Nat
<1>1. pending \in Seq(Job) /\ DOMAIN pending = 1..Len(pending) /\ Len(pending) \in Nat
  BY LenProperties DEF TypeOK
<1>2. pending' = [i \in 1..Len(pending) |-> [pending[i] EXCEPT !.left = Decrease(@)]]
  BY <1>1, Zenon DEF Tick
<1>3. pending' \in Seq(Job)
  BY TypeCaller DEF TypeOK
<1>4. Len(pending') = Len(pending) /\ DOMAIN pending' = DOMAIN pending
  BY <1>1, <1>2, <1>3
<1>5. ASSUME NEW i \in DOMAIN pending
      PROVE  /\ pending'[i].path = pending[i].path
             /\ pending'[i].n = pending[i].n
             /\ pending'[i].first = pending[i].first
             /\ pending'[i].left = Decrease(pending[i].left)
             /\ pending[i].left \in Nat
  <2>1. pending[i] \in Job /\ pending'[i] = [pending[i] EXCEPT !.left = Decrease(@)]
    BY <1>1, <1>2, <1>5
  <2> QED BY <2>1 DEF Job
<1> QED BY <1>4, <1>5

\* The queue after an attempt.
LEMMA FinishQueue ==
  ASSUME TypeOK, Control, NEW ok \in BOOLEAN, Finish(ok), Perform
  PROVE  /\ Len(pending') = Len(pending) - 1
         /\ Len(pending) \in Nat \ {0} /\ Len(pending') \in Nat
         /\ \A i \in 1..Len(pending') : pending'[i] = pending[i + 1]
         /\ Head(pending) = pending[1]
         /\ batch' = batch - 1 /\ batch \in Nat \ {0} /\ pc' = "work"
  BY PerformQueue, Heads DEF Finish

\* Every attempt but the first half of a write ends with Finish.
LEMMA PerformCases ==
  ASSUME Perform
  PROVE  \/ WriteTemp
         \/ \E ok \in BOOLEAN : Finish(ok)
  BY Zenon DEF Perform, WriteTempFails, Persist, PersistFails, Remove, RemoveFails

\* Every step keeps the thread's place, its batch and its goal in agreement.
LEMMA ControlStep ==
  ASSUME TypeOK, Control, [Next]_vars
  PROVE  Control'
<1> USE ConstantsAssumption
<1>1. CASE UNCHANGED vars
  BY <1>1 DEF Control, vars, workerVars, clientVars
<1>2. ASSUME NEW p \in Path, NEW kind \in {"write", "delete"}, Submit(p, kind)
      PROVE  Control'
  BY <1>2 DEF Control, Submit, workerVars
<1>3. ASSUME NEW a \in Call, FlushStart(a) \/ FlushTimesOut(a)
      PROVE  Control'
  BY <1>3 DEF Control, FlushStart, FlushTimesOut, workerVars
<1>4. CASE DropHandles
  BY <1>4 DEF Control, DropHandles, workerVars
<1>5. CASE Tick
  <2>1. Len(pending') = Len(pending)
    BY <1>5, TickQueue
  <2> QED BY <1>5, <2>1 DEF Control, Tick
<1>6. CASE Receive
  <2>1. CASE ReceiveOp
    BY <2>1 DEF Control, ReceiveOp, clientVars
  <2>2. CASE ReceiveFlush
    <3>1. Head(chan).ack \in Call
      BY <2>2, Heads DEF ReceiveFlush, Msg, OpMsg, FlushMsg
    <3> QED BY <2>2, <3>1 DEF Control, ReceiveFlush
  <2>3. CASE ReceiveTimesOut
    BY <2>3 DEF Control, ReceiveTimesOut, clientVars
  <2>4. CASE Disconnected
    BY <2>4 DEF Control, Disconnected, clientVars
  <2> QED BY <1>6, <2>1, <2>2, <2>3, <2>4 DEF Receive
<1>7. CASE CollectDue \/ Acknowledge \/ EndBatch
  <2>1. CASE CollectDue
    BY <1>7, <2>1 DEF Control, CollectDue, clientVars
  <2>2. CASE Acknowledge
    BY <1>7, <2>2 DEF Control, Acknowledge
  <2>3. CASE EndBatch
    BY <1>7, <2>3 DEF Control, EndBatch, clientVars
  <2> QED BY <1>7, <2>1, <2>2, <2>3
<1>8. CASE WriteTemp
  BY <1>8 DEF Control, WriteTemp, Performing, clientVars
<1>9. ASSUME Perform, NEW ok \in BOOLEAN, Finish(ok)
      PROVE  Control'
  <2>1. /\ Len(pending') = Len(pending) - 1 /\ batch' = batch - 1 /\ pc' = "work"
        /\ Len(pending) \in Nat
    BY <1>9, FinishQueue
  <2> QED BY <1>9, <2>1 DEF Control, Finish, clientVars
<1>10. ASSUME NEW p \in Path, WriteBack(p)
       PROVE  Control'
  BY <1>10 DEF Control, WriteBack, workerVars, clientVars
<1>11. CASE Reopen \/ Crash \/ PowerCut
  BY <1>11 DEF Control, Reopen, Crash, PowerCut, Boot
<1> QED
  BY <1>1, <1>2, <1>3, <1>4, <1>5, <1>6, <1>7, <1>8, <1>9, <1>10, <1>11, PerformCases
  DEF Next, Worker, Caller, Environment, Perform

\* An attempt moves the file it concerns forward, or leaves it alone.
LEMMA FinishDisk ==
  ASSUME TypeOK, Control, Newer, Files, Perform, NEW ok \in BOOLEAN, Finish(ok)
  PROVE  /\ \A p \in Path : /\ media'[p] <= disk'[p] /\ disk'[p] <= tried'[p]
                            /\ disk[p] <= disk'[p] /\ tried[p] <= tried'[p]
         /\ NothingLostSilently => NothingLostSilently'
<1> DEFINE job == pending[1]
<1>1. Len(pending) \in Nat \ {0} /\ Head(pending) = job
  BY FinishQueue
<1>2. job \in Job
  BY <1>1 DEF TypeOK
<1>3. /\ job.path \in Path /\ job.n \in Nat
      /\ tried[job.path] < job.n
  BY <1>1, <1>2, ConstantsAssumption DEF Newer, NewerQueue, Job, Version
<1>4. /\ tried' = [tried EXCEPT ![job.path] = job.n]
      /\ disk' = IF ok THEN [disk EXCEPT ![job.path] = job.n] ELSE disk
      /\ media' = media /\ powerCuts' = powerCuts
      /\ faults' = IF ok THEN faults ELSE faults + 1
  BY <1>1 DEF Finish
<1>5. /\ tried \in [Path -> Nat] /\ disk \in [Path -> Nat] /\ media \in [Path -> Nat]
      /\ faults \in Nat
  BY ConstantsAssumption DEF TypeOK, Version
<1> HIDE DEF job
<1>6. ASSUME NEW p \in Path
      PROVE  /\ media'[p] <= disk'[p] /\ disk'[p] <= tried'[p]
             /\ disk[p] <= disk'[p] /\ tried[p] <= tried'[p]
  <2>1. media[p] <= disk[p] /\ disk[p] <= tried[p]
    BY DEF Files
  <2> QED BY <1>3, <1>4, <1>5, <2>1
<1>7. ASSUME NothingLostSilently
      PROVE  NothingLostSilently'
  <2>1. CASE ok
    BY <1>4, <1>5, <1>7, <2>1 DEF NothingLostSilently
  <2>2. CASE ~ok
    BY <1>4, <1>5, <2>2 DEF NothingLostSilently
  <2> QED BY <2>1, <2>2
<1> QED BY <1>6, <1>7

\* Every step keeps what is said of files, temporary files, kills and faults.
LEMMA FilesStep ==
  ASSUME TypeOK, Control, Newer, Files, NothingLostSilently, OneTempPerCrash,
         [Next]_vars
  PROVE  Files' /\ NothingLostSilently' /\ OneTempPerCrash'
<1>1. /\ temps \in Nat /\ crashes \in Nat /\ powerCuts \in Nat
      /\ media \in [Path -> Version] /\ disk \in [Path -> Version]
      /\ tried \in [Path -> Version]
      /\ \A p \in Path : disk[p] \in Nat /\ media[p] \in Nat
  BY ConstantsAssumption DEF TypeOK, Version
<1> USE DEF Files, NothingLostSilently, OneTempPerCrash
<1>2. CASE UNCHANGED vars
  BY <1>2 DEF vars, workerVars, fsVars, faultVars
<1>3. CASE Caller
  <2>1. UNCHANGED <<workerVars, fsVars, faultVars>>
    BY <1>3 DEF Caller, Submit, FlushStart, FlushTimesOut, DropHandles
  <2> QED BY <2>1 DEF workerVars, fsVars, faultVars
<1>4. CASE Tick
  BY <1>4 DEF Tick, fsVars, faultVars
<1>5. CASE Receive \/ CollectDue \/ Acknowledge \/ EndBatch
  <2>1. UNCHANGED <<fsVars, faultVars>> /\ pc # "persist" /\ pc' # "persist"
    BY <1>5 DEF Receive, ReceiveOp, ReceiveFlush, ReceiveTimesOut, Disconnected,
                CollectDue, Acknowledge, EndBatch
  <2> QED BY <2>1 DEF fsVars, faultVars
<1>6. CASE WriteTemp
  <2>1. /\ pc = "work" /\ pc' = "persist" /\ temps' = temps + 1
        /\ UNCHANGED <<faultVars, disk, media, tried>>
    BY <1>6 DEF WriteTemp, Performing
  <2> QED BY <1>1, <2>1 DEF faultVars
<1>7. ASSUME Perform, ~WriteTemp
      PROVE  Files' /\ NothingLostSilently' /\ OneTempPerCrash'
  <2>1. PICK ok \in BOOLEAN : Finish(ok)
    BY <1>7, PerformCases
  <2>2. /\ \A p \in Path : media'[p] <= disk'[p] /\ disk'[p] <= tried'[p]
        /\ NothingLostSilently'
    BY <1>7, <2>1, FinishDisk
  <2>3. /\ pc' = "work" /\ crashes' = crashes
    BY <2>1 DEF Finish
  <2>4. \/ pc = "work" /\ temps' = temps
        \/ pc = "persist" /\ temps' = temps - 1
    BY <1>7 DEF Perform, WriteTempFails, Persist, PersistFails, Remove,
                RemoveFails, Performing
  <2>5. OneTempPerCrash'
    BY <1>1, <2>3, <2>4
  <2> QED BY <2>2, <2>3, <2>5
<1>8. ASSUME NEW p \in Path, WriteBack(p)
      PROVE  Files' /\ NothingLostSilently' /\ OneTempPerCrash'
  <2>1. /\ media' = [media EXCEPT ![p] = disk[p]]
        /\ UNCHANGED <<pc, faultVars, disk, temps, tried>>
    BY <1>8 DEF WriteBack, workerVars
  <2>2. \A q \in Path : media'[q] <= disk'[q] /\ disk'[q] <= tried'[q]
    BY <1>1, <2>1
  <2> QED BY <2>1, <2>2 DEF faultVars
<1>9. CASE Reopen \/ Crash
  <2>1. /\ pc' = "recv" /\ crashes' >= crashes /\ crashes' \in Nat
        /\ UNCHANGED <<disk, media, tried, temps, faults, powerCuts>>
        /\ pc = "persist" => crashes' = crashes + 1
    BY <1>1, <1>9 DEF Reopen, Crash, Boot
  <2>2. Files' /\ NothingLostSilently'
    BY <2>1
  <2>3. OneTempPerCrash'
    BY <1>1, <2>1
  <2> QED BY <2>2, <2>3
<1>10. CASE PowerCut
  <2>1. /\ pc' = "recv" /\ crashes' = crashes + 1 /\ powerCuts' = powerCuts + 1
        /\ disk' = media /\ UNCHANGED <<media, tried, temps, faults>>
    BY <1>10 DEF PowerCut, Boot
  <2>2. \A p \in Path : media[p] <= tried[p]
    BY <1>1, ConstantsAssumption DEF Version
  <2> QED BY <1>1, <2>1, <2>2
<1> QED
  BY <1>2, <1>3, <1>4, <1>5, <1>6, <1>7, <1>8, <1>9, <1>10
  DEF Next, Worker, Environment

-----------------------------------------------------------------------------
(* The order of the queue *)

\* Steps that concern neither the queue nor the channel.
LEMMA QuietSteps ==
  ASSUME Next
  PROVE  \/ \E p \in Path, kind \in {"write", "delete"} : Submit(p, kind)
         \/ \E a \in Call : FlushStart(a)
         \/ Tick \/ ReceiveOp \/ ReceiveFlush
         \/ Perform /\ \E ok \in BOOLEAN : Finish(ok)
         \/ Boot
         \/ UNCHANGED <<pending, chan, tried, ops, latest, mark>>
<1>1. CASE Worker
  <2>1. CASE Receive
    BY <2>1 DEF Receive, ReceiveTimesOut, Disconnected, clientVars, fsVars
  <2>2. CASE CollectDue \/ Acknowledge \/ EndBatch
    BY <2>2 DEF CollectDue, Acknowledge, EndBatch, clientVars, fsVars
  <2>3. CASE Perform
    <3>1. CASE WriteTemp
      BY <3>1 DEF WriteTemp, clientVars
    <3> QED BY <2>3, <3>1, PerformCases
  <2> QED BY <1>1, <2>1, <2>2, <2>3 DEF Worker
<1>2. CASE Caller
  BY <1>2 DEF Caller, FlushTimesOut, DropHandles, workerVars, fsVars
<1>3. CASE Environment
  BY <1>3 DEF Environment, WriteBack, Reopen, Crash, PowerCut, workerVars, clientVars
<1> QED BY <1>1, <1>2, <1>3 DEF Next

\* The received operation is of type OpMsg and newer than the whole queue.
LEMMA ReceivedOp ==
  ASSUME TypeOK, Newer, ReceiveOp
  PROVE  /\ chan \in Seq(Msg) /\ Len(chan) \in Nat \ {0}
         /\ Head(chan) \in OpMsg /\ Head(chan) = chan[1] /\ IsOp(1)
         /\ Head(chan).path \in Path /\ Head(chan).n \in Version /\ Head(chan).n \in Nat
         /\ \A i \in DOMAIN pending : pending[i].n < Head(chan).n
         /\ pending' = Enqueue(pending, Head(chan))
         /\ pending \in Seq(Job) /\ DOMAIN pending = 1..Len(pending) /\ Len(pending) \in Nat
         /\ \A i \in DOMAIN pending : pending[i] \in Job
<1>1. chan # <<>> /\ Head(chan).type = "op" /\ pending' = Enqueue(pending, Head(chan))
  BY DEF ReceiveOp
<1>2. /\ chan \in Seq(Msg) /\ Len(chan) \in Nat \ {0}
      /\ Head(chan) \in Msg /\ Head(chan) = chan[1]
  BY <1>1, Heads DEF TypeOK, Msg
<1>3. Head(chan) \in OpMsg /\ IsOp(1)
  BY <1>1, <1>2 DEF Msg, FlushMsg, IsOp
<1>4. Head(chan).path \in Path /\ Head(chan).n \in Version /\ Head(chan).n \in Nat
  BY <1>3, ConstantsAssumption DEF OpMsg, Version
<1>5. \A i \in DOMAIN pending : pending[i].n < Head(chan).n
  BY <1>2, <1>3 DEF Newer, NewerChannel
<1>6. /\ pending \in Seq(Job) /\ DOMAIN pending = 1..Len(pending)
      /\ Len(pending) \in Nat /\ \A i \in DOMAIN pending : pending[i] \in Job
  BY LenProperties DEF TypeOK
<1> QED BY <1>1, <1>2, <1>3, <1>4, <1>5, <1>6

\* Every step keeps the queue in the order of first arrival, and so of deadline.
LEMMA QueueOrderStep ==
  ASSUME TypeOK, Control, Newer, QueueOrder, [Next]_vars
  PROVE  QueueOrder'
<1>0. /\ pending \in Seq(Job) /\ DOMAIN pending = 1..Len(pending)
      /\ Len(pending) \in Nat
  BY LenProperties DEF TypeOK
<1>1. CASE UNCHANGED pending
  BY <1>1 DEF QueueOrder
<1>2. CASE Tick
  BY <1>2, TickQueue, <1>0 DEF QueueOrder, Decrease
<1>3. CASE ReceiveOp
  <2> DEFINE m == Head(chan)
  <2>1. m \in OpMsg /\ pending' = Enqueue(pending, m) /\ m.n \in Nat
    BY <1>3, ReceivedOp
  <2>2. \A i \in DOMAIN pending : pending[i].n < m.n /\ pending[i] \in Job
    BY <1>3, ReceivedOp
  <2> HIDE DEF m
  <2>3. CASE \E i \in DOMAIN pending : pending[i].path = m.path
    BY <1>0, <2>1, <2>3, EnqueueKnown DEF QueueOrder
  <2>4. CASE \A i \in DOMAIN pending : pending[i].path # m.path
    <3>1. /\ Len(pending') = Len(pending) + 1
          /\ \A i \in DOMAIN pending : pending'[i] = pending[i]
          /\ pending'[Len(pending) + 1].path = m.path
          /\ pending'[Len(pending) + 1].first = m.n
          /\ pending'[Len(pending) + 1].left = Delay
      <4>1. /\ Len(pending') = Len(pending) + 1
            /\ \A i \in DOMAIN pending : pending'[i] = pending[i]
            /\ pending'[Len(pending) + 1] =
                 [path |-> m.path, kind |-> m.kind, n |-> m.n,
                  first |-> m.n, left |-> Delay]
        BY <1>0, <2>1, <2>4, EnqueueNew, Zenon
      <4> QED BY <4>1
    <3>2. DOMAIN pending' = 1..(Len(pending) + 1)
      BY <1>0, <2>1, <2>4, <3>1, EnqueueNew
    <3>3. \A i \in DOMAIN pending : /\ pending[i].path # m.path
                                    /\ pending[i].first < m.n
                                    /\ pending[i].left <= Delay
      <4> TAKE i \in DOMAIN pending
      <4>1. pending[i].first <= pending[i].n /\ pending[i].left <= Delay
        BY DEF Newer, NewerQueue
      <4>2. pending[i].n \in Nat /\ pending[i].first \in Nat
        BY <2>2, ConstantsAssumption DEF Job, Version
      <4> QED BY <2>1, <2>2, <2>4, <4>1, <4>2
    <3>4. SUFFICES ASSUME NEW i \in 1..(Len(pending) + 1),
                          NEW j \in 1..(Len(pending) + 1), i < j
                   PROVE  /\ pending'[i].path # pending'[j].path
                          /\ pending'[i].first < pending'[j].first
                          /\ pending'[i].left <= pending'[j].left
      BY <3>2 DEF QueueOrder
    <3>5. i \in DOMAIN pending
      BY <1>0, <3>4
    <3>6. CASE j \in DOMAIN pending
      BY <3>1, <3>4, <3>5, <3>6 DEF QueueOrder
    <3>7. CASE j = Len(pending) + 1
      BY <3>1, <3>3, <3>5, <3>7
    <3> QED BY <1>0, <3>6, <3>7
  <2> QED BY <2>3, <2>4
<1>4. ASSUME Perform, NEW ok \in BOOLEAN, Finish(ok)
      PROVE  QueueOrder'
  <2>1. /\ Len(pending') = Len(pending) - 1
        /\ \A i \in 1..Len(pending') : pending'[i] = pending[i + 1]
    BY <1>4, FinishQueue
  <2>2. DOMAIN pending' = 1..Len(pending')
    BY <1>4, TypePerform, Heads, PerformQueue DEF Finish, TypeOK
  <2> QED BY <1>0, <2>1, <2>2 DEF QueueOrder
<1>5. CASE Boot
  BY <1>5 DEF Boot, QueueOrder
<1> QED
  <2>1. CASE UNCHANGED vars
    BY <1>1, <2>1 DEF vars, workerVars
  <2>2. CASE Next
    BY <1>1, <1>2, <1>3, <1>4, <1>5, <2>2, QuietSteps
    DEF Submit, FlushStart, ReceiveFlush, workerVars
  <2> QED BY <2>1, <2>2

\* Every step keeps the timer's batch within the jobs that are due.
LEMMA WindowStep ==
  ASSUME TypeOK, Control, WindowHonoured, [Next]_vars
  PROVE  WindowHonoured'
<1>0. batch \in 0..Len(pending) /\ Len(pending) \in Nat /\ DOMAIN pending = 1..Len(pending)
  BY LenProperties DEF TypeOK
<1> USE DEF WindowHonoured
<1>1. CASE UNCHANGED <<goal, batch, pending>>
  BY <1>1
<1>2. CASE Tick
  <2>1. UNCHANGED <<goal, batch>>
    BY <1>2 DEF Tick
  <2>2. \A i \in 1..batch : pending[i].left = 0 => pending'[i].left = 0
    BY <1>0, <1>2, TickQueue DEF Decrease
  <2> QED BY <2>1, <2>2
<1>3. CASE ReceiveOp \/ Acknowledge \/ Boot
  <2>1. batch' = 0
    BY <1>3 DEF ReceiveOp, Acknowledge, Boot, Control
  <2> QED BY <2>1
<1>4. CASE ReceiveFlush
  <2>1. goal' # "loop"
    BY <1>4, Heads, ConstantsAssumption DEF ReceiveFlush, Msg, OpMsg, FlushMsg
  <2> QED BY <2>1
<1>5. CASE Disconnected
  BY <1>5 DEF Disconnected
<1>6. CASE CollectDue
  <2>1. IsDuePrefix(batch') /\ pending' = pending
    BY <1>6 DEF CollectDue
  <2> QED BY <2>1 DEF IsDuePrefix
<1>7. ASSUME Perform, NEW ok \in BOOLEAN, Finish(ok)
      PROVE  WindowHonoured'
  <2>1. /\ \A i \in 1..Len(pending') : pending'[i] = pending[i + 1]
        /\ Len(pending') = Len(pending) - 1
        /\ batch' = batch - 1 /\ batch \in Nat \ {0}
    BY <1>7, FinishQueue
  <2>2. goal' = goal
    BY <1>7 DEF Finish
  <2>3. \A i \in 1..batch' : i + 1 \in 1..batch /\ i \in 1..Len(pending')
    BY <1>0, <2>1
  <2> QED BY <2>1, <2>2, <2>3
<1>8. CASE UNCHANGED vars
  BY <1>1, <1>8 DEF vars, workerVars
<1>9. CASE Worker
  <2>1. CASE ReceiveTimesOut \/ EndBatch \/ WriteTemp
    BY <1>1, <2>1 DEF ReceiveTimesOut, EndBatch, WriteTemp
  <2> QED
    BY <1>3, <1>4, <1>5, <1>6, <1>7, <1>9, <2>1, PerformCases DEF Worker, Receive
<1>10. CASE Caller
  BY <1>1, <1>10 DEF Caller, Submit, FlushStart, FlushTimesOut, DropHandles, workerVars
<1>11. CASE Environment
  BY <1>1, <1>2, <1>3, <1>11
  DEF Environment, WriteBack, Reopen, Crash, PowerCut, workerVars
<1> QED BY <1>8, <1>9, <1>10, <1>11 DEF Next

-----------------------------------------------------------------------------
(* The numbers grow from the disk to the channel *)

\* Types of what is in the channel and in the queue.
LEMMA Elements ==
  ASSUME TypeOK
  PROVE  /\ chan \in Seq(Msg) /\ DOMAIN chan = 1..Len(chan) /\ Len(chan) \in Nat
         /\ \A j \in DOMAIN chan : IsOp(j) => /\ chan[j] \in OpMsg
                                              /\ chan[j].path \in Path
                                              /\ chan[j].n \in Nat
         /\ \A j \in DOMAIN chan : IsFlush(j) => chan[j] \in FlushMsg /\ chan[j].ack \in Call
         /\ \A j \in DOMAIN chan : ~(IsOp(j) /\ IsFlush(j))
         /\ pending \in Seq(Job) /\ DOMAIN pending = 1..Len(pending)
         /\ Len(pending) \in Nat
         /\ \A i \in DOMAIN pending : /\ pending[i].path \in Path
                                      /\ pending[i].n \in Nat
                                      /\ pending[i].first \in Nat
                                      /\ pending[i].left \in Nat
         /\ \A p \in Path : tried[p] \in Nat /\ latest[p] \in Nat
         /\ tried \in [Path -> Nat] /\ latest \in [Path -> Nat] /\ ops \in Nat
<1>1. /\ chan \in Seq(Msg) /\ DOMAIN chan = 1..Len(chan) /\ Len(chan) \in Nat
      /\ pending \in Seq(Job) /\ DOMAIN pending = 1..Len(pending)
      /\ Len(pending) \in Nat
  BY LenProperties DEF TypeOK, Msg
<1>2. ASSUME NEW j \in DOMAIN chan, IsOp(j)
      PROVE  chan[j] \in OpMsg /\ chan[j].path \in Path /\ chan[j].n \in Nat
  <2>1. chan[j] \in OpMsg
    BY <1>1, <1>2 DEF IsOp, Msg, FlushMsg
  <2> QED BY <2>1, ConstantsAssumption DEF OpMsg, Version
<1>3. ASSUME NEW j \in DOMAIN chan, IsFlush(j)
      PROVE  chan[j] \in FlushMsg /\ chan[j].ack \in Call
  <2>1. chan[j] \in FlushMsg
    BY <1>1, <1>3 DEF IsFlush, Msg, OpMsg
  <2> QED BY <2>1 DEF FlushMsg
<1>4. ASSUME NEW i \in DOMAIN pending
      PROVE  /\ pending[i].path \in Path /\ pending[i].n \in Nat
             /\ pending[i].first \in Nat /\ pending[i].left \in Nat
  <2>1. pending[i] \in Job
    BY <1>1
  <2> QED BY <2>1, ConstantsAssumption DEF Job, Version
<1>5. /\ tried \in [Path -> Nat] /\ latest \in [Path -> Nat] /\ ops \in Nat
      /\ \A p \in Path : tried[p] \in Nat /\ latest[p] \in Nat
  BY ConstantsAssumption DEF TypeOK, Version
<1>6. \A j \in DOMAIN chan : ~(IsOp(j) /\ IsFlush(j))
  BY DEF IsOp, IsFlush
<1> QED BY <1>1, <1>2, <1>3, <1>4, <1>5, <1>6

\* Sending puts one message behind the others.
LEMMA SendChan ==
  ASSUME TypeOK, NEW m \in Msg, chan' = Append(chan, m)
  PROVE  /\ DOMAIN chan' = 1..(Len(chan) + 1) /\ Len(chan') = Len(chan) + 1
         /\ \A j \in DOMAIN chan : chan'[j] = chan[j]
         /\ chan'[Len(chan) + 1] = m
<1>1. chan \in Seq(Msg) /\ DOMAIN chan = 1..Len(chan)
  BY Elements
<1> QED BY <1>1, AppendProperties, LenProperties

\* Receiving takes the first message.
LEMMA ReceiveChan ==
  ASSUME TypeOK, chan # <<>>, chan' = Tail(chan)
  PROVE  /\ DOMAIN chan' = 1..(Len(chan) - 1) /\ Len(chan') = Len(chan) - 1
         /\ Len(chan) \in Nat \ {0} /\ 1 \in DOMAIN chan
         /\ \A j \in DOMAIN chan' : j + 1 \in DOMAIN chan /\ chan'[j] = chan[j + 1]
<1>1. DOMAIN chan = 1..Len(chan)
  BY Elements
<1> QED BY <1>1, Heads, LenProperties

\* A new operation is newer than all those handed over before it.
LEMMA NewerSubmit ==
  ASSUME TypeOK, Newer, NEW p \in Path, NEW kind \in {"write", "delete"}, Submit(p, kind)
  PROVE  Newer'
<1> DEFINE m == [type |-> "op", path |-> p, kind |-> kind, n |-> ops + 1]
<1>1. /\ chan' = Append(chan, m) /\ ops' = ops + 1
      /\ latest' = [latest EXCEPT ![p] = ops + 1]
      /\ UNCHANGED <<pending, tried>>
  BY DEF Submit, workerVars, fsVars
<1>2. m \in Msg /\ m.type = "op" /\ m.path = p /\ m.n = ops + 1
  BY ConstantsAssumption DEF Msg, OpMsg, Submit, TypeOK, Version
<1> HIDE DEF m
<1>3. /\ DOMAIN chan' = 1..(Len(chan) + 1) /\ chan'[Len(chan) + 1] = m
      /\ \A j \in DOMAIN chan : chan'[j] = chan[j]
  BY <1>1, <1>2, SendChan
<1>4. /\ latest' \in [Path -> Nat] /\ ops' \in Nat
      /\ \A q \in Path : latest[q] <= latest'[q] /\ latest'[q] <= ops' /\ tried[q] <= latest[q]
      /\ \A q \in Path : latest[q] <= ops /\ tried[q] <= ops
  BY <1>1, Elements DEF Newer, NewerPaths
<1>5. NewerPaths'
  BY <1>1, <1>4, Elements DEF NewerPaths
<1>6. NewerQueue'
  BY <1>1, <1>4, Elements DEF Newer, NewerQueue
<1>7. \A j \in DOMAIN chan' : IsOp(j)' <=> (j = Len(chan) + 1 \/ IsOp(j))
  BY <1>2, <1>3, Elements DEF IsOp
<1>8. ASSUME NEW j \in DOMAIN chan', IsOp(j)'
      PROVE  /\ chan'[j].n <= latest'[chan'[j].path]
             /\ \A q \in Path : tried'[q] < chan'[j].n
             /\ \A i \in DOMAIN pending' : pending'[i].n < chan'[j].n
             /\ \A i \in DOMAIN chan' : i < j /\ IsOp(i)' => chan'[i].n < chan'[j].n
  <2>1. CASE j = Len(chan) + 1
    <3>1. chan'[j].n = ops + 1 /\ chan'[j].path = p /\ latest'[p] = ops + 1
      BY <1>1, <1>2, <1>3, <2>1, Elements
    <3>2. \A i \in DOMAIN pending : pending[i].n <= ops
      BY <1>4, Elements DEF Newer, NewerQueue
    <3>3. \A i \in DOMAIN chan : IsOp(i) => chan[i].n <= ops
      <4> TAKE i \in DOMAIN chan
      <4> HAVE IsOp(i)
      <4>1. chan[i].n <= latest[chan[i].path]
        BY DEF Newer, NewerChannel
      <4>2. chan[i].path \in Path /\ chan[i].n \in Nat /\ ops \in Nat
        BY Elements
      <4>3. latest[chan[i].path] <= ops /\ latest[chan[i].path] \in Nat
        BY <1>4, <4>2, Elements
      <4> QED BY <4>1, <4>2, <4>3
    <3>4. \A i \in DOMAIN chan' : i < j /\ IsOp(i)' => i \in DOMAIN chan /\ IsOp(i)
      BY <1>3, <1>7, <2>1, Elements
    <3>5. \A i \in DOMAIN chan' : i < j /\ IsOp(i)' => chan'[i].n < ops + 1
      BY <1>3, <3>3, <3>4, Elements
    <3> QED BY <1>1, <1>4, <3>1, <3>2, <3>5, Elements
  <2>2. CASE j # Len(chan) + 1
    <3>1. j \in DOMAIN chan /\ IsOp(j) /\ chan'[j] = chan[j]
      BY <1>3, <1>7, <1>8, <2>2, Elements
    <3>2. \A i \in DOMAIN chan' : i < j /\ IsOp(i)' =>
             i \in DOMAIN chan /\ IsOp(i) /\ chan'[i] = chan[i]
      BY <1>3, <1>7, <3>1, Elements
    <3>3. chan[j].n <= latest'[chan[j].path]
      BY <1>4, <3>1, Elements DEF Newer, NewerChannel
    <3> QED BY <1>1, <3>1, <3>2, <3>3 DEF Newer, NewerChannel
  <2> QED BY <2>1, <2>2
<1> QED BY <1>5, <1>6, <1>8 DEF Newer, NewerChannel

\* What moves from the channel into the queue is newer than what it replaces.
LEMMA NewerReceive ==
  ASSUME TypeOK, Newer, QueueOrder, ReceiveOp
  PROVE  Newer'
<1> DEFINE m == chan[1]
<1>1. /\ m \in OpMsg /\ pending' = Enqueue(pending, m) /\ IsOp(1) /\ m.n \in Nat
      /\ m.path \in Path /\ \A i \in DOMAIN pending : pending[i].n < m.n
  BY ReceivedOp
<1>2. /\ UNCHANGED <<tried, latest, ops>> /\ chan # <<>> /\ chan' = Tail(chan)
  BY DEF ReceiveOp, fsVars, clientVars
<1>3. /\ 1 \in DOMAIN chan /\ Len(chan) \in Nat
      /\ \A j \in DOMAIN chan' : j + 1 \in DOMAIN chan /\ chan'[j] = chan[j + 1]
      /\ DOMAIN chan' = 1..(Len(chan) - 1)
  BY <1>2, ReceiveChan
<1>4. /\ tried[m.path] < m.n /\ m.n <= latest[m.path]
  BY <1>1, <1>3 DEF Newer, NewerChannel
<1>5. \A j \in DOMAIN chan' : IsOp(j)' <=> IsOp(j + 1)
  BY <1>3 DEF IsOp
<1>6. \A j \in DOMAIN chan' : IsOp(j)' => m.n < chan'[j].n
  BY <1>1, <1>3, <1>5, Elements DEF Newer, NewerChannel
<1> HIDE DEF m
<1>7. \A i \in DOMAIN pending' :
        \/ /\ i \in DOMAIN pending
           /\ pending'[i].path = pending[i].path /\ pending'[i].first = pending[i].first
           /\ pending'[i].left = pending[i].left
           /\ pending'[i].n = IF pending[i].path = m.path THEN m.n ELSE pending[i].n
        \/ /\ pending'[i].path = m.path /\ pending'[i].n = m.n
           /\ pending'[i].first = m.n /\ pending'[i].left = Delay
  <2>1. CASE \E i \in DOMAIN pending : pending[i].path = m.path
    <3>1. /\ DOMAIN pending' = DOMAIN pending
          /\ \A i \in DOMAIN pending :
               /\ pending'[i].path = pending[i].path
               /\ pending'[i].first = pending[i].first
               /\ pending'[i].left = pending[i].left
               /\ pending'[i].n = IF pending[i].path = m.path THEN m.n ELSE pending[i].n
      <4>1. pending \in Seq(Job)
        BY Elements
      <4> QED BY <1>1, <2>1, <4>1, EnqueueKnown
    <3> QED BY <3>1, Zenon
  <2>2. CASE \A i \in DOMAIN pending : pending[i].path # m.path
    <3>1. /\ pending' \in Seq(Job) /\ Len(pending') = Len(pending) + 1
          /\ \A i \in DOMAIN pending : pending'[i] = pending[i]
          /\ pending'[Len(pending) + 1] =
               [path |-> m.path, kind |-> m.kind, n |-> m.n,
                first |-> m.n, left |-> Delay]
      BY <1>1, <2>2, EnqueueNew, Elements, Zenon
    <3>2. DOMAIN pending' = 1..(Len(pending) + 1)
      BY <3>1, LenProperties
    <3>3. \A i \in DOMAIN pending' : i \in DOMAIN pending \/ i = Len(pending) + 1
      <4>1. DOMAIN pending = 1..Len(pending) /\ Len(pending) \in Nat
        BY Elements
      <4> QED BY <3>2, <4>1
    <3>4. /\ pending'[Len(pending) + 1].path = m.path
          /\ pending'[Len(pending) + 1].n = m.n
          /\ pending'[Len(pending) + 1].first = m.n
          /\ pending'[Len(pending) + 1].left = Delay
      BY <3>1
    <3>5. \A i \in DOMAIN pending : pending[i].path # m.path /\ pending'[i] = pending[i]
      BY <2>2, <3>1
    <3> QED BY <3>3, <3>4, <3>5
  <2> QED BY <2>1, <2>2
<1>8. NewerPaths'
  BY <1>2 DEF Newer, NewerPaths
<1>9. NewerQueue'
  <2> SUFFICES ASSUME NEW i \in DOMAIN pending'
               PROVE  /\ tried[pending'[i].path] < pending'[i].n
                      /\ pending'[i].first <= pending'[i].n
                      /\ pending'[i].n <= latest[pending'[i].path]
                      /\ pending'[i].left <= Delay
    BY <1>2 DEF NewerQueue
  <2>1. CASE pending'[i].n = m.n /\ pending'[i].first = m.n
             /\ pending'[i].path = m.path /\ pending'[i].left = Delay
    BY <1>1, <1>4, <2>1, ConstantsAssumption
  <2>2. CASE /\ i \in DOMAIN pending
             /\ pending'[i].path = pending[i].path /\ pending'[i].first = pending[i].first
             /\ pending'[i].left = pending[i].left
             /\ pending'[i].n = IF pending[i].path = m.path THEN m.n ELSE pending[i].n
    <3>1. /\ tried[pending[i].path] < pending[i].n /\ pending[i].first <= pending[i].n
          /\ pending[i].n <= latest[pending[i].path] /\ pending[i].left <= Delay
          /\ pending[i].n < m.n /\ pending[i].n \in Nat /\ pending[i].first \in Nat
      BY <1>1, <2>2, Elements DEF Newer, NewerQueue
    <3>2. CASE pending[i].path = m.path
      BY <1>1, <1>4, <2>2, <3>1, <3>2
    <3>3. CASE pending[i].path # m.path
      BY <2>2, <3>1, <3>3
    <3> QED BY <3>2, <3>3
  <2> QED BY <1>7, <2>1, <2>2
<1>10. NewerChannel'
  <2> SUFFICES ASSUME NEW j \in DOMAIN chan', IsOp(j)'
               PROVE  /\ chan'[j].n <= latest[chan'[j].path]
                      /\ \A p \in Path : tried[p] < chan'[j].n
                      /\ \A i \in DOMAIN pending' : pending'[i].n < chan'[j].n
                      /\ \A i \in DOMAIN chan' : i < j /\ IsOp(i)' => chan'[i].n < chan'[j].n
    BY <1>2 DEF NewerChannel
  <2>1. j + 1 \in DOMAIN chan /\ IsOp(j + 1) /\ chan'[j] = chan[j + 1] /\ m.n < chan'[j].n
    BY <1>3, <1>5, <1>6
  <2>2. /\ chan[j + 1].n <= latest[chan[j + 1].path]
        /\ \A p \in Path : tried[p] < chan[j + 1].n
        /\ \A i \in DOMAIN pending : pending[i].n < chan[j + 1].n
        /\ \A i \in DOMAIN chan : i < j + 1 /\ IsOp(i) => chan[i].n < chan[j + 1].n
    BY <2>1 DEF Newer, NewerChannel
  <2>3. \A i \in DOMAIN pending' : pending'[i].n < chan'[j].n
    BY <1>7, <2>1, <2>2
  <2>4. \A i \in DOMAIN chan' : i < j /\ IsOp(i)' => chan'[i].n < chan'[j].n
    <3> TAKE i \in DOMAIN chan'
    <3> HAVE i < j /\ IsOp(i)'
    <3>1. i + 1 \in DOMAIN chan /\ IsOp(i + 1) /\ chan'[i] = chan[i + 1] /\ i + 1 < j + 1
      BY <1>3, <1>5
    <3> QED BY <2>1, <2>2, <3>1
  <2> QED BY <2>1, <2>2, <2>3, <2>4
<1> QED BY <1>8, <1>9, <1>10 DEF Newer

\* What was just attempted is older than what is still queued on its path.
LEMMA NewerFinish ==
  ASSUME TypeOK, Control, Newer, QueueOrder, Perform, NEW ok \in BOOLEAN, Finish(ok)
  PROVE  Newer'
<1> DEFINE job == pending[1]
<1>1. /\ Len(pending') = Len(pending) - 1 /\ Len(pending) \in Nat \ {0}
      /\ \A i \in 1..Len(pending') : pending'[i] = pending[i + 1]
      /\ Head(pending) = job
  BY FinishQueue
<1>2. /\ tried' = [tried EXCEPT ![job.path] = job.n]
      /\ UNCHANGED <<chan, latest, ops>> /\ pending' = Tail(pending)
  BY <1>1 DEF Finish, clientVars
<1>3. DOMAIN pending' = 1..Len(pending')
  BY <1>1, <1>2, Heads, LenProperties
<1>4. /\ 1 \in DOMAIN pending /\ job.path \in Path /\ job.n \in Nat
      /\ tried[job.path] < job.n /\ job.n <= latest[job.path]
  <2>1. 1 \in DOMAIN pending
    BY <1>1, Elements
  <2> QED BY <2>1, Elements DEF Newer, NewerQueue
<1>5. \A i \in DOMAIN pending' : /\ i + 1 \in DOMAIN pending
                                 /\ pending'[i] = pending[i + 1]
                                 /\ pending[i + 1].path # job.path
  <2> TAKE i \in DOMAIN pending'
  <2>1. i + 1 \in DOMAIN pending /\ pending'[i] = pending[i + 1] /\ 1 < i + 1
    BY <1>1, <1>3, Elements
  <2> QED BY <1>4, <2>1 DEF QueueOrder
<1> HIDE DEF job
<1>6. /\ \A p \in Path : p # job.path => tried'[p] = tried[p]
      /\ tried'[job.path] = job.n
  BY <1>2, <1>4, Elements
<1>7. NewerPaths'
  BY <1>2, <1>4, <1>6 DEF Newer, NewerPaths
<1>8. NewerQueue'
  BY <1>2, <1>5, <1>6, Elements DEF Newer, NewerQueue
<1>9. NewerChannel'
  <2> SUFFICES ASSUME NEW j \in DOMAIN chan, IsOp(j)
               PROVE  /\ chan[j].n <= latest[chan[j].path]
                      /\ \A p \in Path : tried'[p] < chan[j].n
                      /\ \A i \in DOMAIN pending' : pending'[i].n < chan[j].n
                      /\ \A i \in DOMAIN chan : i < j /\ IsOp(i) => chan[i].n < chan[j].n
    BY <1>2 DEF NewerChannel, IsOp
  <2>1. /\ chan[j].n <= latest[chan[j].path]
        /\ \A p \in Path : tried[p] < chan[j].n
        /\ \A i \in DOMAIN pending : pending[i].n < chan[j].n
        /\ \A i \in DOMAIN chan : i < j /\ IsOp(i) => chan[i].n < chan[j].n
    BY DEF Newer, NewerChannel
  <2>2. job.n < chan[j].n
    BY <1>4, <2>1 DEF job
  <2> QED BY <1>5, <1>6, <2>1, <2>2
<1> QED BY <1>7, <1>8, <1>9 DEF Newer

\* Every step keeps the numbers growing from the disk to the channel.
LEMMA NewerStep ==
  ASSUME TypeOK, Control, Newer, QueueOrder, [Next]_vars
  PROVE  Newer'
<1>1. CASE UNCHANGED <<pending, chan, tried, latest, ops>>
  BY <1>1 DEF Newer, NewerPaths, NewerQueue, NewerChannel, IsOp
<1>2. ASSUME NEW a \in Call, FlushStart(a)
      PROVE  Newer'
  <2> DEFINE m == [type |-> "flush", ack |-> a]
  <2>1. m \in Msg /\ m.type # "op"
    BY DEF Msg, FlushMsg
  <2>2. chan' = Append(chan, m) /\ UNCHANGED <<pending, tried, latest, ops>>
    BY <1>2 DEF FlushStart, workerVars, fsVars
  <2> HIDE DEF m
  <2>3. /\ DOMAIN chan' = 1..(Len(chan) + 1) /\ chan'[Len(chan) + 1] = m
        /\ \A j \in DOMAIN chan : chan'[j] = chan[j]
    BY <2>1, <2>2, SendChan
  <2>4. \A j \in DOMAIN chan' : IsOp(j)' =>
          j \in DOMAIN chan /\ IsOp(j) /\ chan'[j] = chan[j]
    BY <2>1, <2>3, Elements DEF IsOp
  <2> QED BY <2>2, <2>4 DEF Newer, NewerPaths, NewerQueue, NewerChannel
<1>3. CASE Tick
  <2>1. UNCHANGED <<chan, tried, latest, ops>>
    BY <1>3 DEF Tick, fsVars
  <2>2. NewerQueue'
    BY <1>3, <2>1, TickQueue, ConstantsAssumption DEF Newer, NewerQueue, Decrease
  <2> QED BY <1>3, <2>1, <2>2, TickQueue DEF Newer, NewerPaths, NewerChannel, IsOp
<1>4. CASE ReceiveFlush
  <2>1. /\ chan # <<>> /\ chan' = Tail(chan)
        /\ UNCHANGED <<pending, tried, latest, ops>>
    BY <1>4 DEF ReceiveFlush, clientVars, fsVars
  <2>2. \A j \in DOMAIN chan' : /\ j \in Nat /\ j + 1 \in DOMAIN chan
                                /\ chan'[j] = chan[j + 1]
                                /\ IsOp(j)' <=> IsOp(j + 1)
    BY <2>1, ReceiveChan DEF IsOp
  <2>3. ASSUME NEW j \in DOMAIN chan', NEW i \in DOMAIN chan', i < j, IsOp(i)', IsOp(j)'
        PROVE  chan'[i].n < chan'[j].n
    <3>1. i + 1 < j + 1
      BY <2>2, <2>3
    <3> QED BY <2>2, <2>3, <3>1 DEF Newer, NewerChannel
  <2>4. NewerChannel'
    BY <2>1, <2>2, <2>3 DEF Newer, NewerChannel
  <2> QED BY <2>1, <2>4 DEF Newer, NewerPaths, NewerQueue
<1>5. CASE Boot
  <2>1. /\ pending' = <<>> /\ chan' = <<>> /\ latest' = tried
        /\ UNCHANGED <<ops, tried>>
    BY <1>5 DEF Boot
  <2>2. \A p \in Path : tried[p] <= ops
    BY Elements DEF Newer, NewerPaths
  <2> QED BY <2>1, <2>2, Elements DEF Newer, NewerPaths, NewerQueue, NewerChannel
<1> QED
  <2>1. CASE UNCHANGED vars
    BY <1>1, <2>1 DEF vars, workerVars, clientVars, fsVars
  <2>2. CASE Next
    BY <1>1, <1>2, <1>3, <1>4, <1>5, <2>2, QuietSteps, NewerSubmit, NewerReceive,
       NewerFinish
  <2> QED BY <2>1, <2>2

-----------------------------------------------------------------------------
(* Nothing is dropped between a caller and the disk *)

\* What enqueue does to the entries that were there and to the new operation.
LEMMA EnqueueKeeps ==
  ASSUME TypeOK, Newer, ReceiveOp
  PROVE  /\ \A i \in DOMAIN pending : /\ i \in DOMAIN pending'
                                      /\ pending'[i].path = pending[i].path
                                      /\ pending[i].n <= pending'[i].n
                                      /\ pending'[i].n \in Nat
         /\ \E i \in DOMAIN pending' : /\ pending'[i].path = chan[1].path
                                       /\ pending'[i].n = chan[1].n
<1> DEFINE m == chan[1]
<1>1. /\ m \in OpMsg /\ pending' = Enqueue(pending, m) /\ m.n \in Nat
      /\ pending \in Seq(Job) /\ DOMAIN pending = 1..Len(pending) /\ Len(pending) \in Nat
      /\ \A i \in DOMAIN pending : pending[i].n < m.n
  BY ReceivedOp
<1>2. \A i \in DOMAIN pending : pending[i].n \in Nat
  BY Elements
<1> HIDE DEF m
<1>3. CASE \E i \in DOMAIN pending : pending[i].path = m.path
  <2>1. /\ DOMAIN pending' = DOMAIN pending
        /\ \A i \in DOMAIN pending :
             /\ pending'[i].path = pending[i].path
             /\ pending'[i].n = IF pending[i].path = m.path THEN m.n ELSE pending[i].n
    BY <1>1, <1>3, EnqueueKnown
  <2> QED BY <1>1, <1>2, <1>3, <2>1 DEF m
<1>4. CASE \A i \in DOMAIN pending : pending[i].path # m.path
  <2>1. /\ pending' \in Seq(Job) /\ Len(pending') = Len(pending) + 1
        /\ \A i \in DOMAIN pending : pending'[i] = pending[i]
        /\ pending'[Len(pending) + 1] =
             [path |-> m.path, kind |-> m.kind, n |-> m.n,
              first |-> m.n, left |-> Delay]
    BY <1>1, <1>4, EnqueueNew, Zenon
  <2>2. /\ pending'[Len(pending) + 1].path = m.path
        /\ pending'[Len(pending) + 1].n = m.n
    BY <2>1
  <2>3. /\ Len(pending) + 1 \in DOMAIN pending'
        /\ \A i \in DOMAIN pending : i \in DOMAIN pending'
    BY <1>1, <2>1, LenProperties
  <2> QED BY <1>1, <1>2, <2>1, <2>2, <2>3 DEF m
<1> QED BY <1>3, <1>4

\* An attempt turns what was queued into what was tried.
LEMMA FinishKeeps ==
  ASSUME TypeOK, Control, Newer, Perform, NEW ok \in BOOLEAN, Finish(ok),
         NEW p \in Path, NEW m \in Nat, Received(p, m)
  PROVE  Received(p, m)'
<1> DEFINE job == pending[1]
<1>1. /\ Len(pending') = Len(pending) - 1 /\ Len(pending) \in Nat \ {0}
      /\ \A i \in 1..Len(pending') : pending'[i] = pending[i + 1]
      /\ Head(pending) = job
  BY FinishQueue
<1>2. /\ tried' = [tried EXCEPT ![job.path] = job.n] /\ pending' = Tail(pending)
  BY <1>1 DEF Finish
<1>3. DOMAIN pending' = 1..Len(pending')
  BY <1>1, <1>2, Heads, LenProperties
<1>4. 1 \in DOMAIN pending
  BY <1>1, Elements
<1>5. /\ job.path \in Path /\ job.n \in Nat /\ tried[job.path] < job.n
  BY <1>4, Elements DEF Newer, NewerQueue
<1> HIDE DEF job
<1>6. /\ tried'[job.path] = job.n
      /\ tried[p] <= tried'[p] /\ tried[p] \in Nat /\ tried'[p] \in Nat
  BY <1>2, <1>5, Elements
<1>7. CASE m <= tried[p]
  BY <1>6, <1>7 DEF Received
<1>8. ASSUME NEW i \in DOMAIN pending, pending[i].path = p, m <= pending[i].n
      PROVE  Received(p, m)'
  <2>1. CASE i = 1
    BY <1>6, <1>8, <2>1 DEF Received, job
  <2>2. CASE i # 1
    <3>1. i - 1 \in DOMAIN pending' /\ pending'[i - 1] = pending[i]
      BY <1>1, <1>3, <2>2, Elements
    <3> QED BY <1>8, <3>1 DEF Received
  <2> QED BY <2>1, <2>2
<1> QED BY <1>7, <1>8 DEF Received

\* As long as the process lives, what has been received stays received.
LEMMA ReceivedKeeps ==
  ASSUME TypeOK, Control, Newer, [Next]_vars, ~Boot,
         NEW p \in Path, NEW m \in Nat, Received(p, m)
  PROVE  Received(p, m)'
<1>1. CASE UNCHANGED <<pending, tried>>
  BY <1>1 DEF Received
<1>2. CASE Tick
  BY <1>2, TickQueue DEF Received, Tick, fsVars
<1>3. CASE ReceiveOp
  <2>1. tried' = tried
    BY <1>3 DEF ReceiveOp, fsVars
  <2>2. CASE m <= tried[p]
    BY <2>1, <2>2 DEF Received
  <2>3. ASSUME NEW i \in DOMAIN pending, pending[i].path = p, m <= pending[i].n
        PROVE  Received(p, m)'
    <3>1. /\ i \in DOMAIN pending' /\ pending'[i].path = p
          /\ pending[i].n <= pending'[i].n /\ pending'[i].n \in Nat /\ pending[i].n \in Nat
      BY <1>3, <2>3, EnqueueKeeps, Elements
    <3> QED BY <2>3, <3>1 DEF Received
  <2> QED BY <2>2, <2>3 DEF Received
<1>4. CASE UNCHANGED vars
  BY <1>1, <1>4 DEF vars, workerVars, fsVars
<1>5. CASE Next
  BY <1>1, <1>2, <1>3, <1>5, QuietSteps, FinishKeeps
  DEF Submit, FlushStart, ReceiveFlush, workerVars, fsVars
<1> QED BY <1>4, <1>5

\* A message sent at the end of the channel changes nothing for those before.
LEMMA CoveredSend ==
  ASSUME TypeOK, NEW msg \in Msg, chan' = Append(chan, msg), UNCHANGED <<pending, tried>>,
         NEW p \in Path, NEW m \in Nat, NEW k \in 0..Len(chan), NEW l \in k..(Len(chan) + 1),
         Covered(p, m, k)
  PROVE  Covered(p, m, l)'
<1>1. \A j \in 1..k : j \in 1..l /\ chan'[j] = chan[j]
  BY SendChan, Elements
<1> QED BY <1>1 DEF Covered, Received, IsOp

\* The first message of the channel moves on to the queue.
LEMMA CoveredReceive ==
  ASSUME TypeOK, Control, Newer, ReceiveOp \/ ReceiveFlush,
         NEW p \in Path, NEW m \in Nat, NEW k \in 1..Len(chan), Covered(p, m, k)
  PROVE  Covered(p, m, k - 1)'
<1>1. /\ chan # <<>> /\ chan' = Tail(chan) /\ tried' = tried
  BY DEF ReceiveOp, ReceiveFlush, fsVars
<1>2. \A j \in 2..k : j - 1 \in 1..(k - 1) /\ chan'[j - 1] = chan[j]
  BY <1>1, ReceiveChan
<1>3. [Next]_vars
  BY DEF Next, Worker, Receive
<1>4. CASE Received(p, m)
  <2>1. ~Boot \/ pending' = pending
    BY DEF ReceiveOp, ReceiveFlush, Boot
  <2>2. CASE ~Boot
    BY <1>3, <1>4, <2>2, ReceivedKeeps DEF Covered
  <2>3. CASE pending' = pending
    BY <1>1, <1>4, <2>3 DEF Covered, Received
  <2> QED BY <2>1, <2>2, <2>3
<1>5. ASSUME NEW j \in 1..k, IsOp(j), chan[j].path = p, m <= chan[j].n
      PROVE  Covered(p, m, k - 1)'
  <2>1. CASE j = 1
    <3>1. ReceiveOp
      BY <1>5, <2>1, Heads DEF ReceiveFlush, IsOp
    <3>2. PICK i \in DOMAIN pending' : pending'[i].path = p /\ pending'[i].n = chan[1].n
      BY <1>5, <2>1, <3>1, EnqueueKeeps
    <3> QED BY <1>5, <2>1, <3>2 DEF Covered, Received
  <2>2. CASE j # 1
    <3>1. j - 1 \in 1..(k - 1) /\ chan'[j - 1] = chan[j]
      BY <1>2, <2>2
    <3> QED BY <1>5, <3>1 DEF Covered, IsOp
  <2> QED BY <2>1, <2>2
<1> QED BY <1>4, <1>5 DEF Covered

\* Every other step that keeps the process alive leaves the channel alone.
LEMMA CoveredStays ==
  ASSUME TypeOK, Control, Newer, [Next]_vars, ~Boot, chan' = chan,
         NEW p \in Path, NEW m \in Nat, NEW k, Covered(p, m, k)
  PROVE  Covered(p, m, k)'
<1>1. CASE Received(p, m)
  BY <1>1, ReceivedKeeps DEF Covered
<1> QED BY <1>1 DEF Covered, IsOp

\* Types of the marks.
LEMMA Marks ==
  ASSUME TypeOK
  PROVE  /\ \A a \in Call : mark[a] \in [Path -> Nat]
         /\ \A a \in Call, p \in Path : mark[a][p] \in Nat
  BY ConstantsAssumption DEF TypeOK, Version

\* ChannelCovers with the values it speaks of named.
LEMMA ChannelCoversMeans ==
  ASSUME TypeOK
  PROVE  ChannelCovers <=> \A p \in Path, m \in Nat, k \in Nat :
                             m = latest[p] /\ k = Len(chan) => Covered(p, m, k)
<1>1. Len(chan) \in Nat /\ \A p \in Path : latest[p] \in Nat
  BY Elements
<1>2. ASSUME ChannelCovers, NEW p \in Path, NEW m \in Nat, NEW k \in Nat,
             m = latest[p], k = Len(chan)
      PROVE  Covered(p, m, k)
  BY <1>2 DEF ChannelCovers
<1>3. ASSUME \A p \in Path, m \in Nat, k \in Nat :
               m = latest[p] /\ k = Len(chan) => Covered(p, m, k)
      PROVE  ChannelCovers
  BY <1>1, <1>3 DEF ChannelCovers
<1> QED BY <1>2, <1>3

\* What is handed over is covered by the channel: it gets there by Submit and
\* leaves it by ReceiveOp; a new process starts from what was attempted.
LEMMA ChannelCoversStep ==
  ASSUME TypeOK, TypeOK', Control, Newer, ChannelCovers, [Next]_vars
  PROVE  ChannelCovers'
<1>0. /\ Len(chan) \in Nat /\ \A p \in Path : latest[p] \in Nat
      /\ \A p \in Path, m \in Nat, k \in Nat :
           m = latest[p] /\ k = Len(chan) => Covered(p, m, k)
  BY Elements, ChannelCoversMeans
<1> SUFFICES ASSUME NEW p \in Path, NEW m \in Nat, NEW k \in Nat,
                    m = latest'[p], k = Len(chan')
             PROVE  Covered(p, m, k)'
  <2>1. Len(chan') \in Nat /\ \A p \in Path : latest'[p] \in Nat
    BY ConstantsAssumption, LenProperties DEF TypeOK, Version
  <2> QED BY <2>1 DEF ChannelCovers, Covered, Received
<1>1. ASSUME NEW q \in Path, NEW kind \in {"write", "delete"}, Submit(q, kind)
      PROVE  Covered(p, m, k)'
  <2> DEFINE msg == [type |-> "op", path |-> q, kind |-> kind, n |-> ops + 1]
  <2>1. /\ chan' = Append(chan, msg) /\ latest' = [latest EXCEPT ![q] = ops + 1]
        /\ UNCHANGED <<pending, tried>>
    BY <1>1 DEF Submit, workerVars, fsVars
  <2>2. msg \in Msg /\ msg.type = "op" /\ msg.path = q /\ msg.n = ops + 1
    BY <1>1, ConstantsAssumption DEF Msg, OpMsg, Submit, TypeOK, Version
  <2> HIDE DEF msg
  <2>3. chan'[Len(chan) + 1] = msg /\ Len(chan') = Len(chan) + 1
    BY <2>1, <2>2, SendChan
  <2>4. CASE p # q
    <3>1. latest'[p] = latest[p]
      BY <2>1, <2>4, Elements
    <3>2. k - 1 \in Nat /\ k - 1 = Len(chan)
      BY <1>0, <2>3
    <3>3. Covered(p, m, k - 1)
      BY <1>0, <3>1, <3>2
    <3>4. k - 1 \in 0..Len(chan) /\ k \in (k - 1)..(Len(chan) + 1)
      BY <3>2
    <3> QED BY <2>1, <2>2, <3>3, <3>4, CoveredSend
  <2>5. CASE p = q
    <3>1. m = ops + 1
      BY <2>1, <2>5, Elements
    <3>2. k \in 1..k /\ chan'[k] = msg
      BY <1>0, <2>3
    <3> QED BY <2>2, <2>5, <3>1, <3>2 DEF Covered, IsOp
  <2> QED BY <2>4, <2>5
<1>2. ASSUME NEW a \in Call, FlushStart(a)
      PROVE  Covered(p, m, k)'
  <2> DEFINE msg == [type |-> "flush", ack |-> a]
  <2>1. chan' = Append(chan, msg) /\ UNCHANGED <<pending, tried, latest>>
    BY <1>2 DEF FlushStart, workerVars, fsVars
  <2>2. msg \in Msg
    BY DEF Msg, FlushMsg
  <2> HIDE DEF msg
  <2>3. Len(chan') = Len(chan) + 1
    BY <2>1, <2>2, SendChan
  <2>4. k - 1 \in Nat /\ k - 1 = Len(chan)
    BY <1>0, <2>3
  <2>5. Covered(p, m, k - 1)
    BY <1>0, <2>1, <2>4
  <2>6. k - 1 \in 0..Len(chan) /\ k \in (k - 1)..(Len(chan) + 1)
    BY <2>4
  <2> QED BY <2>1, <2>2, <2>5, <2>6, CoveredSend
<1>3. CASE ReceiveOp \/ ReceiveFlush
  <2>1. chan # <<>> /\ chan' = Tail(chan) /\ latest' = latest
    BY <1>3 DEF ReceiveOp, ReceiveFlush, clientVars
  <2>2. Len(chan') = Len(chan) - 1 /\ k + 1 = Len(chan) /\ k + 1 \in 1..Len(chan)
    BY <1>0, <2>1, ReceiveChan
  <2>3. Covered(p, m, k + 1)
    BY <1>0, <2>1, <2>2
  <2>4. Covered(p, m, (k + 1) - 1)'
    BY <1>3, <2>2, <2>3, CoveredReceive
  <2>5. (k + 1) - 1 = k
    OBVIOUS
  <2> QED BY <2>4, <2>5
<1>4. CASE Boot
  BY <1>4 DEF Boot, Covered, Received, TypeOK, Version
<1>5. CASE UNCHANGED <<chan, latest>> /\ ~Boot
  BY <1>0, <1>5, CoveredStays
<1>6. CASE UNCHANGED vars
  <2>1. UNCHANGED <<chan, latest>>
    BY <1>6 DEF vars, clientVars
  <2> QED BY <1>4, <1>5, <2>1
<1>7. CASE Next
  BY <1>1, <1>2, <1>3, <1>4, <1>5, <1>7, QuietSteps
  DEF Tick, Perform, Finish, clientVars
<1> QED BY <1>6, <1>7

\* A flush message keeps standing behind what its call waits for: its mark is
\* taken when it is sent, and no other call uses its acknowledgement.
LEMMA FlushCoversStep ==
  ASSUME TypeOK, TypeOK', Control, Newer, ChannelCovers, FlushCovers, [Next]_vars
  PROVE  FlushCovers'
<1>0. /\ Len(chan) \in Nat /\ DOMAIN chan = 1..Len(chan) /\ mark \in [Call -> [Path -> Version]]
      /\ \A j \in DOMAIN chan : IsFlush(j) => chan[j].ack \in Call
      /\ \A a \in Call, p \in Path : mark[a][p] \in Nat
      /\ \A p \in Path : latest[p] \in Nat
  BY Elements, Marks DEF TypeOK
<1>1. SUFFICES ASSUME NEW j \in Nat, j \in DOMAIN chan', IsFlush(j)',
                      NEW p \in Path, NEW m \in Nat, m = mark'[chan'[j].ack][p]
               PROVE  Covered(p, m, j - 1)'
  <2>1. \A j \in DOMAIN chan' : /\ j \in Nat
                                /\ IsFlush(j)' => \A p \in Path : mark'[chan'[j].ack][p] \in Nat
    <3>1. /\ chan' \in Seq(Msg) /\ DOMAIN chan' = 1..Len(chan') /\ Len(chan') \in Nat
          /\ mark' \in [Call -> [Path -> Nat]]
      BY ConstantsAssumption, LenProperties DEF TypeOK, Msg, Version
    <3>2. ASSUME NEW j \in DOMAIN chan', IsFlush(j)'
          PROVE  chan'[j].ack \in Call
      <4>1. chan'[j] \in FlushMsg
        BY <3>1, <3>2 DEF IsFlush, Msg, OpMsg
      <4> QED BY <4>1 DEF FlushMsg
    <3> QED BY <3>1, <3>2
  <2> QED BY <1>1, <2>1 DEF FlushCovers, Covered, Received
<1>2. ASSUME NEW i \in Nat, i \in DOMAIN chan, IsFlush(i), m = mark[chan[i].ack][p]
      PROVE  i - 1 \in 0..Len(chan) /\ Covered(p, m, i - 1)
  BY <1>0, <1>2 DEF FlushCovers
<1>3. ASSUME NEW q \in Path, NEW kind \in {"write", "delete"}, Submit(q, kind)
      PROVE  Covered(p, m, j - 1)'
  <2> DEFINE msg == [type |-> "op", path |-> q, kind |-> kind, n |-> ops + 1]
  <2>1. chan' = Append(chan, msg) /\ UNCHANGED <<pending, tried, mark>>
    BY <1>3 DEF Submit, workerVars, fsVars
  <2>2. msg \in Msg /\ msg.type = "op"
    BY <1>3, ConstantsAssumption DEF Msg, OpMsg, Submit, TypeOK, Version
  <2> HIDE DEF msg
  <2>3. j \in DOMAIN chan /\ chan'[j] = chan[j] /\ IsFlush(j)
    BY <1>0, <1>1, <2>1, <2>2, SendChan DEF IsFlush
  <2>4. j - 1 \in 0..Len(chan) /\ Covered(p, m, j - 1)
    BY <1>1, <1>2, <2>1, <2>3
  <2>5. j - 1 \in (j - 1)..(Len(chan) + 1)
    BY <1>0, <2>4
  <2> QED BY <2>1, <2>2, <2>4, <2>5, CoveredSend
<1>4. ASSUME NEW a \in Call, FlushStart(a)
      PROVE  Covered(p, m, j - 1)'
  <2> DEFINE msg == [type |-> "flush", ack |-> a]
  <2>1. /\ chan' = Append(chan, msg) /\ UNCHANGED <<pending, tried, latest>>
        /\ mark' = [mark EXCEPT ![a] = latest]
        /\ \A i \in DOMAIN chan : chan[i] # msg
    BY <1>4 DEF FlushStart, Unused, workerVars, fsVars
  <2>2. msg \in Msg /\ msg.ack = a
    BY DEF Msg, FlushMsg
  <2>3. \A f \in FlushMsg : f.ack = a => f = msg
    BY DEF FlushMsg
  <2> HIDE DEF msg
  <2>4. CASE j \in DOMAIN chan
    <3>1. chan'[j] = chan[j] /\ IsFlush(j)
      BY <1>1, <2>1, <2>2, <2>4, SendChan DEF IsFlush
    <3>2. chan[j] \in FlushMsg
      BY <2>4, <3>1, Elements
    <3>3. chan[j].ack # a
      BY <2>1, <2>3, <2>4, <3>2
    <3>4. mark'[chan[j].ack] = mark[chan[j].ack]
      BY <1>0, <2>1, <2>4, <3>1, <3>3
    <3>5. j - 1 \in 0..Len(chan) /\ Covered(p, m, j - 1)
      BY <1>1, <1>2, <2>4, <3>1, <3>4
    <3>6. j - 1 \in (j - 1)..(Len(chan) + 1)
      BY <1>0, <3>5
    <3> QED BY <2>1, <2>2, <3>5, <3>6, CoveredSend
  <2>5. CASE j \notin DOMAIN chan
    <3>1. j = Len(chan) + 1 /\ chan'[j] = msg
      BY <1>0, <1>1, <2>1, <2>2, <2>5, SendChan
    <3>2. m = latest[p]
      BY <1>0, <1>1, <2>1, <2>2, <3>1
    <3>3. j - 1 \in Nat /\ j - 1 = Len(chan)
      BY <1>0, <3>1
    <3>4. Covered(p, m, j - 1)
      BY <3>2, <3>3, ChannelCoversMeans
    <3>5. j - 1 \in 0..Len(chan) /\ j - 1 \in (j - 1)..(Len(chan) + 1)
      BY <3>3
    <3> QED BY <2>1, <2>2, <3>4, <3>5, CoveredSend
  <2> QED BY <2>4, <2>5
<1>5. CASE ReceiveOp \/ ReceiveFlush
  <2>1. chan # <<>> /\ chan' = Tail(chan) /\ mark' = mark
    BY <1>5 DEF ReceiveOp, ReceiveFlush, clientVars
  <2>2. j + 1 \in DOMAIN chan /\ chan'[j] = chan[j + 1] /\ IsFlush(j + 1)
    BY <1>1, <2>1, ReceiveChan DEF IsFlush
  <2>3. j \in 1..Len(chan) /\ (j + 1) - 1 = j /\ j >= 1
    BY <1>0, <2>1, <1>1, ReceiveChan
  <2>4. Covered(p, m, (j + 1) - 1)
    BY <1>1, <1>2, <2>1, <2>2
  <2>5. Covered(p, m, j)
    BY <2>3, <2>4
  <2> QED BY <1>5, <2>3, <2>5, CoveredReceive
<1>6. CASE Boot
  BY <1>1, <1>6 DEF Boot
<1>7. CASE UNCHANGED <<chan, mark>> /\ ~Boot
  <2>1. j \in DOMAIN chan /\ IsFlush(j) /\ m = mark[chan[j].ack][p]
    BY <1>1, <1>7 DEF IsFlush
  <2>2. Covered(p, m, j - 1)
    BY <1>2, <2>1
  <2> QED BY <1>7, <2>2, CoveredStays
<1>8. CASE UNCHANGED vars
  <2>1. UNCHANGED <<chan, mark>>
    BY <1>8 DEF vars, clientVars
  <2> QED BY <1>6, <1>7, <2>1
<1>9. CASE Next
  BY <1>3, <1>4, <1>5, <1>6, <1>7, <1>9, QuietSteps
  DEF Tick, Perform, Finish, clientVars
<1> QED BY <1>8, <1>9

\* What each step does to the goal and the marks.
LEMMA GoalSteps ==
  ASSUME [Next]_vars
  PROVE  \/ ReceiveFlush
         \/ goal' \in {"loop", "exit"}
         \/ \E a \in Call : FlushStart(a)
         \/ UNCHANGED <<goal, mark>> /\ ~Boot
<1>1. CASE UNCHANGED vars
  BY <1>1 DEF vars, workerVars, clientVars, Boot
<1>2. CASE Worker
  <2>1. CASE Receive
    BY <2>1 DEF Receive, ReceiveOp, ReceiveTimesOut, Disconnected, Boot, clientVars
  <2>2. CASE CollectDue \/ Acknowledge \/ EndBatch
    BY <2>2 DEF CollectDue, Acknowledge, EndBatch, Boot, clientVars
  <2>3. CASE Perform
    <3>1. CASE WriteTemp
      BY <3>1 DEF WriteTemp, Boot, clientVars
    <3>2. ASSUME NEW ok \in BOOLEAN, Finish(ok)
          PROVE  UNCHANGED <<goal, mark>> /\ ~Boot
      BY <3>2 DEF Finish, Boot, clientVars
    <3> QED BY <2>3, <3>1, <3>2, PerformCases
  <2> QED BY <1>2, <2>1, <2>2, <2>3 DEF Worker
<1>3. CASE Caller
  BY <1>3 DEF Caller, Submit, FlushTimesOut, DropHandles, workerVars, Boot
<1>4. CASE Environment
  BY <1>4 DEF Environment, Tick, WriteBack, Reopen, Crash, PowerCut, Boot,
     workerVars, clientVars
<1> QED BY <1>1, <1>2, <1>3, <1>4 DEF Next

\* The call the worker is about to answer stays covered by the queue.
LEMMA GoalCoversStep ==
  ASSUME TypeOK, TypeOK', Control, Newer, FlushCovers, GoalCovers, [Next]_vars
  PROVE  GoalCovers'
<1>0. /\ mark \in [Call -> [Path -> Version]]
      /\ \A a \in Call, p \in Path : mark[a][p] \in Nat /\ mark'[a][p] \in Nat
  BY ConstantsAssumption DEF TypeOK, Version
<1>1. SUFFICES ASSUME goal' \in Call, NEW p \in Path, NEW m \in Nat, m = mark'[goal'][p]
               PROVE  Received(p, m)'
  BY <1>0 DEF GoalCovers, Received
<1>2. CASE ReceiveFlush
  <2>1. /\ chan # <<>> /\ Head(chan).type = "flush" /\ goal' = Head(chan).ack
        /\ UNCHANGED <<pending, tried, mark>>
    BY <1>2 DEF ReceiveFlush, clientVars, fsVars
  <2>2. 1 \in DOMAIN chan /\ IsFlush(1) /\ goal' = chan[1].ack
    BY <2>1, Heads, Elements DEF IsFlush
  <2>3. Covered(p, m, 1 - 1)
    BY <1>1, <2>1, <2>2 DEF FlushCovers
  <2>4. Received(p, m)
    BY <2>3 DEF Covered
  <2> QED BY <2>1, <2>4 DEF Received
<1>3. goal' \notin {"loop", "exit"}
  BY <1>1, ConstantsAssumption
<1>4. ASSUME goal' = goal, mark'[goal] = mark[goal], ~Boot
      PROVE  Received(p, m)'
  <2>1. Received(p, m)
    BY <1>1, <1>4 DEF GoalCovers
  <2> QED BY <1>4, <2>1, ReceivedKeeps
<1>5. ASSUME NEW a \in Call, FlushStart(a)
      PROVE  Received(p, m)'
  <2>1. goal' = goal /\ goal # a /\ mark' = [mark EXCEPT ![a] = latest]
    BY <1>5 DEF FlushStart, Unused, workerVars
  <2>2. mark'[goal] = mark[goal]
    BY <1>0, <1>1, <2>1
  <2>3. ~Boot
    <3>1. goal' # "loop"
      BY <1>3
    <3> QED BY <3>1 DEF Boot
  <2> QED BY <1>4, <2>1, <2>2, <2>3
<1> QED BY <1>2, <1>3, <1>4, <1>5, GoalSteps

\* Attempts only move forward on each path.
LEMMA TriedGrows ==
  ASSUME TypeOK, Control, Newer, [Next]_vars
  PROVE  \A p \in Path : tried[p] <= tried'[p] /\ tried[p] \in Nat /\ tried'[p] \in Nat
<1>0. tried \in [Path -> Nat]
  BY Elements
<1>1. CASE tried' = tried
  BY <1>0, <1>1
<1>2. ASSUME NEW ok \in BOOLEAN, Finish(ok), Perform
      PROVE  \A p \in Path : tried[p] <= tried'[p] /\ tried[p] \in Nat /\ tried'[p] \in Nat
  <2>1. /\ tried' = [tried EXCEPT ![Head(pending).path] = Head(pending).n]
        /\ Head(pending) = pending[1] /\ 1 \in DOMAIN pending
    BY <1>2, FinishQueue, Elements DEF Finish
  <2>2. tried[pending[1].path] < pending[1].n /\ pending[1].n \in Nat
    BY <2>1, Elements DEF Newer, NewerQueue
  <2> QED BY <1>0, <2>1, <2>2
<1>3. CASE UNCHANGED vars
  BY <1>1, <1>3 DEF vars, fsVars
<1>4. CASE Next
  BY <1>1, <1>2, <1>4, QuietSteps
  DEF Submit, FlushStart, Tick, ReceiveOp, ReceiveFlush, Boot, fsVars
<1> QED BY <1>3, <1>4

\* What each step does to the calls.
LEMMA CallSteps ==
  ASSUME [Next]_vars
  PROVE  \/ \E a \in Call : FlushStart(a) \/ FlushTimesOut(a)
         \/ Acknowledge \/ Boot
         \/ UNCHANGED <<call, mark>>
<1>1. CASE UNCHANGED vars
  BY <1>1 DEF vars, clientVars
<1>2. CASE Worker
  <2>1. CASE Receive
    BY <2>1 DEF Receive, ReceiveOp, ReceiveFlush, ReceiveTimesOut, Disconnected, clientVars
  <2>2. CASE CollectDue \/ Acknowledge \/ EndBatch
    BY <2>2 DEF CollectDue, Acknowledge, EndBatch, clientVars
  <2>3. CASE Perform
    <3>1. CASE WriteTemp
      BY <3>1 DEF WriteTemp, clientVars
    <3>2. ASSUME NEW ok \in BOOLEAN, Finish(ok)
          PROVE  UNCHANGED <<call, mark>>
      BY <3>2 DEF Finish, clientVars
    <3> QED BY <2>3, <3>1, <3>2, PerformCases
  <2> QED BY <1>2, <2>1, <2>2, <2>3 DEF Worker
<1>3. CASE Caller
  BY <1>3 DEF Caller, Submit, DropHandles
<1>4. CASE Environment
  BY <1>4 DEF Environment, Tick, WriteBack, Reopen, Crash, PowerCut, clientVars
<1> QED BY <1>1, <1>2, <1>3, <1>4 DEF Next

\* When the worker answers a call, everything it waits for has been attempted.
LEMMA AnsweredGoal ==
  ASSUME TypeOK, Control, GoalCovers, Acknowledge
  PROVE  goal \in Call /\ \A p \in Path : mark[goal][p] <= tried[p]
<1>1. goal \in Call /\ goal # "loop" /\ batch = 0
  BY ConstantsAssumption DEF Acknowledge
<1>2. Len(pending) = 0
  BY <1>1 DEF Control
<1>3. DOMAIN pending = {}
  BY <1>2, Elements
<1> QED BY <1>1, <1>3 DEF GoalCovers, Received

\* A call is answered only when nothing it waits for is left.
LEMMA FlushCompleteStep ==
  ASSUME TypeOK, TypeOK', Control, Newer, GoalCovers, FlushComplete, [Next]_vars
  PROVE  FlushComplete'
<1>0. /\ call \in [Call -> {"idle", "waiting", "ok", "timeout"}]
      /\ mark \in [Call -> [Path -> Version]]
      /\ \A a \in Call, p \in Path : mark[a][p] \in Nat
  BY Marks DEF TypeOK
<1>1. SUFFICES ASSUME NEW a \in Call, call'[a] = "ok"
               PROVE  mark'[a] = mark[a] /\ \A p \in Path : mark[a][p] <= tried[p]
  BY <1>0, TriedGrows DEF FlushComplete
<1>2. ASSUME call[a] = "ok", mark'[a] = mark[a]
      PROVE  mark'[a] = mark[a] /\ \A p \in Path : mark[a][p] <= tried[p]
  BY <1>2 DEF FlushComplete
<1>3. ASSUME NEW b \in Call, FlushStart(b) \/ FlushTimesOut(b)
      PROVE  call[a] = "ok" /\ mark'[a] = mark[a]
  BY <1>0, <1>1, <1>3 DEF FlushStart, FlushTimesOut
<1>4. CASE Acknowledge
  <2>1. mark' = mark
    BY <1>4 DEF Acknowledge
  <2>2. CASE a = goal
    BY <1>4, <2>1, <2>2, AnsweredGoal
  <2>3. CASE a # goal
    <3>1. call[a] = "ok"
      BY <1>0, <1>1, <1>4, <2>3 DEF Acknowledge
    <3> QED BY <1>2, <2>1, <3>1
  <2> QED BY <2>2, <2>3
<1>5. CASE Boot
  BY <1>1, <1>5 DEF Boot
<1> QED BY <1>1, <1>2, <1>3, <1>4, <1>5, CallSteps

\* Every step preserves the inductive invariant.
LEMMA IInvStep == IInv /\ [Next]_vars => IInv'
<1> SUFFICES ASSUME IInv, [Next]_vars PROVE IInv'
  OBVIOUS
<1>1. /\ TypeOK /\ Control /\ QueueOrder /\ Newer /\ Files /\ FlushComplete
      /\ ChannelCovers /\ FlushCovers /\ GoalCovers
      /\ NothingLostSilently /\ OneTempPerCrash /\ WindowHonoured
  BY DEF IInv, NothingDropped
<1>2. TypeOK'
  BY <1>1, TypeStep
<1>3. Control' /\ QueueOrder' /\ Newer' /\ WindowHonoured'
  BY <1>1, ControlStep, QueueOrderStep, NewerStep, WindowStep
<1>4. Files' /\ NothingLostSilently' /\ OneTempPerCrash'
  BY <1>1, FilesStep
<1>5. ChannelCovers' /\ FlushCovers' /\ GoalCovers' /\ FlushComplete'
  BY <1>1, <1>2, ChannelCoversStep, FlushCoversStep, GoalCoversStep, FlushCompleteStep
<1> QED BY <1>2, <1>3, <1>4, <1>5 DEF IInv, NothingDropped

-----------------------------------------------------------------------------
(* The theorems *)

\* The inductive invariant holds in every reachable state.
THEOREM Invariance == Spec => []IInv
<1>1. Init => IInv
  BY InitEstablishes
<1>2. IInv /\ [Next]_vars => IInv'
  BY IInvStep
<1> QED BY <1>1, <1>2, PTL DEF Spec

\* Every variable of the write queue keeps its type.
THEOREM TypeCorrect == Spec => []TypeOK
<1>1. IInv => TypeOK
  BY DEF IInv
<1> QED BY <1>1, Invariance, PTL

\* The queue holds a path at most once and its first job is the earliest due,
\* so that run may sleep until the head's deadline.
THEOREM QueueIsOrdered == Spec => []QueueOrder
<1>1. IInv => QueueOrder
  BY DEF IInv
<1> QED BY <1>1, Invariance, PTL

\* A flush that answered has waited for every operation sent before it.
THEOREM FlushIsComplete == Spec => []FlushComplete
<1>1. IInv => FlushComplete
  BY DEF IInv
<1> QED BY <1>1, Invariance, PTL

\* An ended thread has nothing queued, and nothing can be sent any more.
LEMMA Drained == IInv => ExitDrained
<1> SUFFICES ASSUME IInv, pc = "exit" PROVE tried = latest /\ chan = <<>> /\ ~open
  BY DEF ExitDrained
<1>1. TypeOK /\ Control /\ ChannelCovers /\ NewerPaths
  BY DEF IInv, NothingDropped, Newer
<1>2. goal = "exit" /\ goal # "loop" /\ batch = 0 /\ chan = <<>> /\ ~open
  BY <1>1 DEF Control
<1>3. Len(pending) = 0 /\ Len(chan) = 0
  BY <1>1, <1>2, EmptySeq DEF Control
<1>4. DOMAIN pending = {}
  BY <1>1, <1>3, Elements
<1>5. ASSUME NEW p \in Path
      PROVE  tried[p] = latest[p]
  <2>1. Covered(p, latest[p], 0)
    BY <1>1, <1>3 DEF ChannelCovers
  <2>2. latest[p] <= tried[p]
    BY <1>4, <2>1 DEF Covered, Received
  <2> QED BY <1>1, <2>2, Elements DEF NewerPaths
<1>6. tried \in [Path -> Nat] /\ latest \in [Path -> Nat]
  BY <1>1, Elements
<1> QED BY <1>2, <1>5, <1>6

\* The thread ends only after everything that was sent has been attempted.
THEOREM ExitIsDrained == Spec => []ExitDrained
  BY Drained, Invariance, PTL

\* Without a failure or a power cut the files show what was attempted last,
\* however often the process is killed.
THEOREM NothingIsLostSilently == Spec => []NothingLostSilently
<1>1. IInv => NothingLostSilently
  BY DEF IInv
<1> QED BY <1>1, Invariance, PTL

\* Each crash leaves at most one temporary file behind.
THEOREM TempFilesBounded == Spec => []OneTempPerCrash
<1>1. IInv => OneTempPerCrash
  BY DEF IInv
<1> QED BY <1>1, Invariance, PTL

\* Jobs the timer performs have waited for the whole coalescing window.
THEOREM WindowIsHonoured == Spec => []WindowHonoured
<1>1. IInv => WindowHonoured
  BY DEF IInv
<1> QED BY <1>1, Invariance, PTL

\* What a step may do to the files.
LEMMA DiskSteps ==
  ASSUME [Next]_vars
  PROVE  \/ Perform /\ \E ok \in BOOLEAN : Finish(ok)
         \/ PowerCut
         \/ disk' = disk
<1>1. CASE UNCHANGED vars
  BY <1>1 DEF vars, fsVars
<1>2. CASE Worker
  <2>1. CASE Receive
    BY <2>1 DEF Receive, ReceiveOp, ReceiveFlush, ReceiveTimesOut, Disconnected, fsVars
  <2>2. CASE CollectDue \/ Acknowledge \/ EndBatch
    BY <2>2 DEF CollectDue, Acknowledge, EndBatch, fsVars
  <2>3. CASE Perform
    <3>1. CASE WriteTemp
      BY <3>1 DEF WriteTemp
    <3> QED BY <2>3, <3>1, PerformCases
  <2> QED BY <1>2, <2>1, <2>2, <2>3 DEF Worker
<1>3. CASE Caller
  BY <1>3 DEF Caller, Submit, FlushStart, FlushTimesOut, DropHandles, fsVars
<1>4. CASE Environment
  BY <1>4 DEF Environment, Tick, WriteBack, Reopen, Crash, fsVars
<1> QED BY <1>1, <1>2, <1>3, <1>4 DEF Next

\* What an attempt does to the abstract store: it settles one path.
LEMMA FinishSettles ==
  ASSUME IInv, Perform, NEW ok \in BOOLEAN, Finish(ok)
  PROVE  \E p \in Path, i \in 1..ops :
           /\ tried[p] < i /\ i <= latest[p] /\ disk[p] < i
           /\ tried' = [tried EXCEPT ![p] = i]
           /\ disk' = disk \/ disk' = [disk EXCEPT ![p] = i]
           /\ UNCHANGED <<ops, latest, call, mark, powerCuts>>
<1>1. TypeOK /\ Control /\ Newer /\ Files
  BY DEF IInv
<1>2. Head(pending) = pending[1] /\ 1 \in DOMAIN pending
  <2>1. Len(pending) \in Nat \ {0} /\ Head(pending) = pending[1]
    BY <1>1, FinishQueue
  <2>2. DOMAIN pending = 1..Len(pending)
    BY <1>1, Elements
  <2> QED BY <2>1, <2>2
<1>3. /\ pending[1].path \in Path /\ pending[1].n \in Nat
      /\ tried[pending[1].path] < pending[1].n
      /\ pending[1].n <= latest[pending[1].path]
  BY <1>1, <1>2, Elements DEF Newer, NewerQueue
<1>4. /\ tried[pending[1].path] \in Nat /\ latest[pending[1].path] \in Nat /\ ops \in Nat
      /\ latest[pending[1].path] <= ops
      /\ disk[pending[1].path] <= tried[pending[1].path]
      /\ disk[pending[1].path] \in Nat
  BY <1>1, <1>3, Elements DEF Newer, NewerPaths, Files, TypeOK, Version
<1>5. pending[1].n \in 1..ops /\ disk[pending[1].path] < pending[1].n
  BY <1>3, <1>4
<1>6. /\ tried' = [tried EXCEPT ![pending[1].path] = pending[1].n]
      /\ UNCHANGED <<ops, latest, call, mark, powerCuts>>
  BY <1>2 DEF Finish, clientVars
<1>7. disk' = disk \/ disk' = [disk EXCEPT ![pending[1].path] = pending[1].n]
  BY <1>2, Zenon DEF Finish
<1> QED BY <1>3, <1>5, <1>6, <1>7

\* On no path do the files go back while the power stays on.
THEOREM DiskOnlyAdvances == Spec => DiskNeverRewinds
<1>1. IInv /\ [Next]_vars => [powerCuts' = powerCuts => \A p \in Path : disk[p] <= disk'[p]]_vars
  <2> SUFFICES ASSUME IInv, [Next]_vars, powerCuts' = powerCuts, NEW p \in Path
               PROVE  disk[p] <= disk'[p]
    OBVIOUS
  <2>0. disk \in [Path -> Nat] /\ powerCuts \in Nat
    BY ConstantsAssumption DEF IInv, TypeOK, Version
  <2>1. CASE Perform /\ \E ok \in BOOLEAN : Finish(ok)
    <3>1. PICK q \in Path, i \in 1..ops :
            disk[q] < i /\ (disk' = disk \/ disk' = [disk EXCEPT ![q] = i])
      BY <2>1, FinishSettles
    <3> QED BY <2>0, <3>1
  <2>2. ~PowerCut
    BY <2>0 DEF PowerCut
  <2>3. CASE disk' = disk
    BY <2>0, <2>3
  <2> QED BY <2>1, <2>2, <2>3, DiskSteps
<1> QED BY <1>1, Invariance, PTL DEF Spec, DiskNeverRewinds

-----------------------------------------------------------------------------
(* The queue implements DurableStore *)

\* The initial states agree.
LEMMA InitImplements == Init => Durable!Init
  BY DEF Init, Zero, Durable!Init

\* A step of the thread is an answer, an attempt, or invisible to callers.
LEMMA WorkerImplements == IInv /\ Worker => [Durable!Next]_(Durable!vars)
<1> SUFFICES ASSUME IInv, Worker PROVE [Durable!Next]_(Durable!vars)
  OBVIOUS
<1>1. CASE Receive \/ CollectDue \/ EndBatch \/ WriteTemp
  BY <1>1 DEF Receive, ReceiveOp, ReceiveFlush, ReceiveTimesOut, Disconnected,
     CollectDue, EndBatch, WriteTemp, clientVars, fsVars, Durable!vars
<1>2. CASE Acknowledge
  <2>1. goal \in Call /\ \A p \in Path : mark[goal][p] <= tried[p]
    BY <1>2, AnsweredGoal DEF IInv, NothingDropped
  <2>2. CASE call[goal] = "waiting"
    <3>1. Durable!Answer(goal)
      BY <1>2, <2>1, <2>2 DEF Acknowledge, fsVars, Durable!Answer
    <3> QED BY <2>1, <3>1 DEF Durable!Next
  <2>3. CASE call[goal] # "waiting"
    BY <1>2, <2>3 DEF Acknowledge, fsVars, Durable!vars
  <2> QED BY <2>2, <2>3
<1>3. ASSUME NEW ok \in BOOLEAN, Finish(ok), Perform
      PROVE  Durable!Next
  <2>1. PICK p \in Path, i \in 1..ops :
          /\ tried[p] < i /\ i <= latest[p]
          /\ tried' = [tried EXCEPT ![p] = i]
          /\ disk' = disk \/ disk' = [disk EXCEPT ![p] = i]
          /\ UNCHANGED <<ops, latest, call, mark>>
    BY <1>3, FinishSettles
  <2>2. Durable!Settle(p, i)
    BY <2>1 DEF Durable!Settle
  <2> QED BY <2>2 DEF Durable!Next
<1> QED BY <1>1, <1>2, <1>3, PerformCases DEF Worker

\* A step of a caller hands over an operation, asks, gives up, or lets go.
LEMMA CallerImplements == IInv /\ Caller => [Durable!Next]_(Durable!vars)
<1> SUFFICES ASSUME IInv, Caller PROVE [Durable!Next]_(Durable!vars)
  OBVIOUS
<1>1. ASSUME NEW p \in Path, NEW kind \in {"write", "delete"}, Submit(p, kind)
      PROVE  Durable!Next
  BY <1>1 DEF Submit, fsVars, Durable!Next, Durable!HandOver
<1>2. ASSUME NEW a \in Call, FlushStart(a)
      PROVE  Durable!Next
  BY <1>2 DEF FlushStart, Unused, fsVars, Durable!Next, Durable!Ask
<1>3. ASSUME NEW a \in Call, FlushTimesOut(a)
      PROVE  Durable!Next
  BY <1>3 DEF FlushTimesOut, fsVars, Durable!Next, Durable!GiveUp
<1>4. CASE DropHandles
  BY <1>4 DEF DropHandles, fsVars, Durable!vars
<1> QED BY <1>1, <1>2, <1>3, <1>4 DEF Caller

\* Time and write-back are invisible; a new process is a restart.
LEMMA EnvironmentImplements == IInv /\ Environment => [Durable!Next]_(Durable!vars)
<1> SUFFICES ASSUME IInv, Environment PROVE [Durable!Next]_(Durable!vars)
  OBVIOUS
<1>1. CASE Tick \/ \E p \in Path : WriteBack(p)
  BY <1>1 DEF Tick, WriteBack, clientVars, fsVars, Durable!vars
<1>2. CASE Reopen \/ Crash \/ PowerCut
  <2>1. /\ disk \in [Path -> Nat] /\ media \in [Path -> Nat]
        /\ \A p \in Path : media[p] <= disk[p]
    BY ConstantsAssumption DEF IInv, TypeOK, Version, Files
  <2>2. Boot /\ (disk' = disk \/ disk' = media)
    BY <1>2 DEF Reopen, Crash, PowerCut
  <2>3. disk' \in [Path -> Nat] /\ \A p \in Path : disk'[p] <= disk[p]
    BY <2>1, <2>2
  <2>4. Durable!Restart
    BY <2>2, <2>3 DEF Boot, Zero, Durable!Restart
  <2> QED BY <2>4 DEF Durable!Next
<1> QED BY <1>1, <1>2 DEF Environment

\* Every behaviour of the write queue is one DurableStore allows: callers may
\* forget that there is a queue, a thread and a clock.
THEOREM Implements == Spec => ImplementsDurableStore
<1>1. Init => Durable!Init
  BY InitImplements
<1>2. IInv /\ [Next]_vars => [Durable!Next]_(Durable!vars)
  <2>1. IInv /\ UNCHANGED vars => UNCHANGED Durable!vars
    BY DEF vars, clientVars, fsVars, Durable!vars
  <2> QED BY <2>1, WorkerImplements, CallerImplements, EnvironmentImplements DEF Next
<1> QED BY <1>1, <1>2, Invariance, PTL DEF Spec, ImplementsDurableStore, Durable!Spec

=============================================================================
